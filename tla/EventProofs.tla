----------------------------- MODULE EventProofs -----------------------------
(***************************************************************************)
(* Theorems about EventConsumer, for all three loops and any numbers of    *)
(* events, faults, events per poll and events per batch: the types, what   *)
(* the faults cost, that the loops implement EventDelivery, and that the   *)
(* outcomes on record are those of the latest events.                      *)
(***************************************************************************)
EXTENDS EventConsumer, FiniteSetTheorems, TLAPS

-----------------------------------------------------------------------------
(* The invariants.                                                         *)

\* How far the events are settled or in hand: up to the position, or, while no
\* process runs, up to the committed offset the next one starts at.
Frontier == IF Up THEN run.position ELSE committed

\* What is in hand are the events after k up to the position, never more than a
\* batch, and a handler is given at least one.
HeldFrom(k) ==
  /\ run.held = (k+1)..run.position
  /\ run.position - k <= Width
  /\ run.at = "poll" => run.position - k < Width
  /\ run.at \in {"handle", "flush"} => k < run.position

\* The offsets are in order.
Shaped ==
  /\ run.position <= run.fetched /\ run.fetched <= Len(topic)
  /\ Up => committed <= run.position
  /\ ~Up => run = Down
  /\ run.at = "flush" => loop = "batch"
  /\ \E k \in 0..run.position : HeldFrom(k)

\* An event before the frontier has been handled or passed over, or is in hand; one
\* that is not published has not been handled.
Settled ==
  /\ \A i \in 1..Frontier : handled[i] > 0 \/ i \in passed \/ i \in run.held
  /\ \A i \in Offset : i > Len(topic) => handled[i] = 0

\* An event is handled once more than events were delivered anew, at most, and one
\* that is still to be handled not even that.
Bounded ==
  \A i \in Offset :
    /\ handled[i] <= Replays + 1
    /\ i \in run.held \/ i > Frontier => handled[i] <= Replays

\* Events that could have been recorded and were passed over.
Spilt == {i \in passed : loop = "feedback" => topic[i].kind = "good"}

\* Each fault has spilt what was in hand, at most.
SpiltInv == passed \subseteq 1..Len(topic) /\ Cardinality(Spilt) <= Width * Faults

\* The outcome on record is that of an event after which all that the group has been
\* through were passed over; without one, no event of the intervention was handled.
RecordInv ==
  loop = "feedback" => \A k \in Intervention :
    LET mine == {i \in 1..Len(topic) : topic[i].key = k}
    IN \/ outcome[k] = NoOutcome /\ \A i \in mine : handled[i] = 0
       \/ \E i \in mine :
            /\ handled[i] > 0 /\ topic[i].outcome = outcome[k]
            /\ \A j \in mine \ passed : j <= Frontier /\ j \notin run.held => j <= i

TypeInv == TypeOK /\ Shaped

-----------------------------------------------------------------------------
(* Type correctness.                                                       *)

\* The types of what the steps use.
LEMMA Types ==
  ASSUME TypeOK
  PROVE  /\ MaxEvents \in Nat /\ Len(topic) \in Nat /\ Len(topic) <= MaxEvents
         /\ run.at \in Place /\ run.position \in 0..MaxEvents /\ run.fetched \in 0..MaxEvents
         /\ run.held \in SUBSET Offset /\ run.count \in Nat
         /\ committed \in Nat /\ committed <= Len(topic)
         /\ Width \in Nat \ {0} /\ Faults \in Nat /\ Replays \in Nat
         /\ faults["kill"] \in Nat /\ faults["interrupt"] \in Nat /\ faults["error"] \in Nat
  BY ConsumerAssumption DEF TypeOK, RunState, Width, Faults, Replays, AnyFault

\* How many events are in hand.
LEMMA HeldCount ==
  ASSUME TypeOK, NEW k \in 0..run.position, HeldFrom(k)
  PROVE  IsFiniteSet(run.held) /\ Cardinality(run.held) = run.position - k
<1>1. run.position \in Int /\ k \in Int /\ k+1 \in Int /\ k <= run.position
  BY Types
<1>2. /\ IsFiniteSet((k+1)..run.position)
      /\ Cardinality((k+1)..run.position)
           = IF k+1 > run.position THEN 0 ELSE run.position - (k+1) + 1
  BY <1>1, FS_Interval
<1> QED
  BY <1>1, <1>2 DEF HeldFrom

LEMMA DownType == Down \in RunState
  BY ConsumerAssumption DEF Down, RunState, Place, Offset

\* A process that ends has the types and the shape of one that is down.
LEMMA DownShaped ==
  ASSUME TypeOK, run' = Down, UNCHANGED <<loop, topic>>
  PROVE  run' \in RunState /\ Shaped'
<1>1. run' \in RunState
  BY DownType
<1>2. HeldFrom(0)'
  BY ConsumerAssumption DEF HeldFrom, Down, Width
<1> QED
  BY <1>1, <1>2, Types DEF Shaped, Down, Up

\* A process that loses what it holds and polls again keeps its shape.
LEMMA EmptyShaped ==
  ASSUME TypeInv, Up, NEW n \in Nat, UNCHANGED <<loop, topic, committed>>,
         run' = [run EXCEPT !.at = "poll", !.held = {}, !.count = n]
  PROVE  run' \in RunState /\ Shaped'
<1> USE DEF TypeInv
<1>1. run \in RunState
  BY DEF TypeOK
<1>2. run' \in RunState
  BY <1>1 DEF RunState, Place
<1>3. /\ run'.at = "poll" /\ run'.held = {} /\ run'.position = run.position
      /\ run'.fetched = run.fetched
  BY <1>1 DEF RunState
<1>4. run.position \in Nat /\ Width' = Width /\ Width \in Nat \ {0}
  BY Types DEF Width
<1>5. HeldFrom(run.position)'
  BY <1>3, <1>4 DEF HeldFrom
<1> QED
  BY <1>2, <1>3, <1>4, <1>5 DEF Shaped, Up

\* To have handled the events of a set once more is still a count.
LEMMA AgainType ==
  ASSUME TypeOK, NEW S
  PROVE  Again(S) \in [Offset -> Nat]
  BY DEF Again, TypeOK

LEMMA FailsType ==
  ASSUME TypeOK, NEW kind \in AnyFault, Fails(kind)
  PROVE  /\ faults' \in [AnyFault -> Nat]
         /\ faults'[kind] = faults[kind] + 1
         /\ \A f \in AnyFault \ {kind} : faults'[f] = faults[f]
  BY DEF Fails, TypeOK

LEMMA TypeInit == Init => TypeInv
<1> SUFFICES ASSUME Init PROVE TypeInv
  OBVIOUS
<1>1. TypeOK
  BY ConsumerAssumption, DownType DEF Init, TypeOK, AnyFault
<1>2. HeldFrom(0)
  BY ConsumerAssumption DEF Init, HeldFrom, Down, Width
<1> QED
  BY <1>1, <1>2 DEF Init, TypeInv, Shaped, Down, Up

LEMMA TypeStep == TypeInv /\ [Next]_vars => TypeInv'
<1> SUFFICES ASSUME TypeInv, [Next]_vars PROVE TypeInv'
  OBVIOUS
<1> USE DEF TypeInv
<1>t. run \in RunState /\ topic \in Seq(Event)
  BY DEF TypeOK
<1>k. PICK k \in 0..run.position : HeldFrom(k)
  BY DEF Shaped
<1>p. /\ run.position \in Nat /\ run.fetched \in Nat /\ k \in Nat /\ MaxEvents \in Nat
      /\ run.position <= run.fetched /\ run.fetched <= Len(topic) /\ Len(topic) <= MaxEvents
      /\ Len(topic) \in Nat /\ committed \in Nat /\ committed <= Len(topic)
  BY Types, ConsumerAssumption DEF Shaped
<1>1. CASE Publish
  <2>1. PICK e \in Event : topic' = Append(topic, e)
    BY <1>1, ConsumerAssumption DEF Publish, Inputs, Event, Kind, Key
  <2>2. topic' \in Seq(Event) /\ Len(topic') = Len(topic) + 1 /\ Len(topic') <= MaxEvents
    BY <1>t, <1>p, <1>1, <2>1 DEF Publish
  <2>3. TypeOK'
    BY <1>1, <1>p, <2>2 DEF Publish, TypeOK
  <2>4. HeldFrom(k)'
    BY <1>1, <1>k DEF Publish, HeldFrom, Width
  <2> QED
    BY <1>1, <1>p, <2>2, <2>3, <2>4 DEF Publish, Shaped, Up
<1>2. CASE Start
  <2>1. /\ run' \in RunState /\ run'.at = "poll" /\ run'.position = committed
        /\ run'.fetched = committed /\ run'.held = {}
    <3>1. run' = [at |-> "poll", position |-> committed, fetched |-> committed,
                  held |-> {}, count |-> 0]
      BY <1>2 DEF Start, Down
    <3>2. committed \in 0..MaxEvents
      BY <1>p
    <3> QED
      BY <3>1, <3>2 DEF RunState, Place
  <2>2. HeldFrom(committed)'
    <3>1. (committed+1)..committed = {} /\ committed - committed = 0
      BY <1>p
    <3>2. Width' \in Nat \ {0}
      BY <1>2, ConsumerAssumption DEF Start, Width
    <3>3. committed' = committed
      BY <1>2 DEF Start
    <3> QED
      BY <2>1, <1>p, <3>1, <3>2, <3>3 DEF HeldFrom
  <2>3. TypeOK'
    BY <1>2, <2>1 DEF Start, TypeOK
  <2> QED
    BY <1>2, <1>p, <2>1, <2>2, <2>3 DEF Start, Shaped, Up
<1>3. CASE Poll
  <2>1. /\ run' = [run EXCEPT !.fetched = run'.fetched]
        /\ run'.fetched \in run.position..Len(topic)
    BY <1>3, <1>t, <1>p, ConsumerAssumption DEF Poll, RunState
  <2>2. /\ run' \in RunState /\ run'.at = run.at /\ run'.position = run.position
        /\ run'.held = run.held
    BY <1>t, <1>p, <2>1 DEF RunState
  <2>3. HeldFrom(k)'
    BY <1>3, <1>k, <2>2 DEF Poll, HeldFrom, Width
  <2>4. TypeOK'
    BY <1>3, <2>2 DEF Poll, TypeOK
  <2> QED
    BY <1>3, <1>p, <2>1, <2>2, <2>3, <2>4 DEF Poll, Polling, Shaped, Up
<1>4. CASE AutoCommit
  <2>1. HeldFrom(k)'
    BY <1>4, <1>k DEF AutoCommit, HeldFrom, Width
  <2>2. TypeOK'
    BY <1>4, <1>p DEF AutoCommit, TypeOK
  <2> QED
    BY <1>4, <1>p, <2>1, <2>2 DEF AutoCommit, Polling, Shaped, Up
<1>5. CASE Take
  <2>0. PICK i \in Nat : i = run.position + 1
    BY <1>p
  <2>1. i \in Offset /\ i \in 1..Len(topic) /\ i <= run.fetched /\ run.at = "poll"
    BY <1>5, <1>p, <2>0 DEF Take, Offset
  <2>2. Width \in Nat \ {0}
    BY Types
  <2>3. CASE run' = [run EXCEPT !.position = i] /\ passed' = passed \cup {i} /\ loop = "feedback"
    <3>1. /\ run' \in RunState /\ run'.at = "poll" /\ run'.position = i
          /\ run'.held = run.held /\ run'.fetched = run.fetched
      BY <1>t, <1>p, <2>1, <2>3 DEF RunState, Offset
    <3>2. Width = 1 /\ run.position = k
      BY <1>k, <1>p, <2>1, <2>3 DEF Width, HeldFrom
    <3>3. run.held = {}
      BY <1>k, <1>p, <3>2 DEF HeldFrom
    <3>4. HeldFrom(i)'
      BY <1>5, <1>p, <2>0, <3>1, <3>2, <3>3 DEF HeldFrom, Take, Width
    <3>5. TypeOK'
      BY <1>5, <2>1, <2>3, <3>1 DEF Take, TypeOK
    <3>6. i \in 0..run'.position
      BY <1>p, <2>0, <3>1
    <3> QED
      BY <1>5, <1>p, <2>0, <2>1, <3>1, <3>4, <3>5, <3>6 DEF Take, Shaped, Up
  <2>4. CASE /\ UNCHANGED passed
             /\ run' = [run EXCEPT !.position = i, !.held = @ \cup {i},
                          !.at = IF loop = "batch" /\ ~(Cardinality(run.held) + 1 >= BatchSize)
                                 THEN "poll" ELSE "handle"]
    <3>1. /\ run' \in RunState /\ run'.position = i /\ run'.held = run.held \cup {i}
          /\ run'.fetched = run.fetched
          /\ run'.at = IF loop = "batch" /\ ~(Cardinality(run.held) + 1 >= BatchSize)
                       THEN "poll" ELSE "handle"
      <4>1. run.held \cup {i} \in SUBSET Offset /\ i \in 0..MaxEvents
        BY <1>t, <1>p, <2>1 DEF RunState, Offset
      <4> QED
        BY <1>t, <2>4, <4>1 DEF RunState, Place
    <3>2. Cardinality(run.held) = run.position - k
      BY <1>k, HeldCount
    <3>3. run'.held = (k+1)..i
      BY <1>k, <1>p, <2>0, <3>1 DEF HeldFrom
    <3>4. run.position - k < Width
      BY <1>k, <2>1 DEF HeldFrom
    <3>5. i - k <= Width
      BY <1>p, <2>0, <2>2, <3>4
    <3>6. run'.at = "poll" => i - k < Width
      BY <1>p, <2>0, <2>2, <3>1, <3>2, ConsumerAssumption DEF Width
    <3>7. HeldFrom(k)'
      <4>1. k < i /\ Width' = Width
        BY <1>5, <1>p, <2>0 DEF Take, Width
      <4> QED
        BY <3>1, <3>3, <3>5, <3>6, <4>1 DEF HeldFrom
    <3>8. TypeOK'
      BY <1>5, <2>1, <2>4, <3>1 DEF Take, TypeOK
    <3>9. k \in 0..run'.position
      BY <1>p, <2>0, <3>1
    <3> QED
      BY <1>5, <1>p, <2>0, <2>1, <3>1, <3>7, <3>8, <3>9 DEF Take, Shaped, Up
  <2> QED
    BY <1>5, <2>0, <2>3, <2>4 DEF Take
<1>6. CASE Handle
  <2>1. outcome' \in [Intervention -> Outcome \cup {NoOutcome}]
    <3>1. ASSUME NEW j \in run.held PROVE topic[j].outcome \in Outcome
      <4>1. j \in 1..Len(topic)
        BY <1>k, <1>p, <3>1 DEF HeldFrom
      <4>2. topic[j] \in Event
        BY <1>t, <4>1
      <4> QED
        BY <4>2 DEF Event
    <3> QED
      BY <1>6, <3>1 DEF Handle, Recorded, TypeOK
  <2>2. /\ handled' \in [Offset -> Nat]
        /\ UNCHANGED <<loop, topic, passed, faults>>
    BY <1>6, AgainType DEF Handle
  <2>3. CASE Close
    <3>1. run' \in RunState /\ Shaped' /\ committed' = run.position
      BY <2>2, <2>3, DownShaped DEF Close
    <3> QED
      BY <1>p, <2>1, <2>2, <3>1 DEF TypeOK
  <2>4. CASE /\ UNCHANGED committed
             /\ run' = [run EXCEPT !.at = "poll", !.held = {},
                          !.count = IF loop = "each" /\ MaxMessages > 0 THEN @ + 1 ELSE 0]
    <3>1. PICK n \in Nat : run' = [run EXCEPT !.at = "poll", !.held = {}, !.count = n]
      <4>1. PICK n \in Nat : n = IF loop = "each" /\ MaxMessages > 0 THEN run.count + 1 ELSE 0
        BY <1>t DEF RunState
      <4>2. run' = [run EXCEPT !.at = "poll", !.held = {}, !.count = n]
        BY <1>t, <2>4, <4>1 DEF RunState
      <4> QED
        BY <4>2
    <3>2. run' \in RunState /\ Shaped'
      BY <1>6, <2>2, <2>4, <3>1, EmptyShaped DEF Handle, Up
    <3> QED
      BY <1>p, <2>1, <2>2, <2>4, <3>2 DEF TypeOK
  <2> QED
    BY <1>6, <2>3, <2>4 DEF Handle
<1>7. CASE Flush
  <2>1. run' \in RunState /\ Shaped' /\ committed' = run.position
    BY <1>7, DownShaped DEF Flush, Close
  <2>2. handled' \in [Offset -> Nat]
    BY <1>7, AgainType DEF Flush
  <2> QED
    BY <1>7, <1>p, <2>1, <2>2 DEF Flush, TypeOK
<1>8. CASE Raise
  <2>1. faults' \in [AnyFault -> Nat]
    BY <1>8, FailsType DEF Raise, AnyFault, TypeOK
  <2>2. passed' \subseteq Offset /\ UNCHANGED <<loop, topic, handled, outcome>>
    BY <1>8, <1>t DEF Raise, TypeOK, RunState
  <2>3. CASE Close
    <3>1. run' \in RunState /\ Shaped' /\ committed' = run.position
      BY <2>2, <2>3, DownShaped DEF Close
    <3> QED
      BY <1>p, <2>1, <2>2, <3>1 DEF TypeOK
  <2>4. CASE UNCHANGED committed /\ run' = [run EXCEPT !.at = "poll", !.held = {}]
    <3>1. PICK n \in Nat : run' = [run EXCEPT !.at = "poll", !.held = {}, !.count = n]
      <4>1. run.count \in Nat
        BY <1>t DEF RunState
      <4>2. run' = [run EXCEPT !.at = "poll", !.held = {}, !.count = run.count]
        BY <1>t, <2>4 DEF RunState
      <4> QED
        BY <4>1, <4>2
    <3>2. run' \in RunState /\ Shaped'
      BY <1>8, <2>2, <2>4, <3>1, EmptyShaped DEF Raise, Up
    <3> QED
      BY <1>p, <2>1, <2>2, <2>4, <3>2 DEF TypeOK
  <2> QED
    BY <1>8, <2>3, <2>4 DEF Raise, Raised
<1>9. CASE Interrupt
  <2>1. faults' \in [AnyFault -> Nat] /\ UNCHANGED <<loop, topic, outcome>>
    BY <1>9, FailsType DEF Interrupt, AnyFault
  <2>2. CASE Close /\ passed' = passed \cup run.held /\ UNCHANGED handled
    <3>1. run' \in RunState /\ Shaped' /\ committed' = run.position
      BY <2>1, <2>2, DownShaped DEF Close
    <3>2. passed' \subseteq Offset
      BY <1>t, <2>2 DEF TypeOK, RunState
    <3> QED
      BY <1>p, <2>1, <2>2, <3>1, <3>2 DEF TypeOK
  <2>3. CASE /\ loop = "batch" /\ run.held # {}
             /\ run' = [run EXCEPT !.at = "flush"]
             /\ UNCHANGED handled \/ handled' = Again(run.held)
             /\ UNCHANGED <<committed, passed>>
    <3>1. /\ run' \in RunState /\ run'.at = "flush" /\ run'.position = run.position
          /\ run'.held = run.held /\ run'.fetched = run.fetched
      BY <1>t, <2>3 DEF RunState, Place
    <3>2. handled' \in [Offset -> Nat]
      BY <2>3, AgainType DEF TypeOK
    <3>3. k < run.position
      BY <1>k, <1>p, <2>3 DEF HeldFrom
    <3>4. HeldFrom(k)'
      BY <1>k, <2>1, <3>1, <3>3 DEF HeldFrom, Width
    <3>5. TypeOK'
      BY <2>1, <2>3, <3>1, <3>2 DEF TypeOK
    <3> QED
      BY <1>9, <1>p, <2>1, <2>3, <3>1, <3>4, <3>5 DEF Interrupt, Shaped, Up
  <2> QED
    BY <1>9, <2>2, <2>3 DEF Interrupt
<1>10. CASE Kill
  <2>1. faults' \in [AnyFault -> Nat] /\ UNCHANGED <<loop, topic, committed, handled, outcome>>
    BY <1>10, FailsType DEF Kill, AnyFault
  <2>2. run' \in RunState /\ Shaped'
    BY <1>10, <2>1, DownShaped DEF Kill
  <2>3. passed' \subseteq Offset
    BY <1>10, <1>t DEF Kill, TypeOK, RunState
  <2> QED
    BY <2>1, <2>2, <2>3 DEF TypeOK
<1>11. CASE UNCHANGED vars
  BY <1>11 DEF vars, TypeOK, Shaped, HeldFrom, Up, Width
<1> QED
  BY <1>1, <1>2, <1>3, <1>4, <1>5, <1>6, <1>7, <1>8, <1>9, <1>10, <1>11 DEF Next, Consume

LEMMA TypeInvariant == Spec => []TypeInv
  BY TypeInit, TypeStep, PTL DEF Spec

\* For any numbers of events, faults and events per poll and batch, the variables
\* of the three consumer loops keep their types.
THEOREM TypeCorrect == Spec => []TypeOK
<1>1. TypeInv => TypeOK
  BY DEF TypeInv
<1> QED
  BY <1>1, TypeInvariant, PTL

-----------------------------------------------------------------------------
(* What the steps do to the events.  Position, offsets and places matter   *)
(* only through the frontier and what is in hand.                          *)

\* The events in hand are the last ones before the frontier.
LEMMA Reach ==
  ASSUME TypeInv
  PROVE  /\ Frontier \in Nat /\ committed <= Frontier /\ Frontier <= Len(topic)
         /\ run.held \subseteq 1..Frontier
         /\ IsFiniteSet(run.held) /\ Cardinality(run.held) <= Width
         /\ \A i \in 1..Frontier, j \in run.held : j <= i => i \in run.held
<1> USE DEF TypeInv
<1>1. PICK k \in 0..run.position : HeldFrom(k)
  BY DEF Shaped
<1>2. /\ run.position \in Nat /\ run.fetched \in Nat /\ k \in Nat /\ Len(topic) \in Nat
      /\ run.position <= run.fetched /\ run.fetched <= Len(topic)
      /\ committed \in Nat /\ committed <= Len(topic) /\ Width \in Nat
  BY Types DEF Shaped
<1>3. Up => committed <= run.position
  BY DEF Shaped
<1>4. ~Up => run.held = {}
  BY DEF Shaped, Down
<1>5. IsFiniteSet(run.held) /\ Cardinality(run.held) <= Width
  BY <1>1, HeldCount DEF HeldFrom
<1> QED
  BY <1>1, <1>2, <1>3, <1>4, <1>5 DEF HeldFrom, Frontier

\* An event is published; or nothing changes that matters here.
Grows ==
  /\ \E e \in Event : topic' = Append(topic, e)
  /\ Frontier' = Frontier /\ run'.held = run.held
  /\ UNCHANGED <<handled, outcome, passed, faults>>
Rests ==
  /\ Frontier' = Frontier /\ run'.held = run.held
  /\ UNCHANGED <<topic, handled, outcome, passed, faults>>

\* The next event comes to hand, or is passed over as invalid.
Takes ==
  /\ Frontier + 1 <= Len(topic)
  /\ Frontier' = Frontier + 1 /\ run'.held = run.held \cup {Frontier + 1}
  /\ UNCHANGED <<topic, handled, outcome, passed, faults>>
Skips ==
  /\ Frontier + 1 <= Len(topic)
  /\ loop = "feedback" /\ topic[Frontier + 1].kind = "invalid" /\ run.held = {}
  /\ Frontier' = Frontier + 1 /\ run'.held = {} /\ passed' = passed \cup {Frontier + 1}
  /\ UNCHANGED <<topic, handled, outcome, faults>>

\* What is in hand is handled, or is passed over after an exception or Ctrl-C.
Handles ==
  /\ Frontier' = Frontier /\ run.held # {} /\ run'.held = {}
  /\ handled' = Again(run.held)
  /\ loop = "feedback" => outcome' = Recorded
  /\ UNCHANGED <<topic, passed, faults>>
Drops ==
  /\ Frontier' = Frontier /\ run'.held = {} /\ passed' = passed \cup run.held
  /\ \/ Fails("error") \/ Fails("interrupt")
     \/ /\ loop = "feedback" /\ \E i \in run.held : topic[i].kind = "orphan"
        /\ UNCHANGED faults
  /\ UNCHANGED <<topic, handled, outcome>>

\* Ctrl-C makes consume_batch hand over what it holds once more.
Repeats ==
  /\ loop = "batch" /\ Fails("interrupt")
  /\ Frontier' = Frontier /\ run'.held = run.held
  /\ UNCHANGED handled \/ handled' = Again(run.held)
  /\ UNCHANGED <<topic, outcome, passed>>

\* The group falls back to the committed offset.
Falls ==
  /\ Fails("kill")
  /\ Frontier' = committed /\ run'.held = {}
  /\ passed' = passed \cup {i \in run.held : i <= committed}
  /\ UNCHANGED <<topic, handled, outcome>>

Effect == Grows \/ Rests \/ Takes \/ Skips \/ Handles \/ Drops \/ Repeats \/ Falls

\* Every step has one of these effects.
LEMMA Effects ==
  ASSUME TypeInv, [Next]_vars
  PROVE  Effect /\ loop' = loop
<1> USE DEF TypeInv, Effect
<1>t. run \in RunState
  BY DEF TypeOK
<1>s. /\ Up => committed <= run.position
      /\ ~Up => run = Down
      /\ run.at = "flush" => loop = "batch"
  BY DEF Shaped
<1>k. PICK k \in 0..run.position : HeldFrom(k)
  BY DEF Shaped
<1>p. /\ run.position \in Nat /\ k \in Nat /\ MaxEvents \in Nat /\ committed \in Nat
      /\ Len(topic) \in Nat
  BY Types
<1>1. CASE Publish
  <2>1. PICK e \in Event : topic' = Append(topic, e)
    BY <1>1, ConsumerAssumption DEF Publish, Inputs, Event, Kind, Key
  <2>2. Grows
    BY <1>1, <2>1 DEF Publish, Grows, Frontier, Up
  <2> QED
    BY <1>1, <2>2 DEF Publish
<1>2. CASE Start
  <2>1. run'.at = "poll" /\ run'.position = committed /\ run'.held = {} /\ run.held = {}
    BY <1>2, <1>s DEF Start, Down
  <2>2. Rests
    BY <1>2, <2>1 DEF Start, Rests, Frontier, Up
  <2> QED
    BY <1>2, <2>2 DEF Start
<1>3. CASE Poll
  <2>1. run'.at = run.at /\ run'.position = run.position /\ run'.held = run.held
    BY <1>3, <1>t DEF Poll, RunState
  <2>2. Rests
    BY <1>3, <2>1 DEF Poll, Polling, Rests, Frontier, Up
  <2> QED
    BY <1>3, <2>2 DEF Poll
<1>4. CASE AutoCommit
  BY <1>4 DEF AutoCommit, Polling, Rests, Frontier, Up
<1>5. CASE Take
  <2>1. Frontier = run.position /\ run.at = "poll" /\ Frontier + 1 <= Len(topic)
    <3>1. /\ run.position < run.fetched /\ run.fetched <= Len(topic)
          /\ run.fetched \in Nat
      BY <1>5, Types DEF Take, Shaped
    <3> QED
      BY <1>5, <1>p, <3>1 DEF Take, Frontier, Up
  <2>2. CASE /\ loop = "feedback" /\ topic[run.position + 1].kind = "invalid"
             /\ run' = [run EXCEPT !.position = run.position + 1]
             /\ passed' = passed \cup {run.position + 1}
    <3>1. /\ run'.at = "poll" /\ run'.position = run.position + 1
          /\ run'.held = run.held
      BY <1>t, <2>1, <2>2 DEF RunState
    <3>2. run.held = {}
      BY <1>k, <1>p, <2>1, <2>2 DEF HeldFrom, Width
    <3>3. Frontier' = run.position + 1
      BY <3>1 DEF Frontier, Up
    <3> QED
      BY <1>5, <2>1, <2>2, <3>1, <3>2, <3>3 DEF Take, Skips
  <2>3. CASE /\ UNCHANGED passed
             /\ run' = [run EXCEPT !.position = run.position + 1,
                          !.held = @ \cup {run.position + 1},
                          !.at = IF loop = "batch" /\ ~(Cardinality(run.held) + 1 >= BatchSize)
                                 THEN "poll" ELSE "handle"]
    <3>1. /\ run'.at \in {"poll", "handle"} /\ run'.position = run.position + 1
          /\ run'.held = run.held \cup {run.position + 1}
      BY <1>t, <2>3 DEF RunState
    <3>2. Frontier' = run.position + 1
      BY <3>1 DEF Frontier, Up
    <3> QED
      BY <1>5, <2>1, <2>3, <3>1, <3>2 DEF Take, Takes
  <2> QED
    BY <1>5, <2>2, <2>3 DEF Take
<1>c. /\ Close => run'.held = {} /\ Frontier' = run.position
      /\ Up => Frontier = run.position
  BY DEF Close, Down, Frontier, Up
<1>6. CASE Handle
  <2>1. run.held # {}
    BY <1>6, <1>k, <1>p DEF Handle, HeldFrom
  <2>2. run'.held = {} /\ Frontier' = run.position
    <3>1. CASE run' = [run EXCEPT !.at = "poll", !.held = {},
                          !.count = IF loop = "each" /\ MaxMessages > 0 THEN @ + 1 ELSE 0]
      <4>1. run'.held = {} /\ run'.at = "poll" /\ run'.position = run.position
        BY <1>t, <3>1 DEF RunState
      <4> QED
        BY <4>1 DEF Frontier, Up
    <3> QED
      BY <1>6, <1>c, <3>1 DEF Handle
  <2>3. Frontier = run.position
    BY <1>6, <1>c DEF Handle, Up
  <2> QED
    BY <1>6, <2>1, <2>2, <2>3 DEF Handle, Handles
<1>7. CASE Flush
  <2>1. run.held # {}
    BY <1>7, <1>k, <1>p DEF Flush, HeldFrom
  <2>2. run'.held = {} /\ Frontier' = Frontier
    BY <1>7, <1>c DEF Flush, Up
  <2> QED
    BY <1>7, <1>s, <2>1, <2>2 DEF Flush, Handles
<1>8. CASE Raise
  <2>1. run'.held = {} /\ Frontier' = run.position
    <3>1. CASE run' = [run EXCEPT !.at = "poll", !.held = {}]
      <4>1. run'.held = {} /\ run'.at = "poll" /\ run'.position = run.position
        BY <1>t, <3>1 DEF RunState
      <4> QED
        BY <4>1 DEF Frontier, Up
    <3> QED
      BY <1>8, <1>c, <3>1 DEF Raise, Raised
  <2>2. Frontier = run.position
    BY <1>8, <1>c DEF Raise, Up
  <2> QED
    BY <1>8, <2>1, <2>2 DEF Raise, Drops
<1>9. CASE Interrupt
  <2>1. Frontier = run.position /\ Fails("interrupt") /\ UNCHANGED <<loop, topic, outcome>>
    BY <1>9, <1>c DEF Interrupt
  <2>2. CASE Close /\ passed' = passed \cup run.held /\ UNCHANGED handled
    BY <1>c, <2>1, <2>2 DEF Drops
  <2>3. CASE /\ loop = "batch" /\ run' = [run EXCEPT !.at = "flush"]
             /\ UNCHANGED handled \/ handled' = Again(run.held)
             /\ UNCHANGED <<committed, passed>>
    <3>1. run'.at = "flush" /\ run'.position = run.position /\ run'.held = run.held
      BY <1>t, <2>3 DEF RunState
    <3>2. Frontier' = Frontier
      BY <2>1, <3>1 DEF Frontier, Up
    <3> QED
      BY <2>1, <2>3, <3>1, <3>2 DEF Repeats
  <2> QED
    BY <1>9, <2>2, <2>3 DEF Interrupt
<1>10. CASE Kill
  <2>1. run'.held = {} /\ Frontier' = committed
    BY <1>10 DEF Kill, Down, Frontier, Up
  <2> QED
    BY <1>10, <2>1 DEF Kill, Falls
<1>11. CASE UNCHANGED vars
  BY <1>11 DEF vars, Rests, Frontier, Up
<1> QED
  BY <1>1, <1>2, <1>3, <1>4, <1>5, <1>6, <1>7, <1>8, <1>9, <1>10, <1>11 DEF Next, Consume

-----------------------------------------------------------------------------
(* Events are settled in their order, and handled again only if delivered  *)
(* again.                                                                   *)

\* To have handled a set of events once more raises their counts and no others.
LEMMA AgainCounts ==
  ASSUME TypeOK, NEW S, handled' = Again(S), NEW i \in Offset
  PROVE  /\ handled[i] \in Nat
         /\ handled'[i] = IF i \in S THEN handled[i] + 1 ELSE handled[i]
  BY DEF TypeOK, Again

LEMMA SettledInit == Init => Settled
<1> SUFFICES ASSUME Init PROVE Settled
  OBVIOUS
<1>1. Frontier = 0 /\ \A i \in Offset : handled[i] = 0
  BY DEF Init, Down, Frontier, Up
<1> QED
  BY <1>1 DEF Settled

LEMMA SettledStep ==
  ASSUME TypeInv, Settled, Effect, TypeOK'
  PROVE  Settled'
<1>r. /\ Frontier \in Nat /\ committed \in Nat /\ committed <= Frontier /\ Frontier <= Len(topic)
      /\ run.held \subseteq 1..Frontier /\ Len(topic) \in Nat /\ Len(topic) <= MaxEvents
      /\ MaxEvents \in Nat /\ TypeOK
  BY Reach, Types DEF TypeInv
<1>h. \A i \in Offset : handled[i] \in Nat
  BY <1>r DEF TypeOK
<1>1. CASE Grows
  <2>1. Len(topic') = Len(topic) + 1
    BY <1>1, <1>r DEF Grows, TypeOK
  <2> QED
    BY <1>1, <1>r, <2>1 DEF Grows, Settled, Offset
<1>2. CASE Rests
  BY <1>2 DEF Rests, Settled
<1>3. CASE Takes
  BY <1>3, <1>r DEF Takes, Settled
<1>4. CASE Skips
  BY <1>4, <1>r DEF Skips, Settled
<1>5. CASE Handles
  <2>1. ASSUME NEW i \in 1..Frontier PROVE handled'[i] > 0 \/ i \in passed
    <3>1. i \in Offset
      BY <1>r DEF Offset
    <3> QED
      BY <1>5, <1>r, <1>h, <3>1, AgainCounts DEF Handles, Settled
  <2>2. ASSUME NEW i \in Offset, i > Len(topic) PROVE handled'[i] = 0
    <3>1. i \notin run.held
      BY <1>r, <2>2 DEF Offset
    <3> QED
      BY <1>5, <1>r, <2>2, <3>1, AgainCounts DEF Handles, Settled
  <2> QED
    BY <1>5, <2>1, <2>2 DEF Handles, Settled
<1>6. CASE Drops
  BY <1>6 DEF Drops, Settled
<1>7. CASE Repeats
  <2>1. CASE UNCHANGED handled
    BY <1>7, <2>1 DEF Repeats, Settled
  <2>2. CASE handled' = Again(run.held)
    <3>1. ASSUME NEW i \in 1..Frontier PROVE handled'[i] > 0 \/ i \in passed \/ i \in run.held
      <4>1. i \in Offset
        BY <1>r DEF Offset
      <4> QED
        BY <1>r, <1>h, <2>2, <4>1, AgainCounts DEF Settled
    <3>2. ASSUME NEW i \in Offset, i > Len(topic) PROVE handled'[i] = 0
      <4>1. i \notin run.held
        BY <1>r, <3>2 DEF Offset
      <4> QED
        BY <1>r, <2>2, <3>2, <4>1, AgainCounts DEF Settled
    <3> QED
      BY <1>7, <3>1, <3>2 DEF Repeats, Settled
  <2> QED
    BY <1>7, <2>1, <2>2 DEF Repeats
<1>8. CASE Falls
  <2>1. ASSUME NEW i \in 1..committed
        PROVE  handled[i] > 0 \/ i \in passed \cup {j \in run.held : j <= committed}
    BY <1>r DEF Settled
  <2> QED
    BY <1>8, <2>1 DEF Falls, Settled
<1> QED
  BY <1>1, <1>2, <1>3, <1>4, <1>5, <1>6, <1>7, <1>8 DEF Effect

\* What a step adds to the faults, and to those that make events come again.
LEMMA FaultsAdd ==
  ASSUME TypeOK, NEW kind \in AnyFault, Fails(kind), loop' = loop
  PROVE  /\ Faults' = Faults + 1
         /\ Replays' = Replays + (IF kind = "kill" \/ (kind = "interrupt" /\ loop = "batch")
                                  THEN 1 ELSE 0)
<1>1. /\ faults'[kind] = faults[kind] + 1
      /\ \A f \in AnyFault \ {kind} : faults'[f] = faults[f]
  BY FailsType
<1>2. /\ faults["kill"] \in Nat /\ faults["interrupt"] \in Nat /\ faults["error"] \in Nat
  BY Types
<1>3. CASE kind = "kill"
  <2>1. /\ faults'["kill"] = faults["kill"] + 1 /\ faults'["interrupt"] = faults["interrupt"]
        /\ faults'["error"] = faults["error"]
    BY <1>1, <1>3 DEF AnyFault
  <2>2. Faults' = Faults + 1
    BY <1>2, <2>1 DEF Faults
  <2>3. Replays' = Replays + 1
    BY <1>2, <2>1 DEF Replays
  <2> QED
    BY <1>3, <2>2, <2>3
<1>4. CASE kind = "interrupt"
  <2>1. /\ faults'["interrupt"] = faults["interrupt"] + 1 /\ faults'["kill"] = faults["kill"]
        /\ faults'["error"] = faults["error"]
    BY <1>1, <1>4 DEF AnyFault
  <2> QED
    BY <1>2, <1>4, <2>1 DEF Faults, Replays
<1>5. CASE kind = "error"
  <2>1. /\ faults'["error"] = faults["error"] + 1 /\ faults'["kill"] = faults["kill"]
        /\ faults'["interrupt"] = faults["interrupt"]
    BY <1>1, <1>5 DEF AnyFault
  <2> QED
    BY <1>2, <1>5, <2>1 DEF Faults, Replays
<1> QED
  BY <1>3, <1>4, <1>5 DEF AnyFault

LEMMA BoundedInit == Init => Bounded
<1> SUFFICES ASSUME Init PROVE Bounded
  OBVIOUS
<1>1. Replays = 0 /\ \A i \in Offset : handled[i] = 0
  BY DEF Init, Replays, AnyFault
<1> QED
  BY <1>1 DEF Bounded

LEMMA BoundedStep ==
  ASSUME TypeInv, Bounded, Effect, loop' = loop
  PROVE  Bounded'
<1>r. /\ Frontier \in Nat /\ committed \in Nat /\ committed <= Frontier
      /\ run.held \subseteq 1..Frontier /\ Replays \in Nat /\ TypeOK
  BY Reach, Types DEF TypeInv
<1>h. /\ \A i \in Offset : handled[i] \in Nat
      /\ Offset \subseteq Nat
  BY <1>r, ConsumerAssumption DEF TypeOK, Offset
<1>u. UNCHANGED faults => Replays' = Replays
  BY DEF Replays
<1>1. CASE Grows
  BY <1>1, <1>u DEF Grows, Bounded
<1>2. CASE Rests
  BY <1>2, <1>u DEF Rests, Bounded
<1>3. CASE Takes
  BY <1>3, <1>u, <1>r, <1>h DEF Takes, Bounded
<1>4. CASE Skips
  BY <1>4, <1>u, <1>r, <1>h DEF Skips, Bounded
<1>5. CASE Handles
  <2> SUFFICES ASSUME NEW i \in Offset
               PROVE  handled'[i] <= Replays + 1 /\ (i > Frontier => handled'[i] <= Replays)
    BY <1>5, <1>u DEF Handles, Bounded
  <2>1. handled'[i] = IF i \in run.held THEN handled[i] + 1 ELSE handled[i]
    BY <1>5, <1>r, AgainCounts DEF Handles
  <2>2. i \in run.held => i <= Frontier /\ handled[i] <= Replays
    BY <1>r DEF Bounded
  <2> QED
    BY <1>r, <1>h, <2>1, <2>2 DEF Bounded
<1>6. CASE Drops
  <2>1. Replays' \in {Replays, Replays + 1}
    BY <1>6, <1>r, <1>u, FaultsAdd DEF Drops, AnyFault
  <2> QED
    BY <1>6, <1>r, <1>h, <2>1 DEF Drops, Bounded
<1>7. CASE Repeats
  <2>1. Replays' = Replays + 1
    BY <1>7, <1>r, FaultsAdd DEF Repeats, AnyFault
  <2> SUFFICES ASSUME NEW i \in Offset
               PROVE  /\ handled'[i] <= Replays + 1 + 1
                      /\ i \in run.held \/ i > Frontier => handled'[i] <= Replays + 1
    BY <1>7, <2>1 DEF Repeats, Bounded
  <2>2. \/ handled'[i] = handled[i]
        \/ handled'[i] = IF i \in run.held THEN handled[i] + 1 ELSE handled[i]
    BY <1>7, <1>r, AgainCounts DEF Repeats
  <2>3. /\ handled[i] <= Replays + 1 /\ handled[i] \in Nat
        /\ i \in run.held \/ i > Frontier => handled[i] <= Replays
    BY <1>h DEF Bounded
  <2>4. i > Frontier => i \notin run.held
    BY <1>r, <1>h
  <2> QED
    BY <1>r, <2>2, <2>3, <2>4
<1>8. CASE Falls
  <2>1. Replays' = Replays + 1
    BY <1>8, <1>r, FaultsAdd DEF Falls, AnyFault
  <2> QED
    BY <1>8, <1>r, <1>h, <2>1 DEF Falls, Bounded
<1> QED
  BY <1>1, <1>2, <1>3, <1>4, <1>5, <1>6, <1>7, <1>8 DEF Effect

-----------------------------------------------------------------------------
(* What the faults cost.                                                    *)

\* A batch is one event but in consume_batch.
LEMMA Widths ==
  Width \in Nat \ {0} /\ Width <= BatchSize /\ (loop # "batch" => Width = 1)
  BY ConsumerAssumption DEF Width

\* Events on the topic stay what they are.
LEMMA GrowsTopic ==
  ASSUME TypeOK, Grows
  PROVE  /\ Len(topic') = Len(topic) + 1
         /\ \A i \in 1..Len(topic) : topic'[i] = topic[i]
         /\ \A i \in 1..Len(topic') : i \in 1..Len(topic) \/ i = Len(topic) + 1
<1>1. PICK e \in Event : topic' = Append(topic, e)
  BY DEF Grows
<1>2. topic \in Seq(Event) /\ Len(topic) \in Nat
  BY Types DEF TypeOK
<1> QED
  BY <1>1, <1>2

LEMMA SpiltInit == Init => SpiltInv
<1> SUFFICES ASSUME Init PROVE SpiltInv
  OBVIOUS
<1>1. passed = {} /\ Spilt = {} /\ Faults = 0
  BY DEF Init, Spilt, Faults, AnyFault
<1>2. Cardinality(Spilt) = 0 /\ Width * 0 = 0
  BY <1>1, FS_EmptySet, Widths
<1> QED
  BY <1>1, <1>2 DEF SpiltInv

LEMMA SpiltStep ==
  ASSUME TypeInv, SpiltInv, Effect, loop' = loop
  PROVE  SpiltInv'
<1>r. /\ Frontier \in Nat /\ committed \in Nat /\ committed <= Frontier /\ Frontier <= Len(topic)
      /\ run.held \subseteq 1..Frontier /\ Len(topic) \in Nat /\ Faults \in Nat /\ TypeOK
      /\ IsFiniteSet(run.held) /\ Cardinality(run.held) <= Width
  BY Reach, Types DEF TypeInv
<1>w. Width' = Width /\ Width \in Nat \ {0}
  BY Widths DEF Width
<1>p. passed \subseteq 1..Len(topic) /\ Cardinality(Spilt) <= Width * Faults
  BY DEF SpiltInv
<1>f. IsFiniteSet(Spilt) /\ Cardinality(Spilt) \in Nat
  <2>1. IsFiniteSet(1..Len(topic))
    BY <1>r, FS_Interval
  <2>2. Spilt \subseteq 1..Len(topic)
    BY <1>p DEF Spilt
  <2> QED
    BY <2>1, <2>2, FS_Subset, FS_CardinalityType
<1>h. run.held \subseteq 1..Len(topic)
  BY <1>r
<1>s. ASSUME Spilt' = Spilt, Faults' = Faults, passed' \subseteq 1..Len(topic')
      PROVE  SpiltInv'
  BY <1>s, <1>w, <1>p DEF SpiltInv
<1>u. UNCHANGED faults => Faults' = Faults
  BY DEF Faults
<1>l. ASSUME NEW S \in SUBSET run.held, passed' = passed \cup S, topic' = topic,
             Faults' = Faults + 1
      PROVE  SpiltInv'
  <2>1. IsFiniteSet(S) /\ Cardinality(S) <= Cardinality(run.held) /\ Cardinality(S) \in Nat
    BY <1>r, FS_Subset, FS_CardinalityType
  <2>2. /\ IsFiniteSet(Spilt \cup S)
        /\ Cardinality(Spilt \cup S)
             = Cardinality(Spilt) + Cardinality(S) - Cardinality(Spilt \cap S)
    BY <1>f, <2>1, FS_Union
  <2>3. IsFiniteSet(Spilt \cap S) /\ Cardinality(Spilt \cap S) \in Nat
    BY <1>f, FS_Intersection, FS_CardinalityType
  <2>4. Spilt' \subseteq Spilt \cup S
    BY <1>l DEF Spilt
  <2>5. Cardinality(Spilt') <= Cardinality(Spilt \cup S) /\ Cardinality(Spilt') \in Nat
    BY <2>2, <2>4, FS_Subset, FS_CardinalityType
  <2>6. Cardinality(run.held) \in Nat
    BY <1>r, FS_CardinalityType
  <2>7. Cardinality(Spilt') <= Width * Faults + Width
    BY <1>r, <1>w, <1>p, <1>f, <2>1, <2>2, <2>3, <2>5, <2>6
  <2>8. Width * (Faults + 1) = Width * Faults + Width
    BY <1>r, <1>w
  <2>9. passed' \subseteq 1..Len(topic')
    BY <1>l, <1>h, <1>p
  <2> QED
    BY <1>l, <1>w, <2>7, <2>8, <2>9 DEF SpiltInv
<1>1. CASE Grows
  <2>1. /\ Len(topic') = Len(topic) + 1
        /\ \A i \in 1..Len(topic) : topic'[i] = topic[i]
    BY <1>1, <1>r, GrowsTopic
  <2>2. passed' = passed
    BY <1>1 DEF Grows
  <2>3. Spilt' = Spilt
    BY <1>p, <2>1, <2>2 DEF Spilt
  <2>4. passed' \subseteq 1..Len(topic')
    BY <1>r, <1>p, <2>1, <2>2
  <2> QED
    BY <1>1, <1>s, <1>u, <2>3, <2>4 DEF Grows
<1>2. CASE Rests
  BY <1>2, <1>s, <1>u, <1>p DEF Rests, Spilt
<1>3. CASE Takes
  BY <1>3, <1>s, <1>u, <1>p DEF Takes, Spilt
<1>4. CASE Skips
  <2>1. Spilt' = Spilt
    BY <1>4 DEF Skips, Spilt
  <2>2. passed' \subseteq 1..Len(topic')
    BY <1>4, <1>r, <1>p DEF Skips
  <2> QED
    BY <1>4, <1>s, <1>u, <2>1, <2>2 DEF Skips
<1>5. CASE Handles
  BY <1>5, <1>s, <1>u, <1>p DEF Handles, Spilt
<1>6. CASE Drops
  <2>1. CASE Fails("error") \/ Fails("interrupt")
    <3>1. Faults' = Faults + 1
      BY <1>r, <2>1, FaultsAdd DEF AnyFault
    <3> QED
      BY <1>6, <1>l, <3>1 DEF Drops
  <2>2. CASE /\ loop = "feedback" /\ \E i \in run.held : topic[i].kind = "orphan"
             /\ UNCHANGED faults
    <3>1. PICK i \in run.held : topic[i].kind = "orphan"
      BY <2>2
    <3>2. run.held = {i}
      <4>1. IsFiniteSet({i}) /\ Cardinality({i}) = 1
        BY FS_Singleton
      <4>2. Cardinality(run.held) <= 1
        BY <1>r, <2>2, Widths
      <4>3. Cardinality(run.held) \in Nat
        BY <1>r, FS_CardinalityType
      <4>4. {i} \subseteq run.held /\ Cardinality({i}) <= Cardinality(run.held)
        BY <1>r, <3>1, FS_Subset
      <4>5. Cardinality({i}) = Cardinality(run.held)
        BY <4>1, <4>2, <4>3, <4>4
      <4> QED
        BY <1>r, <4>4, <4>5, FS_Subset
    <3>3. Spilt' = Spilt
      BY <1>6, <2>2, <3>1, <3>2 DEF Drops, Spilt
    <3>4. passed' \subseteq 1..Len(topic')
      BY <1>6, <1>h, <1>p, <2>2 DEF Drops
    <3> QED
      BY <1>s, <1>u, <2>2, <3>3, <3>4
  <2> QED
    BY <1>6, <2>1, <2>2 DEF Drops
<1>7. CASE Repeats
  <2>1. Faults' = Faults + 1
    BY <1>7, <1>r, FaultsAdd DEF Repeats, AnyFault
  <2>2. {} \in SUBSET run.held /\ passed' = passed \cup {} /\ topic' = topic
    BY <1>7 DEF Repeats
  <2> QED
    BY <1>l, <2>1, <2>2
<1>8. CASE Falls
  <2>1. Faults' = Faults + 1
    BY <1>8, <1>r, FaultsAdd DEF Falls, AnyFault
  <2> QED
    BY <1>8, <1>l, <2>1 DEF Falls
<1> QED
  BY <1>1, <1>2, <1>3, <1>4, <1>5, <1>6, <1>7, <1>8 DEF Effect

-----------------------------------------------------------------------------
(* The outcome on record.                                                   *)

\* What the record of an intervention says of the events the group has been through.
RecordOf(k, mine) ==
  \/ outcome[k] = NoOutcome /\ \A i \in mine : handled[i] = 0
  \/ \E i \in mine :
       /\ handled[i] > 0 /\ topic[i].outcome = outcome[k]
       /\ \A j \in mine \ passed : j <= Frontier /\ j \notin run.held => j <= i

EventsOf(k) == {i \in 1..Len(topic) : topic[i].key = k}

LEMMA RecordIs ==
  RecordInv <=> (loop = "feedback" =>
                   \A k \in Intervention : RecordOf(k, EventsOf(k)))
  BY DEF RecordInv, RecordOf, EventsOf

LEMMA RecordInit == Init => RecordInv
  BY DEF Init, RecordInv

LEMMA RecordStep ==
  ASSUME TypeInv, Settled, RecordInv, Effect, loop' = loop, TypeOK'
  PROVE  RecordInv'
<1>r. /\ Frontier \in Nat /\ committed \in Nat /\ committed <= Frontier /\ Frontier <= Len(topic)
      /\ run.held \subseteq 1..Frontier /\ Len(topic) \in Nat /\ Len(topic) <= MaxEvents
      /\ MaxEvents \in Nat /\ TypeOK /\ IsFiniteSet(run.held) /\ Cardinality(run.held) <= Width
  BY Reach, Types DEF TypeInv
<1>h. \A i \in Offset : handled[i] \in Nat
  BY <1>r DEF TypeOK
<1> SUFFICES ASSUME loop = "feedback", NEW k \in Intervention
             PROVE  RecordOf(k, EventsOf(k))'
  BY DEF RecordInv, RecordOf, EventsOf
<1>k. RecordOf(k, EventsOf(k))
  BY RecordIs
<1>m. EventsOf(k) \subseteq 1..Len(topic) /\ EventsOf(k) \subseteq Offset
  BY <1>r DEF EventsOf, Offset
<1>1. CASE Grows
  <2>1. /\ Len(topic') = Len(topic) + 1
        /\ \A i \in 1..Len(topic) : topic'[i] = topic[i]
    BY <1>1, <1>r, GrowsTopic
  <2>2. /\ EventsOf(k) \subseteq EventsOf(k)'
        /\ EventsOf(k)' \subseteq EventsOf(k) \cup {Len(topic) + 1}
    BY <1>r, <2>1 DEF EventsOf
  <2>3. Frontier' < Len(topic) + 1
    BY <1>1, <1>r DEF Grows
  <2>4. CASE outcome[k] = NoOutcome /\ \A i \in EventsOf(k) : handled[i] = 0
    <3>1. ASSUME NEW i \in EventsOf(k)' PROVE handled'[i] = 0
      <4>1. CASE i \in EventsOf(k)
        BY <1>1, <2>4, <4>1 DEF Grows
      <4>2. CASE i = Len(topic) + 1
        <5>1. Len(topic) + 1 <= MaxEvents
          BY <2>1 DEF TypeOK
        <5> QED
          BY <1>1, <1>r, <4>2, <5>1 DEF Grows, Settled, Offset
      <4> QED
        BY <2>2, <4>1, <4>2
    <3> QED
      BY <1>1, <2>4, <3>1 DEF Grows, RecordOf
  <2>5. ASSUME NEW i \in EventsOf(k), handled[i] > 0, topic[i].outcome = outcome[k],
               \A j \in EventsOf(k) \ passed : j <= Frontier /\ j \notin run.held => j <= i
        PROVE  RecordOf(k, EventsOf(k))'
    <3>1. topic'[i] = topic[i] /\ i \in EventsOf(k)'
      BY <1>m, <2>1, <2>2
    <3>2. ASSUME NEW j \in EventsOf(k)' \ passed', j <= Frontier', j \notin run'.held
          PROVE  j <= i
      <4>1. j \in EventsOf(k)
        BY <1>r, <1>1, <2>2, <2>3, <3>2 DEF Grows
      <4> QED
        BY <1>1, <2>5, <3>2, <4>1 DEF Grows
    <3> QED
      BY <1>1, <2>5, <3>1, <3>2 DEF Grows, RecordOf
  <2> QED
    BY <1>k, <2>4, <2>5 DEF RecordOf
<1>e. ~Grows => EventsOf(k)' = EventsOf(k) /\ topic' = topic
  BY DEF Effect, EventsOf, Rests, Takes, Skips, Handles, Drops, Repeats, Falls
<1>s. ASSUME ~Grows, UNCHANGED <<handled, outcome>>, passed \subseteq passed',
             \A j \in EventsOf(k) \ passed' :
               j <= Frontier' /\ j \notin run'.held => j <= Frontier /\ j \notin run.held
      PROVE  RecordOf(k, EventsOf(k))'
  BY <1>k, <1>e, <1>s DEF RecordOf
<1>2. CASE Rests /\ ~Grows
  BY <1>2, <1>s DEF Rests
<1>3. CASE Takes /\ ~Grows
  BY <1>3, <1>r, <1>m, <1>s DEF Takes
<1>4. CASE Skips /\ ~Grows
  BY <1>4, <1>r, <1>m, <1>s DEF Skips
<1>5. CASE Handles /\ ~Grows
  <2>1. PICK n : n \in run.held
    BY <1>5 DEF Handles
  <2>2. run.held = {n} /\ n = Frontier
    <3>1. IsFiniteSet({n}) /\ Cardinality({n}) = 1
      BY FS_Singleton
    <3>2. Cardinality(run.held) <= 1 /\ Cardinality(run.held) \in Nat
      BY <1>r, Widths, FS_CardinalityType
    <3>3. Cardinality({n}) <= Cardinality(run.held)
      BY <1>r, <2>1, FS_Subset
    <3>4. Cardinality({n}) = Cardinality(run.held)
      BY <3>1, <3>2, <3>3
    <3>5. run.held = {n}
      BY <1>r, <2>1, <3>4, FS_Subset
    <3>6. Frontier \in 1..Frontier /\ n <= Frontier
      BY <1>r, <2>1
    <3>7. Frontier \in run.held
      BY <2>1, <3>6, Reach
    <3> QED
      BY <3>5, <3>7
  <2>3. n \in Offset
    BY <1>r, <2>1 DEF Offset
  <2>4. /\ handled'[n] = handled[n] + 1
        /\ \A i \in Offset : i # n => handled'[i] = handled[i]
    BY <1>5, <1>r, <2>2, <2>3, AgainCounts DEF Handles
  <2>5. /\ outcome'[k] = IF topic[n].key = k THEN topic[n].outcome ELSE outcome[k]
        /\ UNCHANGED <<topic, passed>> /\ Frontier' = Frontier /\ run'.held = {}
    BY <1>5, <2>2 DEF Handles, Recorded
  <2>6. CASE n \in EventsOf(k)
    <3>1. handled'[n] > 0 /\ topic'[n].outcome = outcome'[k]
      BY <1>h, <2>3, <2>4, <2>5, <2>6 DEF EventsOf
    <3>2. \A j \in EventsOf(k)' \ passed' : j <= Frontier' /\ j \notin run'.held => j <= n
      BY <2>2, <2>5
    <3> QED
      BY <1>5, <1>e, <2>6, <3>1, <3>2 DEF RecordOf
  <2>7. CASE n \notin EventsOf(k)
    <3>1. outcome'[k] = outcome[k]
      BY <1>r, <2>1, <2>5, <2>7 DEF EventsOf
    <3>2. \A i \in EventsOf(k) : handled'[i] = handled[i]
      BY <1>m, <2>4, <2>7
    <3>3. \A j \in EventsOf(k) : j \notin run.held
      BY <2>2, <2>7
    <3> QED
      BY <1>5, <1>e, <1>k, <2>5, <3>1, <3>2, <3>3 DEF RecordOf
  <2> QED
    BY <2>6, <2>7
<1>6. CASE Drops /\ ~Grows
  BY <1>6, <1>s DEF Drops
<1>7. CASE Repeats
  BY <1>7 DEF Repeats
<1>8. CASE Falls /\ ~Grows
  BY <1>8, <1>r, <1>m, <1>s DEF Falls
<1> QED
  BY <1>1, <1>2, <1>3, <1>4, <1>5, <1>6, <1>7, <1>8 DEF Effect

-----------------------------------------------------------------------------
(* The theorems.                                                            *)

EventInv == TypeInv /\ Settled /\ Bounded /\ SpiltInv /\ RecordInv

LEMMA EventInvariant == Spec => []EventInv
<1>1. Init => EventInv
  BY TypeInit, SettledInit, BoundedInit, SpiltInit, RecordInit DEF EventInv
<1>2. EventInv /\ [Next]_vars => EventInv'
  <2> SUFFICES ASSUME EventInv, [Next]_vars PROVE EventInv'
    OBVIOUS
  <2>1. Effect /\ loop' = loop /\ TypeInv'
    BY Effects, TypeStep DEF EventInv
  <2> QED
    BY <2>1, SettledStep, BoundedStep, SpiltStep, RecordStep DEF EventInv, TypeInv
<1> QED
  BY <1>1, <1>2, PTL DEF Spec

\* For any numbers of events, faults and events per poll and batch: what the group
\* will not deliver again was handled, is in hand or could not be recorded, but for
\* one event, or one batch, for each fault.
THEOREM LossesBounded == Spec => []LossPerFault
<1>1. ASSUME EventInv PROVE LossPerFault
  <2>1. /\ Frontier \in Nat /\ committed \in Nat /\ committed <= Frontier
        /\ Frontier <= Len(topic) /\ Len(topic) \in Nat /\ TypeOK /\ MaxEvents \in Nat
        /\ Len(topic) <= MaxEvents /\ Faults \in Nat
    BY <1>1, Reach, Types DEF EventInv, TypeInv
  <2>2. ASSUME NEW i \in 1..Len(topic), Lost(i) PROVE i \in Spilt
    <3>1. i \in 1..Frontier
      BY <2>1, <2>2 DEF Lost
    <3> QED
      BY <1>1, <2>2, <3>1 DEF EventInv, Settled, Lost, Spilt
  <2>3. {i \in 1..Len(topic) : Lost(i)} \subseteq Spilt
    BY <2>2
  <2>4. IsFiniteSet(Spilt)
    <3>1. IsFiniteSet(1..Len(topic))
      BY <2>1, FS_Interval
    <3>2. Spilt \subseteq 1..Len(topic)
      BY <1>1 DEF EventInv, SpiltInv, Spilt
    <3> QED
      BY <3>1, <3>2, FS_Subset
  <2>5. /\ Cardinality({i \in 1..Len(topic) : Lost(i)}) <= Cardinality(Spilt)
        /\ Cardinality({i \in 1..Len(topic) : Lost(i)}) \in Nat
        /\ Cardinality(Spilt) \in Nat
    BY <2>3, <2>4, FS_Subset, FS_CardinalityType
  <2>6. Cardinality(Spilt) <= Width * Faults /\ Width * Faults \in Nat
    BY <1>1, <2>1, Widths DEF EventInv, SpiltInv
  <2> QED
    BY <2>5, <2>6 DEF LossPerFault
<1> QED
  BY <1>1, EventInvariant, PTL

\* For any numbers of events, interventions and faults: a feedback consumer that has
\* caught up has left each intervention with the outcome of its latest event that was
\* not passed over.
THEOREM LatestOutcome == Spec => []OutcomeIsLatest
<1>1. ASSUME EventInv PROVE OutcomeIsLatest
  <2> SUFFICES ASSUME loop = "feedback", Up, run.position = Len(topic), run.held = {},
                      NEW k \in Intervention
               PROVE  Latest(k, outcome[k])
    BY DEF OutcomeIsLatest
  <2>1. Frontier = Len(topic) /\ Len(topic) \in Nat /\ Len(topic) <= MaxEvents
    BY <1>1, Types DEF EventInv, TypeInv, Frontier
  <2>2. RecordOf(k, EventsOf(k))
    BY <1>1, RecordIs DEF EventInv
  <2>3. CASE outcome[k] = NoOutcome /\ \A i \in EventsOf(k) : handled[i] = 0
    <3>1. EventsOf(k) \ passed = {}
      BY <1>1, <2>1, <2>3 DEF EventInv, Settled, EventsOf
    <3> QED
      BY <2>3, <3>1 DEF Latest, EventsOf
  <2>4. CASE \E i \in EventsOf(k) :
               /\ handled[i] > 0 /\ topic[i].outcome = outcome[k]
               /\ \A j \in EventsOf(k) \ passed : j <= Frontier /\ j \notin run.held => j <= i
    <3>1. \A j \in EventsOf(k) : j <= Frontier /\ j \notin run.held
      BY <2>1 DEF EventsOf
    <3> QED
      BY <2>4, <3>1 DEF Latest, EventsOf
  <2> QED
    BY <2>2, <2>3, <2>4 DEF RecordOf
<1> QED
  BY <1>1, EventInvariant, PTL

\* A step of the consumer seen as a step of EventDelivery.
LEMMA DeliveryStep ==
  ASSUME EventInv, Effect, loop' = loop, TypeOK'
  PROVE  Delivery!Next \/ UNCHANGED Delivery!vars
<1>r. /\ Frontier \in Nat /\ committed \in Nat /\ committed <= Frontier /\ Frontier <= Len(topic)
      /\ run.held \subseteq 1..Frontier /\ Len(topic) \in Nat /\ Len(topic) <= MaxEvents
      /\ MaxEvents \in Nat /\ TypeOK /\ IsFiniteSet(run.held)
      /\ Cardinality(run.held) <= Width /\ Cardinality(run.held) \in Nat
  BY Reach, Types, FS_CardinalityType DEF EventInv, TypeInv
<1>d. \A i \in 1..Frontier : Delivery!Settled(i) \/ i \in run.held
  BY DEF EventInv, Settled, Delivery!Settled
<1>o. ASSUME NEW S \in SUBSET (1..Len(topic)), NEW b \in Nat, b <= Frontier + 1,
             \A i \in S : i <= b, \A j \in run.held : j < b => j \in S
      PROVE  Delivery!InOrder(S)
  <2> SUFFICES ASSUME NEW i \in S, NEW j \in 1..MaxEvents, j < i
               PROVE  Delivery!Settled(j) \/ j \in S
    BY DEF Delivery!InOrder
  <2>1. i \in Nat /\ i <= b
    BY <1>r, <1>o
  <2>2. j < b /\ j \in 1..Frontier
    BY <1>r, <1>o, <2>1
  <2> QED
    BY <1>d, <1>o, <2>2
<1>h. /\ run.held \in SUBSET (1..Len(topic))
      /\ Delivery!InOrder(run.held)
  <2>1. run.held \in SUBSET (1..Len(topic))
    BY <1>r
  <2>2. Frontier + 1 \in Nat /\ \A i \in run.held : i <= Frontier + 1
    BY <1>r
  <2> QED
    BY <1>r, <1>o, <2>1, <2>2
<1>l. ASSUME NEW S \in SUBSET (1..Len(topic)), Delivery!InOrder(S),
             IsFiniteSet(S), Cardinality(S) <= BatchSize, passed' = passed \cup S,
             Replays' \in {Replays, Replays + 1}, UNCHANGED <<topic, handled>>
      PROVE  Delivery!Next
  <2>1. Delivery!Cardinality(S) = Cardinality(S)
    BY DEF Delivery!Cardinality, Cardinality
  <2> QED
    BY <1>l, <2>1 DEF Delivery!Next, Delivery!Lose
<1>c. Cardinality(run.held) <= BatchSize /\ BatchSize \in Nat \ {0}
  BY <1>r, Widths, ConsumerAssumption
<1>g. ASSUME handled' = Again(run.held), Replays' \in {Replays, Replays + 1},
             UNCHANGED <<topic, passed>>
      PROVE  Delivery!Next
  <2>1. \A i \in run.held : handled[i] <= Replays
    BY <1>r DEF EventInv, Bounded, Offset
  <2>2. handled' = [i \in 1..MaxEvents |-> IF i \in run.held THEN handled[i] + 1 ELSE handled[i]]
    BY <1>g DEF Again, Offset
  <2> QED
    BY <1>g, <1>h, <2>1, <2>2 DEF Delivery!Next, Delivery!Handle
<1>u. UNCHANGED faults => Replays' = Replays
  BY DEF Replays
<1>1. CASE Grows
  <2>1. Len(topic') = Len(topic) + 1 /\ Len(topic') <= MaxEvents
    BY <1>1, <1>r, GrowsTopic DEF TypeOK
  <2> QED
    BY <1>1, <1>r, <1>u, <2>1 DEF Grows, Delivery!Next, Delivery!Publish
<1>2. CASE Rests
  BY <1>2, <1>u DEF Rests, Delivery!vars
<1>3. CASE Takes
  BY <1>3, <1>u DEF Takes, Delivery!vars
<1>4. CASE Skips
  <2>1. {Frontier + 1} \in SUBSET (1..Len(topic))
    BY <1>4, <1>r DEF Skips
  <2>2. Frontier + 1 \in Nat
    BY <1>r
  <2>3. Delivery!InOrder({Frontier + 1})
    BY <1>4, <1>o, <2>1, <2>2 DEF Skips
  <2>4. IsFiniteSet({Frontier + 1}) /\ Cardinality({Frontier + 1}) = 1
    BY FS_Singleton
  <2>5. Cardinality({Frontier + 1}) <= BatchSize
    BY <1>c, <2>4
  <2> QED
    BY <1>4, <1>l, <1>u, <2>1, <2>3, <2>4, <2>5 DEF Skips
<1>5. CASE Handles
  BY <1>5, <1>g, <1>u DEF Handles
<1>6. CASE Drops
  <2>1. Replays' \in {Replays, Replays + 1}
    <3>1. Replays \in Nat
      BY <1>r, Types
    <3> QED
      BY <1>6, <1>r, <1>u, <3>1, FaultsAdd DEF Drops, AnyFault
  <2> QED
    BY <1>6, <1>r, <1>l, <1>h, <1>c, <2>1 DEF Drops
<1>7. CASE Repeats
  <2>1. Replays' = Replays + 1
    BY <1>7, <1>r, FaultsAdd DEF Repeats, AnyFault
  <2>2. CASE UNCHANGED handled
    <3>1. {} \in SUBSET (1..Len(topic)) /\ Delivery!InOrder({})
      BY DEF Delivery!InOrder
    <3>2. IsFiniteSet({}) /\ Cardinality({}) <= BatchSize
      BY <1>c, FS_EmptySet
    <3>3. passed' = passed \cup {} /\ UNCHANGED topic
      BY <1>7 DEF Repeats
    <3> QED
      BY <1>l, <2>1, <2>2, <3>1, <3>2, <3>3
  <2>3. CASE handled' = Again(run.held)
    BY <1>7, <1>g, <2>1, <2>3 DEF Repeats
  <2> QED
    BY <1>7, <2>2, <2>3 DEF Repeats
<1>8. CASE Falls
  <2> DEFINE S == {i \in run.held : i <= committed}
  <2>1. Replays' = Replays + 1
    BY <1>8, <1>r, FaultsAdd DEF Falls, AnyFault
  <2>2. S \in SUBSET (1..Len(topic)) /\ S \in SUBSET run.held
    BY <1>h
  <2>3. Delivery!InOrder(S)
    <3>1. committed <= Frontier + 1 /\ \A j \in run.held : j < committed => j \in S
      BY <1>r
    <3> QED
      BY <1>o, <1>r, <2>2, <3>1
  <2>4. IsFiniteSet(S) /\ Cardinality(S) <= Cardinality(run.held) /\ Cardinality(S) \in Nat
    BY <1>r, <2>2, FS_Subset, FS_CardinalityType
  <2>5. Cardinality(S) <= BatchSize
    BY <1>r, <1>c, <2>4
  <2>6. passed' = passed \cup S /\ UNCHANGED <<topic, handled>>
    BY <1>8 DEF Falls
  <2> HIDE DEF S
  <2> QED
    BY <1>l, <2>1, <2>2, <2>3, <2>4, <2>5, <2>6
<1> QED
  BY <1>1, <1>2, <1>3, <1>4, <1>5, <1>6, <1>7, <1>8 DEF Effect

\* For any numbers of events, faults and events per poll and batch: the loops settle
\* the events in their order, and handle one again only after a fault that made it
\* come again, once for each.
THEOREM DeliveryImplemented == Spec => ImplementsDelivery
<1>1. Init => Delivery!Init
  <2>1. Init => Len(topic) = 0 /\ Replays = 0
    BY DEF Init, Replays, AnyFault
  <2> QED
    BY <2>1 DEF Init, Delivery!Init, Offset
<1>2. EventInv /\ EventInv' /\ [Next]_vars => [Delivery!Next]_Delivery!vars
  <2> SUFFICES ASSUME EventInv, EventInv', [Next]_vars
               PROVE  Delivery!Next \/ UNCHANGED Delivery!vars
    OBVIOUS
  <2>1. Effect /\ loop' = loop /\ TypeOK'
    BY Effects DEF EventInv, TypeInv
  <2> QED
    BY <2>1, DeliveryStep
<1> QED
  BY <1>1, <1>2, EventInvariant, PTL DEF Spec, ImplementsDelivery, Delivery!Spec
=============================================================================
