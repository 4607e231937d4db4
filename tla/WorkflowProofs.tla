---------------------------- MODULE WorkflowProofs ---------------------------
(***************************************************************************)
(* Theorems about Workflow, for any sets of processes, any size of the     *)
(* feed and any numbers of runs and faults: the types, that the events are *)
(* true, and that the feed holds the newest of them.                       *)
(***************************************************************************)
EXTENDS Workflow, TLAPS

-----------------------------------------------------------------------------
(* The invariants.                                                         *)

\* r has a run whose event is still to be posted.
Active(r) == runner[r].at \in {"notify", "wait", "push"}

\* A process in run_pipeline.
Busy == [at: {"notify", "wait", "push", "reply"}, event: Event]
USE DEF Busy

TypeInv ==
  /\ TypeOK
  /\ runner \in [Runner -> {Idle} \cup Busy]
  /\ feed \in [ok: BOOLEAN, events: Seq(Event)]

\* Each run belongs to one process until its event is stored, and to none after;
\* the API knows nothing of the runs to come.
RunsInv ==
  /\ \A r \in Runner : Active(r) => runner[r].event.run <= runs
  /\ \A r, q \in Runner :
       Active(r) /\ Active(q) /\ runner[r].event.run = runner[q].event.run => r = q
  /\ \A i \in 1..Len(stored) :
       /\ stored[i].run <= runs
       /\ \A r \in Runner : Active(r) => runner[r].event.run # stored[i].run
  /\ \A n \in Run : n > runs => call[n] = "none"

\* What an event says is so, and will be when the API is through: calls is what became
\* of the calls, and late the runs that stopped waiting for theirs.
Truth(e, calls, late) ==
  /\ e.status = "no_action" => e.tier = "stable" /\ calls[e.run] = "none"
  /\ e.status = "dispatched" => calls[e.run] = "ended"
  /\ e.status = "dispatch_error" => calls[e.run] = "none" \/ e.run \in late

\* The API is called at most once for a run, and the event is true from the moment
\* it is to be posted.
TruthInv ==
  /\ \A r \in Runner :
       /\ runner[r].at = "notify" => call[runner[r].event.run] = "none"
       /\ runner[r].at = "wait" => call[runner[r].event.run] # "none"
       /\ runner[r].at = "push" => Truth(runner[r].event, call, gaveUp)
  /\ \A i \in 1..Len(stored) : Truth(stored[i], call, gaveUp)

-----------------------------------------------------------------------------
(* Type correctness.                                                       *)

LEMMA ActiveType ==
  ASSUME TypeInv, NEW r \in Runner, runner[r].at # "idle"
  PROVE  /\ runner[r] \in Busy
         /\ runner[r].event \in Event /\ runner[r].event.run \in Run
  BY DEF TypeInv, Idle, Event

LEMMA ActiveAt ==
  ASSUME TypeInv, NEW r \in Runner
  PROVE  Active(r) <=> runner[r].at # "idle" /\ runner[r].at # "reply"
  BY DEF TypeInv, Active, Idle

\* What a process is left with when it goes on to push.
LEMMA PushType ==
  ASSUME TypeInv, NEW r \in Runner, runner[r].at # "idle",
         NEW s \in {"no_action", "dispatched", "dispatch_error"},
         NEW c \in {"none", "attempted", "error"}, Push(r, s, c)
  PROVE  /\ runner' \in [Runner -> {Idle} \cup Busy]
         /\ runner'[r].at = "push" /\ runner'[r] # Idle
         /\ runner'[r].event.run = runner[r].event.run
         /\ runner'[r].event.tier = runner[r].event.tier
         /\ runner'[r].event.status = s /\ runner'[r].event.channels = c
         /\ \A q \in Runner \ {r} : runner'[q] = runner[q]
<1> DEFINE e == [runner[r].event EXCEPT !.status = s, !.channels = c]
<1>1. runner[r].event \in Event
  BY ActiveType
<1>2. /\ e \in Event /\ e.run = runner[r].event.run /\ e.tier = runner[r].event.tier
      /\ e.status = s /\ e.channels = c
  BY <1>1 DEF Event
<1> HIDE DEF e
<1>3. [at |-> "push", event |-> e] \in Busy
  BY <1>2
<1>4. runner' = [runner EXCEPT ![r] = [at |-> "push", event |-> e]]
  BY DEF Push, e
<1>5. [at |-> "push", event |-> e] # Idle
  <2>1. [at |-> "push", event |-> e].at = "push" /\ Idle.at = "idle"
    BY DEF Idle
  <2> QED
    BY <2>1
<1> QED
  BY <1>2, <1>3, <1>4, <1>5 DEF TypeInv

LEMMA TypeInit == Init => TypeInv
  BY WorkflowAssumption DEF Init, TypeInv, TypeOK, Run, CallState, Idle

\* The types of a feed with one event more.
LEMMA KeptType ==
  ASSUME TypeInv, NEW e \in Event
  PROVE  Kept(e) \in Seq(Event) /\ Len(Kept(e)) <= MaxEvents
<1> DEFINE es == <<e>> \o feed.events
<1>1. es \in Seq(Event) /\ Len(es) \in Nat /\ MaxEvents \in Nat \ {0}
  BY WorkflowAssumption DEF TypeInv
<1> HIDE DEF es
<1>2. CASE Len(es) > MaxEvents
  <2>1. SubSeq(es, 1, MaxEvents) \in Seq(Event) /\ Len(SubSeq(es, 1, MaxEvents)) = MaxEvents
    BY <1>1, <1>2
  <2> QED
    BY <1>1, <1>2, <2>1 DEF Kept, es
<1>3. CASE ~(Len(es) > MaxEvents)
  BY <1>1, <1>3 DEF Kept, es
<1> QED
  BY <1>2, <1>3

LEMMA TypeStep == TypeInv /\ [Next]_vars => TypeInv'
<1> SUFFICES ASSUME TypeInv, [Next]_vars PROVE TypeInv'
  OBVIOUS
<1>t. /\ runner \in [Runner -> {Idle} \cup Busy]
      /\ feed \in [ok: BOOLEAN, events: Seq(Event)] /\ Len(feed.events) <= MaxEvents
      /\ runs \in Nat /\ runs <= MaxRuns /\ call \in [Run -> CallState] /\ front \in BOOLEAN
      /\ trigger \subseteq Child /\ stored \in Seq(Event)
      /\ answered \subseteq Run /\ spoilt \subseteq Run /\ gaveUp \subseteq Run
      /\ faults \in Nat /\ faults <= MaxFaults /\ MaxRuns \in Nat /\ MaxFaults \in Nat
      /\ MaxEvents \in Nat \ {0}
  BY WorkflowAssumption DEF TypeInv, TypeOK
<1>a. ASSUME NEW f, f \in [Runner -> {Idle} \cup Busy]
      PROVE  \A r \in Runner : f[r].at = "idle" \/ f[r] \in RunnerState
  BY <1>a DEF Idle, RunnerState
<1>s. ASSUME runner' \in [Runner -> {Idle} \cup Busy],
             runs' \in 0..MaxRuns, call' \in [Run -> CallState], front' \in BOOLEAN,
             feed' \in [ok: BOOLEAN, events: Seq(Event)], Len(feed'.events) <= MaxEvents,
             trigger' \subseteq Child, stored' \in Seq(Event), answered' \subseteq Run,
             spoilt' \subseteq Run, gaveUp' \subseteq Run,
             faults' \in 0..MaxFaults
      PROVE  TypeInv'
  BY <1>a, <1>s DEF TypeInv, TypeOK
<1>f. Fault => faults' \in 0..MaxFaults
  BY <1>t DEF Fault
<1>n. faults \in 0..MaxFaults /\ runs \in 0..MaxRuns
  BY <1>t
<1>1. ASSUME NEW r \in Runner, Begin(r) PROVE TypeInv'
  <2>1. PICK tier \in Tier :
          runner' = [runner EXCEPT ![r] = [at |-> IF tier = "stable" THEN "push" ELSE "notify",
                                           event |-> Blank(runs + 1, tier)]]
    BY <1>1 DEF Begin
  <2>2. runs + 1 \in Run
    BY <1>1, <1>t DEF Begin, Run
  <2>3. Blank(runs + 1, tier) \in Event
    BY <2>2 DEF Blank, Event
  <2>4. trigger' \subseteq Child
    BY <1>1, <1>t DEF Begin
  <2>5. runs' \in 0..MaxRuns
    BY <1>1, <2>2 DEF Begin, Run
  <2>6. [at |-> IF tier = "stable" THEN "push" ELSE "notify", event |-> Blank(runs + 1, tier)]
          \in Busy
    BY <2>3
  <2>7. runner' \in [Runner -> {Idle} \cup Busy]
    BY <1>t, <2>1, <2>6
  <2> QED
    BY <1>1, <1>t, <1>n, <1>s, <2>4, <2>5, <2>7 DEF Begin, posts
<1>2. ASSUME NEW r \in Runner, Notify(r) PROVE TypeInv'
  <2>1. CASE Push(r, "dispatch_error", "error") /\ UNCHANGED call
    BY <1>2, <1>t, <1>n, <1>s, <2>1, PushType DEF Notify, posts
  <2>2. CASE /\ call' = [call EXCEPT ![runner[r].event.run] = "running"]
             /\ runner' = [runner EXCEPT ![r].at = "wait"]
    <3>1. runner[r] \in Busy
      BY <1>2, ActiveType DEF Notify
    <3>2. [runner[r] EXCEPT !.at = "wait"] \in Busy
      BY <3>1
    <3>3. runner' \in [Runner -> {Idle} \cup Busy]
      BY <1>t, <2>2, <3>2
    <3>4. call' \in [Run -> CallState]
      BY <1>t, <2>2 DEF CallState
    <3> QED
      BY <1>2, <1>t, <1>n, <1>s, <3>3, <3>4 DEF Notify, posts
  <2> QED
    BY <1>2, <2>1, <2>2 DEF Notify
<1>3. ASSUME NEW n \in Run, Serve(n) PROVE TypeInv'
  <2>1. call' \in [Run -> CallState]
    BY <1>3, <1>t DEF Serve, CallState
  <2> QED
    BY <1>3, <1>t, <1>n, <1>s, <2>1 DEF Serve, posts
<1>4. ASSUME NEW r \in Runner, Receive(r) PROVE TypeInv'
  BY <1>4, <1>t, <1>n, <1>s, PushType DEF Receive, posts
<1>5. ASSUME NEW r \in Runner, GiveUp(r) PROVE TypeInv'
  <2>1. runner[r].event.run \in Run
    BY <1>5, ActiveType DEF GiveUp
  <2>2. gaveUp' \subseteq Run
    BY <1>5, <1>t, <2>1 DEF GiveUp
  <2> QED
    BY <1>5, <1>t, <1>n, <1>s, <2>2, PushType DEF GiveUp, posts
<1>6. ASSUME NEW r \in Runner, runner' = [runner EXCEPT ![r] = Idle]
      PROVE  runner' \in [Runner -> {Idle} \cup Busy]
  BY <1>6, <1>t
<1>7. ASSUME NEW r \in Runner, Store(r) PROVE TypeInv'
  <2>1. runner[r].event \in Event
    BY <1>7, ActiveType DEF Store
  <2>2. stored' \in Seq(Event)
    <3>1. <<runner[r].event>> \o stored \in Seq(Event)
      BY <1>t, <2>1
    <3> QED
      BY <1>7, <1>t, <3>1 DEF Store
  <2>3. feed' \in [ok: BOOLEAN, events: Seq(Event)] /\ Len(feed'.events) <= MaxEvents
    <3>1. CASE feed' = [feed EXCEPT !.events = Kept(runner[r].event)]
      BY <1>t, <2>1, <3>1, KeptType
    <3>2. CASE feed' = [ok |-> FALSE, events |-> <<>>]
      BY <1>t, <3>2
    <3> QED
      BY <1>7, <1>t, <3>1, <3>2 DEF Store
  <2>4. faults' \in 0..MaxFaults
    BY <1>7, <1>f, <1>n DEF Store
  <2>5. spoilt' \subseteq Run
    <3>1. runner[r].event.run \in Run
      BY <2>1 DEF Event
    <3> QED
      BY <1>7, <1>t, <3>1 DEF Store
  <2>6. runner' \in [Runner -> {Idle} \cup Busy]
    <3>1. runner[r] \in Busy
      BY <1>7, ActiveType DEF Store
    <3>2. [runner[r] EXCEPT !.at = "reply"] \in Busy
      BY <3>1
    <3> QED
      BY <1>7, <1>t, <3>2 DEF Store
  <2> QED
    BY <1>7, <1>t, <1>n, <1>s, <2>2, <2>3, <2>4, <2>5, <2>6 DEF Store
<1>15. ASSUME NEW r \in Runner, Reply(r) PROVE TypeInv'
  <2>1. runner[r].event.run \in Run
    BY <1>15, ActiveType DEF Reply
  <2>2. answered' \subseteq Run
    BY <1>15, <1>t, <2>1 DEF Reply
  <2> QED
    BY <1>15, <1>t, <1>n, <1>s, <1>6, <2>2 DEF Reply
<1>8. ASSUME NEW r \in Runner, Miss(r) PROVE TypeInv'
  BY <1>8, <1>t, <1>n, <1>s, <1>6 DEF Miss, posts
<1>9. ASSUME NEW r \in Runner, Kill(r) PROVE TypeInv'
  BY <1>9, <1>t, <1>n, <1>f, <1>s, <1>6 DEF Kill, posts
<1>10. ASSUME NEW r \in Runner, Answer(r) PROVE TypeInv'
  <2>1. trigger' \subseteq Child
    BY <1>10, <1>t DEF Answer
  <2> QED
    BY <1>10, <1>t, <1>n, <1>s, <2>1 DEF Answer, posts
<1>11. CASE ApiCrash
  <2>1. call' \in [Run -> CallState]
    BY <1>11, <1>t DEF ApiCrash, CallState
  <2> QED
    BY <1>11, <1>t, <1>n, <1>f, <1>s, <2>1 DEF ApiCrash, posts
<1>12. CASE FrontCrash
  <2>1. feed' \in [ok: BOOLEAN, events: Seq(Event)] /\ Len(feed'.events) <= MaxEvents
    <3>1. CASE feed' = [ok |-> FALSE, events |-> <<>>]
      BY <1>t, <3>1
    <3> QED
      BY <1>12, <1>t, <3>1 DEF FrontCrash
  <2>2. runner' \in [Runner -> {Idle} \cup Busy]
    BY <1>12, <1>t DEF FrontCrash
  <2> QED
    BY <1>12, <1>t, <1>n, <1>f, <1>s, <2>1, <2>2 DEF FrontCrash, posts
<1>13. CASE FrontStart
  BY <1>13, <1>t, <1>n, <1>s DEF FrontStart, posts
<1>14. CASE UNCHANGED vars
  BY <1>14, <1>t, <1>n, <1>s DEF vars
<1> QED
  BY <1>1, <1>2, <1>3, <1>4, <1>5, <1>7, <1>8, <1>9, <1>10, <1>11, <1>12, <1>13, <1>14, <1>15
     DEF Next, Step

LEMMA TypeInvariant == Spec => []TypeInv
  BY TypeInit, TypeStep, PTL DEF Spec

\* For any processes, size of the feed, runs and faults: the variables of the live
\* workflow keep their types.
THEOREM TypeCorrect == Spec => []TypeOK
<1>1. TypeInv => TypeOK
  BY DEF TypeInv
<1> QED
  BY <1>1, TypeInvariant, PTL

-----------------------------------------------------------------------------
(* The feed.                                                                *)

\* The newest of some events, as many as the feed holds.
Newest(s) == SubSeq(s, 1, IF Len(s) < MaxEvents THEN Len(s) ELSE MaxEvents)

LEMMA CutIs ==
  ASSUME NEW s \in Seq(Event), NEW m \in 0..Len(s)
  PROVE  /\ SubSeq(s, 1, m) \in Seq(Event) /\ Len(SubSeq(s, 1, m)) = m
         /\ \A i \in 1..m : SubSeq(s, 1, m)[i] = s[i]
  OBVIOUS

LEMMA NewestIs ==
  ASSUME NEW s \in Seq(Event)
  PROVE  /\ Newest(s) \in Seq(Event)
         /\ Len(Newest(s)) = IF Len(s) < MaxEvents THEN Len(s) ELSE MaxEvents
         /\ \A i \in 1..Len(Newest(s)) : Newest(s)[i] = s[i]
<1> DEFINE m == IF Len(s) < MaxEvents THEN Len(s) ELSE MaxEvents
<1>1. m \in 0..Len(s) /\ Len(s) \in Nat
  BY WorkflowAssumption
<1> HIDE DEF m
<1> QED
  BY <1>1, CutIs DEF Newest, m

\* Putting an event before the newest ones and cutting the result is the same as
\* taking the newest ones once the event has been put before them all.
LEMMA KeptNewest ==
  ASSUME TypeInv, NEW e \in Event, feed.events = Newest(stored)
  PROVE  Kept(e) = Newest(<<e>> \o stored)
<1> DEFINE a == <<e>> \o stored
           es == <<e>> \o feed.events
<1>1. /\ stored \in Seq(Event) /\ feed.events \in Seq(Event)
      /\ Len(stored) \in Nat /\ Len(feed.events) \in Nat /\ MaxEvents \in Nat \ {0}
  BY WorkflowAssumption DEF TypeInv, TypeOK
<1>2. /\ a \in Seq(Event) /\ Len(a) = Len(stored) + 1 /\ a[1] = e
      /\ \A i \in 1..Len(stored) : a[i + 1] = stored[i]
  BY <1>1
<1>3. /\ es \in Seq(Event) /\ Len(es) = Len(feed.events) + 1 /\ es[1] = e
      /\ \A i \in 1..Len(feed.events) : es[i + 1] = feed.events[i]
  BY <1>1
<1>4. /\ Len(feed.events) = IF Len(stored) < MaxEvents THEN Len(stored) ELSE MaxEvents
      /\ \A i \in 1..Len(feed.events) : feed.events[i] = stored[i]
  BY <1>1, NewestIs
<1> HIDE DEF a, es
<1>5. \A i \in 1..Len(es) : es[i] = a[i]
  <2> SUFFICES ASSUME NEW i \in 1..Len(es) PROVE es[i] = a[i]
    OBVIOUS
  <2>1. CASE i = 1
    BY <1>2, <1>3, <2>1
  <2>2. CASE i # 1
    <3>1. i - 1 \in 1..Len(feed.events) /\ i - 1 \in 1..Len(stored) /\ (i - 1) + 1 = i
      BY <1>1, <1>3, <1>4, <2>2
    <3> QED
      BY <1>2, <1>3, <1>4, <3>1
  <2> QED
    BY <2>1, <2>2
<1>6. /\ Newest(a) \in Seq(Event)
      /\ Len(Newest(a)) = IF Len(a) < MaxEvents THEN Len(a) ELSE MaxEvents
      /\ \A i \in 1..Len(Newest(a)) : Newest(a)[i] = a[i]
  BY <1>2, NewestIs
<1>7. CASE Len(es) > MaxEvents
  <2>1. /\ Kept(e) = SubSeq(es, 1, MaxEvents)
    BY <1>7 DEF Kept, es
  <2>2. /\ SubSeq(es, 1, MaxEvents) \in Seq(Event)
        /\ Len(SubSeq(es, 1, MaxEvents)) = MaxEvents
        /\ \A i \in 1..MaxEvents : SubSeq(es, 1, MaxEvents)[i] = es[i]
    <3>1. MaxEvents \in 0..Len(es)
      BY <1>1, <1>3, <1>7
    <3> QED
      BY <1>3, <3>1, CutIs
  <2>3. Len(Newest(a)) = MaxEvents
    BY <1>1, <1>2, <1>3, <1>4, <1>6, <1>7
  <2>4. \A i \in 1..MaxEvents : Kept(e)[i] = Newest(a)[i]
    <3> SUFFICES ASSUME NEW i \in 1..MaxEvents PROVE Kept(e)[i] = Newest(a)[i]
      OBVIOUS
    <3>1. i \in 1..Len(es) /\ i \in 1..Len(Newest(a))
      BY <1>1, <1>3, <1>7, <2>3
    <3> QED
      BY <1>5, <1>6, <2>1, <2>2, <3>1
  <2> QED
    BY <1>1, <1>6, <2>1, <2>2, <2>3, <2>4 DEF a
<1>8. CASE ~(Len(es) > MaxEvents)
  <2>1. Kept(e) = es
    BY <1>8 DEF Kept, es
  <2>2. Len(Newest(a)) = Len(es)
    BY <1>1, <1>2, <1>3, <1>4, <1>6, <1>8
  <2>3. \A i \in 1..Len(es) : es[i] = Newest(a)[i]
    BY <1>5, <1>6, <2>2
  <2> QED
    BY <1>3, <1>6, <2>1, <2>2, <2>3 DEF a
<1> QED
  BY <1>7, <1>8

\* The events once one has been put in front.
LEMMA PutFirst ==
  ASSUME NEW s \in Seq(Event), NEW e \in Event, NEW i \in 1..Len(<<e>> \o s)
  PROVE  (<<e>> \o s)[i] = e \/ \E j \in 1..Len(s) : (<<e>> \o s)[i] = s[j]
<1>1. Len(<<e>> \o s) = Len(s) + 1 /\ Len(s) \in Nat
  OBVIOUS
<1>2. CASE i = 1
  BY <1>2
<1>3. CASE i # 1
  <2>1. i - 1 \in 1..Len(s) /\ (<<e>> \o s)[i] = s[i - 1]
    BY <1>1, <1>3
  <2> QED
    BY <2>1
<1> QED
  BY <1>2, <1>3

\* What the feed says of a run whose event was answered with "ok" it says of the runs
\* that are to be answered, too.
Written == spoilt \cup {stored[i].run : i \in 1..Len(stored)}
FeedInv ==
  IF feed.ok
  THEN /\ feed.events = Newest(stored)
       /\ \A n \in answered : n \in Written
       /\ \A r \in Runner : runner[r].at = "reply" => runner[r].event.run \in Written
  ELSE faults > 0

LEMMA FeedIs == FeedInv => FeedIsNewest
  BY DEF FeedInv, FeedIsNewest, Newest, Written

LEMMA FeedInit == Init => FeedInv
<1> SUFFICES ASSUME Init PROVE FeedInv
  OBVIOUS
<1>1. feed.ok /\ feed.events = <<>> /\ stored = <<>> /\ answered = {}
  BY DEF Init
<1>2. Len(<<>>) = 0 /\ SubSeq(<<>>, 1, 0) = <<>> /\ 0 < MaxEvents
  BY WorkflowAssumption
<1>3. \A r \in Runner : runner[r].at # "reply"
  BY DEF Init, Idle
<1> QED
  BY <1>1, <1>2, <1>3 DEF FeedInv, Newest

\* What was written stays written.
LEMMA WrittenStays ==
  ASSUME stored \in Seq(Event), spoilt \subseteq spoilt',
         UNCHANGED stored \/ \E e \in Event : stored' = <<e>> \o stored,
         NEW n, n \in Written
  PROVE  n \in Written'
<1>1. CASE n \in spoilt
  BY <1>1 DEF Written
<1>2. ASSUME NEW i \in 1..Len(stored), stored[i].run = n PROVE n \in Written'
  <2>1. CASE UNCHANGED stored
    BY <1>2, <2>1 DEF Written
  <2>2. ASSUME NEW e \in Event, stored' = <<e>> \o stored PROVE n \in Written'
    <3>1. i + 1 \in 1..Len(stored') /\ stored'[i + 1] = stored[i]
      BY <2>2
    <3> QED
      BY <1>2, <3>1 DEF Written
  <2> QED
    BY <2>1, <2>2
<1> QED
  BY <1>1, <1>2 DEF Written

LEMMA FeedStep == TypeInv /\ FeedInv /\ [Next]_vars => FeedInv'
<1> SUFFICES ASSUME TypeInv, FeedInv, [Next]_vars PROVE FeedInv'
  OBVIOUS
<1>t. /\ faults \in Nat /\ MaxFaults \in Nat /\ feed \in [ok: BOOLEAN, events: Seq(Event)]
      /\ runner \in [Runner -> {Idle} \cup Busy]
      /\ stored \in Seq(Event)
  BY WorkflowAssumption DEF TypeInv, TypeOK
<1>f. Fault => faults' > 0 /\ faults' = faults + 1
  BY <1>t DEF Fault
<1>r. ASSUME UNCHANGED <<feed, posts>>, faults' = faults \/ Fault,
             \A q \in Runner : runner'[q].at = "reply" => runner'[q] = runner[q]
      PROVE  FeedInv'
  <2>1. UNCHANGED <<feed, stored, answered, spoilt>> /\ Written' = Written
    BY <1>r DEF posts, Written
  <2>2. CASE feed.ok
    BY <1>r, <2>1, <2>2 DEF FeedInv, Newest
  <2>3. CASE ~feed.ok
    BY <1>f, <1>r, <1>t, <2>1, <2>3 DEF FeedInv
  <2> QED
    BY <2>2, <2>3
<1>p. ASSUME NEW r \in Runner, runner'[r].at # "reply",
             \A q \in Runner \ {r} : runner'[q] = runner[q]
      PROVE  \A q \in Runner : runner'[q].at = "reply" => runner'[q] = runner[q]
  BY <1>p
<1>1. ASSUME NEW r \in Runner, Store(r) PROVE FeedInv'
  <2>1. /\ runner[r].event \in Event /\ answered' = answered
        /\ runner' = [runner EXCEPT ![r].at = "reply"]
        /\ runner[r] \in Busy
    BY <1>1, ActiveType DEF Store
  <2>2. /\ runner'[r].event = runner[r].event
        /\ \A q \in Runner \ {r} : runner'[q] = runner[q]
    BY <1>t, <2>1
  <2>w. ASSUME feed.ok, UNCHANGED stored \/ stored' = <<runner[r].event>> \o stored,
               spoilt \subseteq spoilt', runner[r].event.run \in Written'
        PROVE  /\ \A n \in answered' : n \in Written'
               /\ \A q \in Runner : runner'[q].at = "reply" => runner'[q].event.run \in Written'
    <3>1. Written \subseteq Written'
      BY <1>t, <2>1, <2>w, WrittenStays
    <3>2. /\ \A n \in answered : n \in Written
          /\ \A q \in Runner : runner[q].at = "reply" => runner[q].event.run \in Written
      BY <2>w DEF FeedInv
    <3>3. ASSUME NEW q \in Runner, runner'[q].at = "reply"
          PROVE  runner'[q].event.run \in Written'
      <4>1. CASE q = r
        BY <2>2, <2>w, <4>1 DEF Written
      <4>2. CASE q # r
        <5>1. runner[q].event.run \in Written'
          BY <2>2, <3>1, <3>2, <3>3, <4>2
        <5> QED
          BY <2>2, <4>2, <5>1 DEF Written
      <4> QED
        BY <4>1, <4>2
    <3> QED
      BY <2>1, <3>1, <3>2, <3>3
  <2>3. CASE /\ feed.ok /\ UNCHANGED <<spoilt, faults>>
             /\ feed' = [feed EXCEPT !.events = Kept(runner[r].event)]
             /\ stored' = <<runner[r].event>> \o stored
    <3>1. feed'.ok /\ feed'.events = Kept(runner[r].event)
      BY <1>t, <2>3
    <3>2. feed'.events = Newest(stored')
      <4>1. feed.events = Newest(stored)
        BY <2>3 DEF FeedInv
      <4> QED
        BY <2>1, <2>3, <3>1, <4>1, KeptNewest
    <3>3. runner[r].event.run \in Written'
      <4>1. 1 \in 1..Len(stored') /\ stored'[1] = runner[r].event
        BY <1>t, <2>1, <2>3
      <4> QED
        BY <2>1, <2>2, <4>1 DEF Written
    <3> QED
      BY <2>3, <2>w, <3>1, <3>2, <3>3 DEF FeedInv, Newest
  <2>4. CASE ~feed.ok /\ UNCHANGED <<feed, stored, spoilt, faults>>
    BY <2>4 DEF FeedInv
  <2>5. CASE /\ feed.ok /\ UNCHANGED <<feed, stored>>
             /\ spoilt' = spoilt \cup {runner[r].event.run}
    <3>1. runner[r].event.run \in Written'
      BY <2>2, <2>5 DEF Written
    <3>2. feed'.ok /\ feed'.events = Newest(stored)
      BY <2>5 DEF FeedInv
    <3> QED
      BY <2>5, <2>w, <3>1, <3>2 DEF FeedInv, Newest
  <2>6. CASE feed' = [ok |-> FALSE, events |-> <<>>] /\ Fault
    BY <1>f, <2>6 DEF FeedInv
  <2> QED
    BY <1>1, <2>3, <2>4, <2>5, <2>6 DEF Store
<1>2. ASSUME NEW r \in Runner, Reply(r) PROVE FeedInv'
  <2>1. /\ runner[r].at = "reply" /\ runner' = [runner EXCEPT ![r] = Idle]
        /\ answered' = answered \cup {runner[r].event.run}
        /\ UNCHANGED <<feed, stored, spoilt, faults>>
    BY <1>2 DEF Reply
  <2>2. \A q \in Runner : runner'[q].at = "reply" => runner'[q] = runner[q]
    BY <1>t, <2>1 DEF Idle
  <2>3. Written' = Written
    BY <2>1 DEF Written
  <2>4. CASE ~feed.ok
    BY <2>1, <2>4 DEF FeedInv
  <2>5. CASE feed.ok
    <3>1. /\ feed.events = Newest(stored) /\ \A n \in answered : n \in Written
          /\ \A q \in Runner : runner[q].at = "reply" => runner[q].event.run \in Written
      BY <2>5 DEF FeedInv
    <3>2. \A n \in answered' : n \in Written'
      BY <2>1, <2>3, <3>1
    <3>3. ASSUME NEW q \in Runner, runner'[q].at = "reply"
          PROVE  runner'[q].event.run \in Written'
      <4>1. runner[q].event.run \in Written'
        BY <2>2, <2>3, <3>1, <3>3
      <4> QED
        BY <2>2, <3>3, <4>1 DEF Written
    <3> QED
      BY <2>1, <2>5, <3>1, <3>2, <3>3 DEF FeedInv, Newest
  <2> QED
    BY <2>4, <2>5
<1>3. CASE FrontCrash
  <2>1. CASE feed' = [ok |-> FALSE, events |-> <<>>] /\ Fault
    BY <1>f, <2>1 DEF FeedInv
  <2>2. \A q \in Runner : runner'[q].at = "reply" => runner'[q] = runner[q]
    BY <1>3 DEF FrontCrash, Idle
  <2> QED
    BY <1>3, <1>r, <2>1, <2>2 DEF FrontCrash
<1>4. ASSUME NEW r \in Runner, Receive(r) \/ GiveUp(r) PROVE FeedInv'
  <2>1. runner'[r].at # "reply" /\ \A q \in Runner \ {r} : runner'[q] = runner[q]
    BY <1>4, PushType DEF Receive, GiveUp
  <2> QED
    BY <1>4, <1>p, <1>r, <2>1 DEF Receive, GiveUp
<1>5. ASSUME NEW r \in Runner, Notify(r) PROVE FeedInv'
  <2>1. runner'[r].at # "reply" /\ \A q \in Runner \ {r} : runner'[q] = runner[q]
    <3>1. CASE Push(r, "dispatch_error", "error")
      BY <1>5, <3>1, PushType DEF Notify
    <3>2. CASE runner' = [runner EXCEPT ![r].at = "wait"]
      <4>1. runner[r] \in Busy
        BY <1>5, ActiveType DEF Notify
      <4> QED
        BY <1>t, <3>2, <4>1
    <3> QED
      BY <1>5, <3>1, <3>2 DEF Notify
  <2> QED
    BY <1>5, <1>p, <1>r, <2>1 DEF Notify
<1>6. ASSUME NEW r \in Runner, Begin(r) PROVE FeedInv'
  <2>1. runner'[r].at # "reply" /\ \A q \in Runner \ {r} : runner'[q] = runner[q]
    BY <1>6, <1>t DEF Begin
  <2> QED
    BY <1>6, <1>p, <1>r, <2>1 DEF Begin
<1>7. ASSUME NEW r \in Runner, Miss(r) \/ Kill(r) PROVE FeedInv'
  <2>1. \A q \in Runner : runner'[q].at = "reply" => runner'[q] = runner[q]
    BY <1>7, <1>t DEF Miss, Kill, Idle
  <2> QED
    BY <1>7, <1>r, <2>1 DEF Miss, Kill
<1>8. ASSUME NEW r \in Runner, Answer(r) PROVE FeedInv'
  BY <1>8, <1>r DEF Answer
<1>9. ASSUME NEW n \in Run, Serve(n) PROVE FeedInv'
  BY <1>9, <1>r DEF Serve
<1>10. CASE ApiCrash \/ FrontStart
  BY <1>10, <1>r DEF ApiCrash, FrontStart
<1>11. CASE UNCHANGED vars
  BY <1>11, <1>r DEF vars, posts
<1> QED
  BY <1>1, <1>2, <1>3, <1>4, <1>5, <1>6, <1>7, <1>8, <1>9, <1>10, <1>11 DEF Next, Step

\* For any processes and size of the feed: the feed holds the newest of the events
\* written to it, and every event answered with "ok" was written or had its own write
\* fail, until a fault leaves a file that cannot be parsed.
THEOREM FeedNewest == Spec => []FeedIsNewest
<1>1. TypeInv /\ FeedInv /\ [Next]_vars => FeedInv'
  BY FeedStep
<1> QED
  BY <1>1, FeedInit, FeedIs, TypeInvariant, PTL DEF Spec

-----------------------------------------------------------------------------
(* Runs and their owners.                                                   *)

\* The server's end stops no run whose event is to be posted, but for the one it was
\* writing; it changes nothing of the others.
LEMMA FrontLeaves ==
  ASSUME FrontCrash, NEW q \in Runner
  PROVE  runner'[q] = runner[q] \/ ~Active(q)'
  BY DEF FrontCrash, Active, Idle

LEMMA RunsInit == Init => RunsInv
  BY DEF Init, RunsInv, Active, Idle

\* Steps that begin no run and post no event.
LEMMA RunsKept ==
  ASSUME RunsInv, UNCHANGED <<runs, stored>>,
         \A q \in Runner : Active(q)' => Active(q) /\ runner'[q].event.run = runner[q].event.run,
         \A n \in Run : n > runs /\ call[n] = "none" => call'[n] = "none"
  PROVE  RunsInv'
  BY DEF RunsInv

\* A process goes on with its run, or has done with it.
LEMMA GoesOn ==
  ASSUME NEW r \in Runner,
         \A q \in Runner \ {r} : runner'[q] = runner[q],
         ~Active(r)' \/ (Active(r) /\ runner'[r].event.run = runner[r].event.run)
  PROVE  \A q \in Runner : Active(q)' => Active(q) /\ runner'[q].event.run = runner[q].event.run
  BY DEF Active

LEMMA RunsStep == TypeInv /\ RunsInv /\ [Next]_vars => RunsInv'
<1> SUFFICES ASSUME TypeInv, RunsInv, [Next]_vars PROVE RunsInv'
  OBVIOUS
<1>t. /\ runner \in [Runner -> {Idle} \cup Busy]
      /\ runs \in Nat /\ call \in [Run -> CallState] /\ stored \in Seq(Event) /\ Run \subseteq Nat
  BY WorkflowAssumption DEF TypeInv, TypeOK, Run
<1>e. ASSUME NEW r \in Runner, Active(r)
      PROVE  runner[r].event.run \in Run /\ runner[r].event.run <= runs
  BY <1>e, ActiveAt, ActiveType DEF RunsInv
<1>a. ASSUME NEW i \in 1..Len(stored)
      PROVE  stored[i] \in Event /\ stored[i].run \in Run /\ stored[i].run <= runs
  <2>1. stored[i] \in Event
    BY <1>t
  <2>2. stored[i].run \in Run
    BY <2>1 DEF Event
  <2> QED
    BY <2>1, <2>2 DEF RunsInv
<1>i. ASSUME NEW r \in Runner, runner' = [runner EXCEPT ![r] = Idle]
      PROVE  \A q \in Runner : Active(q)' => Active(q) /\ runner'[q].event.run = runner[q].event.run
  BY <1>i, <1>t, GoesOn DEF Active, Idle
<1>p. ASSUME NEW r \in Runner, Active(r),
             NEW s \in {"no_action", "dispatched", "dispatch_error"},
             NEW c \in {"none", "attempted", "error"}, Push(r, s, c)
      PROVE  \A q \in Runner : Active(q)' => Active(q) /\ runner'[q].event.run = runner[q].event.run
  BY <1>p, ActiveAt, PushType, GoesOn
<1>s. ASSUME UNCHANGED <<runner, runs, stored>>,
             \A n \in Run : n > runs /\ call[n] = "none" => call'[n] = "none"
      PROVE  RunsInv'
  BY <1>s, RunsKept DEF Active
<1>1. ASSUME NEW r \in Runner, Begin(r) PROVE RunsInv'
  <2>1. PICK tier \in Tier :
          runner' = [runner EXCEPT ![r] = [at |-> IF tier = "stable" THEN "push" ELSE "notify",
                                           event |-> Blank(runs + 1, tier)]]
    BY <1>1 DEF Begin
  <2>2. /\ runner'[r].event.run = runs + 1
        /\ \A q \in Runner \ {r} : runner'[q] = runner[q]
    BY <1>t, <2>1 DEF Blank
  <2>3. runs' = runs + 1 /\ UNCHANGED <<stored, call>>
    BY <1>1 DEF Begin, posts
  <2>4. \A q \in Runner \ {r} :
          Active(q)' => /\ Active(q) /\ runner'[q].event.run = runner[q].event.run
                        /\ runner[q].event.run \in Nat /\ runner[q].event.run <= runs
    BY <1>t, <1>e, <2>2 DEF Active
  <2>5. \A q \in Runner : Active(q)' => runner'[q].event.run <= runs'
    BY <1>t, <2>2, <2>3, <2>4
  <2>6. ASSUME NEW q \in Runner, NEW p \in Runner, Active(q)', Active(p)',
               runner'[q].event.run = runner'[p].event.run
        PROVE  q = p
    <3>1. CASE q = r \/ p = r
      BY <1>t, <2>2, <2>4, <2>6, <3>1
    <3>2. CASE q # r /\ p # r
      BY <2>4, <2>6, <3>2 DEF RunsInv
    <3> QED
      BY <3>1, <3>2
  <2>7. ASSUME NEW i \in 1..Len(stored)
        PROVE  /\ stored[i].run <= runs'
               /\ \A q \in Runner : Active(q)' => runner'[q].event.run # stored[i].run
    <3>1. stored[i].run \in Nat /\ stored[i].run <= runs
      BY <1>t, <1>a
    <3>2. \A q \in Runner : Active(q) => runner[q].event.run # stored[i].run
      BY DEF RunsInv
    <3>3. runs + 1 # stored[i].run
      BY <1>t, <3>1
    <3>4. \A q \in Runner : Active(q)' => runner'[q].event.run # stored[i].run
      BY <2>2, <2>4, <3>2, <3>3
    <3> QED
      BY <1>t, <2>3, <3>1, <3>4
  <2>8. \A n \in Run : n > runs' => call[n] = "none"
    BY <1>t, <2>3 DEF RunsInv
  <2> QED
    BY <2>3, <2>5, <2>6, <2>7, <2>8 DEF RunsInv
<1>2. ASSUME NEW r \in Runner, Notify(r) PROVE RunsInv'
  <2>1. Active(r) /\ runner[r].at # "idle"
    BY <1>2, ActiveAt DEF Notify
  <2>2. CASE Push(r, "dispatch_error", "error") /\ UNCHANGED call
    BY <1>2, <1>p, <2>1, <2>2, RunsKept DEF Notify, posts
  <2>3. CASE /\ call' = [call EXCEPT ![runner[r].event.run] = "running"]
             /\ runner' = [runner EXCEPT ![r].at = "wait"]
    <3>1. /\ runner'[r].event.run = runner[r].event.run
          /\ \A q \in Runner \ {r} : runner'[q] = runner[q]
      <4>1. runner[r] \in Busy
        BY <2>1, ActiveType
      <4>2. runner'[r] = [runner[r] EXCEPT !.at = "wait"]
        BY <1>t, <2>3
      <4> QED
        BY <1>t, <2>3, <4>1, <4>2
    <3>2. \A n \in Run : n > runs /\ call[n] = "none" => call'[n] = "none"
      BY <1>t, <1>e, <2>1, <2>3
    <3> QED
      BY <1>2, <2>1, <3>1, <3>2, GoesOn, RunsKept DEF Notify, posts
  <2> QED
    BY <1>2, <2>2, <2>3 DEF Notify
<1>3. ASSUME NEW n \in Run, Serve(n) PROVE RunsInv'
  <2>1. \A m \in Run : call[m] = "none" => call'[m] = "none"
    BY <1>3, <1>t DEF Serve
  <2> QED
    BY <1>3, <1>s, <2>1 DEF Serve, posts
<1>4. ASSUME NEW r \in Runner, Receive(r) PROVE RunsInv'
  BY <1>4, <1>p, RunsKept, ActiveAt DEF Receive, posts
<1>5. ASSUME NEW r \in Runner, GiveUp(r) PROVE RunsInv'
  BY <1>5, <1>p, RunsKept, ActiveAt DEF GiveUp, posts
<1>6. ASSUME NEW r \in Runner, Store(r) PROVE RunsInv'
  <2>1. Active(r) /\ runner[r].at # "idle" /\ runner[r].event \in Event
    BY <1>6, ActiveAt, ActiveType DEF Store
  <2>2. /\ runner' = [runner EXCEPT ![r].at = "reply"] /\ UNCHANGED <<runs, call>>
        /\ stored' = <<runner[r].event>> \o stored \/ UNCHANGED stored
    BY <1>6 DEF Store
  <2>3. \A q \in Runner : Active(q)' => q # r /\ Active(q) /\ runner'[q] = runner[q]
    <3>1. runner'[r] = [runner[r] EXCEPT !.at = "reply"]
      BY <1>t, <2>2
    <3>2. runner[r] \in Busy
      BY <1>6, ActiveType DEF Store
    <3>3. runner'[r].at = "reply"
      BY <3>1, <3>2
    <3> QED
      BY <1>t, <2>2, <3>3 DEF Active
  <2>4. ASSUME NEW i \in 1..Len(stored')
        PROVE  \/ stored'[i] = runner[r].event
               \/ \E j \in 1..Len(stored) : stored'[i] = stored[j]
    <3>1. CASE UNCHANGED stored
      BY <3>1
    <3>2. CASE stored' = <<runner[r].event>> \o stored
      BY <1>t, <2>1, <3>2, PutFirst
    <3> QED
      BY <2>2, <3>1, <3>2
  <2>5. ASSUME NEW i \in 1..Len(stored')
        PROVE  /\ stored'[i].run <= runs
               /\ \A q \in Runner : Active(q)' => runner'[q].event.run # stored'[i].run
    <3>1. CASE stored'[i] = runner[r].event
      <4>1. runner[r].event.run <= runs
        BY <1>e, <2>1
      <4>2. \A q \in Runner : Active(q)' => runner[q].event.run # runner[r].event.run
        BY <2>1, <2>3 DEF RunsInv
      <4> QED
        BY <2>3, <3>1, <4>1, <4>2
    <3>2. ASSUME NEW j \in 1..Len(stored), stored'[i] = stored[j]
          PROVE  /\ stored'[i].run <= runs
                 /\ \A q \in Runner : Active(q)' => runner'[q].event.run # stored'[i].run
      BY <2>3, <3>2 DEF RunsInv
    <3> QED
      BY <2>4, <3>1, <3>2
  <2> QED
    BY <2>2, <2>3, <2>5 DEF RunsInv
<1>13. ASSUME NEW r \in Runner, Reply(r) PROVE RunsInv'
  BY <1>13, <1>i, RunsKept DEF Reply
<1>7. ASSUME NEW r \in Runner, Miss(r) PROVE RunsInv'
  BY <1>7, <1>i, RunsKept DEF Miss, posts
<1>8. ASSUME NEW r \in Runner, Kill(r) PROVE RunsInv'
  BY <1>8, <1>i, RunsKept DEF Kill, posts
<1>9. CASE ApiCrash
  <2>1. \A n \in Run : call[n] = "none" => call'[n] = "none"
    BY <1>9, <1>t DEF ApiCrash
  <2> QED
    BY <1>9, <1>s, <2>1 DEF ApiCrash, posts
<1>10. CASE FrontCrash
  <2>1. \A q \in Runner : Active(q)' => Active(q) /\ runner'[q] = runner[q]
    BY <1>10, FrontLeaves DEF Active
  <2> QED
    BY <1>10, <2>1, RunsKept DEF FrontCrash, posts
<1>11. CASE FrontStart \/ UNCHANGED vars
  BY <1>11, <1>s DEF FrontStart, vars, posts
<1>12. ASSUME NEW r \in Runner, Answer(r) PROVE RunsInv'
  BY <1>12, <1>s DEF Answer, posts
<1> QED
  BY <1>1, <1>2, <1>3, <1>4, <1>5, <1>6, <1>7, <1>8, <1>9, <1>10, <1>11, <1>12, <1>13
     DEF Next, Step

-----------------------------------------------------------------------------
(* Events are true.                                                         *)

\* The call of a run stays what it is, or its handler ends.
Calm(n) ==
  \/ call'[n] = call[n]
  \/ call[n] = "running" /\ call'[n] \in {"ended", "lost"}

\* The end of a handler makes no event untrue.
LEMMA TruthKept ==
  ASSUME NEW e \in Event, Truth(e, call, gaveUp), Calm(e.run), gaveUp \subseteq gaveUp'
  PROVE  Truth(e, call', gaveUp')
  BY DEF Truth, Calm

\* What TruthInv says of one process.
TruthOf(st, calls, late) ==
  /\ st.at = "notify" => calls[st.event.run] = "none"
  /\ st.at = "wait" => calls[st.event.run] # "none"
  /\ st.at = "push" => Truth(st.event, calls, late)

LEMMA TruthIs ==
  TruthInv <=> /\ \A r \in Runner : TruthOf(runner[r], call, gaveUp)
               /\ \A i \in 1..Len(stored) : Truth(stored[i], call, gaveUp)
  BY DEF TruthInv, TruthOf

LEMMA OthersTrue ==
  ASSUME TypeInv, TruthInv, NEW q \in Runner, runner'[q] = runner[q],
         Active(q) => Calm(runner[q].event.run), gaveUp \subseteq gaveUp'
  PROVE  TruthOf(runner'[q], call', gaveUp')
<1>1. TruthOf(runner[q], call, gaveUp)
  BY TruthIs
<1>2. CASE ~Active(q)
  BY <1>2 DEF Active, TruthOf
<1>3. CASE Active(q)
  <2>1. runner[q].event \in Event
    BY <1>3, ActiveAt, ActiveType
  <2>2. runner[q].at = "push" => Truth(runner[q].event, call', gaveUp')
    BY <1>1, <1>3, <2>1, TruthKept DEF TruthOf
  <2>3. call'[runner[q].event.run] = "none" <=> call[runner[q].event.run] = "none"
    BY <1>3 DEF Calm
  <2> QED
    BY <1>1, <2>2, <2>3 DEF TruthOf
<1> QED
  BY <1>2, <1>3

LEMMA TruthInit == Init => TruthInv
  BY DEF Init, TruthInv, Idle

LEMMA TruthStep == TypeInv /\ RunsInv /\ TruthInv /\ [Next]_vars => TruthInv'
<1> SUFFICES ASSUME TypeInv, RunsInv, TruthInv, [Next]_vars PROVE TruthInv'
  OBVIOUS
<1>t. /\ runner \in [Runner -> {Idle} \cup Busy]
      /\ runs \in Nat /\ call \in [Run -> CallState] /\ stored \in Seq(Event)
  BY WorkflowAssumption DEF TypeInv, TypeOK
<1>r. ASSUME NEW r \in Runner, Active(r)
      PROVE  /\ runner[r].event \in Event /\ runner[r].event.run \in Run
             /\ \A q \in Runner \ {r} : Active(q) => runner[q].event.run # runner[r].event.run
             /\ \A i \in 1..Len(stored) : stored[i].run # runner[r].event.run
  BY <1>r, ActiveAt, ActiveType DEF RunsInv
<1>a. ASSUME NEW i \in 1..Len(stored)
      PROVE  stored[i] \in Event /\ stored[i].run \in Run
  <2>1. stored[i] \in Event
    BY <1>t
  <2> QED
    BY <2>1 DEF Event
<1>s. ASSUME NEW r \in Runner, Active(r), \A q \in Runner \ {r} : runner'[q] = runner[q],
             \A n \in Run \ {runner[r].event.run} : Calm(n),
             gaveUp \subseteq gaveUp', UNCHANGED stored, TruthOf(runner'[r], call', gaveUp')
      PROVE  TruthInv'
  <2>1. \A q \in Runner \ {r} : TruthOf(runner'[q], call', gaveUp')
    BY <1>r, <1>s, OthersTrue
  <2>2. \A i \in 1..Len(stored) : Truth(stored[i], call', gaveUp')
    <3> SUFFICES ASSUME NEW i \in 1..Len(stored) PROVE Truth(stored[i], call', gaveUp')
      OBVIOUS
    <3>1. Calm(stored[i].run)
      BY <1>a, <1>r, <1>s
    <3>2. Truth(stored[i], call, gaveUp)
      BY TruthIs
    <3> QED
      BY <1>a, <1>s, <3>1, <3>2, TruthKept
  <2> QED
    BY <1>s, <2>1, <2>2 DEF TruthInv, TruthOf
<1>c. ASSUME UNCHANGED <<runner, stored, gaveUp>>, \A n \in Run : Calm(n) PROVE TruthInv'
  <2>1. \A q \in Runner : TruthOf(runner'[q], call', gaveUp')
    BY <1>c, <1>r, OthersTrue
  <2>2. \A i \in 1..Len(stored) : Truth(stored[i], call', gaveUp')
    BY <1>a, <1>c, TruthIs, TruthKept
  <2> QED
    BY <1>c, <2>1, <2>2 DEF TruthInv, TruthOf
<1>i. ASSUME \A q \in Runner : runner'[q] = runner[q] \/ ~Active(q)',
             UNCHANGED <<call, stored, gaveUp>>
      PROVE  TruthInv'
  <2>1. \A q \in Runner : TruthOf(runner'[q], call', gaveUp')
    <3> TAKE q \in Runner
    <3>1. CASE ~Active(q)'
      BY <3>1 DEF Active, TruthOf
    <3>2. CASE runner'[q] = runner[q]
      BY <1>i, <3>2, OthersTrue DEF Calm
    <3> QED
      BY <1>i, <3>1, <3>2
  <2>2. \A i \in 1..Len(stored) : Truth(stored[i], call, gaveUp)
    BY TruthIs
  <2> QED
    BY <1>i, <2>1, <2>2 DEF TruthInv, TruthOf
<1>d. ASSUME NEW r \in Runner, runner' = [runner EXCEPT ![r] = Idle],
             UNCHANGED <<call, stored, gaveUp>>
      PROVE  TruthInv'
  <2>1. \A q \in Runner : runner'[q] = runner[q] \/ ~Active(q)'
    BY <1>t, <1>d DEF Active, Idle
  <2> QED
    BY <1>d, <1>i, <2>1
<1>1. ASSUME NEW r \in Runner, Begin(r) PROVE TruthInv'
  <2>1. PICK tier \in Tier :
          runner' = [runner EXCEPT ![r] = [at |-> IF tier = "stable" THEN "push" ELSE "notify",
                                           event |-> Blank(runs + 1, tier)]]
    BY <1>1 DEF Begin
  <2>2. runs + 1 \in Run /\ call[runs + 1] = "none"
    <3>1. runs + 1 \in 1..MaxRuns /\ runs + 1 > runs
      BY <1>1, <1>t, WorkflowAssumption DEF Begin
    <3>2. \A n \in 1..MaxRuns : n > runs => call[n] = "none"
      BY DEF RunsInv, Run
    <3> QED
      BY <3>1, <3>2 DEF Run
  <2>3. UNCHANGED <<call, stored, gaveUp>>
    BY <1>1 DEF Begin, posts
  <2>4. TruthOf(runner'[r], call', gaveUp')
    BY <1>t, <2>1, <2>2, <2>3 DEF TruthOf, Truth, Blank
  <2>5. \A q \in Runner \ {r} : runner'[q] = runner[q]
    BY <1>t, <2>1
  <2>6. \A q \in Runner \ {r} : TruthOf(runner'[q], call', gaveUp')
    BY <2>3, <2>5, OthersTrue DEF Calm
  <2> QED
    BY <2>3, <2>4, <2>6 DEF TruthInv, TruthOf
<1>2. ASSUME NEW r \in Runner, Notify(r) PROVE TruthInv'
  <2>1. Active(r) /\ runner[r].at = "notify"
    BY <1>2, ActiveAt DEF Notify
  <2>2. call[runner[r].event.run] = "none" /\ UNCHANGED <<stored, gaveUp>>
    BY <1>2, <2>1 DEF Notify, TruthInv, posts
  <2>3. CASE Push(r, "dispatch_error", "error") /\ UNCHANGED call
    <3>1. TruthOf(runner'[r], call', gaveUp')
      BY <2>1, <2>2, <2>3, PushType DEF TruthOf, Truth
    <3>2. \A n \in Run : Calm(n)
      BY <2>3 DEF Calm
    <3> QED
      BY <1>s, <2>1, <2>2, <2>3, <3>1, <3>2, PushType
  <2>4. CASE /\ call' = [call EXCEPT ![runner[r].event.run] = "running"]
             /\ runner' = [runner EXCEPT ![r].at = "wait"]
    <3>1. runner[r] \in Busy
      BY <2>1, ActiveType
    <3>2. runner'[r].at = "wait" /\ runner'[r].event = runner[r].event
      BY <1>t, <2>4, <3>1
    <3>3. TruthOf(runner'[r], call', gaveUp')
      BY <1>t, <1>r, <2>1, <2>4, <3>2 DEF TruthOf
    <3>4. \A n \in Run \ {runner[r].event.run} : Calm(n)
      BY <1>t, <2>4 DEF Calm
    <3>5. \A q \in Runner \ {r} : runner'[q] = runner[q]
      BY <1>t, <2>4
    <3> QED
      BY <1>s, <2>1, <2>2, <3>3, <3>4, <3>5
  <2> QED
    BY <1>2, <2>3, <2>4 DEF Notify
<1>3. ASSUME NEW n \in Run, Serve(n) PROVE TruthInv'
  <2>1. \A m \in Run : Calm(m)
    BY <1>3, <1>t DEF Serve, Calm
  <2> QED
    BY <1>3, <1>c, <2>1 DEF Serve, posts
<1>4. ASSUME NEW r \in Runner, Receive(r) PROVE TruthInv'
  <2>1. Active(r) /\ runner[r].at = "wait"
    BY <1>4, ActiveAt DEF Receive
  <2>2. Push(r, "dispatched", "attempted")
    BY <1>4 DEF Receive
  <2>3. call[runner[r].event.run] = "ended" /\ UNCHANGED <<call, stored, gaveUp>>
    BY <1>4 DEF Receive, posts
  <2>4. TruthOf(runner'[r], call', gaveUp')
    BY <2>1, <2>2, <2>3, PushType DEF TruthOf, Truth
  <2>5. \A n \in Run : Calm(n)
    BY <2>3 DEF Calm
  <2> QED
    BY <1>s, <2>1, <2>2, <2>3, <2>4, <2>5, PushType
<1>5. ASSUME NEW r \in Runner, GiveUp(r) PROVE TruthInv'
  <2>1. /\ Active(r) /\ runner[r].at = "wait" /\ Push(r, "dispatch_error", "error")
        /\ gaveUp' = gaveUp \cup {runner[r].event.run} /\ UNCHANGED <<call, stored>>
    BY <1>5, ActiveAt DEF GiveUp, posts
  <2>2. TruthOf(runner'[r], call', gaveUp')
    BY <2>1, PushType DEF TruthOf, Truth
  <2>3. \A n \in Run : Calm(n)
    BY <2>1 DEF Calm
  <2> QED
    BY <1>s, <2>1, <2>2, <2>3, PushType
<1>6. ASSUME NEW r \in Runner, Store(r) PROVE TruthInv'
  <2>1. Active(r) /\ runner[r].at = "push" /\ runner[r].event \in Event
    BY <1>6, ActiveAt, ActiveType DEF Store
  <2>2. /\ runner' = [runner EXCEPT ![r].at = "reply"] /\ UNCHANGED <<call, gaveUp>>
        /\ stored' = <<runner[r].event>> \o stored \/ UNCHANGED stored
    BY <1>6 DEF Store
  <2>3. \A q \in Runner : TruthOf(runner'[q], call', gaveUp')
    <3>1. runner[r] \in Busy
      BY <2>1, ActiveType
    <3>2. runner'[r].at = "reply" /\ \A q \in Runner \ {r} : runner'[q] = runner[q]
      BY <1>t, <2>2, <3>1
    <3>3. \A q \in Runner \ {r} : TruthOf(runner'[q], call', gaveUp')
      BY <2>2, <3>2, OthersTrue DEF Calm
    <3>4. TruthOf(runner'[r], call', gaveUp')
      BY <3>2 DEF TruthOf
    <3> QED
      BY <3>3, <3>4
  <2>4. Truth(runner[r].event, call, gaveUp)
    BY <2>1 DEF TruthInv
  <2>5. \A i \in 1..Len(stored') : Truth(stored'[i], call', gaveUp')
    <3> SUFFICES ASSUME NEW i \in 1..Len(stored') PROVE Truth(stored'[i], call, gaveUp)
      BY <2>2
    <3>1. CASE UNCHANGED stored
      BY <3>1, TruthIs
    <3>2. CASE stored' = <<runner[r].event>> \o stored
      <4>1. stored'[i] = runner[r].event \/ \E j \in 1..Len(stored) : stored'[i] = stored[j]
        BY <1>t, <2>1, <3>2, PutFirst
      <4> QED
        BY <2>4, <4>1, TruthIs
    <3> QED
      BY <2>2, <3>1, <3>2
  <2> QED
    BY <2>3, <2>5 DEF TruthInv, TruthOf
<1>13. ASSUME NEW r \in Runner, Reply(r) PROVE TruthInv'
  BY <1>13, <1>d DEF Reply
<1>7. ASSUME NEW r \in Runner, Miss(r) PROVE TruthInv'
  BY <1>7, <1>d DEF Miss, posts
<1>8. ASSUME NEW r \in Runner, Kill(r) PROVE TruthInv'
  BY <1>8, <1>d DEF Kill, posts
<1>9. CASE ApiCrash
  <2>1. \A m \in Run : Calm(m)
    BY <1>9, <1>t DEF ApiCrash, Calm
  <2> QED
    BY <1>9, <1>c, <2>1 DEF ApiCrash, posts
<1>u. UNCHANGED call => \A m \in Run : Calm(m)
  BY DEF Calm
<1>10. CASE FrontCrash
  <2>1. \A q \in Runner : runner'[q] = runner[q] \/ ~Active(q)'
    BY <1>10, FrontLeaves
  <2> QED
    BY <1>10, <1>i, <2>1 DEF FrontCrash, posts
<1>11. CASE FrontStart \/ UNCHANGED vars
  BY <1>11, <1>c, <1>u DEF FrontStart, vars, posts
<1>12. ASSUME NEW r \in Runner, Answer(r) PROVE TruthInv'
  BY <1>12, <1>c, <1>u DEF Answer, posts
<1> QED
  BY <1>1, <1>2, <1>3, <1>4, <1>5, <1>6, <1>7, <1>8, <1>9, <1>10, <1>11, <1>12, <1>13
     DEF Next, Step

\* For any processes, runs and faults, what an event in the feed says of the
\* notification is what became of it: nothing was asked of the API for a stable
\* customer, "dispatched" is a handler that got to its end, and "dispatch_error" a
\* call the API never took up or the script stopped waiting for.
THEOREM EventsTrue == Spec => []StatusTruth
<1>1. Init => RunsInv /\ TruthInv
  BY RunsInit, TruthInit
<1>2. TypeInv /\ RunsInv /\ TruthInv /\ [Next]_vars => (RunsInv /\ TruthInv)'
  BY RunsStep, TruthStep
<1>3. TruthInv => StatusTruth
  BY DEF TruthInv, Truth, StatusTruth
<1> QED
  BY <1>1, <1>2, <1>3, TypeInvariant, PTL DEF Spec
=============================================================================
