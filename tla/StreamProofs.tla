---------------------------- MODULE StreamProofs ----------------------------
(***************************************************************************)
(* Proofs about StreamProcessor, for any numbers of processors, customers, *)
(* records and faults: the types, that a committed record is written or    *)
(* was in hand at a stop, that a double count needs an eviction, and that  *)
(* one processor that never fails implements RollingWindow.                *)
(***************************************************************************)
EXTENDS StreamProcessor, FiniteSetTheorems, TLAPS

Busy == {"apply", "write", "expire"}

\* A busy processor handles the record its position has just passed.
Shaped(p) ==
  /\ proc[p].position <= proc[p].fetched
  /\ proc[p].fetched <= Len(topic)
  /\ proc[p].at \in Busy => /\ proc[p].off = proc[p].position
                            /\ proc[p].off \in 1..Len(topic)
                            /\ topic[proc[p].off].cust \in Customer

TypeInv ==
  /\ TypeOK
  /\ \A p \in Processor : Shaped(p)
  /\ evictions <= faults

-----------------------------------------------------------------------------
(* What an action does to the processors.                                  *)

\* Everyone but p stays where it is.
Others(p) == \A x \in Processor : x # p => proc'[x] = proc[x]

\* The fields of a processor.
LEMMA Fields ==
  ASSUME TypeOK, NEW p \in Processor
  PROVE  /\ proc[p] \in ProcState
         /\ proc[p].at \in Step /\ proc[p].member \in BOOLEAN
         /\ proc[p].position \in 0..MaxRecords
         /\ proc[p].fetched \in 0..MaxRecords
         /\ proc[p].off \in 0..MaxRecords /\ proc[p].asOf \in 0..MaxDay
         /\ proc[p].short \in Count /\ proc[p].long \in Count
<1>1. proc[p] \in ProcState
  BY DEF TypeOK
<1> QED
  BY <1>1 DEF ProcState

\* A processor that moved keeps the type when its fields have theirs.
LEMMA MoveType ==
  ASSUME TypeOK, NEW p \in Processor, NEW x \in ProcState,
         proc' = [proc EXCEPT ![p] = x]
  PROVE  /\ proc' \in [Processor -> ProcState]
         /\ proc'[p] = x
         /\ Others(p)
  BY DEF TypeOK, Others

LEMMA DownState ==
  Down \in ProcState
<1>1. Zero \in Count
  BY DEF Zero, Count
<1>2. 0 \in 0..MaxRecords /\ 0 \in 0..MaxDay
  BY StreamAssumption
<1> QED
  BY <1>1, <1>2 DEF Down, ProcState, Step

\* Start, and a member that finds itself evicted, go and join.
LEMMA JoinerMoves ==
  ASSUME TypeInv, NEW p \in Processor, Start(p) \/ Rejoin(p)
  PROVE  /\ proc' \in [Processor -> ProcState] /\ Others(p)
         /\ proc'[p].at = "join"
         /\ proc'[p].member = proc[p].member
         /\ proc'[p].position = proc[p].position
         /\ proc'[p].fetched = proc[p].fetched
         /\ proc'[p].off = proc[p].off
         /\ proc'[p].asOf = proc[p].asOf
         /\ proc'[p].short = proc[p].short
         /\ proc'[p].long = proc[p].long
<1> DEFINE x == [proc[p] EXCEPT !.at = "join"]
<1>1. TypeOK
  BY DEF TypeInv
<1>2. x \in ProcState
  BY <1>1, Fields DEF ProcState, Step
<1>3. /\ x.at = "join"
      /\ x.member = proc[p].member
      /\ x.position = proc[p].position
      /\ x.fetched = proc[p].fetched
      /\ x.off = proc[p].off
      /\ x.asOf = proc[p].asOf
      /\ x.short = proc[p].short
      /\ x.long = proc[p].long
  BY <1>1, Fields DEF ProcState
<1>4. proc' = [proc EXCEPT ![p] = x]
  BY <1>1, Fields DEF ProcState, Start, Rejoin
<1> HIDE DEF x
<1> QED
  BY <1>1, <1>2, <1>3, <1>4, MoveType

\* Poll fetches more records of the topic.
LEMMA PollMoves ==
  ASSUME TypeInv, NEW p \in Processor, NEW n \in 0..MaxRecords,
         proc' = [proc EXCEPT ![p].fetched = n]
  PROVE  /\ proc' \in [Processor -> ProcState] /\ Others(p)
         /\ proc'[p].at = proc[p].at
         /\ proc'[p].member = proc[p].member
         /\ proc'[p].position = proc[p].position
         /\ proc'[p].fetched = n
         /\ proc'[p].off = proc[p].off
         /\ proc'[p].asOf = proc[p].asOf
         /\ proc'[p].short = proc[p].short
         /\ proc'[p].long = proc[p].long
<1> DEFINE x == [proc[p] EXCEPT !.fetched = n]
<1>1. TypeOK
  BY DEF TypeInv
<1>2. x \in ProcState
  BY <1>1, Fields DEF ProcState, Step
<1>3. /\ x.at = proc[p].at
      /\ x.member = proc[p].member
      /\ x.position = proc[p].position
      /\ x.fetched = n
      /\ x.off = proc[p].off
      /\ x.asOf = proc[p].asOf
      /\ x.short = proc[p].short
      /\ x.long = proc[p].long
  BY <1>1, Fields DEF ProcState
<1>4. proc' = [proc EXCEPT ![p] = x]
  BY <1>1, Fields DEF ProcState, Poll
<1> HIDE DEF x
<1> QED
  BY <1>1, <1>2, <1>3, <1>4, MoveType

\* A record without customer is passed over.
LEMMA PassMoves ==
  ASSUME TypeInv, NEW p \in Processor, NEW i \in 0..MaxRecords,
         proc' = [proc EXCEPT ![p].position = i]
  PROVE  /\ proc' \in [Processor -> ProcState] /\ Others(p)
         /\ proc'[p].at = proc[p].at
         /\ proc'[p].member = proc[p].member
         /\ proc'[p].position = i
         /\ proc'[p].fetched = proc[p].fetched
         /\ proc'[p].off = proc[p].off
         /\ proc'[p].asOf = proc[p].asOf
         /\ proc'[p].short = proc[p].short
         /\ proc'[p].long = proc[p].long
<1> DEFINE x == [proc[p] EXCEPT !.position = i]
<1>1. TypeOK
  BY DEF TypeInv
<1>2. x \in ProcState
  BY <1>1, Fields DEF ProcState, Step
<1>3. /\ x.at = proc[p].at
      /\ x.member = proc[p].member
      /\ x.position = i
      /\ x.fetched = proc[p].fetched
      /\ x.off = proc[p].off
      /\ x.asOf = proc[p].asOf
      /\ x.short = proc[p].short
      /\ x.long = proc[p].long
  BY <1>1, Fields DEF ProcState
<1>4. proc' = [proc EXCEPT ![p] = x]
  BY <1>1, Fields DEF ProcState, Take
<1> HIDE DEF x
<1> QED
  BY <1>1, <1>2, <1>3, <1>4, MoveType

\* A record is taken in hand.
LEMMA TakeMoves ==
  ASSUME TypeInv, NEW p \in Processor, NEW i \in 0..MaxRecords,
         proc' = [proc EXCEPT ![p].position = i, ![p].at = "apply", ![p].off = i]
  PROVE  /\ proc' \in [Processor -> ProcState] /\ Others(p)
         /\ proc'[p].at = "apply"
         /\ proc'[p].member = proc[p].member
         /\ proc'[p].position = i
         /\ proc'[p].fetched = proc[p].fetched
         /\ proc'[p].off = i
         /\ proc'[p].asOf = proc[p].asOf
         /\ proc'[p].short = proc[p].short
         /\ proc'[p].long = proc[p].long
<1> DEFINE x == [proc[p] EXCEPT !.at = "apply", !.position = i, !.off = i]
<1>1. TypeOK
  BY DEF TypeInv
<1>2. x \in ProcState
  BY <1>1, Fields DEF ProcState, Step
<1>3. /\ x.at = "apply"
      /\ x.member = proc[p].member
      /\ x.position = i
      /\ x.fetched = proc[p].fetched
      /\ x.off = i
      /\ x.asOf = proc[p].asOf
      /\ x.short = proc[p].short
      /\ x.long = proc[p].long
  BY <1>1, Fields DEF ProcState
<1>4. proc' = [proc EXCEPT ![p] = x]
  BY <1>1, Fields DEF ProcState, Take
<1> HIDE DEF x
<1> QED
  BY <1>1, <1>2, <1>3, <1>4, MoveType

\* The lists and windows count each record a number of times.
LEMMA CountsAre ==
  ASSUME NEW m \in Count, NEW c, NEW d
  PROVE  Kept(m, c) \in Count /\ Since(m, c, d) \in Count
BY DEF Kept, Since, Count

LEMMA OneMore ==
  ASSUME NEW m \in Count, NEW i \in Offset
  PROVE  [m EXCEPT ![i] = @ + 1] \in Count
BY DEF Count

\* The record in hand is a customer's.
LEMMA CustType ==
  ASSUME TypeInv, NEW p \in Processor, proc[p].at \in Busy
  PROVE  Cust(p) \in Customer /\ proc[p].off \in Offset
<1>1. Shaped(p) /\ Len(topic) \in Nat /\ Len(topic) <= MaxRecords
  BY DEF TypeInv, TypeOK
<1> QED
  BY <1>1, StreamAssumption DEF Shaped, Cust, Offset

\* What Apply computes.
Listed(p) == Kept([memory[p] EXCEPT ![proc[p].off] = @ + 1], Cust(p))

LEMMA ApplyFacts ==
  ASSUME TypeInv, NEW p \in Processor, Apply(p)
  PROVE  /\ Listed(p) \in Count
         /\ Since(Listed(p), Cust(p), day - Short) \in Count
         /\ Since(Listed(p), Cust(p), day - Long) \in Count
         /\ memory' = [memory EXCEPT ![p] = Listed(p)]
<1>1. memory[p] \in Count
  BY DEF TypeInv, TypeOK
<1>2. [memory[p] EXCEPT ![proc[p].off] = @ + 1] \in Count
  BY <1>1, CustType, OneMore DEF Apply, Busy
<1>3. Listed(p) \in Count
  BY <1>2, CountsAre DEF Listed
<1>4. /\ Since(Listed(p), Cust(p), day - Short) \in Count
      /\ Since(Listed(p), Cust(p), day - Long) \in Count
  BY <1>3, CountsAre
<1> QED
  BY <1>3, <1>4 DEF Apply, Listed

\* The features of the record in hand are computed.
LEMMA ApplyMoves ==
  ASSUME TypeInv, NEW p \in Processor, Apply(p)
  PROVE  /\ proc' \in [Processor -> ProcState] /\ Others(p)
         /\ proc'[p].at = "write"
         /\ proc'[p].member = proc[p].member
         /\ proc'[p].position = proc[p].position
         /\ proc'[p].fetched = proc[p].fetched
         /\ proc'[p].off = proc[p].off
         /\ proc'[p].asOf = day
         /\ proc'[p].short = Since(Listed(p), Cust(p), day - Short)
         /\ proc'[p].long = Since(Listed(p), Cust(p), day - Long)
<1> DEFINE x == [proc[p] EXCEPT !.at = "write", !.asOf = day, 
                             !.short = Since(Listed(p), Cust(p), day - Short),
                             !.long = Since(Listed(p), Cust(p), day - Long)]
<1>1. TypeOK
  BY DEF TypeInv
<1>5. day \in 0..MaxDay
  BY <1>1 DEF TypeOK
<1>2. x \in ProcState
  BY <1>1, <1>5, Fields, ApplyFacts DEF ProcState, Step
<1>3. /\ x.at = "write"
      /\ x.member = proc[p].member
      /\ x.position = proc[p].position
      /\ x.fetched = proc[p].fetched
      /\ x.off = proc[p].off
      /\ x.asOf = day
      /\ x.short = Since(Listed(p), Cust(p), day - Short)
      /\ x.long = Since(Listed(p), Cust(p), day - Long)
  BY <1>1, Fields DEF ProcState
<1>4. proc' = [proc EXCEPT ![p] = x]
  BY <1>1, Fields DEF ProcState, Apply, Listed
<1> HIDE DEF x
<1> QED
  BY <1>1, <1>2, <1>3, <1>4, MoveType

\* The features are written.
LEMMA WriteMoves ==
  ASSUME TypeInv, NEW p \in Processor, Write(p)
  PROVE  /\ proc' \in [Processor -> ProcState] /\ Others(p)
         /\ proc'[p].at = "expire"
         /\ proc'[p].member = proc[p].member
         /\ proc'[p].position = proc[p].position
         /\ proc'[p].fetched = proc[p].fetched
         /\ proc'[p].off = proc[p].off
         /\ proc'[p].asOf = proc[p].asOf
         /\ proc'[p].short = Zero
         /\ proc'[p].long = Zero
<1> DEFINE x == [proc[p] EXCEPT !.at = "expire", !.short = Zero, !.long = Zero]
<1>1. TypeOK
  BY DEF TypeInv
<1>5. Zero \in Count
  BY DEF Zero, Count
<1>2. x \in ProcState
  BY <1>1, Fields, <1>5 DEF ProcState, Step
<1>3. /\ x.at = "expire"
      /\ x.member = proc[p].member
      /\ x.position = proc[p].position
      /\ x.fetched = proc[p].fetched
      /\ x.off = proc[p].off
      /\ x.asOf = proc[p].asOf
      /\ x.short = Zero
      /\ x.long = Zero
  BY <1>1, Fields DEF ProcState
<1>4. proc' = [proc EXCEPT ![p] = x]
  BY <1>1, Fields DEF ProcState, Write
<1> HIDE DEF x
<1> QED
  BY <1>1, <1>2, <1>3, <1>4, MoveType, <1>5

\* The key has its expiry, and the loop goes on.
LEMMA ExpireMoves ==
  ASSUME TypeInv, NEW p \in Processor, Expire(p)
  PROVE  /\ proc' \in [Processor -> ProcState] /\ Others(p)
         /\ proc'[p].at = "poll"
         /\ proc'[p].member = proc[p].member
         /\ proc'[p].position = proc[p].position
         /\ proc'[p].fetched = proc[p].fetched
         /\ proc'[p].off = 0
         /\ proc'[p].asOf = 0
         /\ proc'[p].short = proc[p].short
         /\ proc'[p].long = proc[p].long
<1> DEFINE x == [proc[p] EXCEPT !.at = "poll", !.off = 0, !.asOf = 0]
<1>1. TypeOK
  BY DEF TypeInv
<1>5. 0 \in 0..MaxRecords /\ 0 \in 0..MaxDay
  BY StreamAssumption
<1>2. x \in ProcState
  BY <1>1, Fields, <1>5 DEF ProcState, Step
<1>3. /\ x.at = "poll"
      /\ x.member = proc[p].member
      /\ x.position = proc[p].position
      /\ x.fetched = proc[p].fetched
      /\ x.off = 0
      /\ x.asOf = 0
      /\ x.short = proc[p].short
      /\ x.long = proc[p].long
  BY <1>1, Fields DEF ProcState
<1>4. proc' = [proc EXCEPT ![p] = x]
  BY <1>1, Fields DEF ProcState, Expire
<1> HIDE DEF x
<1> QED
  BY <1>1, <1>2, <1>3, <1>4, MoveType, <1>5

\* An eviction.
LEMMA EvictMoves ==
  ASSUME TypeInv, NEW p \in Processor, Evict(p)
  PROVE  /\ proc' \in [Processor -> ProcState] /\ Others(p)
         /\ proc'[p].at = proc[p].at
         /\ proc'[p].member = FALSE
         /\ proc'[p].position = proc[p].position
         /\ proc'[p].fetched = proc[p].fetched
         /\ proc'[p].off = proc[p].off
         /\ proc'[p].asOf = proc[p].asOf
         /\ proc'[p].short = proc[p].short
         /\ proc'[p].long = proc[p].long
<1> DEFINE x == [proc[p] EXCEPT !.member = FALSE]
<1>1. TypeOK
  BY DEF TypeInv
<1>2. x \in ProcState
  BY <1>1, Fields DEF ProcState, Step
<1>3. /\ x.at = proc[p].at
      /\ x.member = FALSE
      /\ x.position = proc[p].position
      /\ x.fetched = proc[p].fetched
      /\ x.off = proc[p].off
      /\ x.asOf = proc[p].asOf
      /\ x.short = proc[p].short
      /\ x.long = proc[p].long
  BY <1>1, Fields DEF ProcState
<1>4. proc' = [proc EXCEPT ![p] = x]
  BY <1>1, Fields DEF ProcState, Evict
<1> HIDE DEF x
<1> QED
  BY <1>1, <1>2, <1>3, <1>4, MoveType

\* A processor that stops or dies is down.
LEMMA DownMoves ==
  ASSUME TypeInv, NEW p \in Processor, Stop(p) \/ Kill(p)
  PROVE  proc' \in [Processor -> ProcState] /\ Others(p) /\ proc'[p] = Down
<1>1. proc' = [proc EXCEPT ![p] = Down]
  BY DEF Stop, Kill
<1> QED
  BY <1>1, DownState, MoveType DEF TypeInv

\* The partition goes to q, which fetches from offset n.
LEMMA AssignMoves ==
  ASSUME NEW P \in [Processor -> ProcState], NEW q \in Processor,
         NEW n \in 0..MaxRecords, NEW x \in Processor
  PROVE  /\ Assigned(P, q, n) \in [Processor -> ProcState]
         /\ Assigned(P, q, n)[x].position = IF x = q THEN n ELSE P[x].position
         /\ Assigned(P, q, n)[x].fetched = IF x = q THEN n ELSE P[x].fetched
         /\ Assigned(P, q, n)[x].at = P[x].at
         /\ Assigned(P, q, n)[x].member = P[x].member
         /\ Assigned(P, q, n)[x].off = P[x].off
         /\ Assigned(P, q, n)[x].short = P[x].short
         /\ Assigned(P, q, n)[x].long = P[x].long
<1> DEFINE y == [P[q] EXCEPT !.position = n, !.fetched = n]
<1>1. P[q] \in ProcState /\ P[x] \in ProcState
  OBVIOUS
<1>2. y \in ProcState
  BY <1>1 DEF ProcState
<1>3. /\ y.position = n /\ y.fetched = n /\ y.at = P[q].at
      /\ y.member = P[q].member /\ y.off = P[q].off
      /\ y.short = P[q].short /\ y.long = P[q].long
  BY <1>1 DEF ProcState
<1>4. Assigned(P, q, n) = [P EXCEPT ![q] = y]
  BY <1>1 DEF Assigned, ProcState
<1> HIDE DEF y
<1> QED
  BY <1>1, <1>2, <1>3, <1>4

\* p is a member again, before the partition is assigned.
Joined(p) == [proc EXCEPT ![p].at = "poll", ![p].member = TRUE,
                          ![p].position = 0, ![p].fetched = 0]

LEMMA JoinMoves ==
  ASSUME TypeInv, NEW p \in Processor
  PROVE  /\ Joined(p) \in [Processor -> ProcState]
         /\ \A x \in Processor : x # p => Joined(p)[x] = proc[x]
         /\ Joined(p)[p].at = "poll" /\ Joined(p)[p].member
         /\ Joined(p)[p].position = 0 /\ Joined(p)[p].fetched = 0
         /\ Joined(p)[p].off = proc[p].off
         /\ Joined(p)[p].short = proc[p].short /\ Joined(p)[p].long = proc[p].long
<1> DEFINE y == [proc[p] EXCEPT !.at = "poll", !.member = TRUE,
                                !.position = 0, !.fetched = 0]
<1>1. TypeOK
  BY DEF TypeInv
<1>2. 0 \in 0..MaxRecords
  BY StreamAssumption
<1>3. y \in ProcState
  BY <1>1, <1>2, Fields DEF ProcState, Step
<1>4. /\ y.at = "poll" /\ y.member = TRUE /\ y.position = 0 /\ y.fetched = 0
      /\ y.off = proc[p].off /\ y.short = proc[p].short /\ y.long = proc[p].long
  BY <1>1, Fields DEF ProcState
<1>5. Joined(p) = [proc EXCEPT ![p] = y]
  BY <1>1, Fields DEF ProcState, Joined
<1> HIDE DEF y
<1> QED
  BY <1>1, <1>3, <1>4, <1>5 DEF TypeOK

-----------------------------------------------------------------------------
(* Types.                                                                  *)

LEMMA InitType ==
  Init => TypeInv
<1> SUFFICES ASSUME Init PROVE TypeInv
  OBVIOUS
<1>1. Zero \in Count /\ Zero \in [Offset -> Nat]
  BY DEF Zero, Count
<1>2. /\ topic \in Seq(Record) /\ Len(topic) = 0
  BY DEF Init
<1>3. NoKey \in FeatureState
  BY <1>1, StreamAssumption DEF NoKey, FeatureState
<1>4. TypeOK
  BY <1>1, <1>2, <1>3, DownState, StreamAssumption DEF Init, TypeOK
<1>5. \A p \in Processor : Shaped(p)
  BY <1>2 DEF Init, Shaped, Down, Busy
<1> QED
  BY <1>4, <1>5 DEF TypeInv, Init

\* Who does not move keeps its shape as long as the topic does not change.
LEMMA OthersShaped ==
  ASSUME TypeInv, NEW p \in Processor, Others(p), topic' = topic,
         Shaped(p)'
  PROVE  \A x \in Processor : Shaped(x)'
<1> SUFFICES ASSUME NEW x \in Processor, x # p PROVE Shaped(x)'
  OBVIOUS
<1>1. proc'[x] = proc[x] /\ Shaped(x)
  BY DEF Others, TypeInv
<1> QED
  BY <1>1 DEF Shaped

LEMMA PublishType ==
  ASSUME TypeInv, Publish
  PROVE  TypeInv'
<1>1. PICK c \in Customer \cup {NoCustomer}, d \in day - Back .. day :
        topic' = Append(topic, [cust |-> c, at |-> d])
  BY DEF Publish
<1>2. topic \in Seq(Record) /\ day \in Int
  BY StreamAssumption DEF TypeInv, TypeOK
<1>3. [cust |-> c, at |-> d] \in Record
  BY <1>2, StreamAssumption DEF Record
<1>4. /\ topic' \in Seq(Record) /\ Len(topic') = Len(topic) + 1
      /\ \A i \in 1..Len(topic) : topic'[i] = topic[i]
  BY <1>1, <1>2, <1>3
<1>5. Len(topic) \in Nat /\ Len(topic) < MaxRecords
  BY <1>2 DEF Publish
<1>6. TypeOK'
  BY <1>4, <1>5, StreamAssumption DEF Publish, TypeInv, TypeOK
<1>7. ASSUME NEW p \in Processor PROVE Shaped(p)'
  <2>1. Shaped(p)
    BY DEF TypeInv
  <2>2. proc[p].fetched \in Nat
    BY Fields DEF TypeInv
  <2> QED
    BY <1>4, <1>5, <2>1, <2>2 DEF Publish, Shaped
<1> QED
  BY <1>6, <1>7 DEF TypeInv, Publish

LEMMA TickType ==
  ASSUME TypeInv, Tick
  PROVE  TypeInv'
<1>1. TypeOK'
  BY StreamAssumption DEF Tick, TypeInv, TypeOK
<1> QED
  BY <1>1 DEF Tick, TypeInv, Shaped

LEMMA JoinerType ==
  ASSUME TypeInv, NEW p \in Processor, Start(p) \/ Rejoin(p)
  PROVE  TypeInv'
<1>1. TypeOK'
  BY JoinerMoves DEF Start, Rejoin, TypeInv, TypeOK
<1>2. Shaped(p)'
  BY JoinerMoves DEF Start, Rejoin, TypeInv, Shaped, Busy
<1>3. topic' = topic /\ Others(p)
  BY JoinerMoves DEF Start, Rejoin
<1> QED
  BY <1>1, <1>2, <1>3, OthersShaped DEF Start, Rejoin, TypeInv

\* The committed offset and the new positions of an assignment are in the topic.
LEMMA AssignedShaped ==
  ASSUME TypeInv, NEW P \in [Processor -> ProcState], NEW q \in Processor,
         NEW n \in 0..Len(topic), proc' = Assigned(P, q, n), topic' = topic,
         P[q].at \notin Busy,
         NEW p \in Processor, P[p].at \notin Busy, P[p].position = P[p].fetched,
         P[p].fetched <= Len(topic),
         \A x \in Processor : x # p => P[x] = proc[x]
  PROVE  proc' \in [Processor -> ProcState] /\ \A x \in Processor : Shaped(x)'
<1>1. n \in 0..MaxRecords /\ n \in Nat
  <2>1. Len(topic) \in Nat /\ Len(topic) <= MaxRecords
    BY DEF TypeInv, TypeOK
  <2> QED
    BY <2>1, StreamAssumption
<1>2. proc' \in [Processor -> ProcState]
  BY <1>1, AssignMoves
<1>3. ASSUME NEW x \in Processor PROVE Shaped(x)'
  <2>1. /\ proc'[x].position = IF x = q THEN n ELSE P[x].position
        /\ proc'[x].fetched = IF x = q THEN n ELSE P[x].fetched
        /\ proc'[x].at = P[x].at /\ proc'[x].off = P[x].off
    BY <1>1, AssignMoves
  <2>2. /\ P[x].position \in Nat /\ P[x].fetched \in Nat
    BY DEF ProcState
  <2>3. CASE x = q
    BY <1>1, <2>1, <2>3 DEF Shaped
  <2>4. CASE x # q /\ x = p
    BY <2>1, <2>2, <2>4 DEF Shaped
  <2>5. CASE x # q /\ x # p
    <3>1. P[x] = proc[x] /\ Shaped(x)
      BY <2>5 DEF TypeInv
    <3> QED
      BY <2>1, <2>5, <3>1 DEF Shaped
  <2> QED
    BY <2>3, <2>4, <2>5
<1> QED
  BY <1>2, <1>3

LEMMA JoinType ==
  ASSUME TypeInv, NEW p \in Processor, Join(p)
  PROVE  TypeInv'
<1>1. PICK q \in Processor : /\ q = p \/ (Polling(q) /\ proc[q].member)
                             /\ owner' = q /\ proc' = Assigned(Joined(p), q, committed')
  BY DEF Join, Joined
<1>2. /\ Joined(p) \in [Processor -> ProcState]
      /\ \A x \in Processor : x # p => Joined(p)[x] = proc[x]
      /\ Joined(p)[p].at = "poll"
      /\ Joined(p)[p].position = 0 /\ Joined(p)[p].fetched = 0
  BY JoinMoves
<1>3. topic' = topic
  BY DEF Join
<1>4. committed' \in 0..Len(topic)
  <2>1. CASE Held
    <3>1. owner \in Processor /\ committed' = proc[owner].position
      BY <2>1 DEF Join, Held
    <3>2. Shaped(owner) /\ TypeOK
      BY <3>1 DEF TypeInv
    <3>3. proc[owner].position \in Nat /\ proc[owner].fetched \in Nat
      BY <3>1, <3>2, Fields
    <3> QED
      BY <3>1, <3>2, <3>3 DEF Shaped, TypeOK
  <2>2. CASE ~Held
    BY <2>2 DEF Join, TypeInv, TypeOK
  <2> QED
    BY <2>1, <2>2
<1>5. Joined(p)[q].at \notin Busy
  BY <1>1, <1>2 DEF Polling, Busy
<1>6. 0 <= Len(topic)
  BY DEF TypeInv, TypeOK
<1>7. proc' \in [Processor -> ProcState] /\ \A x \in Processor : Shaped(x)'
  BY <1>1, <1>2, <1>3, <1>4, <1>5, <1>6, AssignedShaped DEF Busy
<1>8. TypeOK'
  BY <1>1, <1>3, <1>4, <1>7 DEF Join, TypeInv, TypeOK
<1> QED
  BY <1>7, <1>8 DEF Join, TypeInv

LEMMA FailoverType ==
  ASSUME TypeInv, NEW q \in Processor, Failover(q)
  PROVE  TypeInv'
<1>1. proc \in [Processor -> ProcState] /\ committed \in 0..Len(topic)
  BY DEF TypeInv, TypeOK
<1>2. /\ proc' = Assigned(proc, q, committed) /\ topic' = topic
      /\ proc[q].at \notin Busy /\ proc[q].position = proc[q].fetched
  BY DEF Failover, Polling, Busy
<1>3. proc[q].fetched <= Len(topic)
  BY DEF TypeInv, Shaped
<1>4. proc' \in [Processor -> ProcState] /\ \A x \in Processor : Shaped(x)'
  BY <1>1, <1>2, <1>3, AssignedShaped
<1>5. TypeOK'
  BY <1>4 DEF Failover, TypeInv, TypeOK
<1> QED
  BY <1>4, <1>5 DEF Failover, TypeInv

\* Poll fetches up to a record of the topic that is further on.
LEMMA PollFetches ==
  ASSUME TypeInv, NEW p \in Processor, Poll(p)
  PROVE  \E n \in 0..MaxRecords :
           /\ proc' = [proc EXCEPT ![p].fetched = n]
           /\ n <= Len(topic) /\ n > proc[p].position
<1>1. /\ proc[p].position \in Nat /\ Len(topic) \in Nat
      /\ Len(topic) <= MaxRecords /\ Batch \in Nat \ {0}
  BY Fields, StreamAssumption DEF TypeInv, TypeOK
<1> DEFINE n == IF proc[p].position + Batch < Len(topic)
                THEN proc[p].position + Batch ELSE Len(topic)
<1>2. proc' = [proc EXCEPT ![p].fetched = n] /\ proc[p].position < Len(topic)
  BY DEF Poll
<1>3. n \in 0..MaxRecords /\ n <= Len(topic) /\ n > proc[p].position
  BY <1>1, <1>2, StreamAssumption
<1> HIDE DEF n
<1> QED
  BY <1>2, <1>3

LEMMA PollType ==
  ASSUME TypeInv, NEW p \in Processor, Poll(p)
  PROVE  TypeInv'
<1>1. PICK n \in 0..MaxRecords : /\ proc' = [proc EXCEPT ![p].fetched = n]
                                 /\ n <= Len(topic) /\ n > proc[p].position
  BY PollFetches
<1>2. TypeOK'
  BY <1>1, PollMoves DEF Poll, TypeInv, TypeOK
<1>3. Shaped(p)'
  <2>1. proc[p].position \in Nat /\ Shaped(p) /\ n \in Nat
    BY Fields, StreamAssumption DEF TypeInv
  <2>2. /\ proc'[p].position = proc[p].position /\ proc'[p].fetched = n
        /\ proc'[p].at = proc[p].at
    BY <1>1, PollMoves
  <2>3. proc[p].at = "poll" /\ topic' = topic
    BY DEF Poll, Polling
  <2> QED
    BY <1>1, <2>1, <2>2, <2>3 DEF Shaped, Busy
<1>4. topic' = topic /\ Others(p)
  BY <1>1, PollMoves DEF Poll
<1> QED
  BY <1>2, <1>3, <1>4, OthersShaped DEF Poll, TypeInv

LEMMA AutoCommitType ==
  ASSUME TypeInv, NEW p \in Processor, AutoCommit(p)
  PROVE  TypeInv'
<1>1. proc[p].position \in Nat /\ proc[p].fetched \in Nat /\ Shaped(p)
  BY Fields DEF TypeInv
<1>2. TypeOK'
  BY <1>1 DEF AutoCommit, TypeInv, TypeOK, Shaped
<1> QED
  BY <1>2 DEF AutoCommit, TypeInv, Shaped

\* Take hands out the record at the position, if it is a customer's.
LEMMA TakeFacts ==
  ASSUME TypeInv, NEW p \in Processor, Take(p)
  PROVE  LET i == proc[p].position + 1 IN
         /\ i \in 1..Len(topic) /\ i \in 0..MaxRecords /\ i <= proc[p].fetched
         /\ \/ /\ topic[i].cust = NoCustomer
               /\ proc' = [proc EXCEPT ![p].position = i]
            \/ /\ topic[i].cust \in Customer
               /\ proc' = [proc EXCEPT ![p].position = i, ![p].at = "apply",
                                       ![p].off = i]
<1> DEFINE i == proc[p].position + 1
<1>1. /\ proc[p].position \in Nat /\ proc[p].fetched \in Nat /\ Shaped(p)
      /\ Len(topic) \in Nat /\ Len(topic) <= MaxRecords
      /\ topic \in Seq(Record)
  BY Fields DEF TypeInv, TypeOK
<1>2. i \in 1..Len(topic) /\ i \in 0..MaxRecords /\ i <= proc[p].fetched
  BY <1>1, StreamAssumption DEF Take, Shaped
<1>3. topic[i] \in Record
  BY <1>1, <1>2
<1>4. topic[i].cust \in Customer \cup {NoCustomer}
  BY <1>3 DEF Record
<1> QED
  BY <1>2, <1>4 DEF Take

LEMMA TakeType ==
  ASSUME TypeInv, NEW p \in Processor, Take(p)
  PROVE  TypeInv'
<1> DEFINE i == proc[p].position + 1
<1>1. /\ i \in 1..Len(topic) /\ i \in 0..MaxRecords /\ i <= proc[p].fetched
      /\ Shaped(p) /\ proc[p].at = "poll" /\ topic' = topic
  BY TakeFacts DEF Take, TypeInv
<1>2. CASE topic[i].cust \in Customer /\
           proc' = [proc EXCEPT ![p].position = i, ![p].at = "apply", ![p].off = i]
  <2> HIDE DEF i
  <2>1. TypeOK' /\ Others(p)
    BY <1>1, <1>2, TakeMoves DEF Take, TypeInv, TypeOK
  <2>2. Shaped(p)'
    <3>1. /\ proc'[p].position = i /\ proc'[p].fetched = proc[p].fetched
          /\ proc'[p].off = i
      BY <1>1, <1>2, TakeMoves
    <3> QED
      BY <1>1, <1>2, <3>1 DEF Shaped
  <2> QED
    BY <1>1, <2>1, <2>2, OthersShaped DEF Take, TypeInv
<1>3. CASE proc' = [proc EXCEPT ![p].position = i]
  <2> HIDE DEF i
  <2>1. TypeOK' /\ Others(p)
    BY <1>1, <1>3, PassMoves DEF Take, TypeInv, TypeOK
  <2>2. Shaped(p)'
    BY <1>1, <1>3, PassMoves DEF Shaped, Busy
  <2> QED
    BY <1>1, <2>1, <2>2, OthersShaped DEF Take, TypeInv
<1> QED
  BY <1>2, <1>3, TakeFacts

LEMMA ApplyType ==
  ASSUME TypeInv, NEW p \in Processor, Apply(p)
  PROVE  TypeInv'
<1>1. proc' \in [Processor -> ProcState] /\ Others(p)
  BY ApplyMoves
<1>2. /\ proc'[p].at = "write" /\ proc'[p].off = proc[p].off
      /\ proc'[p].position = proc[p].position /\ proc'[p].fetched = proc[p].fetched
  BY ApplyMoves
<1>3. TypeOK'
  BY <1>1, ApplyFacts DEF Apply, TypeInv, TypeOK
<1>4. Shaped(p) /\ proc[p].at = "apply" /\ topic' = topic
  BY DEF TypeInv, Apply
<1>5. Shaped(p)'
  BY <1>2, <1>4 DEF Shaped, Busy
<1> QED
  BY <1>1, <1>3, <1>4, <1>5, OthersShaped DEF Apply, TypeInv

\* What Write writes.
Written(p) == [until |-> IF Live(Cust(p)) THEN feature[Cust(p)].until ELSE Never,
               upto |-> proc[p].off, asOf |-> proc[p].asOf,
               short |-> proc[p].short, long |-> proc[p].long]

LEMMA WriteType ==
  ASSUME TypeInv, NEW p \in Processor, Write(p)
  PROVE  TypeInv'
<1>1. Cust(p) \in Customer /\ proc[p].off \in Offset
  BY CustType DEF Write, Busy
<1>2. feature[Cust(p)].until \in Nat \cup {Never}
  BY <1>1 DEF TypeInv, TypeOK, FeatureState
<1>3. Written(p) \in FeatureState
  BY <1>2, Fields DEF Written, FeatureState, TypeInv
<1>4. feature' = [feature EXCEPT ![Cust(p)] = Written(p)]
  BY <1>1 DEF Write, Written, TypeInv, TypeOK
<1>5. feature' \in [Customer -> FeatureState]
  BY <1>1, <1>3, <1>4 DEF TypeInv, TypeOK
<1>6. applied' \subseteq Offset
  BY <1>1 DEF Write, TypeInv, TypeOK
<1>7. TypeOK'
  BY <1>5, <1>6, WriteMoves DEF Write, TypeInv, TypeOK
<1>8. Shaped(p) /\ proc[p].at = "write" /\ topic' = topic /\ Others(p)
  BY WriteMoves DEF TypeInv, Write
<1>9. Shaped(p)'
  BY <1>8, WriteMoves DEF Shaped, Busy
<1> QED
  BY <1>7, <1>8, <1>9, OthersShaped DEF Write, TypeInv

LEMMA ExpireType ==
  ASSUME TypeInv, NEW p \in Processor, Expire(p)
  PROVE  TypeInv'
<1>1. Cust(p) \in Customer
  BY CustType DEF Expire, Busy
<1>2. feature[Cust(p)] \in FeatureState /\ day + Ttl \in Nat
  BY <1>1, StreamAssumption DEF TypeInv, TypeOK
<1>3. [feature[Cust(p)] EXCEPT !.until = day + Ttl] \in FeatureState
  BY <1>2 DEF FeatureState
<1>4. feature' \in [Customer -> FeatureState]
  BY <1>1, <1>3 DEF Expire, TypeInv, TypeOK
<1>5. TypeOK'
  BY <1>4, ExpireMoves DEF Expire, TypeInv, TypeOK
<1>6. Shaped(p) /\ topic' = topic /\ Others(p)
  BY ExpireMoves DEF TypeInv, Expire
<1>7. Shaped(p)'
  BY <1>6, ExpireMoves DEF Shaped, Busy
<1> QED
  BY <1>5, <1>6, <1>7, OthersShaped DEF Expire, TypeInv

LEMMA StopType ==
  ASSUME TypeInv, NEW p \in Processor, Stop(p)
  PROVE  TypeInv'
<1>1. /\ proc[p].position \in Nat /\ proc[p].fetched \in Nat
      /\ Shaped(p) /\ Len(topic) \in Nat
  BY Fields DEF TypeInv, TypeOK
<1>2. committed' \in 0..Len(topic)
  BY <1>1 DEF Stop, Shaped, TypeInv, TypeOK
<1>3. Zero \in Count
  BY DEF Zero, Count
<1>4. memory' \in [Processor -> Count]
  BY <1>3 DEF Stop, TypeInv, TypeOK
<1>5. skipped' \subseteq Offset
  BY CustType DEF Stop, Busy, TypeInv, TypeOK
<1>6. faults' \in 0..MaxFaults /\ evictions' <= faults'
  BY StreamAssumption DEF Stop, Fails, TypeInv, TypeOK
<1>7. TypeOK'
  BY <1>2, <1>4, <1>5, <1>6, DownMoves DEF Stop, TypeInv, TypeOK
<1>8. proc'[p] = Down /\ Others(p) /\ topic' = topic
  BY DownMoves DEF Stop
<1>9. Shaped(p)'
  BY <1>1, <1>8 DEF Shaped, Down, Busy
<1> QED
  BY <1>6, <1>7, <1>8, <1>9, OthersShaped DEF TypeInv

LEMMA KillType ==
  ASSUME TypeInv, NEW p \in Processor, Kill(p)
  PROVE  TypeInv'
<1>1. Len(topic) \in Nat
  BY DEF TypeInv, TypeOK
<1>2. Zero \in Count
  BY DEF Zero, Count
<1>3. memory' \in [Processor -> Count]
  BY <1>2 DEF Kill, TypeInv, TypeOK
<1>4. faults' \in 0..MaxFaults /\ evictions' <= faults'
  BY StreamAssumption DEF Kill, Fails, TypeInv, TypeOK
<1>5. TypeOK'
  BY <1>3, <1>4, DownMoves DEF Kill, TypeInv, TypeOK
<1>6. proc'[p] = Down /\ Others(p) /\ topic' = topic
  BY DownMoves DEF Kill
<1>7. Shaped(p)'
  BY <1>1, <1>6 DEF Shaped, Down, Busy
<1> QED
  BY <1>4, <1>5, <1>6, <1>7, OthersShaped DEF TypeInv

LEMMA EvictType ==
  ASSUME TypeInv, NEW p \in Processor, Evict(p)
  PROVE  TypeInv'
<1>1. /\ faults' \in 0..MaxFaults /\ evictions' \in 0..MaxFaults
      /\ evictions' <= faults'
  BY StreamAssumption DEF Evict, Fails, TypeInv, TypeOK
<1>2. TypeOK'
  BY <1>1, EvictMoves DEF Evict, TypeInv, TypeOK
<1>3. Shaped(p) /\ topic' = topic /\ Others(p)
  BY EvictMoves DEF TypeInv, Evict
<1>4. Shaped(p)'
  BY <1>3, EvictMoves DEF Shaped, Busy
<1> QED
  BY <1>1, <1>2, <1>3, <1>4, OthersShaped DEF TypeInv

LEMMA EvictKeyType ==
  ASSUME TypeInv, NEW c \in Customer, EvictKey(c)
  PROVE  TypeInv'
<1>1. NoKey \in FeatureState
  BY StreamAssumption DEF NoKey, FeatureState, Zero, Count, Offset
<1>2. feature' \in [Customer -> FeatureState]
  BY <1>1 DEF EvictKey, TypeInv, TypeOK
<1>3. faults' \in 0..MaxFaults /\ faults' = faults + 1 /\ evictions' = evictions
        /\ faults \in Int /\ evictions \in Int /\ evictions <= faults
  BY StreamAssumption DEF EvictKey, Fails, TypeInv, TypeOK
<1>4. evictions' <= faults'
  BY <1>3
<1>5. TypeOK'
  BY <1>2, <1>3 DEF EvictKey, TypeInv, TypeOK
<1> QED
  BY <1>4, <1>5 DEF EvictKey, TypeInv, Shaped

LEMMA NextType ==
  ASSUME TypeInv, [Next]_vars
  PROVE  TypeInv'
<1>1. CASE Publish
  BY <1>1, PublishType
<1>2. CASE Tick
  BY <1>2, TickType
<1>3. ASSUME NEW p \in Processor, Start(p) PROVE TypeInv'
  BY <1>3, JoinerType
<1>4. ASSUME NEW p \in Processor, Group(p) PROVE TypeInv'
  BY <1>4, JoinType, FailoverType, AutoCommitType, JoinerType DEF Group
<1>5. ASSUME NEW p \in Processor, Loop(p) PROVE TypeInv'
  BY <1>5, PollType, TakeType, ApplyType, WriteType, ExpireType DEF Loop
<1>6. ASSUME NEW p \in Processor, Stop(p) \/ Kill(p) \/ Evict(p) PROVE TypeInv'
  BY <1>6, StopType, KillType, EvictType
<1>7. CASE UNCHANGED vars
  BY <1>7 DEF vars, TypeInv, TypeOK, Shaped
<1> QED
  BY <1>1, <1>2, <1>3, <1>4, <1>5, <1>6, <1>7, EvictKeyType DEF Next

LEMMA AlwaysType ==
  Spec => []TypeInv
<1> QED
  BY InitType, NextType, PTL DEF Spec

\* Every variable keeps its type, for any numbers of processors, customers and
\* records, through starts, stops, kills, evictions and rebalances.
THEOREM TypeCorrect ==
  Spec => []TypeOK
<1>1. TypeInv => TypeOK
  BY DEF TypeInv
<1> QED
  BY <1>1, AlwaysType, PTL

-----------------------------------------------------------------------------
(* What is committed is done.                                              *)

Settled(i) == topic[i].cust = NoCustomer \/ i \in applied \cup skipped
InHand(p, i) == proc[p].at \in {"apply", "write"} /\ i = proc[p].off

\* The owner has settled what it was handed out, but for the record in hand.
OwnerSettles(p) ==
  Owns(p) => /\ committed <= proc[p].position
             /\ \A i \in 1..proc[p].position : Settled(i) \/ InHand(p, i)

CommitInv ==
  /\ CommittedIsApplied
  /\ \A p \in Processor : OwnerSettles(p)

\* Records, and what was done with them, are there to stay.
LEMMA StaySettled ==
  ASSUME TypeInv, [Next]_vars, NEW i \in 1..Len(topic), Settled(i)
  PROVE  Settled(i)'
<1>1. CASE Publish
  <2>1. PICK c \in Customer \cup {NoCustomer}, d \in day - Back .. day :
          topic' = Append(topic, [cust |-> c, at |-> d])
    BY <1>1 DEF Publish
  <2>2. topic \in Seq(Record)
    BY DEF TypeInv, TypeOK
  <2>3. topic'[i] = topic[i]
    BY <2>1, <2>2
  <2> QED
    BY <1>1, <2>3 DEF Settled, Publish
<1>2. CASE ~Publish
  <2>1. topic' = topic /\ applied \subseteq applied' /\ skipped \subseteq skipped'
    BY <1>2 DEF Next, Tick, Start, Group, Join, Failover, AutoCommit, Rejoin, Loop,
                Poll, Take, Apply, Write, Expire, Stop, Kill, Evict, EvictKey, vars
  <2> QED
    BY <2>1 DEF Settled
<1> QED
  BY <1>1, <1>2

\* The offsets in the invariant are those of records.
LEMMA Ranges ==
  ASSUME TypeInv, NEW p \in Processor
  PROVE  /\ Len(topic) \in Nat /\ committed \in Nat /\ committed <= Len(topic)
         /\ proc[p].position \in Nat /\ proc[p].position <= Len(topic)
         /\ proc[p].fetched \in Nat
<1>1. /\ Len(topic) \in Nat /\ committed \in 0..Len(topic) /\ Shaped(p)
      /\ proc[p].position \in Nat /\ proc[p].fetched \in Nat
  BY Fields DEF TypeInv, TypeOK
<1> QED
  BY <1>1 DEF Shaped

\* An owner goes on being one that settles when it keeps its position, and lets
\* go only of what is settled.
LEMMA OwnerGoesOn ==
  ASSUME TypeInv, CommitInv, [Next]_vars, NEW p \in Processor,
         Owns(p)' => /\ Owns(p) /\ proc'[p].position = proc[p].position
                     /\ committed' <= proc[p].position
                     /\ \A i \in 1..proc[p].position :
                          InHand(p, i) => Settled(i)' \/ InHand(p, i)'
  PROVE  OwnerSettles(p)'
<1> SUFFICES ASSUME Owns(p)' PROVE /\ committed' <= proc'[p].position
                                   /\ \A i \in 1..proc'[p].position :
                                        Settled(i)' \/ InHand(p, i)'
  BY DEF OwnerSettles
<1>1. proc'[p].position = proc[p].position /\ committed' <= proc[p].position
  OBVIOUS
<1>2. ASSUME NEW i \in 1..proc[p].position PROVE Settled(i)' \/ InHand(p, i)'
  <2>1. Settled(i) \/ InHand(p, i)
    BY DEF CommitInv, OwnerSettles
  <2>2. i \in 1..Len(topic)
    BY Ranges
  <2> QED
    BY <2>1, <2>2, StaySettled
<1> QED
  BY <1>1, <1>2

\* Committed records remain settled.
LEMMA CommittedGoesOn ==
  ASSUME TypeInv, CommitInv, [Next]_vars, committed' = committed
  PROVE  CommittedIsApplied'
<1> SUFFICES ASSUME NEW i \in 1..committed PROVE Settled(i)'
  BY DEF CommittedIsApplied, Settled
<1>1. Len(topic) \in Nat /\ committed \in 0..Len(topic)
  BY DEF TypeInv, TypeOK
<1>2. i \in 1..Len(topic) /\ Settled(i)
  BY <1>1 DEF CommitInv, CommittedIsApplied, Settled
<1> QED
  BY <1>2, StaySettled

\* An owner with nothing in hand may commit its position.
LEMMA CommitPosition ==
  ASSUME TypeInv, CommitInv, [Next]_vars, NEW p \in Processor, Owns(p),
         committed' = proc[p].position,
         \A i \in 1..proc[p].position : InHand(p, i) => Settled(i)'
  PROVE  CommittedIsApplied'
<1> SUFFICES ASSUME NEW i \in 1..proc[p].position PROVE Settled(i)'
  BY DEF CommittedIsApplied, Settled
<1>1. i \in 1..Len(topic)
  BY Ranges
<1>2. Settled(i) \/ InHand(p, i)
  BY DEF CommitInv, OwnerSettles
<1> QED
  BY <1>1, <1>2, StaySettled

\* Only the processor p may have changed, and offsets are as they were.
LEMMA CommitStays ==
  ASSUME TypeInv, CommitInv, [Next]_vars, NEW p \in Processor, Others(p),
         committed' = committed, owner' \in {owner, NoProcessor},
         OwnerSettles(p)'
  PROVE  CommitInv'
<1>1. ASSUME NEW x \in Processor, x # p PROVE OwnerSettles(x)'
  <2>1. proc'[x] = proc[x]
    BY <1>1 DEF Others
  <2>2. Owns(x)' => Owns(x)
    BY <2>1, StreamAssumption DEF Owns
  <2>3. Owns(x) => committed' <= proc[x].position
    BY DEF CommitInv, OwnerSettles
  <2>4. \A i : InHand(x, i) => InHand(x, i)'
    BY <2>1 DEF InHand
  <2> QED
    BY <2>1, <2>2, <2>3, <2>4, OwnerGoesOn
<1> QED
  BY <1>1, CommittedGoesOn DEF CommitInv

\* Steps that leave the owner's position alone and drop nothing unsettled.
LEMMA QuietCommit ==
  ASSUME TypeInv, CommitInv, NEW p \in Processor,
         Start(p) \/ Rejoin(p) \/ Poll(p) \/ Apply(p) \/ Expire(p)
  PROVE  CommitInv'
<1>1. [Next]_vars
  BY DEF Next, Group, Loop
<1>2. committed' = committed /\ owner' = owner
  BY DEF Start, Rejoin, Poll, Apply, Expire
<1>3. /\ Others(p) /\ proc'[p].position = proc[p].position
      /\ Owns(p)' => Owns(p)
      /\ \A i : InHand(p, i) => InHand(p, i)'
  <2>1. CASE Start(p) \/ Rejoin(p)
    BY <1>2, <2>1, JoinerMoves DEF Start, Rejoin, Polling, Owns, InHand, Up
  <2>2. CASE Poll(p)
    <3>1. PICK n \in 0..MaxRecords : proc' = [proc EXCEPT ![p].fetched = n]
      BY <2>2, PollFetches
    <3> QED
      BY <1>2, <2>2, <3>1, PollMoves DEF Owns, InHand
  <2>3. CASE Apply(p)
    BY <1>2, <2>3, ApplyMoves DEF Apply, Owns, InHand
  <2>4. CASE Expire(p)
    BY <1>2, <2>4, ExpireMoves DEF Expire, Owns, InHand
  <2> QED
    BY <2>1, <2>2, <2>3, <2>4
<1>4. Owns(p) => committed <= proc[p].position
  BY DEF CommitInv, OwnerSettles
<1>5. OwnerSettles(p)'
  BY <1>1, <1>2, <1>3, <1>4, OwnerGoesOn
<1> QED
  BY <1>1, <1>2, <1>3, <1>5, CommitStays

LEMMA WorldCommit ==
  ASSUME TypeInv, CommitInv,
         Publish \/ Tick \/ (\E c \in Customer : EvictKey(c)) \/ UNCHANGED vars
  PROVE  CommitInv'
<1>1. /\ [Next]_vars /\ committed' = committed /\ owner' = owner /\ proc' = proc
  BY DEF Next, Publish, Tick, EvictKey, vars
<1>2. ASSUME NEW p \in Processor PROVE OwnerSettles(p)'
  <2>1. Owns(p)' => Owns(p)
    BY <1>1 DEF Owns
  <2>2. \A i : InHand(p, i) => InHand(p, i)'
    BY <1>1 DEF InHand
  <2>3. Owns(p) => committed' <= proc[p].position
    BY <1>1 DEF CommitInv, OwnerSettles
  <2> QED
    BY <1>1, <2>1, <2>2, <2>3, OwnerGoesOn
<1> QED
  BY <1>1, <1>2, CommittedGoesOn DEF CommitInv

LEMMA AutoCommitCommit ==
  ASSUME TypeInv, CommitInv, NEW p \in Processor, AutoCommit(p)
  PROVE  CommitInv'
<1>1. /\ [Next]_vars /\ Owns(p) /\ committed' = proc[p].position
      /\ owner' = owner /\ proc' = proc /\ owner = p
  BY DEF Next, Group, AutoCommit, Owns
<1>2. \A i : ~InHand(p, i)
  BY DEF AutoCommit, Polling, InHand
<1>3. ASSUME NEW x \in Processor PROVE OwnerSettles(x)'
  <2>1. Owns(x)' => x = p
    BY <1>1 DEF Owns
  <2>2. proc[p].position <= proc[p].position
    BY Ranges
  <2> QED
    BY <1>1, <1>2, <2>1, <2>2, OwnerGoesOn
<1> QED
  BY <1>1, <1>2, <1>3, CommitPosition DEF CommitInv

LEMMA TakeCommit ==
  ASSUME TypeInv, CommitInv, NEW p \in Processor, Take(p)
  PROVE  CommitInv'
<1> DEFINE i == proc[p].position + 1
<1>1. /\ [Next]_vars /\ committed' = committed /\ owner' = owner /\ topic' = topic
      /\ applied' = applied /\ skipped' = skipped /\ proc[p].at = "poll"
  BY DEF Next, Loop, Take
<1>2. i \in 1..Len(topic) /\ i \in 0..MaxRecords
  BY TakeFacts
<1>3. \/ /\ topic[i].cust = NoCustomer
         /\ proc' = [proc EXCEPT ![p].position = i]
      \/ /\ topic[i].cust \in Customer
         /\ proc' = [proc EXCEPT ![p].position = i, ![p].at = "apply", ![p].off = i]
  BY TakeFacts
<1> HIDE DEF i
<1>4. /\ Others(p) /\ proc'[p].position = i /\ proc'[p].member = proc[p].member
      /\ Settled(i) \/ (proc'[p].at = "apply" /\ proc'[p].off = i)
  BY <1>2, <1>3, TakeMoves, PassMoves DEF Settled
<1>5. OwnerSettles(p)'
  <2> SUFFICES ASSUME Owns(p)'
               PROVE  /\ committed <= i
                      /\ \A j \in 1..i : Settled(j)' \/ InHand(p, j)'
    BY <1>1, <1>4 DEF OwnerSettles
  <2>1. /\ committed <= proc[p].position
        /\ \A j \in 1..proc[p].position : Settled(j) \/ InHand(p, j)
    BY <1>1, <1>4 DEF Owns, CommitInv, OwnerSettles
  <2>2. \A j : ~InHand(p, j)
    BY <1>1 DEF InHand
  <2>3. committed \in Nat /\ proc[p].position \in Nat
    BY Ranges
  <2>4. ASSUME NEW j \in 1..i PROVE Settled(j)' \/ InHand(p, j)'
    <3>1. CASE j = i
      BY <1>1, <1>4, <3>1 DEF Settled, InHand
    <3>2. CASE j # i
      <4>1. j \in 1..proc[p].position
        BY <2>3, <3>2 DEF i
      <4> QED
        BY <1>1, <2>1, <2>2, <4>1 DEF Settled
    <3> QED
      BY <3>1, <3>2
  <2> QED
    BY <2>1, <2>3, <2>4 DEF i
<1> QED
  BY <1>1, <1>4, <1>5, CommitStays

LEMMA WriteCommit ==
  ASSUME TypeInv, CommitInv, NEW p \in Processor, Write(p)
  PROVE  CommitInv'
<1>1. /\ [Next]_vars /\ committed' = committed /\ owner' = owner
      /\ applied' = applied \cup {proc[p].off}
  BY DEF Next, Loop, Write
<1>2. /\ Others(p) /\ proc'[p].position = proc[p].position
      /\ proc'[p].member = proc[p].member
  BY WriteMoves
<1>3. \A i : InHand(p, i) => Settled(i)'
  BY <1>1 DEF InHand, Settled
<1>4. /\ Owns(p)' => Owns(p)
      /\ Owns(p) => committed' <= proc[p].position
  BY <1>1, <1>2 DEF Owns, CommitInv, OwnerSettles
<1>5. OwnerSettles(p)'
  BY <1>1, <1>2, <1>3, <1>4, OwnerGoesOn
<1> QED
  BY <1>1, <1>2, <1>5, CommitStays

\* A processor that goes down, or is evicted, owns nothing.
LEMMA LostCommit ==
  ASSUME TypeInv, CommitInv, NEW p \in Processor, Kill(p) \/ Evict(p)
  PROVE  CommitInv'
<1>1. /\ [Next]_vars /\ committed' = committed /\ owner' \in {owner, NoProcessor}
  <2>1. [Next]_vars
    BY DEF Next
  <2>2. CASE Kill(p)
    BY <2>1, <2>2 DEF Kill
  <2>3. CASE Evict(p)
    BY <2>1, <2>3 DEF Evict
  <2> QED
    BY <2>2, <2>3
<1>2. Others(p) /\ ~Owns(p)'
  <2>1. CASE Kill(p)
    BY <2>1, DownMoves DEF Owns, Down
  <2>2. CASE Evict(p)
    BY <2>2, EvictMoves DEF Owns
  <2> QED
    BY <2>1, <2>2
<1>3. OwnerSettles(p)'
  BY <1>2 DEF OwnerSettles
<1> QED
  BY <1>1, <1>2, <1>3, CommitStays

LEMMA StopCommit ==
  ASSUME TypeInv, CommitInv, NEW p \in Processor, Stop(p)
  PROVE  CommitInv'
<1>1. [Next]_vars
  BY DEF Next
<1>2. Others(p) /\ ~Owns(p)'
  BY DownMoves DEF Owns, Down
<1>3. OwnerSettles(p)'
  BY <1>2 DEF OwnerSettles
<1>4. CASE Owns(p)
  <2>1. committed' = proc[p].position /\ owner' = NoProcessor
    BY <1>4 DEF Stop
  <2>2. \A i : InHand(p, i) => Settled(i)'
    BY DEF Stop, InHand, Settled
  <2>3. \A x \in Processor : ~Owns(x)'
    BY <2>1, StreamAssumption DEF Owns
  <2> QED
    BY <1>1, <1>4, <2>1, <2>2, <2>3, CommitPosition DEF CommitInv, OwnerSettles
<1>5. CASE ~Owns(p)
  <2>1. committed' = committed /\ owner' = owner
    BY <1>5 DEF Stop
  <2> QED
    BY <1>1, <1>2, <1>3, <2>1, CommitStays
<1> QED
  BY <1>4, <1>5

\* A new owner starts where the group's commit says.
LEMMA AssignedCommit ==
  ASSUME TypeInv, NEW P \in [Processor -> ProcState], NEW q \in Processor,
         owner' = q, proc' = Assigned(P, q, committed'), CommittedIsApplied',
         committed' \in 0..MaxRecords
  PROVE  CommitInv'
<1>1. proc'[q].position = committed' /\ committed' \in Nat
  BY AssignMoves, StreamAssumption
<1>2. OwnerSettles(q)'
  BY <1>1 DEF OwnerSettles, CommittedIsApplied, Settled
<1>3. \A x \in Processor : x # q => ~Owns(x)'
  BY DEF Owns
<1> QED
  BY <1>2, <1>3 DEF CommitInv, OwnerSettles

LEMMA JoinCommit ==
  ASSUME TypeInv, CommitInv, NEW p \in Processor, Join(p)
  PROVE  CommitInv'
<1>1. [Next]_vars
  BY DEF Next, Group
<1>2. PICK q \in Processor : owner' = q /\ proc' = Assigned(Joined(p), q, committed')
  BY DEF Join, Joined
<1>3. Joined(p) \in [Processor -> ProcState]
  BY JoinMoves
<1>4. CommittedIsApplied'
  <2>1. CASE Held
    <3>1. owner \in Processor /\ Owns(owner) /\ committed' = proc[owner].position
      BY <2>1 DEF Join, Held, Owns
    <3>2. \A i : ~InHand(owner, i)
      BY <2>1 DEF Join, Polling, InHand
    <3> QED
      BY <1>1, <3>1, <3>2, CommitPosition
  <2>2. CASE ~Held
    BY <1>1, <2>2, CommittedGoesOn DEF Join
  <2> QED
    BY <2>1, <2>2
<1>5. committed' \in 0..MaxRecords
  <2>1. TypeInv'
    BY JoinType
  <2>2. Len(topic)' \in Nat /\ Len(topic)' <= MaxRecords /\ committed' \in 0..Len(topic)'
    BY <2>1 DEF TypeInv, TypeOK
  <2> QED
    BY <2>2, StreamAssumption
<1> QED
  BY <1>2, <1>3, <1>4, <1>5, AssignedCommit

LEMMA FailoverCommit ==
  ASSUME TypeInv, CommitInv, NEW q \in Processor, Failover(q)
  PROVE  CommitInv'
<1>1. /\ [Next]_vars /\ committed' = committed /\ owner' = q
      /\ proc' = Assigned(proc, q, committed')
  BY DEF Next, Group, Failover
<1>2. proc \in [Processor -> ProcState] /\ committed' \in 0..MaxRecords
  <2>1. Len(topic) \in Nat /\ Len(topic) <= MaxRecords /\ committed \in 0..Len(topic)
    BY DEF TypeInv, TypeOK
  <2> QED
    BY <1>1, <2>1, StreamAssumption DEF TypeInv, TypeOK
<1> QED
  BY <1>1, <1>2, CommittedGoesOn, AssignedCommit

LEMMA NextCommit ==
  ASSUME TypeInv, CommitInv, [Next]_vars
  PROVE  CommitInv'
<1>1. CASE Publish \/ Tick \/ (\E c \in Customer : EvictKey(c)) \/ UNCHANGED vars
  BY <1>1, WorldCommit
<1>2. ASSUME NEW p \in Processor, Start(p) PROVE CommitInv'
  BY <1>2, QuietCommit
<1>3. ASSUME NEW p \in Processor, Group(p) PROVE CommitInv'
  BY <1>3, JoinCommit, FailoverCommit, AutoCommitCommit, QuietCommit DEF Group
<1>4. ASSUME NEW p \in Processor, Loop(p) PROVE CommitInv'
  BY <1>4, QuietCommit, TakeCommit, WriteCommit DEF Loop
<1>5. ASSUME NEW p \in Processor, Stop(p) \/ Kill(p) \/ Evict(p) PROVE CommitInv'
  BY <1>5, StopCommit, LostCommit
<1> QED
  BY <1>1, <1>2, <1>3, <1>4, <1>5 DEF Next

\* Through any starts, stops, kills, evictions and rebalances of any number of
\* processors, a record the group will not deliver again has been written to
\* the features or was in hand when a processor's loop ended.
THEOREM CommittedIsDone ==
  Spec => []CommittedIsApplied
<1>1. Init => CommitInv
  <2> SUFFICES ASSUME Init PROVE CommitInv
    OBVIOUS
  <2>1. committed = 0 /\ owner = NoProcessor
    BY DEF Init
  <2> QED
    BY <2>1, StreamAssumption DEF CommitInv, CommittedIsApplied, OwnerSettles, Owns
<1>2. CommitInv => CommittedIsApplied
  BY DEF CommitInv
<1> QED
  BY <1>1, <1>2, NextCommit, AlwaysType, PTL DEF Spec

-----------------------------------------------------------------------------
(* What is counted twice.                                                  *)

\* p has been handed out record i and has entered it in its list.
Done(p, i) == i <= proc[p].position /\ ~(proc[p].at = "apply" /\ i = proc[p].off)
\* Record i is in p's hand, or in the batch p has not been through.
Ahead(p, i) ==
  \/ proc[p].position < i /\ i <= proc[p].fetched
  \/ proc[p].at = "apply" /\ i = proc[p].off

Bounded(p) ==
  \A i \in Offset : /\ memory[p][i] <= 1 + evictions
                    /\ proc[p].short[i] <= 1 + evictions
                    /\ proc[p].long[i] <= 1 + evictions

\* A record p may be handed out again is not counted as often as it might be:
\* one that is not committed and that p does not own as done.
Deliverable(p) ==
  \A i \in Offset : (i > committed /\ ~(Owns(p) /\ Done(p, i))) =>
                      memory[p][i] <= evictions

\* A member that was evicted still enters the rest of its batch; the eviction
\* that made it a stray pays for that.
Stray(p) ==
  ~proc[p].member => \A i \in Offset : Ahead(p, i) => memory[p][i] < evictions

\* Only members hold records, and only the owner is past its polls.
Placed(p) ==
  /\ proc[p].at \in {"down", "join"} =>
       ~proc[p].member /\ proc[p].position = proc[p].fetched
  /\ proc[p].member /\ owner # p => Polling(p)
  /\ Owns(p) /\ proc[p].at = "apply" => committed < proc[p].position

Counted(p) == Bounded(p) /\ Deliverable(p) /\ Stray(p) /\ Placed(p)

CountInv ==
  /\ CountedOncePerEviction
  /\ \A p \in Processor : Counted(p)

LEMMA Numbers ==
  ASSUME TypeInv, NEW p \in Processor, NEW i \in Offset
  PROVE  /\ memory[p][i] \in Nat /\ proc[p].short[i] \in Nat
         /\ proc[p].long[i] \in Nat /\ evictions \in Nat /\ i \in Nat
         /\ committed \in Nat
<1>1. memory[p] \in Count /\ proc[p].short \in Count /\ proc[p].long \in Count
  BY Fields DEF TypeInv, TypeOK
<1>2. committed \in Nat
  BY Ranges
<1> QED
  BY <1>1, <1>2, StreamAssumption DEF Count, Offset, TypeInv, TypeOK

\* A processor that does not move, while others commit, are evicted or leave.
LEMMA RestCount ==
  ASSUME TypeInv, CountInv, NEW p \in Processor, proc'[p] = proc[p],
         memory'[p] = memory[p], evictions' \in {evictions, evictions + 1},
         committed' \in Nat, committed <= committed',
         Owns(p) => owner' = p, owner' = p => owner = p /\ committed' = committed
  PROVE  Counted(p)'
<1>1. Counted(p) /\ (Owns(p)' => Owns(p) /\ committed' = committed)
  BY DEF CountInv, Owns
<1>2. evictions' >= evictions /\ evictions \in Nat /\ evictions' \in Nat
  BY StreamAssumption DEF TypeInv, TypeOK
<1>3. Bounded(p)'
  BY <1>1, <1>2, Numbers DEF Counted, Bounded
<1>4. Deliverable(p)'
  <2> SUFFICES ASSUME NEW i \in Offset, i > committed',
                      ~(Owns(p)' /\ Done(p, i)')
               PROVE  memory[p][i] <= evictions'
    BY DEF Deliverable
  <2>1. i > committed
    BY Numbers
  <2>2. ~(Owns(p) /\ Done(p, i))
    BY DEF Owns, Done
  <2> QED
    BY <1>1, <1>2, <2>1, <2>2, Numbers DEF Counted, Deliverable
<1>5. Stray(p)'
  BY <1>1, <1>2, Numbers DEF Counted, Stray, Ahead
<1>6. Placed(p)'
  BY <1>1 DEF Counted, Placed, Owns, Polling
<1> QED
  BY <1>3, <1>4, <1>5, <1>6 DEF Counted

\* Where only p moves, and neither the assignment nor the commit changes.
LEMMA OthersCount ==
  ASSUME TypeInv, CountInv, NEW p \in Processor, Others(p), owner' = owner,
         committed' = committed, evictions' = evictions,
         \A x \in Processor : x # p => memory'[x] = memory[x],
         Counted(p)', CountedOncePerEviction'
  PROVE  CountInv'
<1>1. ASSUME NEW x \in Processor, x # p PROVE Counted(x)'
  <2>1. proc'[x] = proc[x] /\ memory'[x] = memory[x] /\ committed' \in Nat
    BY <1>1, Ranges DEF Others
  <2>2. committed <= committed'
    BY Ranges
  <2>3. (Owns(x) => owner' = x) /\ (owner' = x => owner = x /\ committed' = committed)
    BY DEF Owns
  <2> QED
    BY <2>1, <2>2, <2>3, RestCount
<1> QED
  BY <1>1 DEF CountInv

LEMMA WorldCount ==
  ASSUME TypeInv, CountInv,
         Publish \/ Tick \/ (\E c \in Customer : EvictKey(c)) \/ UNCHANGED vars
  PROVE  CountInv'
<1>1. /\ committed' = committed /\ owner' = owner /\ proc' = proc
      /\ memory' = memory /\ evictions' = evictions
  BY DEF Publish, Tick, EvictKey, vars
<1>2. evictions \in Nat
  BY StreamAssumption DEF TypeInv, TypeOK
<1>3. CountedOncePerEviction'
  <2>1. CASE feature' = feature
    BY <1>1, <2>1 DEF CountInv, CountedOncePerEviction
  <2>2. ASSUME NEW c \in Customer, EvictKey(c) PROVE CountedOncePerEviction'
    <3>1. feature' = [feature EXCEPT ![c] = NoKey]
      BY <2>2 DEF EvictKey
    <3>2. \A i \in Offset : NoKey.short[i] = 0 /\ NoKey.long[i] = 0
      BY DEF NoKey, Zero
    <3>3. ASSUME NEW b \in Customer, NEW i \in Offset
          PROVE  feature'[b].short[i] <= 1 + evictions /\ feature'[b].long[i] <= 1 + evictions
      <4>1. CASE b = c
        BY <1>2, <3>1, <3>2, <4>1 DEF TypeInv, TypeOK
      <4>2. CASE b # c
        BY <3>1, <4>2 DEF CountInv, CountedOncePerEviction, TypeInv, TypeOK
      <4> QED
        BY <4>1, <4>2
    <3> QED
      BY <1>1, <3>3 DEF CountedOncePerEviction
  <2> QED
    BY <2>1, <2>2 DEF Publish, Tick, vars
<1> QED
  BY <1>1, <1>3 DEF CountInv, CountedOncePerEviction, Counted, Bounded, Deliverable,
              Stray, Placed, Owns, Done, Ahead, Polling

\* Going to join, and fetching more.
LEMMA IdleCount ==
  ASSUME TypeInv, CountInv, NEW p \in Processor, Start(p) \/ Rejoin(p) \/ Poll(p)
  PROVE  CountInv'
<1>1. /\ committed' = committed /\ owner' = owner /\ memory' = memory
      /\ evictions' = evictions /\ feature' = feature
  BY DEF Start, Rejoin, Poll
<1>2. Counted(p)
  BY DEF CountInv
<1>3. CASE Start(p) \/ Rejoin(p)
  <2>1. /\ proc[p].at \in {"down", "poll"} /\ proc[p].position = proc[p].fetched
        /\ ~proc[p].member
    BY <1>2, <1>3 DEF Start, Rejoin, Up, Polling, Counted, Placed
  <2>2. /\ Others(p) /\ proc'[p].at = "join" /\ ~proc'[p].member
        /\ proc'[p].position = proc[p].position
        /\ proc'[p].fetched = proc[p].fetched
        /\ proc'[p].short = proc[p].short /\ proc'[p].long = proc[p].long
    BY <1>3, <2>1, JoinerMoves
  <2>3. proc[p].position \in Nat
    BY Ranges
  <2>4. Bounded(p)'
    BY <1>1, <1>2, <2>2 DEF Counted, Bounded
  <2>5. Deliverable(p)'
    BY <1>1, <1>2, <2>1, <2>2 DEF Counted, Deliverable, Owns
  <2>6. \A i \in Offset : ~Ahead(p, i)'
    BY <2>1, <2>2, <2>3, Numbers DEF Ahead
  <2>7. Stray(p)' /\ Placed(p)'
    BY <2>1, <2>2, <2>6 DEF Stray, Placed, Owns
  <2> QED
    BY <1>1, <2>2, <2>4, <2>5, <2>7, OthersCount
       DEF Counted, CountInv, CountedOncePerEviction
<1>4. CASE Poll(p)
  <2>1. PICK n \in 0..MaxRecords : proc' = [proc EXCEPT ![p].fetched = n]
    BY <1>4, PollFetches
  <2>2. /\ Others(p) /\ proc'[p].at = proc[p].at /\ proc'[p].member = proc[p].member
        /\ proc'[p].position = proc[p].position /\ proc'[p].off = proc[p].off
        /\ proc'[p].short = proc[p].short /\ proc'[p].long = proc[p].long
    BY <2>1, PollMoves
  <2>3. proc[p].at = "poll" /\ proc[p].member /\ owner = p
    BY <1>4 DEF Poll, Polling, Owns
  <2>4. Bounded(p)'
    BY <1>1, <1>2, <2>2 DEF Counted, Bounded
  <2>5. Deliverable(p)'
    BY <1>1, <1>2, <2>2 DEF Counted, Deliverable, Owns, Done
  <2>6. Stray(p)' /\ Placed(p)'
    BY <1>1, <2>2, <2>3 DEF Stray, Placed
  <2> QED
    BY <1>1, <2>2, <2>4, <2>5, <2>6, OthersCount
       DEF Counted, CountInv, CountedOncePerEviction
<1> QED
  BY <1>3, <1>4

\* What p takes in hand may be counted once more.
LEMMA TakeCount ==
  ASSUME TypeInv, CommitInv, CountInv, NEW p \in Processor, Take(p)
  PROVE  CountInv'
<1> DEFINE i == proc[p].position + 1
<1>1. /\ committed' = committed /\ owner' = owner /\ memory' = memory
      /\ evictions' = evictions /\ feature' = feature
      /\ proc[p].at = "poll" /\ proc[p].position < proc[p].fetched
  BY DEF Take
<1>2. i \in 1..Len(topic) /\ i \in 0..MaxRecords /\ i <= proc[p].fetched
  BY TakeFacts
<1>3. \/ proc' = [proc EXCEPT ![p].position = i]
      \/ proc' = [proc EXCEPT ![p].position = i, ![p].at = "apply", ![p].off = i]
  BY TakeFacts
<1>4. /\ Counted(p) /\ proc[p].position \in Nat /\ proc[p].fetched \in Nat
  BY Ranges DEF CountInv
<1>5. proc[p].member => owner = p
  BY <1>1, <1>4 DEF Counted, Placed, Polling
<1>6. Owns(p) => committed < i
  <2>1. Owns(p) => committed <= proc[p].position
    BY DEF CommitInv, OwnerSettles
  <2> QED
    BY <1>4, <2>1, Ranges
<1>7. i = proc[p].position + 1
  OBVIOUS
<1> HIDE DEF i
<1>8. /\ Others(p) /\ proc'[p].position = i /\ proc'[p].member = proc[p].member
      /\ proc'[p].fetched = proc[p].fetched
      /\ proc'[p].short = proc[p].short /\ proc'[p].long = proc[p].long
      /\ proc'[p].at = "poll" \/ (proc'[p].at = "apply" /\ proc'[p].off = i)
  BY <1>1, <1>2, <1>3, TakeMoves, PassMoves
<1>9. Bounded(p)'
  BY <1>1, <1>4, <1>8 DEF Counted, Bounded
<1>10. Deliverable(p)'
  <2> SUFFICES ASSUME NEW j \in Offset, j > committed, ~(Owns(p)' /\ Done(p, j)')
               PROVE  memory[p][j] <= evictions
    BY <1>1 DEF Deliverable
  <2>1. Owns(p)' <=> Owns(p)
    BY <1>1, <1>8 DEF Owns
  <2>2. ~(Owns(p) /\ Done(p, j))
    <3> SUFFICES ASSUME Owns(p), Done(p, j) PROVE FALSE
      OBVIOUS
    <3>1. j <= proc[p].position /\ ~Done(p, j)'
      BY <2>1 DEF Done
    <3> QED
      BY <1>4, <1>7, <1>8, <3>1, Numbers DEF Done
  <2> QED
    BY <1>4, <2>2 DEF Counted, Deliverable
<1>11. Stray(p)'
  <2> SUFFICES ASSUME ~proc[p].member, NEW j \in Offset, Ahead(p, j)'
               PROVE  memory[p][j] < evictions
    BY <1>1, <1>8 DEF Stray
  <2>1. Ahead(p, j)
    BY <1>1, <1>2, <1>4, <1>7, <1>8, Numbers DEF Ahead
  <2> QED
    BY <1>4, <2>1 DEF Counted, Stray
<1>12. Placed(p)'
  BY <1>1, <1>5, <1>6, <1>8 DEF Placed, Owns
<1> QED
  BY <1>1, <1>8, <1>9, <1>10, <1>11, <1>12, OthersCount
     DEF Counted, CountInv, CountedOncePerEviction

\* Dropping old records and picking a window add nothing to a count.
LEMMA NoMore ==
  ASSUME NEW m \in Count, NEW c, NEW d, NEW j \in Offset
  PROVE  Kept(m, c)[j] <= m[j] /\ Since(m, c, d)[j] <= m[j]
BY DEF Kept, Since, Count

LEMMA ApplyCount ==
  ASSUME TypeInv, CommitInv, CountInv, NEW p \in Processor, Apply(p)
  PROVE  CountInv'
<1> DEFINE i == proc[p].off
           m == [memory[p] EXCEPT ![i] = @ + 1]
<1>1. /\ committed' = committed /\ owner' = owner
      /\ evictions' = evictions /\ feature' = feature
      /\ proc[p].at = "apply" /\ Counted(p)
  BY DEF Apply, CountInv
<1>2. /\ Others(p) /\ proc'[p].at = "write" /\ proc'[p].member = proc[p].member
      /\ proc'[p].position = proc[p].position /\ proc'[p].fetched = proc[p].fetched
      /\ proc'[p].off = i
      /\ proc'[p].short = Since(Listed(p), Cust(p), day - Short)
      /\ proc'[p].long = Since(Listed(p), Cust(p), day - Long)
  BY ApplyMoves
<1>3. /\ i \in Offset /\ i = proc[p].position /\ memory[p] \in Count
  BY <1>1, CustType DEF TypeInv, TypeOK, Shaped, Busy
<1>4. m \in Count /\ \A j \in Offset : m[j] = IF j = i THEN memory[p][i] + 1
                                              ELSE memory[p][j]
  <2>1. m \in Count
    BY <1>3, OneMore
  <2>2. memory[p] \in [Offset -> Nat]
    BY <1>3 DEF Count
  <2> QED
    BY <1>3, <2>1, <2>2
<1>5. Listed(p) = Kept(m, Cust(p)) /\ Listed(p) \in Count
  BY ApplyFacts DEF Listed
<1>6. memory'[p] = Listed(p) /\ \A x \in Processor : x # p => memory'[x] = memory[x]
  BY ApplyFacts DEF TypeInv, TypeOK
<1> HIDE DEF m
<1>7. \A j \in Offset : Listed(p)[j] <= m[j]
  BY <1>4, <1>5, NoMore
<1>8. proc[p].member => owner = p
  BY <1>1 DEF Counted, Placed, Polling
<1>9. memory[p][i] <= evictions /\ (~proc[p].member => memory[p][i] < evictions)
  <2>1. CASE proc[p].member
    <3>1. Owns(p) /\ committed < i
      BY <1>1, <1>3, <1>8, <2>1 DEF Owns, Counted, Placed
    <3>2. i > committed
      BY <1>3, <3>1, Numbers
    <3>3. ~Done(p, i)
      BY <1>1 DEF Done
    <3> QED
      BY <1>1, <1>3, <2>1, <3>2, <3>3 DEF Counted, Deliverable
  <2>2. CASE ~proc[p].member
    <3>1. memory[p][i] < evictions
      BY <1>1, <1>3, <2>2 DEF Counted, Stray, Ahead
    <3> QED
      BY <1>3, <2>2, <3>1, Numbers
  <2> QED
    BY <2>1, <2>2
<1> HIDE DEF i
<1>10. \A j \in Offset : Listed(p)[j] \in Nat /\ m[j] \in Nat
  BY <1>4, <1>5 DEF Count
<1>11. \A j \in Offset : Listed(p)[j] <= 1 + evictions
  <2> TAKE j \in Offset
  <2>1. m[j] <= 1 + evictions
    <3>1. memory[p][j] <= 1 + evictions
      BY <1>1 DEF Counted, Bounded
    <3> QED
      BY <1>3, <1>4, <1>9, <3>1, Numbers
  <2> QED
    BY <1>7, <1>10, <2>1, Numbers
<1>12. Bounded(p)'
  <2> SUFFICES ASSUME NEW j \in Offset
               PROVE  /\ Listed(p)[j] <= 1 + evictions
                      /\ proc'[p].short[j] <= 1 + evictions
                      /\ proc'[p].long[j] <= 1 + evictions
    BY <1>1, <1>6 DEF Bounded
  <2>1. /\ proc'[p].short[j] <= Listed(p)[j] /\ proc'[p].short[j] \in Nat
        /\ proc'[p].long[j] <= Listed(p)[j] /\ proc'[p].long[j] \in Nat
    <3>1. /\ Since(Listed(p), Cust(p), day - Short) \in Count
          /\ Since(Listed(p), Cust(p), day - Long) \in Count
      BY ApplyFacts
    <3> QED
      BY <1>2, <1>5, <3>1, NoMore DEF Count
  <2> QED
    BY <1>10, <1>11, <2>1, Numbers
<1>13. Deliverable(p)'
  <2> SUFFICES ASSUME NEW j \in Offset, j > committed, ~(Owns(p)' /\ Done(p, j)')
               PROVE  Listed(p)[j] <= evictions
    BY <1>1, <1>6 DEF Deliverable
  <2>1. Owns(p)' <=> Owns(p)
    BY <1>1, <1>2 DEF Owns
  <2>2. CASE j = i
    <3>1. Done(p, j)'
      BY <1>2, <1>3, <2>2, Ranges DEF Done
    <3>2. ~proc[p].member
      BY <1>8, <2>1, <3>1 DEF Owns
    <3>3. memory[p][i] + 1 <= evictions
      BY <1>3, <1>9, <3>2, Numbers
    <3> QED
      BY <1>3, <1>4, <1>7, <1>10, <2>2, <3>3, Numbers
  <2>3. CASE j # i
    <3>1. ~(Owns(p) /\ Done(p, j))
      BY <1>2, <2>1, <2>3 DEF Done
    <3>2. memory[p][j] <= evictions
      BY <1>1, <3>1 DEF Counted, Deliverable
    <3> QED
      BY <1>4, <1>7, <1>10, <2>3, <3>2, Numbers
  <2> QED
    BY <2>2, <2>3
<1>14. Stray(p)'
  <2> SUFFICES ASSUME ~proc[p].member, NEW j \in Offset, Ahead(p, j)'
               PROVE  Listed(p)[j] < evictions
    BY <1>1, <1>2, <1>6 DEF Stray
  <2>1. proc[p].position < j /\ j <= proc[p].fetched
    BY <1>2 DEF Ahead
  <2>2. j # i
    BY <1>3, <2>1, Ranges
  <2>3. memory[p][j] < evictions
    BY <1>1, <2>1 DEF Counted, Stray, Ahead
  <2> QED
    BY <1>4, <1>7, <1>10, <2>2, <2>3, Numbers
<1>15. Placed(p)'
  BY <1>1, <1>2, <1>8 DEF Placed
<1> QED
  BY <1>1, <1>2, <1>6, <1>12, <1>13, <1>14, <1>15, OthersCount
     DEF Counted, CountInv, CountedOncePerEviction

LEMMA WriteCount ==
  ASSUME TypeInv, CountInv, NEW p \in Processor, Write(p)
  PROVE  CountInv'
<1>1. /\ committed' = committed /\ owner' = owner /\ memory' = memory
      /\ evictions' = evictions /\ proc[p].at = "write" /\ Counted(p)
  BY DEF Write, CountInv
<1>2. /\ Others(p) /\ proc'[p].at = "expire" /\ proc'[p].member = proc[p].member
      /\ proc'[p].position = proc[p].position /\ proc'[p].fetched = proc[p].fetched
      /\ proc'[p].off = proc[p].off /\ proc'[p].short = Zero /\ proc'[p].long = Zero
  BY WriteMoves
<1>3. Bounded(p)'
  <2> SUFFICES ASSUME NEW j \in Offset
               PROVE  memory[p][j] <= 1 + evictions /\ Zero[j] <= 1 + evictions
    BY <1>1, <1>2 DEF Bounded
  <2> QED
    BY <1>1, Numbers DEF Counted, Bounded, Zero
<1>4. Deliverable(p)'
  BY <1>1, <1>2 DEF Counted, Deliverable, Owns, Done
<1>5. Stray(p)'
  BY <1>1, <1>2 DEF Counted, Stray, Ahead
<1>6. Placed(p)'
  BY <1>1, <1>2 DEF Counted, Placed, Polling
<1>7. CountedOncePerEviction'
  <2>1. Cust(p) \in Customer
    BY <1>1, CustType DEF Busy
  <2>2. feature' = [feature EXCEPT ![Cust(p)] = Written(p)]
    BY <2>1 DEF Write, Written, TypeInv, TypeOK
  <2> SUFFICES ASSUME NEW c \in Customer, NEW j \in Offset
               PROVE  /\ feature'[c].short[j] <= 1 + evictions
                      /\ feature'[c].long[j] <= 1 + evictions
    BY <1>1 DEF CountedOncePerEviction
  <2>3. CASE c = Cust(p)
    <3>1. feature'[c] = Written(p)
      BY <2>2, <2>3 DEF TypeInv, TypeOK
    <3>2. feature'[c].short = proc[p].short /\ feature'[c].long = proc[p].long
      BY <3>1 DEF Written
    <3> QED
      BY <1>1, <3>2 DEF Counted, Bounded
  <2>4. CASE c # Cust(p)
    <3>1. feature'[c] = feature[c]
      BY <2>2, <2>4 DEF TypeInv, TypeOK
    <3> QED
      BY <3>1 DEF CountInv, CountedOncePerEviction
  <2> QED
    BY <2>3, <2>4
<1> QED
  BY <1>1, <1>2, <1>3, <1>4, <1>5, <1>6, <1>7, OthersCount DEF Counted

LEMMA ExpireCount ==
  ASSUME TypeInv, CountInv, NEW p \in Processor, Expire(p)
  PROVE  CountInv'
<1>1. /\ committed' = committed /\ owner' = owner /\ memory' = memory
      /\ evictions' = evictions /\ proc[p].at = "expire" /\ Counted(p)
  BY DEF Expire, CountInv
<1>2. /\ Others(p) /\ proc'[p].at = "poll" /\ proc'[p].member = proc[p].member
      /\ proc'[p].position = proc[p].position /\ proc'[p].fetched = proc[p].fetched
      /\ proc'[p].short = proc[p].short /\ proc'[p].long = proc[p].long
  BY ExpireMoves
<1>3. Bounded(p)'
  BY <1>1, <1>2 DEF Counted, Bounded
<1>4. Deliverable(p)'
  BY <1>1, <1>2 DEF Counted, Deliverable, Owns, Done
<1>5. Stray(p)'
  BY <1>1, <1>2 DEF Counted, Stray, Ahead
<1>6. Placed(p)'
  BY <1>1, <1>2 DEF Counted, Placed, Polling
<1>7. CountedOncePerEviction'
  <2>1. Cust(p) \in Customer
    BY <1>1, CustType DEF Busy
  <2>2. feature \in [Customer -> FeatureState]
    BY DEF TypeInv, TypeOK
  <2>3. \A c \in Customer : /\ feature'[c].short = feature[c].short
                            /\ feature'[c].long = feature[c].long
    BY <2>1, <2>2 DEF Expire, FeatureState
  <2> QED
    BY <1>1, <2>3 DEF CountInv, CountedOncePerEviction
<1> QED
  BY <1>1, <1>2, <1>3, <1>4, <1>5, <1>6, <1>7, OthersCount DEF Counted

\* What is counted does not depend on commits that move forward.
LEMMA AutoCommitCount ==
  ASSUME TypeInv, CommitInv, CountInv, NEW p \in Processor, AutoCommit(p)
  PROVE  CountInv'
<1>1. /\ owner = p /\ Owns(p) /\ Polling(p) /\ committed' = proc[p].position
      /\ owner' = owner /\ proc' = proc /\ memory' = memory
      /\ evictions' = evictions /\ feature' = feature
  BY DEF AutoCommit, Owns
<1>2. committed <= committed' /\ committed' \in Nat /\ committed \in Nat
  BY <1>1, Ranges DEF CommitInv, OwnerSettles
<1>3. ASSUME NEW x \in Processor, x # p PROVE Counted(x)'
  BY <1>1, <1>2, <1>3, RestCount DEF Owns
<1>4. Counted(p)'
  <2>1. Counted(p) /\ proc[p].at = "poll"
    BY <1>1 DEF CountInv, Polling
  <2>2. Deliverable(p)'
    <3> SUFFICES ASSUME NEW i \in Offset, i > committed', ~(Owns(p) /\ Done(p, i))
                 PROVE  memory[p][i] <= evictions
      BY <1>1 DEF Deliverable, Owns, Done
    <3>1. i > committed
      BY <1>2, Numbers
    <3> QED
      BY <2>1, <3>1 DEF Counted, Deliverable
  <2>3. Bounded(p)' /\ Stray(p)' /\ Placed(p)'
    BY <1>1, <2>1 DEF Counted, Bounded, Stray, Ahead, Placed, Polling
  <2> QED
    BY <2>2, <2>3 DEF Counted
<1> QED
  BY <1>1, <1>3, <1>4 DEF CountInv, CountedOncePerEviction

\* A processor that is down has counted nothing and owns nothing.
LEMMA DownCounted ==
  ASSUME TypeInv, NEW p \in Processor, proc'[p] = Down, memory'[p] = Zero,
         evictions' \in Nat
  PROVE  Counted(p)'
<1>1. /\ proc'[p].at = "down" /\ ~proc'[p].member /\ proc'[p].position = 0
      /\ proc'[p].fetched = 0 /\ proc'[p].short = Zero /\ proc'[p].long = Zero
  BY DEF Down
<1>2. \A i \in Offset : Zero[i] = 0
  BY DEF Zero
<1>3. Bounded(p)' /\ Deliverable(p)'
  BY <1>1, <1>2 DEF Bounded, Deliverable
<1>4. \A i \in Offset : ~Ahead(p, i)'
  BY <1>1 DEF Ahead, Offset
<1>5. Stray(p)' /\ Placed(p)'
  BY <1>1, <1>4 DEF Stray, Placed, Owns
<1> QED
  BY <1>3, <1>5 DEF Counted

LEMMA DownCount ==
  ASSUME TypeInv, CommitInv, CountInv, NEW p \in Processor, Stop(p) \/ Kill(p)
  PROVE  CountInv'
<1>1. /\ Others(p) /\ proc'[p] = Down
  BY DownMoves
<1>2. /\ memory'[p] = Zero /\ \A x \in Processor : x # p => memory'[x] = memory[x]
      /\ evictions' = evictions /\ feature' = feature
  BY DEF Stop, Kill, TypeInv, TypeOK
<1>3. evictions \in Nat
  BY StreamAssumption DEF TypeInv, TypeOK
<1>4. \/ owner' = owner /\ committed' = committed
      \/ owner = p /\ owner' = NoProcessor /\ committed' = proc[p].position /\ Owns(p)
  BY DEF Stop, Kill, Owns
<1>5. committed' \in Nat /\ committed <= committed'
  BY <1>4, Ranges DEF CommitInv, OwnerSettles
<1>6. ASSUME NEW x \in Processor, x # p PROVE Counted(x)'
  <2>1. /\ Owns(x) => owner' = x
        /\ owner' = x => owner = x /\ committed' = committed
    BY <1>4, <1>6, StreamAssumption DEF Owns
  <2> QED
    BY <1>1, <1>2, <1>5, <1>6, <2>1, RestCount DEF Others
<1>7. Counted(p)'
  BY <1>1, <1>2, <1>3, DownCounted
<1> QED
  BY <1>2, <1>6, <1>7 DEF CountInv, CountedOncePerEviction

LEMMA EvictCount ==
  ASSUME TypeInv, CommitInv, CountInv, NEW p \in Processor, Evict(p)
  PROVE  CountInv'
<1>1. /\ owner = p /\ Owns(p) /\ proc[p].at \in Busy /\ owner' = NoProcessor
      /\ committed' = committed /\ memory' = memory /\ feature' = feature
      /\ evictions' = evictions + 1 /\ Counted(p)
  BY DEF Evict, Owns, Busy, CountInv
<1>2. /\ Others(p) /\ proc'[p].member = FALSE /\ proc'[p].at = proc[p].at
      /\ proc'[p].position = proc[p].position /\ proc'[p].fetched = proc[p].fetched
      /\ proc'[p].off = proc[p].off
      /\ proc'[p].short = proc[p].short /\ proc'[p].long = proc[p].long
  BY EvictMoves
<1>3. evictions \in Nat /\ committed \in Nat /\ proc[p].position \in Nat
  BY Ranges, StreamAssumption DEF TypeInv, TypeOK
<1>4. ASSUME NEW x \in Processor, x # p PROVE Counted(x)'
  <2>1. /\ Owns(x) => owner' = x
        /\ owner' = x => owner = x /\ committed' = committed
    BY <1>1, <1>4, StreamAssumption DEF Owns
  <2> QED
    BY <1>1, <1>2, <1>3, <1>4, <2>1, RestCount DEF Others
<1>5. Bounded(p)'
  BY <1>1, <1>2, <1>3, Numbers DEF Counted, Bounded
<1>6. Deliverable(p)'
  BY <1>1, <1>3, Numbers DEF Counted, Bounded, Deliverable
<1>7. Stray(p)'
  <2> SUFFICES ASSUME NEW i \in Offset, Ahead(p, i)
               PROVE  memory[p][i] < evictions + 1
    BY <1>1, <1>2 DEF Stray, Ahead
  <2>1. i > committed /\ ~Done(p, i)
    <3>1. committed <= proc[p].position
      BY <1>1 DEF CommitInv, OwnerSettles
    <3>2. CASE proc[p].position < i
      BY <1>3, <3>1, <3>2, Numbers DEF Done
    <3>3. CASE proc[p].at = "apply" /\ i = proc[p].off
      <4>1. i = proc[p].position /\ committed < proc[p].position
        BY <1>1, <3>3 DEF TypeInv, Shaped, Busy, Counted, Placed
      <4> QED
        BY <1>3, <3>3, <4>1 DEF Done
    <3> QED
      BY <3>2, <3>3 DEF Ahead
  <2>2. memory[p][i] <= evictions
    BY <1>1, <2>1 DEF Counted, Deliverable
  <2> QED
    BY <2>2, Numbers
<1>8. Placed(p)'
  BY <1>1, <1>2, StreamAssumption DEF Placed, Busy, Owns
<1>9. CountedOncePerEviction'
  <2> SUFFICES ASSUME NEW c \in Customer, NEW i \in Offset
               PROVE  /\ feature[c].short[i] <= 1 + (evictions + 1)
                      /\ feature[c].long[i] <= 1 + (evictions + 1)
    BY <1>1 DEF CountedOncePerEviction
  <2>1. feature[c].short[i] <= 1 + evictions /\ feature[c].long[i] <= 1 + evictions
    BY DEF CountInv, CountedOncePerEviction
  <2>2. feature[c].short[i] \in Nat /\ feature[c].long[i] \in Nat
    <3>1. feature[c] \in FeatureState
      BY DEF TypeInv, TypeOK
    <3> QED
      BY <3>1 DEF FeatureState, Count
  <2> QED
    BY <1>3, <2>1, <2>2
<1> QED
  BY <1>4, <1>5, <1>6, <1>7, <1>8, <1>9 DEF CountInv, Counted

\* A record nobody owns as done is still to be counted by the new owner.
LEMMA AssignedCount ==
  ASSUME TypeInv, CountInv, NEW P \in [Processor -> ProcState], NEW q \in Processor,
         owner' = q, proc' = Assigned(P, q, committed'), committed' \in 0..MaxRecords,
         committed <= committed', memory' = memory, evictions' = evictions,
         feature' = feature,
         NEW p \in Processor, P[p].at = "poll", P[p].member,
         P[p].position = P[p].fetched, P[p].off = proc[p].off,
         P[p].short = proc[p].short, P[p].long = proc[p].long,
         P[q].at = "poll", P[q].member,
         \A x \in Processor : x # p => P[x] = proc[x],
         \A x \in Processor : Owns(x) => Polling(x) /\ committed' = proc[x].position
  PROVE  CountInv'
<1>1. committed \in Nat /\ committed' \in Nat
  BY Ranges, StreamAssumption
<1>2. ASSUME NEW x \in Processor PROVE Counted(x)'
  <2>1. /\ proc'[x].position = (IF x = q THEN committed' ELSE P[x].position)
        /\ proc'[x].fetched = (IF x = q THEN committed' ELSE P[x].fetched)
        /\ proc'[x].at = P[x].at /\ proc'[x].member = P[x].member
        /\ proc'[x].off = P[x].off
        /\ proc'[x].short = P[x].short /\ proc'[x].long = P[x].long
    BY AssignMoves
  <2>2. Counted(x)
    BY DEF CountInv
  <2>3. proc'[x].short = proc[x].short /\ proc'[x].long = proc[x].long
    BY <2>1
  <2>4. Bounded(x)'
    BY <2>2, <2>3 DEF Counted, Bounded
  <2>5. ASSUME NEW i \in Offset, i > committed' PROVE memory[x][i] <= evictions
    <3>1. i > committed
      BY <1>1, <2>5, Numbers
    <3>2. ~(Owns(x) /\ Done(x, i))
      BY <1>1, <2>5, Numbers, Ranges DEF Done
    <3> QED
      BY <2>2, <3>1, <3>2 DEF Counted, Deliverable
  <2>6. Deliverable(x)'
    BY <2>5 DEF Deliverable
  <2>7. CASE x = q \/ x = p
    <3>1. proc'[x].at = "poll" /\ proc'[x].member
      BY <2>1, <2>7
    <3>2. proc'[x].position = proc'[x].fetched
      BY <2>1, <2>7
    <3>3. Stray(x)' /\ Placed(x)'
      BY <3>1, <3>2 DEF Stray, Placed, Polling
    <3> QED
      BY <2>4, <2>6, <3>3 DEF Counted
  <2>8. CASE x # q /\ x # p
    <3>1. /\ proc'[x].position = proc[x].position
          /\ proc'[x].fetched = proc[x].fetched
          /\ proc'[x].at = proc[x].at /\ proc'[x].member = proc[x].member
          /\ proc'[x].off = proc[x].off
      BY <2>1, <2>8
    <3>2. Stray(x)'
      BY <2>2, <3>1 DEF Counted, Stray, Ahead
    <3>3. proc[x].member => Polling(x)
      BY <2>2 DEF Counted, Placed, Owns
    <3>4. Placed(x)'
      BY <2>2, <2>8, <3>1, <3>3 DEF Counted, Placed, Polling, Owns
    <3> QED
      BY <2>4, <2>6, <3>2, <3>4 DEF Counted
  <2> QED
    BY <2>7, <2>8
<1> QED
  BY <1>2 DEF CountInv, CountedOncePerEviction

LEMMA JoinCount ==
  ASSUME TypeInv, CommitInv, CountInv, NEW p \in Processor, Join(p)
  PROVE  CountInv'
<1>1. PICK q \in Processor : /\ q = p \/ (Polling(q) /\ proc[q].member)
                             /\ owner' = q
                             /\ proc' = Assigned(Joined(p), q, committed')
  BY DEF Join, Joined
<1>2. /\ Joined(p) \in [Processor -> ProcState]
      /\ \A x \in Processor : x # p => Joined(p)[x] = proc[x]
      /\ Joined(p)[p].at = "poll" /\ Joined(p)[p].member
      /\ Joined(p)[p].position = Joined(p)[p].fetched
      /\ Joined(p)[p].off = proc[p].off
      /\ Joined(p)[p].short = proc[p].short /\ Joined(p)[p].long = proc[p].long
  BY JoinMoves
<1>3. Joined(p)[q].at = "poll" /\ Joined(p)[q].member
  BY <1>1, <1>2 DEF Polling
<1>4. /\ memory' = memory /\ evictions' = evictions /\ feature' = feature
      /\ Held => Polling(owner)
      /\ committed' = IF Held THEN proc[owner].position ELSE committed
  BY DEF Join
<1>5. \A x \in Processor : Owns(x) => Polling(x) /\ committed' = proc[x].position
  BY <1>4 DEF Owns, Held
<1>6. committed <= committed'
  <2>1. CASE Held
    BY <1>4, <2>1 DEF Held, Owns, CommitInv, OwnerSettles
  <2>2. CASE ~Held
    BY <1>4, <2>2, Ranges
  <2> QED
    BY <2>1, <2>2
<1>7. committed' \in 0..MaxRecords
  <2>1. TypeInv'
    BY JoinType
  <2>2. Len(topic)' \in Nat /\ Len(topic)' <= MaxRecords /\ committed' \in 0..Len(topic)'
    BY <2>1 DEF TypeInv, TypeOK
  <2> QED
    BY <2>2, StreamAssumption
<1> QED
  BY <1>1, <1>2, <1>3, <1>4, <1>5, <1>6, <1>7, AssignedCount

LEMMA FailoverCount ==
  ASSUME TypeInv, CountInv, NEW q \in Processor, Failover(q)
  PROVE  CountInv'
<1>1. /\ owner' = q /\ committed' = committed /\ memory' = memory
      /\ evictions' = evictions /\ feature' = feature
      /\ proc' = Assigned(proc, q, committed')
      /\ proc[q].at = "poll" /\ proc[q].member
      /\ proc[q].position = proc[q].fetched
  BY DEF Failover, Polling
<1>2. proc \in [Processor -> ProcState] /\ committed' \in 0..MaxRecords
  <2>1. Len(topic) \in Nat /\ Len(topic) <= MaxRecords /\ committed \in 0..Len(topic)
    BY DEF TypeInv, TypeOK
  <2> QED
    BY <1>1, <2>1, StreamAssumption DEF TypeInv, TypeOK
<1>3. \A x \in Processor : ~Owns(x)
  BY DEF Failover, Held, Owns
<1>4. committed <= committed'
  BY <1>1, Ranges
<1> QED
  BY <1>1, <1>2, <1>3, <1>4, AssignedCount

LEMMA NextCount ==
  ASSUME TypeInv, CommitInv, CountInv, [Next]_vars
  PROVE  CountInv'
<1>1. CASE Publish \/ Tick \/ (\E c \in Customer : EvictKey(c)) \/ UNCHANGED vars
  BY <1>1, WorldCount
<1>2. ASSUME NEW p \in Processor, Start(p) PROVE CountInv'
  BY <1>2, IdleCount
<1>3. ASSUME NEW p \in Processor, Group(p) PROVE CountInv'
  BY <1>3, JoinCount, FailoverCount, AutoCommitCount, IdleCount DEF Group
<1>4. ASSUME NEW p \in Processor, Loop(p) PROVE CountInv'
  BY <1>4, IdleCount, TakeCount, ApplyCount, WriteCount, ExpireCount DEF Loop
<1>5. ASSUME NEW p \in Processor, Stop(p) \/ Kill(p) \/ Evict(p) PROVE CountInv'
  BY <1>5, DownCount, EvictCount
<1> QED
  BY <1>1, <1>2, <1>3, <1>4, <1>5 DEF Next

LEMMA InitCount ==
  Init => CountInv
<1> SUFFICES ASSUME Init PROVE CountInv
  OBVIOUS
<1>1. \A i \in Offset : Zero[i] = 0
  BY DEF Zero
<1>2. /\ evictions = 0 /\ \A p \in Processor : proc[p] = Down /\ memory[p] = Zero
  BY DEF Init
<1>3. CountedOncePerEviction
  BY <1>1, <1>2 DEF Init, NoKey, CountedOncePerEviction
<1>4. ASSUME NEW p \in Processor PROVE Counted(p)
  <2>1. Bounded(p) /\ Deliverable(p)
    BY <1>1, <1>2 DEF Down, Bounded, Deliverable
  <2>2. \A i \in Offset : ~Ahead(p, i)
    BY <1>2 DEF Down, Ahead, Offset
  <2>3. Stray(p) /\ Placed(p)
    BY <1>2, <2>2 DEF Down, Stray, Placed, Owns
  <2> QED
    BY <2>1, <2>3 DEF Counted
<1> QED
  BY <1>3, <1>4 DEF CountInv

\* However often records are delivered again to however many processors, a
\* feature counts a transaction at most once more than there were evictions.
THEOREM CountedOnce ==
  Spec => []CountedOncePerEviction
<1>1. Init => CommitInv
  <2> SUFFICES ASSUME Init PROVE CommitInv
    OBVIOUS
  <2>1. committed = 0 /\ owner = NoProcessor
    BY DEF Init
  <2> QED
    BY <2>1, StreamAssumption DEF CommitInv, CommittedIsApplied, OwnerSettles, Owns
<1>2. CountInv => CountedOncePerEviction
  BY DEF CountInv
<1> QED
  BY <1>1, <1>2, InitCount, NextCommit, NextCount, AlwaysType, PTL DEF Spec

-----------------------------------------------------------------------------
(* Keys without expiry.                                                    *)

\* Processor p is about to set the expiry of the key of customer c.
Expiring(p, c) == proc[p].at = "expire" /\ Cust(p) = c

\* The customers whose key has no expiry and nobody about to set one.
Bare == {c \in Customer : /\ feature[c].until = Never
                          /\ \A p \in Processor : ~Expiring(p, c)}

KeysInv == IsFiniteSet(Bare) /\ Cardinality(Bare) <= faults

\* Who does not move goes on setting its expiry.
LEMMA OthersExpire ==
  ASSUME TypeInv, NEW p \in Processor, Others(p), topic' = topic,
         NEW x \in Processor, x # p, NEW c, Expiring(x, c)
  PROVE  Expiring(x, c)'
<1>1. proc'[x] = proc[x]
  BY DEF Others
<1> QED
  BY <1>1 DEF Expiring, Cust

\* No key is bared by a step that writes none and takes nobody from its EXPIRE.
LEMMA QuietKeys ==
  ASSUME UNCHANGED feature,
         \A x \in Processor, c \in Customer : Expiring(x, c) => Expiring(x, c)'
  PROVE  Bare' \subseteq Bare
  BY DEF Bare

LEMMA JoinKeys ==
  ASSUME TypeInv, NEW q \in Processor, Join(q) \/ Failover(q)
  PROVE  Bare' \subseteq Bare
<1>1. proc \in [Processor -> ProcState] /\ committed \in 0..MaxRecords
  <2>1. Len(topic) \in Nat /\ Len(topic) <= MaxRecords /\ committed \in 0..Len(topic)
    BY DEF TypeInv, TypeOK
  <2> QED
    BY <2>1, StreamAssumption DEF TypeInv, TypeOK
<1>2. UNCHANGED <<feature, topic>>
  BY DEF Join, Failover
<1>3. ASSUME NEW x \in Processor, proc[x].at = "expire"
      PROVE  proc'[x].at = "expire" /\ proc'[x].off = proc[x].off
  <2>1. CASE Failover(q)
    BY <1>1, <1>3, <2>1, AssignMoves DEF Failover
  <2>2. CASE Join(q)
    <3>1. PICK y \in Processor : proc' = Assigned(Joined(q), y, committed')
      BY <2>2 DEF Join, Joined
    <3>2. x # q
      BY <1>3, <2>2 DEF Join
    <3>3. Joined(q) \in [Processor -> ProcState] /\ Joined(q)[x] = proc[x]
      BY <3>2, JoinMoves
    <3>4. committed' \in 0..MaxRecords
      <4>1. CASE Held
        BY <2>2, <4>1, Fields DEF Join, Held, TypeInv
      <4>2. CASE ~Held
        BY <1>1, <2>2, <4>2 DEF Join
      <4> QED
        BY <4>1, <4>2
    <3>5. PICK n \in 0..MaxRecords : n = committed'
      BY <3>4
    <3>6. Assigned(Joined(q), y, n)[x].at = Joined(q)[x].at
            /\ Assigned(Joined(q), y, n)[x].off = Joined(q)[x].off
      BY <3>3, AssignMoves
    <3> QED
      BY <1>3, <3>1, <3>3, <3>5, <3>6
  <2> QED
    BY <2>1, <2>2
<1>4. \A x \in Processor, c \in Customer : Expiring(x, c) => Expiring(x, c)'
  BY <1>2, <1>3 DEF Expiring, Cust
<1> QED
  BY <1>2, <1>4, QuietKeys

\* Without a fault no key is left bare: what is written without an expiry is
\* about to get one.
LEMMA CleanKeys ==
  ASSUME TypeInv, [Next]_vars, \A p \in Processor : ~Stop(p) /\ ~Kill(p)
  PROVE  Bare' \subseteq Bare
<1>1. CASE UNCHANGED vars \/ Tick
  BY <1>1 DEF vars, Tick, Bare, Expiring, Cust
<1>2. CASE Publish
  <2>1. topic \in Seq(Record) /\ UNCHANGED <<feature, proc>>
    BY <1>2 DEF Publish, TypeInv, TypeOK
  <2>2. \A i \in 1..Len(topic) : topic'[i] = topic[i]
    <3>1. PICK r : topic' = Append(topic, r)
      BY <1>2 DEF Publish
    <3> QED
      BY <2>1, <3>1
  <2>3. ASSUME NEW x \in Processor, NEW c \in Customer, Expiring(x, c)
        PROVE  Expiring(x, c)'
    <3>1. proc[x].off \in 1..Len(topic)
      BY <2>3 DEF TypeInv, Shaped, Busy, Expiring
    <3> QED
      BY <2>1, <2>2, <2>3, <3>1 DEF Expiring, Cust
  <2> QED
    BY <2>1, <2>3, QuietKeys
<1>3. ASSUME NEW p \in Processor, Others(p), proc[p].at # "expire",
             UNCHANGED <<topic, feature>>
      PROVE  Bare' \subseteq Bare
  <2>1. ASSUME NEW x \in Processor, NEW c \in Customer, Expiring(x, c)
        PROVE  Expiring(x, c)'
    BY <1>3, <2>1, OthersExpire DEF Expiring
  <2> QED
    BY <1>3, <2>1, QuietKeys
<1>4. ASSUME NEW p \in Processor, Start(p) \/ Rejoin(p) PROVE Bare' \subseteq Bare
  BY <1>3, <1>4, JoinerMoves DEF Start, Rejoin, Up, Polling
<1>5. ASSUME NEW p \in Processor, Join(p) \/ Failover(p) PROVE Bare' \subseteq Bare
  BY <1>5, JoinKeys
<1>6. ASSUME NEW p \in Processor, AutoCommit(p) PROVE Bare' \subseteq Bare
  BY <1>6 DEF AutoCommit, Bare, Expiring, Cust
<1>7. ASSUME NEW p \in Processor, Poll(p) PROVE Bare' \subseteq Bare
  <2>1. PICK n \in 0..MaxRecords : proc' = [proc EXCEPT ![p].fetched = n]
    BY <1>7, PollFetches
  <2> QED
    BY <1>3, <1>7, <2>1, PollMoves DEF Poll, Polling
<1>8. ASSUME NEW p \in Processor, Take(p) PROVE Bare' \subseteq Bare
  <2>1. Others(p)
    BY <1>8 DEF Take, Others, TypeInv, TypeOK
  <2> QED
    BY <1>3, <1>8, <2>1 DEF Take
<1>9. ASSUME NEW p \in Processor, Apply(p) PROVE Bare' \subseteq Bare
  BY <1>3, <1>9, ApplyMoves DEF Apply
<1>10. ASSUME NEW p \in Processor, Write(p) PROVE Bare' \subseteq Bare
  <2>1. proc[p].at = "write" /\ topic' = topic /\ Cust(p) \in Customer
    BY <1>10, CustType DEF Write, Busy
  <2>2. Others(p) /\ Expiring(p, Cust(p))' /\ Cust(p)' = Cust(p)
    BY <1>10, <2>1, WriteMoves DEF Expiring, Cust
  <2>3. ASSUME NEW c \in Bare', c # Cust(p) PROVE c \in Bare
    <3>1. c \in Customer /\ feature'[c].until = Never
            /\ \A x \in Processor : ~Expiring(x, c)'
      BY DEF Bare
    <3>2. feature'[c] = feature[c]
      BY <1>10, <2>1, <2>3, <3>1 DEF Write, TypeInv, TypeOK
    <3>3. \A x \in Processor : x # p => ~Expiring(x, c)
      BY <2>1, <2>2, <3>1, OthersExpire
    <3>4. ~Expiring(p, c)
      BY <2>1 DEF Expiring
    <3> QED
      BY <3>1, <3>2, <3>3, <3>4 DEF Bare
  <2>4. Cust(p) \notin Bare'
    <3>1. \E x \in Processor : proc'[x].at = "expire" /\ topic'[proc'[x].off].cust = Cust(p)
      BY <2>2 DEF Expiring, Cust
    <3> QED
      BY <3>1 DEF Bare, Expiring, Cust
  <2> QED
    BY <2>3, <2>4
<1>11. ASSUME NEW p \in Processor, Expire(p) PROVE Bare' \subseteq Bare
  <2>1. /\ proc[p].at = "expire" /\ topic' = topic /\ Cust(p) \in Customer
        /\ Others(p) /\ day \in Nat
    <3>1. proc[p].at = "expire" /\ topic' = topic /\ Others(p)
      BY <1>11, ExpireMoves DEF Expire
    <3>2. Cust(p) \in Customer
      BY <3>1, CustType DEF Busy
    <3>3. day \in Nat
      BY StreamAssumption DEF TypeInv, TypeOK
    <3> QED
      BY <3>1, <3>2, <3>3
  <2>2. feature'[Cust(p)].until # Never
    <3>1. feature[Cust(p)] \in FeatureState
      BY <2>1 DEF TypeInv, TypeOK
    <3>2. CASE Live(Cust(p))
      <4>1. feature'[Cust(p)].until = day + Ttl
        BY <1>11, <2>1, <3>1, <3>2 DEF Expire, TypeInv, TypeOK, FeatureState
      <4> QED
        BY <2>1, <4>1, StreamAssumption DEF Never
    <3>3. CASE ~Live(Cust(p))
      BY <1>11, <3>3 DEF Expire, Live
    <3> QED
      BY <3>2, <3>3
  <2>3. PICK d \in Customer : d = Cust(p)
    BY <2>1
  <2>4. ASSUME NEW c \in Customer, c # d, c \in Bare' PROVE c \in Bare
    <3>1. feature'[c].until = Never /\ \A x \in Processor : ~Expiring(x, c)'
      BY <2>4 DEF Bare
    <3>2. feature'[c] = feature[c]
      BY <1>11, <2>3, <2>4 DEF Expire, TypeInv, TypeOK
    <3>3. \A x \in Processor : x # p => ~Expiring(x, c)
      BY <2>1, <3>1, OthersExpire
    <3>4. ~Expiring(p, c)
      BY <2>3, <2>4 DEF Expiring
    <3> QED
      BY <3>1, <3>2, <3>3, <3>4 DEF Bare
  <2>5. d \notin Bare'
    BY <2>2, <2>3 DEF Bare
  <2>6. Bare' \subseteq Customer
    BY DEF Bare
  <2> QED
    BY <2>4, <2>5, <2>6
<1>12. ASSUME NEW p \in Processor, Evict(p) PROVE Bare' \subseteq Bare
  <2>1. UNCHANGED <<topic, feature>> /\ Others(p)
          /\ proc'[p].at = proc[p].at /\ proc'[p].off = proc[p].off
    BY <1>12, EvictMoves DEF Evict
  <2>2. ASSUME NEW x \in Processor, NEW c \in Customer, Expiring(x, c)
        PROVE  Expiring(x, c)'
    BY <2>1, <2>2, OthersExpire DEF Expiring, Cust
  <2> QED
    BY <2>1, <2>2, QuietKeys
<1>13. ASSUME NEW d \in Customer, EvictKey(d) PROVE Bare' \subseteq Bare
  <2>1. UNCHANGED <<topic, proc>> /\ feature' = [feature EXCEPT ![d] = NoKey]
    BY <1>13 DEF EvictKey
  <2>2. NoKey.until # Never
    BY DEF NoKey, Never
  <2>3. ASSUME NEW c \in Customer, feature'[c].until = Never
        PROVE  feature[c].until = Never
    BY <2>1, <2>2, <2>3 DEF TypeInv, TypeOK
  <2> QED
    BY <2>1, <2>3 DEF Bare, Expiring, Cust
<1> QED
  BY <1>1, <1>2, <1>4, <1>5, <1>6, <1>7, <1>8, <1>9, <1>10, <1>11, <1>12, <1>13
     DEF Next, Group, Loop

\* A processor that stops bares the key it had in hand and no other.
LEMMA DownKeys ==
  ASSUME TypeInv, NEW p \in Processor, Stop(p) \/ Kill(p)
  PROVE  Bare' \subseteq Bare \cup {Cust(p)} /\ faults' = faults + 1
<1>1. UNCHANGED <<topic, feature>> /\ Others(p) /\ faults' = faults + 1
  BY DownMoves DEF Stop, Kill, Fails
<1>2. PICK d : d = Cust(p)
  OBVIOUS
<1>3. ASSUME NEW c \in Customer, c # d, c \in Bare' PROVE c \in Bare
  <2>1. feature'[c].until = Never /\ \A x \in Processor : ~Expiring(x, c)'
    BY <1>3 DEF Bare
  <2>2. \A x \in Processor : x # p => ~Expiring(x, c)
    BY <1>1, <2>1, OthersExpire
  <2>3. ~Expiring(p, c)
    BY <1>2, <1>3 DEF Expiring
  <2> QED
    BY <1>1, <2>1, <2>2, <2>3 DEF Bare
<1>4. Bare' \subseteq Customer
  BY DEF Bare
<1> QED
  BY <1>1, <1>2, <1>3, <1>4

LEMMA KeysStep ==
  ASSUME TypeInv, TypeInv', KeysInv, [Next]_vars
  PROVE  KeysInv'
<1>1. faults \in Nat /\ faults' \in Nat /\ Cardinality(Bare) \in Nat
  BY StreamAssumption, FS_CardinalityType DEF TypeInv, TypeOK, KeysInv
<1>2. faults <= faults'
  <2>1. faults' = faults \/ faults' = faults + 1
    BY DEF Next, vars, Publish, Tick, Group, Loop, Start, Join, Failover, AutoCommit,
           Rejoin, Poll, Take, Apply, Write, Expire, Stop, Kill, Evict, EvictKey, Fails
  <2> QED
    BY <1>1, <2>1
<1>3. CASE \A p \in Processor : ~Stop(p) /\ ~Kill(p)
  <2>1. PICK B : B = Bare'
    OBVIOUS
  <2>2. B \in SUBSET Bare
    BY <1>3, <2>1, CleanKeys
  <2>3. IsFiniteSet(B) /\ Cardinality(B) <= Cardinality(Bare)
    BY <2>2, FS_Subset DEF KeysInv
  <2>4. Cardinality(B) \in Nat
    BY <2>3, FS_CardinalityType
  <2> QED
    BY <1>1, <1>2, <2>1, <2>3, <2>4 DEF KeysInv
<1>4. ASSUME NEW p \in Processor, Stop(p) \/ Kill(p) PROVE KeysInv'
  <2>1. PICK B : B = Bare'
    OBVIOUS
  <2>2. PICK d : d = Cust(p)
    OBVIOUS
  <2>3. B \in SUBSET (Bare \cup {d}) /\ faults' = faults + 1
    BY <1>4, <2>1, <2>2, DownKeys
  <2>4. /\ IsFiniteSet(Bare \cup {d})
        /\ Cardinality(Bare \cup {d}) = IF d \in Bare THEN Cardinality(Bare)
                                        ELSE Cardinality(Bare) + 1
    BY FS_AddElement DEF KeysInv
  <2>5. IsFiniteSet(B) /\ Cardinality(B) <= Cardinality(Bare \cup {d})
    BY <2>3, <2>4, FS_Subset
  <2>6. Cardinality(B) \in Nat
    BY <2>5, FS_CardinalityType
  <2>7. Cardinality(B) <= faults'
    BY <1>1, <2>3, <2>4, <2>5, <2>6 DEF KeysInv
  <2> QED
    BY <2>1, <2>5, <2>7 DEF KeysInv
<1> QED
  BY <1>3, <1>4

\* For any number of processors, customers, records and faults of every kind: a
\* fault leaves at most one features key without expiry, and only a fault does
\* (HSET, then EXPIRE, in the loop of create_flink_job_local).
THEOREM FaultsBareKeys ==
  Spec => []KeysExpire
<1>1. Init => KeysInv
  <2> SUFFICES ASSUME Init PROVE KeysInv
    OBVIOUS
  <2>1. Bare = {}
    BY DEF Init, Bare, NoKey, Never
  <2>2. faults = 0
    BY DEF Init
  <2> QED
    BY <2>1, <2>2, FS_EmptySet DEF KeysInv
<1>2. KeysInv => KeysExpire
  <2>1. Bare = {c \in Customer : /\ feature[c].until = Never
                                 /\ \A p \in Processor :
                                      proc[p].at = "expire" => Cust(p) # c}
    BY DEF Bare, Expiring
  <2> QED
    BY <2>1 DEF KeysInv, KeysExpire
<1>3. TypeInv /\ TypeInv' /\ KeysInv /\ [Next]_vars => KeysInv'
  BY KeysStep
<1> QED
  BY <1>1, <1>2, <1>3, AlwaysType, PTL DEF Spec

-----------------------------------------------------------------------------
(* One processor that never fails implements RollingWindow: every write    *)
(* shows exactly the windows as of a record and a day.                     *)

Solo == (\A p, q \in Processor : p = q) /\ Fault = {}

-----------------------------------------------------------------------------
(* The invariant.                                                          *)

\* The last record that has been entered in the list.
Entered(p) == IF proc[p].at = "apply" THEN proc[p].position - 1 ELSE proc[p].position

\* Before it joins, a processor has seen nothing and nothing is committed.
Fresh(p) ==
  proc[p].at \in {"down", "join"} =>
    committed = 0 /\ owner = NoProcessor /\ proc[p].position = 0

\* A running processor is the owner.
Running(p) == proc[p].at \notin {"down", "join"} => Owns(p)

\* The list holds the customers' records up to the last one entered once each,
\* but for those that have left the long window.
Complete(p) ==
  \A i \in Offset :
    /\ memory[p][i] \in {0, 1}
    /\ i > Entered(p) => memory[p][i] = 0
    /\ (i <= Entered(p) /\ topic[i].cust \in Customer /\ memory[p][i] = 0) =>
         topic[i].at < day - Long

\* What is about to be written are the windows, and they are the latest.
Computed(p) ==
  proc[p].at = "write" =>
    /\ proc[p].short = Rolling!Window(Cust(p), proc[p].off, proc[p].asOf, Short)
    /\ proc[p].long = Rolling!Window(Cust(p), proc[p].off, proc[p].asOf, Long)
    /\ proc[p].asOf <= day
    /\ \A c \in Customer : feature[c].asOf <= proc[p].asOf

\* No features are ahead of the processor or the clock.
Behind(p) ==
  \A c \in Customer : feature[c].upto <= proc[p].position /\ feature[c].asOf <= day

Windowed(p) == Fresh(p) /\ Running(p) /\ Complete(p) /\ Computed(p) /\ Behind(p)
RollInv == \A p \in Processor : Windowed(p)

-----------------------------------------------------------------------------
(* Every step preserves it.                                                *)

\* Numbers that the arithmetic needs.
LEMMA Days ==
  ASSUME TypeInv, NEW p \in Processor
  PROVE  /\ day \in Nat /\ Long \in Nat /\ Short \in Nat /\ Short <= Long
         /\ proc[p].position \in Nat /\ proc[p].off \in Nat /\ proc[p].asOf \in Nat
         /\ Entered(p) \in Int /\ Entered(p) <= proc[p].position
         /\ proc[p].position <= Len(topic) /\ Len(topic) \in Nat /\ Len(topic) <= MaxRecords
         /\ MaxRecords \in Nat
<1>1. /\ proc[p].position \in 0..MaxRecords /\ proc[p].off \in 0..MaxRecords
      /\ proc[p].asOf \in 0..MaxDay
  BY Fields DEF TypeInv
<1>2. day \in 0..MaxDay /\ Len(topic) \in Nat /\ Len(topic) <= MaxRecords
  BY DEF TypeInv, TypeOK
<1>3. proc[p].position <= Len(topic)
  BY Ranges
<1>4. MaxRecords \in Nat /\ MaxDay \in Nat /\ Long \in Nat /\ Short \in Nat /\ Short <= Long
  BY StreamAssumption
<1> QED
  BY <1>1, <1>2, <1>3, <1>4 DEF Entered

\* The dates of records are numbers.
LEMMA Dates ==
  ASSUME TypeInv, NEW i \in 1..Len(topic)
  PROVE  topic[i].at \in Int /\ topic[i].cust \in Customer \cup {NoCustomer}
<1>1. topic \in Seq(Record)
  BY DEF TypeInv, TypeOK
<1>2. topic[i] \in Record
  BY <1>1
<1> QED
  BY <1>2 DEF Record

\* Records that were published stay.
LEMMA TopicStays ==
  ASSUME TypeInv, Publish, NEW i \in 1..Len(topic)
  PROVE  topic'[i] = topic[i]
<1>1. PICK b \in Customer \cup {NoCustomer}, e \in day - Back .. day :
        topic' = Append(topic, [cust |-> b, at |-> e])
  BY DEF Publish
<1>2. topic \in Seq(Record) /\ Len(topic) \in Nat
  BY DEF TypeInv, TypeOK
<1> QED
  BY <1>1, <1>2

LEMMA PublishRolls ==
  ASSUME TypeInv, RollInv, Publish
  PROVE  RollInv'
<1> SUFFICES ASSUME NEW p \in Processor PROVE Windowed(p)'
  BY DEF RollInv
<1>1. UNCHANGED <<day, committed, owner, proc, memory, feature>> /\ Windowed(p)
  BY DEF Publish, RollInv
<1>2. Fresh(p)' /\ Running(p)' /\ Behind(p)' /\ Entered(p)' = Entered(p)
  BY <1>1 DEF Windowed, Fresh, Running, Behind, Owns, Entered
<1>3. \A i \in Offset : i <= proc[p].position => topic'[i] = topic[i]
  BY TopicStays, Days DEF Offset
<1>4. Complete(p)'
  BY <1>1, <1>2, <1>3, Days DEF Windowed, Complete, Offset
<1>5. Computed(p)'
  <2> SUFFICES ASSUME proc[p].at = "write" PROVE Computed(p)'
    BY <1>1 DEF Computed
  <2>1. proc[p].off = proc[p].position /\ proc[p].off \in 1..Len(topic)
    BY DEF TypeInv, Shaped, Busy
  <2>2. Cust(p)' = Cust(p)
    BY <1>1, <2>1, TopicStays DEF Cust
  <2>3. \A i \in Offset : i <= proc[p].off => topic'[i] = topic[i]
    BY <1>3, <2>1
  <2>4. /\ Rolling!Window(Cust(p), proc[p].off, proc[p].asOf, Short)'
             = Rolling!Window(Cust(p), proc[p].off, proc[p].asOf, Short)
        /\ Rolling!Window(Cust(p), proc[p].off, proc[p].asOf, Long)'
             = Rolling!Window(Cust(p), proc[p].off, proc[p].asOf, Long)
    BY <1>1, <2>2, <2>3 DEF Rolling!Window
  <2> QED
    BY <1>1, <2>4 DEF Windowed, Computed
<1> QED
  BY <1>2, <1>4, <1>5 DEF Windowed

LEMMA TickRolls ==
  ASSUME TypeInv, RollInv, Tick
  PROVE  RollInv'
<1> SUFFICES ASSUME NEW p \in Processor PROVE Windowed(p)'
  BY DEF RollInv
<1>1. /\ UNCHANGED <<topic, committed, owner, proc, memory, feature>>
      /\ day' = day + 1 /\ Windowed(p)
  BY DEF Tick, RollInv
<1>2. Fresh(p)' /\ Running(p)' /\ Entered(p)' = Entered(p)
  BY <1>1 DEF Windowed, Fresh, Running, Owns, Entered
<1>3. \A c \in Customer : feature[c].asOf \in Nat
  BY DEF TypeInv, TypeOK, FeatureState
<1>4. Behind(p)'
  BY <1>1, <1>3, Days DEF Windowed, Behind
<1>5. Complete(p)'
  <2> SUFFICES ASSUME NEW i \in Offset, i <= Entered(p), topic[i].cust \in Customer,
                      memory[p][i] = 0
               PROVE  topic[i].at < day' - Long
    BY <1>1, <1>2 DEF Windowed, Complete
  <2>1. i \in 1..Len(topic)
    BY Days DEF Offset
  <2> QED
    BY <1>1, <2>1, Days, Dates DEF Windowed, Complete
<1>6. Computed(p)'
  <2>1. Cust(p)' = Cust(p) /\ (proc[p].asOf <= day => proc[p].asOf <= day')
    BY <1>1, Days DEF Cust
  <2> QED
    BY <1>1, <2>1 DEF Windowed, Computed, Rolling!Window
<1> QED
  BY <1>2, <1>4, <1>5, <1>6 DEF Windowed

\* With one processor, what holds of it holds of all.
LEMMA Alone ==
  ASSUME Solo, NEW p \in Processor, Windowed(p)'
  PROVE  RollInv'
<1> SUFFICES ASSUME NEW x \in Processor PROVE Windowed(x)'
  BY DEF RollInv
<1>1. x = p
  BY DEF Solo
<1> QED
  BY <1>1

\* Types of the features.
LEMMA Keys ==
  ASSUME TypeInv, NEW c \in Customer
  PROVE  /\ feature[c] \in FeatureState
         /\ feature[c].upto \in Nat /\ feature[c].asOf \in Nat
         /\ feature[c].until \in Nat \cup {Never}
         /\ feature[c].short \in Count /\ feature[c].long \in Count
<1>1. feature[c] \in FeatureState
  BY DEF TypeInv, TypeOK
<1> QED
  BY <1>1, StreamAssumption DEF FeatureState

\* A step that enters no record in the list and writes nothing.
LEMMA QuietRolls ==
  ASSUME TypeInv, Solo, RollInv, NEW p \in Processor,
         UNCHANGED <<topic, day, memory, feature>>,
         Entered(p)' = Entered(p), proc'[p].at # "write",
         proc'[p].position \in Nat, proc[p].position <= proc'[p].position,
         Fresh(p)', Running(p)'
  PROVE  RollInv'
<1>1. Windowed(p)
  BY DEF RollInv
<1>2. Complete(p)'
  BY <1>1 DEF Windowed, Complete
<1>3. Computed(p)'
  BY DEF Computed
<1>4. Behind(p)'
  BY <1>1, Keys, Days DEF Windowed, Behind
<1> QED
  BY <1>2, <1>3, <1>4, Alone DEF Windowed

LEMMA StartRolls ==
  ASSUME TypeInv, Solo, RollInv, NEW p \in Processor, Start(p)
  PROVE  RollInv'
<1>1. /\ UNCHANGED <<topic, day, memory, feature, committed, owner>>
      /\ proc[p].at = "down" /\ Windowed(p)
  BY DEF Start, Up, RollInv
<1>2. proc'[p].at = "join" /\ proc'[p].position = proc[p].position
  BY JoinerMoves
<1>3. Fresh(p)' /\ Running(p)' /\ Entered(p)' = Entered(p)
  BY <1>1, <1>2 DEF Windowed, Fresh, Running, Entered
<1> QED
  BY <1>1, <1>2, <1>3, Days, QuietRolls

\* The only member owns the partition while it runs: it is never replaced, nor
\* finds itself evicted.
LEMMA Settles ==
  ASSUME TypeInv, Solo, RollInv, NEW p \in Processor
  PROVE  ~Failover(p) /\ ~Rejoin(p)
<1> SUFFICES ASSUME proc[p].at = "poll" PROVE Held /\ proc[p].member
  BY DEF Failover, Rejoin, Polling
<1>1. Owns(p)
  BY DEF RollInv, Windowed, Running
<1> QED
  BY <1>1 DEF Owns, Held

LEMMA JoinRolls ==
  ASSUME TypeInv, Solo, RollInv, NEW p \in Processor, Join(p)
  PROVE  RollInv'
<1>1. proc[p].at = "join" /\ Windowed(p)
  BY DEF Join, RollInv
<1>2. committed = 0 /\ owner = NoProcessor /\ proc[p].position = 0
  BY <1>1 DEF Windowed, Fresh
<1>3. ~Held
  BY <1>2, StreamAssumption DEF Held
<1>4. /\ UNCHANGED <<topic, day, memory, feature>> /\ committed' = 0
  BY <1>2, <1>3 DEF Join
<1>5. PICK q \in Processor : owner' = q /\ proc' = Assigned(Joined(p), q, committed')
  BY DEF Join, Joined
<1>6. q = p
  BY DEF Solo
<1>7. /\ Joined(p) \in [Processor -> ProcState]
      /\ Joined(p)[p].at = "poll" /\ Joined(p)[p].member
  BY JoinMoves
<1>8. 0 \in 0..MaxRecords
  BY StreamAssumption
<1>9. proc'[p].at = "poll" /\ proc'[p].member /\ proc'[p].position = 0
  <2>1. proc' = Assigned(Joined(p), p, 0)
    BY <1>4, <1>5, <1>6
  <2> QED
    BY <1>7, <1>8, <2>1, AssignMoves
<1>10. Fresh(p)' /\ Running(p)' /\ Entered(p)' = Entered(p)
  BY <1>1, <1>2, <1>5, <1>6, <1>9 DEF Fresh, Running, Owns, Entered
<1> QED
  BY <1>2, <1>4, <1>9, <1>10, QuietRolls

LEMMA GroupRolls ==
  ASSUME TypeInv, Solo, RollInv, NEW p \in Processor, Group(p)
  PROVE  RollInv'
<1>1. CASE Join(p)
  BY <1>1, JoinRolls
<1>2. CASE AutoCommit(p)
  <2>1. /\ UNCHANGED <<topic, day, memory, feature, owner, proc>>
        /\ proc[p].at = "poll" /\ Windowed(p)
    BY <1>2 DEF AutoCommit, Polling, RollInv
  <2>2. Fresh(p)' /\ Running(p)' /\ Entered(p)' = Entered(p)
    BY <2>1 DEF Windowed, Fresh, Running, Owns, Entered
  <2> QED
    BY <2>1, <2>2, Days, QuietRolls
<1> QED
  BY <1>1, <1>2, Settles DEF Group

LEMMA PollRolls ==
  ASSUME TypeInv, Solo, RollInv, NEW p \in Processor, Poll(p)
  PROVE  RollInv'
<1>1. /\ UNCHANGED <<topic, day, memory, feature, owner, committed>>
      /\ proc[p].at = "poll" /\ Windowed(p)
  BY DEF Poll, Polling, RollInv
<1>2. /\ proc'[p].at = proc[p].at /\ proc'[p].position = proc[p].position
      /\ proc'[p].member = proc[p].member
  BY PollFetches, PollMoves
<1>3. Fresh(p)' /\ Running(p)' /\ Entered(p)' = Entered(p)
  BY <1>1, <1>2 DEF Windowed, Fresh, Running, Owns, Entered
<1> QED
  BY <1>1, <1>2, <1>3, Days, QuietRolls

LEMMA TakeRolls ==
  ASSUME TypeInv, Solo, RollInv, NEW p \in Processor, Take(p)
  PROVE  RollInv'
<1> DEFINE i == proc[p].position + 1
<1>1. /\ UNCHANGED <<topic, day, memory, feature, owner, committed>>
      /\ proc[p].at = "poll" /\ Windowed(p)
  BY DEF Take, RollInv
<1>2. i \in 1..Len(topic) /\ i \in 0..MaxRecords
  BY TakeFacts
<1>3. i = proc[p].position + 1 /\ proc[p].position <= i /\ i \in Nat
  BY Days
<1>4. \/ topic[i].cust = NoCustomer /\ proc' = [proc EXCEPT ![p].position = i]
      \/ proc' = [proc EXCEPT ![p].position = i, ![p].at = "apply", ![p].off = i]
  BY TakeFacts
<1> HIDE DEF i
<1>5. CASE /\ topic[i].cust = NoCustomer
           /\ proc' = [proc EXCEPT ![p].position = i]
  <2>1. proc'[p].at = "poll" /\ proc'[p].position = i /\ proc'[p].member = proc[p].member
    BY <1>1, <1>2, <1>5, PassMoves
  <2>2. Fresh(p)' /\ Running(p)' /\ Computed(p)'
    BY <1>1, <2>1 DEF Windowed, Fresh, Running, Owns, Computed
  <2>3. Behind(p)'
    <3> SUFFICES ASSUME NEW c \in Customer
                 PROVE  feature[c].upto <= i /\ feature[c].asOf <= day
      BY <1>1, <2>1 DEF Behind
    <3>1. feature[c].upto <= proc[p].position /\ feature[c].asOf <= day
      BY <1>1 DEF Windowed, Behind
    <3>2. feature[c].upto \in Nat /\ proc[p].position \in Nat
      BY Keys, Days
    <3> QED
      BY <1>3, <3>1, <3>2
  <2>4. Entered(p) = proc[p].position /\ Entered(p)' = i
    BY <1>1, <2>1 DEF Entered
  <2>5. ASSUME NEW j \in Offset, j <= i, topic[j].cust \in Customer PROVE j <= Entered(p)
    <3>1. j # i
      BY <1>5, <2>5, StreamAssumption
    <3> QED
      BY <1>3, <2>4, <2>5, <3>1, Days DEF Offset
  <2>6. Complete(p)'
    BY <1>1, <1>3, <2>4, <2>5, Days DEF Windowed, Complete, Offset
  <2> QED
    BY <2>2, <2>3, <2>6, Alone DEF Windowed
<1>6. CASE proc' = [proc EXCEPT ![p].position = i, ![p].at = "apply", ![p].off = i]
  <2>1. proc'[p].at = "apply" /\ proc'[p].position = i /\ proc'[p].member = proc[p].member
    BY <1>2, <1>6, TakeMoves
  <2>2. Fresh(p)' /\ Running(p)'
    BY <1>1, <2>1 DEF Windowed, Fresh, Running, Owns
  <2>3. Entered(p)' = Entered(p)
    BY <1>1, <1>3, <2>1, Days DEF Entered
  <2> QED
    BY <1>1, <1>3, <2>1, <2>2, <2>3, QuietRolls
<1> QED
  BY <1>4, <1>5, <1>6

\* The list after Apply holds each record once, but for those that are too old.
LEMMA ListIsComplete ==
  ASSUME TypeInv, RollInv, NEW p \in Processor, proc[p].at = "apply",
         NEW j \in Offset
  PROVE  /\ Listed(p)[j] \in {0, 1}
         /\ j > proc[p].position => Listed(p)[j] = 0
         /\ (j <= proc[p].position /\ topic[j].cust \in Customer /\ Listed(p)[j] = 0) =>
              topic[j].at < day - Long
<1> DEFINE m == [memory[p] EXCEPT ![proc[p].off] = @ + 1]
<1>1. /\ proc[p].off = proc[p].position /\ proc[p].off \in Offset
      /\ Entered(p) = proc[p].position - 1 /\ Complete(p)
  BY CustType DEF TypeInv, Shaped, Busy, Entered, RollInv, Windowed
<1>2. memory[p][proc[p].off] = 0
  BY <1>1, Days DEF Complete
<1>3. memory[p] \in Count
  BY DEF TypeInv, TypeOK
<1>4. m[j] = IF j = proc[p].off THEN 1 ELSE memory[p][j]
  BY <1>1, <1>2, <1>3 DEF Count
<1>5. Listed(p)[j] = IF m[j] > 0 /\ topic[j].cust = Cust(p) /\ topic[j].at < day - Long
                     THEN 0 ELSE m[j]
  BY DEF Listed, Kept
<1> HIDE DEF m
<1>6. j = proc[p].off => m[j] = 1 /\ j = proc[p].position
  BY <1>1, <1>4
<1>7. j # proc[p].off => /\ m[j] = memory[p][j] /\ m[j] \in {0, 1}
                         /\ j > proc[p].position => m[j] = 0
                         /\ j <= proc[p].position => j <= Entered(p)
  BY <1>1, <1>4, Days DEF Complete, Offset
<1>8. Listed(p)[j] \in {0, 1}
  BY <1>5, <1>6, <1>7
<1>9. j > proc[p].position => Listed(p)[j] = 0
  BY <1>1, <1>5, <1>7, Days DEF Offset
<1>10. ASSUME j <= proc[p].position, topic[j].cust \in Customer, Listed(p)[j] = 0
       PROVE  topic[j].at < day - Long
  <2>1. CASE j = proc[p].off
    BY <1>5, <1>6, <1>10, <2>1
  <2>2. CASE j # proc[p].off
    <3>1. CASE memory[p][j] = 0
      BY <1>1, <1>7, <1>10, <2>2, <3>1 DEF Complete
    <3>2. CASE memory[p][j] # 0
      BY <1>5, <1>7, <1>10, <2>2, <3>2
    <3> QED
      BY <3>1, <3>2
  <2> QED
    BY <2>1, <2>2
<1> QED
  BY <1>8, <1>9, <1>10

\* What Apply picks from it for a window not longer than the list's is the window.
LEMMA PicksWindow ==
  ASSUME TypeInv, RollInv, NEW p \in Processor, proc[p].at = "apply",
         NEW span \in Nat, span <= Long
  PROVE  Since(Listed(p), Cust(p), day - span)
           = Rolling!Window(Cust(p), proc[p].off, day, span)
<1>1. proc[p].off = proc[p].position /\ Cust(p) \in Customer
  BY CustType DEF TypeInv, Shaped, Busy
<1> SUFFICES ASSUME NEW j \in Offset
             PROVE  Since(Listed(p), Cust(p), day - span)[j]
                      = Rolling!Window(Cust(p), proc[p].off, day, span)[j]
  BY DEF Since, Rolling!Window
<1>2. Since(Listed(p), Cust(p), day - span)[j] =
        IF Listed(p)[j] > 0 /\ topic[j].cust = Cust(p) /\ topic[j].at >= day - span
        THEN Listed(p)[j] ELSE 0
  BY DEF Since
<1>3. Rolling!Window(Cust(p), proc[p].off, day, span)[j] =
        IF j <= proc[p].off /\ topic[j].cust = Cust(p) /\ topic[j].at >= day - span
        THEN 1 ELSE 0
  BY DEF Rolling!Window
<1>4. CASE j > proc[p].position
  BY <1>1, <1>2, <1>3, <1>4, ListIsComplete, Days DEF Offset
<1>5. CASE j <= proc[p].position
  <2>1. topic[j].at \in Int
    BY <1>5, Days, Dates DEF Offset
  <2>2. (topic[j].cust = Cust(p) /\ topic[j].at >= day - span) => Listed(p)[j] = 1
    BY <1>1, <1>5, <2>1, ListIsComplete, Days
  <2> QED
    BY <1>1, <1>2, <1>3, <1>5, <2>2
<1> QED
  BY <1>4, <1>5, Days DEF Offset

LEMMA ApplyRolls ==
  ASSUME TypeInv, Solo, RollInv, NEW p \in Processor, Apply(p)
  PROVE  RollInv'
<1>1. /\ UNCHANGED <<topic, day, feature, owner, committed>>
      /\ proc[p].at = "apply" /\ Windowed(p)
  BY DEF Apply, RollInv
<1>2. /\ proc'[p].at = "write" /\ proc'[p].position = proc[p].position
      /\ proc'[p].member = proc[p].member /\ proc'[p].off = proc[p].off
      /\ proc'[p].asOf = day
      /\ proc'[p].short = Since(Listed(p), Cust(p), day - Short)
      /\ proc'[p].long = Since(Listed(p), Cust(p), day - Long)
  BY ApplyMoves
<1>3. Fresh(p)' /\ Running(p)' /\ Entered(p)' = proc[p].position
  BY <1>1, <1>2 DEF Windowed, Fresh, Running, Owns, Entered
<1>4. Behind(p)'
  BY <1>1, <1>2 DEF Windowed, Behind
<1>5. memory'[p] = Listed(p)
  BY ApplyFacts DEF TypeInv, TypeOK
<1>6. Complete(p)'
  BY <1>1, <1>3, <1>5, ListIsComplete DEF Complete
<1>7. Computed(p)'
  <2>1. Cust(p)' = Cust(p)
    BY <1>1, <1>2 DEF Cust
  <2>2. /\ proc'[p].short = Rolling!Window(Cust(p), proc[p].off, day, Short)
        /\ proc'[p].long = Rolling!Window(Cust(p), proc[p].off, day, Long)
    BY <1>1, <1>2, PicksWindow, Days
  <2>3. \A c \in Customer : feature[c].asOf <= day
    BY <1>1 DEF Windowed, Behind
  <2> QED
    BY <1>1, <1>2, <2>1, <2>2, <2>3, Days DEF Computed, Rolling!Window
<1> QED
  BY <1>3, <1>4, <1>6, <1>7, Alone DEF Windowed

LEMMA WriteRolls ==
  ASSUME TypeInv, Solo, RollInv, NEW p \in Processor, Write(p)
  PROVE  RollInv'
<1>1. /\ UNCHANGED <<topic, day, memory, owner, committed>>
      /\ proc[p].at = "write" /\ Windowed(p)
      /\ proc[p].off = proc[p].position /\ Cust(p) \in Customer
  BY CustType DEF Write, RollInv, TypeInv, Shaped, Busy
<1>2. /\ proc'[p].at = "expire" /\ proc'[p].position = proc[p].position
      /\ proc'[p].member = proc[p].member
  BY WriteMoves
<1>3. Fresh(p)' /\ Running(p)' /\ Computed(p)' /\ Entered(p)' = Entered(p)
  BY <1>1, <1>2 DEF Windowed, Fresh, Running, Owns, Computed, Entered
<1>4. Complete(p)'
  BY <1>1, <1>3 DEF Windowed, Complete
<1>5. Behind(p)'
  <2> SUFFICES ASSUME NEW c \in Customer
               PROVE  feature'[c].upto <= proc[p].position /\ feature'[c].asOf <= day
    BY <1>1, <1>2 DEF Behind
  <2>1. feature' = [feature EXCEPT ![Cust(p)] = Written(p)]
    BY <1>1 DEF Write, Written, TypeInv, TypeOK
  <2>2. CASE c = Cust(p)
    <3>1. feature'[c] = Written(p)
      BY <1>1, <2>1, <2>2 DEF TypeInv, TypeOK
    <3>2. feature'[c].upto = proc[p].off /\ feature'[c].asOf = proc[p].asOf
      BY <3>1 DEF Written
    <3> QED
      BY <1>1, <3>2, Days DEF Windowed, Computed
  <2>3. CASE c # Cust(p)
    BY <1>1, <2>1, <2>3 DEF Windowed, Behind, TypeInv, TypeOK
  <2> QED
    BY <2>2, <2>3
<1> QED
  BY <1>3, <1>4, <1>5, Alone DEF Windowed

\* EXPIRE changes when a key goes, not what it holds.
LEMMA ExpireKeeps ==
  ASSUME TypeInv, NEW p \in Processor, Expire(p), NEW c \in Customer
  PROVE  /\ feature'[c].upto = feature[c].upto /\ feature'[c].asOf = feature[c].asOf
         /\ feature'[c].short = feature[c].short /\ feature'[c].long = feature[c].long
         /\ Live(c)' <=> Live(c)
<1>1. Cust(p) \in Customer
  BY CustType DEF Expire, Busy
<1>2. feature \in [Customer -> FeatureState]
  BY DEF TypeInv, TypeOK
<1>3. \/ Live(Cust(p)) /\ feature' = [feature EXCEPT ![Cust(p)].until = day + Ttl]
      \/ feature' = feature
  BY DEF Expire
<1>4. /\ feature'[c].upto = feature[c].upto /\ feature'[c].asOf = feature[c].asOf
      /\ feature'[c].short = feature[c].short /\ feature'[c].long = feature[c].long
  BY <1>1, <1>2, <1>3 DEF FeatureState
<1>5. Live(c)' <=> Live(c)
  <2>1. day' = day /\ day \in Nat /\ Ttl \in Nat \ {0}
    BY Days, StreamAssumption DEF Expire
  <2>2. CASE Live(Cust(p)) /\ feature' = [feature EXCEPT ![Cust(p)].until = day + Ttl]
    <3>1. CASE c = Cust(p)
      <4>1. feature'[c].until = day + Ttl
        BY <1>2, <2>2, <3>1 DEF FeatureState
      <4> QED
        BY <2>1, <2>2, <3>1, <4>1 DEF Live
    <3>2. CASE c # Cust(p)
      BY <1>2, <2>1, <2>2, <3>2 DEF Live
    <3> QED
      BY <3>1, <3>2
  <2>3. CASE feature' = feature
    BY <2>1, <2>3 DEF Live
  <2> QED
    BY <1>3, <2>2, <2>3
<1> QED
  BY <1>4, <1>5

LEMMA ExpireRolls ==
  ASSUME TypeInv, Solo, RollInv, NEW p \in Processor, Expire(p)
  PROVE  RollInv'
<1>1. /\ UNCHANGED <<topic, day, memory, owner, committed>>
      /\ proc[p].at = "expire" /\ Windowed(p)
  BY DEF Expire, RollInv
<1>2. /\ proc'[p].at = "poll" /\ proc'[p].position = proc[p].position
      /\ proc'[p].member = proc[p].member
  BY ExpireMoves
<1>3. Fresh(p)' /\ Running(p)' /\ Computed(p)' /\ Entered(p)' = Entered(p)
  BY <1>1, <1>2 DEF Windowed, Fresh, Running, Owns, Computed, Entered
<1>4. Complete(p)'
  BY <1>1, <1>3 DEF Windowed, Complete
<1>5. Behind(p)'
  BY <1>1, <1>2, ExpireKeeps DEF Windowed, Behind
<1> QED
  BY <1>3, <1>4, <1>5, Alone DEF Windowed

LEMMA NextRolls ==
  ASSUME TypeInv, Solo, RollInv, [Next]_vars
  PROVE  RollInv'
<1>1. CASE UNCHANGED vars
  BY <1>1 DEF vars, RollInv, Windowed, Fresh, Running, Complete, Computed, Behind,
              Owns, Entered, Cust, Rolling!Window
<1>2. ASSUME NEW p \in Processor, Loop(p) PROVE RollInv'
  BY <1>2, PollRolls, TakeRolls, ApplyRolls, WriteRolls, ExpireRolls DEF Loop
<1>3. ASSUME NEW p \in Processor PROVE ~Stop(p) /\ ~Kill(p) /\ ~Evict(p)
  BY DEF Solo, Stop, Kill, Evict, Fails
<1>4. \A c \in Customer : ~EvictKey(c)
  BY DEF Solo, EvictKey, Fails
<1> QED
  BY <1>1, <1>2, <1>3, <1>4, PublishRolls, TickRolls, StartRolls, GroupRolls DEF Next

LEMMA InitRolls ==
  Init => RollInv
<1> SUFFICES ASSUME Init, NEW p \in Processor PROVE Windowed(p)
  BY DEF RollInv
<1>1. /\ proc[p] = Down /\ memory[p] = Zero /\ committed = 0 /\ owner = NoProcessor
      /\ \A c \in Customer : feature[c] = NoKey /\ day = 0
  BY DEF Init
<1>2. proc[p].at = "down" /\ proc[p].position = 0
  BY <1>1 DEF Down
<1>3. Fresh(p) /\ Running(p) /\ Computed(p)
  BY <1>1, <1>2 DEF Fresh, Running, Computed
<1>4. Complete(p)
  BY <1>1, <1>2 DEF Complete, Entered, Zero, Offset
<1>5. Behind(p)
  BY <1>1, <1>2 DEF Behind, NoKey, Init
<1> QED
  BY <1>3, <1>4, <1>5 DEF Windowed

-----------------------------------------------------------------------------
(* Every step is one of RollingWindow, or none.                            *)

\* What a customer is shown; the value of RollingWindow's variable.
Shown == [c \in Customer |->
            IF Live(c)
            THEN [upto |-> feature[c].upto, asOf |-> feature[c].asOf, live |-> TRUE,
                  short |-> feature[c].short, long |-> feature[c].long]
            ELSE [upto |-> 0, asOf |-> 0, live |-> FALSE]]

Simulated == [Rolling!Next]_<<topic, day, Shown>>

LEMMA PublishSimulates ==
  ASSUME TypeInv, Publish
  PROVE  Simulated
<1>1. PICK b \in Customer \cup {NoCustomer}, e \in day - Back .. day :
        topic' = Append(topic, [cust |-> b, at |-> e])
  BY DEF Publish
<1>2. topic \in Seq(Record) /\ Len(topic) \in Nat
  BY DEF TypeInv, TypeOK
<1>3. Len(topic') = Len(topic) + 1
  BY <1>1, <1>2
<1>4. SubSeq(topic', 1, Len(topic)) = topic
  BY <1>1, <1>2
<1>5. UNCHANGED <<day, feature>>
  BY DEF Publish
<1>6. UNCHANGED Shown
  BY <1>5 DEF Shown, Live
<1> QED
  BY <1>3, <1>4, <1>5, <1>6 DEF Simulated, Shown, Rolling!Next, Rolling!Publish

LEMMA TickSimulates ==
  ASSUME TypeInv, Tick
  PROVE  Simulated
<1>1. topic' = topic /\ day' = day + 1 /\ feature' = feature /\ day \in Nat
  BY DEF Tick, TypeInv, TypeOK
<1> DEFINE D == {c \in Customer : Live(c) /\ ~Live(c)'}
<1>2. ASSUME NEW c \in Customer
      PROVE  Shown'[c] = IF c \in D THEN Rolling!Gone ELSE Shown[c]
  <2>1. feature[c].until \in Nat \cup {Never}
    BY Keys
  <2>2. Live(c)' => Live(c)
    BY <1>1, <2>1 DEF Live
  <2>3. CASE c \in D
    BY <2>3 DEF Shown, Rolling!Gone
  <2>4. CASE c \notin D
    BY <1>1, <2>2, <2>4 DEF Shown
  <2> QED
    BY <2>3, <2>4
<1>3. Shown' = [c \in Customer |-> IF c \in D THEN Rolling!Gone ELSE Shown[c]]
  BY <1>2 DEF Shown
<1>4. D \in SUBSET Customer
  OBVIOUS
<1> HIDE DEF D
<1>5. Rolling!Tick
  BY <1>1, <1>3, <1>4 DEF Rolling!Tick, Shown
<1> QED
  BY <1>5 DEF Simulated, Rolling!Next

LEMMA WriteSimulates ==
  ASSUME TypeInv, Solo, RollInv, NEW p \in Processor, Write(p)
  PROVE  Simulated
<1> DEFINE u == proc[p].off
           d == proc[p].asOf
<1>0. PICK k \in Customer : k = Cust(p)
  BY CustType DEF Write, Busy
<1>1. /\ topic' = topic /\ day' = day /\ Windowed(p) /\ proc[p].at = "write"
      /\ u = proc[p].position
  BY DEF Write, RollInv, TypeInv, Shaped, Busy
<1>2. feature' = [feature EXCEPT ![k] = Written(p)]
  BY <1>0 DEF Write, Written, TypeInv, TypeOK
<1>3. /\ proc[p].short = Rolling!Window(k, u, d, Short)
      /\ proc[p].long = Rolling!Window(k, u, d, Long)
      /\ d <= day /\ feature[k].asOf <= d /\ feature[k].upto <= u
  BY <1>0, <1>1 DEF Windowed, Computed, Behind
<1>4. /\ feature'[k] = Written(p)
      /\ \A c \in Customer : c # k => feature'[c] = feature[c]
  BY <1>1, <1>2 DEF TypeInv, TypeOK
<1>5. Live(k)' /\ \A c \in Customer : c # k => (Live(c)' <=> Live(c))
  <2>1. feature'[k].until = IF Live(k) THEN feature[k].until ELSE Never
    BY <1>0, <1>4 DEF Written
  <2>2. Live(k)'
    BY <1>1, <2>1 DEF Live
  <2>3. \A c \in Customer : c # k => (Live(c)' <=> Live(c))
    BY <1>1, <1>4 DEF Live
  <2> QED
    BY <2>2, <2>3
<1>6. Shown'[k] = Rolling!Features(k, u, d)
  <2>1. /\ feature'[k].upto = u /\ feature'[k].asOf = d
        /\ feature'[k].short = proc[p].short /\ feature'[k].long = proc[p].long
    BY <1>0, <1>4 DEF Written
  <2>2. Shown'[k] = [upto |-> feature'[k].upto, asOf |-> feature'[k].asOf, live |-> TRUE,
                     short |-> feature'[k].short, long |-> feature'[k].long]
    BY <1>1, <1>5 DEF Shown
  <2> QED
    BY <1>3, <2>1, <2>2 DEF Rolling!Features
<1>7. \A c \in Customer : c # k => Shown'[c] = Shown[c]
  BY <1>4, <1>5 DEF Shown
<1>8. Shown' = [Shown EXCEPT ![k] = Rolling!Features(k, u, d)]
  BY <1>1, <1>6, <1>7 DEF Shown
<1>9. u \in Shown[k].upto..Len(topic) /\ d \in Shown[k].asOf..day
  <2>1. u \in Nat /\ d \in Nat /\ u <= Len(topic) /\ Len(topic) \in Nat /\ day \in Nat
    BY <1>1, Days
  <2>2. feature[k].upto \in Nat /\ feature[k].asOf \in Nat
    BY <1>1, Keys
  <2>3. \/ Shown[k].upto = feature[k].upto /\ Shown[k].asOf = feature[k].asOf
        \/ Shown[k].upto = 0 /\ Shown[k].asOf = 0
    BY <1>1 DEF Shown
  <2> QED
    BY <1>3, <2>1, <2>2, <2>3
<1>10. \E c \in Customer : \E v \in Shown[c].upto..Len(topic), e \in Shown[c].asOf..day :
         Shown' = [Shown EXCEPT ![c] = Rolling!Features(c, v, e)]
  BY <1>1, <1>8, <1>9
<1>11. \E c \in Customer : Rolling!Refresh(c)
  BY <1>1, <1>10 DEF Rolling!Refresh, Shown
<1> QED
  BY <1>11 DEF Simulated, Rolling!Next

\* The other steps show nothing new.
LEMMA OthersSimulate ==
  ASSUME UNCHANGED <<topic, day, feature>>
  PROVE  Simulated
<1>1. UNCHANGED Shown
  BY DEF Shown, Live
<1> QED
  BY <1>1 DEF Simulated

LEMMA ExpireSimulates ==
  ASSUME TypeInv, NEW p \in Processor, Expire(p)
  PROVE  Simulated
<1>1. topic' = topic /\ day' = day
  BY DEF Expire
<1>2. \A c \in Customer : Shown'[c] = Shown[c]
  BY ExpireKeeps DEF Shown
<1>3. UNCHANGED Shown
  BY <1>2 DEF Shown
<1> QED
  BY <1>1, <1>3 DEF Simulated

LEMMA NextSimulates ==
  ASSUME TypeInv, Solo, RollInv, [Next]_vars
  PROVE  Simulated
<1>1. CASE UNCHANGED vars
  BY <1>1, OthersSimulate DEF vars
<1>2. ASSUME NEW p \in Processor, Start(p) \/ Group(p) PROVE Simulated
  BY <1>2, OthersSimulate DEF Start, Group, Join, Failover, AutoCommit, Rejoin
<1>3. ASSUME NEW p \in Processor, Loop(p) PROVE Simulated
  <2>1. CASE Poll(p) \/ Take(p) \/ Apply(p)
    BY <2>1, OthersSimulate DEF Poll, Take, Apply
  <2> QED
    BY <1>3, <2>1, WriteSimulates, ExpireSimulates DEF Loop
<1>4. ASSUME NEW p \in Processor PROVE ~Stop(p) /\ ~Kill(p) /\ ~Evict(p)
  BY DEF Solo, Stop, Kill, Evict, Fails
<1>5. \A c \in Customer : ~EvictKey(c)
  BY DEF Solo, EvictKey, Fails
<1> QED
  BY <1>1, <1>2, <1>3, <1>4, <1>5, PublishSimulates, TickSimulates DEF Next

LEMMA InitSimulates ==
  Init => Rolling!Init
<1> SUFFICES ASSUME Init PROVE Rolling!Init
  OBVIOUS
<1>1. \A c \in Customer : feature[c] = NoKey
  BY DEF Init
<1>2. day = 0 /\ topic = <<>>
  BY DEF Init
<1>3. \A c \in Customer : ~Live(c)
  BY <1>1, <1>2 DEF NoKey, Never, Live
<1> QED
  BY <1>2, <1>3 DEF Rolling!Init, Rolling!Gone

\* A processor that is alone and never fails shows each customer the features
\* of the windows as of a record and a day, and moves neither back.
THEOREM SoloRolls ==
  ASSUME Solo
  PROVE  Spec => ImplementsRolling
<1>1. TypeInv /\ RollInv /\ [Next]_vars => RollInv'
  BY NextRolls
<1>2. TypeInv /\ RollInv /\ [Next]_vars => [Rolling!Next]_<<topic, day, Shown>>
  BY NextSimulates DEF Simulated
<1> QED
  BY <1>1, <1>2, InitRolls, InitSimulates, AlwaysType, PTL
     DEF Spec, ImplementsRolling, Rolling!Spec, Shown
=============================================================================
