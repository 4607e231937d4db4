-------------------------- MODULE StreamProcessor ---------------------------
(***************************************************************************)
(* The stream processor: create_flink_job_local in                         *)
(* stream_processing/flink_job.py, which reads the transactions topic,     *)
(* keeps each customer's last 30 days in memory and writes the features    *)
(* of the 7 and 30 day windows to Redis for the scoring service.           *)
(*                                                                         *)
(* A processor is one process of main.py (stream-process, or the thread    *)
(* full-pipeline starts).  All use one consumer group, with the automatic  *)
(* commits of kafka-python 2.0.2; the topic has one partition, the default *)
(* of a topic created on first use.                                        *)
(*                                                                         *)
(* Feature values are sums, counts and ratios over a window, so a feature  *)
(* record holds the windows: how often it counts each record of the topic. *)
(***************************************************************************)
EXTENDS Integers, Sequences, FiniteSets

CONSTANTS Customer,    \* customers
          NoCustomer,  \* a transaction without customer_id
          Processor,   \* processes that run the loop
          NoProcessor, \* nobody is assigned the partition
          Short, Long, \* the windows, in days: 7 and 30
          Ttl,         \* lifetime of a features key, in days: 7
          Batch,       \* max_poll_records: 100
          Fault,       \* what may go wrong, a subset of AnyFault
          Back,        \* bound: a record is published at most so many days late
          MaxRecords,  \* bound: records published in a behaviour
          MaxDay,      \* bound: the clock stops here
          MaxFaults    \* bound: faults in a behaviour

VARIABLES topic,     \* the partition: a sequence of [cust, at]
          day,       \* the wall clock, in days
          committed, \* the group's committed offset: records before it are done
          owner,     \* the processor the partition is assigned to
          proc,      \* where each processor is in the loop, and its locals
          memory,    \* customer_state: how often a record is in its list
          feature,   \* Redis features:streaming:{id}
          applied,   \* history: records whose features were written
          skipped,   \* history: records in hand when a processor stopped
          evictions, \* history: members evicted from the group so far
          faults     \* history: faults so far

vars == <<topic, day, committed, owner, proc, memory, feature, applied, skipped,
          evictions, faults>>

\* A process killed; an exception or Ctrl-C, after which the loop closes its
\* consumer; a member that did not poll for max_poll_interval_ms; a key that a
\* full Redis evicts (maxmemory-policy allkeys-lru).
AnyFault == {"kill", "stop", "evict", "lru"}

ASSUME StreamAssumption ==
  /\ NoCustomer \notin Customer
  /\ NoProcessor \notin Processor
  /\ Short \in Nat /\ Long \in Nat /\ Short <= Long
  /\ Ttl \in Nat \ {0} /\ Batch \in Nat \ {0}
  /\ Fault \subseteq AnyFault
  /\ Back \in Nat /\ MaxRecords \in Nat /\ MaxDay \in Nat /\ MaxFaults \in Nat

Offset == 1..MaxRecords
Never == -1
Count == [Offset -> Nat]
Zero == [i \in Offset |-> 0]

Record == [cust: Customer \cup {NoCustomer}, at: Int]
Step == {"down", "join", "poll", "apply", "write", "expire"}
Down == [at |-> "down", member |-> FALSE, position |-> 0, fetched |-> 0,
         off |-> 0, asOf |-> 0, short |-> Zero, long |-> Zero]
ProcState == [at: Step, member: BOOLEAN, position: 0..MaxRecords,
              fetched: 0..MaxRecords, off: 0..MaxRecords, asOf: 0..MaxDay,
              short: Count, long: Count]
\* `until` is the day the key expires on; `upto` and `asOf` are history.
NoKey == [until |-> 0, upto |-> 0, asOf |-> 0, short |-> Zero, long |-> Zero]
FeatureState == [until: Nat \cup {Never}, upto: 0..MaxRecords, asOf: 0..MaxDay,
                 short: Count, long: Count]

TypeOK ==
  /\ topic \in Seq(Record) /\ Len(topic) <= MaxRecords
  /\ day \in 0..MaxDay
  /\ committed \in 0..Len(topic)
  /\ owner \in Processor \cup {NoProcessor}
  /\ proc \in [Processor -> ProcState]
  /\ memory \in [Processor -> Count]
  /\ feature \in [Customer -> FeatureState]
  /\ applied \subseteq Offset
  /\ skipped \subseteq Offset
  /\ evictions \in 0..MaxFaults
  /\ faults \in 0..MaxFaults

Init ==
  /\ topic = <<>>
  /\ day = 0
  /\ committed = 0
  /\ owner = NoProcessor
  /\ proc = [p \in Processor |-> Down]
  /\ memory = [p \in Processor |-> Zero]
  /\ feature = [c \in Customer |-> NoKey]
  /\ applied = {}
  /\ skipped = {}
  /\ evictions = 0
  /\ faults = 0

Live(c) == feature[c].until = Never \/ day < feature[c].until
Cust(p) == topic[proc[p].off].cust
Up(p) == proc[p].at # "down"
Owns(p) == owner = p /\ proc[p].member
Held == owner \in Processor /\ proc[owner].member
\* A processor polls when it has been through the records of its last poll.
Polling(p) == proc[p].at = "poll" /\ proc[p].position = proc[p].fetched

-----------------------------------------------------------------------------
(* The world: producers, and the clock.                                    *)

\* A producer of the repository publishes a transaction dated today or earlier.
Publish ==
  /\ Len(topic) < MaxRecords
  /\ \E c \in Customer \cup {NoCustomer}, d \in day - Back .. day :
       topic' = Append(topic, [cust |-> c, at |-> d])
  /\ UNCHANGED <<day, committed, owner, proc, memory, feature, applied, skipped,
                 evictions, faults>>

Tick ==
  /\ day < MaxDay
  /\ day' = day + 1
  /\ UNCHANGED <<topic, committed, owner, proc, memory, feature, applied, skipped,
                 evictions, faults>>

-----------------------------------------------------------------------------
(* The consumer group, as kafka-python and the broker run it.              *)

\* The process starts with an empty customer_state and subscribes.
Start(p) ==
  /\ ~Up(p)
  /\ proc' = [proc EXCEPT ![p].at = "join"]
  /\ UNCHANGED <<topic, day, committed, owner, memory, feature, applied, skipped,
                 evictions, faults>>

\* The partition goes to q, which fetches from the committed offset `from`.
Assigned(P, q, from) ==
  [P EXCEPT ![q].position = from, ![q].fetched = from]

\* p joins and the group rebalances: a running owner commits its position when
\* it takes part, which it does in poll; the partition may go to any member.
Join(p) ==
  /\ proc[p].at = "join"
  /\ Held => Polling(owner)
  /\ committed' = IF Held THEN proc[owner].position ELSE committed
  /\ \E q \in Processor :
       /\ q = p \/ (Polling(q) /\ proc[q].member)
       /\ owner' = q
       /\ proc' = Assigned([proc EXCEPT ![p].at = "poll", ![p].member = TRUE,
                                        ![p].position = 0, ![p].fetched = 0],
                           q, committed')
  /\ UNCHANGED <<topic, day, memory, feature, applied, skipped, evictions,
                 faults>>

\* Mutant of Failover: only an owner that left the group is replaced.
FailoverOfLeaver(q) ==
  /\ owner = NoProcessor
  /\ Polling(q) /\ proc[q].member
  /\ owner' = q
  /\ proc' = Assigned(proc, q, committed)
  /\ UNCHANGED <<topic, day, committed, memory, feature, applied, skipped, evictions,
                 faults>>

\* The owner left, or its session timed out: another member takes over.
Failover(q) ==
  /\ ~Held
  /\ Polling(q) /\ proc[q].member
  /\ owner' = q
  /\ proc' = Assigned(proc, q, committed)
  /\ UNCHANGED <<topic, day, committed, memory, feature, applied, skipped, evictions,
                 faults>>

\* poll returns at most max_poll_records records.
Poll(p) ==
  /\ Owns(p) /\ Polling(p)
  /\ proc[p].position < Len(topic)
  /\ proc' = [proc EXCEPT ![p].fetched =
                IF proc[p].position + Batch < Len(topic)
                THEN proc[p].position + Batch ELSE Len(topic)]
  /\ UNCHANGED <<topic, day, committed, owner, memory, feature, applied, skipped,
                 evictions, faults>>

\* Mutant of AutoCommit: one more than the next offset.
CommitOneMore(p) ==
  /\ Owns(p) /\ Polling(p)
  /\ committed # proc[p].position
  /\ committed' = proc[p].position + 1
  /\ UNCHANGED <<topic, day, owner, proc, memory, feature, applied, skipped,
                 evictions, faults>>

\* Mutant of AutoCommit: what was fetched is committed as it is handed out.
CommitFetched(p) ==
  /\ Owns(p)
  /\ committed # proc[p].fetched
  /\ committed' = proc[p].fetched
  /\ UNCHANGED <<topic, day, owner, proc, memory, feature, applied, skipped,
                 evictions, faults>>

\* Every five seconds poll first commits the position: all records handed out.
AutoCommit(p) ==
  /\ Owns(p) /\ Polling(p)
  /\ committed # proc[p].position
  /\ committed' = proc[p].position
  /\ UNCHANGED <<topic, day, owner, proc, memory, feature, applied, skipped,
                 evictions, faults>>

\* A member that was evicted finds out when it polls.
Rejoin(p) ==
  /\ Polling(p) /\ ~proc[p].member
  /\ proc' = [proc EXCEPT ![p].at = "join"]
  /\ UNCHANGED <<topic, day, committed, owner, memory, feature, applied, skipped,
                 evictions, faults>>

-----------------------------------------------------------------------------
(* The loop.                                                               *)

\* The iterator moves the position past a record and hands it out; a record
\* without customer is passed over.
Take(p) ==
  LET i == proc[p].position + 1 IN
  /\ proc[p].at = "poll"
  /\ proc[p].position < proc[p].fetched
  /\ proc' = IF topic[i].cust = NoCustomer
             THEN [proc EXCEPT ![p].position = i]
             ELSE [proc EXCEPT ![p].position = i, ![p].at = "apply", ![p].off = i]
  /\ UNCHANGED <<topic, day, committed, owner, memory, feature, applied, skipped,
                 evictions, faults>>

\* How often list m counts the records of customer c dated from `first` on.
Since(m, c, first) ==
  [i \in Offset |-> IF m[i] > 0 /\ topic[i].cust = c /\ topic[i].at >= first
                    THEN m[i] ELSE 0]

\* Mutant of Kept: the list keeps what the 7 day window needs.
KeptShort(m, c) ==
  [i \in Offset |-> IF m[i] > 0 /\ topic[i].cust = c /\ topic[i].at < day - Short
                    THEN 0 ELSE m[i]]

\* A list without the records of customer c that are older than 30 days.
Kept(m, c) ==
  [i \in Offset |-> IF m[i] > 0 /\ topic[i].cust = c /\ topic[i].at < day - Long
                    THEN 0 ELSE m[i]]

\* The record is enriched and appended, old ones are dropped, and the features
\* are computed; customer_state is not shared, so this is one step.
Apply(p) ==
  LET i == proc[p].off
      m == Kept([memory[p] EXCEPT ![i] = @ + 1], Cust(p))
  IN
  /\ proc[p].at = "apply"
  /\ memory' = [memory EXCEPT ![p] = m]
  /\ proc' = [proc EXCEPT ![p].at = "write", ![p].asOf = day,
                          ![p].short = Since(m, Cust(p), day - Short),
                          ![p].long = Since(m, Cust(p), day - Long)]
  /\ UNCHANGED <<topic, day, committed, owner, feature, applied, skipped, evictions,
                 faults>>

\* Mutant of Write: no EXPIRE follows.
WriteOnly(p) ==
  /\ proc[p].at = "write"
  /\ feature' = [feature EXCEPT ![Cust(p)] =
       [until |-> IF Live(Cust(p)) THEN @.until ELSE Never,
        upto |-> proc[p].off, asOf |-> proc[p].asOf,
        short |-> proc[p].short, long |-> proc[p].long]]
  /\ applied' = applied \cup {proc[p].off}
  /\ proc' = [proc EXCEPT ![p].at = "poll", ![p].off = 0, ![p].asOf = 0,
                          ![p].short = Zero, ![p].long = Zero]
  /\ UNCHANGED <<topic, day, committed, owner, memory, skipped, evictions, faults>>

\* HSET: the hash keeps its expiry; a new hash has none.
Write(p) ==
  /\ proc[p].at = "write"
  /\ feature' = [feature EXCEPT ![Cust(p)] =
       [until |-> IF Live(Cust(p)) THEN @.until ELSE Never,
        upto |-> proc[p].off, asOf |-> proc[p].asOf,
        short |-> proc[p].short, long |-> proc[p].long]]
  /\ applied' = applied \cup {proc[p].off}
  /\ proc' = [proc EXCEPT ![p].at = "expire", ![p].short = Zero, ![p].long = Zero]
  /\ UNCHANGED <<topic, day, committed, owner, memory, skipped, evictions, faults>>

\* EXPIRE, which does nothing when the key is gone; then the next record.
Expire(p) ==
  /\ proc[p].at = "expire"
  /\ feature' = IF Live(Cust(p))
                THEN [feature EXCEPT ![Cust(p)].until = day + Ttl] ELSE feature
  /\ proc' = [proc EXCEPT ![p].at = "poll", ![p].off = 0, ![p].asOf = 0]
  /\ UNCHANGED <<topic, day, committed, owner, memory, applied, skipped, evictions,
                 faults>>

-----------------------------------------------------------------------------
(* Faults.                                                                 *)

Fails(kind) == kind \in Fault /\ faults < MaxFaults /\ faults' = faults + 1

\* An exception in the loop (Redis, a malformed record) or Ctrl-C: `finally`
\* closes the consumer, which commits the position and leaves the group.
Stop(p) ==
  /\ Up(p) /\ Fails("stop")
  /\ committed' = IF Owns(p) THEN proc[p].position ELSE committed
  /\ owner' = IF Owns(p) THEN NoProcessor ELSE owner
  /\ skipped' = IF proc[p].at \in {"apply", "write"}
                THEN skipped \cup {proc[p].off} ELSE skipped
  /\ proc' = [proc EXCEPT ![p] = Down]
  /\ memory' = [memory EXCEPT ![p] = Zero]
  /\ UNCHANGED <<topic, day, feature, applied, evictions>>

\* Mutant of Kill: customer_state outlives the process.
KillKeeping(p) ==
  /\ Up(p) /\ Fails("kill")
  /\ proc' = [proc EXCEPT ![p] = Down]
  /\ UNCHANGED <<topic, day, committed, owner, memory, feature, applied, skipped,
                 evictions>>

\* The process dies; the group finds out when its session times out.
Kill(p) ==
  /\ Up(p) /\ Fails("kill")
  /\ proc' = [proc EXCEPT ![p] = Down]
  /\ memory' = [memory EXCEPT ![p] = Zero]
  /\ UNCHANGED <<topic, day, committed, owner, feature, applied, skipped, evictions>>

\* A step of the loop takes longer than max_poll_interval_ms.
Evict(p) ==
  /\ Owns(p) /\ proc[p].at \in {"apply", "write", "expire"}
  /\ Fails("evict")
  /\ evictions' = evictions + 1
  /\ owner' = NoProcessor
  /\ proc' = [proc EXCEPT ![p].member = FALSE]
  /\ UNCHANGED <<topic, day, committed, memory, feature, applied, skipped>>

\* Redis evicts the features of a customer.
EvictKey(c) ==
  /\ Live(c) /\ Fails("lru")
  /\ feature' = [feature EXCEPT ![c] = NoKey]
  /\ UNCHANGED <<topic, day, committed, owner, proc, memory, applied, skipped, evictions>>

-----------------------------------------------------------------------------
(* The specification.                                                      *)

Group(p) == Join(p) \/ Failover(p) \/ AutoCommit(p) \/ Rejoin(p)
Loop(p) == Poll(p) \/ Take(p) \/ Apply(p) \/ Write(p) \/ Expire(p)

Next ==
  \/ Publish \/ Tick
  \/ \E p \in Processor : \/ Start(p) \/ Group(p) \/ Loop(p)
                          \/ Stop(p) \/ Kill(p) \/ Evict(p)
  \/ \E c \in Customer : EvictKey(c)

Spec == Init /\ [][Next]_vars

\* A running processor keeps going and the broker answers it; nothing restarts
\* a processor that stopped, and nobody promises that producers or time go on.
Fairness == \A p \in Processor : /\ WF_vars(Group(p))
                                 /\ WF_vars(Loop(p))
LiveSpec == Spec /\ Fairness

-----------------------------------------------------------------------------
(* Properties.                                                             *)

\* However processors die, fail and take over from each other, what a feature
\* counts twice is the work of an eviction: what a group delivers again is
\* otherwise delivered to a process that has not counted it (flink_job.py:422
\* appends without looking for duplicates), and an eviction adds one count.
CountedOncePerEviction ==
  \A c \in Customer, i \in Offset :
    feature[c].short[i] <= 1 + evictions /\ feature[c].long[i] <= 1 + evictions

\* A transaction the group will not deliver again is in the features that were
\* written, or was in hand when a processor's loop ended: the commit made by
\* consumer.close() (flink_job.py:445) is the only one that loses a record.
CommittedIsApplied ==
  \A i \in 1..committed : topic[i].cust = NoCustomer \/ i \in applied \cup skipped

\* A features key without expiry is about to get one, or a fault came between
\* HSET and EXPIRE (flink_job.py:406-407); a fault leaves one such key at most.
KeysExpire ==
  Cardinality({c \in Customer : /\ feature[c].until = Never
                                /\ \A p \in Processor :
                                     proc[p].at = "expire" => Cust(p) # c}) <= faults

\* In the end the group has committed everything, unless no processor is left:
\* the survivors take over what a dead processor had been assigned.
Drained == <>[](committed = Len(topic)) \/ <>[](\A p \in Processor : ~Up(p))

\* The features a customer has are those of the windows: "maintains per-customer
\* rolling windows (7d, 30d)" (add_tech_deepdive.py:98, of the Flink job whose
\* logic the local processor mimics, add_tech_deepdive.py:134).
Rolling == INSTANCE RollingWindow WITH
  shown <- [c \in Customer |->
              IF Live(c)
              THEN [upto |-> feature[c].upto, asOf |-> feature[c].asOf, live |-> TRUE,
                    short |-> feature[c].short, long |-> feature[c].long]
              ELSE [upto |-> 0, asOf |-> 0, live |-> FALSE]]

\* One processor that never fails implements the rolling windows: each write
\* shows exactly the window as of a record and a day, and neither goes back.
ImplementsRolling == Rolling!Spec

=============================================================================
