--------------------------- MODULE EventConsumer ----------------------------
(***************************************************************************)
(* The consumers that read a topic event by event: start_feedback_consumer *)
(* (feedback/feedback_consumer.py), which records the outcome of an        *)
(* intervention and a training label, and the two loops of PDIKafkaConsumer*)
(* (ingestion/kafka_consumer.py): consume, which hands each event to a     *)
(* handler, and consume_batch, which hands over a list when it is full.    *)
(*                                                                         *)
(* All rely on the automatic commits of kafka-python 2.0.2 and close their *)
(* consumer in a `finally`.  They differ in what an exception does to the  *)
(* loop.  One process runs the loop at a time; what the members of a group *)
(* do to each other is in StreamProcessor.                                 *)
(***************************************************************************)
EXTENDS Integers, Sequences, FiniteSets

CONSTANTS Loops,          \* the loops to consider, a subset of AnyLoop
          Intervention,   \* rows of the table interventions
          NoIntervention, \* an event without intervention_id
          Outcome,        \* paid, restructured, defaulted, no_response
          NoOutcome,      \* no outcome yet
          Batch,          \* events one poll returns at most
          BatchSize,      \* batch_size of consume_batch
          MaxMessages,    \* max_messages of consume; 0 for None
          Fault,          \* what may go wrong, a subset of AnyFault
          MaxEvents,      \* bound: events published in a behaviour
          MaxFaults       \* bound: faults in a behaviour

VARIABLES loop,       \* which of the loops this is
          topic,      \* the partition: a sequence of events
          committed,  \* the group's committed offset
          run,        \* where the process is in the loop, and its locals
          handled,    \* how often the handler completed for each event; for
                      \* feedback this is its rows in feedback_events
          outcome,    \* interventions.outcome
          passed,     \* history: events the loop went past without handling them
          faults      \* history: faults so far, by kind

vars == <<loop, topic, committed, run, handled, outcome, passed, faults>>

AnyLoop == {"feedback", "each", "batch"}
\* The process is killed; Ctrl-C; an exception in the handler.
AnyFault == {"kill", "interrupt", "error"}

ASSUME ConsumerAssumption ==
  /\ Loops \subseteq AnyLoop
  /\ NoIntervention \notin Intervention
  /\ NoOutcome \notin Outcome
  /\ Batch \in Nat \ {0} /\ BatchSize \in Nat \ {0} /\ MaxMessages \in Nat
  /\ Fault \subseteq AnyFault
  /\ MaxEvents \in Nat /\ MaxFaults \in Nat

Offset == 1..MaxEvents
Key == Intervention \cup {NoIntervention}

\* An event names customer and outcome, or lacks one ("invalid"), or refers to a
\* customer or an intervention that does not exist ("orphan").
Kind == {"good", "invalid", "orphan"}
Event == [kind: Kind, key: Key, outcome: Outcome]
\* Handlers of PDIKafkaConsumer are the caller's: all events are alike.
Inputs == IF loop = "feedback" THEN Event
          ELSE {[kind |-> "good", key |-> NoIntervention, outcome |-> o] : o \in Outcome}

Place == {"down", "poll", "handle", "flush"}
Down == [at |-> "down", position |-> 0, fetched |-> 0, held |-> {}, count |-> 0]
RunState == [at: Place, position: 0..MaxEvents, fetched: 0..MaxEvents,
             held: SUBSET Offset, count: Nat]

TypeOK ==
  /\ loop \in AnyLoop
  /\ topic \in Seq(Event) /\ Len(topic) <= MaxEvents
  /\ committed \in 0..Len(topic)
  /\ run \in RunState
  /\ handled \in [Offset -> Nat]
  /\ outcome \in [Intervention -> Outcome \cup {NoOutcome}]
  /\ passed \subseteq Offset
  /\ faults \in [AnyFault -> Nat]

Init ==
  /\ loop \in Loops
  /\ topic = <<>>
  /\ committed = 0
  /\ run = Down
  /\ handled = [i \in Offset |-> 0]
  /\ outcome = [k \in Intervention |-> NoOutcome]
  /\ passed = {}
  /\ faults = [f \in AnyFault |-> 0]

Faults == faults["kill"] + faults["interrupt"] + faults["error"]
Fails(kind) ==
  /\ kind \in Fault /\ Faults < MaxFaults
  /\ faults' = [faults EXCEPT ![kind] = @ + 1]

Up == run.at # "down"
\* The process polls when it has been through what the last poll returned.
Polling == run.at = "poll" /\ run.position = run.fetched

-----------------------------------------------------------------------------
(* Producers, and the consumer group of kafka-python.                      *)

Publish ==
  /\ Len(topic) < MaxEvents
  /\ \E e \in Inputs : topic' = Append(topic, e)
  /\ UNCHANGED <<loop, committed, run, handled, outcome, passed, faults>>

\* Mutant of Start: reading begins one event too early.
StartEarlier ==
  /\ ~Up
  /\ run' = [Down EXCEPT !.at = "poll",
                         !.position = IF committed > 0 THEN committed - 1 ELSE 0,
                         !.fetched = IF committed > 0 THEN committed - 1 ELSE 0]
  /\ UNCHANGED <<loop, topic, committed, handled, outcome, passed, faults>>

\* A process subscribes and reads on from the committed offset.
Start ==
  /\ ~Up
  /\ run' = [Down EXCEPT !.at = "poll", !.position = committed, !.fetched = committed]
  /\ UNCHANGED <<loop, topic, committed, handled, outcome, passed, faults>>

\* Mutant of Poll: a poll returns once there are two events.
PollTwo ==
  /\ Polling
  /\ run.position + 1 < Len(topic)
  /\ run' = [run EXCEPT !.fetched = IF run.position + Batch < Len(topic)
                                    THEN run.position + Batch ELSE Len(topic)]
  /\ UNCHANGED <<loop, topic, committed, handled, outcome, passed, faults>>

Poll ==
  /\ Polling
  /\ run.position < Len(topic)
  /\ run' = [run EXCEPT !.fetched = IF run.position + Batch < Len(topic)
                                    THEN run.position + Batch ELSE Len(topic)]
  /\ UNCHANGED <<loop, topic, committed, handled, outcome, passed, faults>>

\* Mutant of AutoCommit: what was fetched is committed as it is handed out.
CommitFetched ==
  /\ Up
  /\ committed # run.fetched
  /\ committed' = run.fetched
  /\ UNCHANGED <<loop, topic, run, handled, outcome, passed, faults>>

\* Every five seconds poll first commits the position: all events handed out,
\* those waiting in a batch included.
AutoCommit ==
  /\ Polling
  /\ committed # run.position
  /\ committed' = run.position
  /\ UNCHANGED <<loop, topic, run, handled, outcome, passed, faults>>

\* consumer.close() commits the position.
Close ==
  /\ committed' = run.position
  /\ run' = Down

-----------------------------------------------------------------------------
(* The loops.                                                              *)

\* The iterator moves the position past an event and hands it out.  An invalid
\* feedback event is passed over; a batch is handed over when it is full.
Take ==
  LET i == run.position + 1
      full == Cardinality(run.held) + 1 >= BatchSize
  IN
  /\ run.at = "poll"
  /\ run.position < run.fetched
  /\ \/ /\ loop = "feedback" /\ topic[i].kind = "invalid"
        /\ run' = [run EXCEPT !.position = i]
        /\ passed' = passed \cup {i}
     \/ /\ loop = "feedback" => topic[i].kind # "invalid"
        /\ run' = [run EXCEPT !.position = i, !.held = @ \cup {i},
                              !.at = IF loop = "batch" /\ ~full THEN "poll" ELSE "handle"]
        /\ UNCHANGED passed
  /\ UNCHANGED <<loop, topic, committed, handled, outcome, faults>>

\* How often events were handled once those of S have been, once more.
Again(S) == [i \in Offset |-> IF i \in S THEN handled[i] + 1 ELSE handled[i]]

\* Mutant of Recorded: an outcome on record stays.
FirstOutcome ==
  [k \in Intervention |->
     IF outcome[k] = NoOutcome /\ \E i \in run.held : topic[i].key = k
     THEN topic[CHOOSE i \in run.held : topic[i].key = k].outcome
     ELSE outcome[k]]

\* The table once the UPDATE of the event in hand has run.
Recorded ==
  [k \in Intervention |->
     IF loop = "feedback" /\ \E i \in run.held : topic[i].key = k
     THEN topic[CHOOSE i \in run.held : topic[i].key = k].outcome
     ELSE outcome[k]]

\* The handler completes.  For feedback: UPDATE and INSERT in one transaction,
\* which fails for an orphan.  consume stops after max_messages.
Handle ==
  /\ run.at = "handle"
  /\ loop = "feedback" => \A i \in run.held : topic[i].kind = "good"
  /\ handled' = Again(run.held)
  /\ outcome' = Recorded
  /\ IF loop = "each" /\ run.count + 1 = MaxMessages
     THEN Close
     ELSE /\ run' = [run EXCEPT !.at = "poll", !.held = {},
                                !.count = IF loop = "each" /\ MaxMessages > 0
                                          THEN @ + 1 ELSE 0]
          /\ UNCHANGED committed
  /\ UNCHANGED <<loop, topic, passed, faults>>

\* The batch is handed over once more as the process ends.
Flush ==
  /\ run.at = "flush"
  /\ handled' = Again(run.held)
  /\ Close
  /\ UNCHANGED <<loop, topic, outcome, passed, faults>>

-----------------------------------------------------------------------------
(* Faults.                                                                 *)

\* What an exception does: consume logs it and goes on, the others end.
Raised ==
  IF loop = "each"
  THEN run' = [run EXCEPT !.at = "poll", !.held = {}] /\ UNCHANGED committed
  ELSE Close

\* The handler raises, the database having rolled back: always for an orphan.
Raise ==
  /\ run.at \in {"handle", "flush"}
  /\ \/ /\ loop = "feedback" /\ \E i \in run.held : topic[i].kind = "orphan"
        /\ UNCHANGED faults
     \/ Fails("error")
  /\ Raised
  /\ passed' = passed \cup run.held
  /\ UNCHANGED <<loop, topic, handled, outcome>>

\* Ctrl-C.  consume_batch hands over what it holds, even if the handler was at
\* it; the others close, and the event in hand is passed.
Interrupt ==
  /\ Up /\ Fails("interrupt")
  /\ \/ /\ loop # "batch" \/ run.held = {} \/ run.at = "flush"
        /\ Close
        /\ passed' = passed \cup run.held
        /\ UNCHANGED handled
     \/ /\ loop = "batch" /\ run.held # {} /\ run.at # "flush"
        /\ run' = [run EXCEPT !.at = "flush"]
        /\ \/ UNCHANGED handled
           \/ run.at = "handle" /\ handled' = Again(run.held)
        /\ UNCHANGED <<committed, passed>>
  /\ UNCHANGED <<loop, topic, outcome>>

\* The process dies without a commit; a batch in memory is gone.
Kill ==
  /\ Up /\ Fails("kill")
  /\ passed' = passed \cup {i \in run.held : i <= committed}
  /\ run' = Down
  /\ UNCHANGED <<loop, topic, committed, handled, outcome>>

-----------------------------------------------------------------------------
(* The specification.                                                      *)

Consume == AutoCommit \/ Poll \/ Take \/ Handle \/ Flush
Next == Publish \/ Start \/ Consume \/ Raise \/ Interrupt \/ Kill
Spec == Init /\ [][Next]_vars

\* A running process goes on: it polls while it can, and its handler returns or
\* raises.  Nothing restarts it.
Fairness == WF_vars(Poll \/ Take \/ Handle \/ Flush \/ Raise)
LiveSpec == Spec /\ Fairness

-----------------------------------------------------------------------------
(* Properties.                                                             *)

\* How many faults so far made the group, or the loop, deliver events again.
Replays == faults["kill"] + (IF loop = "batch" THEN faults["interrupt"] ELSE 0)

Lost(i) ==
  /\ i <= committed /\ handled[i] = 0 /\ i \notin run.held
  /\ loop = "feedback" => topic[i].kind = "good"
Width == IF loop = "batch" THEN BatchSize ELSE 1

\* What the group will not deliver again was handled, or is in hand, or could
\* not be recorded, but for the events a fault found in hand: one, or a batch.
\* The commit of consumer.close() (feedback_consumer.py:87) loses no others.
LossPerFault == Cardinality({i \in 1..Len(topic) : Lost(i)}) <= Width * Faults

\* o is the outcome of an event of k after which all were passed over.
Latest(k, o) ==
  LET mine == {i \in 1..Len(topic) : topic[i].key = k}
      left == mine \ passed
  IN \/ left = {} /\ o = NoOutcome
     \/ \E i \in mine : /\ handled[i] > 0 /\ topic[i].outcome = o
                       /\ \A j \in left : j <= i

\* A consumer that has caught up has left each intervention with the outcome of
\* its latest event, although after a crash older events are applied again over
\* newer ones (feedback_consumer.py:44-49 updates unconditionally).  Only where
\* the replay itself is cut short by an exception does the older one stay: then
\* close() commits past the newer event, which counts as passed over.
OutcomeIsLatest ==
  loop = "feedback" /\ Up /\ run.position = Len(topic) /\ run.held = {} =>
    \A k \in Intervention : Latest(k, outcome[k])

\* While a process runs, every event is handled or passed over, or waits in a
\* batch that is not full, for as long as no further event comes: the iterator
\* of consume_batch has no timeout (kafka_consumer.py:84-91).
WorkedOff ==
  \A i \in Offset :
    i <= Len(topic) ~> \/ handled[i] > 0 \/ i \in passed
                       \/ i \in run.held /\ Cardinality(run.held) < BatchSize
                       \/ ~Up

\* The consumer as EventDelivery sees it.
Delivery == INSTANCE EventDelivery WITH
  Width <- BatchSize, published <- Len(topic), done <- handled, lost <- passed,
  replays <- Replays

\* Whatever the loop, events are settled in their order, and a handler sees one
\* again, so that a training label is inserted twice (feedback_consumer.py:56), only
\* if a process was killed after its last commit or, in consume_batch, interrupted
\* within its handler: at most once more for each such fault.
ImplementsDelivery == Delivery!Spec

=============================================================================
