--------------------------- MODULE RollingWindow ----------------------------
(***************************************************************************)
(* What the documentation promises of the streaming features               *)
(* (SYSTEM_ARCHITECTURE.md 4.2, flink_job.py:28): per customer, features   *)
(* over the transactions of the last 7 and of the last 30 days, available  *)
(* for scoring until they are a week old.                                  *)
(*                                                                         *)
(* The feature values are functions of the transactions in the window, so  *)
(* a customer's features are the two windows themselves: how often each    *)
(* record of the topic is counted.                                         *)
(***************************************************************************)
EXTENDS Integers, Sequences

CONSTANTS Customer,   \* customers with features
          Offset,     \* positions in the topic
          Short, Long \* the windows, in days: 7 and 30

VARIABLES topic, \* records published: [cust, at]
          day,   \* the wall clock, in days
          shown  \* a customer's features: as of which record and day, or Gone

Gone == [upto |-> 0, asOf |-> 0, live |-> FALSE]

\* The records of customer c among the first u, dated `span` days before d at most.
Window(c, u, d, span) ==
  [i \in Offset |-> IF i <= u /\ topic[i].cust = c /\ topic[i].at >= d - span
                    THEN 1 ELSE 0]

Features(c, u, d) ==
  [upto |-> u, asOf |-> d, live |-> TRUE,
   short |-> Window(c, u, d, Short), long |-> Window(c, u, d, Long)]

Init ==
  /\ topic = <<>>
  /\ day = 0
  /\ shown = [c \in Customer |-> Gone]

\* A producer publishes a transaction.
Publish ==
  /\ Len(topic') = Len(topic) + 1
  /\ SubSeq(topic', 1, Len(topic)) = topic
  /\ UNCHANGED <<day, shown>>

\* A customer's features move on to a later record, a later day or both.
Refresh(c) ==
  /\ \E u \in shown[c].upto..Len(topic), d \in shown[c].asOf..day :
       shown' = [shown EXCEPT ![c] = Features(c, u, d)]
  /\ UNCHANGED <<topic, day>>

\* A day passes; features that were not refreshed may be dropped.
Tick ==
  /\ day' = day + 1
  /\ \E D \in SUBSET Customer :
       shown' = [c \in Customer |-> IF c \in D THEN Gone ELSE shown[c]]
  /\ UNCHANGED topic

Next ==
  \/ Publish \/ Tick
  \/ \E c \in Customer : Refresh(c)

Spec == Init /\ [][Next]_<<topic, day, shown>>

=============================================================================
