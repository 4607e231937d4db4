--------------------------- MODULE EventDelivery ----------------------------
(***************************************************************************)
(* What the consumers of the repository promise of the events of a topic,  *)
(* whatever happens to their processes: events are settled in the order of *)
(* the topic, by being handled or by being passed over; an event is        *)
(* handled again only after a fault that makes the group deliver it again. *)
(***************************************************************************)
EXTENDS Naturals, FiniteSets

CONSTANTS MaxEvents, \* bound: events published in a behaviour
          Width      \* how many events one step may pass over

VARIABLES published, \* how many events the topic holds
          done,      \* how often each event was handled
          lost,      \* events passed over without being handled
          replays    \* how often events were delivered anew so far

vars == <<published, done, lost, replays>>

Init ==
  /\ published = 0
  /\ done = [i \in 1..MaxEvents |-> 0]
  /\ lost = {}
  /\ replays = 0

Settled(i) == done[i] > 0 \/ i \in lost

\* All events before those of S are settled.
InOrder(S) == \A i \in S, j \in 1..MaxEvents : j < i => Settled(j) \/ j \in S

Publish ==
  /\ published < MaxEvents
  /\ published' = published + 1
  /\ UNCHANGED <<done, lost, replays>>

\* The events of S are handled: each for the first time, or anew after a replay.
Handle(S) ==
  /\ InOrder(S)
  /\ \A i \in S : done[i] <= replays
  /\ done' = [i \in 1..MaxEvents |-> IF i \in S THEN done[i] + 1 ELSE done[i]]
  /\ replays' \in {replays, replays + 1}
  /\ UNCHANGED <<published, lost>>

\* The events of S are passed over.
Lose(S) ==
  /\ InOrder(S)
  /\ Cardinality(S) <= Width
  /\ lost' = lost \cup S
  /\ replays' \in {replays, replays + 1}
  /\ UNCHANGED <<published, done>>

Next ==
  \/ Publish
  \/ \E S \in SUBSET (1..published) : Handle(S) \/ Lose(S)

Spec == Init /\ [][Next]_vars

=============================================================================
