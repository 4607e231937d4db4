------------------------------ MODULE Workflow ------------------------------
(***************************************************************************)
(* The live workflow: safety_workflow.py scores a transaction, notifies    *)
(* the customer through the API and posts a summary event to the frontend, *)
(* which keeps the newest events in a file.  It runs in a loop, or once,   *)
(* as a child of the frontend's route trigger-script.                      *)
(*                                                                         *)
(* /score ends in a TypeError before it answers (app.py:703 compares the   *)
(* id of the customer with a number of days), so the script always falls   *)
(* back on its heuristic, whose tier follows from the customer.  /notify   *)
(* (module Notification) is abstracted to whether its handler ends.        *)
(***************************************************************************)
EXTENDS Integers, Sequences

CONSTANTS Looping,   \* processes that run safety_workflow.py in its loop
          Child,     \* processes trigger-script may start
          MaxEvents, \* MAX_EVENTS of the route workflow-event
          MaxRuns,   \* bound: pipeline runs in a behaviour
          MaxFaults  \* bound: crashes and failed writes in a behaviour

VARIABLES runner,    \* where each process is in run_pipeline, and its locals
          runs,      \* how many runs have begun
          call,      \* the API's side of each run's /notify
          front,     \* is the Next.js server running?
          feed,      \* pdi_events.json
          trigger,   \* children whose POST to trigger-script waits for an answer
          stored,    \* history: events written to the file, the newest first
          answered,  \* history: runs whose event was answered with "ok"
          spoilt,    \* history: runs whose event a failing write left out
          gaveUp,    \* history: runs that stopped waiting for /notify
          faults     \* history: crashes and failed writes so far

vars == <<runner, runs, call, front, feed, trigger, stored, answered, spoilt, gaveUp,
          faults>>
posts == <<stored, answered, spoilt>>

Runner == Looping \cup Child
ASSUME WorkflowAssumption ==
  /\ Looping \cap Child = {}
  /\ MaxEvents \in Nat \ {0} /\ MaxRuns \in Nat /\ MaxFaults \in Nat

Run == 1..MaxRuns
Tier == {"stable", "watch", "critical"}
Event == [run: Run, tier: Tier,
          status: {"no_action", "dispatched", "dispatch_error"},
          channels: {"none", "attempted", "error"}]
\* Nothing has been decided about a notification that is not made.
Blank(n, tier) == [run |-> n, tier |-> tier, status |-> "no_action", channels |-> "none"]
RunnerState == [at: {"idle", "notify", "wait", "push", "reply"}, event: Event]
\* None yet; the handler runs; it has ended, whomever it contacted and also if it
\* caught an exception; the API went down under it.
CallState == {"none", "running", "ended", "lost"}

TypeOK ==
  /\ runs \in 0..MaxRuns
  /\ \A r \in Runner : runner[r].at = "idle" \/ runner[r] \in RunnerState
  /\ call \in [Run -> CallState]
  /\ front \in BOOLEAN
  /\ feed.ok \in BOOLEAN /\ feed.events \in Seq(Event) /\ Len(feed.events) <= MaxEvents
  /\ trigger \subseteq Child
  /\ stored \in Seq(Event)
  /\ answered \subseteq Run /\ spoilt \subseteq Run /\ gaveUp \subseteq Run
  /\ faults \in 0..MaxFaults

Idle == [at |-> "idle"]

Init ==
  /\ runner = [r \in Runner |-> Idle]
  /\ runs = 0
  /\ call = [n \in Run |-> "none"]
  /\ front = TRUE
  /\ feed = [ok |-> TRUE, events |-> <<>>]
  /\ trigger = {} /\ stored = <<>> /\ answered = {} /\ spoilt = {} /\ gaveUp = {}
  /\ faults = 0

Fault == faults < MaxFaults /\ faults' = faults + 1

-----------------------------------------------------------------------------
(* run_pipeline.                                                           *)

\* A transaction is drawn and scored: the loop goes round, or a POST to
\* trigger-script starts a child, whose end it waits for.
Begin(r) ==
  /\ runner[r] = Idle /\ r \notin trigger /\ runs < MaxRuns
  /\ runs' = runs + 1
  /\ \E tier \in Tier :
       runner' = [runner EXCEPT ![r] =
         [at |-> IF tier = "stable" THEN "push" ELSE "notify",
          event |-> Blank(runs + 1, tier)]]
  /\ IF r \in Child THEN front /\ trigger' = trigger \cup {r} ELSE UNCHANGED trigger
  /\ UNCHANGED <<call, front, feed, posts, gaveUp, faults>>

\* What the run goes on to push.
Push(r, status, channels) ==
  runner' = [runner EXCEPT ![r] =
    [at |-> "push", event |-> [@.event EXCEPT !.status = status, !.channels = channels]]]

\* The POST to /notify reaches the API, or is refused: no API, or no such key.
Notify(r) ==
  LET n == runner[r].event.run IN
  /\ runner[r].at = "notify"
  /\ \/ /\ call' = [call EXCEPT ![n] = "running"]
        /\ runner' = [runner EXCEPT ![r].at = "wait"]
     \/ Push(r, "dispatch_error", "error") /\ UNCHANGED call
  /\ UNCHANGED <<runs, front, feed, trigger, posts, gaveUp, faults>>

\* The handler of /notify ends, whether or not its caller still waits.
Serve(n) ==
  /\ call[n] = "running"
  /\ call' = [call EXCEPT ![n] = "ended"]
  /\ UNCHANGED <<runner, runs, front, feed, trigger, posts, gaveUp, faults>>

\* The answer is 200 even if the handler caught an exception: "dispatched".  Of its
\* results the script names those with status "sent", which no channel of the
\* dispatcher returns, so the event never says more than "attempted".
Receive(r) ==
  /\ runner[r].at = "wait"
  /\ call[runner[r].event.run] = "ended"
  /\ Push(r, "dispatched", "attempted")
  /\ UNCHANGED <<runs, call, front, feed, trigger, posts, gaveUp, faults>>

\* Mutant of GiveUp: a call that timed out is taken for a dispatched one.
GiveUpDispatched(r) ==
  /\ runner[r].at = "wait"
  /\ Push(r, "dispatched", "attempted")
  /\ gaveUp' = gaveUp \cup {runner[r].event.run}
  /\ UNCHANGED <<runs, call, front, feed, trigger, posts, faults>>

\* Mutant of GiveUp: requests.post has no timeout.
GiveUpIfLost(r) ==
  LET n == runner[r].event.run IN
  /\ runner[r].at = "wait" /\ call[n] = "lost"
  /\ Push(r, "dispatch_error", "error")
  /\ gaveUp' = gaveUp \cup {n}
  /\ UNCHANGED <<runs, call, front, feed, trigger, posts, faults>>

\* Ten seconds pass, or the connection is lost; the handler may still run.
GiveUp(r) ==
  LET n == runner[r].event.run IN
  /\ runner[r].at = "wait"
  /\ Push(r, "dispatch_error", "error")
  /\ gaveUp' = gaveUp \cup {n}
  /\ UNCHANGED <<runs, call, front, feed, trigger, posts, faults>>

\* The API goes down, and with it the handlers it was running.
ApiCrash ==
  /\ Fault
  /\ \E n \in Run : call[n] = "running"
  /\ call' = [n \in Run |-> IF call[n] = "running" THEN "lost" ELSE call[n]]
  /\ UNCHANGED <<runner, runs, front, feed, trigger, posts, gaveUp>>

\* A process is killed between two steps.
Kill(r) ==
  /\ runner[r] # Idle /\ Fault
  /\ runner' = [runner EXCEPT ![r] = Idle]
  /\ UNCHANGED <<runs, call, front, feed, trigger, posts, gaveUp>>

-----------------------------------------------------------------------------
(* The frontend.  Its server handles a POST in one go once it is read.     *)

\* Mutant of Kept: the new event goes to the end.
KeptLast(e) ==
  LET es == Append(feed.events, e)
  IN IF Len(es) > MaxEvents THEN SubSeq(es, 1, MaxEvents) ELSE es

\* The events once e has been put in front.
Kept(e) ==
  LET es == <<e>> \o feed.events
  IN IF Len(es) > MaxEvents THEN SubSeq(es, 1, MaxEvents) ELSE es

\* The handler reads, changes and writes the file in one synchronous stretch.  A
\* file that cannot be parsed is left alone; an access that fails leaves the file
\* as it was, or torn.  None of that is told to the poster.
Store(r) ==
  LET e == runner[r].event IN
  /\ runner[r].at = "push" /\ front
  /\ \/ /\ feed.ok
        /\ feed' = [feed EXCEPT !.events = Kept(e)] /\ stored' = <<e>> \o stored
        /\ UNCHANGED <<spoilt, faults>>
     \/ ~feed.ok /\ UNCHANGED <<feed, stored, spoilt, faults>>
     \/ /\ feed.ok /\ Fault
        /\ feed' \in {feed, [ok |-> FALSE, events |-> <<>>]}
        /\ spoilt' = spoilt \cup {e.run} /\ UNCHANGED stored
  /\ runner' = [runner EXCEPT ![r].at = "reply"]
  /\ UNCHANGED <<runs, call, front, trigger, answered, gaveUp>>

\* The event is answered with "ok", and the run ends.
Reply(r) ==
  /\ runner[r].at = "reply"
  /\ answered' = answered \cup {runner[r].event.run}
  /\ runner' = [runner EXCEPT ![r] = Idle]
  /\ UNCHANGED <<runs, call, front, feed, trigger, stored, spoilt, gaveUp, faults>>

\* No server answers: the event is lost.
Miss(r) ==
  /\ runner[r].at = "push" /\ ~front
  /\ runner' = [runner EXCEPT ![r] = Idle]
  /\ UNCHANGED <<runs, call, front, feed, trigger, posts, gaveUp, faults>>

\* trigger-script answers when its child has ended.
Answer(r) ==
  /\ r \in trigger /\ runner[r] = Idle /\ front
  /\ trigger' = trigger \ {r}
  /\ UNCHANGED <<runner, runs, call, front, feed, posts, gaveUp, faults>>

\* The server goes down, at worst while writeFileSync has written half a file; the
\* scripts it owes an answer go on without.
FrontCrash ==
  /\ front /\ Fault
  /\ front' = FALSE
  /\ trigger' = {}
  /\ \E cut \in SUBSET Runner :
       /\ \/ cut = {} /\ UNCHANGED feed
          \/ /\ \E r \in Runner : cut = {r} /\ runner[r].at = "push"
             /\ feed.ok /\ feed' = [ok |-> FALSE, events |-> <<>>]
       /\ runner' = [r \in Runner |-> IF r \in cut \/ runner[r].at = "reply"
                                     THEN Idle ELSE runner[r]]
  /\ UNCHANGED <<runs, call, posts, gaveUp>>

FrontStart ==
  /\ ~front
  /\ front' = TRUE
  /\ UNCHANGED <<runner, runs, call, feed, trigger, posts, gaveUp, faults>>

-----------------------------------------------------------------------------
Step(r) == Notify(r) \/ Receive(r) \/ GiveUp(r) \/ Store(r) \/ Reply(r) \/ Miss(r)
Next ==
  \/ \E r \in Runner : Begin(r) \/ Step(r) \/ Kill(r) \/ Answer(r)
  \/ \E n \in Run : Serve(n)
  \/ ApiCrash \/ FrontCrash \/ FrontStart

\* A process takes its next step, each request having a timeout; the API owes
\* nothing.  Node calls back when a child has ended.
Fairness == \A r \in Runner : WF_vars(Step(r)) /\ WF_vars(Answer(r))
Spec == Init /\ [][Next]_vars /\ Fairness

-----------------------------------------------------------------------------
(* Properties.                                                             *)

\* What an event in the feed says of the notification is what became of it: "no
\* action" is a stable customer nobody notified, "dispatched" a handler that got to
\* its end, and "dispatch_error" (safety_workflow.py:213) a notification the API
\* never took up, or one the script stopped waiting for.
StatusTruth ==
  \A i \in 1..Len(stored) :
    LET e == stored[i] IN
    /\ e.status = "no_action" => e.tier = "stable" /\ call[e.run] = "none"
    /\ e.status = "dispatched" => call[e.run] = "ended"
    /\ e.status = "dispatch_error" => call[e.run] = "none" \/ e.run \in gaveUp

\* The feed holds the newest MaxEvents of the events written to it, in the order of
\* their arrival and however many processes post them, and an event answered with
\* "ok" is among those written unless its own write failed.  That is so until a crash
\* or a failed write leaves a file that cannot be parsed (route.ts:85); from then on
\* events are answered with "ok" and lost.
FeedIsNewest ==
  IF feed.ok
  THEN /\ feed.events = SubSeq(stored, 1, IF Len(stored) < MaxEvents
                                          THEN Len(stored) ELSE MaxEvents)
       /\ \A n \in answered : n \in spoilt \/ \E i \in 1..Len(stored) : stored[i].run = n
  ELSE faults > 0

\* A run ends although the API may never answer, and whoever posted to
\* trigger-script, whose child posts to the same server, is answered unless the
\* server goes down.
RunsEnd ==
  /\ \A r \in Runner : runner[r] # Idle ~> runner[r] = Idle
  /\ \A r \in Child : r \in trigger ~> r \notin trigger

=============================================================================
