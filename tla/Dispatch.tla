------------------------------ MODULE Dispatch ------------------------------
(***************************************************************************)
(* The Celery intervention pipeline: intervention/tasks.py and the parts   *)
(* it calls, cooldown_manager.py, rules_engine.py, channel_optimizer.py    *)
(* and outreach.py, with the feedback consumer that writes outcomes back.  *)
(*                                                                         *)
(* Every worker process executes dispatch_intervention one access to       *)
(* shared state at a time: Redis holds the cooldown and risk-tier keys,    *)
(* PostgreSQL the interventions table.  A worker may crash or an access    *)
(* may raise at any of those points; the broker then runs the task again.  *)
(***************************************************************************)
EXTENDS Integers, Sequences, FiniteSets

CONSTANTS Customer,     \* customers
          Task,         \* dispatch_intervention messages sent to the broker
          Worker,       \* pool processes of the Celery workers
          NoTask,       \* what an idle worker executes
          Tier,         \* the tiers producers enqueue dispatches for
          Channel,      \* outreach channels, the profile's included
          Preferred,    \* customers.preferred_channel
          MaxRetries,   \* max_retries of the task: 3
          WatchDays,    \* cooldown after a watch dispatch: 7
          CriticalDays, \* cooldown after a critical dispatch: 3
          WindowDays,   \* look-back of the escalation query: 30
          MaxDay,       \* bound: the clock stops here
          MaxFaults     \* bound: crashes, errors and evicted keys in a behaviour

VARIABLES day,      \* the wall clock, in days
          tasks,    \* broker and result backend: state of each message
          work,     \* what each worker process is doing, with its locals
          cooldown, \* Redis cooldown:{id}: last day + 1 of the period, 0 if no key
          riskTier, \* Redis risk_tier:{id}
          rows,     \* interventions table, by task and execution
          outreach, \* history: the channel branches of send_outreach that were carried
                    \* out for each customer, in order
          faults    \* history: crashes, errors and evicted keys so far

vars == <<day, tasks, work, cooldown, riskTier, rows, outreach, faults>>

ChannelOrder == <<"app", "sms", "email", "rm_call">>

ASSUME DispatchAssumption ==
  /\ NoTask \notin Task
  /\ Tier \subseteq {"watch", "critical"}
  /\ \A i \in 1..4 : ChannelOrder[i] \in Channel
  /\ Preferred \in [Customer -> Channel]
  /\ MaxRetries \in Nat /\ MaxDay \in Nat /\ MaxFaults \in Nat
  /\ WatchDays \in Nat \ {0} /\ CriticalDays \in Nat \ {0} /\ WindowDays \in Nat \ {0}

Attempt == 1..(MaxFaults + 1)
Row == Task \X Attempt
Ended == {"dispatched", "skipped", "failed", "lost"}
Step == {"idle", "check", "expire", "level", "readTier", "writeTier",
         "channel", "save", "deliver", "mark", "cool", "ack"}

Idle == [at |-> "idle", task |-> NoTask, level |-> 0, prev |-> "none", chan |-> "app"]
NoRow == [status |-> "absent", outcome |-> "null", sentAt |-> 0, chan |-> "app"]

TaskState == [status: {"new", "queued", "running"} \cup Ended,
              cust: Customer, tier: {"watch", "critical"},
              attempt: Attempt, retries: 0..MaxRetries]
WorkState == [at: Step, task: Task \cup {NoTask}, level: 0..2,
              prev: {"none", "new", "watch", "critical"}, chan: Channel]
RowState == [status: {"absent", "pending", "sent"},
             outcome: {"null", "no_response", "responded"},
             sentAt: 0..MaxDay, chan: Channel]
Outreach == [row: Row, tier: {"watch", "critical"}, chan: Channel, at: 0..MaxDay]

TypeOK ==
  /\ day \in 0..MaxDay
  /\ tasks \in [Task -> TaskState]
  /\ work \in [Worker -> WorkState]
  /\ cooldown \in [Customer -> Nat]
  /\ riskTier \in [Customer -> {"none", "watch", "critical"}]
  /\ rows \in [Row -> RowState]
  /\ outreach \in [Customer -> Seq(Outreach)]
  /\ faults \in 0..MaxFaults

Init ==
  /\ day = 0
  /\ tasks \in [Task -> {[status |-> "new", cust |-> c, tier |-> k, attempt |-> 1,
                          retries |-> 0] : c \in Customer, k \in Tier}]
  /\ work = [w \in Worker |-> Idle]
  /\ cooldown = [c \in Customer |-> 0]
  /\ riskTier = [c \in Customer |-> "none"]
  /\ rows = [r \in Row |-> NoRow]
  /\ outreach = [c \in Customer |-> <<>>]
  /\ faults = 0

-----------------------------------------------------------------------------
(* What the code computes from what it read.                               *)

Cust(w) == tasks[work[w].task].cust
TierOf(w) == tasks[work[w].task].tier
RowOf(w) == <<work[w].task, tasks[work[w].task].attempt>>
CooldownDays(k) == IF k = "critical" THEN CriticalDays ELSE WatchDays


\* The cooldown key exists and its period has not ended.
InCooldown(c) == day < cooldown[c]
\* The key is still there although its period has ended: Redis drops it a
\* moment after the deadline stored in it.
Expired(c) == cooldown[c] # 0 /\ ~InCooldown(c)

Saved(r) == rows[r].status # "absent"
RowsOf(c) == {r \in Row : Saved(r) /\ tasks[r[1]].cust = c}

\* SQL binds AND tighter than OR: rows without outcome count for their own
\* customer at any age, unanswered ones count whoever the customer is.
NoResponse(c) ==
  {r \in Row : Saved(r) /\ (\/ tasks[r[1]].cust = c /\ rows[r].outcome = "null"
                            \/ /\ rows[r].outcome = "no_response"
                               /\ rows[r].sentAt > day - WindowDays)}

EscalationLevel(c, worsening) ==
  LET n == Cardinality(NoResponse(c))
  IN  IF n >= 3 \/ (n >= 1 /\ worsening) THEN 2 ELSE IF n >= 1 THEN 1 ELSE 0

TierRank(k) == IF k = "critical" THEN 2 ELSE IF k = "watch" THEN 1 ELSE 0

\* What check_tier_transition returns for the tier it found and the new one.
Transition(seen, new) ==
  IF seen = "none" THEN "new"
  ELSE IF TierRank(new) > TierRank(seen) THEN seen ELSE "none"

Using(c, ch) == {r \in RowsOf(c) : rows[r].chan = ch}
Answered(c, ch) ==
  {r \in Using(c, ch) : rows[r].outcome \notin {"null", "no_response"}}

\* Channels with the best response rate, if that is above 0.3.
BestChannels(c) ==
  {b \in {rows[r].chan : r \in RowsOf(c)} :
     /\ 10 * Cardinality(Answered(c, b)) > 3 * Cardinality(Using(c, b))
     /\ \A ch \in {rows[r].chan : r \in RowsOf(c)} :
          Cardinality(Answered(c, b)) * Cardinality(Using(c, ch))
            >= Cardinality(Answered(c, ch)) * Cardinality(Using(c, b))}

\* The channels send_outreach has a branch for.
Served(ch) == \E i \in 1..4 : ch = ChannelOrder[i]

\* Position in the escalation order; a channel that is not in it counts as the first.
Directness(ch) ==
  IF ch = "rm_call" THEN 4 ELSE IF ch = "email" THEN 3 ELSE IF ch = "sms" THEN 2 ELSE 1

\* Mutant of Escalated: the first escalation keeps the preferred channel.
EscalatedLate(ch, level) ==
  IF level <= 1 THEN ch ELSE ChannelOrder[4]

Escalated(ch, level) ==
  IF level = 0 THEN ch
  ELSE ChannelOrder[IF Directness(ch) + level > 4 THEN 4 ELSE Directness(ch) + level]

\* The results select_optimal_channel can return.
OptimalChannels(c, k, level) ==
  IF k = "critical" \/ level >= 2 THEN {"rm_call"}
  ELSE IF BestChannels(c) # {} THEN BestChannels(c)
  ELSE {Escalated(Preferred[c], level)}

-----------------------------------------------------------------------------
(* The broker.                                                             *)

\* A producer calls dispatch_intervention.delay.
Enqueue(t) ==
  /\ tasks[t].status = "new"
  /\ tasks' = [tasks EXCEPT ![t].status = "queued"]
  /\ UNCHANGED <<day, work, cooldown, riskTier, rows, outreach, faults>>

\* A free worker process takes a message; acks_late leaves it unacknowledged.
Start(w) ==
  /\ work[w].at = "idle"
  /\ \E t \in Task :
       /\ tasks[t].status = "queued"
       /\ tasks' = [tasks EXCEPT ![t].status = "running"]
       /\ work' = [work EXCEPT ![w] = [Idle EXCEPT !.at = "check", !.task = t]]
  /\ UNCHANGED <<day, cooldown, riskTier, rows, outreach, faults>>

\* The execution of w returns s and its message is acknowledged.
Finish(w, s) ==
  /\ tasks' = [tasks EXCEPT ![work[w].task].status = s]
  /\ work' = [work EXCEPT ![w] = Idle]

\* The message of w is delivered again, as another execution of the task.
Again(w, tries) ==
  /\ tasks' = [tasks EXCEPT ![work[w].task].status = "queued",
                            ![work[w].task].attempt = @ + 1,
                            ![work[w].task].retries = tries]
  /\ work' = [work EXCEPT ![w] = Idle]

-----------------------------------------------------------------------------
(* dispatch_intervention, one access to shared state per action.           *)

GoTo(w, s) == work' = [work EXCEPT ![w].at = s]

\* Mutant of CheckCooldown: the cooldown binds critical customers too.
CheckCooldownAll(w) ==
  /\ work[w].at = "check"
  /\ IF InCooldown(Cust(w)) THEN Finish(w, "skipped")
     ELSE UNCHANGED tasks /\ GoTo(w, IF Expired(Cust(w)) THEN "expire" ELSE "level")
  /\ UNCHANGED <<day, cooldown, riskTier, rows, outreach, faults>>

\* should_intervene reads the cooldown key: a watch customer in cooldown is
\* skipped, a critical one goes on, raised to level 1 at least.
CheckCooldown(w) ==
  LET c == Cust(w) IN
  /\ work[w].at = "check"
  /\ \/ /\ InCooldown(c) /\ TierOf(w) = "watch"
        /\ Finish(w, "skipped")
     \/ /\ InCooldown(c) /\ TierOf(w) = "critical"
        /\ work' = [work EXCEPT ![w].at = "level", ![w].level = 1]
        /\ UNCHANGED tasks
     \/ /\ Expired(c)
        /\ GoTo(w, "expire")
        /\ UNCHANGED tasks
     \/ /\ cooldown[c] = 0
        /\ GoTo(w, "level")
        /\ UNCHANGED tasks
  /\ UNCHANGED <<day, cooldown, riskTier, rows, outreach, faults>>

\* is_in_cooldown deletes the key it found expired, whatever it holds by now.
DeleteCooldown(w) ==
  /\ work[w].at = "expire"
  /\ cooldown' = [cooldown EXCEPT ![Cust(w)] = 0]
  /\ GoTo(w, "level")
  /\ UNCHANGED <<day, tasks, riskTier, rows, outreach, faults>>

\* get_escalation_level; the last two scores are another process's business.
GetLevel(w) ==
  /\ work[w].at = "level"
  /\ \E worsening \in BOOLEAN :
       LET n == EscalationLevel(Cust(w), worsening)
       IN  work' = [work EXCEPT ![w].at = "readTier",
                                ![w].level = IF n > @ THEN n ELSE @]
  /\ UNCHANGED <<day, tasks, cooldown, riskTier, rows, outreach, faults>>

\* check_tier_transition: GET, then SET of the new tier.
ReadTier(w) ==
  /\ work[w].at = "readTier"
  /\ work' = [work EXCEPT ![w].at = "writeTier", ![w].prev = riskTier[Cust(w)]]
  /\ UNCHANGED <<day, tasks, cooldown, riskTier, rows, outreach, faults>>

\* A watch or critical customer gets an intervention with or without transition.
WriteTier(w) ==
  /\ work[w].at = "writeTier"
  /\ riskTier' = [riskTier EXCEPT ![Cust(w)] = TierOf(w)]
  /\ work' = [work EXCEPT ![w].at = "channel", ![w].prev = Transition(@, TierOf(w))]
  /\ UNCHANGED <<day, tasks, cooldown, rows, outreach, faults>>

SelectChannel(w) ==
  /\ work[w].at = "channel"
  /\ \E ch \in OptimalChannels(Cust(w), TierOf(w), work[w].level) :
       work' = [work EXCEPT ![w].at = "save", ![w].chan = ch]
  /\ UNCHANGED <<day, tasks, cooldown, riskTier, rows, outreach, faults>>

\* Mutant of SaveIntervention: the cooldown is claimed before the outreach.
SaveAndCool(w) ==
  /\ work[w].at = "save"
  /\ rows' = [rows EXCEPT ![RowOf(w)] =
                [status |-> "pending", outcome |-> "null", sentAt |-> day,
                 chan |-> work[w].chan]]
  /\ cooldown' = [cooldown EXCEPT ![Cust(w)] = day + CooldownDays(TierOf(w))]
  /\ GoTo(w, "deliver")
  /\ UNCHANGED <<day, tasks, riskTier, outreach, faults>>

SaveIntervention(w) ==
  /\ work[w].at = "save"
  /\ rows' = [rows EXCEPT ![RowOf(w)] =
                [status |-> "pending", outcome |-> "null", sentAt |-> day,
                 chan |-> work[w].chan]]
  /\ GoTo(w, "deliver")
  /\ UNCHANGED <<day, tasks, cooldown, riskTier, outreach, faults>>

\* send_outreach carries out the branch of the channel: "app" puts a notification
\* into the customer's list in Redis, "sms", "email" and "rm_call" only write a line
\* to the log, and for any other channel there is no branch ...
RunChannel(w) ==
  /\ work[w].at = "deliver"
  /\ outreach' = IF Served(work[w].chan)
                 THEN [outreach EXCEPT ![Cust(w)] =
                         Append(@, [row |-> RowOf(w), tier |-> TierOf(w),
                                    chan |-> work[w].chan, at |-> day])]
                 ELSE outreach
  /\ GoTo(w, "mark")
  /\ UNCHANGED <<day, tasks, cooldown, riskTier, rows, faults>>

\* ... and then updates the row, whichever channel it was.
MarkSent(w) ==
  /\ work[w].at = "mark"
  /\ rows' = [rows EXCEPT ![RowOf(w)].status = "sent", ![RowOf(w)].sentAt = day,
                          ![RowOf(w)].chan = work[w].chan]
  /\ GoTo(w, "cool")
  /\ UNCHANGED <<day, tasks, cooldown, riskTier, outreach, faults>>

\* Mutant of SetCooldown: a cooldown in force is extended, not overwritten.
ExtendCooldown(w) ==
  /\ work[w].at = "cool"
  /\ cooldown' = [cooldown EXCEPT ![Cust(w)] =
                    (IF InCooldown(Cust(w)) THEN @ ELSE day) + CooldownDays(TierOf(w))]
  /\ GoTo(w, "ack")
  /\ UNCHANGED <<day, tasks, riskTier, rows, outreach, faults>>

\* set_cooldown overwrites the key.
SetCooldown(w) ==
  /\ work[w].at = "cool"
  /\ cooldown' = [cooldown EXCEPT ![Cust(w)] = day + CooldownDays(TierOf(w))]
  /\ GoTo(w, "ack")
  /\ UNCHANGED <<day, tasks, riskTier, rows, outreach, faults>>

\* The task returns "dispatched" and its message is acknowledged.
Acknowledge(w) ==
  /\ work[w].at = "ack"
  /\ Finish(w, "dispatched")
  /\ UNCHANGED <<day, cooldown, riskTier, rows, outreach, faults>>

-----------------------------------------------------------------------------
(* Errors and crashes.                                                     *)

\* An access raises and the task retries itself from the start, or gives up.
Raise(w) ==
  LET t == work[w].task IN
  /\ work[w].at \notin {"idle", "deliver", "mark", "ack"}
  /\ faults < MaxFaults
  /\ faults' = faults + 1
  /\ \/ /\ tasks[t].retries < MaxRetries
        /\ Again(w, tasks[t].retries + 1)
     \/ /\ tasks[t].retries = MaxRetries
        /\ Finish(w, "failed")
  /\ UNCHANGED <<day, cooldown, riskTier, rows, outreach>>

\* Mutant of OutreachFails: the row is updated although the branch failed.
FailureMarkedSent(w) ==
  /\ work[w].at = "deliver"
  /\ faults < MaxFaults
  /\ faults' = faults + 1
  /\ GoTo(w, "mark")
  /\ UNCHANGED <<day, tasks, cooldown, riskTier, rows, outreach>>

\* Mutant of OutreachFails: a failed update runs the branch once more.
FailureResends(w) ==
  /\ work[w].at = "mark"
  /\ faults < MaxFaults
  /\ faults' = faults + 1
  /\ GoTo(w, "deliver")
  /\ UNCHANGED <<day, tasks, cooldown, riskTier, rows, outreach>>

\* send_outreach swallows its own errors; the task ignores what it returns.
OutreachFails(w) ==
  /\ work[w].at \in {"deliver", "mark"}
  /\ faults < MaxFaults
  /\ faults' = faults + 1
  /\ GoTo(w, "cool")
  /\ UNCHANGED <<day, tasks, cooldown, riskTier, rows, outreach>>

\* Mutant of Crash: the message of a dead worker is never delivered again.
CrashForgets(w) ==
  /\ work[w].at # "idle"
  /\ faults < MaxFaults
  /\ faults' = faults + 1
  /\ work' = [work EXCEPT ![w] = Idle]
  /\ UNCHANGED <<day, tasks, cooldown, riskTier, rows, outreach>>

\* The whole worker dies: its unacknowledged message is delivered again.  Only
\* the pool process dies: Celery acknowledges the message and the task is lost.
Crash(w) ==
  /\ work[w].at # "idle"
  /\ faults < MaxFaults
  /\ faults' = faults + 1
  /\ \/ Again(w, tasks[work[w].task].retries)
     \/ Finish(w, "lost")
  /\ UNCHANGED <<day, cooldown, riskTier, rows, outreach>>

-----------------------------------------------------------------------------
(* The environment.                                                        *)

\* The feedback consumer records how a customer reacted to an intervention.
Feedback(r) ==
  /\ \E c \in Customer : \E i \in DOMAIN outreach[c] : outreach[c][i].row = r
  /\ \E o \in {"no_response", "responded"} :
       rows' = [rows EXCEPT ![r].outcome = o]
  /\ UNCHANGED <<day, tasks, work, cooldown, riskTier, outreach, faults>>

\* Redis drops a key whose time to live is over.
ExpireKey(c) ==
  /\ Expired(c)
  /\ cooldown' = [cooldown EXCEPT ![c] = 0]
  /\ UNCHANGED <<day, tasks, work, riskTier, rows, outreach, faults>>

\* Redis is full and evicts a key in use (maxmemory-policy allkeys-lru); the
\* code cannot tell that from a key that was never set.
EvictKey(c) ==
  /\ faults < MaxFaults
  /\ faults' = faults + 1
  /\ \/ /\ InCooldown(c)
        /\ cooldown' = [cooldown EXCEPT ![c] = 0]
        /\ UNCHANGED riskTier
     \/ /\ riskTier[c] # "none"
        /\ riskTier' = [riskTier EXCEPT ![c] = "none"]
        /\ UNCHANGED cooldown
  /\ UNCHANGED <<day, tasks, work, rows, outreach>>

\* Time passes; no key outlives the day its period ends on.
Tick ==
  /\ day < MaxDay
  /\ \A c \in Customer : ~Expired(c)
  /\ day' = day + 1
  /\ UNCHANGED <<tasks, work, cooldown, riskTier, rows, outreach, faults>>

-----------------------------------------------------------------------------

Execute(w) ==
  \/ CheckCooldown(w) \/ DeleteCooldown(w) \/ GetLevel(w)
  \/ ReadTier(w) \/ WriteTier(w) \/ SelectChannel(w)
  \/ SaveIntervention(w) \/ RunChannel(w) \/ MarkSent(w) \/ SetCooldown(w) \/ Acknowledge(w)

Fault(w) == Raise(w) \/ OutreachFails(w) \/ Crash(w)

Next ==
  \/ \E t \in Task : Enqueue(t)
  \/ \E w \in Worker : Start(w) \/ Execute(w) \/ Fault(w)
  \/ \E r \in Row : Feedback(r)
  \/ \E c \in Customer : ExpireKey(c) \/ EvictKey(c)
  \/ Tick

\* Worker processes run: each takes a waiting message and goes on with the one
\* it has.  Nothing is assumed of producers, customers, faults or the clock.
Fairness == \A w \in Worker : WF_vars(Start(w)) /\ WF_vars(Execute(w))

Spec == Init /\ [][Next]_vars /\ Fairness

-----------------------------------------------------------------------------
(* Properties that hold.                                                   *)

\* A watch customer gets outreach only once the cooldown of the customer's latest
\* outreach is over, whichever tier that was for.
OutreachSpaced ==
  \A c \in Customer : \A i \in 2..Len(outreach[c]) :
    outreach[c][i].tier = "watch" =>
      outreach[c][i].at >= outreach[c][i-1].at + CooldownDays(outreach[c][i-1].tier)

\* An execution is past should_intervene's read of the cooldown key and has not set
\* the key yet.
Passed(w) == work[w].at \notin {"idle", "check", "ack"}

\* No two executions for one customer are between the two at a time, the condition
\* under which the next property and SilenceEscalates hold: always with one worker
\* process, with several only if customers' dispatches come one by one.
Apart == \A v, w \in Worker : v # w /\ Passed(v) /\ Passed(w) => Cust(v) # Cust(w)

\* Executions that stay apart keep to the cooldowns as long as no process has
\* crashed, no access has raised and Redis has evicted nothing
\* (cooldown_manager.should_intervene with set_cooldown).
CooldownRespected == faults = 0 => OutreachSpaced

\* Outreach of the customer c to the watch tier, from the i-th on, that falls into
\* the shortest cooldown the i-th began.
Crowded(c, i) ==
  {j \in i..Len(outreach[c]) :
     /\ outreach[c][j].tier = "watch"
     /\ \A k \in Tier : outreach[c][j].at < outreach[c][i].at + CooldownDays(k)}


\* A row of the interventions table says "sent" over "app" only if that execution
\* has put a notification into its customer's list, no later than the row says,
\* through crashes, retries and redeliveries (the row is updated last).  Over the
\* other channels "sent" stands for a line in the log.
SentIsStored ==
  \A r \in Row : rows[r].status = "sent" /\ rows[r].chan = "app" =>
    LET sent == outreach[tasks[r[1]].cust]
    IN  \E i \in DOMAIN sent :
          sent[i].row = r /\ sent[i].chan = "app" /\ sent[i].at <= rows[r].sentAt

OutreachOf(t) ==
  {p \in UNION {{c} \X DOMAIN outreach[c] : c \in Customer} :
     outreach[p[1]][p[2]].row[1] = t}

\* A task carries out its outreach at most once per execution the faults cost: no
\* more often than once plus the number of crashes and errors it met, and a task
\* that was skipped or dropped out on its first execution never did (retry and
\* acks_late redelivery of dispatch_intervention).
OutreachNeedsExecutions ==
  \A t \in Task :
    /\ Cardinality(OutreachOf(t)) <= tasks[t].attempt
    /\ tasks[t].status \in {"queued", "skipped"} =>
         Cardinality(OutreachOf(t)) < tasks[t].attempt

\* A cooldown is in force only for a customer an intervention was saved for,
\* and never for longer than the period of the tiers saved: no customer is
\* silenced with nothing on record.
CooldownOnRecord ==
  \A c \in Customer : InCooldown(c) =>
    \E r \in RowsOf(c) :
      cooldown[c] <= day + CooldownDays(tasks[r[1]].tier)

\* Without faults a task is skipped only for a customer that had outreach before,
\* and "dispatched" only if it carried out outreach itself: no interleaving of the
\* workers makes a customer with a served channel fall through.
NobodyFallsThrough ==
  faults = 0 => \A t \in {u \in Task : Served(Preferred[tasks[u].cust])} :
    /\ tasks[t].status = "skipped" => outreach[tasks[t].cust] # <<>>
    /\ tasks[t].status = "dispatched" => OutreachOf(t) # {}

\* Where executions stay apart and nobody answers, every outreach after the first
\* is over a more direct channel than the customer's preferred one
\* (get_escalation_level with select_optimal_channel).
SilenceEscalates ==
  \A c \in Customer :
    (\A r \in RowsOf(c) : rows[r].outcome = "null") =>
      \A i \in 2..Len(outreach[c]) :
        LET ch == rows[outreach[c][i].row].chan
        IN  ch = "rm_call" \/ Directness(ch) > Directness(Preferred[c])

\* Every message a producer enqueued is brought to an end, whatever crashes
\* and errors happen: skipped, dispatched, failed after its retries or lost.
Settles == <>[](\A t \in Task : tasks[t].status \in {"new"} \cup Ended)

\* No cooldown keeps a critical task from its outreach step (cooldown_manager.py:
\* "Critical customers bypass cooldown"): it is never skipped, and only a fault can
\* make it end without.
CriticalServed ==
  <>[](\A t \in Task : tasks[t].tier = "critical" /\ tasks[t].status # "new" =>
         OutreachOf(t) # {} \/ (faults > 0 /\ tasks[t].status # "skipped"))

=============================================================================
