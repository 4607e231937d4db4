--------------------------- MODULE DispatchProofs ---------------------------
(***************************************************************************)
(* Theorems about Dispatch, for every value of its constants.              *)
(***************************************************************************)
EXTENDS Dispatch, FiniteSetTheorems, TLAPS

-----------------------------------------------------------------------------
(* Type correctness.                                                       *)

\* A busy worker executes a running task, and no two workers the same one.
Busy ==
  /\ \A w \in Worker : work[w].at = "idle" => work[w] = Idle
  /\ \A w \in Worker : work[w].at # "idle" =>
       work[w].task \in Task /\ tasks[work[w].task].status = "running"
  /\ \A v, w \in Worker :
       (v # w /\ work[v].at # "idle") => work[v].task # work[w].task

\* Only a fault costs an execution, so the executions of a task are numbered
\* within the bound on the faults.
AttemptsBounded == \A t \in Task : tasks[t].attempt <= faults + 1

TypeInv == TypeOK /\ Busy /\ AttemptsBounded

\* The state of an idle worker is a worker state.
LEMMA IdleType == Idle \in WorkState
  BY DispatchAssumption DEF Idle, WorkState, Step, ChannelOrder

\* A worker that stops executing leaves Busy intact if only its own task changes.
LEMMA ReleaseBusy ==
  ASSUME TypeOK, Busy, NEW w \in Worker, work[w].at # "idle",
         work' = [work EXCEPT ![w] = Idle],
         \A t \in Task \ {work[w].task} : tasks'[t] = tasks[t]
  PROVE  Busy'
<1>1. work'[w] = Idle /\ \A v \in Worker \ {w} : work'[v] = work[v]
  BY DEF TypeOK
<1>2. Idle.at = "idle"
  BY DEF Idle
<1>3. \A v \in Worker : work'[v].at = "idle" => work'[v] = Idle
  BY <1>1 DEF Busy
<1>4. ASSUME NEW v \in Worker, work'[v].at # "idle"
      PROVE  work'[v].task \in Task /\ tasks'[work'[v].task].status = "running"
  <2>1. v # w /\ work'[v] = work[v]
    BY <1>1, <1>2, <1>4
  <2>2. work[v].task \in Task \ {work[w].task}
    BY <2>1, <1>4 DEF Busy
  <2> QED
    BY <2>1, <2>2, <1>4 DEF Busy
<1>5. ASSUME NEW u \in Worker, NEW v \in Worker, u # v, work'[u].at # "idle"
      PROVE  work'[u].task # work'[v].task
  <2>1. u # w /\ work'[u] = work[u]
    BY <1>1, <1>2, <1>5
  <2>2. work[u].task \in Task
    BY <2>1, <1>5 DEF Busy
  <2>3. CASE v = w
    BY <2>1, <2>2, <2>3, <1>1, DispatchAssumption DEF Idle
  <2>4. CASE v # w
    BY <2>1, <2>4, <1>1, <1>5 DEF Busy
  <2> QED
    BY <2>3, <2>4
<1> QED
  BY <1>3, <1>4, <1>5 DEF Busy

\* A worker that ends its execution leaves the types and Busy intact.
LEMMA FinishType ==
  ASSUME TypeOK, Busy, NEW w \in Worker, work[w].at # "idle",
         NEW s \in Ended, Finish(w, s)
  PROVE  /\ tasks' \in [Task -> TaskState]
         /\ work' \in [Worker -> WorkState]
         /\ Busy'
         /\ AttemptsBounded => \A t \in Task : tasks'[t].attempt <= faults + 1
<1>1. work[w].task \in Task
  BY DEF Busy
<1>2. tasks' \in [Task -> TaskState]
  BY <1>1 DEF TypeOK, Finish, TaskState, Ended
<1>3. work' \in [Worker -> WorkState]
  BY IdleType DEF TypeOK, Finish
<1>4. Busy'
  BY <1>1, ReleaseBusy DEF TypeOK, Finish
<1>5. \A t \in Task : tasks'[t].attempt = tasks[t].attempt
  BY <1>1 DEF TypeOK, Finish, TaskState
<1> QED
  BY <1>2, <1>3, <1>4, <1>5 DEF AttemptsBounded

\* A worker whose message goes back to the broker leaves the types and Busy intact.
LEMMA AgainType ==
  ASSUME TypeInv, NEW w \in Worker, work[w].at # "idle", faults < MaxFaults,
         NEW n \in 0..MaxRetries, Again(w, n)
  PROVE  /\ tasks' \in [Task -> TaskState]
         /\ work' \in [Worker -> WorkState]
         /\ Busy'
         /\ \A t \in Task : tasks'[t].attempt <= faults + 2
<1>1. work[w].task \in Task
  BY DEF TypeInv, Busy
<1>2. tasks[work[w].task] \in TaskState
  BY <1>1 DEF TypeInv, TypeOK
<1>3. tasks[work[w].task].attempt + 1 \in Attempt
  BY <1>1, <1>2, DispatchAssumption DEF TypeInv, TypeOK, AttemptsBounded, TaskState, Attempt
<1>4. [tasks[work[w].task] EXCEPT !.status = "queued", !.attempt = @ + 1, !.retries = n]
        \in TaskState
  BY <1>2, <1>3 DEF TaskState
<1>5. tasks' = [tasks EXCEPT ![work[w].task] =
                 [tasks[work[w].task] EXCEPT !.status = "queued", !.attempt = @ + 1,
                                             !.retries = n]]
  BY <1>1, <1>2 DEF Again, TypeInv, TypeOK, TaskState
<1>6. tasks' \in [Task -> TaskState]
  BY <1>4, <1>5 DEF TypeInv, TypeOK
<1>7. work' \in [Worker -> WorkState]
  BY IdleType DEF TypeInv, TypeOK, Again
<1>8. Busy'
  BY <1>1, <1>5, ReleaseBusy DEF TypeInv, TypeOK, Again
<1>9. ASSUME NEW t \in Task PROVE tasks'[t].attempt <= faults + 2
  <2>1. tasks[t].attempt \in Int /\ tasks[t].attempt <= faults + 1 /\ faults \in Int
    BY DEF TypeInv, TypeOK, AttemptsBounded, TaskState, Attempt
  <2>2. tasks'[t].attempt = tasks[t].attempt \/ tasks'[t].attempt = tasks[t].attempt + 1
    BY <1>1, <1>2, <1>5 DEF TypeInv, TypeOK, TaskState
  <2> QED
    BY <2>1, <2>2
<1> QED
  BY <1>6, <1>7, <1>8, <1>9

\* A worker that goes on with its execution leaves the types and Busy intact.
LEMMA MoveType ==
  ASSUME TypeOK, Busy, NEW w \in Worker, work[w].at # "idle",
         NEW x \in WorkState, x.at # "idle", x.task = work[w].task,
         work' = [work EXCEPT ![w] = x], UNCHANGED tasks
  PROVE  work' \in [Worker -> WorkState] /\ Busy'
<1>1. work' \in [Worker -> WorkState]
  BY DEF TypeOK
<1>2. Busy'
  BY DEF Busy, TypeOK
<1> QED
  BY <1>1, <1>2

\* ... in particular when it only moves to the next step.
LEMMA GoToType ==
  ASSUME TypeOK, Busy, NEW w \in Worker, work[w].at # "idle",
         NEW s \in Step \ {"idle"}, GoTo(w, s), UNCHANGED tasks
  PROVE  work' \in [Worker -> WorkState] /\ Busy'
<1>1. work[w] \in WorkState
  BY DEF TypeOK
<1> DEFINE x == [work[w] EXCEPT !.at = s]
<1>2. x \in WorkState /\ x.at # "idle" /\ x.task = work[w].task
  BY <1>1 DEF WorkState
<1>3. work' = [work EXCEPT ![w] = x]
  BY <1>1 DEF GoTo, TypeOK
<1> HIDE DEF x
<1> QED
  BY <1>2, <1>3, MoveType

LEMMA TypeInit == Init => TypeInv
<1> SUFFICES ASSUME Init PROVE TypeInv
  OBVIOUS
<1>1. NoRow \in RowState
  BY DispatchAssumption DEF NoRow, RowState, ChannelOrder
<1>2. tasks \in [Task -> TaskState]
  BY DispatchAssumption DEF Init, TaskState, Attempt
<1>3. TypeOK
  BY <1>1, <1>2, IdleType, DispatchAssumption DEF Init, TypeOK
<1>4. Busy
  BY DEF Init, Busy, Idle
<1>5. AttemptsBounded
  BY DEF Init, AttemptsBounded
<1> QED
  BY <1>3, <1>4, <1>5 DEF TypeInv

\* Whatever select_optimal_channel returns is a channel.
LEMMA OptimalType ==
  ASSUME TypeOK, NEW c \in Customer, NEW k \in {"watch", "critical"}, NEW n \in 0..2
  PROVE  OptimalChannels(c, k, n) \subseteq Channel
<1>1. "rm_call" \in Channel /\ \A i \in 1..4 : ChannelOrder[i] \in Channel
  BY DispatchAssumption DEF ChannelOrder
<1>2. BestChannels(c) \subseteq Channel
  BY DEF BestChannels, RowsOf, TypeOK, RowState
<1>3. Preferred[c] \in Channel
  BY DispatchAssumption
<1>4. \A ch : Directness(ch) \in 1..4
  BY DEF Directness
<1>5. Escalated(Preferred[c], n) \in Channel
  <2>1. CASE n = 0
    BY <1>3, <2>1 DEF Escalated
  <2>2. CASE n # 0
    <3> DEFINE i == IF Directness(Preferred[c]) + n > 4 THEN 4 ELSE Directness(Preferred[c]) + n
    <3>1. i \in 1..4
      BY <1>4
    <3>2. Escalated(Preferred[c], n) = ChannelOrder[i]
      BY <2>2 DEF Escalated
    <3> HIDE DEF i
    <3> QED
      BY <1>1, <3>1, <3>2
  <2> QED
    BY <2>1, <2>2
<1> QED
  BY <1>1, <1>2, <1>5 DEF OptimalChannels

\* Every step of an execution preserves TypeInv.
LEMMA TypeExecute ==
  ASSUME TypeInv, NEW w \in Worker, Execute(w)
  PROVE  TypeInv'
<1> USE DEF TypeInv
<1>1. /\ work[w].at # "idle"
      /\ UNCHANGED <<day, faults>>
  BY DEF Execute, CheckCooldown, DeleteCooldown, GetLevel, ReadTier, WriteTier,
         SelectChannel, SaveIntervention, RunChannel, MarkSent, SetCooldown, Acknowledge
<1>2. work[w] \in WorkState /\ work[w].task \in Task
  BY <1>1 DEF TypeOK, Busy
<1>3. Cust(w) \in Customer /\ TierOf(w) \in {"watch", "critical"} /\ RowOf(w) \in Row
  BY <1>2 DEF TypeOK, TaskState, Cust, TierOf, RowOf, Row
<1>4. ASSUME UNCHANGED tasks, work' \in [Worker -> WorkState], Busy',
             cooldown' \in [Customer -> Nat],
             riskTier' \in [Customer -> {"none", "watch", "critical"}],
             rows' \in [Row -> RowState],
             outreach' \in [Customer -> Seq(Outreach)]
      PROVE  TypeInv'
  BY <1>1, <1>4 DEF TypeOK, AttemptsBounded
<1>5. day \in Nat /\ day \in 0..MaxDay /\ \A k : CooldownDays(k) \in Nat
  BY DispatchAssumption DEF TypeOK, CooldownDays
<1>6. CASE CheckCooldown(w)
  <2> USE <1>6
  <2>1. UNCHANGED <<day, cooldown, riskTier, rows, outreach, faults>>
    BY DEF CheckCooldown
  <2>2. CASE Finish(w, "skipped")
    <3>1. "skipped" \in Ended
      BY DEF Ended
    <3> QED
      BY <1>1, <2>1, <2>2, <3>1, FinishType DEF TypeOK, AttemptsBounded
  <2>3. CASE work' = [work EXCEPT ![w].at = "level", ![w].level = 1] /\ UNCHANGED tasks
    <3> DEFINE x == [work[w] EXCEPT !.at = "level", !.level = 1]
    <3>1. x \in WorkState /\ x.at # "idle" /\ x.task = work[w].task
      <4>1. "level" \in Step \ {"idle"} /\ 1 \in 0..2
        BY DEF Step
      <4> QED
        BY <1>2, <4>1 DEF WorkState
    <3>2. work' = [work EXCEPT ![w] = x]
      BY <1>2, <2>3 DEF TypeOK
    <3> HIDE DEF x
    <3> QED
      BY <1>1, <1>4, <2>1, <2>3, <3>1, <3>2, MoveType DEF TypeOK
  <2>4. CASE (GoTo(w, "expire") \/ GoTo(w, "level")) /\ UNCHANGED tasks
    <3>1. "expire" \in Step \ {"idle"} /\ "level" \in Step \ {"idle"}
      BY DEF Step
    <3> QED
      BY <1>1, <1>4, <2>1, <2>4, <3>1, GoToType DEF TypeOK
  <2> QED
    BY <2>2, <2>3, <2>4 DEF CheckCooldown, Expired
<1>7. CASE DeleteCooldown(w)
  <2>1. "level" \in Step \ {"idle"}
    BY DEF Step
  <2>2. cooldown' \in [Customer -> Nat]
    BY <1>3, <1>7 DEF DeleteCooldown, TypeOK
  <2> QED
    BY <1>1, <1>4, <1>7, <2>1, <2>2, GoToType DEF DeleteCooldown, TypeOK
<1>8. CASE GetLevel(w)
  <2>1. PICK worsening \in BOOLEAN :
          work' = [work EXCEPT ![w].at = "readTier",
                     ![w].level = IF EscalationLevel(Cust(w), worsening) > @
                                  THEN EscalationLevel(Cust(w), worsening) ELSE @]
    BY <1>8 DEF GetLevel
  <2>2. EscalationLevel(Cust(w), worsening) \in 0..2
    BY DEF EscalationLevel
  <2> DEFINE x == [work[w] EXCEPT !.at = "readTier",
                     !.level = IF EscalationLevel(Cust(w), worsening) > @
                               THEN EscalationLevel(Cust(w), worsening) ELSE @]
  <2>3. x \in WorkState /\ x.at # "idle" /\ x.task = work[w].task
    BY <1>2, <2>2 DEF WorkState, Step
  <2>4. work' = [work EXCEPT ![w] = x]
    BY <1>2, <2>1 DEF TypeOK
  <2> HIDE DEF x
  <2> QED
    BY <1>1, <1>4, <1>8, <2>3, <2>4, MoveType DEF GetLevel, TypeOK
<1>9. CASE ReadTier(w)
  <2> DEFINE x == [work[w] EXCEPT !.at = "writeTier", !.prev = riskTier[Cust(w)]]
  <2>1. x \in WorkState /\ x.at # "idle" /\ x.task = work[w].task
    BY <1>2, <1>3 DEF TypeOK, WorkState, Step
  <2>2. work' = [work EXCEPT ![w] = x]
    BY <1>2, <1>9 DEF ReadTier, TypeOK
  <2> HIDE DEF x
  <2> QED
    BY <1>1, <1>4, <1>9, <2>1, <2>2, MoveType DEF ReadTier, TypeOK
<1>10. CASE WriteTier(w)
  <2> DEFINE x == [work[w] EXCEPT !.at = "channel", !.prev = Transition(@, TierOf(w))]
  <2>1. x \in WorkState /\ x.at # "idle" /\ x.task = work[w].task
    BY <1>2, <1>3 DEF WorkState, Step, Transition
  <2>2. work' = [work EXCEPT ![w] = x]
    BY <1>2, <1>10 DEF WriteTier, TypeOK
  <2> HIDE DEF x
  <2>3. riskTier' \in [Customer -> {"none", "watch", "critical"}]
    BY <1>3, <1>10 DEF WriteTier, TypeOK
  <2> QED
    BY <1>1, <1>4, <1>10, <2>1, <2>2, <2>3, MoveType DEF WriteTier, TypeOK
<1>11. CASE SelectChannel(w)
  <2>1. PICK ch \in OptimalChannels(Cust(w), TierOf(w), work[w].level) :
          work' = [work EXCEPT ![w].at = "save", ![w].chan = ch]
    BY <1>11 DEF SelectChannel
  <2>2. ch \in Channel
    BY <1>2, <1>3, <2>1, OptimalType DEF WorkState
  <2> DEFINE x == [work[w] EXCEPT !.at = "save", !.chan = ch]
  <2>3. x \in WorkState /\ x.at # "idle" /\ x.task = work[w].task
    BY <1>2, <2>2 DEF WorkState, Step
  <2>4. work' = [work EXCEPT ![w] = x]
    BY <1>2, <2>1 DEF TypeOK
  <2> HIDE DEF x
  <2> QED
    BY <1>1, <1>4, <1>11, <2>3, <2>4, MoveType DEF SelectChannel, TypeOK
<1>12. CASE SaveIntervention(w)
  <2>1. "deliver" \in Step \ {"idle"}
    BY DEF Step
  <2>2. [status |-> "pending", outcome |-> "null", sentAt |-> day, chan |-> work[w].chan]
          \in RowState
    BY <1>2, <1>5 DEF WorkState, RowState
  <2>3. rows' \in [Row -> RowState]
    BY <1>3, <1>12, <2>2 DEF SaveIntervention, TypeOK
  <2> QED
    BY <1>1, <1>4, <1>12, <2>1, <2>3, GoToType DEF SaveIntervention, TypeOK
<1>13. CASE RunChannel(w)
  <2>1. "mark" \in Step \ {"idle"}
    BY DEF Step
  <2>2. [row |-> RowOf(w), tier |-> TierOf(w),
         chan |-> work[w].chan, at |-> day] \in Outreach
    BY <1>2, <1>3, <1>5 DEF Outreach, WorkState
  <2>3. Append(outreach[Cust(w)], [row |-> RowOf(w), tier |-> TierOf(w),
                                   chan |-> work[w].chan, at |-> day])
          \in Seq(Outreach)
    BY <1>3, <2>2 DEF TypeOK
  <2>4. outreach' \in [Customer -> Seq(Outreach)]
    <3>1. [outreach EXCEPT ![Cust(w)] = Append(@, [row |-> RowOf(w), tier |-> TierOf(w),
                                                   chan |-> work[w].chan, at |-> day])]
            \in [Customer -> Seq(Outreach)]
      BY <2>3 DEF TypeOK
    <3> QED
      BY <1>13, <3>1 DEF RunChannel, TypeOK
  <2> QED
    BY <1>1, <1>4, <1>13, <2>1, <2>4, GoToType DEF RunChannel, TypeOK
<1>14. CASE MarkSent(w)
  <2>1. "cool" \in Step \ {"idle"}
    BY DEF Step
  <2>2. rows' = [rows EXCEPT ![RowOf(w)] =
                   [rows[RowOf(w)] EXCEPT !.status = "sent", !.sentAt = day,
                                          !.chan = work[w].chan]]
    BY <1>3, <1>14 DEF MarkSent, TypeOK
  <2>3. rows[RowOf(w)] \in RowState
    BY <1>3 DEF TypeOK
  <2>4. [rows[RowOf(w)] EXCEPT !.status = "sent", !.sentAt = day, !.chan = work[w].chan]
          \in RowState
    BY <1>2, <1>5, <2>3 DEF RowState, WorkState
  <2>5. rows' \in [Row -> RowState]
    BY <2>2, <2>4 DEF TypeOK
  <2> QED
    BY <1>1, <1>4, <1>14, <2>1, <2>5, GoToType DEF MarkSent, TypeOK
<1>15. CASE SetCooldown(w)
  <2>1. "ack" \in Step \ {"idle"}
    BY DEF Step
  <2>2. cooldown' \in [Customer -> Nat]
    <3>1. day + CooldownDays(TierOf(w)) \in Nat
      BY <1>5
    <3> QED
      BY <3>1, <1>15 DEF SetCooldown, TypeOK
  <2> QED
    BY <1>1, <1>4, <1>15, <2>1, <2>2, GoToType DEF SetCooldown, TypeOK
<1>16. CASE Acknowledge(w)
  <2>1. "dispatched" \in Ended
    BY DEF Ended
  <2> QED
    BY <1>1, <1>16, <2>1, FinishType DEF Acknowledge, TypeOK, AttemptsBounded
<1> QED
  BY <1>6, <1>7, <1>8, <1>9, <1>10, <1>11, <1>12, <1>13, <1>14, <1>15, <1>16 DEF Execute

\* Every fault preserves TypeInv.
LEMMA TypeFault ==
  ASSUME TypeInv, NEW w \in Worker, Fault(w)
  PROVE  TypeInv'
<1> USE DEF TypeInv
<1>1. /\ work[w].at # "idle" /\ faults < MaxFaults /\ faults' = faults + 1
      /\ UNCHANGED <<day, cooldown, riskTier, rows, outreach>>
  BY DEF Fault, Raise, OutreachFails, Crash
<1>2. faults' \in 0..MaxFaults
  BY <1>1, DispatchAssumption DEF TypeOK
<1>3. work[w].task \in Task /\ tasks[work[w].task].retries \in 0..MaxRetries
  BY <1>1 DEF TypeOK, Busy, TaskState
<1>4. \A t \in Task : tasks[t].attempt \in Int
  BY DEF TypeOK, TaskState, Attempt
<1>5. ASSUME NEW n \in 0..MaxRetries, Again(w, n) PROVE TypeInv'
  <2>1. \A t \in Task : tasks'[t].attempt <= faults + 2
    BY <1>1, <1>5, AgainType
  <2>2. AttemptsBounded'
    BY <1>1, <2>1 DEF AttemptsBounded, TypeOK
  <2> QED
    BY <1>1, <1>2, <1>5, <2>2, AgainType DEF TypeOK
<1>6. ASSUME NEW s \in Ended, Finish(w, s) PROVE TypeInv'
  <2>1. \A t \in Task : tasks'[t].attempt <= faults + 1
    BY <1>1, <1>6, FinishType
  <2>2. tasks' \in [Task -> TaskState]
    BY <1>1, <1>6, FinishType
  <2>3. \A t \in Task : tasks'[t].attempt \in Int
    BY <2>2 DEF TaskState, Attempt
  <2>4. AttemptsBounded'
    BY <1>1, <2>1, <2>3 DEF AttemptsBounded, TypeOK
  <2> QED
    BY <1>1, <1>2, <1>6, <2>2, <2>4, FinishType DEF TypeOK
<1>7. CASE Raise(w)
  <2>1. CASE tasks[work[w].task].retries < MaxRetries /\ Again(w, tasks[work[w].task].retries + 1)
    <3>1. tasks[work[w].task].retries + 1 \in 0..MaxRetries
      BY <1>3, <2>1, DispatchAssumption
    <3> QED
      BY <1>5, <2>1, <3>1
  <2>2. CASE Finish(w, "failed")
    BY <1>6, <2>2 DEF Ended
  <2> QED
    BY <1>7, <2>1, <2>2 DEF Raise
<1>8. CASE OutreachFails(w)
  <2>1. "cool" \in Step \ {"idle"}
    BY DEF Step
  <2>2. AttemptsBounded'
    BY <1>1, <1>4, <1>8 DEF OutreachFails, AttemptsBounded, TypeOK
  <2> QED
    BY <1>1, <1>2, <1>8, <2>1, <2>2, GoToType DEF OutreachFails, TypeOK
<1>9. CASE Crash(w)
  BY <1>3, <1>5, <1>6, <1>9 DEF Crash, Ended
<1> QED
  BY <1>7, <1>8, <1>9 DEF Fault

LEMMA TypeStep == TypeInv /\ [Next]_vars => TypeInv'
<1> SUFFICES ASSUME TypeInv, [Next]_vars PROVE TypeInv'
  OBVIOUS
<1> USE DEF TypeInv
<1>1. ASSUME NEW t \in Task, Enqueue(t) PROVE TypeInv'
  <2>1. tasks[t] \in TaskState
    BY DEF TypeOK
  <2>2. [tasks[t] EXCEPT !.status = "queued"] \in TaskState
    BY <2>1 DEF TaskState
  <2>3. tasks' = [tasks EXCEPT ![t] = [tasks[t] EXCEPT !.status = "queued"]]
    BY <1>1, <2>1 DEF Enqueue, TypeOK
  <2>4. tasks' \in [Task -> TaskState]
    BY <2>2, <2>3 DEF TypeOK
  <2>5. \A u \in Task : tasks'[u].attempt = tasks[u].attempt
    BY <2>1, <2>3 DEF TypeOK, TaskState
  <2>6. \A u \in Task : tasks[u].status = "running" => tasks'[u].status = "running"
    BY <1>1, <2>3 DEF Enqueue, TypeOK
  <2>7. Busy'
    BY <1>1, <2>6 DEF Busy, Enqueue
  <2> QED
    BY <1>1, <2>4, <2>5, <2>7 DEF Enqueue, TypeOK, AttemptsBounded
<1>2. ASSUME NEW w \in Worker, Start(w) PROVE TypeInv'
  <2>1. PICK t \in Task :
          /\ tasks[t].status = "queued"
          /\ tasks' = [tasks EXCEPT ![t].status = "running"]
          /\ work' = [work EXCEPT ![w] = [Idle EXCEPT !.at = "check", !.task = t]]
    BY <1>2 DEF Start
  <2>2. tasks[t] \in TaskState
    BY DEF TypeOK
  <2>3. [tasks[t] EXCEPT !.status = "running"] \in TaskState
    BY <2>2 DEF TaskState
  <2>4. tasks' = [tasks EXCEPT ![t] = [tasks[t] EXCEPT !.status = "running"]]
    BY <2>1, <2>2 DEF TypeOK
  <2>5. tasks' \in [Task -> TaskState]
    BY <2>3, <2>4 DEF TypeOK
  <2>6. \A u \in Task : tasks'[u].attempt = tasks[u].attempt
    BY <2>2, <2>4 DEF TypeOK, TaskState
  <2> DEFINE x == [Idle EXCEPT !.at = "check", !.task = t]
  <2>7. x \in WorkState /\ x.at # "idle" /\ x.task = t
    BY IdleType DEF Idle, WorkState, Step
  <2>8. work' = [work EXCEPT ![w] = x]
    BY <2>1
  <2> HIDE DEF x
  <2>9. work' \in [Worker -> WorkState]
    BY <2>7, <2>8 DEF TypeOK
  <2>10. \A v \in Worker : work[v].at # "idle" => work[v].task # t
    BY <2>1 DEF Busy
  <2>11. tasks'[t].status = "running" /\ \A u \in Task \ {t} : tasks'[u] = tasks[u]
    BY <2>2, <2>4 DEF TypeOK, TaskState
  <2>12. work[w].at = "idle" /\ work'[w] = x /\ \A v \in Worker \ {w} : work'[v] = work[v]
    BY <1>2, <2>8 DEF Start, TypeOK
  <2>13. \A v \in Worker : work[v].at = "idle" => work[v].task # t
    BY DispatchAssumption DEF Busy, Idle
  <2>14. \A v \in Worker : v # w => work'[v].task # work'[w].task
    BY <2>7, <2>10, <2>12, <2>13
  <2>15. Busy'
    BY <2>7, <2>10, <2>11, <2>12, <2>14 DEF Busy
  <2> QED
    BY <1>2, <2>5, <2>6, <2>9, <2>15 DEF Start, TypeOK, AttemptsBounded
<1>3. ASSUME NEW r \in Row, Feedback(r) PROVE TypeInv'
  <2>1. PICK o \in {"no_response", "responded"} : rows' = [rows EXCEPT ![r].outcome = o]
    BY <1>3 DEF Feedback
  <2>2. rows[r] \in RowState
    BY DEF TypeOK
  <2>3. [rows[r] EXCEPT !.outcome = o] \in RowState
    BY <2>2 DEF RowState
  <2>4. rows' = [rows EXCEPT ![r] = [rows[r] EXCEPT !.outcome = o]]
    BY <2>1, <2>2 DEF TypeOK
  <2>5. rows' \in [Row -> RowState]
    BY <2>3, <2>4 DEF TypeOK
  <2> QED
    BY <1>3, <2>5 DEF Feedback, TypeOK, Busy, AttemptsBounded
<1>4. ASSUME NEW c \in Customer, ExpireKey(c) PROVE TypeInv'
  <2>1. cooldown' \in [Customer -> Nat]
    BY <1>4 DEF ExpireKey, TypeOK
  <2> QED
    BY <1>4, <2>1 DEF ExpireKey, TypeOK, Busy, AttemptsBounded
<1>5. ASSUME NEW c \in Customer, EvictKey(c) PROVE TypeInv'
  <2>1. cooldown' = [cooldown EXCEPT ![c] = 0] \/ cooldown' = cooldown
    BY <1>5 DEF EvictKey
  <2>2. cooldown' \in [Customer -> Nat]
    BY <2>1 DEF TypeOK
  <2>3. riskTier' = [riskTier EXCEPT ![c] = "none"] \/ riskTier' = riskTier
    BY <1>5 DEF EvictKey
  <2>4. riskTier' \in [Customer -> {"none", "watch", "critical"}]
    BY <2>3 DEF TypeOK
  <2>5. faults' \in 0..MaxFaults /\ faults' = faults + 1 /\ faults \in Int
    BY <1>5, DispatchAssumption DEF EvictKey, TypeOK
  <2>6. \A t \in Task : tasks[t].attempt \in Int
    BY DEF TypeOK, TaskState, Attempt
  <2>7. AttemptsBounded'
    BY <1>5, <2>5, <2>6 DEF EvictKey, AttemptsBounded
  <2> QED
    BY <1>5, <2>2, <2>4, <2>5, <2>7 DEF EvictKey, TypeOK, Busy
<1>6. CASE Tick
  <2>1. day' \in 0..MaxDay
    BY <1>6, DispatchAssumption DEF Tick, TypeOK
  <2> QED
    BY <1>6, <2>1 DEF Tick, TypeOK, Busy, AttemptsBounded
<1>7. CASE UNCHANGED vars
  BY <1>7 DEF vars, TypeOK, Busy, AttemptsBounded
<1> QED
  BY <1>1, <1>2, <1>3, <1>4, <1>6, <1>7, <1>5, TypeExecute, TypeFault DEF Next

LEMMA TypeInvariant == Spec => []TypeInv
  BY TypeInit, TypeStep, PTL DEF Spec

\* Type correctness of Dispatch: whatever workers, faults, customers and clock
\* do, every variable keeps its type; in particular the escalation level stays
\* within 0..2 and no task is executed more often than the faults account for.
THEOREM TypeCorrect == Spec => []TypeOK
<1>1. TypeInv => TypeOK
  BY DEF TypeInv
<1> QED
  BY <1>1, TypeInvariant, PTL

-----------------------------------------------------------------------------
(* "sent" over "app" means stored.                                         *)

\* Execution r put a notification into its customer's list no later than day d.
Stored(r, d) ==
  LET sent == outreach[tasks[r[1]].cust]
  IN  \E i \in DOMAIN sent : sent[i].row = r /\ sent[i].chan = "app" /\ sent[i].at <= d

\* A worker about to mark its row as sent over "app" has stored the notification.
MarkInv ==
  \A w \in Worker : work[w].at = "mark" /\ work[w].chan = "app" => Stored(RowOf(w), day)

SentInv == TypeInv /\ MarkInv /\ SentIsStored

\* The facts about a busy worker that most steps below need.
LEMMA BusyTypes ==
  ASSUME TypeInv, NEW w \in Worker, work[w].at # "idle"
  PROVE  /\ work[w] \in WorkState /\ work[w].task \in Task
         /\ Cust(w) \in Customer /\ TierOf(w) \in {"watch", "critical"}
         /\ RowOf(w) \in Row
  BY DEF TypeInv, TypeOK, Busy, TaskState, Cust, TierOf, RowOf, Row

\* A step of an execution or of a fault changes the worker's own task only, and
\* of that neither customer nor tier.
LEMMA TasksKept ==
  ASSUME TypeInv, NEW w \in Worker, Execute(w) \/ Fault(w)
  PROVE  /\ work[w].at # "idle"
         /\ \A t \in Task : tasks'[t].cust = tasks[t].cust /\ tasks'[t].tier = tasks[t].tier
         /\ \A t \in Task \ {work[w].task} : tasks'[t] = tasks[t]
         /\ \A v \in Worker \ {w} : work'[v] = work[v]
<1> USE DEF TypeInv
<1>1. work[w].at # "idle"
  BY DEF Execute, Fault, CheckCooldown, DeleteCooldown, GetLevel, ReadTier, WriteTier,
         SelectChannel, SaveIntervention, RunChannel, MarkSent, SetCooldown, Acknowledge, Raise,
         OutreachFails, Crash
<1>2. work[w].task \in Task /\ tasks[work[w].task] \in TaskState
  BY <1>1 DEF Busy, TypeOK
<1>3. (\E s : Finish(w, s)) \/ (\E n : Again(w, n)) \/ UNCHANGED tasks
  BY DEF Execute, Fault, CheckCooldown, DeleteCooldown, GetLevel, ReadTier, WriteTier,
         SelectChannel, SaveIntervention, RunChannel, MarkSent, SetCooldown, Acknowledge, Raise,
         OutreachFails, Crash
<1>4. ASSUME NEW t \in Task
      PROVE  tasks'[t].cust = tasks[t].cust /\ tasks'[t].tier = tasks[t].tier
  <2>1. ASSUME NEW s, Finish(w, s)
        PROVE  tasks'[t].cust = tasks[t].cust /\ tasks'[t].tier = tasks[t].tier
    BY <1>2, <2>1 DEF Finish, TypeOK, TaskState
  <2>2. ASSUME NEW n, Again(w, n)
        PROVE  tasks'[t].cust = tasks[t].cust /\ tasks'[t].tier = tasks[t].tier
    BY <1>2, <2>2 DEF Again, TypeOK, TaskState
  <2> QED
    BY <1>3, <2>1, <2>2
<1>5. \A t \in Task \ {work[w].task} : tasks'[t] = tasks[t]
  BY <1>2, <1>3 DEF Finish, Again, TypeOK
<1>6. \A v \in Worker \ {w} : work'[v] = work[v]
  BY DEF TypeOK, Execute, Fault, CheckCooldown, DeleteCooldown, GetLevel, ReadTier,
         WriteTier, SelectChannel, SaveIntervention, RunChannel, MarkSent, SetCooldown, Acknowledge,
         Raise, OutreachFails, Crash, Finish, Again, GoTo
<1> QED
  BY <1>1, <1>4, <1>5, <1>6

\* Enqueuing and starting change the status of a task, and nothing else of it.
LEMMA StatusOnly ==
  ASSUME TypeInv, (\E t \in Task : Enqueue(t)) \/ (\E w \in Worker : Start(w)),
         NEW u \in Task
  PROVE  tasks'[u].attempt = tasks[u].attempt /\ tasks'[u].cust = tasks[u].cust
           /\ tasks'[u].tier = tasks[u].tier
<1>1. PICK t \in Task, s \in {"queued", "running"} : tasks' = [tasks EXCEPT ![t].status = s]
  BY DEF Enqueue, Start
<1> QED
  BY <1>1 DEF TypeInv, TypeOK, TaskState

\* A task keeps its customer and its tier for good.
LEMMA TaskFixed ==
  ASSUME TypeInv, [Next]_vars, NEW t \in Task
  PROVE  tasks'[t].cust = tasks[t].cust /\ tasks'[t].tier = tasks[t].tier
<1>1. CASE UNCHANGED tasks
  BY <1>1
<1>2. CASE (\E u \in Task : Enqueue(u)) \/ (\E w \in Worker : Start(w))
  BY <1>2, StatusOnly
<1>3. CASE \E w \in Worker : Execute(w) \/ Fault(w)
  BY <1>3, TasksKept
<1> QED
  BY <1>1, <1>2, <1>3 DEF Next, vars, Feedback, ExpireKey, EvictKey, Tick

\* No step takes back or changes an outreach.
LEMMA OutreachGrows ==
  ASSUME TypeInv, [Next]_vars, NEW c \in Customer, NEW i \in DOMAIN outreach[c]
  PROVE  i \in DOMAIN outreach'[c] /\ outreach'[c][i] = outreach[c][i]
<1>1. CASE UNCHANGED outreach
  BY <1>1
<1>2. ASSUME NEW w \in Worker, RunChannel(w)
      PROVE  i \in DOMAIN outreach'[c] /\ outreach'[c][i] = outreach[c][i]
  <2>1. outreach[c] \in Seq(Outreach)
    BY DEF TypeInv, TypeOK
  <2> DEFINE e == [row |-> RowOf(w), tier |-> TierOf(w),
                   chan |-> work[w].chan, at |-> day]
  <2>2. outreach'[c] = outreach[c] \/ outreach'[c] = Append(outreach[c], e)
    <3>1. CASE Served(work[w].chan)
      BY <1>2, <3>1 DEF RunChannel, TypeInv, TypeOK
    <3>2. CASE ~Served(work[w].chan)
      BY <1>2, <3>2 DEF RunChannel
    <3> QED
      BY <3>1, <3>2
  <2> HIDE DEF e
  <2> QED
    BY <2>1, <2>2
<1>3. UNCHANGED outreach \/ \E w \in Worker : RunChannel(w)
  BY DEF Next, vars, Enqueue, Start, Execute, Fault, CheckCooldown, DeleteCooldown,
         GetLevel, ReadTier, WriteTier, SelectChannel, SaveIntervention, MarkSent,
         SetCooldown, Acknowledge, Raise, OutreachFails, Crash, Feedback, ExpireKey, EvictKey, Tick
<1> QED
  BY <1>1, <1>2, <1>3

\* So what is in a list was put there, also by any later day.
LEMMA StoredStays ==
  ASSUME TypeInv, TypeInv', [Next]_vars, NEW r \in Row, NEW d \in 0..MaxDay,
         NEW e \in 0..MaxDay, d <= e, Stored(r, d)
  PROVE  \E i \in DOMAIN outreach'[tasks'[r[1]].cust] :
           LET p == outreach'[tasks'[r[1]].cust][i]
           IN  p.row = r /\ p.chan = "app" /\ p.at <= e
<1> DEFINE c == tasks[r[1]].cust
<1>1. c \in Customer /\ tasks'[r[1]].cust = c
  BY TaskFixed DEF TypeInv, TypeOK, TaskState, Row
<1>2. PICK i \in DOMAIN outreach[c] :
        /\ outreach[c][i].row = r /\ outreach[c][i].chan = "app" /\ outreach[c][i].at <= d
  BY DEF Stored
<1> HIDE DEF c
<1>3. outreach[c][i].at \in Nat
  <2>1. outreach[c] \in Seq(Outreach)
    BY <1>1 DEF TypeInv, TypeOK
  <2>2. outreach[c][i] \in Outreach
    BY <1>2, <2>1
  <2> QED
    BY <2>2, DispatchAssumption DEF Outreach
<1>4. i \in DOMAIN outreach'[c] /\ outreach'[c][i] = outreach[c][i]
  BY <1>1, OutreachGrows
<1>5. outreach'[c][i].at <= e
  BY <1>2, <1>3, <1>4, DispatchAssumption
<1> QED
  BY <1>1, <1>2, <1>4, <1>5

\* A worker that is about to mark a row has just run its channel or was about to
\* mark the same row before.
LEMMA MarkSource ==
  ASSUME TypeInv, [Next]_vars, NEW v \in Worker, work'[v].at = "mark"
  PROVE  RunChannel(v) \/ (RowOf(v)' = RowOf(v) /\ work'[v] = work[v])
<1> USE DEF TypeInv
<1>1. ASSUME NEW w \in Worker, Execute(w) \/ Fault(w), v # w
      PROVE  RowOf(v)' = RowOf(v) /\ work'[v] = work[v]
  <2>1. work'[v] = work[v]
    BY <1>1, TasksKept
  <2>2. work[v].task \in Task \ {work[w].task}
    BY <1>1, <2>1 DEF Busy
  <2> QED
    BY <1>1, <2>1, <2>2, TasksKept DEF RowOf
<1>2. ASSUME Execute(v) \/ Fault(v) PROVE RunChannel(v)
  <2>1. work[v] \in WorkState
    BY DEF TypeOK
  <2>2. ASSUME NEW s, GoTo(v, s) PROVE work'[v].at = s
    BY <2>1, <2>2 DEF GoTo, TypeOK, WorkState
  <2>3. (\E s : Finish(v, s)) \/ (\E n : Again(v, n)) => work'[v].at = "idle"
    <3>1. ASSUME work' = [work EXCEPT ![v] = Idle] PROVE work'[v].at = "idle"
      BY <3>1 DEF Idle, TypeOK
    <3> QED
      BY <3>1 DEF Finish, Again
  <2>4. CheckCooldown(v) \/ GetLevel(v) \/ ReadTier(v) \/ WriteTier(v) \/ SelectChannel(v)
          => work'[v].at \in {"idle", "expire", "level", "readTier", "writeTier",
                              "channel", "save"}
    <3>1. CheckCooldown(v) => work'[v].at \in {"idle", "expire", "level"}
      BY <2>1, <2>2, <2>3 DEF CheckCooldown, TypeOK, WorkState
    <3>2. GetLevel(v) => work'[v].at = "readTier"
      BY <2>1 DEF GetLevel, TypeOK, WorkState
    <3>3. ReadTier(v) => work'[v].at = "writeTier"
      BY <2>1 DEF ReadTier, TypeOK, WorkState
    <3>4. WriteTier(v) => work'[v].at = "channel"
      BY <2>1 DEF WriteTier, TypeOK, WorkState
    <3>5. SelectChannel(v) => work'[v].at = "save"
      BY <2>1 DEF SelectChannel, TypeOK, WorkState
    <3> QED
      BY <3>1, <3>2, <3>3, <3>4, <3>5
  <2> QED
    BY <1>2, <2>2, <2>3, <2>4
    DEF Execute, Fault, DeleteCooldown, SaveIntervention, MarkSent, SetCooldown, Acknowledge,
        Raise, OutreachFails, Crash
<1>3. ASSUME NEW w \in Worker, Start(w)
      PROVE  RowOf(v)' = RowOf(v) /\ work'[v] = work[v]
  <2>1. work'[w].at = "check"
    BY <1>3 DEF Start, Idle, TypeOK
  <2>2. work'[v] = work[v]
    BY <1>3, <2>1 DEF Start, TypeOK
  <2>3. work[v].task \in Task
    BY <2>2 DEF Busy
  <2> QED
    BY <1>3, <2>2, <2>3, StatusOnly DEF RowOf
<1>4. ASSUME NEW t \in Task, Enqueue(t)
      PROVE  RowOf(v)' = RowOf(v) /\ work'[v] = work[v]
  <2>1. work'[v] = work[v] /\ work[v].task \in Task
    BY <1>4 DEF Enqueue, Busy
  <2> QED
    BY <1>4, <2>1, StatusOnly DEF RowOf
<1>5. CASE UNCHANGED <<tasks, work>>
  BY <1>5 DEF RowOf
<1> QED
  BY <1>1, <1>2, <1>3, <1>4, <1>5 DEF Next, Feedback, ExpireKey, EvictKey, Tick, vars

LEMMA SentStep == SentInv /\ TypeInv' /\ [Next]_vars => MarkInv' /\ SentIsStored'
<1> SUFFICES ASSUME SentInv, TypeInv', [Next]_vars
             PROVE  MarkInv' /\ SentIsStored'
  OBVIOUS
<1> USE DEF SentInv
<1>1. day \in 0..MaxDay /\ day' \in 0..MaxDay
  BY DEF TypeInv, TypeOK
<1>2. day' = day \/ day' = day + 1
  BY DEF Next, vars, Enqueue, Start, Execute, Fault, CheckCooldown, DeleteCooldown,
         GetLevel, ReadTier, WriteTier, SelectChannel, SaveIntervention, RunChannel, MarkSent,
         SetCooldown, Acknowledge, Raise, OutreachFails, Crash, Feedback, ExpireKey, EvictKey, Tick
<1>3. day <= day'
  BY <1>1, <1>2, DispatchAssumption
<1>4. ASSUME NEW v \in Worker, work'[v].at = "mark", work'[v].chan = "app"
      PROVE  Stored(RowOf(v), day)'
  <2>1. CASE RunChannel(v)
    <3> DEFINE c == Cust(v)
    <3> DEFINE e == [row |-> RowOf(v), tier |-> TierOf(v),
                     chan |-> work[v].chan, at |-> day]
    <3>1. c \in Customer /\ outreach[c] \in Seq(Outreach)
      BY <2>1, BusyTypes DEF RunChannel, TypeInv, TypeOK
    <3>2. work'[v].task = work[v].task /\ work'[v].chan = work[v].chan
      <4>1. work[v] \in WorkState
        BY <2>1 DEF RunChannel, TypeInv, TypeOK
      <4> QED
        BY <2>1, <4>1 DEF RunChannel, GoTo, TypeInv, TypeOK, WorkState
    <3>3. e.row = RowOf(v) /\ e.chan = work[v].chan /\ e.at = day
      OBVIOUS
    <3>4. /\ RowOf(v)' = RowOf(v) /\ day' = day /\ Served(work[v].chan)
          /\ tasks'[RowOf(v)[1]].cust = c
      BY <1>4, <2>1, <3>2 DEF RunChannel, RowOf, Cust, Served, ChannelOrder
    <3>6. outreach'[c] = Append(outreach[c], e)
      BY <2>1, <3>1, <3>4 DEF RunChannel, TypeInv, TypeOK
    <3> HIDE DEF c, e
    <3>5. Len(outreach[c]) + 1 \in DOMAIN outreach'[c]
            /\ outreach'[c][Len(outreach[c]) + 1] = e
      BY <3>1, <3>6
    <3> QED
      BY <1>1, <1>4, <3>2, <3>3, <3>4, <3>5 DEF Stored
  <2>2. CASE RowOf(v)' = RowOf(v) /\ work'[v] = work[v]
    <3>1. Stored(RowOf(v), day) /\ RowOf(v) \in Row
      BY <1>4, <2>2, BusyTypes DEF MarkInv
    <3> QED
      BY <1>1, <1>3, <2>2, <3>1, StoredStays DEF Stored
  <2> QED
    BY <1>4, <2>1, <2>2, MarkSource DEF TypeInv
<1>5. MarkInv'
  BY <1>4 DEF MarkInv
<1>6. ASSUME NEW r \in Row, rows'[r].status = "sent", rows'[r].chan = "app"
      PROVE  Stored(r, rows[r].sentAt)'
  <2>1. rows'[r].sentAt \in 0..MaxDay
    BY DEF TypeInv, TypeOK, RowState
  <2>2. CASE rows'[r].status = rows[r].status /\ rows'[r].sentAt = rows[r].sentAt
               /\ rows'[r].chan = rows[r].chan
    <3>1. Stored(r, rows[r].sentAt)
      BY <1>6, <2>2 DEF SentIsStored, Stored
    <3> QED
      BY <2>1, <2>2, <3>1, StoredStays DEF Stored
  <2>3. ASSUME NEW w \in Worker, MarkSent(w), r = RowOf(w)
        PROVE  Stored(r, rows[r].sentAt)'
    <3>1. rows[r] \in RowState
      BY DEF TypeInv, TypeOK
    <3>2. rows'[r].sentAt = day /\ rows'[r].chan = work[w].chan
      BY <2>3, <3>1 DEF MarkSent, TypeInv, TypeOK, RowState
    <3>3. Stored(r, day)
      BY <1>6, <2>3, <3>2 DEF MarkSent, MarkInv
    <3> QED
      BY <2>1, <3>2, <3>3, StoredStays DEF Stored
  <2>4. \/ rows'[r].status = rows[r].status /\ rows'[r].sentAt = rows[r].sentAt
               /\ rows'[r].chan = rows[r].chan
        \/ \E w \in Worker : MarkSent(w) /\ r = RowOf(w)
    <3>1. ASSUME NEW w \in Worker, SaveIntervention(w)
          PROVE  rows'[r] = rows[r]
      <4>1. RowOf(w) \in Row
        BY <3>1, BusyTypes DEF SaveIntervention
      <4>2. rows'[RowOf(w)].status = "pending"
        BY <3>1, <4>1 DEF SaveIntervention, TypeInv, TypeOK
      <4> QED
        BY <1>6, <3>1, <4>2 DEF SaveIntervention, TypeInv, TypeOK
    <3>2. ASSUME NEW w \in Worker, MarkSent(w), r # RowOf(w)
          PROVE  rows'[r] = rows[r]
      BY <3>2 DEF MarkSent, TypeInv, TypeOK
    <3>3. ASSUME NEW q \in Row, Feedback(q)
          PROVE  rows'[r].status = rows[r].status /\ rows'[r].sentAt = rows[r].sentAt
               /\ rows'[r].chan = rows[r].chan
      <4>1. rows[r] \in RowState
        BY DEF TypeInv, TypeOK
      <4> QED
        BY <3>3, <4>1 DEF Feedback, TypeInv, TypeOK, RowState
    <3>4. \/ UNCHANGED rows
          \/ \E w \in Worker : SaveIntervention(w) \/ MarkSent(w)
          \/ \E q \in Row : Feedback(q)
      BY DEF Next, vars, Enqueue, Start, Execute, Fault, CheckCooldown, DeleteCooldown,
             GetLevel, ReadTier, WriteTier, SelectChannel, RunChannel, SetCooldown,
             Acknowledge, Raise, OutreachFails, Crash, ExpireKey, EvictKey, Tick
    <3> QED
      BY <3>1, <3>2, <3>3, <3>4
  <2> QED
    BY <2>2, <2>3, <2>4
<1> QED
  BY <1>5, <1>6 DEF SentIsStored, Stored

\* For any number of workers, tasks, crashes, retries and redeliveries: a row that
\* says "sent" over "app" stands for a notification in its customer's list, put there
\* no later than the row says (tasks.dispatch_intervention with send_outreach).
THEOREM SentHasNotification == Spec => []SentIsStored
<1>1. Init => MarkInv /\ SentIsStored
  <2>1. Init => MarkInv
    BY DEF Init, MarkInv, Idle
  <2>2. Init => \A r \in Row : rows[r].status = "absent"
    BY DEF Init, NoRow
  <2> QED
    BY <2>1, <2>2 DEF SentIsStored
<1>2. TypeInv /\ MarkInv /\ SentIsStored /\ [Next]_vars
        => TypeInv' /\ MarkInv' /\ SentIsStored'
  BY TypeStep, SentStep DEF SentInv
<1> QED
  BY <1>1, <1>2, TypeInit, PTL DEF Spec

-----------------------------------------------------------------------------
(* Executions apart and no faults: the cooldown is respected.              *)

Latest(c) == outreach[c][Len(outreach[c])]
\* The end of the cooldown the customer's latest outreach calls for.
Due(c) == Latest(c).at + CooldownDays(Latest(c).tier)

Serving(w) == work[w].at \in {"mark", "cool"}
Underway(w) == work[w].at \in {"expire", "level", "readTier", "writeTier", "channel",
                               "save", "deliver"}

\* A worker past its channel made the latest outreach to its customer, or had no
\* branch to carry out and came after the cooldown of the latest one.
Made ==
  \A w \in Worker : Serving(w) =>
    \/ /\ outreach[Cust(w)] # <<>>
       /\ Latest(Cust(w)).tier = TierOf(w) /\ Latest(Cust(w)).at <= day
    \/ outreach[Cust(w)] # <<>> => day >= Due(Cust(w))

\* Only watch dispatches go to a channel that may have no branch.
Direct ==
  \A w \in Worker :
    (work[w].at \in {"save", "deliver"} /\ TierOf(w) = "critical") => work[w].chan = "rm_call"

\* The latest outreach to a customer is being made, or its cooldown is over, or
\* the key covers it.
Covered ==
  \A c \in Customer : outreach[c] # <<>> =>
    \/ \E w \in Worker : Serving(w) /\ Cust(w) = c
    \/ day >= Due(c)
    \/ cooldown[c] >= Due(c)

\* A key about to be deleted has expired.
Over == \A w \in Worker : work[w].at = "expire" => cooldown[Cust(w)] <= day

\* A watch dispatch under way is past the cooldown of the latest outreach.
Cleared ==
  \A w \in Worker :
    (Underway(w) /\ TierOf(w) = "watch" /\ outreach[Cust(w)] # <<>>) => day >= Due(Cust(w))

CoolInv == Made /\ Covered /\ Over /\ Cleared

\* The step does not take worker v to or from its outreach, and lets it past the
\* check only if no cooldown is in force.
Quiet(v) ==
  \/ work'[v].at \in {"idle", "check"} /\ ~Serving(v)
  \/ /\ Cust(v)' = Cust(v) /\ TierOf(v)' = TierOf(v) /\ Cust(v) \in Customer
     /\ Serving(v)' = Serving(v)
     /\ Underway(v)' => \/ Underway(v)
                        \/ ~Serving(v) /\ (TierOf(v) = "watch" => ~InCooldown(Cust(v)))
     /\ work'[v].at = "expire" => ~InCooldown(Cust(v))

\* The latest outreach and what it calls for have their types.
LEMMA DueType ==
  ASSUME TypeInv, NEW c \in Customer, outreach[c] # <<>>
  PROVE  Latest(c) \in Outreach /\ Latest(c).at \in Nat /\ Due(c) \in Nat
<1>1. outreach[c] \in Seq(Outreach)
  BY DEF TypeInv, TypeOK
<1>2. Latest(c) \in Outreach
  BY <1>1 DEF Latest
<1>3. Latest(c).at \in Nat
  BY <1>2, DispatchAssumption DEF Outreach
<1>4. CooldownDays(Latest(c).tier) \in Nat
  BY DispatchAssumption DEF CooldownDays
<1> QED
  BY <1>2, <1>3, <1>4 DEF Due

\* A worker that is past the check stays with its customer while another one
\* moves, and that is not the other one's customer.
LEMMA OthersStay ==
  ASSUME TypeInv, Apart, NEW w \in Worker, Passed(w), NEW v \in Worker, v # w,
         work'[v] = work[v], Passed(v),
         \A t \in Task : tasks'[t].cust = tasks[t].cust /\ tasks'[t].tier = tasks[t].tier
  PROVE  /\ Cust(v) \in Customer /\ Cust(v) # Cust(w)
         /\ Cust(v)' = Cust(v) /\ TierOf(v)' = TierOf(v)
<1>1. work[v].task \in Task /\ Cust(v) \in Customer
  BY BusyTypes DEF Passed
<1>2. Cust(v)' = Cust(v) /\ TierOf(v)' = TierOf(v)
  BY <1>1 DEF Cust, TierOf
<1>3. Cust(v) # Cust(w)
  BY DEF Apart
<1> QED
  BY <1>1, <1>2, <1>3

\* What is not said of a worker at rest or at the check.
LEMMA PassedCases ==
  ASSUME NEW v \in Worker, Serving(v) \/ Underway(v) \/ work[v].at = "expire"
  PROVE  Passed(v)
  BY DEF Passed, Serving, Underway

\* Quiet steps preserve CoolInv.
LEMMA QuietStep ==
  ASSUME Apart', TypeInv, TypeInv', CoolInv, UNCHANGED <<outreach, cooldown>>, day <= day',
         \A v \in Worker : Quiet(v)
  PROVE  CoolInv'
<1>1. day \in Nat /\ day' \in Nat /\ \A c \in Customer : cooldown[c] \in Nat
  BY DispatchAssumption DEF TypeInv, TypeOK
<1>2. \A c : Latest(c)' = Latest(c) /\ Due(c)' = Due(c)
  BY DEF Latest, Due, CooldownDays
<1>3. \A c \in Customer : outreach[c] # <<>> => Due(c) \in Nat /\ Latest(c).at \in Nat
  BY DueType
<1>4. Made'
  <2> SUFFICES ASSUME NEW v \in Worker, Serving(v)'
               PROVE  \/ /\ outreach[Cust(v)'] # <<>>
                         /\ Latest(Cust(v))'.tier = TierOf(v)' /\ Latest(Cust(v))'.at <= day'
                      \/ outreach[Cust(v)'] # <<>> => day' >= Due(Cust(v))'
    BY DEF Made
  <2>1. Serving(v) /\ Cust(v)' = Cust(v) /\ TierOf(v)' = TierOf(v) /\ Cust(v) \in Customer
    BY DEF Quiet, Serving
  <2>2. \/ outreach[Cust(v)] # <<>> /\ Latest(Cust(v)).tier = TierOf(v) /\ Latest(Cust(v)).at <= day
        \/ outreach[Cust(v)] # <<>> => day >= Due(Cust(v))
    BY <2>1 DEF CoolInv, Made
  <2>3. Latest(Cust(v))' = Latest(Cust(v)) /\ Due(Cust(v))' = Due(Cust(v))
    BY <2>1 DEF Latest, Due, CooldownDays
  <2>4. outreach[Cust(v)] # <<>> =>
          /\ Latest(Cust(v)).at <= day => Latest(Cust(v)).at <= day'
          /\ day >= Due(Cust(v)) => day' >= Due(Cust(v))
    BY <1>1, <1>3, <2>1
  <2> QED
    BY <2>1, <2>2, <2>3, <2>4
<1>5. Covered'
  <2> SUFFICES ASSUME NEW c \in Customer, outreach[c] # <<>>
               PROVE  \/ \E w \in Worker : Serving(w)' /\ Cust(w)' = c
                      \/ day' >= Due(c)
                      \/ cooldown[c] >= Due(c)
    BY <1>2 DEF Covered
  <2>1. CASE \E w \in Worker : Serving(w) /\ Cust(w) = c
    BY <2>1 DEF Quiet
  <2>2. CASE day >= Due(c)
    BY <1>1, <1>3, <2>2
  <2>3. CASE cooldown[c] >= Due(c)
    BY <2>3
  <2> QED
    BY <2>1, <2>2, <2>3 DEF CoolInv, Covered
<1>6. Over'
  <2> SUFFICES ASSUME NEW v \in Worker, work'[v].at = "expire"
               PROVE  cooldown[Cust(v)'] <= day'
    BY DEF Over
  <2>1. Cust(v)' = Cust(v) /\ Cust(v) \in Customer /\ ~InCooldown(Cust(v))
    BY DEF Quiet
  <2> QED
    BY <1>1, <2>1 DEF InCooldown
<1>7. Cleared'
  <2> SUFFICES ASSUME NEW v \in Worker, Underway(v)', TierOf(v)' = "watch",
                      outreach[Cust(v)'] # <<>>
               PROVE  day' >= Due(Cust(v))'
    BY DEF Cleared
  <2>1. /\ Cust(v)' = Cust(v) /\ TierOf(v) = "watch" /\ Cust(v) \in Customer
        /\ Underway(v) \/ (~Serving(v) /\ ~InCooldown(Cust(v)))
    BY DEF Quiet, Underway
  <2>2. Due(Cust(v))' = Due(Cust(v))
    BY <2>1 DEF Due, Latest, CooldownDays
  <2>3. CASE Underway(v)
    <3>1. day >= Due(Cust(v))
      BY <2>1, <2>3 DEF CoolInv, Cleared
    <3> QED
      BY <1>1, <1>3, <2>1, <2>2, <3>1
  <2>4. CASE ~Serving(v) /\ ~InCooldown(Cust(v))
    <3>1. ~\E w \in Worker : Serving(w) /\ Cust(w) = Cust(v)
      <4> SUFFICES ASSUME NEW w \in Worker, Serving(w), Cust(w) = Cust(v) PROVE FALSE
        OBVIOUS
      <4>1. v # w /\ Serving(w)' /\ Cust(w)' = Cust(w)
        BY <2>4 DEF Quiet
      <4>2. Passed(v)' /\ Passed(w)'
        BY <4>1 DEF Passed, Serving, Underway
      <4> QED
        BY <2>1, <4>1, <4>2 DEF Apart
    <3>2. day >= Due(Cust(v)) \/ cooldown[Cust(v)] >= Due(Cust(v))
      BY <2>1, <3>1 DEF CoolInv, Covered
    <3> QED
      BY <1>1, <1>3, <2>1, <2>2, <2>4, <3>2 DEF InCooldown
  <2> QED
    BY <2>1, <2>3, <2>4
<1> QED
  BY <1>4, <1>5, <1>6, <1>7 DEF CoolInv

\* A worker that does not move is quiet.
LEMMA QuietStill ==
  ASSUME TypeInv, NEW v \in Worker, work'[v] = work[v],
         \A t \in Task : tasks'[t].cust = tasks[t].cust /\ tasks'[t].tier = tasks[t].tier,
         work[v].at = "expire" => ~InCooldown(Cust(v))
  PROVE  Quiet(v)
<1>1. CASE work[v].at = "idle"
  BY <1>1 DEF Quiet, Serving
<1>2. CASE work[v].at # "idle"
  <2>1. work[v].task \in Task /\ Cust(v) \in Customer
    BY <1>2, BusyTypes
  <2>2. Cust(v)' = Cust(v) /\ TierOf(v)' = TierOf(v)
    BY <2>1 DEF Cust, TierOf
  <2> QED
    BY <2>1, <2>2 DEF Quiet, Serving, Underway
<1> QED
  BY <1>1, <1>2

\* A worker that moves on with the same task, neither to nor from its outreach.
LEMMA QuietMove ==
  ASSUME TypeInv, NEW v \in Worker, NEW s, Execute(v),
         work'[v].at = s, work'[v].task = work[v].task,
         \/ /\ Underway(v)
            /\ s \in {"level", "readTier", "writeTier", "channel", "save", "deliver"}
         \/ /\ work[v].at = "check" /\ s \in {"expire", "level"}
            /\ s = "expire" => ~InCooldown(Cust(v))
            /\ TierOf(v) = "watch" => ~InCooldown(Cust(v))
         \/ Serving(v) /\ s \in {"mark", "cool"}
  PROVE  Quiet(v)
<1>1. work[v].at # "idle"
  BY TasksKept
<1>2. work[v].task \in Task /\ Cust(v) \in Customer
  BY <1>1, BusyTypes
<1>3. Cust(v)' = Cust(v) /\ TierOf(v)' = TierOf(v)
  BY <1>2, TasksKept DEF Cust, TierOf
<1> QED
  BY <1>2, <1>3 DEF Quiet, Serving, Underway

\* The steps of an execution that touch neither outreach nor cooldowns are quiet.
LEMMA QuietExecute ==
  ASSUME TypeInv, NEW v \in Worker,
         \/ CheckCooldown(v) \/ GetLevel(v) \/ ReadTier(v) \/ WriteTier(v)
         \/ SelectChannel(v) \/ SaveIntervention(v) \/ MarkSent(v) \/ Acknowledge(v)
  PROVE  Quiet(v)
<1>1. Execute(v) /\ work[v].at # "idle"
  BY DEF Execute, CheckCooldown, GetLevel, ReadTier, WriteTier, SelectChannel,
         SaveIntervention, MarkSent, Acknowledge
<1>2. work[v] \in WorkState
  BY DEF TypeInv, TypeOK
<1>3. Cust(v) \in Customer /\ cooldown[Cust(v)] \in Nat /\ TierOf(v) \in {"watch", "critical"}
  BY <1>1, BusyTypes DEF TypeInv, TypeOK
<1>4. ASSUME NEW s, GoTo(v, s) PROVE work'[v].at = s /\ work'[v].task = work[v].task
  BY <1>2, <1>4 DEF GoTo, TypeInv, TypeOK, WorkState
<1>5. CASE CheckCooldown(v)
  <2>1. CASE Finish(v, "skipped")
    <3>1. work'[v].at = "idle"
      BY <2>1 DEF Finish, Idle, TypeInv, TypeOK
    <3> QED
      BY <1>5, <3>1 DEF CheckCooldown, Quiet, Serving
  <2>2. CASE InCooldown(Cust(v)) /\ TierOf(v) = "critical"
             /\ work' = [work EXCEPT ![v].at = "level", ![v].level = 1]
    <3>1. work'[v].at = "level" /\ work'[v].task = work[v].task
      BY <1>2, <2>2 DEF TypeInv, TypeOK, WorkState
    <3> QED
      BY <1>1, <1>5, <2>2, <3>1, QuietMove DEF CheckCooldown
  <2>3. CASE Expired(Cust(v)) /\ GoTo(v, "expire")
    <3>1. work[v].at = "check" /\ ~InCooldown(Cust(v))
      BY <1>5, <2>3 DEF CheckCooldown, Expired
    <3> QED
      BY <1>1, <1>4, <2>3, <3>1, QuietMove
  <2>4. CASE cooldown[Cust(v)] = 0 /\ GoTo(v, "level")
    <3>1. ~InCooldown(Cust(v))
      BY <2>4, DispatchAssumption DEF InCooldown, TypeInv, TypeOK
    <3> QED
      BY <1>1, <1>4, <1>5, <2>4, <3>1, QuietMove DEF CheckCooldown
  <2> QED
    BY <1>5, <2>1, <2>2, <2>3, <2>4 DEF CheckCooldown
<1>6. CASE GetLevel(v)
  <2>1. work'[v].at = "readTier" /\ work'[v].task = work[v].task
    BY <1>2, <1>6 DEF GetLevel, TypeInv, TypeOK, WorkState
  <2> QED
    BY <1>1, <1>6, <2>1, QuietMove DEF GetLevel, Underway
<1>7. CASE ReadTier(v)
  <2>1. work'[v].at = "writeTier" /\ work'[v].task = work[v].task
    BY <1>2, <1>7 DEF ReadTier, TypeInv, TypeOK, WorkState
  <2> QED
    BY <1>1, <1>7, <2>1, QuietMove DEF ReadTier, Underway
<1>8. CASE WriteTier(v)
  <2>1. work'[v].at = "channel" /\ work'[v].task = work[v].task
    BY <1>2, <1>8 DEF WriteTier, TypeInv, TypeOK, WorkState
  <2> QED
    <3>1. Underway(v)
      BY <1>8 DEF WriteTier, Underway
    <3> QED
      BY <1>1, <2>1, <3>1, QuietMove
<1>9. CASE SelectChannel(v)
  <2>1. work'[v].at = "save" /\ work'[v].task = work[v].task
    <3>1. PICK ch : work' = [work EXCEPT ![v].at = "save", ![v].chan = ch]
      BY <1>9 DEF SelectChannel
    <3> QED
      BY <1>2, <3>1 DEF TypeInv, TypeOK, WorkState
  <2> QED
    <3>1. Underway(v)
      BY <1>9 DEF SelectChannel, Underway
    <3> QED
      BY <1>1, <2>1, <3>1, QuietMove
<1>10. CASE SaveIntervention(v)
  BY <1>1, <1>4, <1>10, QuietMove DEF SaveIntervention, Underway
<1>11. CASE MarkSent(v)
  BY <1>1, <1>4, <1>11, QuietMove DEF MarkSent, Serving
<1>12. CASE Acknowledge(v)
  <2>1. work[v].at = "ack" /\ work'[v].at = "idle"
    BY <1>12 DEF Acknowledge, Finish, Idle, TypeInv, TypeOK
  <2> QED
    BY <2>1 DEF Quiet, Serving
<1> QED
  BY <1>5, <1>6, <1>7, <1>8, <1>9, <1>10, <1>11, <1>12

\* Deleting or dropping a key whose period is over preserves CoolInv.
LEMMA DeleteStep ==
  ASSUME TypeInv, TypeInv', CoolInv, NEW c \in Customer, ~InCooldown(c),
         cooldown' = [cooldown EXCEPT ![c] = 0], UNCHANGED <<day, outreach>>,
         \A v \in Worker :
           /\ Serving(v)' = Serving(v) /\ (Underway(v)' => Underway(v))
           /\ work'[v].at = "expire" => work[v].at = "expire"
           /\ work'[v].at \notin {"idle", "check"} =>
                Cust(v) \in Customer /\ Cust(v)' = Cust(v) /\ TierOf(v)' = TierOf(v)
           /\ Serving(v) => Cust(v)' = Cust(v)
  PROVE  CoolInv'
<1>1. day \in Nat /\ \A b \in Customer : cooldown[b] \in Nat
  BY DispatchAssumption DEF TypeInv, TypeOK
<1>2. \A b : Latest(b)' = Latest(b) /\ Due(b)' = Due(b)
  BY DEF Latest, Due, CooldownDays
<1>3. \A b \in Customer : outreach[b] # <<>> => Due(b) \in Nat
  BY DueType
<1>4. cooldown[c] <= day
  BY <1>1 DEF InCooldown
<1>5. cooldown'[c] = 0 /\ \A b \in Customer \ {c} : cooldown'[b] = cooldown[b]
  BY DEF TypeInv, TypeOK
<1>6. Made'
  <2> SUFFICES ASSUME NEW v \in Worker, Serving(v)'
               PROVE  \/ /\ outreach[Cust(v)'] # <<>>
                         /\ Latest(Cust(v))'.tier = TierOf(v)' /\ Latest(Cust(v))'.at <= day
                      \/ outreach[Cust(v)'] # <<>> => day >= Due(Cust(v))'
    BY DEF Made
  <2>1. Serving(v) /\ Cust(v)' = Cust(v) /\ TierOf(v)' = TierOf(v)
    BY DEF Serving
  <2>2. Latest(Cust(v))' = Latest(Cust(v)) /\ Due(Cust(v))' = Due(Cust(v))
    BY <2>1 DEF Latest, Due, CooldownDays
  <2> QED
    BY <2>1, <2>2 DEF CoolInv, Made
<1>7. Covered'
  <2> SUFFICES ASSUME NEW b \in Customer, outreach[b] # <<>>
               PROVE  \/ \E w \in Worker : Serving(w)' /\ Cust(w)' = b
                      \/ day >= Due(b)
                      \/ cooldown'[b] >= Due(b)
    BY <1>2 DEF Covered
  <2>1. CASE \E w \in Worker : Serving(w) /\ Cust(w) = b
    BY <2>1
  <2>2. CASE day >= Due(b)
    BY <2>2
  <2>3. CASE cooldown[b] >= Due(b)
    BY <1>1, <1>3, <1>4, <1>5, <2>3
  <2> QED
    BY <2>1, <2>2, <2>3 DEF CoolInv, Covered
<1>8. Over'
  <2> SUFFICES ASSUME NEW v \in Worker, work'[v].at = "expire"
               PROVE  cooldown'[Cust(v)'] <= day
    BY DEF Over
  <2>1. Cust(v)' = Cust(v) /\ Cust(v) \in Customer /\ cooldown[Cust(v)] <= day
    BY DEF CoolInv, Over
  <2> QED
    BY <1>1, <1>5, <2>1
<1>9. Cleared'
  <2> SUFFICES ASSUME NEW v \in Worker, Underway(v)', TierOf(v)' = "watch",
                      outreach[Cust(v)'] # <<>>
               PROVE  day >= Due(Cust(v))'
    BY DEF Cleared
  <2>1. Underway(v) /\ Cust(v)' = Cust(v) /\ TierOf(v) = "watch"
    BY DEF Underway
  <2>2. Due(Cust(v))' = Due(Cust(v))
    BY <2>1 DEF Due, Latest, CooldownDays
  <2> QED
    BY <2>1, <2>2 DEF CoolInv, Cleared
<1> QED
  BY <1>6, <1>7, <1>8, <1>9 DEF CoolInv

\* A channel branch makes the latest outreach to its customer, and respects the
\* cooldown of the one before.
LEMMA ChannelStep ==
  ASSUME Apart, TypeInv, TypeInv', CoolInv, OutreachSpaced, NEW w \in Worker, RunChannel(w),
         Served(work[w].chan)
  PROVE  CoolInv' /\ OutreachSpaced'
<1>1. work[w].at = "deliver" /\ UNCHANGED <<day, tasks, cooldown>>
  BY DEF RunChannel
<1>2. /\ work[w] \in WorkState /\ Cust(w) \in Customer
      /\ TierOf(w) \in {"watch", "critical"} /\ RowOf(w) \in Row
  BY <1>1, BusyTypes
<1>3. work'[w].at = "mark" /\ work'[w].task = work[w].task
  BY <1>2 DEF RunChannel, GoTo, TypeInv, TypeOK, WorkState
<1>4. Cust(w)' = Cust(w) /\ TierOf(w)' = TierOf(w)
  BY <1>1, <1>3 DEF Cust, TierOf
<1>5. /\ Passed(w) /\ \A v \in Worker \ {w} : work'[v] = work[v]
      /\ \A t \in Task : tasks'[t].cust = tasks[t].cust /\ tasks'[t].tier = tasks[t].tier
  BY <1>1, TasksKept DEF Execute, Passed
<1> DEFINE c == Cust(w)
<1> DEFINE e == [row |-> RowOf(w), tier |-> TierOf(w),
                 chan |-> work[w].chan, at |-> day]
<1>6. e.tier = TierOf(w) /\ e.at = day /\ e \in Outreach
  BY <1>2 DEF Outreach, WorkState, TypeInv, TypeOK
<1>7. /\ outreach[c] \in Seq(Outreach) /\ outreach'[c] = Append(outreach[c], e)
      /\ \A b \in Customer \ {c} : outreach'[b] = outreach[b]
  BY <1>2 DEF RunChannel, TypeInv, TypeOK
<1>8. day \in Nat /\ \A b \in Customer : cooldown[b] \in Nat
  BY DispatchAssumption DEF TypeInv, TypeOK
<1> HIDE DEF e
<1>9. outreach'[c] # <<>> /\ Latest(c)' = e
  <2>1. Len(outreach'[c]) = Len(outreach[c]) + 1 /\ outreach'[c][Len(outreach[c]) + 1] = e
    BY <1>6, <1>7
  <2>2. Len(outreach[c]) \in Nat
    BY <1>7
  <2>3. outreach'[c] # <<>>
    BY <2>1, <2>2
  <2> QED
    BY <1>4, <2>1, <2>3 DEF Latest
<1>10. ASSUME NEW v \in Worker \ {w}, Passed(v)
       PROVE  /\ Cust(v) \in Customer \ {c} /\ Cust(v)' = Cust(v) /\ TierOf(v)' = TierOf(v)
              /\ outreach'[Cust(v)] = outreach[Cust(v)]
              /\ Latest(Cust(v))' = Latest(Cust(v)) /\ Due(Cust(v))' = Due(Cust(v))
  <2>1. Cust(v) \in Customer \ {c} /\ Cust(v)' = Cust(v) /\ TierOf(v)' = TierOf(v)
    BY <1>5, <1>10, OthersStay
  <2>2. outreach'[Cust(v)] = outreach[Cust(v)]
    BY <1>7, <2>1
  <2> QED
    BY <2>1, <2>2 DEF Latest, Due, CooldownDays
<1>11. Made'
  <2> SUFFICES ASSUME NEW v \in Worker, Serving(v)'
               PROVE  \/ /\ outreach'[Cust(v)'] # <<>>
                         /\ Latest(Cust(v))'.tier = TierOf(v)' /\ Latest(Cust(v))'.at <= day'
                      \/ outreach'[Cust(v)'] # <<>> => day' >= Due(Cust(v))'
    BY DEF Made
  <2>1. CASE v = w
    <3>1. Latest(Cust(v))' = e
      BY <1>4, <1>9, <2>1 DEF Latest
    <3> QED
      BY <1>1, <1>4, <1>6, <1>8, <1>9, <2>1, <3>1
  <2>2. CASE v # w
    <3>1. Serving(v)
      BY <1>5, <2>2 DEF Serving
    <3>2. Passed(v)
      BY <3>1, PassedCases
    <3> QED
      BY <1>1, <1>10, <2>2, <3>1, <3>2 DEF CoolInv, Made
  <2> QED
    BY <2>1, <2>2
<1>12. Covered'
  <2> SUFFICES ASSUME NEW b \in Customer, outreach'[b] # <<>>
               PROVE  \/ \E v \in Worker : Serving(v)' /\ Cust(v)' = b
                      \/ day >= Due(b)'
                      \/ cooldown[b] >= Due(b)'
    BY <1>1 DEF Covered
  <2>1. CASE b = c
    BY <1>3, <1>4, <2>1 DEF Serving
  <2>2. CASE b # c
    <3>1. outreach'[b] = outreach[b] /\ Due(b)' = Due(b)
      BY <1>7, <2>2 DEF Due, Latest, CooldownDays
    <3>2. CASE \E v \in Worker : Serving(v) /\ Cust(v) = b
      <4>1. PICK v \in Worker : Serving(v) /\ Cust(v) = b
        BY <3>2
      <4>2. v # w /\ Passed(v)
        BY <2>2, <4>1, PassedCases
      <4> QED
        BY <1>5, <1>10, <4>1, <4>2 DEF Serving
    <3> QED
      BY <2>2, <3>1, <3>2 DEF CoolInv, Covered
  <2> QED
    BY <2>1, <2>2
<1>13. Over' /\ Cleared'
  <2>1. ASSUME NEW v \in Worker, work'[v].at = "expire" PROVE cooldown'[Cust(v)'] <= day'
    <3>1. v # w /\ work[v].at = "expire"
      BY <1>3, <1>5, <2>1
    <3>2. Passed(v)
      BY <3>1, PassedCases
    <3> QED
      BY <1>1, <1>10, <3>1, <3>2 DEF CoolInv, Over
  <2>2. ASSUME NEW v \in Worker, Underway(v)', TierOf(v)' = "watch",
               outreach'[Cust(v)'] # <<>>
        PROVE  day' >= Due(Cust(v))'
    <3>1. v # w /\ Underway(v)
      BY <1>3, <1>5, <2>2 DEF Underway
    <3>2. Passed(v)
      BY <3>1, PassedCases
    <3> QED
      BY <1>1, <1>10, <2>2, <3>1, <3>2 DEF CoolInv, Cleared
  <2> QED
    BY <2>1, <2>2 DEF Over, Cleared
<1>14. OutreachSpaced'
  <2> SUFFICES ASSUME NEW b \in Customer, NEW i \in 2..Len(outreach'[b]),
                      outreach'[b][i].tier = "watch"
               PROVE  outreach'[b][i].at >=
                        outreach'[b][i-1].at + CooldownDays(outreach'[b][i-1].tier)
    BY DEF OutreachSpaced, CooldownDays
  <2>1. CASE b # c
    BY <1>7, <2>1 DEF OutreachSpaced
  <2>2. CASE b = c
    <3>1. Len(outreach'[c]) = Len(outreach[c]) + 1 /\ Len(outreach[c]) \in Nat
      BY <1>6, <1>7
    <3>2. CASE i <= Len(outreach[c])
      <4>1. i \in 2..Len(outreach[c]) /\ i \in 1..Len(outreach[c]) /\ i - 1 \in 1..Len(outreach[c])
        BY <3>1, <3>2
      <4>2. outreach'[c][i] = outreach[c][i] /\ outreach'[c][i-1] = outreach[c][i-1]
        BY <1>6, <1>7, <4>1
      <4> QED
        BY <1>2, <2>2, <4>1, <4>2 DEF OutreachSpaced
    <3>3. CASE i = Len(outreach[c]) + 1
      <4>1. outreach'[c][i] = e /\ outreach[c] # <<>> /\ i - 1 = Len(outreach[c])
              /\ i - 1 \in 1..Len(outreach[c])
        BY <1>6, <1>7, <2>2, <3>1, <3>3
      <4>2. outreach'[c][i-1] = Latest(c)
        BY <1>6, <1>7, <4>1 DEF Latest
      <4>3. day >= Due(c)
        BY <1>1, <1>6, <2>2, <4>1 DEF CoolInv, Cleared, Underway
      <4> QED
        BY <1>6, <2>2, <4>1, <4>2, <4>3 DEF Due
    <3> QED
      BY <2>2, <3>1, <3>2, <3>3
  <2> QED
    BY <2>1, <2>2
<1> QED
  BY <1>11, <1>12, <1>13, <1>14 DEF CoolInv

\* A dispatch over a channel without a branch makes no outreach; it is a
\* watch dispatch, past the cooldown of the latest one.
LEMMA NoChannelStep ==
  ASSUME Apart, TypeInv, TypeInv', CoolInv, Direct, NEW w \in Worker, RunChannel(w),
         ~Served(work[w].chan)
  PROVE  CoolInv' /\ UNCHANGED outreach
<1>1. work[w].at = "deliver" /\ UNCHANGED <<day, tasks, cooldown, outreach>>
  BY DEF RunChannel
<1>2. work[w] \in WorkState /\ Cust(w) \in Customer /\ TierOf(w) \in {"watch", "critical"}
  BY <1>1, BusyTypes
<1>3. work'[w].at = "mark" /\ work'[w].task = work[w].task
  BY <1>2 DEF RunChannel, GoTo, TypeInv, TypeOK, WorkState
<1>4. Cust(w)' = Cust(w) /\ TierOf(w)' = TierOf(w)
  BY <1>1, <1>3 DEF Cust, TierOf
<1>5. /\ Passed(w) /\ \A v \in Worker \ {w} : work'[v] = work[v]
      /\ \A t \in Task : tasks'[t].cust = tasks[t].cust /\ tasks'[t].tier = tasks[t].tier
  BY <1>1, TasksKept DEF Execute, Passed
<1>6. TierOf(w) = "watch"
  <2>1. Served("rm_call")
    BY DEF Served, ChannelOrder
  <2> QED
    BY <1>1, <1>2, <2>1 DEF Direct
<1>7. outreach[Cust(w)] # <<>> => day >= Due(Cust(w))
  BY <1>1, <1>6 DEF CoolInv, Cleared, Underway
<1>8. \A b : Latest(b)' = Latest(b) /\ Due(b)' = Due(b)
  BY <1>1 DEF Latest, Due, CooldownDays
<1>9. ASSUME NEW v \in Worker, Passed(v)
       PROVE  Cust(v)' = Cust(v) /\ TierOf(v)' = TierOf(v)
  BY <1>4, <1>5, <1>9, OthersStay
<1>10. ASSUME NEW v \in Worker, v # w PROVE Serving(v)' = Serving(v) /\ Underway(v)' = Underway(v)
  BY <1>5, <1>10 DEF Serving, Underway
<1>11. Made'
  <2> SUFFICES ASSUME NEW v \in Worker, Serving(v)'
               PROVE  \/ /\ outreach[Cust(v)'] # <<>>
                         /\ Latest(Cust(v))'.tier = TierOf(v)' /\ Latest(Cust(v))'.at <= day
                      \/ outreach[Cust(v)'] # <<>> => day >= Due(Cust(v))'
    BY <1>1 DEF Made
  <2>0. Passed(v)
    BY <1>1, <1>10, PassedCases DEF Passed
  <2>1. Latest(Cust(v))' = Latest(Cust(v)) /\ Due(Cust(v))' = Due(Cust(v))
    BY <1>1, <1>9, <2>0 DEF Latest, Due, CooldownDays
  <2>2. CASE v = w
    BY <1>4, <1>7, <2>1, <2>2
  <2>3. CASE v # w
    BY <1>9, <1>10, <2>0, <2>1, <2>3 DEF CoolInv, Made
  <2> QED
    BY <2>2, <2>3
<1>12. Covered'
  <2> SUFFICES ASSUME NEW b \in Customer, outreach[b] # <<>>
               PROVE  \/ \E v \in Worker : Serving(v)' /\ Cust(v)' = b
                      \/ day >= Due(b)
                      \/ cooldown[b] >= Due(b)
    BY <1>1, <1>8 DEF Covered
  <2>1. CASE \E v \in Worker : Serving(v) /\ Cust(v) = b
    <3>1. PICK v \in Worker : Serving(v) /\ Cust(v) = b
      BY <2>1
    <3>2. v # w /\ Passed(v)
      BY <1>1, <3>1, PassedCases DEF Serving
    <3> QED
      BY <1>9, <1>10, <3>1, <3>2
  <2> QED
    BY <2>1 DEF CoolInv, Covered
<1>13. Over' /\ Cleared'
  <2>1. ASSUME NEW v \in Worker, work'[v].at = "expire" PROVE cooldown'[Cust(v)'] <= day'
    <3>1. v # w /\ work[v].at = "expire"
      BY <1>3, <1>5, <2>1
    <3>2. Passed(v)
      BY <3>1, PassedCases
    <3> QED
      BY <1>1, <1>9, <3>1, <3>2 DEF CoolInv, Over
  <2>2. ASSUME NEW v \in Worker, Underway(v)', TierOf(v)' = "watch",
               outreach'[Cust(v)'] # <<>>
        PROVE  day' >= Due(Cust(v))'
    <3>1. v # w /\ Underway(v)
      BY <1>3, <1>10, <2>2 DEF Underway
    <3>2. Passed(v)
      BY <3>1, PassedCases
    <3>3. Due(Cust(v))' = Due(Cust(v))
      BY <1>1, <1>9, <3>2 DEF Latest, Due, CooldownDays
    <3> QED
      BY <1>1, <1>9, <2>2, <3>1, <3>2, <3>3 DEF CoolInv, Cleared
  <2> QED
    BY <2>1, <2>2 DEF Over, Cleared
<1> QED
  BY <1>1, <1>11, <1>12, <1>13 DEF CoolInv

\* Setting the cooldown ends the outreach and covers it.
LEMMA CoolStep ==
  ASSUME Apart, TypeInv, TypeInv', CoolInv, NEW w \in Worker, SetCooldown(w)
  PROVE  CoolInv'
<1>1. work[w].at = "cool" /\ UNCHANGED <<day, outreach>>
  BY DEF SetCooldown
<1>2. Cust(w) \in Customer /\ TierOf(w) \in {"watch", "critical"} /\ Serving(w)
  BY <1>1, BusyTypes DEF Serving
<1>3. work'[w].at = "ack"
  BY DEF SetCooldown, GoTo, WorkState, TypeInv, TypeOK
<1>4. /\ Passed(w) /\ \A v \in Worker \ {w} : work'[v] = work[v]
      /\ \A t \in Task : tasks'[t].cust = tasks[t].cust /\ tasks'[t].tier = tasks[t].tier
  BY <1>1, TasksKept DEF Execute, Passed
<1>5. day \in Nat /\ \A k : CooldownDays(k) \in Nat
  BY DispatchAssumption DEF CooldownDays, TypeInv, TypeOK
<1>6. cooldown'[Cust(w)] = day + CooldownDays(TierOf(w))
        /\ \A b \in Customer \ {Cust(w)} : cooldown'[b] = cooldown[b]
  BY <1>2 DEF SetCooldown, TypeInv, TypeOK
<1>7. ASSUME NEW v \in Worker, Passed(v)'
      PROVE  /\ v # w /\ Serving(v)' = Serving(v) /\ Underway(v)' = Underway(v)
             /\ work'[v] = work[v] /\ Cust(v)' = Cust(v) /\ TierOf(v)' = TierOf(v)
             /\ cooldown'[Cust(v)] = cooldown[Cust(v)]
             /\ Latest(Cust(v))' = Latest(Cust(v)) /\ Due(Cust(v))' = Due(Cust(v))
  <2>1. v # w /\ work'[v] = work[v]
    BY <1>3, <1>4, <1>7 DEF Passed
  <2>2. Passed(v)
    BY <1>7, <2>1 DEF Passed
  <2>3. /\ Cust(v) \in Customer /\ Cust(v) # Cust(w)
        /\ Cust(v)' = Cust(v) /\ TierOf(v)' = TierOf(v)
    BY <1>4, <2>1, <2>2, OthersStay
  <2> QED
    BY <1>1, <1>6, <2>1, <2>3 DEF Serving, Underway, Latest, Due, CooldownDays
<1>8. \A v \in Worker : Serving(v)' \/ Underway(v)' \/ work'[v].at = "expire" => Passed(v)'
  BY DEF Passed, Serving, Underway
<1>9. Made' /\ Over' /\ Cleared'
  <2>1. Made'
    BY <1>1, <1>7, <1>8 DEF CoolInv, Made
  <2>2. Over'
    BY <1>1, <1>7, <1>8 DEF CoolInv, Over
  <2>3. Cleared'
    BY <1>1, <1>7, <1>8 DEF CoolInv, Cleared
  <2> QED
    BY <2>1, <2>2, <2>3
<1>10. Covered'
  <2> SUFFICES ASSUME NEW b \in Customer, outreach[b] # <<>>
               PROVE  \/ \E v \in Worker : Serving(v)' /\ Cust(v)' = b
                      \/ day >= Due(b) \/ cooldown'[b] >= Due(b)
    BY <1>1 DEF Covered, Due, Latest, CooldownDays
  <2>1. CASE b = Cust(w)
    <3>1. (Latest(b).tier = TierOf(w) /\ Latest(b).at <= day) \/ day >= Due(b)
      BY <1>2, <2>1 DEF CoolInv, Made
    <3>2. Latest(b).at \in Nat
      BY DueType
    <3> QED
      BY <1>5, <1>6, <2>1, <3>1, <3>2 DEF Due
  <2>2. CASE b # Cust(w)
    <3>1. ASSUME NEW v \in Worker, Serving(v), Cust(v) = b
          PROVE  Serving(v)' /\ Cust(v)' = b
      <4>1. v # w /\ work'[v] = work[v]
        BY <1>4, <2>2, <3>1
      <4> QED
        BY <1>4, <3>1, <4>1, OthersStay, PassedCases DEF Serving
    <3> QED
      BY <1>6, <2>2, <3>1 DEF CoolInv, Covered
  <2> QED
    BY <2>1, <2>2
<1> QED
  BY <1>9, <1>10 DEF CoolInv

\* Every step preserves Direct.
LEMMA DirectStep ==
  ASSUME TypeInv, Direct, [Next]_vars
  PROVE  Direct'
<1> SUFFICES ASSUME NEW v \in Worker, work'[v].at \in {"save", "deliver"}, TierOf(v)' = "critical"
             PROVE  work'[v].chan = "rm_call"
  BY DEF Direct
<1>1. ASSUME work'[v] = work[v],
             \A t \in Task : tasks'[t].tier = tasks[t].tier
      PROVE  work'[v].chan = "rm_call"
  <2>1. TierOf(v)' = TierOf(v)
    BY <1>1, BusyTypes DEF TierOf
  <2> QED
    BY <1>1, <2>1 DEF Direct
<1>2. ASSUME NEW w \in Worker, Execute(w) \/ Fault(w) PROVE work'[v].chan = "rm_call"
  <2>1. CASE v # w
    BY <1>1, <1>2, <2>1, TasksKept
  <2>2. CASE v = w
    <3>1. /\ work[v] \in WorkState /\ work[v].task \in Task /\ work[v].at # "idle"
          /\ \A t \in Task : tasks'[t].tier = tasks[t].tier
      BY <1>2, <2>2, TasksKept, BusyTypes
    <3>2. SelectChannel(v) \/ SaveIntervention(v)
      <4>1. ASSUME NEW s, GoTo(v, s) PROVE work'[v].at = s
        BY <3>1, <4>1 DEF GoTo, TypeInv, TypeOK, WorkState
      <4>2. ASSUME work' = [work EXCEPT ![v] = Idle] PROVE work'[v].at = "idle"
        BY <4>2 DEF Idle, TypeInv, TypeOK
      <4>3. (\E s : Finish(v, s)) \/ (\E n : Again(v, n)) => work'[v].at = "idle"
        BY <4>2 DEF Finish, Again
      <4>4. CheckCooldown(v) => work'[v].at \in {"idle", "expire", "level"}
        BY <3>1, <4>1, <4>3 DEF CheckCooldown, TypeInv, TypeOK, WorkState
      <4>5. GetLevel(v) => work'[v].at = "readTier"
        BY <3>1 DEF GetLevel, TypeInv, TypeOK, WorkState
      <4>6. ReadTier(v) => work'[v].at = "writeTier"
        BY <3>1 DEF ReadTier, TypeInv, TypeOK, WorkState
      <4>7. WriteTier(v) => work'[v].at = "channel"
        BY <3>1 DEF WriteTier, TypeInv, TypeOK, WorkState
      <4>8. DeleteCooldown(v) \/ RunChannel(v) \/ MarkSent(v) \/ OutreachFails(v)
              \/ SetCooldown(v) => work'[v].at \in {"level", "mark", "cool", "ack"}
        BY <4>1 DEF DeleteCooldown, RunChannel, MarkSent, OutreachFails, SetCooldown
      <4>9. Acknowledge(v) \/ Raise(v) \/ Crash(v) => work'[v].at = "idle"
        BY <4>3 DEF Acknowledge, Raise, Crash
      <4> QED
        BY <1>2, <2>2, <4>4, <4>5, <4>6, <4>7, <4>8, <4>9 DEF Execute, Fault
    <3>3. CASE SelectChannel(v)
      <4>1. PICK ch \in OptimalChannels(Cust(v), TierOf(v), work[v].level) :
              work' = [work EXCEPT ![v].at = "save", ![v].chan = ch]
        BY <3>3 DEF SelectChannel
      <4>2. work'[v].task = work[v].task /\ work'[v].chan = ch
        BY <3>1, <4>1 DEF TypeInv, TypeOK, WorkState
      <4>3. TierOf(v) = "critical"
        BY <3>1, <4>2 DEF TierOf
      <4> QED
        BY <4>1, <4>2, <4>3 DEF OptimalChannels
    <3>4. CASE SaveIntervention(v)
      <4>1. /\ work[v].at = "save" /\ work'[v].task = work[v].task
            /\ work'[v].chan = work[v].chan
        BY <3>1, <3>4 DEF SaveIntervention, GoTo, TypeInv, TypeOK, WorkState
      <4>2. TierOf(v) = "critical"
        BY <3>1, <4>1 DEF TierOf
      <4> QED
        BY <4>1, <4>2 DEF Direct
    <3> QED
      BY <3>2, <3>3, <3>4
  <2> QED
    BY <2>1, <2>2
<1>3. ASSUME NEW w \in Worker, Start(w) PROVE work'[v].chan = "rm_call"
  <2>1. work'[w].at = "check"
    BY <1>3 DEF Start, Idle, TypeInv, TypeOK
  <2>2. work'[v] = work[v]
    BY <1>3, <2>1 DEF Start, TypeInv, TypeOK
  <2> QED
    BY <1>1, <1>3, <2>2, StatusOnly
<1>4. ASSUME NEW t \in Task, Enqueue(t) PROVE work'[v].chan = "rm_call"
  BY <1>1, <1>4, StatusOnly DEF Enqueue
<1>5. CASE UNCHANGED <<tasks, work>>
  BY <1>1, <1>5
<1> QED
  BY <1>2, <1>3, <1>4, <1>5 DEF Next, Feedback, ExpireKey, EvictKey, Tick, vars

\* A step without fault of executions that are apart.
LEMMA ApartStep ==
  ASSUME Apart, Apart', TypeInv, TypeInv', CoolInv, Direct, OutreachSpaced, [Next]_vars,
         faults = 0, faults' = 0
  PROVE  CoolInv' /\ OutreachSpaced'
<1>1. UNCHANGED outreach => OutreachSpaced'
  BY DEF OutreachSpaced, CooldownDays
<1>2. day \in Nat /\ \A b \in Customer : cooldown[b] \in Nat
  BY DispatchAssumption DEF TypeInv, TypeOK
<1>3. \A v \in Worker : work[v].at = "expire" => ~InCooldown(Cust(v))
  <2> SUFFICES ASSUME NEW v \in Worker, work[v].at = "expire" PROVE ~InCooldown(Cust(v))
    OBVIOUS
  <2>1. Cust(v) \in Customer /\ cooldown[Cust(v)] <= day
    BY BusyTypes DEF CoolInv, Over
  <2> QED
    BY <1>2, <2>1 DEF InCooldown
<1>4. ASSUME UNCHANGED <<work, cooldown, outreach>>, day <= day',
             \A t \in Task : tasks'[t].cust = tasks[t].cust /\ tasks'[t].tier = tasks[t].tier
      PROVE  CoolInv' /\ OutreachSpaced'
  <2>1. \A v \in Worker : Quiet(v)
    BY <1>3, <1>4, QuietStill
  <2> QED
    BY <1>1, <1>4, <2>1, QuietStep
<1>5. ASSUME NEW t \in Task, Enqueue(t) PROVE CoolInv' /\ OutreachSpaced'
  <2>1. \A u \in Task : tasks'[u].cust = tasks[u].cust /\ tasks'[u].tier = tasks[u].tier
    BY <1>5, StatusOnly
  <2>2. UNCHANGED <<work, cooldown, outreach>> /\ day <= day'
    BY <1>2, <1>5 DEF Enqueue
  <2> QED
    BY <1>4, <2>1, <2>2
<1>6. ASSUME NEW w \in Worker, Start(w) PROVE CoolInv' /\ OutreachSpaced'
  <2>1. Quiet(w)
    BY <1>6 DEF Start, Quiet, Serving, Idle, TypeInv, TypeOK
  <2>3. ASSUME NEW v \in Worker \ {w} PROVE Quiet(v)
    <3>1. work'[v] = work[v]
      BY <1>6 DEF Start, TypeInv, TypeOK
    <3> QED
      BY <1>3, <1>6, <3>1, StatusOnly, QuietStill
  <2>2. \A v \in Worker : Quiet(v)
    BY <2>1, <2>3
  <2> QED
    BY <1>1, <1>2, <1>6, <2>2, QuietStep DEF Start
<1>7. ASSUME NEW w \in Worker, Execute(w) PROVE CoolInv' /\ OutreachSpaced'
  <2>1. CASE RunChannel(w)
    BY <1>1, <2>1, ChannelStep, NoChannelStep
  <2>2. CASE SetCooldown(w)
    BY <1>1, <2>2, CoolStep DEF SetCooldown
  <2>3. CASE DeleteCooldown(w)
    <3>1. work[w] \in WorkState /\ Cust(w) \in Customer /\ UNCHANGED <<day, outreach, tasks>>
            /\ work[w].at = "expire"
      BY <2>3, BusyTypes DEF DeleteCooldown
    <3>2. work'[w].at = "level" /\ work'[w].task = work[w].task
      BY <2>3, <3>1 DEF DeleteCooldown, GoTo, TypeInv, TypeOK, WorkState
    <3>3. Cust(w)' = Cust(w) /\ TierOf(w)' = TierOf(w)
      BY <3>1, <3>2 DEF Cust, TierOf
    <3>4. ASSUME NEW v \in Worker, v # w
          PROVE  /\ work'[v] = work[v] /\ Cust(v)' = Cust(v) /\ TierOf(v)' = TierOf(v)
                 /\ Serving(v)' = Serving(v) /\ Underway(v)' = Underway(v)
                 /\ work[v].at # "idle" => Cust(v) \in Customer
      <4>1. work'[v] = work[v]
        BY <1>7, <3>4, TasksKept
      <4> QED
        BY <3>1, <4>1, BusyTypes DEF Cust, TierOf, Serving, Underway
    <3>5. Serving(w)' = Serving(w) /\ Underway(w)
      BY <3>1, <3>2 DEF Serving, Underway
    <3> DEFINE c == Cust(w)
    <3>6. c \in Customer /\ ~InCooldown(c) /\ cooldown' = [cooldown EXCEPT ![c] = 0]
      BY <1>3, <2>3, <3>1 DEF DeleteCooldown
    <3>7. \A v \in Worker :
            /\ Serving(v)' = Serving(v) /\ (Underway(v)' => Underway(v))
            /\ work'[v].at = "expire" => work[v].at = "expire"
            /\ work'[v].at \notin {"idle", "check"} =>
                 Cust(v) \in Customer /\ Cust(v)' = Cust(v) /\ TierOf(v)' = TierOf(v)
            /\ Serving(v) => Cust(v)' = Cust(v)
      BY <3>1, <3>3, <3>4, <3>5
    <3> HIDE DEF c
    <3> QED
      BY <1>1, <3>1, <3>6, <3>7, DeleteStep
  <2>4. CASE \/ CheckCooldown(w) \/ GetLevel(w) \/ ReadTier(w) \/ WriteTier(w)
             \/ SelectChannel(w) \/ SaveIntervention(w) \/ MarkSent(w) \/ Acknowledge(w)
    <3>3. ASSUME NEW v \in Worker \ {w} PROVE Quiet(v)
      BY <1>3, <1>7, TasksKept, QuietStill
    <3>1. \A v \in Worker : Quiet(v)
      BY <2>4, <3>3, QuietExecute
    <3>2. UNCHANGED <<day, outreach, cooldown>>
      BY <2>4 DEF CheckCooldown, GetLevel, ReadTier, WriteTier, SelectChannel,
                  SaveIntervention, MarkSent, Acknowledge
    <3> QED
      BY <1>1, <1>2, <3>1, <3>2, QuietStep
  <2> QED
    BY <1>7, <2>1, <2>2, <2>3, <2>4 DEF Execute
<1>8. ASSUME NEW w \in Worker, Fault(w) PROVE FALSE
  BY <1>8 DEF Fault, Raise, OutreachFails, Crash
<1>9. ASSUME NEW c \in Customer, EvictKey(c) PROVE FALSE
  BY <1>9 DEF EvictKey
<1>10. ASSUME NEW r \in Row, Feedback(r) PROVE CoolInv' /\ OutreachSpaced'
  BY <1>2, <1>4, <1>10 DEF Feedback
<1>11. ASSUME NEW c \in Customer, ExpireKey(c) PROVE CoolInv' /\ OutreachSpaced'
  <2>1. UNCHANGED <<day, tasks, work, outreach>> /\ ~InCooldown(c)
          /\ cooldown' = [cooldown EXCEPT ![c] = 0]
    BY <1>11 DEF ExpireKey, Expired
  <2>2. ASSUME NEW v \in Worker
        PROVE  /\ Serving(v)' = Serving(v) /\ (Underway(v)' => Underway(v))
               /\ work'[v].at = "expire" => work[v].at = "expire"
               /\ work'[v].at \notin {"idle", "check"} =>
                    Cust(v) \in Customer /\ Cust(v)' = Cust(v) /\ TierOf(v)' = TierOf(v)
               /\ Serving(v) => Cust(v)' = Cust(v)
    <3>1. Cust(v)' = Cust(v) /\ TierOf(v)' = TierOf(v)
      BY <2>1 DEF Cust, TierOf
    <3>2. work'[v].at \notin {"idle", "check"} => Cust(v) \in Customer
      BY <2>1, BusyTypes
    <3> QED
      BY <2>1, <3>1, <3>2 DEF Serving, Underway
  <2> QED
    BY <1>1, <2>1, <2>2, DeleteStep
<1>12. CASE Tick
  BY <1>2, <1>4, <1>12 DEF Tick
<1>13. CASE UNCHANGED vars
  BY <1>2, <1>4, <1>13 DEF vars
<1> QED
  BY <1>5, <1>6, <1>7, <1>8, <1>10, <1>11, <1>12, <1>13, <1>9 DEF Next

\* A fault stays on the count.
LEMMA FaultsStay ==
  ASSUME TypeInv, [Next]_vars, faults' = 0
  PROVE  faults = 0
<1>1. faults \in Nat
  BY DispatchAssumption DEF TypeInv, TypeOK
<1>2. faults' = faults \/ faults' = faults + 1
  BY DEF Next, vars, Enqueue, Start, Execute, Fault, CheckCooldown, DeleteCooldown,
         GetLevel, ReadTier, WriteTier, SelectChannel, SaveIntervention, RunChannel, MarkSent,
         SetCooldown, Acknowledge, Raise, OutreachFails, Crash, Feedback, ExpireKey, EvictKey, Tick
<1> QED
  BY <1>1, <1>2

\* The invariant of behaviours that have met no fault so far.
FaultlessInv == Direct /\ (faults = 0 => CoolInv /\ OutreachSpaced)

\* For any customers, tasks, tiers, cooldown lengths and number of worker
\* processes: as long as no two executions for one customer are past the check at a
\* time and nothing has failed, a watch customer gets outreach only once the cooldown
\* of the latest one, of either tier, is over (cooldown_manager.should_intervene,
\* is_in_cooldown and set_cooldown).  So the only race that breaks a cooldown is that
\* of two executions for the same customer.
THEOREM ApartRespectsCooldown == Spec /\ []Apart => []CooldownRespected
<1>1. Init => FaultlessInv
  BY DEF Init, FaultlessInv, CoolInv, Direct, Made, Covered, Over, Cleared, Serving,
         Underway, Idle, OutreachSpaced
<1>2. Apart /\ Apart' /\ TypeInv /\ FaultlessInv /\ [Next]_vars => TypeInv' /\ FaultlessInv'
  <2> SUFFICES ASSUME Apart, Apart', TypeInv, FaultlessInv, [Next]_vars
               PROVE  TypeInv' /\ FaultlessInv'
    OBVIOUS
  <2>1. TypeInv'
    BY TypeStep
  <2>2. Direct'
    BY DirectStep DEF FaultlessInv
  <2>3. ASSUME faults' = 0 PROVE CoolInv' /\ OutreachSpaced'
    BY <2>1, <2>3, FaultsStay, ApartStep DEF FaultlessInv
  <2> QED
    BY <2>1, <2>2, <2>3 DEF FaultlessInv
<1>3. FaultlessInv => CooldownRespected
  BY DEF FaultlessInv, CooldownRespected
<1> QED
  BY <1>1, <1>2, <1>3, TypeInit, PTL DEF Spec

-----------------------------------------------------------------------------
(* A cooldown stands on a record.                                          *)

Late == {"deliver", "mark", "cool"}

\* An execution that has passed its save has its row in the table.
RecordInv == \A w \in Worker : work[w].at \in Late => Saved(RowOf(w))

\* Time never goes back.
LEMMA DayGrows ==
  ASSUME TypeInv, [Next]_vars
  PROVE  day \in Nat /\ day' \in Nat /\ (day' = day \/ day' = day + 1)
<1>1. day \in Nat
  BY DispatchAssumption DEF TypeInv, TypeOK
<1>2. day' = day \/ day' = day + 1
  BY DEF Next, vars, Enqueue, Start, Execute, Fault, CheckCooldown, DeleteCooldown,
         GetLevel, ReadTier, WriteTier, SelectChannel, SaveIntervention, RunChannel, MarkSent,
         SetCooldown, Acknowledge, Raise, OutreachFails, Crash, Feedback, ExpireKey, EvictKey, Tick
<1> QED
  BY <1>1, <1>2

\* A saved row stays in the table.
LEMMA SavedStays ==
  ASSUME TypeInv, [Next]_vars, NEW r \in Row, Saved(r)
  PROVE  Saved(r)'
<1>1. rows[r] \in RowState
  BY DEF TypeInv, TypeOK
<1>2. ASSUME NEW w \in Worker, SaveIntervention(w)
      PROVE  rows'[r] = rows[r] \/ rows'[r].status = "pending"
  <2>1. RowOf(w) \in Row
    BY <1>2, BusyTypes DEF SaveIntervention
  <2> QED
    BY <1>2, <2>1 DEF SaveIntervention, TypeInv, TypeOK
<1>3. ASSUME NEW w \in Worker, MarkSent(w)
      PROVE  rows'[r] = rows[r] \/ rows'[r].status = "sent"
  BY <1>1, <1>3 DEF MarkSent, TypeInv, TypeOK, RowState
<1>4. ASSUME NEW q \in Row, Feedback(q)
      PROVE  rows'[r].status = rows[r].status
  BY <1>1, <1>4 DEF Feedback, TypeInv, TypeOK, RowState
<1>5. \/ UNCHANGED rows
      \/ \E w \in Worker : SaveIntervention(w) \/ MarkSent(w)
      \/ \E q \in Row : Feedback(q)
  BY DEF Next, vars, Enqueue, Start, Execute, Fault, CheckCooldown, DeleteCooldown,
         GetLevel, ReadTier, WriteTier, SelectChannel, RunChannel, SetCooldown, Acknowledge, Raise,
         OutreachFails, Crash, ExpireKey, EvictKey, Tick
<1> QED
  BY <1>2, <1>3, <1>4, <1>5 DEF Saved

\* Another worker's step, a start or an enqueue leaves a busy worker alone.
LEMMA OthersLeave ==
  ASSUME TypeInv, NEW v \in Worker, work'[v].at \notin {"idle", "check"}, [Next]_vars,
         ~(Execute(v) \/ Fault(v))
  PROVE  work'[v] = work[v] /\ RowOf(v)' = RowOf(v)
<1> USE DEF TypeInv
<1>1. ASSUME NEW w \in Worker, Execute(w) \/ Fault(w)
      PROVE  work'[v] = work[v] /\ tasks'[work[v].task].attempt = tasks[work[v].task].attempt
  <2>1. work'[v] = work[v]
    BY <1>1, TasksKept
  <2>2. work[v].task \in Task \ {work[w].task}
    BY <1>1, <2>1 DEF Busy
  <2> QED
    BY <1>1, <2>1, <2>2, TasksKept
<1>2. ASSUME NEW w \in Worker, Start(w)
      PROVE  work'[v] = work[v] /\ tasks'[work[v].task].attempt = tasks[work[v].task].attempt
  <2>1. work'[w].at = "check"
    BY <1>2 DEF Start, Idle, TypeOK
  <2>2. work'[v] = work[v]
    BY <1>2, <2>1 DEF Start, TypeOK
  <2>3. work[v].task \in Task
    BY <2>2 DEF Busy
  <2> QED
    BY <1>2, <2>2, <2>3, StatusOnly
<1>3. ASSUME NEW t \in Task, Enqueue(t)
      PROVE  work'[v] = work[v] /\ tasks'[work[v].task].attempt = tasks[work[v].task].attempt
  <2>1. work'[v] = work[v] /\ work[v].task \in Task
    BY <1>3 DEF Enqueue, Busy
  <2> QED
    BY <1>3, <2>1, StatusOnly
<1>4. CASE UNCHANGED <<tasks, work>>
  BY <1>4 DEF RowOf
<1> QED
  BY <1>1, <1>2, <1>3, <1>4 DEF Next, Feedback, ExpireKey, EvictKey, Tick, vars, RowOf

\* How a step moves the worker that takes it.
LEMMA Moves ==
  ASSUME TypeInv, NEW v \in Worker, Execute(v) \/ Fault(v)
  PROVE  /\ work[v].at # "idle" /\ RowOf(v) \in Row /\ Cust(v) \in Customer
         /\ \/ work'[v].at = "idle"
            \/ /\ UNCHANGED tasks /\ work'[v].task = work[v].task
               /\ \/ work'[v].at \in {"expire", "level", "readTier", "writeTier", "channel"}
                  \/ SelectChannel(v) /\ work'[v].at = "save"
                  \/ /\ work'[v].chan = work[v].chan
                     /\ \/ SaveIntervention(v) /\ work'[v].at = "deliver"
                        \/ RunChannel(v) /\ work'[v].at = "mark"
                        \/ (MarkSent(v) \/ OutreachFails(v)) /\ work'[v].at = "cool"
                        \/ SetCooldown(v) /\ work'[v].at = "ack"
<1> USE DEF TypeInv
<1>1. work[v].at # "idle" /\ RowOf(v) \in Row /\ Cust(v) \in Customer
  BY TasksKept, BusyTypes
<1>2. work[v] \in WorkState
  BY DEF TypeOK
<1>3. ASSUME NEW s, GoTo(v, s)
      PROVE  work'[v].at = s /\ work'[v].task = work[v].task /\ work'[v].chan = work[v].chan
  BY <1>2, <1>3 DEF GoTo, TypeOK, WorkState
<1>4. (\E s : Finish(v, s)) \/ (\E n : Again(v, n)) => work'[v].at = "idle"
  <2>1. ASSUME work' = [work EXCEPT ![v] = Idle] PROVE work'[v].at = "idle"
    BY <2>1 DEF Idle, TypeOK
  <2> QED
    BY <2>1 DEF Finish, Again
<1> DEFINE Early == work'[v].at \in {"expire", "level", "readTier", "writeTier", "channel"}
                      /\ UNCHANGED tasks /\ work'[v].task = work[v].task
<1>5. CheckCooldown(v) => work'[v].at = "idle" \/ Early
  BY <1>2, <1>3, <1>4 DEF CheckCooldown, TypeOK, WorkState
<1>6. DeleteCooldown(v) => Early
  BY <1>3 DEF DeleteCooldown
<1>7. GetLevel(v) => Early
  BY <1>2 DEF GetLevel, TypeOK, WorkState
<1>8. ReadTier(v) => Early
  BY <1>2 DEF ReadTier, TypeOK, WorkState
<1>9. WriteTier(v) => Early
  BY <1>2 DEF WriteTier, TypeOK, WorkState
<1>10. SelectChannel(v)
         => work'[v].at = "save" /\ UNCHANGED tasks /\ work'[v].task = work[v].task
  BY <1>2 DEF SelectChannel, TypeOK, WorkState
<1>11. Acknowledge(v) \/ Raise(v) \/ Crash(v) => work'[v].at = "idle"
  BY <1>4 DEF Acknowledge, Raise, Crash
<1>12. SaveIntervention(v) \/ RunChannel(v) \/ MarkSent(v) \/ OutreachFails(v)
         \/ SetCooldown(v)
         => /\ UNCHANGED tasks
            /\ work'[v].task = work[v].task /\ work'[v].chan = work[v].chan
  BY <1>3 DEF SaveIntervention, RunChannel, MarkSent, OutreachFails, SetCooldown
<1>13. /\ SaveIntervention(v) => work'[v].at = "deliver"
       /\ RunChannel(v) => work'[v].at = "mark"
       /\ MarkSent(v) \/ OutreachFails(v) => work'[v].at = "cool"
       /\ SetCooldown(v) => work'[v].at = "ack"
  BY <1>3 DEF SaveIntervention, RunChannel, MarkSent, OutreachFails, SetCooldown
<1> QED
  BY <1>1, <1>5, <1>6, <1>7, <1>8, <1>9, <1>10, <1>11, <1>12, <1>13 DEF Execute, Fault

\* An execution comes to the steps after its save only through them.
LEMMA LateSource ==
  ASSUME TypeInv, [Next]_vars, NEW v \in Worker, work'[v].at \in Late
  PROVE  /\ RowOf(v) \in Row /\ RowOf(v)' = RowOf(v)
         /\ SaveIntervention(v) \/ work[v].at \in Late
<1>1. CASE Execute(v) \/ Fault(v)
  <2>1. SaveIntervention(v) \/ RunChannel(v) \/ MarkSent(v) \/ OutreachFails(v)
    BY <1>1, Moves DEF Late
  <2>2. RowOf(v) \in Row /\ work'[v].task = work[v].task /\ UNCHANGED tasks
    BY <1>1, Moves DEF Late
  <2> QED
    BY <2>1, <2>2 DEF RunChannel, MarkSent, OutreachFails, Late, RowOf
<1>2. CASE ~(Execute(v) \/ Fault(v))
  <2>1. work'[v] = work[v] /\ RowOf(v)' = RowOf(v)
    BY <1>2, OthersLeave DEF Late
  <2> QED
    BY <2>1, BusyTypes DEF Late
<1> QED
  BY <1>1, <1>2

LEMMA RecordStep ==
  ASSUME TypeInv, RecordInv, CooldownOnRecord, [Next]_vars
  PROVE  RecordInv' /\ CooldownOnRecord'
<1>1. ASSUME NEW v \in Worker, work'[v].at \in Late
      PROVE  Saved(RowOf(v))'
  <2>1. RowOf(v) \in Row /\ RowOf(v)' = RowOf(v)
    BY <1>1, LateSource
  <2>2. CASE SaveIntervention(v)
    <3>1. rows'[RowOf(v)].status = "pending"
      BY <2>1, <2>2 DEF SaveIntervention, TypeInv, TypeOK
    <3> QED
      BY <2>1, <3>1 DEF Saved
  <2>3. CASE work[v].at \in Late
    <3> DEFINE r == RowOf(v)
    <3>1. r \in Row /\ Saved(r)
      BY <2>1, <2>3 DEF RecordInv
    <3>2. rows'[r].status # "absent"
      BY <3>1, SavedStays DEF Saved
    <3> QED
      BY <2>1, <3>2 DEF Saved
  <2> QED
    BY <1>1, <2>2, <2>3, LateSource
<1>2. ASSUME NEW c \in Customer, InCooldown(c)'
      PROVE  \E r \in Row : /\ Saved(r)' /\ tasks'[r[1]].cust = c
                            /\ cooldown'[c] <= day' + CooldownDays(tasks'[r[1]].tier)
  <2>1. ASSUME NEW t \in Task PROVE CooldownDays(tasks[t].tier) \in Nat
    BY DispatchAssumption DEF CooldownDays
  <2>2. day \in Nat /\ day' \in Nat /\ (day' = day \/ day' = day + 1)
    BY DayGrows
  <2>3. cooldown[c] \in Nat
    BY DEF TypeInv, TypeOK
  <2>4. CASE cooldown'[c] = cooldown[c]
    <3>1. InCooldown(c)
      BY <1>2, <2>2, <2>3, <2>4 DEF InCooldown
    <3>2. PICK r \in RowsOf(c) : cooldown[c] <= day + CooldownDays(tasks[r[1]].tier)
      BY <3>1 DEF CooldownOnRecord
    <3>3. r \in Row /\ Saved(r) /\ tasks[r[1]].cust = c /\ r[1] \in Task
      BY <3>2 DEF RowsOf, Row
    <3>4. tasks'[r[1]].cust = c /\ tasks'[r[1]].tier = tasks[r[1]].tier
      BY <3>3, TaskFixed
    <3>5. cooldown'[c] <= day' + CooldownDays(tasks'[r[1]].tier)
      BY <2>1, <2>2, <2>3, <2>4, <3>2, <3>3, <3>4
    <3> QED
      BY <3>3, <3>4, <3>5, SavedStays
  <2>5. ASSUME NEW w \in Worker, SetCooldown(w), Cust(w) = c
        PROVE  \E r \in Row : /\ Saved(r)' /\ tasks'[r[1]].cust = c
                            /\ cooldown'[c] <= day' + CooldownDays(tasks'[r[1]].tier)
    <3> DEFINE r == RowOf(w)
    <3>1. r \in Row /\ r[1] = work[w].task /\ work[w].task \in Task
      BY <2>5, BusyTypes DEF SetCooldown, RowOf
    <3>2. Saved(r)
      BY <2>5 DEF SetCooldown, RecordInv, Late
    <3>3. tasks[r[1]].cust = c /\ tasks[r[1]].tier = TierOf(w)
      BY <2>5, <3>1 DEF Cust, TierOf
    <3>4. tasks'[r[1]].cust = c /\ tasks'[r[1]].tier = TierOf(w)
      BY <3>1, <3>3, TaskFixed
    <3>5. cooldown'[c] = day + CooldownDays(TierOf(w)) /\ day' = day
      BY <2>5 DEF SetCooldown, TypeInv, TypeOK
    <3>6. CooldownDays(TierOf(w)) \in Nat
      BY DispatchAssumption DEF CooldownDays
    <3> HIDE DEF r
    <3>7. cooldown'[c] <= day' + CooldownDays(tasks'[r[1]].tier)
      BY <2>2, <3>4, <3>5, <3>6
    <3> QED
      BY <3>1, <3>2, <3>4, <3>7, SavedStays
  <2>6. cooldown'[c] # 0
    BY <1>2, <2>2 DEF InCooldown
  <2>7. cooldown'[c] = cooldown[c] \/ \E w \in Worker : SetCooldown(w) /\ Cust(w) = c
    <3>1. ASSUME NEW w \in Worker, SetCooldown(w), Cust(w) # c
          PROVE  cooldown'[c] = cooldown[c]
      BY <3>1 DEF SetCooldown, TypeInv, TypeOK
    <3>2. ASSUME NEW w \in Worker, DeleteCooldown(w)
          PROVE  cooldown'[c] = cooldown[c]
      BY <2>6, <3>2 DEF DeleteCooldown, TypeInv, TypeOK
    <3>3. ASSUME NEW d \in Customer, ExpireKey(d) \/ EvictKey(d)
          PROVE  cooldown'[c] = cooldown[c]
      BY <2>6, <3>3 DEF ExpireKey, EvictKey, TypeInv, TypeOK
    <3>4. \/ UNCHANGED cooldown
          \/ \E w \in Worker : SetCooldown(w) \/ DeleteCooldown(w)
          \/ \E d \in Customer : ExpireKey(d) \/ EvictKey(d)
      BY DEF Next, vars, Enqueue, Start, Execute, Fault, CheckCooldown, GetLevel, ReadTier,
             WriteTier, SelectChannel, SaveIntervention, RunChannel, MarkSent, Acknowledge,
             Raise, OutreachFails, Crash, Feedback, Tick
    <3> QED
      BY <3>1, <3>2, <3>3, <3>4
  <2> QED
    BY <2>4, <2>5, <2>7
<1>3. CooldownOnRecord'
  BY <1>2 DEF CooldownOnRecord, RowsOf
<1> QED
  BY <1>1, <1>3 DEF RecordInv

\* For any number of workers, faults and evicted keys: a cooldown in force stands
\* on a saved intervention for that customer, and never outlasts the period of
\* the tiers saved (tasks.dispatch_intervention saves before its outreach and
\* sets the cooldown last).
THEOREM CooldownHasRecord == Spec => []CooldownOnRecord
<1>1. Init => RecordInv
  BY DEF Init, RecordInv, Late, Idle
<1>2. Init => CooldownOnRecord
  BY DEF Init, CooldownOnRecord, InCooldown
<1>3. TypeInv /\ RecordInv /\ CooldownOnRecord /\ [Next]_vars
        => TypeInv' /\ RecordInv' /\ CooldownOnRecord'
  BY TypeStep, RecordStep
<1> QED
  BY <1>1, <1>2, <1>3, TypeInit, PTL DEF Spec

-----------------------------------------------------------------------------
(* One outreach per execution.                                             *)

\* The current execution of task t can make no further outreach: it has made
\* its way past the channel, or the task is over.
Spent(t) ==
  \/ tasks[t].status \in {"dispatched", "failed", "lost"}
  \/ \E w \in Worker : work[w].task = t /\ work[w].at \in {"mark", "cool", "ack"}

\* Outreach i of customer c is by an execution of a task for c, the current one
\* only if that is spent.
Accounted(c, i) ==
  LET r == outreach[c][i].row IN
  /\ tasks[r[1]].cust = c
  /\ r[2] <= tasks[r[1]].attempt
  /\ r[2] = tasks[r[1]].attempt => Spent(r[1])

\* Every outreach is accounted for, and no execution made two.
OutreachInv ==
  /\ \A c \in Customer : \A i \in DOMAIN outreach[c] : Accounted(c, i)
  /\ \A c \in Customer : \A i, j \in DOMAIN outreach[c] :
       outreach[c][i].row = outreach[c][j].row => i = j

\* The execution and the row of an outreach.
LEMMA OutreachType ==
  ASSUME TypeInv, NEW c \in Customer, NEW i \in DOMAIN outreach[c]
  PROVE  /\ outreach[c] \in Seq(Outreach) /\ outreach[c][i] \in Outreach
         /\ outreach[c][i].row \in Row
         /\ outreach[c][i].row[1] \in Task /\ outreach[c][i].row[2] \in Nat
         /\ outreach[c][i].row
              = <<outreach[c][i].row[1], outreach[c][i].row[2]>>
<1>1. outreach[c] \in Seq(Outreach)
  BY DEF TypeInv, TypeOK
<1>2. outreach[c][i] \in Outreach
  BY <1>1
<1>3. outreach[c][i].row \in Row
  BY <1>2 DEF Outreach
<1> QED
  BY <1>1, <1>2, <1>3, DispatchAssumption DEF Row, Attempt

\* Executions are only ever added.
LEMMA AttemptsGrow ==
  ASSUME TypeInv, [Next]_vars, NEW t \in Task
  PROVE  /\ tasks[t].attempt \in Nat /\ tasks'[t].attempt \in Nat
         /\ tasks'[t].attempt = tasks[t].attempt \/ tasks'[t].attempt = tasks[t].attempt + 1
<1>1. tasks[t] \in TaskState /\ tasks[t].attempt \in Nat
  BY DispatchAssumption DEF TypeInv, TypeOK, TaskState, Attempt
<1>2. CASE UNCHANGED tasks
  BY <1>2, <1>1
<1>3. CASE (\E u \in Task : Enqueue(u)) \/ (\E w \in Worker : Start(w))
  BY <1>3, <1>1, StatusOnly
<1>4. ASSUME NEW w \in Worker, Execute(w) \/ Fault(w)
      PROVE  tasks'[t].attempt = tasks[t].attempt \/ tasks'[t].attempt = tasks[t].attempt + 1
  <2>1. (\E s : Finish(w, s)) \/ (\E n : Again(w, n)) \/ UNCHANGED tasks
    BY <1>4 DEF Execute, Fault, CheckCooldown, DeleteCooldown, GetLevel, ReadTier,
           WriteTier, SelectChannel, SaveIntervention, RunChannel, MarkSent, SetCooldown,
           Acknowledge, Raise, OutreachFails, Crash
  <2>2. ASSUME NEW s, Finish(w, s) PROVE tasks'[t].attempt = tasks[t].attempt
    BY <1>1, <2>2 DEF Finish, TypeInv, TypeOK, TaskState
  <2>3. ASSUME NEW n, Again(w, n)
        PROVE  tasks'[t].attempt = tasks[t].attempt \/ tasks'[t].attempt = tasks[t].attempt + 1
    BY <1>1, <2>3 DEF Again, TypeInv, TypeOK, TaskState
  <2> QED
    BY <2>1, <2>2, <2>3
<1>5. tasks'[t].attempt = tasks[t].attempt \/ tasks'[t].attempt = tasks[t].attempt + 1
  BY <1>2, <1>3, <1>4 DEF Next, vars, Feedback, ExpireKey, EvictKey, Tick
<1> QED
  BY <1>1, <1>5

\* A spent execution stays spent until the next one replaces it.
LEMMA SpentStays ==
  ASSUME TypeInv, [Next]_vars, NEW t \in Task, Spent(t),
         tasks'[t].attempt = tasks[t].attempt
  PROVE  Spent(t)'
<1> USE DEF TypeInv
<1>1. CASE tasks[t].status \in {"dispatched", "failed", "lost"}
  <2>1. ASSUME NEW w \in Worker, Execute(w) \/ Fault(w)
        PROVE  tasks'[t] = tasks[t]
    <3>1. t # work[w].task
      BY <1>1, <2>1, TasksKept DEF Busy
    <3> QED
      BY <2>1, <3>1, TasksKept
  <2>2. ASSUME NEW w \in Worker, Start(w) PROVE tasks'[t] = tasks[t]
    BY <1>1, <2>2 DEF Start, TypeOK
  <2>3. ASSUME NEW u \in Task, Enqueue(u) PROVE tasks'[t] = tasks[t]
    BY <1>1, <2>3 DEF Enqueue, TypeOK
  <2>4. tasks'[t] = tasks[t]
    BY <2>1, <2>2, <2>3 DEF Next, vars, Feedback, ExpireKey, EvictKey, Tick
  <2> QED
    BY <1>1, <2>4 DEF Spent
<1>2. ASSUME NEW v \in Worker, work[v].task = t,
             work[v].at \in {"mark", "cool", "ack"}
      PROVE  Spent(t)'
  <2>1. CASE Execute(v) \/ Fault(v)
    <3>1. ASSUME NEW s, Finish(v, s) PROVE tasks'[t].status = s
      BY <1>2, <3>1 DEF Finish, TypeOK, TaskState
    <3>2. Acknowledge(v) => tasks'[t].status = "dispatched"
      BY <3>1 DEF Acknowledge
    <3>3. ASSUME NEW n, Again(v, n) PROVE tasks'[t].attempt = tasks[t].attempt + 1
      BY <1>2, <3>3 DEF Again, TypeOK, TaskState
    <3>4. tasks[t].attempt \in Nat
      BY AttemptsGrow
    <3>5. ~(\E n : Again(v, n))
      BY <3>3, <3>4
    <3>6. Raise(v) \/ Crash(v) => tasks'[t].status \in {"failed", "lost"}
      BY <3>1, <3>5 DEF Raise, Crash
    <3>7. MarkSent(v) \/ OutreachFails(v) \/ SetCooldown(v)
            => work'[v].task = t /\ work'[v].at \in {"cool", "ack"}
      <4>1. work[v] \in WorkState
        BY DEF TypeOK
      <4> QED
        BY <1>2, <4>1 DEF MarkSent, OutreachFails, SetCooldown, GoTo, TypeOK, WorkState
    <3>8. \/ MarkSent(v) \/ OutreachFails(v) \/ SetCooldown(v)
          \/ Acknowledge(v) \/ Raise(v) \/ Crash(v)
      BY <1>2, <2>1 DEF Execute, Fault, CheckCooldown, DeleteCooldown, GetLevel, ReadTier,
           WriteTier, SelectChannel, SaveIntervention, RunChannel
    <3> QED
      BY <3>2, <3>6, <3>7, <3>8 DEF Spent
  <2>2. ASSUME NEW w \in Worker, Execute(w) \/ Fault(w), w # v
        PROVE  work'[v] = work[v]
    BY <2>2, TasksKept
  <2>3. ASSUME NEW w \in Worker, Start(w) PROVE work'[v] = work[v]
    BY <1>2, <2>3 DEF Start, TypeOK
  <2>4. CASE work'[v] = work[v]
    BY <1>2, <2>4 DEF Spent
  <2> QED
    BY <2>1, <2>2, <2>3, <2>4 DEF Next, vars, Enqueue, Feedback, ExpireKey, EvictKey, Tick
<1> QED
  BY <1>1, <1>2 DEF Spent

\* An outreach that is accounted for stays so.
LEMMA AccountedStays ==
  ASSUME TypeInv, [Next]_vars, NEW c \in Customer, NEW i \in DOMAIN outreach[c],
         Accounted(c, i)
  PROVE  Accounted(c, i)'
<1>0. PICK r \in Row : r = outreach[c][i].row
  BY OutreachType
<1>1. r[1] \in Task /\ r[2] \in Nat /\ outreach'[c][i].row = r
  BY <1>0, OutreachType, OutreachGrows
<1>2. tasks[r[1]].cust = c /\ r[2] <= tasks[r[1]].attempt
        /\ (r[2] = tasks[r[1]].attempt => Spent(r[1]))
  BY <1>0 DEF Accounted
<1>3. tasks'[r[1]].cust = c
  BY <1>1, <1>2, TaskFixed
<1>4. /\ tasks[r[1]].attempt \in Nat /\ tasks'[r[1]].attempt \in Nat
      /\ tasks'[r[1]].attempt = tasks[r[1]].attempt
           \/ tasks'[r[1]].attempt = tasks[r[1]].attempt + 1
  BY <1>1, AttemptsGrow
<1>5. r[2] <= tasks'[r[1]].attempt
  BY <1>1, <1>2, <1>4
<1>6. ASSUME r[2] = tasks'[r[1]].attempt PROVE Spent(r[1])'
  <2>1. tasks'[r[1]].attempt = tasks[r[1]].attempt
    BY <1>1, <1>2, <1>4, <1>6
  <2>2. Spent(r[1])
    BY <1>2, <1>6, <2>1
  <2> QED
    BY <1>1, <2>1, <2>2, SpentStays DEF Spent
<1> QED
  BY <1>1, <1>3, <1>5, <1>6 DEF Accounted, Spent

\* The execution that is about to save or to run its channel has made no outreach.
LEMMA ChannelFresh ==
  ASSUME TypeInv, OutreachInv, NEW w \in Worker, work[w].at \in {"save", "deliver"},
         NEW c \in Customer, NEW i \in DOMAIN outreach[c]
  PROVE  outreach[c][i].row # RowOf(w)
<1> SUFFICES ASSUME outreach[c][i].row = RowOf(w) PROVE FALSE
  OBVIOUS
<1> DEFINE t == work[w].task
<1>1. t \in Task /\ tasks[t].status = "running"
  BY DEF TypeInv, Busy
<1>2. Spent(t)
  BY DEF OutreachInv, Accounted, RowOf
<1>3. PICK v \in Worker : work[v].task = t /\ work[v].at \in {"mark", "cool", "ack"}
  BY <1>1, <1>2 DEF Spent
<1> QED
  BY <1>3 DEF TypeInv, Busy

LEMMA OutreachStep ==
  ASSUME TypeInv, TypeInv', OutreachInv, [Next]_vars
  PROVE  OutreachInv'
<1>1. CASE UNCHANGED outreach
  <2>1. \A c \in Customer : \A i \in DOMAIN outreach'[c] : Accounted(c, i)'
    BY <1>1, AccountedStays DEF OutreachInv
  <2> QED
    BY <1>1, <2>1 DEF OutreachInv
<1>2. ASSUME NEW w \in Worker, RunChannel(w), Served(work[w].chan) PROVE OutreachInv'
  <2>a. PICK d \in Customer : d = Cust(w)
    BY <1>2, BusyTypes DEF RunChannel
  <2>b. PICK t \in Task : t = work[w].task
    BY <1>2, BusyTypes DEF RunChannel
  <2>1. outreach[d] \in Seq(Outreach)
    BY DEF TypeInv, TypeOK
  <2>c. PICK n \in Nat : n = Len(outreach[d])
    BY <2>1
  <2> DEFINE e == [row |-> RowOf(w), tier |-> TierOf(w),
                   chan |-> work[w].chan, at |-> day]
  <2>2. outreach' = [outreach EXCEPT ![d] = Append(outreach[d], e)] /\ UNCHANGED tasks
    BY <1>2, <2>a DEF RunChannel
  <2>3. work'[w].task = work[w].task /\ work'[w].at = "mark"
    BY <1>2, Moves DEF RunChannel, Execute, TypeInv, TypeOK, WorkState, GoTo
  <2>4. e.row = RowOf(w) /\ RowOf(w) = <<t, tasks[t].attempt>>
    BY <2>b DEF RowOf
  <2>5. tasks[t].cust = d
    BY <2>a, <2>b DEF Cust
  <2> HIDE DEF e
  <2>6. outreach'[d] = Append(outreach[d], e)
    BY <2>1, <2>2 DEF TypeInv, TypeOK
  <2>7. /\ n \in Nat /\ DOMAIN outreach[d] = 1..n
        /\ DOMAIN outreach'[d] = 1..(n+1) /\ outreach'[d][n+1] = e
        /\ \A i \in 1..n : outreach'[d][i] = outreach[d][i]
    BY <2>1, <2>c, <2>6
  <2>8. ASSUME NEW c \in Customer, c # d PROVE outreach'[c] = outreach[c]
    BY <2>1, <2>2, <2>8 DEF TypeInv, TypeOK
  <2>9. Accounted(d, n+1)'
    <3>1. tasks[t].attempt \in Nat
      BY AttemptsGrow
    <3>2. Spent(t)'
      BY <2>b, <2>3 DEF Spent
    <3>3. outreach'[d][n+1].row = <<t, tasks[t].attempt>>
      BY <2>4, <2>7
    <3>4. tasks'[t].cust = d /\ tasks'[t].attempt = tasks[t].attempt
      BY <2>2, <2>5
    <3> QED
      BY <3>1, <3>2, <3>3, <3>4 DEF Accounted
  <2>10. ASSUME NEW c \in Customer, NEW i \in DOMAIN outreach'[c]
         PROVE  Accounted(c, i)'
    <3>1. CASE i \in DOMAIN outreach[c]
      BY <3>1, AccountedStays DEF OutreachInv
    <3>2. CASE c = d /\ i = n+1
      BY <2>9, <3>2
    <3> QED
      BY <2>7, <2>8, <2>10, <3>1, <3>2
  <2>11. \A i \in 1..n : outreach[d][i].row # RowOf(w)
    BY <1>2, <2>7, ChannelFresh DEF RunChannel
  <2>12. ASSUME NEW c \in Customer, NEW i \in DOMAIN outreach'[c],
                NEW j \in DOMAIN outreach'[c],
                outreach'[c][i].row = outreach'[c][j].row
         PROVE  i = j
    <3>1. CASE c # d
      BY <2>8, <2>12, <3>1 DEF OutreachInv
    <3>2. CASE c = d
      <4>1. CASE i \in 1..n /\ j \in 1..n
        BY <2>1, <2>7, <2>12, <3>2, <4>1 DEF OutreachInv
      <4>2. CASE i = n+1 /\ j \in 1..n
        BY <2>4, <2>7, <2>11, <2>12, <3>2, <4>2
      <4>3. CASE j = n+1 /\ i \in 1..n
        BY <2>4, <2>7, <2>11, <2>12, <3>2, <4>3
      <4> QED
        BY <2>7, <3>2, <4>1, <4>2, <4>3
    <3> QED
      BY <3>1, <3>2
  <2> QED
    BY <2>10, <2>12 DEF OutreachInv
<1>3. UNCHANGED outreach \/ \E w \in Worker : RunChannel(w) /\ Served(work[w].chan)
  BY DEF Next, vars, Enqueue, Start, Execute, Fault, CheckCooldown, DeleteCooldown,
         GetLevel, ReadTier, WriteTier, SelectChannel, SaveIntervention, RunChannel, MarkSent,
         SetCooldown, Acknowledge, Raise, OutreachFails, Crash, Feedback, ExpireKey, EvictKey, Tick
<1> QED
  BY <1>1, <1>2, <1>3

\* The outreach of a task is numbered by its executions.
LEMMA OutreachCounted ==
  ASSUME TypeInv, OutreachInv, NEW t \in Task, NEW n \in Nat,
         \A p \in OutreachOf(t) : outreach[p[1]][p[2]].row[2] <= n
  PROVE  Cardinality(OutreachOf(t)) \in 0..n
<1> DEFINE f == [p \in OutreachOf(t) |-> outreach[p[1]][p[2]].row[2]]
<1>1. ASSUME NEW p \in OutreachOf(t)
      PROVE  /\ p[1] = tasks[t].cust /\ p[1] \in Customer /\ p[2] \in DOMAIN outreach[p[1]]
             /\ p = <<p[1], p[2]>>
             /\ outreach[p[1]][p[2]].row = <<t, outreach[p[1]][p[2]].row[2]>>
             /\ outreach[p[1]][p[2]].row[2] \in 1..n
  <2>1. PICK c \in Customer : p \in {c} \X DOMAIN outreach[c]
    BY DEF OutreachOf
  <2>2. p[1] = c /\ p[2] \in DOMAIN outreach[c] /\ p = <<p[1], p[2]>>
    BY <2>1
  <2>3. outreach[c][p[2]].row[1] = t
    BY <2>2 DEF OutreachOf
  <2>4. tasks[t].cust = c
    BY <2>2, <2>3 DEF OutreachInv, Accounted
  <2>5. outreach[c][p[2]].row \in Row
    BY <2>2, OutreachType
  <2>6. outreach[c][p[2]].row[2] \in Attempt
    BY <2>5 DEF Row
  <2>7. outreach[c][p[2]].row = <<t, outreach[c][p[2]].row[2]>>
    BY <2>2, <2>3, OutreachType
  <2>8. outreach[c][p[2]].row[2] \in 1..n
    BY <2>2, <2>6, DispatchAssumption DEF Attempt
  <2> QED
    BY <2>2, <2>4, <2>7, <2>8
<1>2. ASSUME NEW p \in OutreachOf(t), NEW q \in OutreachOf(t), f[p] = f[q]
      PROVE  p = q
  <2>1. outreach[p[1]][p[2]].row = outreach[q[1]][q[2]].row /\ p[1] = q[1]
    BY <1>1, <1>2
  <2>2. p[2] = q[2]
    BY <1>1, <2>1 DEF OutreachInv
  <2> QED
    BY <1>1, <2>1, <2>2
<1>3. f \in [OutreachOf(t) -> 1..n]
  BY <1>1
<1> HIDE DEF f
<1>4. f \in Injection(OutreachOf(t), 1..n)
  BY <1>2, <1>3 DEF Injection, IsInjective
<1>5. IsFiniteSet(1..n) /\ Cardinality(1..n) = n
  BY FS_Interval
<1>6. IsFiniteSet(OutreachOf(t)) /\ Cardinality(OutreachOf(t)) <= Cardinality(1..n)
  BY <1>4, <1>5, FS_Injection
<1>7. Cardinality(OutreachOf(t)) \in Nat
  BY <1>6, FS_CardinalityType
<1> QED
  BY <1>5, <1>6, <1>7

LEMMA OutreachWithin == TypeInv /\ OutreachInv => OutreachNeedsExecutions
<1> SUFFICES ASSUME TypeInv, OutreachInv, NEW t \in Task
             PROVE  /\ Cardinality(OutreachOf(t)) <= tasks[t].attempt
                    /\ tasks[t].status \in {"queued", "skipped"} =>
                         Cardinality(OutreachOf(t)) < tasks[t].attempt
  BY DEF OutreachNeedsExecutions
<1>1. tasks[t].attempt \in Nat \ {0}
  BY DispatchAssumption DEF TypeInv, TypeOK, TaskState, Attempt
<1>2. ASSUME NEW p \in OutreachOf(t)
      PROVE  /\ outreach[p[1]][p[2]].row[2] \in Nat
             /\ outreach[p[1]][p[2]].row[2] <= tasks[t].attempt
             /\ outreach[p[1]][p[2]].row[2] = tasks[t].attempt => Spent(t)
  <2>1. PICK c \in Customer : p \in {c} \X DOMAIN outreach[c]
    BY DEF OutreachOf
  <2>2. p[1] = c /\ p[2] \in DOMAIN outreach[c] /\ outreach[p[1]][p[2]].row[1] = t
    BY <2>1 DEF OutreachOf
  <2> QED
    BY <2>2, OutreachType DEF OutreachInv, Accounted
<1>3. Cardinality(OutreachOf(t)) \in 0..tasks[t].attempt
  BY <1>1, <1>2, OutreachCounted
<1>4. ASSUME tasks[t].status \in {"queued", "skipped"}
      PROVE  Cardinality(OutreachOf(t)) < tasks[t].attempt
  <2>1. ~Spent(t)
    BY <1>4 DEF Spent, TypeInv, Busy
  <2>2. tasks[t].attempt - 1 \in Nat
    BY <1>1
  <2>3. \A p \in OutreachOf(t) : outreach[p[1]][p[2]].row[2] <= tasks[t].attempt - 1
    BY <1>1, <1>2, <2>1
  <2>4. Cardinality(OutreachOf(t)) \in 0..(tasks[t].attempt - 1)
    BY <2>2, <2>3, OutreachCounted
  <2> QED
    BY <1>1, <2>4
<1> QED
  BY <1>1, <1>3, <1>4

\* For any number of workers, tasks, retries and redeliveries: a task reaches out to
\* its customer at most once per execution, and its current execution not at all
\* while it waits or when it was skipped (tasks.dispatch_intervention with
\* acks_late and self.retry).
THEOREM OneOutreachPerExecution == Spec => []OutreachNeedsExecutions
<1>1. Init => OutreachInv
  BY DEF Init, OutreachInv
<1>2. TypeInv /\ OutreachInv /\ [Next]_vars => TypeInv' /\ OutreachInv'
  BY TypeStep, OutreachStep
<1>3. TypeInv /\ OutreachInv => OutreachNeedsExecutions
  BY OutreachWithin
<1> QED
  BY <1>1, <1>2, <1>3, TypeInit, PTL DEF Spec

-----------------------------------------------------------------------------
(* Nobody falls through.                                                   *)

\* Task t has made an outreach.
Heard(t) ==
  \E i \in DOMAIN outreach[tasks[t].cust] : outreach[tasks[t].cust][i].row[1] = t

Reachable(c) == Served(Preferred[c])

\* The channels in the table, and those the workers have chosen, are served.
ChannelsServed ==
  /\ \A r \in Row : (Saved(r) /\ Reachable(tasks[r[1]].cust)) => Served(rows[r].chan)
  /\ \A w \in Worker : (work[w].at \in {"save", "deliver", "mark"} /\ Reachable(Cust(w)))
       => Served(work[w].chan)

\* What a worker past its channel, a finished task, a cooldown and a skipped
\* task say of the outreach.
HeardInv ==
  /\ \A w \in Worker : (work[w].at \in {"mark", "cool", "ack"} /\ Reachable(Cust(w)))
       => Heard(work[w].task)
  /\ \A t \in Task : (tasks[t].status = "dispatched" /\ Reachable(tasks[t].cust))
       => Heard(t)
  /\ \A c \in Customer : (cooldown[c] # 0 /\ Reachable(c)) => outreach[c] # <<>>
  /\ \A t \in Task : (tasks[t].status = "skipped" /\ Reachable(tasks[t].cust))
       => outreach[tasks[t].cust] # <<>>

CaredFor == faults = 0 => ChannelsServed /\ HeardInv

\* A customer with a served channel is given a served channel.
LEMMA OptimalServed ==
  ASSUME TypeInv, ChannelsServed, NEW c \in Customer, Reachable(c),
         NEW k, NEW n \in 0..2, NEW ch \in OptimalChannels(c, k, n)
  PROVE  Served(ch)
<1>1. Served("rm_call") /\ \A i \in 1..4 : Served(ChannelOrder[i])
  BY DEF Served, ChannelOrder
<1>2. \A b \in BestChannels(c) : Served(b)
  BY DEF BestChannels, RowsOf, ChannelsServed
<1>3. Served(Escalated(Preferred[c], n))
  <2>1. CASE n = 0
    BY <2>1 DEF Escalated, Reachable
  <2>2. CASE n # 0
    <3> DEFINE i == IF Directness(Preferred[c]) + n > 4 THEN 4 ELSE Directness(Preferred[c]) + n
    <3>1. Directness(Preferred[c]) \in 1..4
      BY DEF Directness
    <3>2. i \in 1..4
      BY <3>1
    <3>3. Escalated(Preferred[c], n) = ChannelOrder[i]
      BY <2>2 DEF Escalated
    <3> HIDE DEF i
    <3> QED
      BY <1>1, <3>2, <3>3
  <2> QED
    BY <2>1, <2>2
<1> QED
  BY <1>1, <1>2, <1>3 DEF OptimalChannels

\* Without a fault in the end there was none on the way.
LEMMA NoFault ==
  ASSUME TypeInv, [Next]_vars, faults' = 0
  PROVE  /\ faults = 0 /\ \A w \in Worker : ~Fault(w)
         /\ \A c \in Customer : ~EvictKey(c)
<1>1. faults \in Nat
  BY DispatchAssumption DEF TypeInv, TypeOK
<1>2. \A w \in Worker : Fault(w) => faults' = faults + 1
  BY DEF Fault, Raise, OutreachFails, Crash
<1>3. \A c \in Customer : EvictKey(c) => faults' = faults + 1
  BY DEF EvictKey
<1>4. faults' = faults \/ faults' = faults + 1
  BY <1>2, <1>3 DEF Next, vars, Enqueue, Start, Execute, CheckCooldown, DeleteCooldown,
         GetLevel, ReadTier, WriteTier, SelectChannel, SaveIntervention, RunChannel, MarkSent,
         SetCooldown, Acknowledge, Feedback, ExpireKey, Tick
<1> QED
  BY <1>1, <1>2, <1>3, <1>4

\* Who was reached stays reached.
LEMMA ReachedStays ==
  ASSUME TypeInv, TypeInv', [Next]_vars
  PROVE  /\ \A t \in Task : Heard(t) => Heard(t)'
         /\ \A c \in Customer : outreach[c] # <<>> => outreach'[c] # <<>>
<1>1. ASSUME NEW t \in Task, Heard(t) PROVE Heard(t)'
  <2>1. PICK c \in Customer : c = tasks[t].cust
    BY DEF TypeInv, TypeOK, TaskState
  <2>2. tasks'[t].cust = c
    BY <2>1, TaskFixed
  <2>3. PICK i \in DOMAIN outreach[c] : outreach[c][i].row[1] = t
    BY <1>1, <2>1 DEF Heard
  <2>4. i \in DOMAIN outreach'[c] /\ outreach'[c][i] = outreach[c][i]
    BY OutreachGrows
  <2> QED
    BY <2>2, <2>3, <2>4 DEF Heard
<1>2. ASSUME NEW c \in Customer, outreach[c] # <<>> PROVE outreach'[c] # <<>>
  <2>1. outreach[c] \in Seq(Outreach) /\ outreach'[c] \in Seq(Outreach)
    BY DEF TypeInv, TypeOK
  <2>2. 1 \in DOMAIN outreach[c]
    BY <1>2, <2>1
  <2>3. 1 \in DOMAIN outreach'[c]
    BY <2>2, OutreachGrows
  <2> QED
    BY <2>1, <2>3
<1> QED
  BY <1>1, <1>2

\* The customer of a busy worker is that of its task, now and in the next state.
LEMMA CustKept ==
  ASSUME TypeInv, [Next]_vars, NEW w \in Worker, work[w].at # "idle",
         work'[w].task = work[w].task
  PROVE  Cust(w) \in Customer /\ Cust(w)' = Cust(w)
<1>1. work[w].task \in Task
  BY BusyTypes
<1> QED
  BY <1>1, TaskFixed, BusyTypes DEF Cust

LEMMA ServedStep ==
  ASSUME TypeInv, TypeInv', ChannelsServed, [Next]_vars
  PROVE  ChannelsServed'
<1>1. ASSUME NEW v \in Worker, work'[v].at \in {"save", "deliver", "mark"},
             Reachable(Cust(v)')
      PROVE  Served(work'[v].chan)
  <2>1. CASE Execute(v) \/ Fault(v)
    <3>1. /\ work[v].at # "idle" /\ work'[v].task = work[v].task
          /\ Cust(v) \in Customer /\ Reachable(Cust(v))
      BY <1>1, <2>1, Moves, CustKept
    <3>2. CASE SelectChannel(v)
      <4>1. work[v] \in WorkState
        BY DEF TypeInv, TypeOK
      <4>2. PICK ch \in OptimalChannels(Cust(v), TierOf(v), work[v].level) :
              work' = [work EXCEPT ![v].at = "save", ![v].chan = ch]
        BY <3>2 DEF SelectChannel
      <4>3. work'[v].chan = ch
        BY <4>1, <4>2 DEF TypeInv, TypeOK, WorkState
      <4>4. work[v].level \in 0..2
        BY <4>1 DEF WorkState
      <4> QED
        BY <3>1, <4>2, <4>3, <4>4, OptimalServed
    <3>3. CASE ~SelectChannel(v)
      <4>1. work'[v].chan = work[v].chan /\ (SaveIntervention(v) \/ RunChannel(v))
        BY <1>1, <2>1, <3>3, Moves
      <4>2. work[v].at \in {"save", "deliver"}
        BY <4>1 DEF SaveIntervention, RunChannel
      <4> QED
        BY <3>1, <4>1, <4>2 DEF ChannelsServed
    <3> QED
      BY <3>2, <3>3
  <2>2. CASE ~(Execute(v) \/ Fault(v))
    <3>1. work'[v] = work[v]
      BY <1>1, <2>2, OthersLeave
    <3>2. Cust(v)' = Cust(v)
      BY <1>1, <3>1, CustKept
    <3> QED
      BY <1>1, <3>1, <3>2 DEF ChannelsServed
  <2> QED
    BY <2>1, <2>2
<1>2. ASSUME NEW r \in Row, Saved(r)', Reachable(tasks'[r[1]].cust)
      PROVE  Served(rows'[r].chan)
  <2>1. r[1] \in Task /\ tasks'[r[1]].cust = tasks[r[1]].cust
    BY TaskFixed DEF Row
  <2>2. rows[r] \in RowState
    BY DEF TypeInv, TypeOK
  <2>3. CASE rows'[r].status = rows[r].status /\ rows'[r].chan = rows[r].chan
    BY <1>2, <2>1, <2>3 DEF ChannelsServed, Saved
  <2>4. ASSUME NEW w \in Worker, SaveIntervention(w) \/ MarkSent(w)
        PROVE  rows'[r] = rows[r] \/ (r = RowOf(w) /\ rows'[r].chan = work[w].chan)
    <3>1. RowOf(w) \in Row
      BY <2>4, BusyTypes DEF SaveIntervention, MarkSent
    <3>2. CASE SaveIntervention(w)
      BY <3>1, <3>2 DEF SaveIntervention, TypeInv, TypeOK
    <3>3. CASE MarkSent(w)
      BY <2>2, <3>1, <3>3 DEF MarkSent, TypeInv, TypeOK, RowState
    <3> QED
      BY <2>4, <3>2, <3>3
  <2>5. ASSUME NEW w \in Worker, SaveIntervention(w) \/ MarkSent(w), r = RowOf(w)
        PROVE  Served(work[w].chan)
    <3>1. tasks[r[1]].cust = Cust(w) /\ work[w].at \in {"save", "mark"}
      BY <2>5 DEF RowOf, Cust, SaveIntervention, MarkSent
    <3> QED
      BY <1>2, <2>1, <3>1 DEF ChannelsServed
  <2>6. ASSUME NEW q \in Row, Feedback(q)
        PROVE  rows'[r].status = rows[r].status /\ rows'[r].chan = rows[r].chan
    BY <2>2, <2>6 DEF Feedback, TypeInv, TypeOK, RowState
  <2>7. \/ UNCHANGED rows
        \/ \E w \in Worker : SaveIntervention(w) \/ MarkSent(w)
        \/ \E q \in Row : Feedback(q)
    BY DEF Next, vars, Enqueue, Start, Execute, Fault, CheckCooldown, DeleteCooldown,
           GetLevel, ReadTier, WriteTier, SelectChannel, RunChannel, SetCooldown,
           Acknowledge, Raise, OutreachFails, Crash, ExpireKey, EvictKey, Tick
  <2> QED
    BY <2>3, <2>4, <2>5, <2>6, <2>7
<1> QED
  BY <1>1, <1>2 DEF ChannelsServed, Reachable

LEMMA HeardStep ==
  ASSUME TypeInv, TypeInv', ChannelsServed, HeardInv, [Next]_vars,
         \A w \in Worker : ~Fault(w), \A c \in Customer : ~EvictKey(c)
  PROVE  HeardInv'
<1>1. ASSUME NEW v \in Worker, work'[v].at \in {"mark", "cool", "ack"}, Reachable(Cust(v)')
      PROVE  Heard(work[v].task)'
  <2>1. PICK t : t = work[v].task
    OBVIOUS
  <2>2. CASE Execute(v)
    <3>1. /\ work[v].at # "idle" /\ work'[v].task = t
          /\ RunChannel(v) \/ MarkSent(v) \/ SetCooldown(v)
      BY <1>1, <2>1, <2>2, Moves DEF Fault
    <3>2. Reachable(Cust(v)) /\ t \in Task
      BY <1>1, <2>1, <3>1, CustKept, BusyTypes
    <3>3. CASE MarkSent(v) \/ SetCooldown(v)
      <4>1. Heard(t)
        BY <2>1, <3>2, <3>3 DEF MarkSent, SetCooldown, HeardInv
      <4>2. Heard(t)'
        BY <3>2, <4>1, ReachedStays
      <4> QED
        BY <3>1, <4>2 DEF Heard
    <3>4. CASE RunChannel(v)
      <4> DEFINE e == [row |-> RowOf(v), tier |-> TierOf(v),
                       chan |-> work[v].chan, at |-> day]
      <4>1. PICK c \in Customer : c = Cust(v)
        BY <3>1, BusyTypes
      <4>2. Served(work[v].chan)
        BY <3>2, <3>4 DEF RunChannel, ChannelsServed
      <4>3. outreach[c] \in Seq(Outreach)
        BY DEF TypeInv, TypeOK
      <4>4. outreach'[c] = Append(outreach[c], e) /\ UNCHANGED tasks
        BY <3>4, <4>1, <4>2 DEF RunChannel, TypeInv, TypeOK
      <4>5. e.row[1] = t /\ tasks[t].cust = c
        BY <2>1, <4>1 DEF RowOf, Cust
      <4> HIDE DEF e
      <4>6. Len(outreach[c]) + 1 \in DOMAIN outreach'[c]
              /\ outreach'[c][Len(outreach[c]) + 1] = e
        BY <4>3, <4>4
      <4>7. Heard(t)'
        BY <4>4, <4>5, <4>6 DEF Heard
      <4> QED
        BY <3>1, <4>7 DEF Heard
    <3> QED
      BY <3>1, <3>3, <3>4
  <2>3. CASE ~Execute(v)
    <3>1. work'[v] = work[v] /\ work[v].at # "idle"
      BY <1>1, <2>3, OthersLeave
    <3>2. Cust(v)' = Cust(v) /\ t \in Task
      BY <2>1, <3>1, CustKept, BusyTypes
    <3>3. Heard(t)
      BY <1>1, <2>1, <3>1, <3>2 DEF HeardInv
    <3>4. Heard(t)'
      BY <3>2, <3>3, ReachedStays
    <3> QED
      BY <2>1, <3>1, <3>4 DEF Heard
  <2> QED
    BY <2>2, <2>3
<1>2. ASSUME NEW t \in Task, tasks'[t].status = "dispatched", Reachable(tasks'[t].cust)
      PROVE  Heard(t)'
  <2>1. tasks'[t].cust = tasks[t].cust
    BY TaskFixed
  <2>2. CASE tasks[t].status = "dispatched"
    BY <1>2, <2>1, <2>2, ReachedStays DEF HeardInv
  <2>3. CASE tasks[t].status # "dispatched"
    <3>1. PICK w \in Worker : Acknowledge(w) /\ work[w].task = t
      <4>1. ASSUME NEW w \in Worker, Execute(w)
            PROVE  Acknowledge(w) /\ work[w].task = t
        <5>1. tasks'[t] # tasks[t]
          BY <1>2, <2>3
        <5>2. work[w].task = t
          BY <4>1, <5>1, TasksKept
        <5>3. ASSUME NEW s, Finish(w, s) PROVE tasks'[t].status = s
          BY <5>2, <5>3 DEF Finish, TypeInv, TypeOK, TaskState
        <5> QED
          BY <1>2, <4>1, <5>1, <5>2, <5>3
          DEF Execute, CheckCooldown, DeleteCooldown, GetLevel, ReadTier, WriteTier,
              SelectChannel, SaveIntervention, RunChannel, MarkSent, SetCooldown
      <4>2. ASSUME NEW w \in Worker, Start(w) PROVE FALSE
        <5>1. PICK u \in Task : tasks' = [tasks EXCEPT ![u].status = "running"]
          BY <4>2 DEF Start
        <5> QED
          BY <1>2, <2>3, <5>1 DEF TypeInv, TypeOK, TaskState
      <4>3. ASSUME NEW u \in Task, Enqueue(u) PROVE FALSE
        BY <1>2, <2>3, <4>3 DEF Enqueue, TypeInv, TypeOK, TaskState
      <4> QED
        BY <1>2, <2>3, <4>1, <4>2, <4>3
        DEF Next, vars, Feedback, ExpireKey, EvictKey, Tick
    <3>2. Heard(t)
      BY <1>2, <2>1, <3>1 DEF Acknowledge, HeardInv, Cust
    <3> QED
      BY <3>2, ReachedStays
  <2> QED
    BY <2>2, <2>3
<1>3. ASSUME NEW c \in Customer, cooldown'[c] # 0, Reachable(c)
      PROVE  outreach'[c] # <<>>
  <2>1. CASE cooldown[c] # 0
    BY <1>3, <2>1, ReachedStays DEF HeardInv
  <2>2. CASE cooldown[c] = 0
    <3>1. PICK w \in Worker : SetCooldown(w) /\ Cust(w) = c
      <4>1. ASSUME NEW w \in Worker, SetCooldown(w) PROVE Cust(w) = c
        BY <1>3, <2>2, <4>1 DEF SetCooldown, TypeInv, TypeOK
      <4>2. ASSUME NEW w \in Worker, DeleteCooldown(w) PROVE FALSE
        BY <1>3, <2>2, <4>2 DEF DeleteCooldown, TypeInv, TypeOK
      <4>3. ASSUME NEW d \in Customer, ExpireKey(d) PROVE FALSE
        BY <1>3, <2>2, <4>3 DEF ExpireKey, TypeInv, TypeOK
      <4> QED
        BY <1>3, <2>2, <4>1, <4>2, <4>3
        DEF Next, vars, Enqueue, Start, Execute, CheckCooldown, GetLevel, ReadTier,
            WriteTier, SelectChannel, SaveIntervention, RunChannel, MarkSent, Acknowledge,
            Feedback, Tick
    <3>2. Heard(work[w].task)
      BY <1>3, <3>1 DEF SetCooldown, HeardInv
    <3>3. \E i \in DOMAIN outreach[c] : outreach[c][i].row[1] = work[w].task
      BY <3>1, <3>2 DEF Heard, Cust
    <3>4. outreach[c] # <<>>
      BY <3>3
    <3> QED
      BY <3>4, ReachedStays
  <2> QED
    BY <2>1, <2>2
<1>4. ASSUME NEW t \in Task, tasks'[t].status = "skipped", Reachable(tasks'[t].cust)
      PROVE  outreach'[tasks'[t].cust] # <<>>
  <2>1. tasks'[t].cust = tasks[t].cust /\ tasks[t].cust \in Customer
    BY TaskFixed DEF TypeInv, TypeOK, TaskState
  <2>2. CASE tasks[t].status = "skipped"
    BY <1>4, <2>1, <2>2, ReachedStays DEF HeardInv
  <2>3. CASE tasks[t].status # "skipped"
    <3>1. PICK w \in Worker : CheckCooldown(w) /\ work[w].task = t /\ InCooldown(Cust(w))
      <4>1. ASSUME NEW w \in Worker, Execute(w)
            PROVE  CheckCooldown(w) /\ work[w].task = t /\ InCooldown(Cust(w))
        <5>1. tasks'[t] # tasks[t]
          BY <1>4, <2>3
        <5>2. work[w].task = t
          BY <4>1, <5>1, TasksKept
        <5>3. ASSUME NEW s, Finish(w, s) PROVE tasks'[t].status = s
          BY <5>2, <5>3 DEF Finish, TypeInv, TypeOK, TaskState
        <5> QED
          BY <1>4, <4>1, <5>1, <5>2, <5>3
          DEF Execute, CheckCooldown, DeleteCooldown, GetLevel, ReadTier, WriteTier,
              SelectChannel, SaveIntervention, RunChannel, MarkSent, SetCooldown, Acknowledge
      <4>2. ASSUME NEW w \in Worker, Start(w) PROVE FALSE
        <5>1. PICK u \in Task : tasks' = [tasks EXCEPT ![u].status = "running"]
          BY <4>2 DEF Start
        <5> QED
          BY <1>4, <2>3, <5>1 DEF TypeInv, TypeOK, TaskState
      <4>3. ASSUME NEW u \in Task, Enqueue(u) PROVE FALSE
        BY <1>4, <2>3, <4>3 DEF Enqueue, TypeInv, TypeOK, TaskState
      <4> QED
        BY <1>4, <2>3, <4>1, <4>2, <4>3
        DEF Next, vars, Feedback, ExpireKey, EvictKey, Tick
    <3>2. Cust(w) = tasks[t].cust
      BY <3>1 DEF Cust
    <3>3. day \in Nat /\ cooldown[tasks[t].cust] \in Nat
      BY <2>1, DispatchAssumption DEF TypeInv, TypeOK
    <3>4. cooldown[tasks[t].cust] # 0
      BY <3>1, <3>2, <3>3 DEF InCooldown
    <3>5. outreach[tasks[t].cust] # <<>>
      BY <1>4, <2>1, <3>4 DEF HeardInv
    <3> QED
      BY <2>1, <3>5, ReachedStays
  <2> QED
    BY <2>2, <2>3
<1>5. \A v \in Worker : work'[v].at \in {"mark", "cool", "ack"} =>
        work'[v].task \in Task
  BY DEF TypeInv, Busy
<1> QED
  BY <1>1, <1>2, <1>3, <1>4 DEF HeardInv

\* A task that was heard of has an outreach.
LEMMA HeardOutreach ==
  ASSUME TypeInv, NEW t \in Task, Heard(t)
  PROVE  OutreachOf(t) # {}
<1>1. PICK c \in Customer : c = tasks[t].cust
  BY DEF TypeInv, TypeOK, TaskState
<1>2. PICK i \in DOMAIN outreach[c] : outreach[c][i].row[1] = t
  BY <1>1 DEF Heard
<1>3. <<c, i>> \in OutreachOf(t)
  BY <1>2 DEF OutreachOf
<1> QED
  BY <1>3

\* For any number of workers, tasks and customers, as long as there are no
\* faults: a task is skipped only for a customer who has had outreach, and
\* reported "dispatched" only if it carried out outreach itself
\* (tasks.dispatch_intervention with cooldown_manager.should_intervene).
THEOREM NoCustomerFallsThrough == Spec => []NobodyFallsThrough
<1>1. Init => CaredFor
  BY DEF Init, CaredFor, ChannelsServed, HeardInv, Saved, NoRow, Idle
<1>2. TypeInv /\ CaredFor /\ [Next]_vars => TypeInv' /\ CaredFor'
  <2> SUFFICES ASSUME TypeInv, CaredFor, [Next]_vars PROVE TypeInv' /\ CaredFor'
    OBVIOUS
  <2>1. TypeInv'
    BY TypeStep
  <2>2. ASSUME faults' = 0 PROVE ChannelsServed' /\ HeardInv'
    <3>1. /\ ChannelsServed /\ HeardInv
          /\ \A w \in Worker : ~Fault(w)
          /\ \A c \in Customer : ~EvictKey(c)
      BY <2>2, NoFault DEF CaredFor
    <3> QED
      BY <2>1, <3>1, ServedStep, HeardStep
  <2> QED
    BY <2>1, <2>2 DEF CaredFor
<1>3. TypeInv /\ CaredFor => NobodyFallsThrough
  BY HeardOutreach DEF CaredFor, HeardInv, NobodyFallsThrough, Reachable
<1> QED
  BY <1>1, <1>2, <1>3, TypeInit, PTL DEF Spec

-----------------------------------------------------------------------------
(* Silence escalates.                                                      *)

InTable == {r \in Row : Saved(r)}

\* No intervention for customer c has an outcome.
Silent(c) == \A r \in RowsOf(c) : rows[r].outcome = "null"

\* Channel ch is more direct than the one customer c prefers.
Insists(c, ch) == ch = "rm_call" \/ Directness(ch) > Directness(Preferred[c])

\* Finitely many interventions are saved, that of each outreach is, and only one
\* that made an outreach has an outcome.
TableInv ==
  /\ IsFiniteSet(InTable)
  /\ \A c \in Customer : \A i \in DOMAIN outreach[c] : Saved(outreach[c][i].row)
  /\ \A r \in Row : rows[r].outcome # "null" =>
       \E c \in Customer : \E i \in DOMAIN outreach[c] : outreach[c][i].row = r

\* The row of an execution holds the channel it chose.
ChosenInv ==
  \A w \in Worker : work[w].at \in {"deliver", "mark"} => rows[RowOf(w)].chan = work[w].chan

\* An execution for a customer who had outreach and is silent has raised the
\* level, and then chosen a more direct channel.
RaisedInv ==
  \A w \in Worker : (outreach[Cust(w)] # <<>> /\ Silent(Cust(w))) =>
    /\ work[w].at \in {"readTier", "writeTier", "channel"} => work[w].level >= 1
    /\ work[w].at \in {"save", "deliver"} => Insists(Cust(w), work[w].chan)

EscalationInv ==
  RecordInv /\ OutreachInv /\ TableInv /\ ChosenInv /\ RaisedInv /\ SilenceEscalates

\* Who changes the table, and in which field.
LEMMA RowChanges ==
  ASSUME TypeInv, [Next]_vars
  PROVE  \/ UNCHANGED rows
         \/ \E w \in Worker : /\ SaveIntervention(w) \/ MarkSent(w)
                              /\ RowOf(w) \in Row
         \/ \E q \in Row : Feedback(q)
<1>1. ASSUME NEW w \in Worker, SaveIntervention(w) \/ MarkSent(w) PROVE RowOf(w) \in Row
  BY <1>1, BusyTypes DEF SaveIntervention, MarkSent
<1>2. \/ UNCHANGED rows
      \/ \E w \in Worker : SaveIntervention(w) \/ MarkSent(w)
      \/ \E q \in Row : Feedback(q)
  BY DEF Next, vars, Enqueue, Start, Execute, Fault, CheckCooldown, DeleteCooldown,
         GetLevel, ReadTier, WriteTier, SelectChannel, RunChannel, SetCooldown, Acknowledge, Raise,
         OutreachFails, Crash, ExpireKey, EvictKey, Tick
<1> QED
  BY <1>1, <1>2

\* An outcome is never taken back.
LEMMA OutcomeStays ==
  ASSUME TypeInv, OutreachInv, TableInv, [Next]_vars, NEW r \in Row,
         rows[r].outcome # "null"
  PROVE  rows'[r].outcome # "null"
<1>1. rows \in [Row -> RowState] /\ rows[r] \in RowState
  BY DEF TypeInv, TypeOK
<1>2. ASSUME NEW w \in Worker, SaveIntervention(w), RowOf(w) \in Row
      PROVE  rows'[r] = rows[r]
  <2>1. r # RowOf(w)
    BY <1>2, ChannelFresh DEF SaveIntervention, TableInv
  <2> QED
    BY <1>1, <1>2, <2>1 DEF SaveIntervention
<1>3. ASSUME NEW w \in Worker, MarkSent(w), RowOf(w) \in Row
      PROVE  rows'[r].outcome = rows[r].outcome
  BY <1>1, <1>3 DEF MarkSent, RowState
<1>4. ASSUME NEW q \in Row, Feedback(q)
      PROVE  rows'[r] = rows[r] \/ rows'[r].outcome \in {"no_response", "responded"}
  BY <1>1, <1>4 DEF Feedback, RowState
<1> QED
  BY <1>2, <1>3, <1>4, RowChanges

\* A customer who is silent has been silent all along.
LEMMA SilentBefore ==
  ASSUME TypeInv, OutreachInv, TableInv, [Next]_vars, NEW c \in Customer, Silent(c)'
  PROVE  Silent(c)
<1> SUFFICES ASSUME NEW r \in RowsOf(c), rows[r].outcome # "null" PROVE FALSE
  BY DEF Silent
<1>1. r \in Row /\ Saved(r) /\ tasks[r[1]].cust = c /\ r[1] \in Task
  BY DEF RowsOf, Row
<1>2. r \in RowsOf(c)'
  BY <1>1, SavedStays, TaskFixed DEF RowsOf
<1>3. rows'[r].outcome # "null"
  BY <1>1, OutcomeStays
<1> QED
  BY <1>2, <1>3 DEF Silent

\* The row of an outreach keeps its channel.
LEMMA ChannelStays ==
  ASSUME TypeInv, OutreachInv, ChosenInv, [Next]_vars,
         NEW c \in Customer, NEW i \in DOMAIN outreach[c]
  PROVE  rows'[outreach[c][i].row].chan = rows[outreach[c][i].row].chan
<1>0. PICK r \in Row : r = outreach[c][i].row
  BY OutreachType
<1>1. rows \in [Row -> RowState] /\ rows[r] \in RowState
  BY DEF TypeInv, TypeOK
<1>2. ASSUME NEW w \in Worker, SaveIntervention(w), RowOf(w) \in Row
      PROVE  rows'[r] = rows[r]
  <2>1. r # RowOf(w)
    BY <1>0, <1>2, ChannelFresh DEF SaveIntervention
  <2> QED
    BY <1>1, <1>2, <2>1 DEF SaveIntervention
<1>3. ASSUME NEW w \in Worker, MarkSent(w), RowOf(w) \in Row
      PROVE  rows'[r].chan = rows[r].chan
  <2>1. rows[RowOf(w)].chan = work[w].chan
    BY <1>3 DEF MarkSent, ChosenInv
  <2> QED
    BY <1>1, <1>3, <2>1 DEF MarkSent, RowState
<1>4. ASSUME NEW q \in Row, Feedback(q)
      PROVE  rows'[r].chan = rows[r].chan
  BY <1>1, <1>4 DEF Feedback, RowState
<1> QED
  BY <1>0, <1>2, <1>3, <1>4, RowChanges

\* Outreach is only made by a channel branch, over a channel that is served.
LEMMA OutreachSource ==
  ASSUME TypeInv, [Next]_vars, NEW c \in Customer
  PROVE  \/ outreach'[c] = outreach[c]
         \/ \E w \in Worker :
              /\ RunChannel(w) /\ c = Cust(w) /\ UNCHANGED <<rows, tasks>>
              /\ Len(outreach'[c]) = Len(outreach[c]) + 1
              /\ outreach'[c][Len(outreach'[c])].row = RowOf(w)
              /\ DOMAIN outreach'[c] = DOMAIN outreach[c] \cup {Len(outreach'[c])}
<1>1. outreach[c] \in Seq(Outreach) /\ outreach \in [Customer -> Seq(Outreach)]
  BY DEF TypeInv, TypeOK
<1>2. ASSUME NEW w \in Worker, RunChannel(w), outreach'[c] # outreach[c]
      PROVE  /\ c = Cust(w) /\ UNCHANGED <<rows, tasks>>
             /\ Len(outreach'[c]) = Len(outreach[c]) + 1
             /\ outreach'[c][Len(outreach'[c])].row = RowOf(w)
             /\ DOMAIN outreach'[c] = DOMAIN outreach[c] \cup {Len(outreach'[c])}
  <2> DEFINE e == [row |-> RowOf(w), tier |-> TierOf(w),
                   chan |-> work[w].chan, at |-> day]
  <2>1. outreach' = [outreach EXCEPT ![Cust(w)] = Append(@, e)] /\ UNCHANGED <<rows, tasks>>
    BY <1>2 DEF RunChannel
  <2>2. e.row = RowOf(w)
    OBVIOUS
  <2> HIDE DEF e
  <2>3. c = Cust(w) /\ outreach'[c] = Append(outreach[c], e)
    BY <1>1, <1>2, <2>1
  <2> QED
    BY <1>1, <2>1, <2>2, <2>3
<1>3. UNCHANGED outreach \/ \E w \in Worker : RunChannel(w)
  BY DEF Next, vars, Enqueue, Start, Execute, Fault, CheckCooldown, DeleteCooldown,
         GetLevel, ReadTier, WriteTier, SelectChannel, SaveIntervention, MarkSent,
         SetCooldown, Acknowledge, Raise, OutreachFails, Crash, Feedback, ExpireKey, EvictKey, Tick
<1> QED
  BY <1>2, <1>3

LEMMA TableStep ==
  ASSUME TypeInv, TypeInv', RecordInv, OutreachInv, TableInv, [Next]_vars
  PROVE  TableInv'
<1>1. IsFiniteSet(InTable)'
  <2>1. \A r \in Row : Saved(r)' => Saved(r) \/ \E w \in Worker :
                         SaveIntervention(w) /\ RowOf(w) \in Row /\ r = RowOf(w)
    <3>1. ASSUME NEW r \in Row, ~Saved(r), Saved(r)'
          PROVE  \E w \in Worker : SaveIntervention(w) /\ RowOf(w) \in Row /\ r = RowOf(w)
      <4>1. rows \in [Row -> RowState] /\ rows[r] \in RowState
        BY DEF TypeInv, TypeOK
      <4>2. rows'[r].status # rows[r].status
        BY <3>1 DEF Saved
      <4>3. ASSUME NEW w \in Worker, MarkSent(w), RowOf(w) \in Row PROVE FALSE
        <5>1. r # RowOf(w)
          BY <3>1, <4>3 DEF MarkSent, RecordInv, Late
        <5> QED
          BY <4>1, <4>2, <4>3, <5>1 DEF MarkSent
      <4>4. ASSUME NEW q \in Row, Feedback(q) PROVE FALSE
        BY <4>1, <4>2, <4>4 DEF Feedback, RowState
      <4>5. ASSUME NEW w \in Worker, SaveIntervention(w), RowOf(w) \in Row
            PROVE  r = RowOf(w)
        BY <4>1, <4>2, <4>5 DEF SaveIntervention
      <4> QED
        BY <4>2, <4>3, <4>4, <4>5, RowChanges
    <3> QED
      BY <3>1
  <2>2. CASE \E w \in Worker : SaveIntervention(w) /\ RowOf(w) \in Row
    <3>1. PICK w \in Worker : SaveIntervention(w) /\ RowOf(w) \in Row
      BY <2>2
    <3>2. ASSUME NEW v \in Worker, SaveIntervention(v), RowOf(v) \in Row
          PROVE  RowOf(v) = RowOf(w)
      <4>1. v = w
        <5>1. work'[v].at = "deliver" /\ work'[w].at = "deliver"
          BY <3>1, <3>2 DEF SaveIntervention, GoTo, TypeInv, TypeOK, WorkState
        <5>2. v # w => work'[v] = work[v]
          BY <3>1, TasksKept DEF Execute
        <5> QED
          BY <3>2, <5>1, <5>2 DEF SaveIntervention
      <4> QED
        BY <4>1
    <3>3. InTable' \subseteq InTable \cup {RowOf(w)}
      BY <2>1, <3>2 DEF InTable
    <3>4. IsFiniteSet(InTable \cup {RowOf(w)})
      BY FS_AddElement DEF TableInv
    <3> QED
      BY <3>3, <3>4, FS_Subset
  <2>3. CASE ~ \E w \in Worker : SaveIntervention(w) /\ RowOf(w) \in Row
    <3>1. InTable' \subseteq InTable
      BY <2>1, <2>3 DEF InTable
    <3> QED
      BY <3>1, FS_Subset DEF TableInv
  <2> QED
    BY <2>2, <2>3
<1>2. ASSUME NEW c \in Customer, NEW i \in DOMAIN outreach'[c]
      PROVE  Saved(outreach[c][i].row)'
  <2>0. outreach[c] \in Seq(Outreach)
    BY DEF TypeInv, TypeOK
  <2>1. CASE i \in DOMAIN outreach[c]
    <3>1. PICK r \in Row : r = outreach[c][i].row
      BY <2>1, OutreachType
    <3>2. Saved(r) /\ outreach'[c][i].row = r
      BY <2>1, <3>1, OutreachGrows DEF TableInv
    <3>3. rows'[r].status # "absent"
      BY <3>2, SavedStays DEF Saved
    <3> QED
      BY <3>2, <3>3 DEF Saved
  <2>2. CASE i \notin DOMAIN outreach[c]
    <3>1. PICK w \in Worker : /\ RunChannel(w) /\ UNCHANGED <<rows, tasks>>
                              /\ outreach'[c][i].row = RowOf(w)
      BY <1>2, <2>2, OutreachSource
    <3>2. Saved(RowOf(w))
      BY <3>1 DEF RunChannel, RecordInv, Late
    <3> QED
      BY <3>1, <3>2 DEF Saved
  <2> QED
    BY <2>1, <2>2
<1>3. ASSUME NEW r \in Row, rows'[r].outcome # "null"
      PROVE  \E c \in Customer : \E i \in DOMAIN outreach'[c] : outreach'[c][i].row = r
  <2>1. rows \in [Row -> RowState] /\ rows[r] \in RowState
    BY DEF TypeInv, TypeOK
  <2>2. ASSUME NEW c \in Customer, NEW i \in DOMAIN outreach[c], outreach[c][i].row = r
        PROVE  \E d \in Customer : \E j \in DOMAIN outreach'[d] : outreach'[d][j].row = r
    BY <2>2, OutreachGrows
  <2>3. ASSUME rows[r].outcome # "null"
        PROVE  \E d \in Customer : \E j \in DOMAIN outreach'[d] : outreach'[d][j].row = r
    BY <2>2, <2>3 DEF TableInv
  <2>4. ASSUME rows[r].outcome = "null"
        PROVE  \E d \in Customer : \E j \in DOMAIN outreach'[d] : outreach'[d][j].row = r
    <3>1. ASSUME NEW w \in Worker, SaveIntervention(w) \/ MarkSent(w) PROVE FALSE
      BY <1>3, <2>1, <2>4, <3>1 DEF SaveIntervention, MarkSent, RowState
    <3>2. PICK q \in Row : Feedback(q)
      BY <1>3, <2>4, <3>1, RowChanges
    <3>3. q = r
      BY <1>3, <2>1, <2>4, <3>2 DEF Feedback
    <3> QED
      BY <2>2, <3>2, <3>3 DEF Feedback
  <2> QED
    BY <2>3, <2>4
<1> QED
  BY <1>1, <1>2, <1>3 DEF TableInv

LEMMA ChosenStep ==
  ASSUME TypeInv, TypeInv', ChosenInv, [Next]_vars
  PROVE  ChosenInv'
<1> SUFFICES ASSUME NEW v \in Worker, work'[v].at \in {"deliver", "mark"}
             PROVE  (rows[RowOf(v)].chan = work[v].chan)'
  BY DEF ChosenInv
<1>0. rows \in [Row -> RowState]
  BY DEF TypeInv, TypeOK
<1>1. CASE Execute(v) \/ Fault(v)
  <2>1. /\ RowOf(v) \in Row /\ UNCHANGED tasks
        /\ work'[v].task = work[v].task /\ work'[v].chan = work[v].chan
        /\ SaveIntervention(v) \/ RunChannel(v)
    BY <1>1, Moves
  <2>2. RowOf(v)' = RowOf(v)
    BY <2>1 DEF RowOf
  <2>3. CASE SaveIntervention(v)
    <3>1. rows'[RowOf(v)].chan = work[v].chan
      BY <1>0, <2>1, <2>3 DEF SaveIntervention
    <3> QED
      BY <2>1, <2>2, <3>1
  <2>4. CASE RunChannel(v)
    <3>1. rows[RowOf(v)].chan = work[v].chan /\ rows' = rows
      BY <2>4 DEF RunChannel, ChosenInv
    <3> QED
      BY <2>1, <2>2, <3>1
  <2> QED
    BY <2>1, <2>3, <2>4
<1>2. CASE ~(Execute(v) \/ Fault(v))
  <2>1. work'[v] = work[v] /\ RowOf(v)' = RowOf(v)
    BY <1>2, OthersLeave
  <2>2. RowOf(v) \in Row /\ rows[RowOf(v)].chan = work[v].chan
    BY <2>1, BusyTypes DEF ChosenInv
  <2>3. ASSUME NEW w \in Worker, SaveIntervention(w) \/ MarkSent(w)
        PROVE  rows'[RowOf(v)] = rows[RowOf(v)]
    <3>1. w # v /\ work[w].at # "idle" /\ work[v].at # "idle"
      BY <1>2, <2>1, <2>3 DEF Execute, SaveIntervention, MarkSent
    <3>2. work[w].task # work[v].task
      BY <3>1 DEF TypeInv, Busy
    <3>3. RowOf(w) # RowOf(v)
      BY <3>2 DEF RowOf
    <3> QED
      BY <1>0, <2>2, <2>3, <3>3 DEF SaveIntervention, MarkSent
  <2>4. ASSUME NEW q \in Row, Feedback(q)
        PROVE  rows'[RowOf(v)].chan = rows[RowOf(v)].chan
    BY <1>0, <2>2, <2>4 DEF Feedback, RowState
  <2>5. rows'[RowOf(v)].chan = work[v].chan
    BY <2>2, <2>3, <2>4, RowChanges
  <2> QED
    BY <2>1, <2>5
<1> QED
  BY <1>1, <1>2

\* One unanswered intervention raises the level.
LEMMA SilenceCounts ==
  ASSUME TypeInv, OutreachInv, TableInv, NEW c \in Customer, outreach[c] # <<>>,
         Silent(c), NEW worsening \in BOOLEAN
  PROVE  EscalationLevel(c, worsening) \in 1..2
<1>1. 1 \in DOMAIN outreach[c]
  BY DEF TypeInv, TypeOK
<1>2. PICK r \in Row : r = outreach[c][1].row
  BY <1>1, OutreachType
<1>3. r \in RowsOf(c)
  BY <1>1, <1>2 DEF TableInv, OutreachInv, Accounted, RowsOf
<1>4. r \in NoResponse(c)
  BY <1>3 DEF NoResponse, RowsOf, Silent
<1>5. IsFiniteSet(NoResponse(c))
  <2>1. NoResponse(c) \subseteq InTable
    BY DEF NoResponse, InTable
  <2> QED
    BY <2>1, FS_Subset DEF TableInv
<1>6. Cardinality(NoResponse(c)) \in Nat /\ Cardinality(NoResponse(c)) # 0
  BY <1>4, <1>5, FS_CardinalityType, FS_EmptySet
<1> QED
  BY <1>6 DEF EscalationLevel

\* Raised, the choice for a silent customer is more direct than the preference.
LEMMA ChoiceInsists ==
  ASSUME TypeInv, TableInv, NEW c \in Customer, Silent(c), NEW k, NEW n \in 1..2,
         NEW ch \in OptimalChannels(c, k, n)
  PROVE  Insists(c, ch)
<1>1. BestChannels(c) = {}
  <2> SUFFICES ASSUME NEW b \in BestChannels(c) PROVE FALSE
    OBVIOUS
  <2>1. Answered(c, b) = {}
    BY DEF Answered, Using, Silent
  <2>2. Using(c, b) \subseteq InTable
    BY DEF Using, RowsOf, InTable
  <2>3. Cardinality(Using(c, b)) \in Nat
    BY <2>2, FS_Subset, FS_CardinalityType DEF TableInv
  <2>4. Cardinality(Answered(c, b)) = 0
    BY <2>1, FS_EmptySet
  <2>5. 10 * Cardinality(Answered(c, b)) > 3 * Cardinality(Using(c, b))
    BY DEF BestChannels
  <2> QED
    BY <2>3, <2>4, <2>5
<1>2. Insists(c, Escalated(Preferred[c], n))
  <2> DEFINE d == Directness(Preferred[c])
             i == IF d + n > 4 THEN 4 ELSE d + n
  <2>1. d \in 1..4
    BY DEF Directness
  <2>2. Escalated(Preferred[c], n) = ChannelOrder[i]
    BY DEF Escalated
  <2>3. i \in 2..4 /\ (i > d \/ i = 4)
    BY <2>1
  <2>4. \A j \in 2..4 : Directness(ChannelOrder[j]) = j
    BY DEF Directness, ChannelOrder
  <2>5. ChannelOrder[4] = "rm_call"
    BY DEF ChannelOrder
  <2> HIDE DEF i
  <2>6. CASE i = 4
    BY <2>2, <2>5, <2>6 DEF Insists
  <2>7. CASE i # 4
    BY <2>2, <2>3, <2>4, <2>7 DEF Insists
  <2> QED
    BY <2>6, <2>7
<1>3. ch = "rm_call" \/ ch = Escalated(Preferred[c], n)
  BY <1>1 DEF OptimalChannels
<1> QED
  BY <1>2, <1>3 DEF Insists

LEMMA RaisedStep ==
  ASSUME TypeInv, TypeInv', Apart, OutreachInv, TableInv, RaisedInv, [Next]_vars
  PROVE  RaisedInv'
<1> SUFFICES ASSUME NEW v \in Worker, work'[v].at \in {"readTier", "writeTier", "channel",
                                                      "save", "deliver"},
                    (outreach[Cust(v)] # <<>>)', Silent(Cust(v))'
             PROVE  /\ work'[v].at \in {"readTier", "writeTier", "channel"}
                         => work'[v].level >= 1
                    /\ work'[v].at \in {"save", "deliver"}
                         => Insists(Cust(v), work[v].chan)'
  BY DEF RaisedInv
<1>0. work[v] \in WorkState
  BY DEF TypeInv, TypeOK
<1>1. CASE Execute(v) \/ Fault(v)
  <2>1. work[v].at # "idle" /\ work'[v].task = work[v].task
    BY <1>1, Moves
  <2>2. PICK c \in Customer : c = Cust(v)
    BY <1>1, Moves
  <2>3. Cust(v)' = c
    BY <2>1, <2>2, CustKept
  <2>4. Silent(c)
    <3>1. Silent(c)'
      BY <2>3 DEF Silent, RowsOf
    <3> QED
      BY <3>1, SilentBefore
  <2>5. outreach[c] # <<>>
    <3>1. ~RunChannel(v)
      BY Moves DEF RunChannel, Execute, GoTo, TypeInv, TypeOK, WorkState
    <3>2. UNCHANGED outreach
      BY <1>1, <3>1 DEF Execute, Fault, CheckCooldown, DeleteCooldown, GetLevel, ReadTier,
             WriteTier, SelectChannel, SaveIntervention, MarkSent, SetCooldown, Acknowledge, Raise,
             OutreachFails, Crash
    <3> QED
      BY <2>3, <3>2
  <2>6. ASSUME work[v].at \in {"readTier", "writeTier", "channel"} PROVE work[v].level \in 1..2
    BY <1>0, <2>2, <2>4, <2>5, <2>6 DEF RaisedInv, WorkState
  <2>7. ASSUME GetLevel(v) PROVE work'[v].at = "readTier" /\ work'[v].level >= 1
    <3>1. PICK worsening \in BOOLEAN :
            work' = [work EXCEPT ![v].at = "readTier",
                                 ![v].level = IF EscalationLevel(c, worsening) > @
                                              THEN EscalationLevel(c, worsening) ELSE @]
      BY <2>2, <2>7 DEF GetLevel
    <3>2. EscalationLevel(c, worsening) \in 1..2
      BY <2>4, <2>5, SilenceCounts
    <3>3. work[v].level \in 0..2
      BY <1>0 DEF WorkState
    <3>4. work'[v].at = "readTier" /\ work'[v].level =
            IF EscalationLevel(c, worsening) > work[v].level
            THEN EscalationLevel(c, worsening) ELSE work[v].level
      BY <1>0, <3>1 DEF TypeInv, TypeOK, WorkState
    <3> QED
      BY <3>2, <3>3, <3>4
  <2>8. ASSUME ReadTier(v)
        PROVE  work'[v].at = "writeTier" /\ work'[v].level = work[v].level
                 /\ work[v].at = "readTier"
    BY <1>0, <2>8 DEF ReadTier, TypeInv, TypeOK, WorkState
  <2>9. ASSUME WriteTier(v)
        PROVE  work'[v].at = "channel" /\ work'[v].level = work[v].level
                 /\ work[v].at = "writeTier"
    BY <1>0, <2>9 DEF WriteTier, TypeInv, TypeOK, WorkState
  <2>10. ASSUME SelectChannel(v)
         PROVE  work'[v].at = "save" /\ Insists(c, work'[v].chan)
    <3>1. PICK ch \in OptimalChannels(c, TierOf(v), work[v].level) :
            work' = [work EXCEPT ![v].at = "save", ![v].chan = ch]
      BY <2>2, <2>10 DEF SelectChannel
    <3>2. work[v].level \in 1..2
      BY <2>6, <2>10 DEF SelectChannel
    <3>3. Insists(c, ch)
      BY <2>4, <3>2, ChoiceInsists
    <3>4. work'[v].at = "save" /\ work'[v].chan = ch
      BY <1>0, <3>1 DEF TypeInv, TypeOK, WorkState
    <3> QED
      BY <3>3, <3>4
  <2>11. ASSUME SaveIntervention(v)
         PROVE  work'[v].at = "deliver" /\ Insists(c, work'[v].chan)
    <3>1. work'[v].at = "deliver" /\ work'[v].chan = work[v].chan
      BY <1>0, <2>11 DEF SaveIntervention, GoTo, TypeInv, TypeOK, WorkState
    <3>2. Insists(c, work[v].chan)
      BY <2>2, <2>4, <2>5, <2>11 DEF SaveIntervention, RaisedInv
    <3> QED
      BY <3>1, <3>2
  <2>12. GetLevel(v) \/ ReadTier(v) \/ WriteTier(v) \/ SelectChannel(v) \/ SaveIntervention(v)
    <3>1. ASSUME NEW s, GoTo(v, s) PROVE work'[v].at = s
      BY <1>0, <3>1 DEF GoTo, TypeInv, TypeOK, WorkState
    <3>2. (\E s : Finish(v, s)) \/ (\E n : Again(v, n)) => work'[v].at = "idle"
      <4>1. ASSUME work' = [work EXCEPT ![v] = Idle] PROVE work'[v].at = "idle"
        BY <4>1 DEF Idle, TypeInv, TypeOK
      <4> QED
        BY <4>1 DEF Finish, Again
    <3>3. ~CheckCooldown(v)
      BY <1>0, <3>1, <3>2 DEF CheckCooldown, TypeInv, TypeOK, WorkState
    <3>4. ~(\/ DeleteCooldown(v) \/ RunChannel(v) \/ MarkSent(v) \/ OutreachFails(v)
            \/ SetCooldown(v))
      BY <3>1 DEF DeleteCooldown, RunChannel, MarkSent, OutreachFails, SetCooldown
    <3>5. ~(Acknowledge(v) \/ Raise(v) \/ Crash(v))
      BY <3>2 DEF Acknowledge, Raise, Crash
    <3> QED
      BY <1>1, <3>3, <3>4, <3>5 DEF Execute, Fault
  <2>13. /\ work'[v].at \in {"readTier", "writeTier", "channel"} => work'[v].level >= 1
         /\ work'[v].at \in {"save", "deliver"} => Insists(c, work'[v].chan)
    BY <2>6, <2>7, <2>8, <2>9, <2>10, <2>11, <2>12
  <2> QED
    BY <2>3, <2>13 DEF Insists
<1>2. CASE ~(Execute(v) \/ Fault(v))
  <2>1. work'[v] = work[v]
    BY <1>2, OthersLeave
  <2>2. PICK c \in Customer : c = Cust(v)
    BY <2>1, BusyTypes
  <2>3. Cust(v)' = c
    BY <2>1, <2>2, CustKept
  <2>4. Silent(c)
    <3>1. Silent(c)'
      BY <2>3 DEF Silent, RowsOf
    <3> QED
      BY <3>1, SilentBefore
  <2>5. outreach'[c] = outreach[c]
    <3>1. ASSUME NEW w \in Worker, RunChannel(w), c = Cust(w) PROVE FALSE
      <4>1. v # w /\ Passed(w) /\ Passed(v)
        BY <1>2, <2>1, <3>1 DEF Execute, RunChannel, Passed
      <4> QED
        BY <2>2, <3>1, <4>1 DEF Apart
    <3> QED
      BY <3>1, OutreachSource
  <2>6. /\ work[v].at \in {"readTier", "writeTier", "channel"} => work[v].level >= 1
        /\ work[v].at \in {"save", "deliver"} => Insists(c, work[v].chan)
    BY <2>2, <2>3, <2>4, <2>5 DEF RaisedInv
  <2> QED
    BY <2>1, <2>3, <2>6 DEF Insists
<1> QED
  BY <1>1, <1>2

LEMMA SilenceStep ==
  ASSUME TypeInv, TypeInv', EscalationInv, [Next]_vars
  PROVE  SilenceEscalates'
<1> USE DEF EscalationInv
<1> SUFFICES ASSUME NEW c \in Customer, Silent(c)', NEW i \in 2..Len(outreach'[c])
             PROVE  Insists(c, rows'[outreach'[c][i].row].chan)
  BY DEF SilenceEscalates, Silent, Insists
<1>0. outreach[c] \in Seq(Outreach) /\ outreach'[c] \in Seq(Outreach)
  BY DEF TypeInv, TypeOK
<1>1. Silent(c)
  BY SilentBefore
<1>2. CASE i \in DOMAIN outreach[c]
  <2>1. Insists(c, rows[outreach[c][i].row].chan)
    BY <1>0, <1>1, <1>2 DEF SilenceEscalates, Silent, Insists
  <2>2. outreach'[c][i] = outreach[c][i]
    BY <1>2, OutreachGrows
  <2> QED
    BY <1>2, <2>1, <2>2, ChannelStays
<1>3. CASE i \notin DOMAIN outreach[c]
  <2>1. PICK w \in Worker : /\ RunChannel(w) /\ c = Cust(w) /\ UNCHANGED rows
                            /\ Len(outreach'[c]) = Len(outreach[c]) + 1
                            /\ outreach'[c][i].row = RowOf(w)
    BY <1>0, <1>3, OutreachSource
  <2>2. outreach[c] # <<>>
    BY <1>0, <2>1
  <2>3. Insists(c, work[w].chan)
    BY <1>1, <2>1, <2>2 DEF RaisedInv, RunChannel
  <2>4. rows[RowOf(w)].chan = work[w].chan
    BY <2>1 DEF ChosenInv, RunChannel
  <2> QED
    BY <2>1, <2>3, <2>4
<1> QED
  BY <1>2, <1>3

\* With any number of worker processes, through crashes, errors, retries and evicted
\* keys: as long as no two executions for one customer are past the check at a time,
\* and while that customer answers nothing, each outreach after the first uses a more
\* direct channel than the customer prefers, or is the manager's call
\* (cooldown_manager.get_escalation_level with select_optimal_channel).
THEOREM ApartEscalates == Spec /\ []Apart => []SilenceEscalates
<1>1. Init => EscalationInv
  <2> SUFFICES ASSUME Init PROVE EscalationInv
    OBVIOUS
  <2>1. RecordInv /\ OutreachInv /\ ChosenInv /\ RaisedInv /\ SilenceEscalates
    BY DEF Init, RecordInv, Late, Idle, OutreachInv, ChosenInv, RaisedInv, SilenceEscalates
  <2>2. InTable = {}
    BY DEF Init, InTable, Saved, NoRow
  <2>3. TableInv
    BY <2>2, FS_EmptySet DEF Init, TableInv, NoRow
  <2> QED
    BY <2>1, <2>3 DEF EscalationInv
<1>2. Apart /\ TypeInv /\ EscalationInv /\ CooldownOnRecord /\ [Next]_vars
        => TypeInv' /\ EscalationInv' /\ CooldownOnRecord'
  <2> SUFFICES ASSUME Apart, TypeInv, EscalationInv, CooldownOnRecord, [Next]_vars
               PROVE  TypeInv' /\ EscalationInv' /\ CooldownOnRecord'
    OBVIOUS
  <2>1. TypeInv'
    BY TypeStep
  <2>2. RecordInv' /\ CooldownOnRecord'
    BY RecordStep DEF EscalationInv
  <2>3. OutreachInv' /\ TableInv' /\ ChosenInv' /\ RaisedInv'
    BY <2>1, OutreachStep, TableStep, ChosenStep, RaisedStep DEF EscalationInv
  <2>4. SilenceEscalates'
    BY <2>1, SilenceStep
  <2> QED
    BY <2>1, <2>2, <2>3, <2>4 DEF EscalationInv
<1>3. Init => CooldownOnRecord
  BY DEF Init, CooldownOnRecord, InCooldown
<1>4. EscalationInv => SilenceEscalates
  BY DEF EscalationInv
<1> QED
  BY <1>1, <1>2, <1>3, <1>4, TypeInit, PTL DEF Spec

=============================================================================
