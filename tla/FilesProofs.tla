---------------------------- MODULE FilesProofs -----------------------------
(***************************************************************************)
(* Theorems about what a training leaves on disk: ModelFiles, for any      *)
(* numbers of trainings, servers, exceptions and kills, and, at the end,   *)
(* RiskTiers, for any test set, probabilities, costs, weights and default  *)
(* thresholds.                                                             *)
(***************************************************************************)
EXTENDS ModelFiles, RiskTiers, FiniteSetTheorems, TLAPS

-----------------------------------------------------------------------------
(* Type correctness.                                                       *)

LEMMA IdleType == Idle \in TrainerState
  BY FilesAssumption DEF Idle, TrainerState, Script, Run

LEMMA DownType == Down \in ServerState
  BY FilesAssumption DEF Down, ServerState, Service, Nothing, Object, Run

LEMMA SavesType == ASSUME NEW sc PROVE Saves(sc) \subseteq File
  BY DEF Saves

LEMMA NeededType == ASSUME NEW k PROVE Needed(k) \subseteq File
  BY DEF Needed

LEMMA WrittenType ==
  ASSUME NEW t, NEW f, trainer[t].run \in Run PROVE Written(t, f) \in Content
  BY DEF Written, Content

LEMMA LoadedType ==
  ASSUME NEW f, NEW c \in Content PROVE Loaded(f, c) \in Object
  BY DEF Loaded, Content, Object

\* A training after a change of some of its fields.
LEMMA TrainerType ==
  ASSUME NEW x \in TrainerState
  PROVE  /\ [x EXCEPT !.writing = TRUE] \in TrainerState
         /\ \A b \in BOOLEAN : [x EXCEPT !.writing = TRUE, !.mixed = b] \in TrainerState
         /\ \A b \in BOOLEAN : [x EXCEPT !.mixed = b] \in TrainerState
         /\ \A f \in File, b \in BOOLEAN :
              [x EXCEPT !.todo = @ \ {f}, !.writing = FALSE, !.mixed = FALSE,
                        !.unfit = b] \in TrainerState
  BY DEF TrainerState

LEMMA ThroughType ==
  ASSUME TypeOK, NEW t \in Trainer, NEW f \in File, NEW bad \in BOOLEAN, Through(t, f, bad)
  PROVE  trainer' \in [Trainer -> TrainerState]
<1>1. trainer[t] \in TrainerState
  BY DEF TypeOK
<1>2. trainer[t].unfit \in BOOLEAN
  BY <1>1 DEF TrainerState
<1> DEFINE y == IF trainer[t].todo = {f} THEN Idle
                ELSE [trainer[t] EXCEPT !.todo = @ \ {f}, !.writing = FALSE, !.mixed = FALSE,
                                        !.unfit = @ \/ bad]
<1>3. y \in TrainerState
  <2>1. (trainer[t].unfit \/ bad) \in BOOLEAN
    BY <1>2
  <2>2. [trainer[t] EXCEPT !.todo = @ \ {f}, !.writing = FALSE, !.mixed = FALSE,
                           !.unfit = @ \/ bad] \in TrainerState
    BY <1>1, <2>1, TrainerType
  <2> QED
    BY <2>2, IdleType
<1>4. trainer' = [trainer EXCEPT ![t] = y]
  BY DEF Through
<1> HIDE DEF y
<1> QED
  BY <1>3, <1>4 DEF TypeOK

LEMMA TypeInit == Init => TypeOK
<1> SUFFICES ASSUME Init PROVE TypeOK
  OBVIOUS
<1>1. Absent \in Content /\ 0 \in Run /\ 0 \in 0..MaxFaults
  BY FilesAssumption DEF Absent, Content, Run
<1> QED
  BY <1>1, IdleType, DownType DEF Init, TypeOK

LEMMA TypeStep == TypeOK /\ [Next]_vars => TypeOK'
<1> SUFFICES ASSUME TypeOK, [Next]_vars PROVE TypeOK'
  OBVIOUS
<1>0. MaxRuns \in Nat /\ MaxFaults \in Nat /\ runs \in Run /\ faults \in 0..MaxFaults
  BY FilesAssumption DEF TypeOK
<1>a. Fails => faults' \in 0..MaxFaults
  BY <1>0 DEF Fails
<1>1. ASSUME NEW t \in Trainer, Begin(t) PROVE TypeOK'
  <2>1. runs + 1 \in Run /\ runs' = runs + 1
    BY <1>0, <1>1 DEF Begin, Run
  <2>2. PICK sc \in Script :
          /\ trainer' = [trainer EXCEPT ![t] =
               [run |-> runs + 1, script |-> sc, todo |-> Saves(sc),
                writing |-> FALSE, mixed |-> FALSE, unfit |-> FALSE]]
          /\ partial' = IF sc = "pipeline" THEN partial ELSE partial \cup {runs + 1}
    BY <1>1 DEF Begin
  <2> DEFINE y == [run |-> runs + 1, script |-> sc, todo |-> Saves(sc),
                   writing |-> FALSE, mixed |-> FALSE, unfit |-> FALSE]
  <2>3. y \in TrainerState
    BY <2>1, SavesType DEF TrainerState
  <2>4. trainer' = [trainer EXCEPT ![t] = y]
    BY <2>2
  <2> HIDE DEF y
  <2>5. trainer' \in [Trainer -> TrainerState]
    BY <2>3, <2>4 DEF TypeOK
  <2>6. partial' \subseteq Run
    BY <2>1, <2>2 DEF TypeOK
  <2>7. overlap' \subseteq Run
    <3>1. \A u \in Trainer : trainer[u].run \in Run
      BY DEF TypeOK, TrainerState
    <3>2. {trainer[u].run : u \in {v \in Trainer : Training(v)}} \subseteq Run
      BY <3>1
    <3> QED
      BY <1>1, <2>1, <3>2 DEF Begin, TypeOK
  <2>8. server' \in [Server -> ServerState]
    <3>1. \A s \in Server : server[s] \in ServerState
      BY DEF TypeOK
    <3>2. \A x \in ServerState : [x EXCEPT !.raced = TRUE] \in ServerState
      BY DEF ServerState
    <3>3. server' = [s \in Server |-> IF server[s].at = "loading"
                                      THEN [server[s] EXCEPT !.raced = TRUE] ELSE server[s]]
      BY <1>1 DEF Begin
    <3> QED
      BY <3>1, <3>2, <3>3
  <2>9. file' = file /\ faults' = faults
    BY <1>1 DEF Begin
  <2> QED
    BY <2>1, <2>5, <2>6, <2>7, <2>8, <2>9 DEF TypeOK
<1>2. ASSUME NEW t \in Trainer, Open(t) PROVE TypeOK'
  <2>1. PICK f \in trainer[t].todo :
          /\ file' = [file EXCEPT ![f] = [by |-> trainer[t].run, form |-> "torn"]]
          /\ trainer' = [u \in Trainer |->
               IF u = t THEN [trainer[t] EXCEPT !.writing = TRUE, !.mixed = \E v \in Trainer : Writes(v, f)]
               ELSE [trainer[u] EXCEPT !.mixed = @ \/ Writes(u, f)]]
    BY <1>2 DEF Open
  <2>2. \A u \in Trainer : trainer[u] \in TrainerState /\ trainer[u].mixed \in BOOLEAN
    BY DEF TypeOK, TrainerState
  <2>3. \A u \in Trainer : [trainer[u] EXCEPT !.mixed = @ \/ Writes(u, f)] \in TrainerState
    <3> SUFFICES ASSUME NEW u \in Trainer
                 PROVE  [trainer[u] EXCEPT !.mixed = @ \/ Writes(u, f)] \in TrainerState
      OBVIOUS
    <3>1. (trainer[u].mixed \/ Writes(u, f)) \in BOOLEAN
      OBVIOUS
    <3> QED
      BY <2>2, <3>1, TrainerType
  <2>4. [trainer[t] EXCEPT !.writing = TRUE, !.mixed = \E v \in Trainer : Writes(v, f)] \in TrainerState
    <3>1. (\E v \in Trainer : Writes(v, f)) \in BOOLEAN
      OBVIOUS
    <3> QED
      BY <2>2, <3>1, TrainerType
  <2>5. trainer' \in [Trainer -> TrainerState]
    BY <2>1, <2>3, <2>4
  <2>6. [by |-> trainer[t].run, form |-> "torn"] \in Content /\ f \in File
    BY <2>2 DEF TrainerState, Content
  <2>7. file' \in [File -> Content]
    BY <2>1, <2>6 DEF TypeOK
  <2> QED
    BY <1>2, <2>5, <2>7 DEF Open, TypeOK
<1>3. ASSUME NEW t \in Trainer, Save(t) PROVE TypeOK'
  <2>1. PICK f \in trainer[t].todo :
          /\ \/ file' = [file EXCEPT ![f] = Written(t, f)]
             \/ file' = [file EXCEPT ![f] = [by |-> trainer[t].run, form |-> "torn"]]
          /\ Through(t, f, FALSE)
    BY <1>3 DEF Save
  <2>2. trainer[t].run \in Run /\ f \in File
    BY DEF TypeOK, TrainerState
  <2>3. Written(t, f) \in Content /\ [by |-> trainer[t].run, form |-> "torn"] \in Content
    BY <2>2, WrittenType DEF Content
  <2>4. file' \in [File -> Content]
    BY <2>1, <2>2, <2>3 DEF TypeOK
  <2>5. trainer' \in [Trainer -> TrainerState]
    BY <2>1, <2>2, ThroughType
  <2> QED
    BY <1>3, <2>4, <2>5 DEF Save, TypeOK
<1>4. ASSUME NEW t \in Trainer, Leave(t) PROVE TypeOK'
  <2>1. PICK f \in trainer[t].todo, bad \in BOOLEAN : Through(t, f, bad)
    BY <1>4 DEF Leave
  <2>2. f \in File /\ trainer[t].run \in Run
    BY DEF TypeOK, TrainerState
  <2>3. trainer' \in [Trainer -> TrainerState]
    BY <2>1, <2>2, ThroughType
  <2>4. faults' \in 0..MaxFaults
    BY <1>0, <1>a, <1>4 DEF Leave
  <2> QED
    BY <1>4, <2>2, <2>3, <2>4 DEF Leave, TypeOK
<1>5. ASSUME NEW t \in Trainer, Abort(t) PROVE TypeOK'
  <2>1. trainer[t].run \in Run
    BY DEF TypeOK, TrainerState
  <2>2. faults' \in 0..MaxFaults
    BY <1>0, <1>a, <1>5 DEF Abort
  <2>3. trainer' \in [Trainer -> TrainerState]
    BY <1>5, IdleType DEF Abort, TypeOK
  <2> QED
    BY <1>5, <2>1, <2>2, <2>3 DEF Abort, TypeOK
<1>6. ASSUME NEW s \in Server, Start(s) PROVE TypeOK'
  <2>1. PICK k \in Service :
          server' = [server EXCEPT ![s] =
            [Down EXCEPT !.service = k, !.at = "loading", !.todo = Needed(k),
                         !.raced = \E t \in Trainer : Training(t)]]
    BY <1>6 DEF Start
  <2> DEFINE b == \E t \in Trainer : Training(t)
             y == [Down EXCEPT !.service = k, !.at = "loading", !.todo = Needed(k), !.raced = b]
  <2>2. b \in BOOLEAN
    OBVIOUS
  <2>3. server' = [server EXCEPT ![s] = y]
    BY <2>1
  <2> HIDE DEF b
  <2>4. y \in ServerState
    BY <2>2, NeededType, DownType DEF ServerState
  <2> HIDE DEF y
  <2> QED
    BY <1>6, <2>3, <2>4 DEF Start, TypeOK
<1>7. ASSUME NEW s \in Server, Load(s) PROVE TypeOK'
  <2>1. PICK f \in server[s].todo :
          server' = [server EXCEPT ![s] =
            [server[s] EXCEPT !.has[f] = Loaded(f, file[f]), !.todo = @ \ {f},
                      !.at = IF f = "meta" /\ file[f].form = "torn" THEN "failed"
                             ELSE IF server[s].todo = {f} THEN "up" ELSE "loading"]]
    BY <1>7 DEF Load
  <2>2. server[s] \in ServerState /\ f \in File
    BY DEF TypeOK, ServerState
  <2>3. Loaded(f, file[f]) \in Object
    BY <2>2, LoadedType DEF TypeOK
  <2>4. \A x \in Object, a \in {"failed", "up", "loading"} :
          [server[s] EXCEPT !.has[f] = x, !.todo = @ \ {f}, !.at = a] \in ServerState
    <3> SUFFICES ASSUME NEW x \in Object, NEW a \in {"failed", "up", "loading"}
                 PROVE  [server[s] EXCEPT !.has[f] = x, !.todo = @ \ {f}, !.at = a] \in ServerState
      OBVIOUS
    <3> DEFINE h == [server[s].has EXCEPT ![f] = x]
    <3>1. h \in [File -> Object]
      BY <2>2 DEF ServerState
    <3>2. [server[s] EXCEPT !.has[f] = x, !.todo = @ \ {f}, !.at = a]
            = [server[s] EXCEPT !.has = h, !.todo = @ \ {f}, !.at = a]
      BY <2>2 DEF ServerState
    <3> HIDE DEF h
    <3>3. [server[s] EXCEPT !.has = h, !.todo = @ \ {f}, !.at = a] \in ServerState
      BY <2>2, <3>1 DEF ServerState
    <3> QED
      BY <3>2, <3>3
  <2> DEFINE a == IF f = "meta" /\ file[f].form = "torn" THEN "failed"
                  ELSE IF server[s].todo = {f} THEN "up" ELSE "loading"
             x == Loaded(f, file[f])
             y == [server[s] EXCEPT !.has[f] = x, !.todo = @ \ {f}, !.at = a]
  <2>5. server' = [server EXCEPT ![s] = y]
    BY <2>1
  <2>6. a \in {"failed", "up", "loading"}
    OBVIOUS
  <2>7. x \in Object
    BY <2>3
  <2> HIDE DEF a, x
  <2>8. y \in ServerState
    BY <2>4, <2>6, <2>7
  <2> HIDE DEF y
  <2> QED
    BY <1>7, <2>5, <2>8 DEF Load, TypeOK
<1>8. CASE UNCHANGED vars
  BY <1>8 DEF vars, TypeOK
<1> QED
  BY <1>1, <1>2, <1>3, <1>4, <1>5, <1>6, <1>7, <1>8 DEF Next

\* Every variable keeps its type (what train_pipeline and load_models keep).
THEOREM TypeCorrect == Spec => []TypeOK
  BY TypeInit, TypeStep, PTL DEF Spec

-----------------------------------------------------------------------------
(* Trainings and the directory.                                            *)

Runs == 1..runs

\* Of a training: what it has left to do, and that its run is in `overlap` if it
\* wrote a file another was writing.
TrainerInv ==
  \A t \in Trainer :
    /\ trainer[t].run <= runs
    /\ ~Training(t) => trainer[t] = Idle
    /\ trainer[t].mixed => trainer[t].run \in overlap
    /\ Training(t) /\ trainer[t].script = "classifiers" =>
         trainer[t].run \in partial /\ trainer[t].todo \subseteq {"xgboost", "lightgbm", "tft"}

\* Trainings that run at the same time, or while a later one begins, overlap.
PairInv ==
  /\ \A t, u \in Trainer : t # u /\ Training(t) /\ Training(u) => trainer[t].run \in overlap
  /\ \A t \in Trainer, r \in Runs : Training(t) /\ trainer[t].run < r => r \in overlap

\* A file nobody can read is being written, or its training did not end well.
FormInv ==
  \A f \in File :
    /\ file[f].by <= runs
    /\ file[f].form = "raw" => file[f].by \in partial
    /\ file[f].form = "torn" =>
         \/ file[f].by \in partial \cup overlap
         \/ \E t \in Trainer : trainer[t].run = file[f].by /\ f \in trainer[t].todo

\* A training that ended well and was alone has saved every file: none is older.
CompleteInv ==
  \A r \in Runs :
    \/ r \in partial \cup overlap
    \/ \A f \in File :
         \/ file[f].by >= r
         \/ \E t \in Trainer : trainer[t].run = r /\ f \in trainer[t].todo

\* The calibrator is never behind the thresholds while trainings do not overlap.
OrderInv ==
  overlap = {} =>
    /\ \A t \in Trainer :
         Training(t) => /\ trainer[t].run = runs
                        /\ trainer[t].script = "pipeline" /\ "calibrator" \notin trainer[t].todo =>
                             file["calibrator"].by = trainer[t].run
    /\ file["thresholds"].by <= file["calibrator"].by

DirInv == TrainerInv /\ PairInv /\ FormInv /\ CompleteInv /\ OrderInv

LEMMA Names == "calibrator" \in File /\ "thresholds" \in File /\ "xgboost" \in File
  BY DEF File

\* What a step of training t that goes on may do.
TrainStep(t) ==
  /\ Training(t) /\ runs' = runs /\ server' = server /\ overlap' = overlap
  /\ partial \subseteq partial'
  /\ \A u \in Trainer : u # t =>
       /\ trainer'[u].run = trainer[u].run /\ trainer'[u].todo = trainer[u].todo
       /\ trainer'[u].script = trainer[u].script
       /\ trainer[u] = Idle => trainer'[u] = Idle
       /\ trainer'[u].mixed => trainer[u].run \in overlap
  /\ \/ trainer'[t] = Idle
     \/ /\ trainer'[t].run = trainer[t].run /\ trainer'[t].todo \subseteq trainer[t].todo
        /\ trainer'[t].script = trainer[t].script
        /\ trainer'[t].mixed => trainer[t].run \in overlap
        /\ "calibrator" \in trainer[t].todo /\ "calibrator" \notin trainer'[t].todo =>
             file'["calibrator"].by = trainer[t].run
  /\ \A f \in File :
       \/ /\ file'[f] = file[f]
          /\ f \in trainer[t].todo /\ f \notin trainer'[t].todo => trainer[t].run \in partial'
       \/ /\ f \in trainer[t].todo /\ file'[f].by = trainer[t].run
          /\ f = "thresholds" => "calibrator" \notin trainer[t].todo
          /\ file'[f].form = "torn" => f \in trainer'[t].todo \/ trainer[t].run \in overlap
          /\ file'[f].form = "raw" => trainer[t].script = "classifiers"

\* Thresholds come first only when the calibrator is saved.
LEMMA SaveOrder ==
  ASSUME NEW S, First("thresholds", S, SaveRank) PROVE "calibrator" \notin S
<1>1. SaveRank["thresholds"] = 6 /\ SaveRank["calibrator"] = 5
  BY DEF SaveRank
<1> QED
  BY <1>1 DEF First

\* A training that is through with f is idle or goes on without f.
LEMMA ThroughEffect ==
  ASSUME TypeOK, NEW t \in Trainer, NEW f, NEW bad \in BOOLEAN, Through(t, f, bad)
  PROVE  /\ \A u \in Trainer : u # t => trainer'[u] = trainer[u]
         /\ \/ trainer[t].todo = {f} /\ trainer'[t] = Idle
            \/ /\ trainer'[t].run = trainer[t].run /\ trainer'[t].todo = trainer[t].todo \ {f}
               /\ trainer'[t].script = trainer[t].script /\ trainer'[t].mixed = FALSE
<1>1. trainer[t] \in TrainerState
  BY DEF TypeOK
<1>2. trainer \in [Trainer -> TrainerState]
  BY DEF TypeOK
<1>3. CASE trainer[t].todo = {f}
  BY <1>2, <1>3 DEF Through
<1>4. CASE trainer[t].todo # {f}
  <2>1. trainer'[t] = [trainer[t] EXCEPT !.todo = @ \ {f}, !.writing = FALSE, !.mixed = FALSE,
                                         !.unfit = @ \/ bad]
    BY <1>2, <1>4 DEF Through
  <2>2. \A u \in Trainer : u # t => trainer'[u] = trainer[u]
    BY <1>2 DEF Through
  <2> QED
    BY <1>1, <2>1, <2>2 DEF TrainerState
<1> QED
  BY <1>3, <1>4

LEMMA IdleFields == Idle.run = 0 /\ Idle.todo = {} /\ Idle.mixed = FALSE /\ Idle.writing = FALSE
  BY DEF Idle

LEMMA OpenMoves ==
  ASSUME TypeOK, DirInv, NEW t \in Trainer, Open(t) PROVE TrainStep(t)
<1>1. PICK f \in trainer[t].todo :
        /\ First(f, trainer[t].todo, SaveRank)
        /\ file' = [file EXCEPT ![f] = [by |-> trainer[t].run, form |-> "torn"]]
        /\ trainer' = [u \in Trainer |->
             IF u = t THEN [trainer[t] EXCEPT !.writing = TRUE, !.mixed = \E v \in Trainer : Writes(v, f)]
             ELSE [trainer[u] EXCEPT !.mixed = @ \/ Writes(u, f)]]
  BY DEF Open
<1>2. ~trainer[t].writing /\ UNCHANGED <<server, runs, partial, overlap>>
  BY DEF Open
<1>3. \A u \in Trainer : trainer[u] \in TrainerState
  BY DEF TypeOK
<1>4. f \in File /\ Training(t)
  BY <1>1, <1>3, IdleFields DEF TrainerState, DirInv, TrainerInv
<1>5. \A u \in Trainer : Writes(u, f) => trainer[u].writing /\ Training(u)
  BY IdleFields DEF Writes, DirInv, TrainerInv
<1>6. \A u \in Trainer : u # t /\ Writes(u, f) => trainer[u].run \in overlap /\ trainer[t].run \in overlap
  BY <1>4, <1>5 DEF DirInv, PairInv
<1>7. ASSUME NEW u \in Trainer, u # t
      PROVE  /\ trainer'[u].run = trainer[u].run /\ trainer'[u].todo = trainer[u].todo
             /\ trainer'[u].script = trainer[u].script
             /\ trainer[u] = Idle => trainer'[u] = Idle
             /\ trainer'[u].mixed => trainer[u].run \in overlap
  <2> DEFINE b == trainer[u].mixed \/ Writes(u, f)
  <2>1. trainer'[u] = [trainer[u] EXCEPT !.mixed = b]
    BY <1>1, <1>7
  <2>2. b => trainer[u].run \in overlap
    BY <1>6, <1>7 DEF DirInv, TrainerInv
  <2>3. trainer[u] = Idle => b = FALSE
    BY <1>5, IdleFields
  <2> HIDE DEF b
  <2>4. ASSUME trainer[u] = Idle PROVE trainer'[u] = Idle
    <3>1. trainer'[u] = [Idle EXCEPT !.mixed = FALSE]
      BY <2>1, <2>3, <2>4
    <3> QED
      BY <3>1 DEF Idle
  <2> QED
    BY <1>3, <2>1, <2>2, <2>4 DEF TrainerState
<1>8. /\ trainer'[t].run = trainer[t].run /\ trainer'[t].todo = trainer[t].todo
      /\ trainer'[t].script = trainer[t].script
      /\ trainer'[t].mixed => trainer[t].run \in overlap
  <2> DEFINE b == \E v \in Trainer : Writes(v, f)
  <2>1. trainer'[t] = [trainer[t] EXCEPT !.writing = TRUE, !.mixed = b]
    BY <1>1
  <2>2. b => trainer[t].run \in overlap
    BY <1>2, <1>5, <1>6
  <2> HIDE DEF b
  <2> QED
    BY <1>3, <2>1, <2>2 DEF TrainerState
<1>9. /\ file'[f] = [by |-> trainer[t].run, form |-> "torn"]
      /\ \A g \in File : g # f => file'[g] = file[g]
  BY <1>1, <1>4 DEF TypeOK
<1>10. f = "thresholds" => "calibrator" \notin trainer[t].todo
  BY <1>1, SaveOrder
<1>11. \A g \in File :
         \/ /\ file'[g] = file[g]
            /\ g \in trainer[t].todo /\ g \notin trainer'[t].todo => trainer[t].run \in partial'
         \/ /\ g \in trainer[t].todo /\ file'[g].by = trainer[t].run
            /\ g = "thresholds" => "calibrator" \notin trainer[t].todo
            /\ file'[g].form = "torn" => g \in trainer'[t].todo \/ trainer[t].run \in overlap
            /\ file'[g].form = "raw" => trainer[t].script = "classifiers"
  <2> SUFFICES ASSUME NEW g \in File
               PROVE  \/ /\ file'[g] = file[g]
                         /\ g \in trainer[t].todo /\ g \notin trainer'[t].todo => trainer[t].run \in partial'
                      \/ /\ g \in trainer[t].todo /\ file'[g].by = trainer[t].run
                         /\ g = "thresholds" => "calibrator" \notin trainer[t].todo
                         /\ file'[g].form = "torn" => g \in trainer'[t].todo \/ trainer[t].run \in overlap
                         /\ file'[g].form = "raw" => trainer[t].script = "classifiers"
    OBVIOUS
  <2>1. CASE g = f
    BY <1>8, <1>9, <1>10, <2>1
  <2>2. CASE g # f
    BY <1>8, <1>9, <2>2
  <2> QED
    BY <2>1, <2>2
<1> QED
  BY <1>2, <1>4, <1>7, <1>8, <1>11 DEF TrainStep

LEMMA SaveMoves ==
  ASSUME TypeOK, DirInv, NEW t \in Trainer, Save(t) PROVE TrainStep(t)
<1>1. PICK f \in trainer[t].todo :
        /\ Writes(t, f)
        /\ \/ file' = [file EXCEPT ![f] = Written(t, f)]
           \/ /\ trainer[t].mixed
              /\ file' = [file EXCEPT ![f] = [by |-> trainer[t].run, form |-> "torn"]]
        /\ Through(t, f, FALSE)
  BY DEF Save
<1>2. UNCHANGED <<server, runs, partial, overlap>>
  BY DEF Save
<1>3. \A u \in Trainer : trainer[u] \in TrainerState
  BY DEF TypeOK
<1>4. f \in File /\ Training(t)
  BY <1>1, <1>3, IdleFields DEF TrainerState, DirInv, TrainerInv
<1>5. /\ \A u \in Trainer : u # t => trainer'[u] = trainer[u]
      /\ \/ trainer[t].todo = {f} /\ trainer'[t] = Idle
         \/ /\ trainer'[t].run = trainer[t].run /\ trainer'[t].todo = trainer[t].todo \ {f}
            /\ trainer'[t].script = trainer[t].script /\ trainer'[t].mixed = FALSE
  BY <1>1, ThroughEffect
<1>6. trainer[t].mixed => trainer[t].run \in overlap
  BY DEF DirInv, TrainerInv
<1>7. /\ file'[f].by = trainer[t].run
      /\ file'[f].form = "torn" => trainer[t].run \in overlap
      /\ file'[f].form = "raw" => trainer[t].script = "classifiers"
      /\ \A g \in File : g # f => file'[g] = file[g]
  <2>1. file \in [File -> Content]
    BY DEF TypeOK
  <2>2. CASE file' = [file EXCEPT ![f] = Written(t, f)]
    <3>1. file'[f] = Written(t, f) /\ \A g \in File : g # f => file'[g] = file[g]
      BY <1>4, <2>1, <2>2
    <3>2. /\ Written(t, f).by = trainer[t].run /\ Written(t, f).form # "torn"
          /\ Written(t, f).form = "raw" => trainer[t].script = "classifiers"
      BY DEF Written
    <3> QED
      BY <3>1, <3>2
  <2>3. CASE /\ trainer[t].mixed
             /\ file' = [file EXCEPT ![f] = [by |-> trainer[t].run, form |-> "torn"]]
    BY <1>4, <1>6, <2>1, <2>3
  <2> QED
    BY <1>1, <2>2, <2>3
<1>8. f = "thresholds" => "calibrator" \notin trainer[t].todo
  BY <1>1, SaveOrder DEF Writes
<1>9. \A g \in File :
         \/ /\ file'[g] = file[g]
            /\ g \in trainer[t].todo /\ g \notin trainer'[t].todo => trainer[t].run \in partial'
         \/ /\ g \in trainer[t].todo /\ file'[g].by = trainer[t].run
            /\ g = "thresholds" => "calibrator" \notin trainer[t].todo
            /\ file'[g].form = "torn" => g \in trainer'[t].todo \/ trainer[t].run \in overlap
            /\ file'[g].form = "raw" => trainer[t].script = "classifiers"
  <2> SUFFICES ASSUME NEW g \in File
               PROVE  \/ /\ file'[g] = file[g]
                         /\ g \in trainer[t].todo /\ g \notin trainer'[t].todo => trainer[t].run \in partial'
                      \/ /\ g \in trainer[t].todo /\ file'[g].by = trainer[t].run
                         /\ g = "thresholds" => "calibrator" \notin trainer[t].todo
                         /\ file'[g].form = "torn" => g \in trainer'[t].todo \/ trainer[t].run \in overlap
                         /\ file'[g].form = "raw" => trainer[t].script = "classifiers"
    OBVIOUS
  <2>1. CASE g = f
    BY <1>1, <1>7, <1>8, <2>1
  <2>2. CASE g # f
    <3>1. file'[g] = file[g]
      BY <1>7, <2>2
    <3>2. g \in trainer[t].todo => g \in trainer'[t].todo
      BY <1>5, <2>2
    <3> QED
      BY <3>1, <3>2
  <2> QED
    BY <2>1, <2>2
<1>10. \A u \in Trainer : u # t =>
         /\ trainer'[u].run = trainer[u].run /\ trainer'[u].todo = trainer[u].todo
         /\ trainer'[u].script = trainer[u].script
         /\ trainer[u] = Idle => trainer'[u] = Idle
         /\ trainer'[u].mixed => trainer[u].run \in overlap
  BY <1>5 DEF DirInv, TrainerInv
<1>11. \/ trainer'[t] = Idle
       \/ /\ trainer'[t].run = trainer[t].run /\ trainer'[t].todo \subseteq trainer[t].todo
          /\ trainer'[t].script = trainer[t].script
          /\ trainer'[t].mixed => trainer[t].run \in overlap
          /\ "calibrator" \in trainer[t].todo /\ "calibrator" \notin trainer'[t].todo =>
               file'["calibrator"].by = trainer[t].run
  BY <1>5, <1>7
<1> QED
  BY <1>2, <1>4, <1>9, <1>10, <1>11 DEF TrainStep

LEMMA LeaveMoves ==
  ASSUME TypeOK, DirInv, NEW t \in Trainer, Leave(t) PROVE TrainStep(t)
<1>1. PICK f \in trainer[t].todo, bad \in BOOLEAN : Through(t, f, bad) /\ f # "calibrator"
  BY DEF Leave, NonFatal
<1>2. UNCHANGED <<file, server, runs, overlap>> /\ partial' = partial \cup {trainer[t].run}
  BY DEF Leave
<1>3. Training(t)
  BY <1>1, IdleFields DEF DirInv, TrainerInv
<1>4. /\ \A u \in Trainer : u # t => trainer'[u] = trainer[u]
      /\ \/ trainer[t].todo = {f} /\ trainer'[t] = Idle
         \/ /\ trainer'[t].run = trainer[t].run /\ trainer'[t].todo = trainer[t].todo \ {f}
            /\ trainer'[t].script = trainer[t].script /\ trainer'[t].mixed = FALSE
  BY <1>1, ThroughEffect
<1>5. \A u \in Trainer : u # t =>
         /\ trainer'[u].run = trainer[u].run /\ trainer'[u].todo = trainer[u].todo
         /\ trainer'[u].script = trainer[u].script
         /\ trainer[u] = Idle => trainer'[u] = Idle
         /\ trainer'[u].mixed => trainer[u].run \in overlap
  BY <1>4 DEF DirInv, TrainerInv
<1> QED
  BY <1>1, <1>2, <1>3, <1>4, <1>5 DEF TrainStep

LEMMA AbortMoves ==
  ASSUME TypeOK, DirInv, NEW t \in Trainer, Abort(t) PROVE TrainStep(t)
<1>1. UNCHANGED <<file, server, runs, overlap>> /\ partial' = partial \cup {trainer[t].run}
      /\ trainer' = [trainer EXCEPT ![t] = Idle] /\ Training(t)
  BY DEF Abort
<1>2. trainer'[t] = Idle /\ \A u \in Trainer : u # t => trainer'[u] = trainer[u]
  BY <1>1 DEF TypeOK
<1>3. \A u \in Trainer : u # t =>
         /\ trainer'[u].run = trainer[u].run /\ trainer'[u].todo = trainer[u].todo
         /\ trainer'[u].script = trainer[u].script
         /\ trainer[u] = Idle => trainer'[u] = Idle
         /\ trainer'[u].mixed => trainer[u].run \in overlap
  BY <1>2 DEF DirInv, TrainerInv
<1> QED
  BY <1>1, <1>2, <1>3 DEF TrainStep

\* A training that is under way is the only one, unless trainings overlap.
LEMMA Alone ==
  ASSUME TypeOK, DirInv, overlap = {}, NEW t \in Trainer, Training(t)
  PROVE  trainer[t].run = runs /\ \A u \in Trainer : Training(u) => u = t
<1>1. trainer[t].run \in Nat /\ runs \in Nat /\ trainer[t].run <= runs /\ trainer[t].run # 0
  BY FilesAssumption DEF TypeOK, TrainerState, Run, DirInv, TrainerInv, Training
<1>2. ~(trainer[t].run < runs)
  <2>1. trainer[t].run < runs => runs \in Runs
    BY <1>1 DEF Runs
  <2> QED
    BY <2>1 DEF DirInv, PairInv
<1>3. trainer[t].run = runs
  BY <1>1, <1>2
<1> QED
  BY <1>3 DEF DirInv, PairInv

\* Training t is through with what is no longer in its list, or idle.
LEMMA StepTrainer ==
  ASSUME TypeOK, DirInv, NEW t \in Trainer, TrainStep(t) PROVE TrainerInv'
<1> SUFFICES ASSUME NEW u \in Trainer
             PROVE  /\ trainer'[u].run <= runs
                    /\ trainer'[u].run = 0 => trainer'[u] = Idle
                    /\ trainer'[u].mixed => trainer'[u].run \in overlap
                    /\ trainer'[u].run # 0 /\ trainer'[u].script = "classifiers" =>
                         trainer'[u].run \in partial' /\ trainer'[u].todo \subseteq {"xgboost", "lightgbm", "tft"}
  BY DEF TrainerInv, TrainStep, Training
<1>1. /\ trainer[u].run <= runs /\ trainer[t].run <= runs /\ runs \in Nat
      /\ trainer[u].run = 0 => trainer[u] = Idle
      /\ trainer[t].run # 0
      /\ trainer[u].run # 0 /\ trainer[u].script = "classifiers" =>
           trainer[u].run \in partial /\ trainer[u].todo \subseteq {"xgboost", "lightgbm", "tft"}
  BY FilesAssumption DEF DirInv, TrainerInv, Training, TrainStep, TypeOK, Run
<1>2. partial \subseteq partial'
  BY DEF TrainStep
<1>3. CASE u # t
  <2>1. /\ trainer'[u].run = trainer[u].run /\ trainer'[u].todo = trainer[u].todo
        /\ trainer'[u].script = trainer[u].script
        /\ trainer[u] = Idle => trainer'[u] = Idle
        /\ trainer'[u].mixed => trainer[u].run \in overlap
    BY <1>3 DEF TrainStep
  <2> QED
    BY <1>1, <1>2, <2>1
<1>4. CASE u = t
  <2>1. \/ trainer'[t] = Idle
        \/ /\ trainer'[t].run = trainer[t].run /\ trainer'[t].todo \subseteq trainer[t].todo
           /\ trainer'[t].script = trainer[t].script
           /\ trainer'[t].mixed => trainer[t].run \in overlap
    BY DEF TrainStep
  <2>2. CASE trainer'[t] = Idle
    BY <1>1, <1>4, <2>2, IdleFields
  <2>3. CASE /\ trainer'[t].run = trainer[t].run /\ trainer'[t].todo \subseteq trainer[t].todo
             /\ trainer'[t].script = trainer[t].script
             /\ trainer'[t].mixed => trainer[t].run \in overlap
    BY <1>1, <1>2, <1>4, <2>3
  <2> QED
    BY <2>1, <2>2, <2>3
<1> QED
  BY <1>3, <1>4

\* Who trains after a step trained before it, as the same run.
LEMMA StepRuns ==
  ASSUME NEW t \in Trainer, TrainStep(t)
  PROVE  \A u \in Trainer : trainer'[u].run # 0 =>
           trainer'[u].run = trainer[u].run /\ Training(u) /\ trainer'[u].todo \subseteq trainer[u].todo
                                            /\ trainer'[u].script = trainer[u].script
<1> SUFFICES ASSUME NEW u \in Trainer, trainer'[u].run # 0
             PROVE  trainer'[u].run = trainer[u].run /\ Training(u) /\ trainer'[u].todo \subseteq trainer[u].todo
                                            /\ trainer'[u].script = trainer[u].script
  OBVIOUS
<1>1. trainer'[t] # Idle => trainer'[t].run = trainer[t].run /\ trainer'[t].todo \subseteq trainer[t].todo
                            /\ trainer'[t].script = trainer[t].script
  BY DEF TrainStep
<1>2. CASE u = t
  BY <1>1, <1>2, IdleFields DEF Training
<1>3. CASE u # t
  BY <1>3 DEF TrainStep, Training
<1> QED
  BY <1>2, <1>3

LEMMA StepPair ==
  ASSUME TypeOK, DirInv, NEW t \in Trainer, TrainStep(t) PROVE PairInv'
<1>1. runs' = runs /\ overlap' = overlap
  BY DEF TrainStep
<1>2. \A u, v \in Trainer : u # v /\ trainer'[u].run # 0 /\ trainer'[v].run # 0 => trainer'[u].run \in overlap
  BY StepRuns DEF DirInv, PairInv
<1>3. \A u \in Trainer, r \in Runs : trainer'[u].run # 0 /\ trainer'[u].run < r => r \in overlap
  BY StepRuns DEF DirInv, PairInv
<1> QED
  BY <1>1, <1>2, <1>3 DEF PairInv, Training, Runs

LEMMA StepForm ==
  ASSUME TypeOK, DirInv, NEW t \in Trainer, TrainStep(t) PROVE FormInv'
<1> SUFFICES ASSUME NEW f \in File
             PROVE  /\ file'[f].by <= runs
                    /\ file'[f].form = "raw" => file'[f].by \in partial'
                    /\ file'[f].form = "torn" =>
                         \/ file'[f].by \in partial' \cup overlap
                         \/ \E u \in Trainer : trainer'[u].run = file'[f].by /\ f \in trainer'[u].todo
  BY DEF FormInv, TrainStep
<1>1. /\ file[f].by <= runs
      /\ file[f].form = "raw" => file[f].by \in partial
      /\ file[f].form = "torn" =>
           \/ file[f].by \in partial \cup overlap
           \/ \E u \in Trainer : trainer[u].run = file[f].by /\ f \in trainer[u].todo
  BY DEF DirInv, FormInv
<1>2. trainer[t].run <= runs /\ (trainer[t].script = "classifiers" => trainer[t].run \in partial)
  BY DEF DirInv, TrainerInv, TrainStep
<1>3. /\ partial \subseteq partial'
      /\ \A u \in Trainer : u # t => trainer'[u].run = trainer[u].run /\ trainer'[u].todo = trainer[u].todo
      /\ \A g : g \in trainer'[t].todo => trainer'[t].run = trainer[t].run
  BY IdleFields DEF TrainStep
<1>4. CASE /\ file'[f] = file[f]
           /\ f \in trainer[t].todo /\ f \notin trainer'[t].todo => trainer[t].run \in partial'
  <2>1. ASSUME file[f].form = "torn", NEW u \in Trainer, trainer[u].run = file[f].by, f \in trainer[u].todo
        PROVE  \/ file'[f].by \in partial' \cup overlap
               \/ \E v \in Trainer : trainer'[v].run = file'[f].by /\ f \in trainer'[v].todo
    <3>1. CASE u = t
      BY <1>3, <1>4, <2>1, <3>1
    <3>2. CASE u # t
      BY <1>3, <1>4, <2>1, <3>2
    <3> QED
      BY <3>1, <3>2
  <2> QED
    BY <1>1, <1>3, <1>4, <2>1
<1>5. CASE /\ f \in trainer[t].todo /\ file'[f].by = trainer[t].run
           /\ file'[f].form = "torn" => f \in trainer'[t].todo \/ trainer[t].run \in overlap
           /\ file'[f].form = "raw" => trainer[t].script = "classifiers"
  BY <1>2, <1>3, <1>5
<1> QED
  BY <1>4, <1>5 DEF TrainStep

LEMMA StepComplete ==
  ASSUME TypeOK, DirInv, NEW t \in Trainer, TrainStep(t) PROVE CompleteInv'
<1> SUFFICES ASSUME NEW r \in Runs, r \notin partial' \cup overlap, NEW f \in File
             PROVE  \/ file'[f].by >= r
                    \/ \E u \in Trainer : trainer'[u].run = r /\ f \in trainer'[u].todo
  BY DEF CompleteInv, TrainStep, Runs
<1>1. /\ partial \subseteq partial'
      /\ \A u \in Trainer : u # t => trainer'[u].run = trainer[u].run /\ trainer'[u].todo = trainer[u].todo
      /\ \A g : g \in trainer'[t].todo => trainer'[t].run = trainer[t].run
  BY IdleFields DEF TrainStep
<1>2. \/ file[f].by >= r
      \/ \E u \in Trainer : trainer[u].run = r /\ f \in trainer[u].todo
  BY <1>1 DEF DirInv, CompleteInv
<1>3. r \in Nat /\ trainer[t].run \in Nat /\ ~(trainer[t].run < r)
  <2>1. trainer[t].run \in Nat /\ runs \in Nat
    BY FilesAssumption DEF TypeOK, TrainerState, Run
  <2>2. ~(trainer[t].run < r)
    BY DEF DirInv, PairInv, TrainStep
  <2> QED
    BY <2>1, <2>2 DEF Runs
<1>4. CASE /\ file'[f] = file[f]
           /\ f \in trainer[t].todo /\ f \notin trainer'[t].todo => trainer[t].run \in partial'
  <2>1. ASSUME NEW u \in Trainer, trainer[u].run = r, f \in trainer[u].todo
        PROVE  trainer'[u].run = r /\ f \in trainer'[u].todo
    <3>1. CASE u = t
      BY <1>1, <1>4, <2>1, <3>1
    <3>2. CASE u # t
      BY <1>1, <2>1, <3>2
    <3> QED
      BY <3>1, <3>2
  <2> QED
    BY <1>2, <1>4, <2>1
<1>5. CASE file'[f].by = trainer[t].run
  BY <1>3, <1>5
<1> QED
  BY <1>4, <1>5 DEF TrainStep

LEMMA StepOrder ==
  ASSUME TypeOK, DirInv, NEW t \in Trainer, TrainStep(t) PROVE OrderInv'
<1> SUFFICES ASSUME overlap = {}
             PROVE  /\ \A u \in Trainer : trainer'[u].run # 0 =>
                         /\ trainer'[u].run = runs
                         /\ trainer'[u].script = "pipeline" /\ "calibrator" \notin trainer'[u].todo =>
                              file'["calibrator"].by = trainer'[u].run
                    /\ file'["thresholds"].by <= file'["calibrator"].by
  BY DEF OrderInv, TrainStep, Training
<1>1. Training(t) /\ trainer[t].run = runs /\ \A u \in Trainer : Training(u) => u = t
  BY Alone DEF TrainStep
<1>2. /\ trainer[t].script = "pipeline" /\ "calibrator" \notin trainer[t].todo =>
           file["calibrator"].by = trainer[t].run
      /\ file["thresholds"].by <= file["calibrator"].by
  BY <1>1 DEF DirInv, OrderInv
<1>3. trainer[t].script = "classifiers" => "thresholds" \notin trainer[t].todo
  BY <1>1 DEF DirInv, TrainerInv
<1>4. trainer[t].script \in Script
  BY DEF TypeOK, TrainerState
<1>5. /\ file["thresholds"].by \in Nat /\ file["calibrator"].by \in Nat /\ runs \in Nat
      /\ file["thresholds"].by <= runs /\ file["calibrator"].by <= runs
  BY Names, FilesAssumption DEF TypeOK, Content, Run, DirInv, FormInv
<1>6. \/ file'["calibrator"] = file["calibrator"]
      \/ "calibrator" \in trainer[t].todo /\ file'["calibrator"].by = trainer[t].run
  BY Names DEF TrainStep
<1>7. \/ file'["thresholds"] = file["thresholds"]
      \/ /\ "thresholds" \in trainer[t].todo /\ file'["thresholds"].by = trainer[t].run
         /\ "calibrator" \notin trainer[t].todo
  BY Names DEF TrainStep
<1>8. file'["thresholds"].by <= file'["calibrator"].by
  <2>1. CASE file'["thresholds"] = file["thresholds"]
    BY <1>1, <1>2, <1>5, <1>6, <2>1
  <2>2. CASE /\ "thresholds" \in trainer[t].todo /\ file'["thresholds"].by = trainer[t].run
             /\ "calibrator" \notin trainer[t].todo
    <3>1. trainer[t].script = "pipeline"
      BY <1>3, <1>4, <2>2 DEF Script
    <3> QED
      BY <1>1, <1>2, <1>5, <1>6, <2>2, <3>1
  <2> QED
    BY <1>7, <2>1, <2>2
<1>9. ASSUME NEW u \in Trainer, trainer'[u].run # 0
      PROVE  /\ trainer'[u].run = runs
             /\ trainer'[u].script = "pipeline" /\ "calibrator" \notin trainer'[u].todo =>
                  file'["calibrator"].by = trainer'[u].run
  <2>1. u = t /\ trainer'[t].run = trainer[t].run /\ trainer'[t].script = trainer[t].script
    BY <1>1, <1>9, StepRuns
  <2>2. trainer'[t] # Idle
    BY <1>9, <2>1, IdleFields
  <2>3. "calibrator" \in trainer[t].todo /\ "calibrator" \notin trainer'[t].todo =>
          file'["calibrator"].by = trainer[t].run
    BY <2>2 DEF TrainStep
  <2> QED
    BY <1>1, <1>2, <1>6, <2>1, <2>3
<1> QED
  BY <1>8, <1>9

LEMMA StepKeeps ==
  ASSUME TypeOK, DirInv, NEW t \in Trainer, TrainStep(t) PROVE DirInv'
  BY StepTrainer, StepPair, StepForm, StepComplete, StepOrder DEF DirInv

\* Begin makes t a training of a new run, and marks the others' runs.
LEMMA BeginMoves ==
  ASSUME TypeOK, DirInv, NEW t \in Trainer, Begin(t)
  PROVE  /\ ~Training(t) /\ runs' = runs + 1 /\ file' = file /\ runs \in Nat
         /\ \A u \in Trainer : u # t => trainer'[u] = trainer[u]
         /\ trainer'[t].run = runs + 1 /\ ~trainer'[t].mixed
         /\ \/ partial' = partial /\ trainer'[t].script = "pipeline" /\ trainer'[t].todo = File
            \/ /\ partial' = partial \cup {runs + 1}
               /\ trainer'[t].todo \subseteq {"xgboost", "lightgbm", "tft"}
         /\ overlap \subseteq overlap'
         /\ \A u \in Trainer : Training(u) => trainer[u].run \in overlap' /\ runs + 1 \in overlap'
<1>1. PICK sc \in Script :
        /\ trainer' = [trainer EXCEPT ![t] =
             [run |-> runs + 1, script |-> sc, todo |-> Saves(sc),
              writing |-> FALSE, mixed |-> FALSE, unfit |-> FALSE]]
        /\ partial' = IF sc = "pipeline" THEN partial ELSE partial \cup {runs + 1}
  BY DEF Begin
<1>2. trainer \in [Trainer -> TrainerState] /\ runs \in Nat
  BY FilesAssumption DEF TypeOK, Run
<1>3. /\ trainer'[t] = [run |-> runs + 1, script |-> sc, todo |-> Saves(sc),
                        writing |-> FALSE, mixed |-> FALSE, unfit |-> FALSE]
      /\ \A u \in Trainer : u # t => trainer'[u] = trainer[u]
  BY <1>1, <1>2
<1>4. \/ partial' = partial /\ trainer'[t].script = "pipeline" /\ trainer'[t].todo = File
      \/ /\ partial' = partial \cup {runs + 1}
         /\ trainer'[t].todo \subseteq {"xgboost", "lightgbm", "tft"}
  BY <1>1, <1>3 DEF Saves
<1>5. /\ overlap \subseteq overlap'
      /\ \A u \in Trainer : Training(u) => trainer[u].run \in overlap' /\ runs + 1 \in overlap'
  <2> DEFINE others == {trainer[u].run : u \in {v \in Trainer : Training(v)}}
  <2>1. overlap' = IF others = {} THEN overlap ELSE overlap \cup others \cup {runs + 1}
    BY DEF Begin
  <2>2. \A u \in Trainer : Training(u) => trainer[u].run \in others
    OBVIOUS
  <2> HIDE DEF others
  <2>3. CASE others = {}
    BY <2>1, <2>2, <2>3
  <2>4. CASE others # {}
    <3>1. overlap' = overlap \cup others \cup {runs + 1}
      BY <2>1, <2>4
    <3> QED
      BY <2>2, <3>1
  <2> QED
    BY <2>3, <2>4
<1>6. ~Training(t) /\ runs' = runs + 1 /\ file' = file
  BY DEF Begin
<1>7. trainer'[t].run = runs + 1 /\ ~trainer'[t].mixed
  BY <1>3
<1> QED
  BY <1>2, <1>3, <1>4, <1>5, <1>6, <1>7

LEMMA BeginKeeps ==
  ASSUME TypeOK, DirInv, NEW t \in Trainer, Begin(t) PROVE DirInv'
<1>1. /\ ~Training(t) /\ runs' = runs + 1 /\ file' = file /\ runs \in Nat
      /\ \A u \in Trainer : u # t => trainer'[u] = trainer[u]
      /\ trainer'[t].run = runs + 1 /\ ~trainer'[t].mixed
      /\ overlap \subseteq overlap'
      /\ \A u \in Trainer : Training(u) => trainer[u].run \in overlap' /\ runs + 1 \in overlap'
  BY BeginMoves
<1>2. \/ partial' = partial /\ trainer'[t].script = "pipeline" /\ trainer'[t].todo = File
      \/ /\ partial' = partial \cup {runs + 1}
         /\ trainer'[t].todo \subseteq {"xgboost", "lightgbm", "tft"}
  BY BeginMoves
<1>3. \A u \in Trainer : trainer[u].run \in Nat /\ trainer[u].run <= runs
  BY FilesAssumption DEF TypeOK, TrainerState, Run, DirInv, TrainerInv
<1>4. TrainerInv'
  <2> SUFFICES ASSUME NEW u \in Trainer
               PROVE  /\ trainer'[u].run <= runs'
                      /\ trainer'[u].run = 0 => trainer'[u] = Idle
                      /\ trainer'[u].mixed => trainer'[u].run \in overlap'
                      /\ trainer'[u].run # 0 /\ trainer'[u].script = "classifiers" =>
                           trainer'[u].run \in partial' /\ trainer'[u].todo \subseteq {"xgboost", "lightgbm", "tft"}
    BY DEF TrainerInv, Training
  <2>1. CASE u = t
    BY <1>1, <1>2, <2>1
  <2>2. CASE u # t
    <3>1. trainer'[u] = trainer[u] /\ partial \subseteq partial' /\ trainer[u].run <= runs'
      BY <1>1, <1>2, <1>3, <2>2
    <3>2. /\ trainer[u].run = 0 => trainer[u] = Idle
          /\ trainer[u].mixed => trainer[u].run \in overlap
          /\ trainer[u].run # 0 /\ trainer[u].script = "classifiers" =>
               trainer[u].run \in partial /\ trainer[u].todo \subseteq {"xgboost", "lightgbm", "tft"}
      BY DEF DirInv, TrainerInv, Training
    <3> QED
      BY <1>1, <3>1, <3>2
  <2> QED
    BY <2>1, <2>2
<1>5. PairInv'
  <2>1. ASSUME NEW u \in Trainer, NEW v \in Trainer, u # v, trainer'[u].run # 0, trainer'[v].run # 0
        PROVE  trainer'[u].run \in overlap'
    <3>1. CASE u = t
      BY <1>1, <2>1, <3>1 DEF Training
    <3>2. CASE u # t
      BY <1>1, <2>1, <3>2 DEF Training
    <3> QED
      BY <3>1, <3>2
  <2>2. ASSUME NEW u \in Trainer, NEW r \in 1..runs', trainer'[u].run # 0, trainer'[u].run < r
        PROVE  r \in overlap'
    <3>1. u # t
      BY <1>1, <2>2
    <3>2. Training(u) /\ trainer'[u] = trainer[u]
      BY <1>1, <2>2, <3>1 DEF Training
    <3>3. CASE r = runs + 1
      BY <1>1, <3>2, <3>3
    <3>4. CASE r # runs + 1
      BY <1>1, <2>2, <3>2, <3>4 DEF DirInv, PairInv, Runs
    <3> QED
      BY <3>3, <3>4
  <2> QED
    BY <2>1, <2>2 DEF PairInv, Runs, Training
<1>6. FormInv'
  <2> SUFFICES ASSUME NEW f \in File
               PROVE  /\ file[f].by <= runs'
                      /\ file[f].form = "raw" => file[f].by \in partial'
                      /\ file[f].form = "torn" =>
                           \/ file[f].by \in partial' \cup overlap'
                           \/ \E u \in Trainer : trainer'[u].run = file[f].by /\ f \in trainer'[u].todo
    BY <1>1 DEF FormInv
  <2>1. /\ file[f].by <= runs
        /\ file[f].form = "raw" => file[f].by \in partial
        /\ file[f].form = "torn" =>
             \/ file[f].by \in partial \cup overlap
             \/ \E u \in Trainer : trainer[u].run = file[f].by /\ f \in trainer[u].todo
    BY DEF DirInv, FormInv
  <2>2. file[f].by \in Nat
    BY FilesAssumption DEF TypeOK, Content, Run
  <2>3. \A u \in Trainer : f \in trainer[u].todo => trainer'[u] = trainer[u]
    BY <1>1, IdleFields DEF DirInv, TrainerInv
  <2>4. partial \subseteq partial'
    BY <1>2
  <2>5. ASSUME NEW u \in Trainer, trainer[u].run = file[f].by, f \in trainer[u].todo
        PROVE  \E v \in Trainer : trainer'[v].run = file[f].by /\ f \in trainer'[v].todo
    BY <2>3, <2>5
  <2> QED
    BY <1>1, <2>1, <2>2, <2>4, <2>5
<1>7. CompleteInv'
  <2> SUFFICES ASSUME NEW r \in 1..(runs + 1), r \notin partial' \cup overlap', NEW f \in File
               PROVE  \/ file[f].by >= r
                      \/ \E u \in Trainer : trainer'[u].run = r /\ f \in trainer'[u].todo
    BY <1>1 DEF CompleteInv, Runs
  <2>1. CASE r = runs + 1
    BY <1>1, <1>2, <2>1
  <2>2. CASE r # runs + 1
    <3>1. r \in Runs /\ r \notin partial \cup overlap
      BY <1>1, <1>2, <2>2 DEF Runs
    <3>2. \/ file[f].by >= r
          \/ \E u \in Trainer : trainer[u].run = r /\ f \in trainer[u].todo
      BY <3>1 DEF DirInv, CompleteInv
    <3>3. \A u \in Trainer : f \in trainer[u].todo => trainer'[u] = trainer[u]
      BY <1>1, IdleFields DEF DirInv, TrainerInv
    <3>4. ASSUME NEW u \in Trainer, trainer[u].run = r, f \in trainer[u].todo
          PROVE  \E v \in Trainer : trainer'[v].run = r /\ f \in trainer'[v].todo
      BY <3>3, <3>4
    <3> QED
      BY <3>2, <3>4
  <2> QED
    BY <2>1, <2>2
<1>8. OrderInv'
  <2> SUFFICES ASSUME overlap' = {}
               PROVE  /\ \A u \in Trainer : trainer'[u].run # 0 =>
                           /\ trainer'[u].run = runs'
                           /\ trainer'[u].script = "pipeline" /\ "calibrator" \notin trainer'[u].todo =>
                                file["calibrator"].by = trainer'[u].run
                      /\ file["thresholds"].by <= file["calibrator"].by
    BY <1>1 DEF OrderInv, Training
  <2>1. overlap = {} /\ \A u \in Trainer : ~Training(u)
    BY <1>1
  <2>2. file["thresholds"].by <= file["calibrator"].by
    BY <2>1 DEF DirInv, OrderInv
  <2>3. \A u \in Trainer : u # t => trainer'[u].run = 0
    BY <1>1, <2>1 DEF Training
  <2>4. partial' = partial \cup {runs + 1} \/ "calibrator" \in trainer'[t].todo
    BY <1>2, Names
  <2>5. trainer'[t].script = "pipeline" => "calibrator" \in trainer'[t].todo
    <3>1. PICK sc \in Script : trainer' = [trainer EXCEPT ![t] =
             [run |-> runs + 1, script |-> sc, todo |-> Saves(sc),
              writing |-> FALSE, mixed |-> FALSE, unfit |-> FALSE]]
      BY DEF Begin
    <3>2. trainer'[t] = [run |-> runs + 1, script |-> sc, todo |-> Saves(sc),
                         writing |-> FALSE, mixed |-> FALSE, unfit |-> FALSE]
      BY <3>1 DEF TypeOK
    <3> QED
      BY <3>2, Names DEF Saves
  <2> QED
    BY <1>1, <2>2, <2>3, <2>5
<1> QED
  BY <1>4, <1>5, <1>6, <1>7, <1>8 DEF DirInv

LEMMA DirInit == Init => DirInv
<1> SUFFICES ASSUME Init PROVE DirInv
  OBVIOUS
<1>1. /\ \A t \in Trainer : trainer[t] = Idle /\ ~Training(t)
      /\ \A f \in File : file[f].by = 0 /\ file[f].form = "absent"
      /\ runs = 0
  BY IdleFields DEF Init, Training, Absent
<1>2. Runs = {}
  BY <1>1 DEF Runs
<1> QED
  BY <1>1, <1>2, IdleFields, Names DEF DirInv, TrainerInv, PairInv, FormInv, CompleteInv, OrderInv

\* Servers do not touch the directory.
LEMMA DirSame ==
  ASSUME DirInv, UNCHANGED <<file, trainer, runs, partial, overlap>> PROVE DirInv'
<1>1. /\ file' = file /\ trainer' = trainer /\ runs' = runs
      /\ partial' = partial /\ overlap' = overlap
  OBVIOUS
<1> QED
  BY <1>1 DEF DirInv, TrainerInv, PairInv, FormInv, CompleteInv, OrderInv, Training, Runs

\* A step is one of a training, a begin, or leaves the directory alone.
LEMMA DirStep ==
  ASSUME TypeOK, DirInv, [Next]_vars
  PROVE  DirInv' /\ \/ \E t \in Trainer : TrainStep(t)
                    \/ \E t \in Trainer : Begin(t)
                    \/ \E s \in Server : Start(s) \/ Load(s)
                    \/ UNCHANGED vars
<1>1. ASSUME NEW t \in Trainer, Begin(t) PROVE DirInv'
  BY <1>1, BeginKeeps
<1>2. ASSUME NEW t \in Trainer, Open(t) \/ Save(t) \/ Leave(t) \/ Abort(t) PROVE DirInv' /\ TrainStep(t)
  <2>1. TrainStep(t)
    BY <1>2, OpenMoves, SaveMoves, LeaveMoves, AbortMoves
  <2> QED
    BY <2>1, StepKeeps
<1>3. ASSUME NEW s \in Server, Start(s) \/ Load(s) PROVE DirInv'
  <2>1. UNCHANGED <<file, trainer, runs, partial, overlap>>
    BY <1>3 DEF Start, Load
  <2> QED
    BY <2>1, DirSame
<1>4. CASE UNCHANGED vars
  BY <1>4, DirSame DEF vars
<1> QED
  BY <1>1, <1>2, <1>3, <1>4 DEF Next

\* Type and directory together are an invariant.
Base == TypeOK /\ DirInv

LEMMA BaseInit == Init => Base
  BY TypeInit, DirInit DEF Base

LEMMA BaseStep == Base /\ [Next]_vars => Base'
  BY TypeStep, DirStep DEF Base

-----------------------------------------------------------------------------
(* Servers.                                                                *)

\* What a step does to a server: nothing, mark it, start it, or load one file.
Same(s) == server'[s] = server[s]
Marked(s) ==
  /\ server'[s].raced /\ server[s].at = "loading" /\ server'[s].at = "loading"
  /\ server'[s].service = server[s].service /\ server'[s].todo = server[s].todo
  /\ server'[s].has = server[s].has
Started(s) ==
  /\ server'[s].at = "loading" /\ server'[s].todo = Needed(server'[s].service)
  /\ \A f \in File : server'[s].has[f] = Nothing
  /\ ~server'[s].raced => \A t \in Trainer : ~Training(t)
OneLoaded(s) ==
  /\ server[s].at = "loading" /\ server'[s].service = server[s].service
  /\ server'[s].raced = server[s].raced
  /\ \E f \in server[s].todo :
       /\ First(f, server[s].todo, LoadRank)
       /\ server'[s].todo = server[s].todo \ {f}
       /\ server'[s].has[f] = Loaded(f, file[f])
       /\ \A g \in File : g # f => server'[s].has[g] = server[s].has[g]
       /\ server'[s].at = "up" => server[s].todo = {f}

LEMMA StartEffect ==
  ASSUME TypeOK, NEW s \in Server, Start(s)
  PROVE  /\ Started(s) /\ \A v \in Server : v # s => Same(v)
         /\ UNCHANGED <<file, trainer, runs, partial, overlap>>
<1>1. PICK k \in Service :
        server' = [server EXCEPT ![s] =
          [Down EXCEPT !.service = k, !.at = "loading", !.todo = Needed(k),
                       !.raced = \E t \in Trainer : Training(t)]]
  BY DEF Start
<1> DEFINE b == \E t \in Trainer : Training(t)
           y == [Down EXCEPT !.service = k, !.at = "loading", !.todo = Needed(k), !.raced = b]
<1>2. server' = [server EXCEPT ![s] = y]
  BY <1>1
<1>3. b \in BOOLEAN /\ (~b => \A t \in Trainer : ~Training(t))
  OBVIOUS
<1> HIDE DEF b
<1>4. /\ y.at = "loading" /\ y.todo = Needed(y.service) /\ y.raced = b
      /\ \A f \in File : y.has[f] = Nothing
  BY DEF Down
<1> HIDE DEF y
<1>5. server'[s] = y /\ \A v \in Server : v # s => server'[v] = server[v]
  BY <1>2 DEF TypeOK
<1>6. UNCHANGED <<file, trainer, runs, partial, overlap>>
  BY DEF Start
<1> QED
  BY <1>3, <1>4, <1>5, <1>6 DEF Started, Same

LEMMA LoadEffect ==
  ASSUME TypeOK, NEW s \in Server, Load(s)
  PROVE  /\ OneLoaded(s) /\ \A v \in Server : v # s => Same(v)
         /\ UNCHANGED <<file, trainer, runs, partial, overlap>>
<1>1. PICK f \in server[s].todo :
        /\ server[s].at = "loading"
        /\ First(f, server[s].todo, LoadRank)
        /\ server' = [server EXCEPT ![s] =
             [server[s] EXCEPT !.has[f] = Loaded(f, file[f]), !.todo = @ \ {f},
                       !.at = IF f = "meta" /\ file[f].form = "torn" THEN "failed"
                              ELSE IF server[s].todo = {f} THEN "up" ELSE "loading"]]
  BY DEF Load
<1>2. server[s] \in ServerState /\ f \in File /\ server \in [Server -> ServerState]
  BY DEF TypeOK, ServerState
<1> DEFINE a == IF f = "meta" /\ file[f].form = "torn" THEN "failed"
                ELSE IF server[s].todo = {f} THEN "up" ELSE "loading"
           x == Loaded(f, file[f])
           h == [server[s].has EXCEPT ![f] = x]
           y == [server[s] EXCEPT !.has = h, !.todo = @ \ {f}, !.at = a]
<1>3. [server[s] EXCEPT !.has[f] = x, !.todo = @ \ {f}, !.at = a] = y
  BY <1>2 DEF ServerState
<1>4. server' = [server EXCEPT ![s] = y]
  BY <1>1, <1>3
<1>5. h[f] = x /\ \A g \in File : g # f => h[g] = server[s].has[g]
  BY <1>2 DEF ServerState
<1>6. a = "up" => server[s].todo = {f}
  OBVIOUS
<1> HIDE DEF a, h
<1>7. /\ y.at = a /\ y.todo = server[s].todo \ {f} /\ y.has = h
      /\ y.service = server[s].service /\ y.raced = server[s].raced
  BY <1>2 DEF ServerState
<1> HIDE DEF y
<1>8. server'[s] = y /\ \A v \in Server : v # s => server'[v] = server[v]
  BY <1>2, <1>4
<1>9. UNCHANGED <<file, trainer, runs, partial, overlap>>
  BY DEF Load
<1> QED
  BY <1>1, <1>5, <1>6, <1>7, <1>8, <1>9 DEF OneLoaded, Same

LEMMA BeginMarks ==
  ASSUME TypeOK, NEW t \in Trainer, Begin(t)
  PROVE  \A s \in Server : Marked(s) \/ (Same(s) /\ server[s].at # "loading")
<1> SUFFICES ASSUME NEW s \in Server PROVE Marked(s) \/ (Same(s) /\ server[s].at # "loading")
  OBVIOUS
<1>1. server[s] \in ServerState
  BY DEF TypeOK
<1>2. server'[s] = IF server[s].at = "loading" THEN [server[s] EXCEPT !.raced = TRUE] ELSE server[s]
  BY DEF Begin
<1>3. CASE server[s].at = "loading"
  <2>1. server'[s] = [server[s] EXCEPT !.raced = TRUE]
    BY <1>2, <1>3
  <2> QED
    BY <1>1, <1>3, <2>1 DEF Marked, ServerState
<1>4. CASE server[s].at # "loading"
  BY <1>2, <1>4 DEF Same
<1> QED
  BY <1>3, <1>4

\* While nothing trains the directory stands still.
Quiet == \A t \in Trainer : ~Training(t)

LEMMA ServerStep ==
  ASSUME Base, [Next]_vars, NEW s \in Server
  PROVE  /\ partial \subseteq partial' /\ overlap \subseteq overlap'
         /\ \/ Started(s) /\ UNCHANGED <<file, trainer, runs, partial, overlap>>
            \/ OneLoaded(s) /\ UNCHANGED <<file, trainer, runs, partial, overlap>>
            \/ Marked(s) /\ file' = file
            \/ Same(s) /\ server[s].at # "loading" /\ file' = file
            \/ Same(s) /\ UNCHANGED <<file, trainer, runs, partial, overlap>>
            \/ Same(s) /\ \E t \in Trainer : TrainStep(t)
<1>1. CASE \E t \in Trainer : TrainStep(t)
  <2>1. PICK t \in Trainer : TrainStep(t)
    BY <1>1
  <2> QED
    BY <2>1 DEF TrainStep, Same
<1>2. ASSUME NEW t \in Trainer, Begin(t)
      PROVE  /\ partial \subseteq partial' /\ overlap \subseteq overlap' /\ file' = file
             /\ Marked(s) \/ (Same(s) /\ server[s].at # "loading")
  <2>1. file' = file /\ overlap \subseteq overlap' /\ partial \subseteq partial'
    BY <1>2, BeginMoves DEF Base
  <2>2. Marked(s) \/ (Same(s) /\ server[s].at # "loading")
    BY <1>2, BeginMarks DEF Base
  <2> QED
    BY <2>1, <2>2
<1>3. ASSUME NEW v \in Server, Start(v) \/ Load(v)
      PROVE  /\ UNCHANGED <<file, trainer, runs, partial, overlap>>
             /\ Started(s) \/ OneLoaded(s) \/ Same(s)
  <2>1. CASE Start(v)
    BY <2>1, StartEffect DEF Base
  <2>2. CASE Load(v)
    BY <2>2, LoadEffect DEF Base
  <2> QED
    BY <1>3, <2>1, <2>2
<1>4. CASE UNCHANGED vars
  BY <1>4 DEF vars, Same
<1>5. \/ \E t \in Trainer : TrainStep(t)
      \/ \E t \in Trainer : Begin(t)
      \/ \E v \in Server : Start(v) \/ Load(v)
      \/ UNCHANGED vars
  BY DirStep DEF Base
<1> QED
  BY <1>1, <1>2, <1>3, <1>4, <1>5

\* A server that loads and is not marked loads while nothing trains.
QuietInv == \A s \in Server : server[s].at = "loading" /\ ~server[s].raced => Quiet

LEMMA QuietStep == Base /\ QuietInv /\ [Next]_vars => QuietInv'
<1> SUFFICES ASSUME Base, QuietInv, [Next]_vars, NEW s \in Server,
                    server'[s].at = "loading", ~server'[s].raced
             PROVE  Quiet'
  BY DEF QuietInv
<1>1. CASE Started(s) /\ UNCHANGED <<file, trainer, runs, partial, overlap>>
  BY <1>1 DEF Started, Quiet, Training
<1>2. CASE OneLoaded(s) /\ UNCHANGED <<file, trainer, runs, partial, overlap>>
  BY <1>2 DEF OneLoaded, Quiet, QuietInv, Training
<1>3. CASE Marked(s)
  BY <1>3 DEF Marked
<1>4. CASE Same(s) /\ server[s].at # "loading"
  BY <1>4 DEF Same
<1>5. CASE Same(s) /\ UNCHANGED <<file, trainer, runs, partial, overlap>>
  BY <1>5 DEF Same, Quiet, QuietInv, Training
<1>6. CASE Same(s) /\ \E t \in Trainer : TrainStep(t)
  BY <1>6 DEF Same, Quiet, QuietInv, TrainStep
<1> QED
  BY <1>1, <1>2, <1>3, <1>4, <1>5, <1>6, ServerStep

LEMMA LoadedBy == ASSUME NEW f, NEW c PROVE Loaded(f, c).by = c.by
  BY DEF Loaded

LEMMA LoadedBroken ==
  ASSUME NEW f, NEW c \in Content, Loaded(f, c).is = "broken" PROVE c.form = "raw" \/ c.form = "torn"
  BY DEF Loaded, Content

LEMMA BrokenStep == Base /\ QuietInv /\ BrokenNeedsCause /\ [Next]_vars => BrokenNeedsCause'
<1> SUFFICES ASSUME Base, QuietInv, BrokenNeedsCause, [Next]_vars, NEW s \in Server, ~server'[s].raced,
                    NEW f \in File, server'[s].has[f].is = "broken"
             PROVE  server'[s].has[f].by \in partial' \cup overlap'
  BY DEF BrokenNeedsCause, Has
<1>0. partial \subseteq partial' /\ overlap \subseteq overlap'
  BY ServerStep
<1>1. CASE Started(s)
  BY <1>1 DEF Started, Nothing
<1>2. CASE OneLoaded(s) /\ UNCHANGED <<file, trainer, runs, partial, overlap>>
  <2>1. Quiet /\ ~server[s].raced
    BY <1>2 DEF OneLoaded, QuietInv
  <2>2. PICK g \in server[s].todo :
          /\ server'[s].has[g] = Loaded(g, file[g])
          /\ \A e \in File : e # g => server'[s].has[e] = server[s].has[e]
    BY <1>2 DEF OneLoaded
  <2>3. CASE f = g
    <3>1. file[f].form = "raw" \/ file[f].form = "torn"
      BY <2>2, <2>3, LoadedBroken DEF Base, TypeOK
    <3>2. \A t \in Trainer : f \notin trainer[t].todo
      BY <2>1, IdleFields DEF Quiet, Base, DirInv, TrainerInv
    <3>3. file[f].by \in partial \cup overlap
      BY <3>1, <3>2 DEF Base, DirInv, FormInv
    <3> QED
      BY <1>0, <2>2, <2>3, <3>3, LoadedBy
  <2>4. CASE f # g
    BY <1>0, <2>1, <2>2, <2>4 DEF BrokenNeedsCause, Has
  <2> QED
    BY <2>3, <2>4
<1>3. CASE Marked(s)
  BY <1>3 DEF Marked
<1>4. CASE Same(s)
  BY <1>0, <1>4 DEF Same, BrokenNeedsCause, Has
<1> QED
  BY <1>1, <1>2, <1>3, <1>4, ServerStep

\* What a server that was not disturbed has loaded so far is what is there.
FreshInv ==
  \A s \in Server : server[s].at = "loading" /\ ~server[s].raced =>
    \A f \in Needed(server[s].service) :
      f \notin server[s].todo => Has(s, f).by = file[f].by

LEMMA FreshStep == Base /\ QuietInv /\ FreshInv /\ [Next]_vars => FreshInv'
<1> SUFFICES ASSUME Base, QuietInv, FreshInv, [Next]_vars, NEW s \in Server,
                    server'[s].at = "loading", ~server'[s].raced,
                    NEW f \in Needed(server'[s].service), f \notin server'[s].todo
             PROVE  server'[s].has[f].by = file'[f].by
  BY DEF FreshInv, Has
<1>1. CASE Started(s)
  BY <1>1 DEF Started
<1>2. CASE OneLoaded(s) /\ UNCHANGED <<file, trainer, runs, partial, overlap>>
  <2>1. PICK g \in server[s].todo :
          /\ server'[s].todo = server[s].todo \ {g}
          /\ server'[s].has[g] = Loaded(g, file[g])
          /\ \A e \in File : e # g => server'[s].has[e] = server[s].has[e]
    BY <1>2 DEF OneLoaded
  <2>2. CASE f = g
    BY <1>2, <2>1, <2>2, LoadedBy
  <2>3. CASE f # g
    <3>1. f \in File
      BY NeededType
    <3> QED
      BY <1>2, <2>1, <2>3, <3>1 DEF FreshInv, OneLoaded, Has
  <2> QED
    BY <2>2, <2>3
<1>3. CASE Marked(s)
  BY <1>3 DEF Marked
<1>4. CASE Same(s) /\ server[s].at # "loading"
  BY <1>4 DEF Same
<1>5. CASE Same(s) /\ UNCHANGED <<file, trainer, runs, partial, overlap>>
  BY <1>5 DEF Same, FreshInv, Has
<1>6. CASE Same(s) /\ \E t \in Trainer : TrainStep(t)
  BY <1>6 DEF Same, Quiet, QuietInv, TrainStep
<1> QED
  BY <1>1, <1>2, <1>3, <1>4, <1>5, <1>6, ServerStep

LEMMA TogetherStep == Base /\ QuietInv /\ FreshInv /\ ServedTogether /\ [Next]_vars => ServedTogether'
<1> SUFFICES ASSUME Base, QuietInv, FreshInv, ServedTogether, [Next]_vars, NEW s \in Server,
                    server'[s].at = "up", ~server'[s].raced,
                    NEW f \in Needed(server'[s].service), NEW g \in Needed(server'[s].service),
                    server'[s].has[f].by < server'[s].has[g].by
             PROVE  server'[s].has[g].by \in partial' \cup overlap'
  BY DEF ServedTogether, Has
<1>0. partial \subseteq partial' /\ overlap \subseteq overlap' /\ f \in File /\ g \in File
  BY ServerStep, NeededType
<1>1. CASE Started(s) \/ Marked(s)
  BY <1>1 DEF Started, Marked
<1>2. CASE OneLoaded(s) /\ UNCHANGED <<file, trainer, runs, partial, overlap>>
  <2>1. PICK h \in server[s].todo :
          /\ server'[s].has[h] = Loaded(h, file[h])
          /\ \A e \in File : e # h => server'[s].has[e] = server[s].has[e]
          /\ server[s].todo = {h}
    BY <1>2 DEF OneLoaded
  <2>2. server[s].at = "loading" /\ ~server[s].raced /\ server'[s].service = server[s].service
    BY <1>2 DEF OneLoaded
  <2>3. \A e \in Needed(server[s].service) : server'[s].has[e].by = file[e].by
    <3> SUFFICES ASSUME NEW e \in Needed(server[s].service) PROVE server'[s].has[e].by = file[e].by
      OBVIOUS
    <3>1. CASE e = h
      BY <2>1, <3>1, LoadedBy
    <3>2. CASE e # h
      BY <2>1, <2>2, <3>2, NeededType DEF FreshInv, Has
    <3> QED
      BY <3>1, <3>2
  <2>4. file[f].by < file[g].by /\ server'[s].has[g].by = file[g].by
    BY <2>2, <2>3
  <2>5. file[f].by \in Nat /\ file[g].by \in Nat /\ runs \in Nat /\ file[g].by <= runs
    BY <1>0, FilesAssumption DEF Base, TypeOK, Content, Run, DirInv, FormInv
  <2>6. file[g].by \in Runs
    BY <2>4, <2>5 DEF Runs
  <2>7. \A t \in Trainer : f \notin trainer[t].todo
    BY <2>2, IdleFields DEF QuietInv, Quiet, Base, DirInv, TrainerInv
  <2>8. file[g].by \in partial \cup overlap \/ file[f].by >= file[g].by
    BY <1>0, <2>6, <2>7 DEF Base, DirInv, CompleteInv
  <2> QED
    BY <1>0, <2>4, <2>5, <2>8
<1>4. CASE Same(s)
  BY <1>0, <1>4 DEF Same, ServedTogether, Has
<1> QED
  BY <1>1, <1>2, <1>4, ServerStep

\* The order in which the API reads the two files.
ReadOrderInv ==
  overlap = {} =>
    \A s \in Server : server[s].service = "api" =>
      /\ server[s].at = "loading" =>
           IF "calibrator" \in server[s].todo
           THEN "thresholds" \notin server[s].todo => Has(s, "thresholds").by <= file["calibrator"].by
           ELSE "thresholds" \notin server[s].todo /\ Has(s, "thresholds").by <= Has(s, "calibrator").by
      /\ server[s].at = "up" => Has(s, "thresholds").by <= Has(s, "calibrator").by

LEMMA LoadOrder ==
  ASSUME NEW S, First("calibrator", S, LoadRank) PROVE "thresholds" \notin S
<1>1. LoadRank["thresholds"] = 1 /\ LoadRank["calibrator"] = 6
  BY DEF LoadRank
<1> QED
  BY <1>1 DEF First

\* While trainings do not overlap the calibrator's file only gets newer.
LEMMA CalibratorGrows ==
  ASSUME Base, overlap = {}, NEW t \in Trainer, TrainStep(t)
  PROVE  file["calibrator"].by <= file'["calibrator"].by
<1>1. trainer[t].run = runs
  BY Alone DEF Base, TrainStep
<1>2. file["calibrator"].by \in Nat /\ runs \in Nat /\ file["calibrator"].by <= runs
  BY Names, FilesAssumption DEF Base, TypeOK, Content, Run, DirInv, FormInv
<1>3. file'["calibrator"] = file["calibrator"] \/ file'["calibrator"].by = trainer[t].run
  BY Names DEF TrainStep
<1> QED
  BY <1>1, <1>2, <1>3

LEMMA ReadOrderStep == Base /\ ReadOrderInv /\ [Next]_vars => ReadOrderInv'
<1> SUFFICES ASSUME Base, ReadOrderInv, [Next]_vars, overlap' = {},
                    NEW s \in Server, server'[s].service = "api"
             PROVE  /\ server'[s].at = "loading" =>
                         IF "calibrator" \in server'[s].todo
                         THEN "thresholds" \notin server'[s].todo =>
                                server'[s].has["thresholds"].by <= file'["calibrator"].by
                         ELSE /\ "thresholds" \notin server'[s].todo
                              /\ server'[s].has["thresholds"].by <= server'[s].has["calibrator"].by
                    /\ server'[s].at = "up" =>
                         server'[s].has["thresholds"].by <= server'[s].has["calibrator"].by
  BY DEF ReadOrderInv, Has
<1>0. overlap = {}
  BY ServerStep
<1>1. /\ server[s].service = "api" /\ server[s].at = "loading" =>
           IF "calibrator" \in server[s].todo
           THEN "thresholds" \notin server[s].todo =>
                  server[s].has["thresholds"].by <= file["calibrator"].by
           ELSE /\ "thresholds" \notin server[s].todo
                /\ server[s].has["thresholds"].by <= server[s].has["calibrator"].by
      /\ server[s].service = "api" /\ server[s].at = "up" =>
           server[s].has["thresholds"].by <= server[s].has["calibrator"].by
  BY <1>0 DEF ReadOrderInv, Has
<1>2. CASE Started(s)
  BY <1>2, Names DEF Started, Needed
<1>3. CASE OneLoaded(s) /\ UNCHANGED <<file, trainer, runs, partial, overlap>>
  <2>1. PICK f \in server[s].todo :
          /\ First(f, server[s].todo, LoadRank)
          /\ server'[s].todo = server[s].todo \ {f}
          /\ server'[s].has[f] = Loaded(f, file[f])
          /\ \A g \in File : g # f => server'[s].has[g] = server[s].has[g]
          /\ server'[s].at = "up" => server[s].todo = {f}
    BY <1>3 DEF OneLoaded
  <2>2. server[s].at = "loading" /\ server[s].service = "api" /\ file' = file
    BY <1>3 DEF OneLoaded
  <2>3. CASE f = "calibrator"
    <3>1. "thresholds" \notin server[s].todo
      BY <2>1, <2>3, LoadOrder
    <3>2. server'[s].has["calibrator"].by = file["calibrator"].by
      BY <2>1, <2>3, LoadedBy
    <3>3. server'[s].has["thresholds"] = server[s].has["thresholds"]
      BY <2>1, <2>3, Names
    <3>4. server[s].has["thresholds"].by <= file["calibrator"].by
      BY <1>1, <2>1, <2>2, <2>3, <3>1
    <3> QED
      BY <2>1, <2>3, <3>1, <3>2, <3>3, <3>4
  <2>4. CASE f = "thresholds"
    <3>1. "calibrator" \in server[s].todo
      BY <1>1, <2>2, <2>4
    <3>2. server'[s].has["thresholds"].by = file["thresholds"].by
      BY <2>1, <2>4, LoadedBy
    <3>3. file["thresholds"].by <= file["calibrator"].by
      BY <1>0 DEF Base, DirInv, OrderInv
    <3>4. "calibrator" \in server'[s].todo /\ server'[s].at # "up"
      BY <2>1, <2>4, <3>1
    <3> QED
      BY <2>2, <3>2, <3>3, <3>4
  <2>5. CASE f # "calibrator" /\ f # "thresholds"
    <3>1. /\ server'[s].has["thresholds"] = server[s].has["thresholds"]
          /\ server'[s].has["calibrator"] = server[s].has["calibrator"]
      BY <2>1, <2>5, Names
    <3>2. server'[s].at = "up" => "calibrator" \notin server[s].todo
      BY <2>1, <2>5
    <3>3. /\ "calibrator" \in server'[s].todo <=> "calibrator" \in server[s].todo
          /\ "thresholds" \in server'[s].todo <=> "thresholds" \in server[s].todo
      BY <2>1, <2>5
    <3> QED
      BY <1>1, <2>2, <3>1, <3>2, <3>3
  <2> QED
    BY <2>3, <2>4, <2>5
<1>4. CASE Marked(s) /\ file' = file
  BY <1>1, <1>4 DEF Marked
<1>5. CASE Same(s) /\ file' = file
  BY <1>1, <1>5 DEF Same
<1>6. CASE Same(s) /\ \E t \in Trainer : TrainStep(t)
  <2>1. file["calibrator"].by <= file'["calibrator"].by
    BY <1>0, <1>6, CalibratorGrows
  <2>2. /\ file["calibrator"].by \in Nat /\ file'["calibrator"].by \in Nat
        /\ server[s].has["thresholds"].by \in Nat
    <3>1. TypeOK /\ TypeOK'
      BY TypeStep DEF Base
    <3>2. Run \subseteq Nat
      BY FilesAssumption DEF Run
    <3>3. file["calibrator"].by \in Run /\ file'["calibrator"].by \in Run
      BY <3>1, Names DEF TypeOK, Content
    <3>4. server[s].has["thresholds"].by \in Run
      BY <3>1, Names DEF TypeOK, ServerState, Object
    <3> QED
      BY <3>2, <3>3, <3>4
  <2>3. server'[s] = server[s]
    BY <1>6 DEF Same
  <2>4. server[s].has["thresholds"].by <= file["calibrator"].by =>
          server[s].has["thresholds"].by <= file'["calibrator"].by
    BY <2>1, <2>2
  <2> QED
    BY <1>1, <2>3, <2>4
<1> QED
  BY <1>2, <1>3, <1>4, <1>5, <1>6, ServerStep

-----------------------------------------------------------------------------
(* The theorems.                                                           *)

\* The inductive invariant.
FilesInv ==
  Base /\ QuietInv /\ FreshInv /\ ReadOrderInv /\ ServedTogether /\ BrokenNeedsCause

LEMMA FilesInit == Init => FilesInv
<1> SUFFICES ASSUME Init PROVE FilesInv
  OBVIOUS
<1>1. \A s \in Server : server[s] = Down
  BY DEF Init
<1>2. Down.at = "down" /\ \A f \in File : Down.has[f].is = "none"
  BY DEF Down, Nothing
<1>3. Base
  BY BaseInit
<1> QED
  BY <1>1, <1>2, <1>3
  DEF FilesInv, QuietInv, FreshInv, ReadOrderInv, ServedTogether, BrokenNeedsCause, Has

LEMMA FilesStep == FilesInv /\ [Next]_vars => FilesInv'
  BY BaseStep, QuietStep, FreshStep, ReadOrderStep, TogetherStep, BrokenStep DEF FilesInv

THEOREM FilesCorrect == Spec => []FilesInv
  BY FilesInit, FilesStep, PTL DEF Spec

\* What a server scores with is of one training, or a cause is on record
\* (load_models reads each file on its own).
THEOREM OneTraining == Spec => []ServedTogether
<1>1. FilesInv => ServedTogether
  BY DEF FilesInv
<1> QED
  BY <1>1, FilesCorrect, PTL

\* Thresholds are never newer than the calibrator (train.py:383, 398).
THEOREM CalibratorNotBehind == Spec => []ThresholdsNotAhead
<1>1. FilesInv => ThresholdsNotAhead
  BY DEF FilesInv, ReadOrderInv, ThresholdsNotAhead
<1> QED
  BY <1>1, FilesCorrect, PTL

\* A model that cannot be used has a cause (app.py:552-554 shows none).
THEOREM CauseOfBroken == Spec => []BrokenNeedsCause
<1>1. FilesInv => BrokenNeedsCause
  BY DEF FilesInv
<1> QED
  BY <1>1, FilesCorrect, PTL

-----------------------------------------------------------------------------
(* RiskTiers: type correctness.                                            *)

\* A scan has been through the grid once the training is at the clamp, and the
\* threshold to save is the looser one.
ScanThrough ==
  /\ phase = "idle" => next = 1 /\ best = 0
  /\ phase \in {"clamp", "saved"} => next = Grid + 1
  /\ next = 1 => best = 0

TiersTypeInv == TiersTypeOK /\ ScanThrough

LEMMA GridNat == Grid \in Nat /\ Grid >= 1 /\ Grid <= 94
  BY TiersAssumption

\* 0.65 of a threshold of the grid is one, and lower unless both are 0.01.
LEMMA ScaledType ==
  ASSUME NEW c \in 1..Grid
  PROVE  Scaled(c) \in 1..Grid /\ Scaled(c) <= c /\ (Scaled(c) < c \/ c = 1)
<1>1. c \in Nat /\ c >= 1 /\ c <= Grid /\ Grid \in Nat /\ Grid <= 94
  BY GridNat
<1>2. CASE c = 70
  BY <1>1, <1>2 DEF Scaled
<1>3. CASE c # 70
  <2>1. Scaled(c) = (65 * c + 50) \div 100
    BY <1>3 DEF Scaled
  <2> DEFINE q == (65 * c + 50) \div 100
  <2>2. q \in Int /\ 100 * q <= 65 * c + 50 /\ 65 * c + 50 < 100 * q + 100
    BY <1>1
  <2> HIDE DEF q
  <2>3. q >= 1 /\ q <= c /\ (q < c \/ c = 1)
    BY <1>1, <2>2
  <2> QED
    BY <1>1, <2>1, <2>3 DEF q
<1> QED
  BY <1>2, <1>3

LEMMA TiersTypeInit == TiersInit => TiersTypeInv
  BY GridNat DEF TiersInit, TiersTypeInv, TiersTypeOK, ScanThrough, Phase, Cut, NotServing

\* The answer of any combination of models has one of the three tiers.
LEMMA TierType ==
  ASSUME NEW s, NEW c PROVE TierOf(s, c) \in Tier
  BY DEF TierOf, Tier

LEMMA AnswerType ==
  ASSUME NEW x \in Probability \cup {NoModel}, NEW l \in Probability \cup {NoModel}, NEW t \in Tier
  PROVE  [xgb |-> x, lgb |-> l, tier |-> t] \in Answer
  BY DEF Answer

LEMMA TiersTypeStep == TiersTypeInv /\ [TiersNext]_tierVars => TiersTypeInv'
<1> SUFFICES ASSUME TiersTypeInv, [TiersNext]_tierVars PROVE TiersTypeInv'
  OBVIOUS
<1> USE DEF TiersTypeInv, TiersTypeOK, ScanThrough, Phase
<1>0. Grid \in Nat /\ Grid >= 1 /\ Grid <= 94
  BY GridNat
<1>1. CASE Train
  BY <1>0, <1>1 DEF Train
<1>2. CASE Scan
  <2>1. next \in Nat /\ next >= 1 /\ next <= Grid /\ best' \in {next, best} /\ next' = next + 1
    BY <1>0, <1>2 DEF Scan
  <2>2. best = 0 => best' = next
    BY <1>2 DEF Scan, Cheaper
  <2> QED
    BY <1>0, <1>2, <2>1, <2>2 DEF Scan
<1>3. CASE EndScan
  BY <1>0, <1>3 DEF EndScan
<1>4. CASE Clamp
  <2>1. next > 1 /\ best \in 1..Grid /\ critical \in 1..Grid
    BY <1>0, <1>4 DEF Clamp
  <2>2. watch' \in 1..Grid
    BY <1>4, <2>1, ScaledType DEF Clamp
  <2> QED
    BY <1>0, <1>4, <2>1, <2>2 DEF Clamp
<1>5. CASE StartServer
  <2>1. loaded' \in Cut
    BY <1>0, <1>5, TiersAssumption DEF StartServer, Cut, Defaults
  <2> QED
    BY <1>5, <2>1 DEF StartServer
<1>6. CASE Predict
  <2>1. answer' \in Answer
    BY <1>6, AnswerType, TierType DEF Predict
  <2> QED
    BY <1>6, <2>1 DEF Predict
<1>7. CASE UNCHANGED tierVars
  BY <1>7 DEF tierVars
<1> QED
  BY <1>1, <1>2, <1>3, <1>4, <1>5, <1>6, <1>7 DEF TiersNext

\* Whatever the test set, the costs and the weights, thresholds stay on the grid
\* and the clamp never leaves it (threshold_optimizer.py:72).
THEOREM TiersTyped == TiersSpec => []TiersTypeOK
<1>1. TiersInit => TiersTypeInv
  BY TiersTypeInit
<1>2. TiersTypeInv /\ [TiersNext]_tierVars => TiersTypeInv'
  BY TiersTypeStep
<1>3. TiersTypeInv => TiersTypeOK
  BY DEF TiersTypeInv
<1> QED
  BY <1>1, <1>2, <1>3, PTL DEF TiersSpec

-----------------------------------------------------------------------------
(* Costs.                                                                  *)

\* Numbers of missed defaulters and of false alarms.
Misses(t) == Cardinality(Missed(t))
Alarms(t) == Cardinality(FalseAlarms(t))

LEMMA CountsNat ==
  ASSUME NEW t PROVE Misses(t) \in Nat /\ Alarms(t) \in Nat
<1>1. IsFiniteSet(Example)
  BY TiersAssumption
<1>2. Missed(t) \subseteq Example /\ FalseAlarms(t) \subseteq Example
  BY DEF Missed, FalseAlarms
<1> QED
  BY <1>1, <1>2, FS_Subset, FS_CardinalityType DEF Misses, Alarms

LEMMA ProductNat == \A a, b \in Nat : a * b \in Nat
  OBVIOUS

LEMMA CostNat ==
  ASSUME NEW t, NEW p \in Nat
  PROVE  Cost(t, p) \in Nat /\ Cost(t, p) = Misses(t) * CostMissed + Alarms(t) * p
<1>1. Misses(t) \in Nat /\ Alarms(t) \in Nat /\ CostMissed \in Nat
  BY CountsNat, TiersAssumption
<1>2. Misses(t) * CostMissed \in Nat /\ Alarms(t) * p \in Nat
  BY <1>1, ProductNat
<1> QED
  BY <1>2 DEF Cost, Misses, Alarms

LEMMA ProbabilityInt == \A p \in Probability : p \in Int /\ p >= 0 /\ p <= 100
<1>1. Probability \subseteq 0..100
  BY TiersAssumption
<1> QED
  BY <1>1

\* The higher threshold raises no more false alarms.
LEMMA AlarmsFall ==
  ASSUME sample \in Sample, NEW t \in Nat, NEW u \in Nat, t <= u
  PROVE  Alarms(u) <= Alarms(t)
<1>1. \A e \in Example : sample[e].proba \in Int
  BY ProbabilityInt DEF Sample
<1>2. FalseAlarms(u) \subseteq FalseAlarms(t)
  BY <1>1 DEF FalseAlarms
<1>3. IsFiniteSet(FalseAlarms(t))
  BY TiersAssumption, FS_Subset DEF FalseAlarms
<1> QED
  BY <1>2, <1>3, FS_Subset DEF Alarms

-----------------------------------------------------------------------------
(* The scan.                                                               *)

\* t is the lowest of the first n thresholds with the least cost.
BestOf(t, n, p) ==
  /\ t \in 1..n
  /\ \A u \in 1..n : Cost(t, p) <= Cost(u, p)
  /\ \A u \in 1..t - 1 : Cost(t, p) < Cost(u, p)

LEMMA BestExtends ==
  ASSUME NEW n \in Nat, NEW t \in 0..n, NEW p \in Nat, t = 0 <=> n = 0,
         n > 0 => BestOf(t, n, p)
  PROVE  BestOf(IF t = 0 \/ Cost(n + 1, p) < Cost(t, p) THEN n + 1 ELSE t, n + 1, p)
<1>1. \A u : Cost(u, p) \in Nat
  BY CostNat
<1>2. CASE n = 0
  <2>1. t = 0
    BY <1>2
  <2>2. BestOf(1, 1, p)
    <3>1. \A u \in 1..1 : u = 1
      OBVIOUS
    <3>2. \A u \in 1..1 - 1 : FALSE
      OBVIOUS
    <3> QED
      BY <1>1, <3>1, <3>2 DEF BestOf
  <2> QED
    BY <1>2, <2>1, <2>2
<1>3. CASE n > 0 /\ Cost(n + 1, p) < Cost(t, p)
  <2>1. \A u \in 1..n : Cost(n + 1, p) < Cost(u, p)
    <3> SUFFICES ASSUME NEW u \in 1..n PROVE Cost(n + 1, p) < Cost(u, p)
      OBVIOUS
    <3>1. Cost(t, p) <= Cost(u, p)
      BY <1>3 DEF BestOf
    <3>2. Cost(t, p) \in Nat /\ Cost(u, p) \in Nat /\ Cost(n + 1, p) \in Nat
      BY <1>1
    <3> QED
      BY <1>3, <3>1, <3>2
  <2>2. \A u \in 1..n + 1 : u = n + 1 \/ u \in 1..n
    OBVIOUS
  <2>3. (n + 1) - 1 = n /\ n + 1 \in 1..n + 1
    OBVIOUS
  <2>4. \A u \in 1..n + 1 : Cost(n + 1, p) <= Cost(u, p)
    <3> SUFFICES ASSUME NEW u \in 1..n + 1 PROVE Cost(n + 1, p) <= Cost(u, p)
      OBVIOUS
    <3>1. Cost(u, p) \in Nat /\ Cost(n + 1, p) \in Nat
      BY <1>1
    <3>2. CASE u = n + 1
      BY <3>1, <3>2
    <3>3. CASE u \in 1..n
      <4>1. Cost(n + 1, p) < Cost(u, p)
        BY <2>1, <3>3
      <4> QED
        BY <3>1, <4>1
    <3> QED
      BY <2>2, <3>2, <3>3
  <2>5. BestOf(n + 1, n + 1, p)
    BY <2>1, <2>3, <2>4 DEF BestOf
  <2> QED
    BY <1>3, <2>5
<1>4. CASE n > 0 /\ ~(Cost(n + 1, p) < Cost(t, p))
  <2>1. t # 0 /\ BestOf(t, n, p)
    BY <1>4
  <2>2. t \in 1..n /\ t \in 1..n + 1
    BY <2>1 DEF BestOf
  <2>3. \A u \in 1..n + 1 : Cost(t, p) <= Cost(u, p)
    <3> SUFFICES ASSUME NEW u \in 1..n + 1 PROVE Cost(t, p) <= Cost(u, p)
      OBVIOUS
    <3>1. Cost(t, p) \in Nat /\ Cost(n + 1, p) \in Nat
      BY <1>1
    <3>2. u \in 1..n \/ u = n + 1
      OBVIOUS
    <3>3. CASE u \in 1..n
      BY <2>1, <3>3 DEF BestOf
    <3>4. CASE u = n + 1
      <4>1. Cost(t, p) <= Cost(n + 1, p)
        BY <1>4, <3>1
      <4> QED
        BY <3>4, <4>1
    <3> QED
      BY <3>2, <3>3, <3>4
  <2>4. BestOf(t, n + 1, p)
    BY <2>1, <2>2, <2>3 DEF BestOf
  <2> QED
    BY <1>4, <2>1, <2>4
<1> QED
  BY <1>2, <1>3, <1>4

\* Where each scan stands: `best` is the best of the thresholds seen, and what the
\* first scan found is the best of all.
ScanInv ==
  /\ phase \in {"critical", "watch", "clamp", "saved"} =>
       /\ next > 1 /\ phase \in {"critical", "watch"} => BestOf(best, next - 1, CostFp)
       /\ phase = "clamp" => BestOf(best, Grid, CostSms)
       /\ phase # "critical" => BestOf(critical, Grid, CostCall)

\* As long as the test set stays, so do the costs.
LEMMA SameCost ==
  ASSUME UNCHANGED sample
  PROVE  /\ \A t, p : Cost(t, p)' = Cost(t, p)
         /\ \A t, n, p : BestOf(t, n, p)' = BestOf(t, n, p)
  BY DEF Cost, Missed, FalseAlarms, BestOf

CostsNat == CostMissed \in Nat /\ CostCall \in Nat /\ CostSms \in Nat /\ CostSms <= CostCall

LEMMA CostsOk == CostsNat /\ CostFp \in Nat
  BY TiersAssumption DEF CostsNat, CostFp

LEMMA ScanStep == TiersTypeInv /\ ScanInv /\ [TiersNext]_tierVars => ScanInv'
<1> SUFFICES ASSUME TiersTypeInv, ScanInv, [TiersNext]_tierVars PROVE ScanInv'
  OBVIOUS
<1>0. Grid \in Nat /\ Grid >= 1
  BY GridNat
<1>1. CASE Train
  <2>1. phase' = "critical" /\ next' = 1
    BY <1>1 DEF Train, TiersTypeInv, ScanThrough
  <2> QED
    BY <2>1 DEF ScanInv
<1>2. CASE Scan
  <2>1. /\ phase \in {"critical", "watch"} /\ phase' = phase
        /\ sample' = sample /\ critical' = critical /\ next' = next + 1
        /\ best' = IF best = 0 \/ Cost(next, CostFp) < Cost(best, CostFp) THEN next ELSE best
    BY <1>2 DEF Scan, Cheaper
  <2>2. next \in Nat /\ next >= 1 /\ next <= Grid /\ best \in Nat
    BY <1>0, <1>2 DEF Scan, TiersTypeInv, TiersTypeOK
  <2> DEFINE n == next - 1
             b == IF best = 0 \/ Cost(n + 1, CostFp) < Cost(best, CostFp) THEN n + 1 ELSE best
  <2>3. n \in Nat /\ n + 1 = next /\ (n > 0 <=> next > 1)
    BY <2>2
  <2>4. n > 0 => BestOf(best, n, CostFp)
    BY <2>1, <2>3 DEF ScanInv
  <2>5. best \in 0..n /\ (best = 0 <=> n = 0)
    <3>1. CASE n = 0
      BY <2>3, <3>1 DEF TiersTypeInv, ScanThrough
    <3>2. CASE n > 0
      <4>1. best \in 1..n
        BY <2>4, <3>2 DEF BestOf
      <4> QED
        BY <2>3, <3>2, <4>1
    <3> QED
      BY <2>3, <3>1, <3>2
  <2>6. BestOf(b, n + 1, CostFp)
    <3> HIDE DEF n
    <3> QED
      BY <2>3, <2>4, <2>5, BestExtends, CostsOk
  <2>7. b = best' /\ CostFp' = CostFp /\ next' - 1 = n + 1
    BY <2>1, <2>2, <2>3 DEF CostFp
  <2>8. BestOf(best', next' - 1, CostFp')
    <3> HIDE DEF n
    <3> QED
      BY <2>6, <2>7
  <2>9. (phase' \in {"critical", "watch"}) => BestOf(best, next - 1, CostFp)'
    <3> HIDE DEF n
    <3> QED
      BY <2>1, <2>8, SameCost
  <2>10. phase # "critical" => BestOf(critical, Grid, CostCall)
    BY <2>1 DEF ScanInv
  <2>11. phase # "critical" => BestOf(critical, Grid, CostCall)'
    BY <2>1, <2>10, SameCost
  <2> QED
    BY <2>1, <2>9, <2>11 DEF ScanInv
<1>3. CASE EndScan
  <2>1. phase \in {"critical", "watch"} /\ sample' = sample /\ next > Grid
    BY <1>3 DEF EndScan
  <2>2. next = Grid + 1 /\ next > 1 /\ next - 1 = Grid
    BY <1>0, <2>1 DEF TiersTypeInv, TiersTypeOK
  <2>3. BestOf(best, Grid, CostFp)
    BY <2>1, <2>2 DEF ScanInv
  <2>4. CASE phase = "critical"
    <3>1. critical' = best /\ phase' = "watch" /\ next' = 1
      BY <1>3, <2>4 DEF EndScan
    <3>2. BestOf(best, Grid, CostCall)
      BY <2>3, <2>4 DEF CostFp
    <3>3. BestOf(critical, Grid, CostCall)'
      BY <2>1, <3>1, <3>2, SameCost
    <3> QED
      BY <3>1, <3>3 DEF ScanInv
  <2>5. CASE phase = "watch"
    <3>1. phase' = "clamp" /\ critical' = critical /\ best' = best
      BY <1>3, <2>5 DEF EndScan
    <3>2. BestOf(best, Grid, CostSms) /\ BestOf(critical, Grid, CostCall)
      BY <2>3, <2>5 DEF CostFp, ScanInv
    <3>3. BestOf(best, Grid, CostSms)' /\ BestOf(critical, Grid, CostCall)'
      BY <2>1, <3>1, <3>2, SameCost
    <3> QED
      BY <3>1, <3>3 DEF ScanInv
  <2> QED
    BY <2>1, <2>4, <2>5
<1>4. CASE Clamp
  <2>1. phase = "clamp" /\ phase' = "saved" /\ sample' = sample /\ critical' = critical
    BY <1>4 DEF Clamp
  <2>2. BestOf(critical, Grid, CostCall)'
    BY <2>1, SameCost DEF ScanInv
  <2> QED
    BY <2>1, <2>2 DEF ScanInv
<1>5. CASE StartServer \/ Predict \/ UNCHANGED tierVars
  <2>1. UNCHANGED <<sample, phase, next, best, critical>>
    BY <1>5 DEF StartServer, Predict, tierVars
  <2>2. CostFp' = CostFp
    BY <2>1 DEF CostFp
  <2>3. phase \in {"critical", "watch"} /\ next > 1 => BestOf(best, next - 1, CostFp)'
    BY <2>1, <2>2, SameCost DEF ScanInv
  <2>4. phase = "clamp" => BestOf(best, Grid, CostSms)'
    BY <2>1, SameCost DEF ScanInv
  <2>5. phase \in {"watch", "clamp", "saved"} => BestOf(critical, Grid, CostCall)'
    BY <2>1, SameCost DEF ScanInv
  <2> QED
    BY <2>1, <2>3, <2>4, <2>5 DEF ScanInv
<1> QED
  BY <1>1, <1>2, <1>3, <1>4, <1>5 DEF TiersNext

LEMMA ScanInit == TiersInit => ScanInv
  BY DEF TiersInit, ScanInv

\* The critical threshold is the cheapest of the grid, and the lowest of the
\* cheapest, for every test set and all costs (threshold_optimizer.py:37).
THEOREM CriticalCheapest == TiersSpec => []CriticalIsCheapest
<1>1. TiersInit => TiersTypeInv /\ ScanInv
  BY TiersTypeInit, ScanInit
<1>2. TiersTypeInv /\ ScanInv /\ [TiersNext]_tierVars => (TiersTypeInv /\ ScanInv)'
  BY TiersTypeStep, ScanStep
<1>3. ScanInv => CriticalIsCheapest
  BY DEF ScanInv, CriticalIsCheapest, Optimal, BestOf
<1> QED
  BY <1>1, <1>2, <1>3, PTL DEF TiersSpec

-----------------------------------------------------------------------------
(* Watch is the looser trigger.                                            *)

\* More false alarms weigh more where each costs more.
LEMMA Dearer ==
  ASSUME NEW a \in Nat, NEW b \in Nat, a <= b, NEW p \in Nat, NEW q \in Nat, q <= p
  PROVE  b * q - a * q <= b * p - a * p
<1> DEFINE d == b - a
           e == p - q
<1>1. d \in Nat /\ e \in Nat /\ b = a + d /\ p = q + e
  OBVIOUS
<1> HIDE DEF d, e
<1>2. b * q - a * q = d * q /\ b * p - a * p = d * p /\ d * p = d * q + d * e
  BY <1>1
<1>3. d * e \in Nat /\ d * q \in Nat
  BY <1>1, ProductNat
<1> QED
  BY <1>2, <1>3

\* The second scan does not end above the first.
LEMMA WatchBelow ==
  ASSUME TiersTypeInv, ScanInv, phase = "clamp" PROVE best <= critical
<1>1. BestOf(critical, Grid, CostCall) /\ BestOf(best, Grid, CostSms)
  BY DEF ScanInv
<1>2. critical \in Nat /\ best \in Nat /\ critical \in 1..Grid /\ best \in 1..Grid
  BY <1>1, GridNat DEF BestOf
<1> SUFFICES ASSUME critical < best PROVE FALSE
  BY <1>2
<1>3. critical \in 1..best - 1
  BY <1>2
<1>4. Cost(critical, CostCall) <= Cost(best, CostCall) /\ Cost(best, CostSms) < Cost(critical, CostSms)
  BY <1>1, <1>2, <1>3 DEF BestOf
<1> DEFINE mc == Misses(critical)
           mb == Misses(best)
           ac == Alarms(critical)
           ab == Alarms(best)
<1>5. mc \in Nat /\ mb \in Nat /\ ac \in Nat /\ ab \in Nat
  BY CountsNat
<1>6. ab <= ac
  BY <1>2, AlarmsFall DEF TiersTypeInv, TiersTypeOK
<1>7. CostsNat
  BY CostsOk
<1>8. /\ Cost(critical, CostCall) = mc * CostMissed + ac * CostCall
      /\ Cost(best, CostCall) = mb * CostMissed + ab * CostCall
      /\ Cost(critical, CostSms) = mc * CostMissed + ac * CostSms
      /\ Cost(best, CostSms) = mb * CostMissed + ab * CostSms
  BY <1>7, CostNat DEF CostsNat
<1> HIDE DEF mc, mb, ac, ab
<1>9. ac * CostSms - ab * CostSms <= ac * CostCall - ab * CostCall
  BY <1>5, <1>6, <1>7, Dearer DEF CostsNat
<1>10. /\ mc * CostMissed \in Nat /\ mb * CostMissed \in Nat
       /\ ac * CostCall \in Nat /\ ab * CostCall \in Nat
       /\ ac * CostSms \in Nat /\ ab * CostSms \in Nat
  BY <1>5, <1>7, ProductNat DEF CostsNat
<1> QED
  BY <1>4, <1>8, <1>9, <1>10

\* What is saved is on the grid with watch below critical.
SavedInv ==
  phase = "saved" => watch <= critical /\ (watch < critical \/ critical = 1)

LEMMA SavedStep == TiersTypeInv /\ ScanInv /\ SavedInv /\ [TiersNext]_tierVars => SavedInv'
<1> SUFFICES ASSUME TiersTypeInv, ScanInv, SavedInv, [TiersNext]_tierVars, phase' = "saved"
             PROVE  (watch <= critical /\ (watch < critical \/ critical = 1))'
  BY DEF SavedInv
<1>1. CASE Clamp
  <2>1. phase = "clamp" /\ critical' = critical
        /\ watch' = IF best >= critical THEN Scaled(critical) ELSE best
    BY <1>1 DEF Clamp
  <2>2. best <= critical
    BY <2>1, WatchBelow
  <2>3. critical \in 1..Grid /\ best \in Int
    BY <2>1, GridNat DEF TiersTypeInv, TiersTypeOK
  <2>4. Scaled(critical) \in Int /\ Scaled(critical) <= critical
        /\ (Scaled(critical) < critical \/ critical = 1)
    BY <2>3, ScaledType, GridNat
  <2> QED
    BY <2>1, <2>2, <2>3, <2>4, GridNat
<1>2. CASE StartServer \/ Predict \/ UNCHANGED tierVars
  BY <1>2 DEF SavedInv, StartServer, Predict, tierVars
<1>3. CASE Train \/ Scan \/ EndScan
  BY <1>3 DEF Train, Scan, EndScan
<1> QED
  BY <1>1, <1>2, <1>3 DEF TiersNext

TrainInv == TiersTypeInv /\ ScanInv /\ SavedInv

LEMMA TrainInvariant == TiersSpec => []TrainInv
<1>1. TiersInit => TrainInv
  BY TiersTypeInit, ScanInit DEF TrainInv, SavedInv, TiersInit
<1>2. TrainInv /\ [TiersNext]_tierVars => TrainInv'
  BY TiersTypeStep, ScanStep, SavedStep DEF TrainInv
<1> QED
  BY <1>1, <1>2, PTL DEF TiersSpec

\* Because a message costs no more than a call, the scan for watch never ends above
\* the one for critical, and what is saved leaves room for the tier watch unless both
\* thresholds are 0.01 (threshold_optimizer.py:71).
THEOREM WatchLooser == TiersSpec => []WatchIsLooser
<1>1. TrainInv => WatchIsLooser
  BY WatchBelow DEF TrainInv, SavedInv, WatchIsLooser
<1> QED
  BY <1>1, TrainInvariant, PTL

-----------------------------------------------------------------------------
(* Defaulters are critical.                                                *)

\* Where a missed default outweighs all calls together, the critical threshold
\* leaves no defaulter of the test set below it who scores at all.
LEMMA DefaultersAbove ==
  ASSUME TiersTypeInv, ScanInv, phase = "saved",
         Cardinality(Healthy) * CostCall < CostMissed,
         NEW e \in Example, sample[e].bad, sample[e].proba >= 1
  PROVE  sample[e].proba >= critical
<1>1. sample \in Sample /\ critical \in 1..Grid /\ BestOf(critical, Grid, CostCall)
  BY DEF TiersTypeInv, TiersTypeOK, ScanInv
<1>2. \A x \in Example : sample[x].proba \in Int
  BY <1>1, ProbabilityInt DEF Sample
<1>3. critical \in Int /\ critical >= 1 /\ 1 \in 1..Grid
  BY <1>1, GridNat
<1> SUFFICES ASSUME sample[e].proba < critical PROVE FALSE
  BY <1>2, <1>3
<1>4. Misses(1) + 1 <= Misses(critical)
  <2>1. Missed(1) \subseteq Missed(critical)
    BY <1>2, <1>3 DEF Missed
  <2>2. e \in Missed(critical) /\ e \notin Missed(1)
    BY <1>2, <1>3 DEF Missed
  <2>3. IsFiniteSet(Missed(critical))
    BY TiersAssumption, FS_Subset DEF Missed
  <2>4. Cardinality(Missed(1)) <= Cardinality(Missed(critical))
        /\ Cardinality(Missed(1)) # Cardinality(Missed(critical))
    BY <2>1, <2>2, <2>3, FS_Subset
  <2>5. Misses(1) \in Nat /\ Misses(critical) \in Nat
    BY CountsNat
  <2> QED
    BY <2>4, <2>5 DEF Misses
<1>5. Alarms(1) <= Cardinality(Healthy) /\ Cardinality(Healthy) \in Nat
  <2>1. FalseAlarms(1) \subseteq Healthy /\ Healthy \subseteq Example
    BY DEF FalseAlarms, Healthy
  <2>2. IsFiniteSet(Healthy)
    BY <2>1, TiersAssumption, FS_Subset
  <2> QED
    BY <2>1, <2>2, FS_Subset, FS_CardinalityType DEF Alarms
<1>6. Cost(critical, CostCall) <= Cost(1, CostCall)
  BY <1>1, <1>3 DEF BestOf
<1> DEFINE m1 == Misses(1)
           mc == Misses(critical)
           a1 == Alarms(1)
           ac == Alarms(critical)
           h == Cardinality(Healthy)
<1>7. m1 \in Nat /\ mc \in Nat /\ a1 \in Nat /\ ac \in Nat /\ h \in Nat
      /\ m1 + 1 <= mc /\ a1 <= h
  BY <1>4, <1>5, CountsNat
<1>8. CostMissed \in Nat /\ CostCall \in Nat
  BY TiersAssumption
<1>9. mc * CostMissed + ac * CostCall <= m1 * CostMissed + a1 * CostCall
  BY <1>6, <1>8, CostNat
<1>10. h * CostCall < CostMissed
  OBVIOUS
<1> HIDE DEF m1, mc, a1, ac, h
<1>11. a1 * CostCall <= h * CostCall
  BY <1>7, <1>8, Dearer, 0 \in Nat, ProductNat
<1>12. m1 * CostMissed + CostMissed <= mc * CostMissed
  <2> DEFINE d == mc - (m1 + 1)
  <2>1. d \in Nat /\ mc = m1 + 1 + d
    BY <1>7
  <2> HIDE DEF d
  <2>2. mc * CostMissed = m1 * CostMissed + CostMissed + d * CostMissed
    BY <1>7, <1>8, <2>1
  <2>3. d * CostMissed \in Nat /\ m1 * CostMissed \in Nat
    BY <1>7, <1>8, <2>1, ProductNat
  <2> QED
    BY <1>8, <2>2, <2>3
<1>13. /\ mc * CostMissed \in Nat /\ ac * CostCall \in Nat
       /\ m1 * CostMissed \in Nat /\ a1 * CostCall \in Nat /\ h * CostCall \in Nat
  BY <1>7, <1>8, ProductNat
<1> QED
  BY <1>8, <1>9, <1>10, <1>11, <1>12, <1>13

\* For any test set in which calling every healthy customer costs less than one
\* missed default, all defaulters who score at least 0.01 are critical
\* (threshold_optimizer.py:45-47).
THEOREM DefaultersAreCritical == TiersSpec => []DefaultersCritical
<1>1. TrainInv => DefaultersCritical
  BY DefaultersAbove DEF TrainInv, DefaultersCritical
<1> QED
  BY <1>1, TrainInvariant, PTL

-----------------------------------------------------------------------------
(* Serving.                                                                *)

\* A server's thresholds are in order, and its answer is the tier of the scores.
ServeInv ==
  /\ loaded.watch <= loaded.critical
  /\ answer # NoAnswer => answer.tier = TierOf(Combined(answer.xgb, answer.lgb), loaded)

LEMMA ServeStep == TrainInv /\ ServeInv /\ [TiersNext]_tierVars => ServeInv'
<1> SUFFICES ASSUME TrainInv, ServeInv, [TiersNext]_tierVars PROVE ServeInv'
  OBVIOUS
<1>1. CASE StartServer
  <2>1. answer' = NoAnswer
    BY <1>1 DEF StartServer
  <2>2. CASE phase = "saved"
    <3>1. loaded' = [critical |-> critical, watch |-> watch] /\ watch <= critical
      BY <1>1, <2>2 DEF StartServer, TrainInv, SavedInv
    <3> QED
      BY <2>1, <3>1 DEF ServeInv
  <2>3. CASE phase # "saved"
    <3>1. loaded' = Defaults
      BY <1>1, <2>3 DEF StartServer
    <3> QED
      BY <2>1, <3>1, TiersAssumption DEF ServeInv, Defaults
  <2> QED
    BY <2>2, <2>3
<1>2. CASE Predict
  <2>1. PICK x \in Probability \cup {NoModel}, l \in Probability \cup {NoModel} :
          answer' = [xgb |-> x, lgb |-> l, tier |-> TierOf(Combined(x, l), loaded)]
    BY <1>2 DEF Predict
  <2>2. loaded' = loaded
    BY <1>2 DEF Predict
  <2>3. answer'.xgb = x /\ answer'.lgb = l /\ answer'.tier = TierOf(Combined(x, l), loaded)
    BY <2>1
  <2>4. answer'.tier = TierOf(Combined(answer'.xgb, answer'.lgb), loaded')
    BY <2>2, <2>3
  <2>5. (answer.tier = TierOf(Combined(answer.xgb, answer.lgb), loaded))'
    BY <2>4 DEF TierOf, Combined
  <2> QED
    BY <2>2, <2>5 DEF ServeInv
<1>3. CASE Train \/ Scan \/ EndScan \/ Clamp \/ UNCHANGED tierVars
  <2>1. UNCHANGED <<loaded, answer>>
    BY <1>3 DEF Train, Scan, EndScan, Clamp, tierVars
  <2> QED
    BY <2>1 DEF ServeInv, TierOf, Combined
<1> QED
  BY <1>1, <1>2, <1>3 DEF TiersNext

\* A mean of scores on one side of a threshold is on that side.
LEMMA MeanAbove ==
  ASSUME NEW x \in Int, NEW c \in Int, NEW w \in Nat \ {0}
  PROVE  (x >= c => x * w >= c * w) /\ (x < c => x * w < c * w)
<1>1. CASE x >= c
  <2> DEFINE d == x - c
  <2>1. d \in Nat /\ x = c + d
    BY <1>1
  <2> HIDE DEF d
  <2>2. x * w = c * w + d * w
    BY <2>1
  <2>3. d * w \in Nat
    BY <2>1, ProductNat
  <2> QED
    BY <1>1, <2>2, <2>3
<1>2. CASE x < c
  <2> DEFINE d == c - x - 1
  <2>1. d \in Nat /\ c = x + d + 1
    BY <1>2
  <2> HIDE DEF d
  <2>2. c * w = x * w + d * w + w
    BY <2>1
  <2>3. d * w \in Nat
    BY <2>1, ProductNat
  <2> QED
    BY <1>2, <2>2, <2>3
<1> QED
  BY <1>1, <1>2

LEMMA TiersAgree ==
  ASSUME NEW x \in Probability \cup {NoModel}, NEW l \in Probability \cup {NoModel},
         NEW cut \in Cut, cut.watch <= cut.critical, {x, l} \ {NoModel} # {}
  PROVE  /\ (\A s \in {x, l} \ {NoModel} : s >= cut.critical) => TierOf(Combined(x, l), cut) = "critical"
         /\ (\A s \in {x, l} \ {NoModel} : s < cut.watch) => TierOf(Combined(x, l), cut) = "stable"
<1>1. /\ XgbWeight \in Nat \ {0} /\ LgbWeight \in Nat \ {0}
      /\ cut.critical \in Int /\ cut.watch \in Int
  BY TiersAssumption DEF Cut
<1>2. \A s \in {x, l} \ {NoModel} : s \in Int
  BY ProbabilityInt
<1>3. CASE l = NoModel
  <2>1. x # NoModel /\ x \in Int /\ Combined(x, l) = [num |-> x * XgbWeight, weight |-> XgbWeight]
    BY <1>2, <1>3 DEF Combined
  <2>2. /\ x >= cut.critical => x * XgbWeight >= cut.critical * XgbWeight
        /\ x < cut.watch => x * XgbWeight < cut.watch * XgbWeight
        /\ x < cut.critical => x * XgbWeight < cut.critical * XgbWeight
    BY <1>1, <2>1, MeanAbove
  <2>3. x * XgbWeight \in Int /\ cut.critical * XgbWeight \in Int /\ cut.watch * XgbWeight \in Int
    BY <1>1, <2>1
  <2>4. x < cut.watch => x < cut.critical
    BY <1>1, <2>1
  <2>5. {x, l} \ {NoModel} = {x}
    BY <1>3, <2>1
  <2> HIDE DEF Combined
  <2> QED
    BY <2>1, <2>2, <2>3, <2>4, <2>5 DEF TierOf
<1>4. CASE x = NoModel
  <2>1. l # NoModel /\ l \in Int /\ Combined(x, l) = [num |-> l * LgbWeight, weight |-> LgbWeight]
    BY <1>2, <1>4 DEF Combined
  <2>2. /\ l >= cut.critical => l * LgbWeight >= cut.critical * LgbWeight
        /\ l < cut.watch => l * LgbWeight < cut.watch * LgbWeight
        /\ l < cut.critical => l * LgbWeight < cut.critical * LgbWeight
    BY <1>1, <2>1, MeanAbove
  <2>3. l * LgbWeight \in Int /\ cut.critical * LgbWeight \in Int /\ cut.watch * LgbWeight \in Int
    BY <1>1, <2>1
  <2>4. l < cut.watch => l < cut.critical
    BY <1>1, <2>1
  <2>5. {x, l} \ {NoModel} = {l}
    BY <1>4, <2>1
  <2> QED
    BY <2>1, <2>2, <2>3, <2>4, <2>5 DEF TierOf
<1>5. CASE x # NoModel /\ l # NoModel
  <2>1. /\ x \in Int /\ l \in Int
        /\ Combined(x, l) = [num |-> x * XgbWeight + l * LgbWeight, weight |-> XgbWeight + LgbWeight]
    BY <1>2, <1>5 DEF Combined
  <2>2. /\ x >= cut.critical => x * XgbWeight >= cut.critical * XgbWeight
        /\ x < cut.watch => x * XgbWeight < cut.watch * XgbWeight
        /\ x < cut.critical => x * XgbWeight < cut.critical * XgbWeight
        /\ l >= cut.critical => l * LgbWeight >= cut.critical * LgbWeight
        /\ l < cut.watch => l * LgbWeight < cut.watch * LgbWeight
        /\ l < cut.critical => l * LgbWeight < cut.critical * LgbWeight
    BY <1>1, <2>1, MeanAbove
  <2>3. /\ x * XgbWeight \in Int /\ cut.critical * XgbWeight \in Int /\ cut.watch * XgbWeight \in Int
        /\ l * LgbWeight \in Int /\ cut.critical * LgbWeight \in Int /\ cut.watch * LgbWeight \in Int
    BY <1>1, <2>1
  <2>4. (x < cut.watch => x < cut.critical) /\ (l < cut.watch => l < cut.critical)
    BY <1>1, <2>1
  <2>5. /\ cut.critical * (XgbWeight + LgbWeight) = cut.critical * XgbWeight + cut.critical * LgbWeight
        /\ cut.watch * (XgbWeight + LgbWeight) = cut.watch * XgbWeight + cut.watch * LgbWeight
    BY <1>1
  <2>6. x \in {x, l} \ {NoModel} /\ l \in {x, l} \ {NoModel}
    BY <1>5
  <2>7. CASE \A s \in {x, l} \ {NoModel} : s >= cut.critical
    <3>1. x >= cut.critical /\ l >= cut.critical
      BY <2>6, <2>7
    <3>2. x * XgbWeight + l * LgbWeight >= cut.critical * (XgbWeight + LgbWeight)
      BY <2>2, <2>3, <2>5, <3>1
    <3>3. TierOf(Combined(x, l), cut) = "critical"
      BY <2>1, <3>2 DEF TierOf
    <3>4. ~(x < cut.watch)
      BY <1>1, <2>1, <3>1
    <3> QED
      BY <2>6, <3>3, <3>4
  <2>8. CASE \A s \in {x, l} \ {NoModel} : s < cut.watch
    <3>1. x < cut.watch /\ l < cut.watch
      BY <2>6, <2>8
    <3>2. /\ ~(x * XgbWeight + l * LgbWeight >= cut.critical * (XgbWeight + LgbWeight))
          /\ ~(x * XgbWeight + l * LgbWeight >= cut.watch * (XgbWeight + LgbWeight))
      BY <2>2, <2>3, <2>4, <2>5, <3>1
    <3>3. TierOf(Combined(x, l), cut) = "stable"
      BY <2>1, <3>2 DEF TierOf
    <3>4. ~(x >= cut.critical)
      BY <1>1, <2>1, <3>1
    <3> QED
      BY <2>6, <3>3, <3>4
  <2> QED
    BY <2>7, <2>8
<1> QED
  BY <1>3, <1>4, <1>5

\* With any of the models missing and for any weights, an answer agrees with the
\* models where these are on one side of a threshold (ensemble.py:75-79).
THEOREM ModelsAgree == TiersSpec => []Unanimous
<1>1. TiersInit => ServeInv
  BY DEF TiersInit, ServeInv, NotServing
<1>2. TrainInv /\ ServeInv => Unanimous
  <2> SUFFICES ASSUME TrainInv, ServeInv, answer # NoAnswer,
                      {answer.xgb, answer.lgb} \ {NoModel} # {}
               PROVE  /\ (\A s \in {answer.xgb, answer.lgb} \ {NoModel} : s >= loaded.critical)
                           => answer.tier = "critical"
                      /\ (\A s \in {answer.xgb, answer.lgb} \ {NoModel} : s < loaded.watch)
                           => answer.tier = "stable"
    BY DEF Unanimous
  <2>1. answer.xgb \in Probability \cup {NoModel} /\ answer.lgb \in Probability \cup {NoModel}
        /\ loaded \in Cut
    BY DEF TrainInv, TiersTypeInv, TiersTypeOK, Answer
  <2>2. loaded.watch <= loaded.critical
        /\ answer.tier = TierOf(Combined(answer.xgb, answer.lgb), loaded)
    BY DEF ServeInv
  <2> QED
    BY <2>1, <2>2, TiersAgree
<1> QED
  BY <1>1, <1>2, ServeStep, TrainInvariant, PTL DEF TiersSpec
=============================================================================
