------------------------------ MODULE Session ------------------------------
(***************************************************************************)
(* A Python session that trains models: a script, whose steps run in their *)
(* order and end with the first exception, or a notebook, whose cells a    *)
(* person runs from the top or in any order, each in the names the cells   *)
(* before it have left.  A name that is not bound is an exception in the   *)
(* middle of a cell, after what the cell has bound until then.             *)
(*                                                                         *)
(* The tables do not change during a session (TrainingData has what fills  *)
(* them), and the random states are fixed, so a split is always the same.  *)
(***************************************************************************)
EXTENDS LabelFlow, Sequences

CONSTANTS Setup,   \* tables and splits to start from
          Program, \* the programs that are run
          MaxJumps \* bound: cells run out of order in a session

VARIABLES setup,  \* the tables and how train_test_split divides them
          program, \* the script or notebook running
          at,     \* its next step
          ns,     \* what each bound name stands for
          shown,  \* the numbers the last step printed
          failed, \* the step that raised, "none" if the last one did not
          jumps,  \* cells run out of order
          params  \* what the saved hyperparameters depend on, {} without a file

vars == <<setup, program, at, ns, shown, failed, jumps, params>>

Notebook == {"results", "pdi"}

\* seqs: customers with a sequence.  tables: whether streaming_features counts
\* failed debits and lending apps, as all but generate_50k.py make it.
ASSUME SessionAssumption ==
  /\ Setup \subseteq [train: SUBSET Customer, cal: SUBSET Customer, test: SUBSET Customer,
                      seqs: SUBSET Customer, tables: {"counting", "bulk"}]
  /\ \A s \in Setup : s.train \cap s.cal = {} /\ s.train \cap s.test = {} /\ s.cal \cap s.test = {}
  /\ Program \subseteq {"tune", "train", "results", "models", "enhanced", "v3", "pdi", "lstm", "keras"}
  /\ MaxJumps \in Nat

\* The order of the steps; train_pipeline and its notebook share most of theirs.
Order ==
  [ tune     |-> <<"tune_xgb", "tune_lgb">>,
    train    |-> <<"data", "split", "xgb", "lgb", "tft", "oof", "meta", "ensemble", "calibration",
                   "thresholds", "explain", "fairness", "survival", "conformal", "uplift", "mlflow",
                   "result">>,
    results  |-> <<"imports", "data", "balance", "split", "xgb", "lgb", "tft", "oof", "meta",
                   "ensemble", "roc", "calibration", "reliability", "thresholds", "sweep", "shap",
                   "shap_bar", "waterfall", "survival", "conformal", "uplift", "fairness", "demo",
                   "summary", "files">>,
    models   |-> <<"models_load", "models_split", "models_xgb", "models_lgb", "models_tft",
                   "models_weights", "models_log">>,
    enhanced |-> <<"enhanced_features", "enhanced_labels", "enhanced_split", "enhanced_xgb",
                   "enhanced_lgb", "enhanced_tft", "enhanced_weights", "enhanced_log">>,
    v3       |-> <<"v3_build", "v3_xgb", "v3_lgb", "v3_tft", "v3_weights", "v3_save">>,
    pdi      |-> <<"pdi_imports", "pdi_load", "pdi_customers", "pdi_transactions", "pdi_merge",
                   "pdi_label", "pdi_split", "pdi_xgb", "pdi_lgb", "pdi_lstm", "pdi_optuna",
                   "pdi_ensemble", "pdi_shap", "pdi_beeswarm", "pdi_waterfall", "pdi_curves",
                   "pdi_confusion", "pdi_save">>,
    lstm     |-> <<"lstm">>,
    keras    |-> <<"keras">> ]

StepOf(p) == {Order[p][i] : i \in DOMAIN Order[p]}
Place == (UNION {StepOf(p) : p \in Program}) \cup {"none", "end"}

Init ==
  /\ setup \in Setup
  /\ program = "none" /\ at = "none"
  /\ ns = <<>> /\ shown = {} /\ failed = "none" /\ jumps = 0
  /\ params = [xgb |-> {}, lgb |-> {}]

-----------------------------------------------------------------------------
(* The session.                                                            *)

\* What a script imports at its top.
Imported == [imports |-> TRUE, joblib |-> TRUE]

Open(p) ==
  /\ program = "none"
  /\ program' = p /\ at' = Order[p][1]
  /\ ns' = (IF p \in Notebook THEN <<>> ELSE Imported)
  /\ jumps' = 0 /\ shown' = {} /\ failed' = "none"
  /\ UNCHANGED <<setup, params>>

\* The process ends or is killed, or the kernel is restarted, at any point.
Close ==
  /\ program # "none"
  /\ program' = "none" /\ at' = "none"
  /\ ns' = <<>> /\ jumps' = 0 /\ shown' = {} /\ failed' = "none"
  /\ UNCHANGED <<setup, params>>

\* In a notebook, a cell other than the next one is run.
Jump ==
  /\ program \in Notebook /\ jumps < MaxJumps
  /\ \E s \in StepOf(program) \ {at} : at' = s
  /\ jumps' = jumps + 1
  /\ shown' = {} /\ failed' = "none"
  /\ UNCHANGED <<setup, program, ns, params>>

After(step) ==
  LET o == Order[program]
      i == CHOOSE j \in DOMAIN o : o[j] = step
  IN  IF i = Len(o) THEN "end" ELSE o[i+1]

Bound(names) == names \subseteq DOMAIN ns

\* Names that are bound anew, among others that stay.
Rebound(names, binds) ==
  [n \in DOMAIN names \cup DOMAIN binds |-> IF n \in DOMAIN binds THEN binds[n] ELSE names[n]]

\* A step runs to its end, with these bindings and numbers printed.
Completes(step, binds, reports) ==
  /\ at = step
  /\ ns' = Rebound(ns, binds) /\ shown' = reports /\ failed' = "none"
  /\ at' = After(step)
  /\ UNCHANGED <<setup, program, jumps>>

\* The same for a step that leaves the files of the tuner alone, as most do.
Runs(step, binds, reports) == Completes(step, binds, reports) /\ UNCHANGED params

\* A step raises after these bindings: a script ends, "Run all" stops.
Raises(step, binds) ==
  /\ at = step
  /\ ns' = Rebound(ns, binds) /\ shown' = {} /\ failed' = step
  /\ at' = IF program \in Notebook THEN step ELSE "end"
  /\ UNCHANGED <<setup, program, jumps, params>>

\* A step that needs these names, binds `early` before it uses the last of
\* them, and all of `binds` if it has them.
Step(step, names, early, binds, reports) ==
  \/ Bound(names) /\ Runs(step, binds, reports)
  \/ ~Bound(names) /\ Raises(step, early)

\* A step that only shows what there is.
Shows(step, names) == Step(step, names, <<>>, <<>>, {})

Measured(of, s) == [of |-> of, true |-> Honest(s)]
Reported(of, t) == [of |-> of, true |-> t.kept = t.reported]
=============================================================================
