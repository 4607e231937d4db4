----------------------------- MODULE Evaluation -----------------------------
(***************************************************************************)
(* Every program that trains: the tuner, train.py and its notebook, the    *)
(* three scripts and the notebook that split 80/20, and the two recurrent  *)
(* networks on their own; and what the numbers they print are worth.       *)
(***************************************************************************)
EXTENDS Training

\* The scripts with two parts split the customers that Training splits in three.
Learn == setup.train \cup setup.cal

Does(p, step) == program = p /\ at = step

\* XGBClassifier, and LGBMClassifier without callbacks: the evaluation set is only
\* printed.  With early stopping, the (last) evaluation set stops the boosting.
Plain(rows) == rows
Stopped(rows, eval) == rows \cup eval

\* A label that is computed from columns that are also features.
LabelledBy(signals, dropped) == IF signals \subseteq dropped THEN {} ELSE Customer

\* The network of the 80/20 programs: the test set chooses the epoch and is then
\* scored in a single batch.
NetOnTest(step) ==
  \/ TftRaises(Learn) /\ Raises(step, <<>>)
  \/ /\ ~TftRaises(Learn)
     /\ \E auc \in Auc :
          LET net == TftFit(Learn, setup.test)
          IN  Runs(step, [tft |-> net],
                   {Reported("tft", TftTrain(auc)), Measured("net_test", Score(net, setup.test, ns.data))})

Scored(model) == Score(model, setup.test, ns.data)
AllScored == Together({Scored(ns.xgb), Scored(ns.lgb), Scored(ns.tft)})

-----------------------------------------------------------------------------
(* ml/hyperparam_tuner.py                                                  *)

TuneXgbStep ==
  /\ Does("tune", "tune_xgb")
  /\ Completes("tune_xgb", <<>>, {})
  /\ params' = [params EXCEPT !.xgb = TuneXgb(Learn \cup setup.test)]

TuneLgbStep ==
  /\ Does("tune", "tune_lgb")
  /\ Completes("tune_lgb", <<>>, {})
  /\ params' = [params EXCEPT !.lgb = TuneLgb(Learn \cup setup.test)]

-----------------------------------------------------------------------------
(* train_models.py: ns.data is the set of customers labelled by features.  *)

\* Without payment_events, the label is a score of behavioural features, which stay.
ModelsLoad ==
  /\ Does("models", "models_load")
  /\ \/ Runs("models_load", [data |-> {}], {})
     \/ /\ setup.tables = "counting"
        /\ Runs("models_load", [data |-> LabelledBy({"failed_autodebits", "lending_app"}, {})], {})

ModelsSplit == Does("models", "models_split") /\ Runs("models_split", <<>>, {})

ModelsXgb ==
  /\ Does("models", "models_xgb")
  /\ Runs("models_xgb", [xgb |-> Plain(Learn)], {Measured("models_test", Scored(Plain(Learn)))})
ModelsLgb ==
  /\ Does("models", "models_lgb")
  /\ Runs("models_lgb", [lgb |-> Plain(Learn)], {Measured("models_test", Scored(Plain(Learn)))})
ModelsTft == Does("models", "models_tft") /\ NetOnTest("models_tft")
ModelsWeights ==
  /\ Does("models", "models_weights")
  /\ Runs("models_weights", <<>>, {Measured("weighted_test", AllScored)})
ModelsLog == Does("models", "models_log") /\ Runs("models_log", <<>>, {})

-----------------------------------------------------------------------------
(* train_enhanced.py                                                       *)

\* The merge with streaming_features renames the columns both sides have, so
\* features['failed_autodebits_count_30d'] is there only if the table lacks it.
EnhancedFeatures ==
  /\ Does("enhanced", "enhanced_features")
  /\ \/ setup.tables = "counting" /\ Raises("enhanced_features", <<>>)
     \/ setup.tables = "bulk" /\ Runs("enhanced_features", <<>>, {})

EnhancedSignals ==
  {"failed_autodebits", "lending_app", "credit_score", "dti_ratio", "failure_rate", "spend_to_income"}

EnhancedLabels ==
  /\ Does("enhanced", "enhanced_labels")
  /\ Runs("enhanced_labels",
          [data |-> LabelledBy(EnhancedSignals, {"customer_id", "gender", "income_bracket", "region"})], {})

EnhancedSplit == Does("enhanced", "enhanced_split") /\ Runs("enhanced_split", <<>>, {})

EnhancedXgb ==
  /\ Does("enhanced", "enhanced_xgb")
  /\ LET model == Stopped(Learn, setup.test)
     IN  Runs("enhanced_xgb", [xgb |-> model], {Measured("stopped_test", Scored(model))})
EnhancedLgb ==
  /\ Does("enhanced", "enhanced_lgb")
  /\ LET model == Stopped(Learn, setup.test)
     IN  Runs("enhanced_lgb", [lgb |-> model], {Measured("stopped_test", Scored(model))})
EnhancedTft == Does("enhanced", "enhanced_tft") /\ NetOnTest("enhanced_tft")

\* The weights of the best of a grid, on the test set.
EnhancedWeights ==
  /\ Does("enhanced", "enhanced_weights")
  /\ Runs("enhanced_weights", <<>>, {Measured("picked_test", Picked(AllScored))})
EnhancedLog == Does("enhanced", "enhanced_log") /\ Runs("enhanced_log", <<>>, {})

-----------------------------------------------------------------------------
(* train_enhanced_v3.py                                                    *)

V3Signals == {"credit_score", "fail_rate", "lending_per_salary", "dti_ratio", "age"}

V3Build ==
  /\ Does("v3", "v3_build")
  /\ Runs("v3_build",
          [data |-> LabelledBy(V3Signals, {"customer_id", "credit_stress", "high_risk_score"})], {})

\* The rounds of the model stopped on the test set are those of the
\* cross-validation, too.
V3Xgb ==
  /\ Does("v3", "v3_xgb")
  /\ LET model == Stopped(Learn, setup.test)
     IN  Runs("v3_xgb", [xgb |-> model],
              {Measured("stopped_test", Scored(model)), Measured("v3_cv", XgbCv(model, Learn, ns.data))})

\* A clone in the cross-validation has no callbacks.
V3Lgb ==
  /\ Does("v3", "v3_lgb")
  /\ LET model == Stopped(Learn, setup.test)
     IN  Runs("v3_lgb", [lgb |-> model],
              {Measured("stopped_test", Scored(model)), Measured("v3_cv", XgbCv({}, Learn, ns.data))})
V3Tft == Does("v3", "v3_tft") /\ NetOnTest("v3_tft")

\* Weights and the threshold of the best F1, both on the test set.
V3Weights ==
  /\ Does("v3", "v3_weights")
  /\ Runs("v3_weights", <<>>, {Measured("picked_test", Picked(Picked(AllScored)))})
V3Save == Does("v3", "v3_save") /\ Runs("v3_save", <<>>, {})

-----------------------------------------------------------------------------
(* PDI_Model_Training_Notebook.ipynb                                       *)

Pdi(step, names, early, binds, reports) ==
  program = "pdi" /\ at = step /\ Step(step, names, early, binds, reports)

PdiImports == Pdi("pdi_imports", {}, <<>>, [imports |-> TRUE], {})
PdiLoad == Pdi("pdi_load", {"imports"}, <<>>, [loaded |-> TRUE], {})
PdiCustomers == Pdi("pdi_customers", {"loaded"}, <<>>, <<>>, {})
PdiTransactions == Pdi("pdi_transactions", {"loaded"}, <<>>, <<>>, {})

\* features.  The merge makes the frame anew, without a label.
PdiMerge == Pdi("pdi_merge", {"loaded"}, <<>>, [features |-> "merged"], {})

\* The signals of the label stay among the features.
PdiLabel ==
  Pdi("pdi_label", {"features"}, <<>>,
      [features |-> "labelled", data |-> LabelledBy({"failed_autodebits", "lending_app"}, {"label"})], {})

PdiSplit ==
  /\ Does("pdi", "pdi_split")
  /\ \/ Bound({"features"}) /\ ns.features = "labelled" /\ Runs("pdi_split", [split |-> TRUE], {})
     \/ (Bound({"features"}) => ns.features = "merged") /\ Raises("pdi_split", <<>>)

PdiXgb ==
  Pdi("pdi_xgb", {"split"}, <<>>, [xgb |-> Plain(Learn), cv |-> TRUE, xgb_test |-> Scored(Plain(Learn))],
      {Measured("pdi_test", Scored(Plain(Learn))), Measured("pdi_cv", XgbCv({}, Learn, ns.data))})

\* The folds are those of the cell before; the model is there without them.
PdiLgb ==
  Pdi("pdi_lgb", {"split", "cv"}, IF Bound({"split"}) THEN [lgb |-> Plain(Learn)] ELSE <<>>,
      [lgb |-> Plain(Learn), lgb_test |-> Scored(Plain(Learn))],
      {Measured("pdi_test", Scored(Plain(Learn))), Measured("pdi_cv", XgbCv({}, Learn, ns.data))})

\* Twenty epochs and no validation.
PdiLstm ==
  Pdi("pdi_lstm", {"split"}, <<>>, [lstm |-> Plain(Learn), lstm_test |-> Scored(Plain(Learn))],
      {Measured("pdi_test", Scored(Plain(Learn)))})

\* The tuned model is measured and not used again; without optuna it is the first one.
PdiOptuna ==
  Pdi("pdi_optuna", {"split", "xgb_test"}, <<>>, <<>>,
      {Measured("pdi_test", Score(FitTo(XgbCv({}, Learn, ns.data)), setup.test, ns.data))})

PdiEnsemble ==
  Pdi("pdi_ensemble", {"split", "xgb_test", "lgb_test", "lstm_test"}, <<>>, [probs |-> TRUE],
      {Measured("pdi_test", Together({ns.xgb_test, ns.lgb_test, ns.lstm_test}))})

PdiShap == Pdi("pdi_shap", {"split", "xgb"}, <<>>, [shap |-> TRUE], {})
PdiBeeswarm == Pdi("pdi_beeswarm", {"split", "shap"}, <<>>, <<>>, {})
PdiWaterfall == Pdi("pdi_waterfall", {"split", "shap", "probs"}, <<>>, <<>>, {})
PdiCurves == Pdi("pdi_curves", {"split", "xgb_test", "lgb_test", "lstm_test", "probs"}, <<>>, <<>>, {})
PdiConfusion == Pdi("pdi_confusion", {"split", "probs"}, <<>>, <<>>, {})
PdiSave == Pdi("pdi_save", {"xgb", "lgb", "lstm", "shap"}, <<>>, <<>>, {})

PdiNext ==
  \/ PdiImports \/ PdiLoad \/ PdiCustomers \/ PdiTransactions \/ PdiMerge \/ PdiLabel \/ PdiSplit
  \/ PdiXgb \/ PdiLgb \/ PdiLstm \/ PdiOptuna \/ PdiEnsemble \/ PdiShap \/ PdiBeeswarm
  \/ PdiWaterfall \/ PdiCurves \/ PdiConfusion \/ PdiSave

-----------------------------------------------------------------------------
(* The recurrent networks, trained with a validation set.                  *)

TrainLstm ==
  Does("lstm", "lstm") /\ \E auc \in Auc : Runs("lstm", <<>>, {Reported("lstm", LstmTrain(auc))})
TrainKeras ==
  /\ Does("keras", "keras")
  /\ \E auc \in Auc : \E t \in KerasTrain(auc) : Runs("keras", <<>>, {Reported("keras", t)})

-----------------------------------------------------------------------------

TwoPartNext ==
  \/ ModelsLoad \/ ModelsSplit \/ ModelsXgb \/ ModelsLgb \/ ModelsTft \/ ModelsWeights \/ ModelsLog
  \/ EnhancedFeatures \/ EnhancedLabels \/ EnhancedSplit \/ EnhancedXgb \/ EnhancedLgb
  \/ EnhancedTft \/ EnhancedWeights \/ EnhancedLog
  \/ V3Build \/ V3Xgb \/ V3Lgb \/ V3Tft \/ V3Weights \/ V3Save

\* Of generate_50k.py's tables the second notebook's label makes no use: it finds
\* no signal in them.
Start(p) == (p = "pdi" => setup.tables = "counting") /\ Open(p)

Next ==
  \/ \E p \in Program : Start(p)
  \/ Close \/ Jump
  \/ TuneXgbStep \/ TuneLgbStep
  \/ TrainNext \/ ResultsNext
  \/ TwoPartNext \/ PdiNext
  \/ TrainLstm \/ TrainKeras

Spec == Init /\ [][Next]_vars

-----------------------------------------------------------------------------
(* What the numbers are worth.                                             *)

TypeOK ==
  /\ setup \in Setup
  /\ program \in Program \cup {"none"}
  /\ at \in Place
  /\ IF program = "none" THEN at = "none" /\ ns = <<>>
     ELSE at \in StepOf(program) \cup {"end"}
  /\ failed \in Place
  /\ jumps \in 0..MaxJumps
  /\ \A r \in shown : r.true \in BOOLEAN
  /\ params \in [xgb: SUBSET Customer, lgb: SUBSET Customer]

\* A number that needs no caveat does not know the labels it is measured
\* against: the out-of-fold scores always, and those of XGBoost on the test
\* set and in its folds unless the tuner, which uses every label, has left
\* parameters, in whatever order the cells are run (train.py, cell 8, 13 and
\* 37); train_models.py's trees, too, if payments label the customers.
HonestTests ==
  \A r \in shown :
    \/ r.of = "oof"
    \/ r.of \in {"xgb_test", "xgb_cv", "audit"} /\ params.xgb = {}
    \/ r.of = "models_test" /\ ns.data = {}
    => r.true

\* What the meta-learner is fitted on has not seen the labels it is fitted to
\* (train.py: "Proper OOF Meta-Learner (no leakage)"), and neither has, without
\* tuned parameters, what the calibrator is fitted on ("CALIBRATION set (not
\* train, not test)").
HeldOut ==
  \A r \in shown :
    \/ r.of = "meta_rows"
    \/ r.of = "cal_rows" /\ params = [xgb |-> {}, lgb |-> {}]
    => r.true

\* If the cells are run from the top, or train.py is, the calibrator is fitted to
\* the kind of scores, fixed-weight or stacked, that it then calibrates.
CalibratedAlike ==
  jumps = 0 /\ "calibrated" \in DOMAIN ns => ns.calibrated.fit = ns.calibrated.to

\* A program run from the top raises only for a last batch of one customer, a
\* meta-learner left unfitted, an uplift model without enough customers, or tables
\* that have a feature already: no cell misses a name.
TopDownRuns ==
  jumps = 0 /\ failed # "none" =>
    CASE failed = "tft" -> TftRaises(TftPart(setup.seqs))
      [] failed \in {"models_tft", "enhanced_tft", "v3_tft"} -> TftRaises(Learn)
      [] failed = "ensemble" -> ns.stacker.is = "unfitted"
      [] failed = "result" -> ns.uplift_short
      [] failed = "enhanced_features" -> setup.tables = "counting"
      [] OTHER -> FALSE

\* The network a program goes on with, and saves, is the one whose best AUC it
\* reports (tft_model.py and tf_lstm_model.py).
SavedIsReported == \A r \in shown : r.of \in {"tft", "keras"} => r.true
=============================================================================
