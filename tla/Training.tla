------------------------------ MODULE Training ------------------------------
(***************************************************************************)
(* ml/train.py and its notebook, training_results.ipynb: three models, a   *)
(* meta-learner on out-of-fold scores, a calibrator, thresholds, and what  *)
(* explains and audits them.  The two share most of their code; the script *)
(* has every name when it comes to a step, a cell of the notebook has what *)
(* was run before it.  The files of the models are in ModelFiles.          *)
(***************************************************************************)
EXTENDS Session

Script(step) == program = "train" /\ at = step
Cell(step) == program = "results" /\ at = step

-----------------------------------------------------------------------------
(* What the steps compute, in the script and in the notebook alike.        *)

TestScores(model) == Score(model, setup.test, {})

XgbTrained == XgbFit(params.xgb, setup.train, setup.test)
XgbBinds == [xgb |-> XgbTrained, xgb_test |-> TestScores(XgbTrained)]
XgbReports ==
  { Measured("xgb_test", TestScores(XgbTrained)),
    Measured("xgb_cv", XgbCv(params.xgb, setup.train, {})) }

LgbTrained == LgbFit(params.lgb, setup.train, setup.test)
LgbBinds == [lgb |-> LgbTrained, lgb_test |-> TestScores(LgbTrained)]
LgbReports ==
  { Measured("lgb_test", TestScores(LgbTrained)),
    Measured("lgb_cv", LgbCv(params.lgb, setup.train, {})) }

NoTft == [net |-> FALSE, saw |-> {}]

\* The first four fifths of the customers with sequences train the network,
\* whatever part of the split they are in; the others choose its epoch.
TftStep ==
  LET learn == TftPart(setup.seqs)
      Net(saw) == [tft |-> [net |-> TRUE, saw |-> saw]]
  IN  \/ Cardinality(setup.seqs) <= MinSeq /\ Runs("tft", [tft |-> NoTft], {})
      \/ /\ Cardinality(setup.seqs) > MinSeq
         /\ TftRaises(learn)
         /\ Raises("tft", Net(learn))
      \/ /\ Cardinality(setup.seqs) > MinSeq
         /\ ~TftRaises(learn)
         /\ \E auc \in Auc :
              Runs("tft", Net(TftFit(learn, setup.seqs \ learn)), {Reported("tft", TftTrain(auc))})

TftScores(rows) == TftEach(ns.tft.saw, rows, setup.seqs)

\* build_meta_features_batch and the fit of the meta-learner.  The model is in its
\* place before it is fitted, and a failed save leaves it fitted.
MetaStep ==
  LET oof == IF ns.tft.net THEN TftScores(setup.train) ELSE ns.oof_tft
      Left(m) == [oof_tft |-> oof, meta_metrics |-> TRUE, stacker |-> m]
      rows == {ns.oof, oof}
  IN  \/ Runs("meta", Left(ns.stacker), {})
      \/ Runs("meta", Left([is |-> "unfitted", saw |-> {}]), {})
      \/ Runs("meta", Left(MetaFit(rows)), {Measured("meta_rows", Together(rows))})

\* The scores of all models, with 0.5 for the network where it has none.
Predictions(rows) ==
  {Score(ns.xgb, rows, {}), Score(ns.lgb, rows, {})} \cup
  (IF ns.tft.net THEN {TftScores(rows)} ELSE {})

\* ensemble_probs is the fixed-weight score until the stacked one replaces it.
FixedProbs ==
  [ensemble |-> TRUE, tft_test |-> TftScores(setup.test),
   probs |-> Ensemble(NoMeta, Predictions(setup.test))]

EnsembleStep ==
  \/ ns.stacker.is = "unfitted" /\ Raises("ensemble", FixedProbs)
  \/ /\ ns.stacker.is # "unfitted"
     /\ LET e == Ensemble(ns.stacker, Predictions(setup.test))
        IN  Runs("ensemble", Rebound(FixedProbs, [probs |-> e]), {Measured("ensemble_test", e.score)})

\* Mutant of CalEnsemble: the calibration set keeps the fixed weights.
CalFixed == Ensemble(NoMeta, Predictions(setup.cal))

CalEnsemble == Ensemble(ns.stacker, Predictions(setup.cal))

\* The calibrator is fitted and saved before the test scores are calibrated.
CalibrationBinds ==
  LET cal == CalibratorFit(CalEnsemble)
  IN  [ calibrator |-> cal, cal_probs |-> CalEnsemble.score, cal_metrics |-> TRUE,
        calibrated |-> [fit |-> cal.kind, to |-> ns.probs.kind,
                        score |-> Calibrated(cal, ns.probs.score)] ]
CalibrationReports ==
  { Measured("cal_rows", CalEnsemble.score),
    Measured("calibrated_test", CalibrationBinds.calibrated.score) }

\* optimize_thresholds on the test set, whose recall it reports.
ThresholdBinds == [thresholds |-> FitTo(ns.calibrated.score)]
ThresholdReports == {Measured("recall_test", Picked(ns.calibrated.score))}

ConformalReports == {Measured("coverage", ConformalScores(Calibrated(ns.calibrator, ns.cal_probs)))}

\* Treatments are drawn at random.
UpliftStep ==
  \E treated \in SUBSET setup.train :
    LET short == UpliftShort(treated, setup.train)
    IN  Runs("uplift", [uplift_short |-> short],
             IF short THEN {} ELSE {Measured("uplift", UpliftScores(treated, setup.train))})

\* The audit scores the test set once more, if there are demographics for it.
FairnessStep ==
  \E reports \in SUBSET {Measured("audit", TestScores(ns.xgb))} : Runs("fairness", <<>>, reports)

-----------------------------------------------------------------------------
(* train_pipeline                                                          *)

TrainData == Script("data") /\ Runs("data", [data |-> TRUE], {})
TrainSplit == Script("split") /\ Runs("split", [split |-> TRUE], {})
TrainXgb == Script("xgb") /\ Runs("xgb", XgbBinds, XgbReports)
TrainLgb == Script("lgb") /\ Runs("lgb", LgbBinds, LgbReports)
TrainTft == Script("tft") /\ TftStep

OofBinds ==
  [stacker |-> NoMeta, oof |-> Oof(setup.train), oof_tft |-> [c \in setup.train |-> {}]]

TrainOof == Script("oof") /\ Runs("oof", OofBinds, {Measured("oof", OofBinds.oof)})
TrainMeta == Script("meta") /\ MetaStep
TrainEnsemble == Script("ensemble") /\ EnsembleStep
TrainCalibration == Script("calibration") /\ Runs("calibration", CalibrationBinds, CalibrationReports)
TrainThresholds == Script("thresholds") /\ Runs("thresholds", ThresholdBinds, ThresholdReports)

\* SHAP and LIME, the audit, the survival model (which has no fit) and MLflow run
\* in try blocks, and bind nothing the other steps read.
TrainExplain == Script("explain") /\ Runs("explain", <<>>, {})
TrainFairness == Script("fairness") /\ FairnessStep
TrainSurvival == Script("survival") /\ Runs("survival", <<>>, {})
TrainConformal == Script("conformal") /\ Runs("conformal", <<>>, ConformalReports)
TrainUplift == Script("uplift") /\ UpliftStep
TrainMlflow == Script("mlflow") /\ Runs("mlflow", <<>>, {})

\* The summary formats a mean uplift, which an uplift model without enough
\* customers does not have: 'N/A' is no number.
TrainResult ==
  /\ Script("result")
  /\ \/ ns.uplift_short /\ Raises("result", <<>>)
     \/ ~ns.uplift_short /\ Runs("result", <<>>, {})

TrainNext ==
  \/ TrainData \/ TrainSplit \/ TrainXgb \/ TrainLgb \/ TrainTft \/ TrainOof \/ TrainMeta
  \/ TrainEnsemble \/ TrainCalibration \/ TrainThresholds \/ TrainExplain \/ TrainFairness
  \/ TrainSurvival \/ TrainConformal \/ TrainUplift \/ TrainMlflow \/ TrainResult

-----------------------------------------------------------------------------
(* training_results.ipynb.  Each cell names what it needs.                 *)

Data == {"imports", "data"}
Split == {"imports", "data", "split"}

ResultsImports == Cell("imports") /\ Runs("imports", [imports |-> TRUE], {})
ResultsData == Cell("data") /\ Step("data", {"imports"}, <<>>, [data |-> TRUE], {})
ResultsBalance == Cell("balance") /\ Shows("balance", Data)
ResultsSplit == Cell("split") /\ Step("split", Data, <<>>, [split |-> TRUE], {})

\* Mutant of ResultsXgb: joblib is imported by a cell that is gone.
XgbWithoutJoblib == Cell("xgb") /\ Step("xgb", Split, <<>>, XgbBinds, XgbReports)

\* The cell of XGBoost is the one that imports joblib, first of all.
ResultsXgb ==
  /\ Cell("xgb")
  /\ Step("xgb", Split, [joblib |-> TRUE], Rebound(XgbBinds, [joblib |-> TRUE]), XgbReports)

\* That of LightGBM uses it, if there are tuned parameters to load.
ResultsLgb ==
  /\ Cell("lgb")
  /\ LET names == IF params.lgb = {} THEN Split ELSE Split \cup {"joblib"}
     IN  Step("lgb", names, <<>>, LgbBinds, LgbReports)

ResultsTft ==
  /\ Cell("tft")
  /\ \/ Bound(Data) /\ TftStep
     \/ ~Bound(Data) /\ Raises("tft", IF Bound({"imports"}) THEN [tft |-> NoTft] ELSE <<>>)

ResultsOof ==
  /\ Cell("oof")
  /\ Step("oof", Split, IF Bound({"imports"}) THEN [stacker |-> NoMeta] ELSE <<>>,
          OofBinds, {Measured("oof", OofBinds.oof)})

\* The scores of the network are asked for outside the try block; inside, a
\* missing name is one more error that is printed.
ResultsMeta ==
  /\ Cell("meta")
  /\ \/ Bound(Split \cup {"tft", "oof", "stacker"}) /\ MetaStep
     \/ /\ ~Bound(Split \cup {"tft", "oof", "stacker"})
        /\ "tft" \in DOMAIN ns /\ ~ns.tft.net
        /\ Runs("meta", [meta_metrics |-> TRUE], {})
     \/ /\ ~Bound(Split \cup {"tft", "oof", "stacker"})
        /\ "tft" \in DOMAIN ns => ns.tft.net
        /\ Raises("meta", <<>>)

\* What the cell has bound when it misses the models, or the meta-learner.
ResultsEnsemble ==
  LET models == {"imports", "xgb", "lgb"}
  IN  /\ Cell("ensemble")
      /\ \/ Bound(models \cup {"tft", "stacker"}) /\ EnsembleStep
         \/ /\ Bound(models \cup {"tft"}) /\ ~Bound({"stacker"})
            /\ Raises("ensemble", FixedProbs)
         \/ /\ Bound(models) /\ ~Bound({"tft"})
            /\ Raises("ensemble", [ensemble |-> TRUE, tft_test |-> <<>>])
         \/ /\ ~Bound(models)
            /\ Raises("ensemble", IF Bound({"imports"}) THEN [ensemble |-> TRUE] ELSE <<>>)

ResultsRoc ==
  /\ Cell("roc")
  /\ Shows("roc", {"imports", "split", "probs", "xgb_test", "lgb_test", "tft_test"})

\* A calibrator that is not fitted is bound first, the scores of the calibration
\* set before they are stacked, and a fitted one before the test set is missed.
CalibrationLeft ==
  CASE ~Bound({"imports"}) -> <<>>
    [] Bound({"imports"}) /\ ~Bound({"xgb", "lgb", "tft", "ensemble"}) ->
         [calibrator |-> NoCalibrator]
    [] Bound({"imports", "xgb", "lgb", "tft", "ensemble"}) ->
         IF ~Bound({"stacker"}) \/ ns.stacker.is = "unfitted"
         THEN [calibrator |-> NoCalibrator,
               cal_probs |-> Ensemble(NoMeta, Predictions(setup.cal)).score]
         ELSE [calibrator |-> CalibratorFit(CalEnsemble), cal_probs |-> CalEnsemble.score,
               cal_metrics |-> TRUE]

ResultsCalibration ==
  LET names == {"imports", "xgb", "lgb", "tft", "ensemble", "stacker", "probs"}
  IN  /\ Cell("calibration")
      /\ \/ /\ Bound(names) /\ ns.stacker.is # "unfitted"
            /\ Runs("calibration", CalibrationBinds, CalibrationReports)
         \/ /\ Bound(names) => ns.stacker.is = "unfitted"
            /\ Raises("calibration", CalibrationLeft)

ResultsReliability == Cell("reliability") /\ Shows("reliability", {"imports", "split", "calibrated"})

ResultsThresholds ==
  /\ Cell("thresholds")
  /\ IF Bound({"imports", "split", "calibrated"})
     THEN Runs("thresholds", ThresholdBinds, ThresholdReports)
     ELSE Raises("thresholds", <<>>)

ResultsSweep ==
  Cell("sweep") /\ Shows("sweep", {"imports", "split", "calibrated", "thresholds"})

\* shap, the explainer and its values, from the booster of XGBoost.
ResultsShap == Cell("shap") /\ Step("shap", Split \cup {"xgb"}, <<>>, [shap |-> ns.xgb], {})
ResultsShapBar == Cell("shap_bar") /\ Shows("shap_bar", {"shap", "split", "data"})
ResultsWaterfall ==
  /\ Cell("waterfall")
  /\ Shows("waterfall", {"imports", "data", "split", "calibrated", "ensemble", "shap"})

\* The cells from here to the audit are try blocks.
ResultsSurvival == Cell("survival") /\ Runs("survival", <<>>, {})
ResultsConformal ==
  /\ Cell("conformal")
  /\ Runs("conformal", <<>>,
          IF Bound({"imports", "split", "calibrator", "cal_probs"}) THEN ConformalReports ELSE {})
ResultsUplift ==
  /\ Cell("uplift")
  /\ \/ Bound(Split) /\ UpliftStep
     \/ ~Bound(Split) /\ Runs("uplift", <<>>, {})
ResultsFairness ==
  /\ Cell("fairness")
  /\ \/ Bound(Split \cup {"xgb"}) /\ FairnessStep
     \/ ~Bound(Split \cup {"xgb"}) /\ Runs("fairness", <<>>, {})

ResultsDemo ==
  /\ Cell("demo")
  /\ Shows("demo", Split \cup {"xgb_test", "lgb_test", "tft_test", "ensemble", "calibrated",
                               "thresholds", "shap"})

ResultsSummary ==
  /\ Cell("summary")
  /\ Step("summary", Split \cup {"xgb_test", "lgb_test", "tft_test", "probs", "meta_metrics",
                                 "calibrated", "cal_metrics", "thresholds"}, <<>>, <<>>,
          {Measured("xgb_test", ns.xgb_test), Measured("lgb_test", ns.lgb_test)})

ResultsFiles == Cell("files") /\ Shows("files", {"imports"})

ResultsNext ==
  \/ ResultsImports \/ ResultsData \/ ResultsBalance \/ ResultsSplit \/ ResultsXgb \/ ResultsLgb
  \/ ResultsTft \/ ResultsOof \/ ResultsMeta \/ ResultsEnsemble \/ ResultsRoc
  \/ ResultsCalibration \/ ResultsReliability \/ ResultsThresholds \/ ResultsSweep
  \/ ResultsShap \/ ResultsShapBar \/ ResultsWaterfall \/ ResultsSurvival \/ ResultsConformal
  \/ ResultsUplift \/ ResultsFairness \/ ResultsDemo \/ ResultsSummary \/ ResultsFiles
=============================================================================
