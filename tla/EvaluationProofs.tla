-------------------------- MODULE EvaluationProofs --------------------------
(***************************************************************************)
(* Which of the printed numbers know nothing of the labels they are        *)
(* measured against, for any customers, split, folds, batches and cells    *)
(* run out of order; that the calibrator meets the scores it was fitted    *)
(* to; and what a program that is run from the top can raise.              *)
(***************************************************************************)
EXTENDS Evaluation, FiniteSetTheorems, WellFoundedInduction, TLAPS

-----------------------------------------------------------------------------
(* What the learning code makes of labels.                                 *)

LEMMA FoldsApart ==
  ASSUME NEW rows, NEW c
  PROVE  c \notin OtherFolds(rows, c) /\ OtherFolds(rows, c) \subseteq rows
BY DEF OtherFolds

\* Out-of-fold scores know nothing of their own labels (train.py, step 5).
THEOREM OofHonest ==
  ASSUME NEW rows
  PROVE  Honest(Oof(rows))
BY FoldsApart DEF Honest, Oof

LEMMA CvHonest ==
  ASSUME NEW rows
  PROVE  Honest(XgbCv({}, rows, {}))
BY FoldsApart DEF Honest, XgbCv

LEMMA ScoreHonest ==
  ASSUME NEW m, NEW rows, m \cap rows = {}
  PROVE  Honest(Score(m, rows, {}))
BY DEF Honest, Score

\* The scores of the network, asked for one customer at a time, depend on nobody,
\* whatever the network was trained on (tft_model.py, predict_proba).
THEOREM TftKnowsNobody ==
  ASSUME NEW m, NEW rows, NEW seqs
  PROVE  TftEach(m, rows, seqs) = [c \in rows |-> {}]
<1>1. \A c : Cardinality({c}) = 1
  BY FS_Singleton
<1> QED
  BY <1>1 DEF TftEach, TftIndexable

LEMMA TogetherOf ==
  ASSUME NEW S, NEW R, S # {}, \A s \in S : DOMAIN s = R
  PROVE  /\ DOMAIN Together(S) = R
         /\ \A c \in R : Together(S)[c] = UNION {s[c] : s \in S}
BY DEF Together

LEMMA TogetherIn ==
  ASSUME NEW S, NEW R, NEW X, S # {}, \A s \in S : DOMAIN s = R,
         \A s \in S : \A c \in R : s[c] \subseteq X
  PROVE  DOMAIN Together(S) = R /\ \A c \in R : Together(S)[c] \subseteq X
<1>1. DOMAIN Together(S) = R /\ \A c \in R : Together(S)[c] = UNION {s[c] : s \in S}
  BY TogetherOf
<1>2. \A c \in R : UNION {s[c] : s \in S} \subseteq X
  OBVIOUS
<1> QED
  BY <1>1, <1>2

-----------------------------------------------------------------------------
(* The session.                                                            *)

LEMMA ReboundAt ==
  ASSUME NEW n, NEW b
  PROVE  /\ DOMAIN Rebound(n, b) = DOMAIN n \cup DOMAIN b
         /\ \A k \in DOMAIN b : Rebound(n, b)[k] = b[k]
         /\ \A k \in DOMAIN n \ DOMAIN b : Rebound(n, b)[k] = n[k]
BY DEF Rebound

LEMMA AfterIs ==
  ASSUME NEW i \in DOMAIN Order[program],
         \A j \in DOMAIN Order[program] : Order[program][j] = Order[program][i] => j = i
  PROVE  After(Order[program][i]) = IF i = Len(Order[program]) THEN "end" ELSE Order[program][i+1]
<1> DEFINE o == Order[program]
<1>1. (CHOOSE j \in DOMAIN o : o[j] = o[i]) = i
  OBVIOUS
<1> QED
  BY <1>1 DEF After

\* The order of train_pipeline.
LEMMA TrainAfter ==
  ASSUME program = "train"
  PROVE  /\ After("data") = "split"
         /\ After("split") = "xgb"
         /\ After("xgb") = "lgb"
         /\ After("lgb") = "tft"
         /\ After("tft") = "oof"
         /\ After("oof") = "meta"
         /\ After("meta") = "ensemble"
         /\ After("ensemble") = "calibration"
         /\ After("calibration") = "thresholds"
         /\ After("thresholds") = "explain"
         /\ After("explain") = "fairness"
         /\ After("fairness") = "survival"
         /\ After("survival") = "conformal"
         /\ After("conformal") = "uplift"
         /\ After("uplift") = "mlflow"
         /\ After("mlflow") = "result"
         /\ After("result") = "end"
<1> DEFINE o == Order[program]
<1>1. o = <<"data", "split", "xgb", "lgb", "tft", "oof", "meta", "ensemble", "calibration", "thresholds", "explain", "fairness", "survival", "conformal", "uplift", "mlflow", "result">>
  BY DEF Order
<1>2. DOMAIN o = 1..17 /\ Len(o) = 17
  BY <1>1
<1>3. \A i, j \in DOMAIN o : o[i] = o[j] => i = j
  BY <1>1, <1>2
<1>4. \A i \in DOMAIN o : After(o[i]) = IF i = 17 THEN "end" ELSE o[i+1]
  BY <1>2, <1>3, AfterIs
<1> QED
  BY <1>1, <1>2, <1>4

LEMMA ModelsAfter ==
  ASSUME program = "models"
  PROVE  /\ After("models_load") = "models_split"
         /\ After("models_split") = "models_xgb"
         /\ After("models_xgb") = "models_lgb"
         /\ After("models_lgb") = "models_tft"
         /\ After("models_tft") = "models_weights"
         /\ After("models_weights") = "models_log"
         /\ After("models_log") = "end"
<1> DEFINE o == Order[program]
<1>1. o = <<"models_load", "models_split", "models_xgb", "models_lgb", "models_tft",
            "models_weights", "models_log">>
  BY DEF Order
<1>2. DOMAIN o = 1..7 /\ Len(o) = 7
  BY <1>1
<1>3. \A i, j \in DOMAIN o : o[i] = o[j] => i = j
  BY <1>1, <1>2
<1>4. \A i \in DOMAIN o : After(o[i]) = IF i = 7 THEN "end" ELSE o[i+1]
  BY <1>2, <1>3, AfterIs
<1> QED
  BY <1>1, <1>2, <1>4

-----------------------------------------------------------------------------
(* The invariant.                                                          *)

\* Whose labels the names of train.py and its notebook stand for.
LearnedIn(n) ==
  /\ "xgb" \in DOMAIN n => n.xgb \subseteq params.xgb \cup setup.train
  /\ "lgb" \in DOMAIN n => n.lgb \subseteq params.lgb \cup setup.train \cup setup.test
  /\ "stacker" \in DOMAIN n => n.stacker.saw \subseteq setup.train
  /\ "oof" \in DOMAIN n => "oof_tft" \in DOMAIN n /\ n.oof = Oof(setup.train)
  /\ "oof_tft" \in DOMAIN n => n.oof_tft = [c \in setup.train |-> {}]
  /\ "xgb_test" \in DOMAIN n /\ params.xgb = {} => Honest(n.xgb_test)

Learned == program \in {"train", "results"} => LearnedIn(ns)

\* What the scripts have bound when they come to the steps that use it.
TillFairness == {"lgb", "tft", "oof", "meta", "ensemble", "calibration", "thresholds",
                 "explain", "fairness"}
Ready ==
  /\ program = "train" =>
       /\ at \in TillFairness => "xgb" \in DOMAIN ns
       /\ at \in {"tft", "oof", "meta", "ensemble", "calibration"} => "lgb" \in DOMAIN ns
       /\ at \in {"meta", "ensemble", "calibration"} => {"stacker", "oof"} \subseteq DOMAIN ns
  /\ program = "models" =>
       (at \in {"models_split", "models_xgb", "models_lgb"} => "data" \in DOMAIN ns)

\* The numbers the two properties are about.
Caveat == {"oof", "xgb_test", "xgb_cv", "audit", "models_test", "meta_rows", "cal_rows"}
Plainly(reports) == \A r \in reports : r.of \notin Caveat

LabelInv == setup \in Setup /\ Learned /\ Ready /\ HonestTests /\ HeldOut

LEMMA PlainlyHonest ==
  ASSUME Plainly(shown')
  PROVE  HonestTests' /\ HeldOut'
BY DEF Plainly, Caveat, HonestTests, HeldOut

Learnt == {"xgb", "lgb", "stacker", "oof", "oof_tft", "xgb_test"}

LEMMA LearnedRebound ==
  ASSUME NEW n, NEW b, LearnedIn(n), LearnedIn(b)
  PROVE  LearnedIn(Rebound(n, b))
<1> DEFINE m == Rebound(n, b)
<1>1. /\ DOMAIN m = DOMAIN n \cup DOMAIN b
      /\ \A k \in DOMAIN b : m[k] = b[k]
      /\ \A k \in DOMAIN n \ DOMAIN b : m[k] = n[k]
  BY ReboundAt
<1> HIDE DEF m
<1>2. LearnedIn(m)
  BY <1>1 DEF LearnedIn
<1> QED
  BY <1>2 DEF m

LEMMA LearnedKept ==
  ASSUME Learned, UNCHANGED <<setup, program, params>>, NEW b, ns' = Rebound(ns, b),
         LearnedIn(b)
  PROVE  Learned'
<1>1. program \in {"train", "results"} => LearnedIn(ns')
  BY LearnedRebound DEF Learned
<1> QED
  BY <1>1 DEF Learned, LearnedIn

LEMMA QuietLearned ==
  ASSUME NEW b, DOMAIN b \cap Learnt = {}
  PROVE  LearnedIn(b)
BY DEF LearnedIn, Learnt

\* A step that binds none of those names and prints none of those numbers.
Quiet ==
  /\ UNCHANGED <<setup, program, params>>
  /\ Plainly(shown')
  /\ \E b : ns' = Rebound(ns, b) /\ DOMAIN b \cap Learnt = {}

LEMMA QuietKeeps ==
  ASSUME LabelInv, Quiet, Ready'
  PROVE  LabelInv'
<1>1. HonestTests' /\ HeldOut'
  BY PlainlyHonest DEF Quiet
<1>2. Learned'
  BY LearnedKept, QuietLearned DEF Quiet, LabelInv
<1> QED
  BY <1>1, <1>2 DEF Quiet, LabelInv

\* A step that completes, or raises, with such names and numbers.
LEMMA QuietRuns ==
  ASSUME NEW step, NEW b, NEW reports, Runs(step, b, reports), DOMAIN b \cap Learnt = {},
         Plainly(reports)
  PROVE  Quiet
BY DEF Runs, Completes, Quiet

LEMMA QuietRaises ==
  ASSUME NEW step, NEW b, Raises(step, b), DOMAIN b \cap Learnt = {}
  PROVE  Quiet
BY DEF Raises, Quiet, Plainly

\* The other programs share nothing with these.
LEMMA Elsewhere ==
  ASSUME LabelInv, program' \notin {"train", "results", "models"}, UNCHANGED setup,
         Plainly(shown')
  PROVE  LabelInv'
BY PlainlyHonest DEF LabelInv, Learned, Ready

-----------------------------------------------------------------------------
(* The steps that train.py and its notebook share.                         *)

LEMMA SplitApart ==
  ASSUME setup \in Setup
  PROVE  /\ setup.train \subseteq Customer /\ setup.cal \subseteq Customer
         /\ setup.test \subseteq Customer
         /\ setup.train \cap setup.cal = {} /\ setup.train \cap setup.test = {}
         /\ setup.cal \cap setup.test = {}
BY SessionAssumption

LEMMA TftQuiet ==
  ASSUME TftStep
  PROVE  Quiet
<1>1. \A saw : DOMAIN [tft |-> [net |-> TRUE, saw |-> saw]] \cap Learnt = {}
  BY DEF Learnt
<1>2. DOMAIN [tft |-> NoTft] \cap Learnt = {}
  BY DEF Learnt
<1>3. \A auc : Plainly({Reported("tft", TftTrain(auc))})
  BY DEF Plainly, Caveat, Reported
<1>4. Plainly({})
  BY DEF Plainly
<1> QED
  BY <1>1, <1>2, <1>3, <1>4, QuietRuns, QuietRaises DEF TftStep

LEMMA EnsembleQuiet ==
  ASSUME EnsembleStep
  PROVE  Quiet
<1>1. DOMAIN FixedProbs \cap Learnt = {}
  BY DEF FixedProbs, Learnt
<1>2. \A e : DOMAIN Rebound(FixedProbs, [probs |-> e]) \cap Learnt = {}
  <2>1. \A e : DOMAIN [probs |-> e] \cap Learnt = {}
    BY DEF Learnt
  <2>2. \A e : DOMAIN Rebound(FixedProbs, [probs |-> e]) = DOMAIN FixedProbs \cup DOMAIN [probs |-> e]
    BY ReboundAt
  <2> QED
    BY <1>1, <2>1, <2>2
<1>3. \A s : Plainly({Measured("ensemble_test", s)})
  BY DEF Plainly, Caveat, Measured
<1>4. CASE Raises("ensemble", FixedProbs)
  BY <1>1, <1>4, QuietRaises
<1> DEFINE e == Ensemble(ns.stacker, Predictions(setup.test))
<1>5. CASE Runs("ensemble", Rebound(FixedProbs, [probs |-> e]),
                {Measured("ensemble_test", e.score)})
  <2> HIDE DEF e
  <2> QED
    BY <1>2, <1>3, <1>5, QuietRuns
<1> QED
  BY <1>4, <1>5 DEF EnsembleStep

LEMMA UpliftQuiet ==
  ASSUME UpliftStep
  PROVE  Quiet
<1>1. \A short : DOMAIN [uplift_short |-> short] \cap Learnt = {}
  BY DEF Learnt
<1>2. \A short, s : Plainly(IF short THEN {} ELSE {Measured("uplift", s)})
  BY DEF Plainly, Caveat, Measured
<1> QED
  BY <1>1, <1>2, QuietRuns DEF UpliftStep

LEMMA XgbTrainedIn == XgbTrained \subseteq params.xgb \cup setup.train
BY DEF XgbTrained, XgbFit

LEMMA LgbTrainedIn == LgbTrained \subseteq params.lgb \cup setup.train \cup setup.test
BY DEF LgbTrained, LgbFit

LEMMA TestHonest ==
  ASSUME setup \in Setup, NEW m, m \subseteq setup.train
  PROVE  Honest(TestScores(m))
BY ScoreHonest, SplitApart DEF TestScores

LEMMA XgbLearned ==
  ASSUME setup \in Setup
  PROVE  LearnedIn(XgbBinds) /\ LearnedIn(Rebound(XgbBinds, [joblib |-> TRUE]))
<1>1. params.xgb = {} => Honest(TestScores(XgbTrained))
  BY TestHonest, XgbTrainedIn
<1>2. LearnedIn(XgbBinds)
  BY <1>1, XgbTrainedIn DEF LearnedIn, XgbBinds
<1>3. LearnedIn([joblib |-> TRUE])
  BY DEF LearnedIn
<1> QED
  BY <1>2, <1>3, LearnedRebound

LEMMA XgbHonest ==
  ASSUME setup \in Setup, shown' = XgbReports, UNCHANGED params
  PROVE  HonestTests' /\ HeldOut'
<1>1. params.xgb = {} => Honest(TestScores(XgbTrained)) /\ Honest(XgbCv(params.xgb, setup.train, {}))
  BY TestHonest, XgbTrainedIn, CvHonest
<1> QED
  BY <1>1 DEF XgbReports, Measured, HonestTests, HeldOut

LEMMA LgbLearned == LearnedIn(LgbBinds)
BY LgbTrainedIn DEF LearnedIn, LgbBinds

LEMMA LgbPlain == Plainly(LgbReports)
BY DEF LgbReports, Plainly, Caveat, Measured

LEMMA OofLearned == LearnedIn(OofBinds)
BY DEF LearnedIn, OofBinds, NoMeta

LEMMA OofsHonest ==
  ASSUME shown' = {Measured("oof", OofBinds.oof)}
  PROVE  HonestTests' /\ HeldOut'
<1>1. Honest(OofBinds.oof)
  BY OofHonest DEF OofBinds
<1> QED
  BY <1>1 DEF Measured, HonestTests, HeldOut

\* What the meta-learner is fitted to: out-of-fold scores of the trees, and scores
\* of the network that depend on nobody.
LEMMA MetaRows ==
  ASSUME NEW oof, oof = [c \in setup.train |-> {}]
  PROVE  LET rows == {Oof(setup.train), oof}
         IN  Honest(Together(rows)) /\ FitTo(Together(rows)) \subseteq setup.train
<1> DEFINE T == setup.train
           rows == {Oof(T), oof}
<1>1. \A s \in rows : DOMAIN s = T
  BY DEF Oof
<1>2. \A s \in rows : \A c \in T : s[c] \subseteq OtherFolds(T, c)
  BY DEF Oof
<1>3. DOMAIN Together(rows) = T /\ \A c \in T : Together(rows)[c] = UNION {s[c] : s \in rows}
  BY <1>1, TogetherOf
<1> HIDE DEF rows, T
<1>4. \A c \in T : Together(rows)[c] \subseteq OtherFolds(T, c)
  <2>1. ASSUME NEW c \in T PROVE UNION {s[c] : s \in rows} \subseteq OtherFolds(T, c)
    BY <1>2
  <2> QED
    BY <1>3, <2>1
<1>5. \A c \in T : c \notin Together(rows)[c] /\ Together(rows)[c] \subseteq T
  BY <1>4, FoldsApart
<1>6. Honest(Together(rows)) /\ FitTo(Together(rows)) \subseteq T
  BY <1>3, <1>5 DEF Honest, FitTo, Seen
<1> QED
  BY <1>6 DEF rows, T

LEMMA MetaKeeps ==
  ASSUME Learned, program \in {"train", "results"}, {"stacker", "oof"} \subseteq DOMAIN ns, MetaStep
  PROVE  Learned' /\ HonestTests' /\ HeldOut' /\ UNCHANGED <<setup, program, params>>
<1> DEFINE oof == IF ns.tft.net THEN TftScores(setup.train) ELSE ns.oof_tft
           Left(m) == [oof_tft |-> oof, meta_metrics |-> TRUE, stacker |-> m]
           rows == {ns.oof, oof}
<1>1. oof = [c \in setup.train |-> {}] /\ ns.oof = Oof(setup.train) /\ ns.stacker.saw \subseteq setup.train
  BY TftKnowsNobody DEF Learned, LearnedIn, TftScores
<1>2. Honest(Together(rows)) /\ FitTo(Together(rows)) \subseteq setup.train
  BY <1>1, MetaRows
<1>3. \E m, reports : /\ Runs("meta", Left(m), reports)
                      /\ m.saw \subseteq setup.train
                      /\ reports \in {{}, {Measured("meta_rows", Together(rows))}}
  <2>1. [is |-> "unfitted", saw |-> {}].saw \subseteq setup.train
    OBVIOUS
  <2>2. MetaFit(rows).saw \subseteq setup.train
    BY <1>2 DEF MetaFit
  <2> QED
    BY <1>1, <2>1, <2>2 DEF MetaStep
<1> HIDE DEF oof, rows
<1>4. PICK m, reports : /\ Runs("meta", Left(m), reports)
                        /\ m.saw \subseteq setup.train
                        /\ reports \in {{}, {Measured("meta_rows", Together(rows))}}
  BY <1>3
<1>5. UNCHANGED <<setup, program, params>> /\ ns' = Rebound(ns, Left(m)) /\ shown' = reports
  BY <1>4 DEF Runs, Completes
<1>6. LearnedIn(Left(m))
  BY <1>1, <1>4 DEF LearnedIn
<1>7. Learned'
  BY <1>5, <1>6, LearnedKept
<1>8. HonestTests' /\ HeldOut'
  BY <1>2, <1>4, <1>5 DEF HonestTests, HeldOut, Measured
<1> QED
  BY <1>5, <1>7, <1>8

\* What the calibrator is fitted to.
LEMMA CalHonest ==
  ASSUME setup \in Setup, Learned, program \in {"train", "results"},
         {"xgb", "lgb", "stacker"} \subseteq DOMAIN ns, params = [xgb |-> {}, lgb |-> {}]
  PROVE  Honest(CalEnsemble.score)
<1> DEFINE S == Predictions(setup.cal)
           R == setup.cal
           X == setup.train \cup setup.test
<1>1. ns.xgb \subseteq X /\ ns.lgb \subseteq X /\ ns.stacker.saw \subseteq X
  BY DEF Learned, LearnedIn
<1>2. S # {} /\ \A s \in S : DOMAIN s = R
  BY TftKnowsNobody DEF Predictions, TftScores, Score
<1>3. \A s \in S : \A c \in R : s[c] \subseteq X
  BY <1>1, TftKnowsNobody DEF Predictions, TftScores, Score
<1> HIDE DEF S, R, X
<1>4. DOMAIN Together(S) = R /\ \A c \in R : Together(S)[c] \subseteq X
  BY <1>2, <1>3, TogetherIn
<1> DEFINE score == Ensemble(ns.stacker, S).score
<1>5. DOMAIN score = R /\ \A c \in R : score[c] \subseteq X
  BY <1>1, <1>4 DEF Ensemble
<1> HIDE DEF score
<1>6. Honest(score)
  BY <1>5, SplitApart DEF Honest, R, X
<1> QED
  BY <1>6 DEF score, S, CalEnsemble

LEMMA CalibrationKeeps ==
  ASSUME setup \in Setup, Learned, program \in {"train", "results"},
         {"xgb", "lgb", "stacker"} \subseteq DOMAIN ns,
         Runs("calibration", CalibrationBinds, CalibrationReports)
  PROVE  Learned' /\ HonestTests' /\ HeldOut' /\ UNCHANGED <<setup, program, params>>
<1>1. /\ UNCHANGED <<setup, program, params>> /\ ns' = Rebound(ns, CalibrationBinds)
      /\ shown' = CalibrationReports
  BY DEF Runs, Completes
<1>2. DOMAIN CalibrationBinds \cap Learnt = {}
  BY DEF CalibrationBinds, Learnt
<1>3. Learned'
  BY <1>1, <1>2, QuietLearned, LearnedKept
<1>4. HonestTests' /\ HeldOut'
  BY <1>1, CalHonest DEF CalibrationReports, Measured, HonestTests, HeldOut
<1> QED
  BY <1>1, <1>3, <1>4

LEMMA FairnessKeeps ==
  ASSUME setup \in Setup, Learned, program \in {"train", "results"}, "xgb" \in DOMAIN ns,
         FairnessStep
  PROVE  Learned' /\ HonestTests' /\ HeldOut' /\ UNCHANGED <<setup, program, params>>
<1>1. /\ UNCHANGED <<setup, program, params>> /\ ns' = Rebound(ns, <<>>)
      /\ shown' \subseteq {Measured("audit", TestScores(ns.xgb))}
  BY DEF FairnessStep, Runs, Completes
<1>2. DOMAIN <<>> \cap Learnt = {}
  OBVIOUS
<1>3. Learned'
  BY <1>1, <1>2, QuietLearned, LearnedKept
<1>4. params.xgb = {} => Honest(TestScores(ns.xgb))
  BY TestHonest DEF Learned, LearnedIn
<1>5. HonestTests' /\ HeldOut'
  BY <1>1, <1>4 DEF Measured, HonestTests, HeldOut
<1> QED
  BY <1>1, <1>3, <1>5

LEMMA ThresholdsPlain == DOMAIN ThresholdBinds \cap Learnt = {} /\ Plainly(ThresholdReports)
BY DEF ThresholdBinds, ThresholdReports, Learnt, Plainly, Caveat, Measured

LEMMA ConformalPlain == Plainly(ConformalReports)
BY DEF ConformalReports, Plainly, Caveat, Measured

-----------------------------------------------------------------------------
(* train.py                                                                *)

LEMMA TrainReady ==
  ASSUME Ready, program = "train", UNCHANGED program, NEW step \in StepOf("train"),
         at = step, at' \in {After(step), "end"}, NEW b, ns' = Rebound(ns, b),
         step = "xgb" => "xgb" \in DOMAIN b,
         step = "lgb" => "lgb" \in DOMAIN b,
         step = "oof" => {"stacker", "oof"} \subseteq DOMAIN b
  PROVE  Ready'
<1>1. step \in {"data", "split", "xgb", "lgb", "tft", "oof", "meta", "ensemble", "calibration",
                "thresholds", "explain", "fairness", "survival", "conformal", "uplift", "mlflow",
                "result"}
  BY DEF StepOf, Order
<1>2. DOMAIN ns' = DOMAIN ns \cup DOMAIN b
  BY ReboundAt
<1> QED
  BY <1>1, <1>2, TrainAfter DEF Ready, TillFairness

LEMMA TrainQuiet ==
  ASSUME LabelInv, program = "train", Quiet, NEW step \in StepOf("train") \ {"xgb", "lgb", "oof"},
         at = step, at' \in {After(step), "end"}
  PROVE  LabelInv'
<1>1. PICK b : ns' = Rebound(ns, b) /\ DOMAIN b \cap Learnt = {}
  BY DEF Quiet
<1>2. Ready'
  BY <1>1, TrainReady DEF Quiet, LabelInv
<1> QED
  BY <1>2, QuietKeeps

\* A step that completes without binding any of those names.
LEMMA TrainRuns ==
  ASSUME LabelInv, program = "train", NEW step \in StepOf("train") \ {"xgb", "lgb", "oof"},
         NEW b, NEW reports, DOMAIN b \cap Learnt = {}, Plainly(reports),
         Runs(step, b, reports) \/ Raises(step, b)
  PROVE  LabelInv'
<1>1. Quiet
  BY QuietRuns, QuietRaises
<1>2. at = step /\ at' \in {After(step), "end"}
  BY DEF Runs, Completes, Raises, Notebook
<1> QED
  BY <1>1, <1>2, TrainQuiet

LEMMA TrainStep ==
  ASSUME LabelInv, TrainNext
  PROVE  LabelInv'
<1> USE DEF Script
<1>1. \A step \in {"data", "split", "xgb", "lgb", "tft", "oof", "meta", "ensemble", "calibration",
                   "thresholds", "explain", "fairness", "survival", "conformal", "uplift",
                   "mlflow", "result"} : step \in StepOf("train")
  BY DEF StepOf, Order
<1>2. program = "train"
  BY DEF TrainNext, TrainData, TrainSplit, TrainXgb, TrainLgb, TrainTft, TrainOof, TrainMeta,
         TrainEnsemble, TrainCalibration, TrainThresholds, TrainExplain, TrainFairness,
         TrainSurvival, TrainConformal, TrainUplift, TrainMlflow, TrainResult
<1>3. Plainly({}) /\ DOMAIN <<>> \cap Learnt = {}
  BY DEF Plainly
<1>4. LearnedIn(ns)
  BY <1>2 DEF LabelInv, Learned
<1>5. CASE TrainData
  <2>1. DOMAIN [data |-> TRUE] \cap Learnt = {}
    BY DEF Learnt
  <2> QED
    BY <1>1, <1>2, <1>3, <1>5, <2>1, TrainRuns DEF TrainData
<1>6. CASE TrainSplit
  <2>1. DOMAIN [split |-> TRUE] \cap Learnt = {}
    BY DEF Learnt
  <2> QED
    BY <1>1, <1>2, <1>3, <1>6, <2>1, TrainRuns DEF TrainSplit
<1>7. CASE TrainXgb
  <2>1. /\ UNCHANGED <<setup, program, params>> /\ ns' = Rebound(ns, XgbBinds)
        /\ shown' = XgbReports /\ at = "xgb" /\ at' = After("xgb")
    BY <1>7 DEF TrainXgb, Runs, Completes
  <2>2. Ready'
    <3>1. "xgb" \in DOMAIN XgbBinds
      BY DEF XgbBinds
    <3> QED
      BY <1>1, <1>2, <2>1, <3>1, TrainReady DEF LabelInv
  <2>3. Learned'
    BY <2>1, XgbLearned, LearnedKept DEF LabelInv
  <2> QED
    BY <2>1, <2>2, <2>3, XgbHonest DEF LabelInv
<1>8. CASE TrainLgb
  <2>1. /\ UNCHANGED <<setup, program, params>> /\ ns' = Rebound(ns, LgbBinds)
        /\ shown' = LgbReports /\ at = "lgb" /\ at' = After("lgb")
    BY <1>8 DEF TrainLgb, Runs, Completes
  <2>2. Ready'
    <3>1. "lgb" \in DOMAIN LgbBinds
      BY DEF LgbBinds
    <3> QED
      BY <1>1, <1>2, <2>1, <3>1, TrainReady DEF LabelInv
  <2>3. Learned'
    BY <2>1, LgbLearned, LearnedKept DEF LabelInv
  <2>4. HonestTests' /\ HeldOut'
    BY <2>1, LgbPlain, PlainlyHonest
  <2> QED
    BY <2>1, <2>2, <2>3, <2>4 DEF LabelInv
<1>9. CASE TrainTft
  <2>1. Quiet
    BY <1>9, TftQuiet DEF TrainTft
  <2>2. at = "tft" /\ at' \in {After("tft"), "end"}
    BY <1>2, <1>9 DEF TrainTft, TftStep, Runs, Completes, Raises, Notebook
  <2> QED
    BY <1>1, <1>2, <2>1, <2>2, TrainQuiet
<1>10. CASE TrainOof
  <2>1. /\ UNCHANGED <<setup, program, params>> /\ ns' = Rebound(ns, OofBinds)
        /\ shown' = {Measured("oof", OofBinds.oof)} /\ at = "oof" /\ at' = After("oof")
    BY <1>10 DEF TrainOof, Runs, Completes
  <2>2. Ready'
    <3>1. {"stacker", "oof"} \subseteq DOMAIN OofBinds
      BY DEF OofBinds
    <3> QED
      BY <1>1, <1>2, <2>1, <3>1, TrainReady DEF LabelInv
  <2>3. Learned'
    BY <2>1, OofLearned, LearnedKept DEF LabelInv
  <2> QED
    BY <2>1, <2>2, <2>3, OofsHonest DEF LabelInv
<1>11. CASE TrainMeta
  <2>1. PICK b, reports : Runs("meta", b, reports)
    BY <1>11 DEF TrainMeta, MetaStep
  <2>2. ns' = Rebound(ns, b) /\ at = "meta" /\ at' = After("meta")
    BY <2>1 DEF Runs, Completes
  <2>3. {"stacker", "oof"} \subseteq DOMAIN ns
    BY <1>2, <2>2 DEF LabelInv, Ready
  <2>4. Learned' /\ HonestTests' /\ HeldOut' /\ UNCHANGED <<setup, program, params>>
    BY <1>2, <1>11, <2>3, MetaKeeps DEF TrainMeta, LabelInv
  <2>5. Ready'
    BY <1>1, <1>2, <2>2, <2>4, TrainReady DEF LabelInv
  <2> QED
    BY <2>4, <2>5 DEF LabelInv
<1>12. CASE TrainEnsemble
  <2>1. Quiet
    BY <1>12, EnsembleQuiet DEF TrainEnsemble
  <2>2. at = "ensemble" /\ at' \in {After("ensemble"), "end"}
    BY <1>2, <1>12 DEF TrainEnsemble, EnsembleStep, Runs, Completes, Raises, Notebook
  <2> QED
    BY <1>1, <1>2, <2>1, <2>2, TrainQuiet
<1>13. CASE TrainCalibration
  <2>1. ns' = Rebound(ns, CalibrationBinds) /\ at = "calibration" /\ at' = After("calibration")
    BY <1>13 DEF TrainCalibration, Runs, Completes
  <2>2. {"xgb", "lgb", "stacker"} \subseteq DOMAIN ns
    BY <1>2, <2>1 DEF LabelInv, Ready, TillFairness
  <2>3. Learned' /\ HonestTests' /\ HeldOut' /\ UNCHANGED <<setup, program, params>>
    BY <1>2, <1>13, <2>2, CalibrationKeeps DEF TrainCalibration, LabelInv
  <2>4. Ready'
    BY <1>1, <1>2, <2>1, <2>3, TrainReady DEF LabelInv
  <2> QED
    BY <2>3, <2>4 DEF LabelInv
<1>14. CASE TrainThresholds
  <2>1. DOMAIN ThresholdBinds \cap Learnt = {} /\ Plainly(ThresholdReports)
    BY ThresholdsPlain
  <2> QED
    BY <1>1, <1>2, <1>14, <2>1, TrainRuns DEF TrainThresholds
<1>15. CASE TrainExplain
  BY <1>1, <1>2, <1>3, <1>15, TrainRuns DEF TrainExplain
<1>16. CASE TrainFairness
  <2>1. ns' = Rebound(ns, <<>>) /\ at = "fairness" /\ at' = After("fairness")
    BY <1>16 DEF TrainFairness, FairnessStep, Runs, Completes
  <2>2. "xgb" \in DOMAIN ns
    BY <1>2, <2>1 DEF LabelInv, Ready, TillFairness
  <2>3. Learned' /\ HonestTests' /\ HeldOut' /\ UNCHANGED <<setup, program, params>>
    BY <1>2, <1>16, <2>2, FairnessKeeps DEF TrainFairness, LabelInv
  <2>4. Ready'
    BY <1>1, <1>2, <2>1, <2>3, TrainReady DEF LabelInv
  <2> QED
    BY <2>3, <2>4 DEF LabelInv
<1>17. CASE TrainSurvival
  BY <1>1, <1>2, <1>3, <1>17, TrainRuns DEF TrainSurvival
<1>18. CASE TrainConformal
  <2>1. Plainly(ConformalReports)
    BY ConformalPlain
  <2> QED
    BY <1>1, <1>2, <1>3, <1>18, <2>1, TrainRuns DEF TrainConformal
<1>19. CASE TrainUplift
  <2>1. Quiet
    BY <1>19, UpliftQuiet DEF TrainUplift
  <2>2. at = "uplift" /\ at' \in {After("uplift"), "end"}
    BY <1>19 DEF TrainUplift, UpliftStep, Runs, Completes
  <2> QED
    BY <1>1, <1>2, <2>1, <2>2, TrainQuiet
<1>20. CASE TrainMlflow
  BY <1>1, <1>2, <1>3, <1>20, TrainRuns DEF TrainMlflow
<1>21. CASE TrainResult
  BY <1>1, <1>2, <1>3, <1>21, TrainRuns DEF TrainResult
<1> QED
  BY <1>5, <1>6, <1>7, <1>8, <1>9, <1>10, <1>11, <1>12, <1>13, <1>14, <1>15, <1>16, <1>17,
     <1>18, <1>19, <1>20, <1>21 DEF TrainNext

-----------------------------------------------------------------------------
(* training_results.ipynb                                                  *)

LEMMA CellQuiet ==
  ASSUME LabelInv, program = "results", Quiet
  PROVE  LabelInv'
<1>1. Ready'
  BY DEF Ready, Quiet
<1> QED
  BY <1>1, QuietKeeps

LEMMA CellRuns ==
  ASSUME LabelInv, program = "results", NEW step, NEW b, NEW reports,
         DOMAIN b \cap Learnt = {}, Plainly(reports), Runs(step, b, reports) \/ Raises(step, b)
  PROVE  LabelInv'
BY QuietRuns, QuietRaises, CellQuiet

LEMMA CellSteps ==
  ASSUME LabelInv, program = "results", NEW step, NEW names, NEW early, NEW b, NEW reports,
         DOMAIN early \cap Learnt = {}, DOMAIN b \cap Learnt = {}, Plainly(reports),
         Step(step, names, early, b, reports)
  PROVE  LabelInv'
BY CellRuns DEF Step

LEMMA CellShows ==
  ASSUME LabelInv, program = "results", NEW step, NEW names, Shows(step, names)
  PROVE  LabelInv'
<1>1. Plainly({}) /\ DOMAIN <<>> \cap Learnt = {}
  BY DEF Plainly
<1> QED
  BY <1>1, CellSteps DEF Shows

\* A cell that binds some of the names, as LearnedIn has them.
LEMMA CellBinds ==
  ASSUME LabelInv, program = "results", NEW b, LearnedIn(b), ns' = Rebound(ns, b),
         UNCHANGED <<setup, program, params>>, HonestTests', HeldOut'
  PROVE  LabelInv'
BY LearnedKept DEF LabelInv, Ready

LEMMA NoNames == DOMAIN <<>> \cap Learnt = {} /\ Plainly({})
BY DEF Plainly

LEMMA ResultsXgbStep ==
  ASSUME LabelInv, program = "results", ResultsXgb
  PROVE  LabelInv'
<1> DEFINE b == Rebound(XgbBinds, [joblib |-> TRUE])
<1>1. CASE Runs("xgb", b, XgbReports)
  <2>1. /\ ns' = Rebound(ns, b) /\ shown' = XgbReports
        /\ UNCHANGED <<setup, program, params>>
    BY <1>1 DEF Runs, Completes
  <2> QED
    BY <2>1, XgbLearned, XgbHonest, CellBinds DEF LabelInv
<1>2. CASE Raises("xgb", [joblib |-> TRUE])
  <2>1. DOMAIN [joblib |-> TRUE] \cap Learnt = {}
    BY DEF Learnt
  <2> QED
    BY <1>2, <2>1, QuietRaises, CellQuiet
<1> QED
  BY <1>1, <1>2 DEF ResultsXgb, Step

LEMMA ResultsLgbStep ==
  ASSUME LabelInv, program = "results", ResultsLgb
  PROVE  LabelInv'
<1>1. CASE Runs("lgb", LgbBinds, LgbReports)
  <2>1. /\ ns' = Rebound(ns, LgbBinds) /\ shown' = LgbReports
        /\ UNCHANGED <<setup, program, params>>
    BY <1>1 DEF Runs, Completes
  <2> QED
    BY <2>1, LgbLearned, LgbPlain, PlainlyHonest, CellBinds
<1>2. CASE Raises("lgb", <<>>)
  BY <1>2, NoNames, QuietRaises, CellQuiet
<1> QED
  BY <1>1, <1>2 DEF ResultsLgb, Step

LEMMA ResultsTftStep ==
  ASSUME LabelInv, program = "results", ResultsTft
  PROVE  LabelInv'
<1>1. CASE TftStep
  BY <1>1, TftQuiet, CellQuiet
<1>2. CASE Raises("tft", IF Bound({"imports"}) THEN [tft |-> NoTft] ELSE <<>>)
  <2>1. DOMAIN (IF Bound({"imports"}) THEN [tft |-> NoTft] ELSE <<>>) \cap Learnt = {}
    BY DEF Learnt
  <2> QED
    BY <1>2, <2>1, QuietRaises, CellQuiet
<1> QED
  BY <1>1, <1>2 DEF ResultsTft

LEMMA ResultsOofStep ==
  ASSUME LabelInv, program = "results", ResultsOof
  PROVE  LabelInv'
<1> DEFINE early == IF Bound({"imports"}) THEN [stacker |-> NoMeta] ELSE <<>>
<1>1. CASE Runs("oof", OofBinds, {Measured("oof", OofBinds.oof)})
  <2>1. /\ ns' = Rebound(ns, OofBinds) /\ shown' = {Measured("oof", OofBinds.oof)}
        /\ UNCHANGED <<setup, program, params>>
    BY <1>1 DEF Runs, Completes
  <2> QED
    BY <2>1, OofLearned, OofsHonest, CellBinds
<1>2. CASE Raises("oof", early)
  <2>1. /\ ns' = Rebound(ns, early) /\ shown' = {} /\ UNCHANGED <<setup, program, params>>
    BY <1>2 DEF Raises
  <2>2. LearnedIn(early)
    BY DEF LearnedIn, NoMeta
  <2> HIDE DEF early
  <2> QED
    BY <2>1, <2>2, NoNames, PlainlyHonest, CellBinds
<1> QED
  BY <1>1, <1>2 DEF ResultsOof, Step

LEMMA ResultsMetaStep ==
  ASSUME LabelInv, program = "results", ResultsMeta
  PROVE  LabelInv'
<1>1. CASE Bound(Split \cup {"tft", "oof", "stacker"}) /\ MetaStep
  <2>1. {"stacker", "oof"} \subseteq DOMAIN ns
    BY <1>1 DEF Bound
  <2>2. Learned' /\ HonestTests' /\ HeldOut' /\ UNCHANGED <<setup, program, params>>
    BY <1>1, <2>1, MetaKeeps DEF LabelInv
  <2> QED
    BY <2>2 DEF LabelInv, Ready
<1>2. CASE Runs("meta", [meta_metrics |-> TRUE], {})
  <2>1. DOMAIN [meta_metrics |-> TRUE] \cap Learnt = {}
    BY DEF Learnt
  <2> QED
    BY <1>2, <2>1, NoNames, CellRuns
<1>3. CASE Raises("meta", <<>>)
  BY <1>3, NoNames, QuietRaises, CellQuiet
<1> QED
  BY <1>1, <1>2, <1>3 DEF ResultsMeta

LEMMA ResultsEnsembleStep ==
  ASSUME LabelInv, program = "results", ResultsEnsemble
  PROVE  LabelInv'
<1>1. CASE EnsembleStep
  BY <1>1, EnsembleQuiet, CellQuiet
<1>2. CASE \E b \in {FixedProbs, [ensemble |-> TRUE, tft_test |-> <<>>],
                    IF Bound({"imports"}) THEN [ensemble |-> TRUE] ELSE <<>>} : Raises("ensemble", b)
  <2>1. DOMAIN FixedProbs \cap Learnt = {}
    BY DEF FixedProbs, Learnt
  <2>2. DOMAIN [ensemble |-> TRUE, tft_test |-> <<>>] \cap Learnt = {}
    BY DEF Learnt
  <2>3. DOMAIN (IF Bound({"imports"}) THEN [ensemble |-> TRUE] ELSE <<>>) \cap Learnt = {}
    BY DEF Learnt
  <2> QED
    BY <1>2, <2>1, <2>2, <2>3, QuietRaises, CellQuiet
<1> QED
  BY <1>1, <1>2 DEF ResultsEnsemble

LEMMA ResultsCalibrationStep ==
  ASSUME LabelInv, program = "results", ResultsCalibration
  PROVE  LabelInv'
<1>1. CASE /\ Bound({"imports", "xgb", "lgb", "tft", "ensemble", "stacker", "probs"})
           /\ Runs("calibration", CalibrationBinds, CalibrationReports)
  <2>1. {"xgb", "lgb", "stacker"} \subseteq DOMAIN ns
    BY <1>1 DEF Bound
  <2>2. Learned' /\ HonestTests' /\ HeldOut' /\ UNCHANGED <<setup, program, params>>
    BY <1>1, <2>1, CalibrationKeeps DEF LabelInv
  <2> QED
    BY <2>2 DEF LabelInv, Ready
<1>2. CASE Raises("calibration", CalibrationLeft)
  <2>1. DOMAIN CalibrationLeft \cap Learnt = {}
    <3>1. CalibrationLeft = <<>> \/ (\E c : CalibrationLeft = [calibrator |-> c])
          \/ (\E c, d : CalibrationLeft = [calibrator |-> c, cal_probs |-> d])
          \/ (\E c, d : CalibrationLeft = [calibrator |-> c, cal_probs |-> d, cal_metrics |-> TRUE])
      BY DEF CalibrationLeft, Bound
    <3> QED
      BY <3>1 DEF Learnt
  <2> QED
    BY <1>2, <2>1, QuietRaises, CellQuiet
<1> QED
  BY <1>1, <1>2 DEF ResultsCalibration

LEMMA ResultsSummaryStep ==
  ASSUME LabelInv, program = "results", ResultsSummary
  PROVE  LabelInv'
<1> DEFINE reports == {Measured("xgb_test", ns.xgb_test), Measured("lgb_test", ns.lgb_test)}
<1>1. CASE "xgb_test" \in DOMAIN ns /\ Runs("summary", <<>>, reports)
  <2>1. ns' = Rebound(ns, <<>>) /\ shown' = reports /\ UNCHANGED <<setup, program, params>>
    BY <1>1 DEF Runs, Completes
  <2>2. params.xgb = {} => Honest(ns.xgb_test)
    BY <1>1 DEF LabelInv, Learned, LearnedIn
  <2>3. HonestTests' /\ HeldOut'
    BY <2>1, <2>2 DEF Measured, HonestTests, HeldOut
  <2> QED
    BY <2>1, <2>3, NoNames, QuietLearned, CellBinds
<1>2. CASE Raises("summary", <<>>)
  BY <1>2, NoNames, QuietRaises, CellQuiet
<1> QED
  BY <1>1, <1>2 DEF ResultsSummary, Step, Bound

\* The cells that bind other names, and print other numbers.
LEMMA ResultsStep ==
  ASSUME LabelInv, ResultsNext
  PROVE  LabelInv'
<1>1. program = "results"
  BY DEF ResultsNext, ResultsImports, ResultsData, ResultsBalance, ResultsSplit, ResultsXgb,
    ResultsLgb, ResultsTft, ResultsOof, ResultsMeta, ResultsEnsemble, ResultsRoc,
    ResultsCalibration, ResultsReliability, ResultsThresholds, ResultsSweep, ResultsShap,
    ResultsShapBar, ResultsWaterfall, ResultsSurvival, ResultsConformal, ResultsUplift,
    ResultsFairness, ResultsDemo, ResultsSummary, ResultsFiles, Cell
<1>2. CASE ResultsXgb \/ ResultsLgb \/ ResultsTft \/ ResultsOof \/ ResultsMeta \/ ResultsEnsemble
           \/ ResultsCalibration \/ ResultsSummary
  BY <1>1, <1>2, ResultsXgbStep, ResultsLgbStep, ResultsTftStep, ResultsOofStep, ResultsMetaStep,
     ResultsEnsembleStep, ResultsCalibrationStep, ResultsSummaryStep
<1>3. CASE \/ ResultsBalance \/ ResultsRoc \/ ResultsReliability \/ ResultsSweep \/ ResultsShapBar
           \/ ResultsWaterfall \/ ResultsDemo \/ ResultsFiles
  BY <1>1, <1>3, CellShows DEF ResultsBalance, ResultsRoc, ResultsReliability, ResultsSweep,
     ResultsShapBar, ResultsWaterfall, ResultsDemo, ResultsFiles
<1>4. CASE ResultsImports
  <2>1. DOMAIN [imports |-> TRUE] \cap Learnt = {}
    BY DEF Learnt
  <2> QED
    BY <1>1, <1>4, <2>1, NoNames, CellRuns DEF ResultsImports
<1>5. CASE ResultsData
  <2>1. DOMAIN [data |-> TRUE] \cap Learnt = {}
    BY DEF Learnt
  <2> QED
    BY <1>1, <1>5, <2>1, NoNames, CellSteps DEF ResultsData
<1>6. CASE ResultsSplit
  <2>1. DOMAIN [split |-> TRUE] \cap Learnt = {}
    BY DEF Learnt
  <2> QED
    BY <1>1, <1>6, <2>1, NoNames, CellSteps DEF ResultsSplit
<1>7. CASE ResultsShap
  <2>1. DOMAIN [shap |-> ns.xgb] \cap Learnt = {}
    BY DEF Learnt
  <2> QED
    BY <1>1, <1>7, <2>1, NoNames, CellSteps DEF ResultsShap
<1>8. CASE ResultsThresholds
  BY <1>1, <1>8, NoNames, ThresholdsPlain, CellRuns DEF ResultsThresholds
<1>9. CASE ResultsSurvival
  BY <1>1, <1>9, NoNames, CellRuns DEF ResultsSurvival
<1>10. CASE ResultsConformal
  <2>1. PICK reports : Runs("conformal", <<>>, reports) /\ Plainly(reports)
    BY <1>10, NoNames, ConformalPlain DEF ResultsConformal
  <2> QED
    BY <1>1, <2>1, NoNames, CellRuns
<1>11. CASE ResultsUplift
  BY <1>1, <1>11, NoNames, UpliftQuiet, CellQuiet, CellRuns DEF ResultsUplift
<1>12. CASE ResultsFairness
  <2>1. CASE "xgb" \in DOMAIN ns /\ FairnessStep
    <3>1. Learned' /\ HonestTests' /\ HeldOut' /\ UNCHANGED <<setup, program, params>>
      BY <1>1, <2>1, FairnessKeeps DEF LabelInv
    <3> QED
      BY <1>1, <3>1 DEF LabelInv, Ready
  <2>2. CASE Runs("fairness", <<>>, {})
    BY <1>1, <2>2, NoNames, CellRuns
  <2> QED
    BY <1>12, <2>1, <2>2 DEF ResultsFairness, Bound
<1> QED
  BY <1>2, <1>3, <1>4, <1>5, <1>6, <1>7, <1>8, <1>9, <1>10, <1>11, <1>12 DEF ResultsNext

-----------------------------------------------------------------------------
(* train_models.py                                                         *)

\* Without labels that come from the features, scores of the test set are those
\* of a model fitted to the other customers.
LEMMA ModelsHonest ==
  ASSUME LabelInv, program = "models", "data" \in DOMAIN ns, UNCHANGED <<setup, program>>,
         NEW b, DOMAIN b \cap {"data"} = {}, ns' = Rebound(ns, b),
         shown' = {Measured("models_test", Scored(Plain(Learn)))}, Ready'
  PROVE  LabelInv'
<1>1. ns'.data = ns.data
  <2>1. "data" \in DOMAIN ns \ DOMAIN b
    OBVIOUS
  <2> QED
    BY <2>1, ReboundAt
<1>2. Learn \cap setup.test = {}
  BY SplitApart DEF LabelInv, Learn
<1>3. ns.data = {} => Honest(Scored(Plain(Learn)))
  BY <1>2, ScoreHonest DEF Scored, Plain
<1>4. HonestTests' /\ HeldOut'
  BY <1>1, <1>3 DEF Measured, HonestTests, HeldOut
<1> QED
  BY <1>4 DEF LabelInv, Learned

LEMMA ModelsQuiet ==
  ASSUME LabelInv, program = "models", UNCHANGED <<setup, program>>, Plainly(shown'), Ready'
  PROVE  LabelInv'
BY PlainlyHonest DEF LabelInv, Learned

LEMMA NetPlain ==
  ASSUME NEW step, NetOnTest(step)
  PROVE  Plainly(shown') /\ UNCHANGED <<setup, program>>
<1>1. \A t, n : Plainly({Reported("tft", t), Measured("net_test", n)})
  BY DEF Plainly, Caveat, Measured, Reported
<1>2. Plainly({})
  BY DEF Plainly
<1> QED
  BY <1>1, <1>2 DEF NetOnTest, Runs, Completes, Raises

ModelsNext ==
  ModelsLoad \/ ModelsSplit \/ ModelsXgb \/ ModelsLgb \/ ModelsTft \/ ModelsWeights \/ ModelsLog

LEMMA ModelsStep ==
  ASSUME LabelInv, ModelsNext
  PROVE  LabelInv'
<1>1. program = "models"
  BY DEF ModelsNext, ModelsLoad, ModelsSplit, ModelsXgb, ModelsLgb, ModelsTft, ModelsWeights,
         ModelsLog, Does
<1>2. /\ After("models_load") = "models_split" /\ After("models_split") = "models_xgb"
      /\ After("models_xgb") = "models_lgb" /\ After("models_lgb") = "models_tft"
      /\ After("models_tft") = "models_weights" /\ After("models_weights") = "models_log"
      /\ After("models_log") = "end"
  BY <1>1, ModelsAfter
<1>3. \A b : DOMAIN ns \cup DOMAIN b = DOMAIN Rebound(ns, b)
  BY ReboundAt
<1>4. ASSUME NEW x, NEW y, x \in DOMAIN ns, ns' = Rebound(ns, y)
      PROVE  x \in DOMAIN ns'
  BY <1>3, <1>4
<1>5. CASE ModelsLoad
  <2>1. PICK d : Runs("models_load", [data |-> d], {})
    BY <1>5 DEF ModelsLoad
  <2>2. "data" \in DOMAIN [data |-> d]
    OBVIOUS
  <2>3. ns' = Rebound(ns, [data |-> d]) /\ shown' = {} /\ UNCHANGED <<setup, program>>
    BY <2>1 DEF Runs, Completes
  <2>4. Ready'
    BY <1>1, <1>3, <2>2, <2>3 DEF Ready
  <2> QED
    BY <1>1, <2>3, <2>4, NoNames, ModelsQuiet
<1>6. CASE ModelsSplit
  <2>1. /\ ns' = Rebound(ns, <<>>) /\ shown' = {} /\ UNCHANGED <<setup, program>>
        /\ "data" \in DOMAIN ns
    BY <1>1, <1>6 DEF ModelsSplit, Runs, Completes, Does, LabelInv, Ready
  <2>2. Ready'
    BY <1>1, <1>4, <2>1 DEF Ready
  <2> QED
    BY <1>1, <2>1, <2>2, NoNames, ModelsQuiet
<1>7. CASE ModelsXgb
  <2>1. /\ ns' = Rebound(ns, [xgb |-> Plain(Learn)]) /\ UNCHANGED <<setup, program>>
        /\ shown' = {Measured("models_test", Scored(Plain(Learn)))} /\ "data" \in DOMAIN ns
    BY <1>1, <1>7 DEF ModelsXgb, Runs, Completes, Does, LabelInv, Ready
  <2>2. Ready'
    BY <1>1, <1>4, <2>1 DEF Ready
  <2>3. DOMAIN [xgb |-> Plain(Learn)] \cap {"data"} = {}
    OBVIOUS
  <2> QED
    BY <1>1, <2>1, <2>2, <2>3, ModelsHonest
<1>8. CASE ModelsLgb
  <2>1. /\ ns' = Rebound(ns, [lgb |-> Plain(Learn)]) /\ UNCHANGED <<setup, program>>
        /\ shown' = {Measured("models_test", Scored(Plain(Learn)))} /\ "data" \in DOMAIN ns
    BY <1>1, <1>8 DEF ModelsLgb, Runs, Completes, Does, LabelInv, Ready
  <2>2. Ready'
    BY <1>1, <1>4, <2>1 DEF Ready
  <2>3. DOMAIN [lgb |-> Plain(Learn)] \cap {"data"} = {}
    OBVIOUS
  <2> QED
    BY <1>1, <2>1, <2>2, <2>3, ModelsHonest
<1>9. CASE ModelsTft \/ ModelsWeights \/ ModelsLog
  <2>1. UNCHANGED <<setup, program>> /\ at' \in {"models_weights", "models_log", "end"}
    BY <1>1, <1>2, <1>9 DEF ModelsTft, ModelsWeights, ModelsLog, NetOnTest, Runs, Completes,
       Raises, Notebook
  <2>2. Plainly(shown')
    <3>1. \A n : Plainly({Measured("weighted_test", n)})
      BY DEF Plainly, Caveat, Measured
    <3> QED
      BY <1>9, <3>1, NoNames, NetPlain DEF ModelsTft, ModelsWeights, ModelsLog, Runs, Completes
  <2>3. Ready'
    BY <1>1, <2>1 DEF Ready
  <2> QED
    BY <1>1, <2>1, <2>2, <2>3, ModelsQuiet
<1> QED
  BY <1>5, <1>6, <1>7, <1>8, <1>9 DEF ModelsNext

-----------------------------------------------------------------------------
(* The programs that no property is about.                                 *)

\* What each of their steps prints.
LEMMA OthersPlain ==
  ASSUME NEW of, of \notin Caveat
  PROVE  /\ \A s : Plainly({Measured(of, s)})
         /\ \A t : Plainly({Reported(of, t)})
         /\ \A other, s, t : other \notin Caveat => Plainly({Measured(of, s), Measured(other, t)})
BY DEF Plainly, Measured, Reported

\* A step of theirs that completes or raises.
LEMMA RunsElsewhere ==
  ASSUME LabelInv, program \notin {"train", "results", "models"}, NEW step, NEW b, NEW reports,
         Plainly(reports), Runs(step, b, reports) \/ Raises(step, b)
  PROVE  LabelInv'
BY NoNames, Elsewhere DEF Runs, Completes, Raises

LEMMA NetElsewhere ==
  ASSUME LabelInv, program \notin {"train", "results", "models"}, NEW step, NetOnTest(step)
  PROVE  LabelInv'
BY NetPlain, Elsewhere

LEMMA EnhancedStep ==
  ASSUME LabelInv,
         \/ EnhancedFeatures \/ EnhancedLabels \/ EnhancedSplit \/ EnhancedXgb \/ EnhancedLgb
         \/ EnhancedTft \/ EnhancedWeights \/ EnhancedLog
  PROVE  LabelInv'
<1>1. program \notin {"train", "results", "models"}
  BY DEF EnhancedFeatures, EnhancedLabels, EnhancedSplit, EnhancedXgb, EnhancedLgb, EnhancedTft,
         EnhancedWeights, EnhancedLog, Does
<1>2. \A s : Plainly({Measured("stopped_test", s)}) /\ Plainly({Measured("picked_test", s)})
  BY OthersPlain DEF Caveat
<1>3. CASE EnhancedTft
  BY <1>1, <1>3, NetElsewhere DEF EnhancedTft
<1>4. CASE EnhancedFeatures \/ EnhancedLabels \/ EnhancedSplit \/ EnhancedLog
  BY <1>1, <1>4, NoNames, RunsElsewhere DEF EnhancedFeatures, EnhancedLabels, EnhancedSplit, EnhancedLog
<1>5. CASE EnhancedXgb \/ EnhancedLgb \/ EnhancedWeights
  BY <1>1, <1>2, <1>5, RunsElsewhere DEF EnhancedXgb, EnhancedLgb, EnhancedWeights
<1> QED
  BY <1>3, <1>4, <1>5

LEMMA V3Step ==
  ASSUME LabelInv, V3Build \/ V3Xgb \/ V3Lgb \/ V3Tft \/ V3Weights \/ V3Save
  PROVE  LabelInv'
<1>1. program \notin {"train", "results", "models"}
  BY DEF V3Build, V3Xgb, V3Lgb, V3Tft, V3Weights, V3Save, Does
<1>2. \A s, t : /\ Plainly({Measured("stopped_test", s), Measured("v3_cv", t)})
               /\ Plainly({Measured("picked_test", s)})
  BY OthersPlain DEF Caveat
<1>3. CASE V3Tft
  BY <1>1, <1>3, NetElsewhere DEF V3Tft
<1>4. CASE V3Build \/ V3Save
  BY <1>1, <1>4, NoNames, RunsElsewhere DEF V3Build, V3Save
<1>5. CASE V3Xgb \/ V3Lgb \/ V3Weights
  BY <1>1, <1>2, <1>5, RunsElsewhere DEF V3Xgb, V3Lgb, V3Weights
<1> QED
  BY <1>3, <1>4, <1>5

LEMMA PdiStep ==
  ASSUME LabelInv, PdiNext
  PROVE  LabelInv'
<1>1. \A s, t : /\ Plainly({Measured("pdi_test", s), Measured("pdi_cv", t)})
               /\ Plainly({Measured("pdi_test", s)})
  BY OthersPlain DEF Caveat
<1>2. ASSUME NEW step, NEW names, NEW early, NEW b, NEW reports, Plainly(reports),
             Pdi(step, names, early, b, reports)
      PROVE  LabelInv'
  <2>1. program \notin {"train", "results", "models"}
    BY <1>2 DEF Pdi
  <2>2. \E c : Runs(step, c, reports) \/ Raises(step, c)
    BY <1>2 DEF Pdi, Step
  <2> QED
    BY <1>2, <2>1, <2>2, RunsElsewhere
<1>3. CASE \/ PdiImports \/ PdiLoad \/ PdiCustomers \/ PdiTransactions \/ PdiMerge \/ PdiLabel
           \/ PdiShap \/ PdiBeeswarm \/ PdiWaterfall \/ PdiCurves \/ PdiConfusion \/ PdiSave
  BY <1>2, <1>3, NoNames DEF PdiImports, PdiLoad, PdiCustomers, PdiTransactions, PdiMerge,
     PdiLabel, PdiShap, PdiBeeswarm, PdiWaterfall, PdiCurves, PdiConfusion, PdiSave
<1>4. CASE PdiXgb
  BY <1>1, <1>2, <1>4 DEF PdiXgb
<1>5. CASE PdiLgb
  BY <1>1, <1>2, <1>5 DEF PdiLgb
<1>6. CASE PdiLstm
  BY <1>1, <1>2, <1>6 DEF PdiLstm
<1>7. CASE PdiOptuna
  BY <1>1, <1>2, <1>7 DEF PdiOptuna
<1>8. CASE PdiEnsemble
  BY <1>1, <1>2, <1>8 DEF PdiEnsemble
<1>9. CASE PdiSplit
  <2>1. program \notin {"train", "results", "models"}
    BY <1>9 DEF PdiSplit, Does
  <2> QED
    BY <1>9, <2>1, NoNames, RunsElsewhere DEF PdiSplit
<1> QED
  BY <1>3, <1>4, <1>5, <1>6, <1>7, <1>8, <1>9 DEF PdiNext

LEMMA TuneStep ==
  ASSUME LabelInv, TuneXgbStep \/ TuneLgbStep
  PROVE  LabelInv'
<1>1. program' = "tune" /\ shown' = {} /\ UNCHANGED setup
  BY DEF TuneXgbStep, TuneLgbStep, Does, Completes
<1> QED
  BY <1>1, NoNames, Elsewhere

LEMMA RecurrentStep ==
  ASSUME LabelInv, TrainLstm \/ TrainKeras
  PROVE  LabelInv'
<1>1. program \notin {"train", "results", "models"}
  BY DEF TrainLstm, TrainKeras, Does
<1>2. \A t : Plainly({Reported("lstm", t)}) /\ Plainly({Reported("keras", t)})
  BY OthersPlain DEF Caveat
<1> QED
  BY <1>1, <1>2, RunsElsewhere DEF TrainLstm, TrainKeras

-----------------------------------------------------------------------------
(* Sessions start and end.                                                 *)

LEMMA OpenStep ==
  ASSUME LabelInv, NEW p \in Program, Open(p)
  PROVE  LabelInv'
<1>1. Order["train"][1] = "data" /\ Order["models"][1] = "models_load"
  BY DEF Order
<1>2. LearnedIn(<<>>)' /\ LearnedIn(Imported)'
  BY DEF LearnedIn, Imported
<1>3. Learned'
  BY <1>2 DEF Open, Learned
<1>4. Ready'
  BY <1>1 DEF Open, Ready, TillFairness
<1>5. HonestTests' /\ HeldOut'
  BY NoNames, PlainlyHonest DEF Open
<1> QED
  BY <1>3, <1>4, <1>5 DEF LabelInv, Open

LEMMA CloseStep ==
  ASSUME LabelInv, Close
  PROVE  LabelInv'
BY NoNames, Elsewhere DEF Close

LEMMA JumpStep ==
  ASSUME LabelInv, Jump
  PROVE  LabelInv'
<1>1. UNCHANGED <<setup, program, ns, params>> /\ shown' = {} /\ program \in {"results", "pdi"}
  BY DEF Jump, Notebook
<1>2. Learned'
  BY <1>1 DEF LabelInv, Learned, LearnedIn
<1>3. Ready'
  BY <1>1 DEF Ready
<1> QED
  BY <1>1, <1>2, <1>3, NoNames, PlainlyHonest DEF LabelInv

-----------------------------------------------------------------------------

LEMMA LabelInit == Init => LabelInv
<1> SUFFICES ASSUME Init PROVE LabelInv
  OBVIOUS
<1>1. setup \in Setup /\ program = "none" /\ shown = {}
  BY DEF Init
<1> QED
  BY <1>1 DEF LabelInv, Learned, Ready, HonestTests, HeldOut

LEMMA LabelKept == LabelInv /\ [Next]_vars => LabelInv'
<1> SUFFICES ASSUME LabelInv, [Next]_vars PROVE LabelInv'
  OBVIOUS
<1>1. CASE UNCHANGED vars
  BY <1>1 DEF vars, LabelInv, Learned, LearnedIn, Ready, HonestTests, HeldOut
<1>2. CASE \E p \in Program : Start(p)
  BY <1>2, OpenStep DEF Start
<1>3. CASE Close \/ Jump
  BY <1>3, CloseStep, JumpStep
<1>4. CASE TuneXgbStep \/ TuneLgbStep
  BY <1>4, TuneStep
<1>5. CASE TrainNext
  BY <1>5, TrainStep
<1>6. CASE ResultsNext
  BY <1>6, ResultsStep
<1>7. CASE TwoPartNext
  BY <1>7, ModelsStep, EnhancedStep, V3Step DEF TwoPartNext, ModelsNext
<1>8. CASE PdiNext
  BY <1>8, PdiStep
<1>9. CASE TrainLstm \/ TrainKeras
  BY <1>9, RecurrentStep
<1> QED
  BY <1>1, <1>2, <1>3, <1>4, <1>5, <1>6, <1>7, <1>8, <1>9 DEF Next

LEMMA AlwaysLabelInv == Spec => []LabelInv
BY LabelInit, LabelKept, PTL DEF Spec

\* Whatever the split, and whatever order a notebook's cells are run in, out-of-fold
\* scores, untuned scores of XGBoost on the test set and in its folds, and scores of
\* train_models.py's trees under payment labels never depend on the labels they are
\* measured against.
THEOREM TestsAreHonest == Spec => []HonestTests
<1>1. LabelInv => HonestTests
  BY DEF LabelInv
<1> QED
  BY <1>1, AlwaysLabelInv, PTL

\* What train.py and its notebook fit the meta-learner to has not seen its labels,
\* and what they fit the calibrator to has not either, without tuned parameters.
THEOREM FitsAreHeldOut == Spec => []HeldOut
<1>1. LabelInv => HeldOut
  BY DEF LabelInv
<1> QED
  BY <1>1, AlwaysLabelInv, PTL

-----------------------------------------------------------------------------
(* The calibrator calibrates the kind of scores it was fitted to.          *)

\* The order of the notebook.
LEMMA ResultsGoOn ==
  ASSUME program = "results"
  PROVE  /\ After("imports") = "data"
         /\ After("data") = "balance"
         /\ After("balance") = "split"
         /\ After("split") = "xgb"
         /\ After("xgb") = "lgb"
         /\ After("lgb") = "tft"
         /\ After("tft") = "oof"
         /\ After("oof") = "meta"
         /\ After("meta") = "ensemble"
         /\ After("ensemble") = "roc"
         /\ After("roc") = "calibration"
         /\ After("calibration") = "reliability"
         /\ After("reliability") = "thresholds"
         /\ After("thresholds") = "sweep"
         /\ After("sweep") = "shap"
         /\ After("shap") = "shap_bar"
         /\ After("shap_bar") = "waterfall"
         /\ After("waterfall") = "survival"
         /\ After("survival") = "conformal"
         /\ After("conformal") = "uplift"
         /\ After("uplift") = "fairness"
         /\ After("fairness") = "demo"
         /\ After("demo") = "summary"
         /\ After("summary") = "files"
         /\ After("files") = "end"
<1> DEFINE o == Order[program]
<1>1. o = <<"imports", "data", "balance", "split", "xgb", "lgb", "tft", "oof", "meta",
            "ensemble", "roc", "calibration", "reliability", "thresholds", "sweep", "shap",
            "shap_bar", "waterfall", "survival", "conformal", "uplift", "fairness", "demo",
            "summary", "files">>
  BY DEF Order
<1>2. DOMAIN o = 1..25 /\ Len(o) = 25
  BY <1>1
<1>3. \A i, j \in DOMAIN o : o[i] = o[j] => i = j
  BY <1>1, <1>2
<1>4. \A i \in DOMAIN o : After(o[i]) = IF i = 25 THEN "end" ELSE o[i+1]
  BY <1>2, <1>3, AfterIs
<1> QED
  BY <1>1, <1>2, <1>4

LEMMA ResultsAfter ==
  ASSUME program = "results", NEW step \in StepOf("results")
  PROVE  /\ After(step) = "roc" => step = "ensemble"
         /\ After(step) = "calibration" => step = "roc"
         /\ step = "calibration" => After(step) = "reliability"
<1>1. step \in {"imports", "data", "balance", "split", "xgb", "lgb", "tft", "oof", "meta",
                "ensemble", "roc", "calibration", "reliability", "thresholds", "sweep", "shap",
                "shap_bar", "waterfall", "survival", "conformal", "uplift", "fairness", "demo",
                "summary", "files"}
  BY DEF StepOf, Order
<1> QED
  BY <1>1, ResultsGoOn

Kind(meta) == IF meta.is = "none" THEN "fixed" ELSE "stacked"

LEMMA EnsembleKind ==
  ASSUME NEW meta, NEW S
  PROVE  Ensemble(meta, S).kind = Kind(meta)
BY DEF Ensemble, Kind

\* From the ensemble to the calibration, the scores are of the meta-learner's kind.
OfOneKind ==
  jumps = 0 /\ program \in {"train", "results"} /\ at \in {"roc", "calibration"} =>
    /\ {"stacker", "probs"} \subseteq DOMAIN ns => ns.probs.kind = Kind(ns.stacker)
    /\ program = "train" => "probs" \in DOMAIN ns

AlikeInv == jumps \in Nat /\ OfOneKind /\ CalibratedAlike

\* A step that does not calibrate.
Moves(b) ==
  /\ UNCHANGED <<program, jumps>>
  /\ ns' = Rebound(ns, b) /\ "calibrated" \notin DOMAIN b

LEMMA MovesAlike ==
  ASSUME CalibratedAlike, NEW b, Moves(b)
  PROVE  CalibratedAlike'
<1>1. "calibrated" \in DOMAIN ns' => /\ "calibrated" \in DOMAIN ns
                                    /\ ns'.calibrated = ns.calibrated
  BY ReboundAt DEF Moves
<1> QED
  BY <1>1 DEF CalibratedAlike, Moves

LEMMA RunsMoves ==
  ASSUME NEW step, NEW b, NEW reports, "calibrated" \notin DOMAIN b,
         Completes(step, b, reports) \/ Runs(step, b, reports) \/ Raises(step, b)
  PROVE  Moves(b)
BY DEF Moves, Runs, Completes, Raises

LEMMA StepMoves ==
  ASSUME NEW step, NEW names, NEW early, NEW b, NEW reports, Step(step, names, early, b, reports),
         "calibrated" \notin DOMAIN early, "calibrated" \notin DOMAIN b
  PROVE  \E c : Moves(c)
BY RunsMoves DEF Step

LEMMA NotInNothing == "calibrated" \notin DOMAIN <<>>
OBVIOUS

LEMMA NetMoves ==
  ASSUME NEW step, NetOnTest(step)
  PROVE  \E c : Moves(c)
<1>1. \A m : "calibrated" \notin DOMAIN [tft |-> m]
  OBVIOUS
<1>2. CASE Raises(step, <<>>)
  BY <1>2, NotInNothing, RunsMoves
<1>3. CASE \E m, reports : Runs(step, [tft |-> m], reports)
  BY <1>1, <1>3, RunsMoves
<1> QED
  BY <1>2, <1>3 DEF NetOnTest

LEMMA TwoPartMoves ==
  ASSUME TwoPartNext
  PROVE  program \notin {"train", "results"} /\ \E b : Moves(b)
<1>1. program \notin {"train", "results"}
  BY DEF TwoPartNext, ModelsLoad, ModelsSplit, ModelsXgb, ModelsLgb, ModelsTft, ModelsWeights,
     ModelsLog, EnhancedFeatures, EnhancedLabels, EnhancedSplit, EnhancedXgb, EnhancedLgb,
     EnhancedTft, EnhancedWeights, EnhancedLog, V3Build, V3Xgb, V3Lgb, V3Tft, V3Weights, V3Save,
     Does
<1>2. \A m : "calibrated" \notin DOMAIN [xgb |-> m] /\ "calibrated" \notin DOMAIN [lgb |-> m]
             /\ "calibrated" \notin DOMAIN [data |-> m]
  OBVIOUS
<1>3. CASE ModelsTft \/ EnhancedTft \/ V3Tft
  BY <1>1, <1>3, NetMoves DEF ModelsTft, EnhancedTft, V3Tft
<1>4. CASE ModelsLoad \/ EnhancedLabels \/ V3Build
  BY <1>1, <1>2, <1>4, RunsMoves DEF ModelsLoad, EnhancedLabels, V3Build
<1>5. CASE ModelsXgb \/ EnhancedXgb \/ V3Xgb
  BY <1>1, <1>2, <1>5, RunsMoves DEF ModelsXgb, EnhancedXgb, V3Xgb
<1>6. CASE ModelsLgb \/ EnhancedLgb \/ V3Lgb
  BY <1>1, <1>2, <1>6, RunsMoves DEF ModelsLgb, EnhancedLgb, V3Lgb
<1>7. CASE \/ ModelsSplit \/ ModelsWeights \/ ModelsLog \/ EnhancedFeatures \/ EnhancedSplit
           \/ EnhancedWeights \/ EnhancedLog \/ V3Weights \/ V3Save
  BY <1>1, <1>7, RunsMoves DEF ModelsSplit, ModelsWeights, ModelsLog, EnhancedFeatures,
     EnhancedSplit, EnhancedWeights, EnhancedLog, V3Weights, V3Save
<1> QED
  BY <1>3, <1>4, <1>5, <1>6, <1>7 DEF TwoPartNext

LEMMA PdiMoves ==
  ASSUME PdiNext
  PROVE  program \notin {"train", "results"} /\ \E b : Moves(b)
<1>1. ASSUME NEW step, NEW names, NEW early, NEW b, NEW reports, "calibrated" \notin DOMAIN early,
             "calibrated" \notin DOMAIN b, Pdi(step, names, early, b, reports)
      PROVE  program \notin {"train", "results"} /\ \E c : Moves(c)
  BY <1>1, StepMoves DEF Pdi
<1>2. CASE PdiSplit
  <2>1. program \notin {"train", "results"}
    BY <1>2 DEF PdiSplit, Does
  <2>2. "calibrated" \notin DOMAIN [split |-> TRUE]
    OBVIOUS
  <2> QED
    BY <1>2, <2>1, <2>2, NotInNothing, RunsMoves DEF PdiSplit
<1>3. CASE PdiImports \/ PdiLoad \/ PdiCustomers \/ PdiTransactions \/ PdiMerge \/ PdiLabel
  BY <1>1, <1>3 DEF PdiImports, PdiLoad, PdiCustomers, PdiTransactions, PdiMerge, PdiLabel
<1>4. CASE PdiXgb \/ PdiLgb \/ PdiLstm
  BY <1>1, <1>4 DEF PdiXgb, PdiLgb, PdiLstm
<1>5. CASE PdiOptuna \/ PdiEnsemble
  BY <1>1, <1>5 DEF PdiOptuna, PdiEnsemble
<1>6. CASE \/ PdiShap \/ PdiBeeswarm \/ PdiWaterfall \/ PdiCurves \/ PdiConfusion \/ PdiSave
  BY <1>1, <1>6 DEF PdiShap, PdiBeeswarm, PdiWaterfall, PdiCurves, PdiConfusion, PdiSave
<1> QED
  BY <1>2, <1>3, <1>4, <1>5, <1>6 DEF PdiNext

\* The other programs do not calibrate.
LEMMA ElsewhereAlike ==
  ASSUME AlikeInv, program \notin {"train", "results"}, NEW b, Moves(b)
  PROVE  AlikeInv'
BY MovesAlike DEF AlikeInv, OfOneKind, Moves

-----------------------------------------------------------------------------
(* The steps that train.py and its notebook share.                         *)

LEMMA SharedMoves ==
  ASSUME TftStep \/ MetaStep \/ UpliftStep \/ FairnessStep
  PROVE  \E b : Moves(b)
<1>1. CASE TftStep
  <2>1. \A saw : "calibrated" \notin DOMAIN [tft |-> [net |-> TRUE, saw |-> saw]]
    OBVIOUS
  <2>2. "calibrated" \notin DOMAIN [tft |-> NoTft]
    OBVIOUS
  <2> QED
    BY <1>1, <2>1, <2>2, RunsMoves DEF TftStep
<1>2. CASE MetaStep
  <2>1. \A o, m : "calibrated" \notin DOMAIN [oof_tft |-> o, meta_metrics |-> TRUE, stacker |-> m]
    OBVIOUS
  <2> QED
    BY <1>2, <2>1, RunsMoves DEF MetaStep
<1>3. CASE UpliftStep
  <2>1. \A short : "calibrated" \notin DOMAIN [uplift_short |-> short]
    OBVIOUS
  <2> QED
    BY <1>3, <2>1, RunsMoves DEF UpliftStep
<1>4. CASE FairnessStep
  BY <1>4, RunsMoves DEF FairnessStep
<1> QED
  BY <1>1, <1>2, <1>3, <1>4

LEMMA EnsembleAlike ==
  ASSUME AlikeInv, program \in {"train", "results"}, EnsembleStep
  PROVE  AlikeInv'
<1> DEFINE e == Ensemble(ns.stacker, Predictions(setup.test))
           b == Rebound(FixedProbs, [probs |-> e])
<1>1. CASE Raises("ensemble", FixedProbs)
  <2>1. "calibrated" \notin DOMAIN FixedProbs
    BY DEF FixedProbs
  <2>2. at' \notin {"roc", "calibration"}
    BY <1>1 DEF Raises
  <2> QED
    BY <1>1, <2>1, <2>2, RunsMoves, MovesAlike DEF AlikeInv, OfOneKind, Moves
<1>2. CASE Runs("ensemble", b, {Measured("ensemble_test", e.score)})
  <2>1. DOMAIN b = {"ensemble", "tft_test", "probs"} /\ b.probs = e
    BY DEF Rebound, FixedProbs
  <2>2. e.kind = Kind(ns.stacker)
    BY EnsembleKind
  <2> HIDE DEF b, e
  <2>3. ns' = Rebound(ns, b)
    BY <1>2 DEF Runs, Completes
  <2>4. /\ "probs" \in DOMAIN ns' /\ ns'.probs = e
        /\ "stacker" \in DOMAIN ns' => ns'.stacker = ns.stacker
    <3>1. "probs" \in DOMAIN b /\ "stacker" \notin DOMAIN b
      BY <2>1
    <3> DEFINE n == Rebound(ns, b)
    <3>2. /\ DOMAIN n = DOMAIN ns \cup DOMAIN b
          /\ \A k \in DOMAIN b : n[k] = b[k]
          /\ \A k \in DOMAIN ns \ DOMAIN b : n[k] = ns[k]
      BY ReboundAt
    <3> HIDE DEF n
    <3>3. "probs" \in DOMAIN n /\ n.probs = e /\ ("stacker" \in DOMAIN n => n.stacker = ns.stacker)
      BY <2>1, <3>1, <3>2
    <3> QED
      BY <2>3, <3>3 DEF n
  <2>5. OfOneKind'
    BY <2>2, <2>4 DEF OfOneKind, Kind
  <2>6. CalibratedAlike'
    BY <1>2, <2>1, RunsMoves, MovesAlike DEF AlikeInv
  <2>7. UNCHANGED jumps
    BY <1>2 DEF Runs, Completes
  <2> QED
    BY <2>5, <2>6, <2>7 DEF AlikeInv
<1> QED
  BY <1>1, <1>2 DEF EnsembleStep

LEMMA CalibrationAlike ==
  ASSUME AlikeInv, program \in {"train", "results"}, {"stacker", "probs"} \subseteq DOMAIN ns,
         Runs("calibration", CalibrationBinds, CalibrationReports),
         After("calibration") \notin {"roc", "calibration"}
  PROVE  AlikeInv'
<1>1. /\ at = "calibration" /\ at' = After("calibration") /\ UNCHANGED <<program, jumps>>
      /\ ns' = Rebound(ns, CalibrationBinds)
  BY DEF Runs, Completes
<1>2. "calibrated" \in DOMAIN CalibrationBinds
  BY DEF CalibrationBinds
<1>3. ns'.calibrated = CalibrationBinds.calibrated
  BY <1>1, <1>2, ReboundAt
<1>4. CalibrationBinds.calibrated.fit = CalEnsemble.kind /\ CalibrationBinds.calibrated.to = ns.probs.kind
  BY DEF CalibrationBinds, CalibratorFit
<1>5. jumps = 0 => CalEnsemble.kind = ns.probs.kind
  BY <1>1, EnsembleKind DEF CalEnsemble, AlikeInv, OfOneKind
<1> QED
  BY <1>1, <1>3, <1>4, <1>5 DEF AlikeInv, OfOneKind, CalibratedAlike

LEMMA TrainPlaces ==
  ASSUME TrainNext
  PROVE  /\ program = "train" /\ at \in StepOf("train") /\ UNCHANGED <<program, jumps>>
         /\ at' \in {After(at), "end"}
         /\ at = "ensemble" => EnsembleStep
         /\ at = "calibration" => TrainCalibration
         /\ at # "ensemble" /\ at # "calibration" => \E b : Moves(b)
<1>1. \A step \in {"data", "split", "xgb", "lgb", "tft", "oof", "meta", "ensemble", "calibration",
                   "thresholds", "explain", "fairness", "survival", "conformal", "uplift",
                   "mlflow", "result"} : step \in StepOf("train")
  BY DEF StepOf, Order
<1>2. /\ "calibrated" \notin DOMAIN [data |-> TRUE]
      /\ "calibrated" \notin DOMAIN [split |-> TRUE]
      /\ "calibrated" \notin DOMAIN XgbBinds
      /\ "calibrated" \notin DOMAIN LgbBinds
      /\ "calibrated" \notin DOMAIN OofBinds
      /\ "calibrated" \notin DOMAIN ThresholdBinds
  BY DEF XgbBinds, LgbBinds, OofBinds, ThresholdBinds
<1>3. CASE TrainData \/ TrainSplit \/ TrainXgb \/ TrainLgb \/ TrainOof \/ TrainThresholds
  <2>1. /\ program = "train" /\ UNCHANGED <<program, jumps>> /\ at' = After(at)
        /\ at \in {"data", "split", "xgb", "lgb", "oof", "thresholds"}
    BY <1>3 DEF TrainData, TrainSplit, TrainXgb, TrainLgb, TrainOof, TrainThresholds, Script,
       Runs, Completes
  <2>2. \E b : Moves(b)
    BY <1>2, <1>3, RunsMoves DEF TrainData, TrainSplit, TrainXgb, TrainLgb, TrainOof, TrainThresholds
  <2> QED
    BY <1>1, <2>1, <2>2
<1>4. CASE TrainTft \/ TrainMeta \/ TrainUplift \/ TrainFairness
  <2>1. /\ program = "train" /\ UNCHANGED <<program, jumps>> /\ at' \in {After(at), "end"}
        /\ at \in {"tft", "meta", "uplift", "fairness"}
    BY <1>4 DEF TrainTft, TrainMeta, TrainUplift, TrainFairness, TftStep, MetaStep, UpliftStep,
       FairnessStep, Script, Runs, Completes, Raises, Notebook
  <2>2. \E b : Moves(b)
    BY <1>4, SharedMoves DEF TrainTft, TrainMeta, TrainUplift, TrainFairness
  <2> QED
    BY <1>1, <2>1, <2>2
<1>5. CASE TrainExplain \/ TrainSurvival \/ TrainConformal \/ TrainMlflow \/ TrainResult
  <2>1. /\ program = "train" /\ UNCHANGED <<program, jumps>> /\ at' \in {After(at), "end"}
        /\ at \in {"explain", "survival", "conformal", "mlflow", "result"}
    BY <1>5 DEF TrainExplain, TrainSurvival, TrainConformal, TrainMlflow, TrainResult, Script,
       Runs, Completes, Raises, Notebook
  <2>2. \E b : Moves(b)
    BY <1>5, NotInNothing, RunsMoves DEF TrainExplain, TrainSurvival, TrainConformal, TrainMlflow,
       TrainResult
  <2> QED
    BY <1>1, <2>1, <2>2
<1>6. CASE TrainEnsemble
  <2>1. /\ program = "train" /\ UNCHANGED <<program, jumps>> /\ at' \in {After(at), "end"}
        /\ at = "ensemble"
    BY <1>6 DEF TrainEnsemble, EnsembleStep, Script, Runs, Completes, Raises, Notebook
  <2> QED
    BY <1>1, <1>6, <2>1 DEF TrainEnsemble
<1>7. CASE TrainCalibration
  <2>1. /\ program = "train" /\ UNCHANGED <<program, jumps>> /\ at' = After(at)
        /\ at = "calibration"
    BY <1>7 DEF TrainCalibration, Script, Runs, Completes
  <2> QED
    BY <1>1, <1>7, <2>1
<1> QED
  BY <1>3, <1>4, <1>5, <1>6, <1>7 DEF TrainNext

LEMMA TrainAlike ==
  ASSUME LabelInv, AlikeInv, TrainNext
  PROVE  AlikeInv'
<1>1. /\ program = "train" /\ at \in StepOf("train") /\ UNCHANGED <<program, jumps>>
      /\ at' \in {After(at), "end"}
  BY TrainPlaces
<1>2. at \in {"data", "split", "xgb", "lgb", "tft", "oof", "meta", "ensemble", "calibration",
             "thresholds", "explain", "fairness", "survival", "conformal", "uplift", "mlflow",
             "result"}
  BY <1>1 DEF StepOf, Order
<1>3. CASE at = "ensemble"
  BY <1>1, <1>3, TrainPlaces, EnsembleAlike
<1>4. CASE at = "calibration"
  <2>1. "stacker" \in DOMAIN ns
    BY <1>1, <1>4 DEF LabelInv, Ready
  <2>2. CASE jumps = 0
    <3>1. "probs" \in DOMAIN ns
      BY <1>1, <1>4, <2>2 DEF AlikeInv, OfOneKind
    <3> QED
      BY <1>1, <1>4, <2>1, <3>1, TrainPlaces, TrainAfter, CalibrationAlike DEF TrainCalibration
  <2>3. CASE jumps # 0
    BY <1>1, <2>3 DEF AlikeInv, OfOneKind, CalibratedAlike
  <2> QED
    BY <2>2, <2>3
<1>5. CASE at \notin {"ensemble", "calibration"}
  <2>1. at' \notin {"roc", "calibration"}
    BY <1>1, <1>2, <1>5, TrainAfter
  <2> QED
    BY <1>5, <2>1, TrainPlaces, MovesAlike DEF AlikeInv, OfOneKind
<1> QED
  BY <1>3, <1>4, <1>5

LEMMA ResultsPlaces ==
  ASSUME ResultsNext
  PROVE  /\ program = "results" /\ UNCHANGED <<program, jumps>>
         /\ at \in StepOf("results") /\ at' \in {After(at), at}
<1>1. StepOf("results") =
        {"imports", "data", "balance", "split", "xgb", "lgb", "tft", "oof", "meta", "ensemble",
         "roc", "calibration", "reliability", "thresholds", "sweep", "shap", "shap_bar",
         "waterfall", "survival", "conformal", "uplift", "fairness", "demo", "summary", "files"}
  BY DEF StepOf, Order
<1>2. \A step, b, reports : Runs(step, b, reports) \/ Raises(step, b) =>
        UNCHANGED <<program, jumps>> /\ at' \in {After(step), at, "end"} /\ at = step
        /\ (program = "results" => at' \in {After(step), at})
  BY DEF Runs, Completes, Raises, Notebook
<1>3. \A step, names, early, b, reports : Step(step, names, early, b, reports) =>
        \E c : Runs(step, c, reports) \/ Raises(step, c)
  BY DEF Step
<1>4. \A step, names : Shows(step, names) => \E c : Runs(step, c, {}) \/ Raises(step, c)
  BY <1>3 DEF Shows
<1>5. CASE ResultsTft \/ ResultsMeta \/ ResultsEnsemble \/ ResultsCalibration \/ ResultsThresholds
  <2>1. program = "results" /\ at \in {"tft", "meta", "ensemble", "calibration", "thresholds"}
    BY <1>5 DEF ResultsTft, ResultsMeta, ResultsEnsemble, ResultsCalibration, ResultsThresholds, Cell
  <2>2. \E step, b, reports : Runs(step, b, reports) \/ Raises(step, b)
    BY <1>5 DEF ResultsTft, ResultsMeta, ResultsEnsemble, ResultsCalibration, ResultsThresholds,
       TftStep, MetaStep, EnsembleStep
  <2> QED
    BY <1>1, <1>2, <2>1, <2>2
<1>6. CASE ResultsSurvival \/ ResultsConformal \/ ResultsUplift \/ ResultsFairness \/ ResultsImports
  <2>1. program = "results" /\ at \in {"survival", "conformal", "uplift", "fairness", "imports"}
    BY <1>6 DEF ResultsSurvival, ResultsConformal, ResultsUplift, ResultsFairness, ResultsImports, Cell
  <2>2. \E step, b, reports : Runs(step, b, reports) \/ Raises(step, b)
    BY <1>6 DEF ResultsSurvival, ResultsConformal, ResultsUplift, ResultsFairness, ResultsImports,
       UpliftStep, FairnessStep
  <2> QED
    BY <1>1, <1>2, <2>1, <2>2
<1>7. CASE ResultsData \/ ResultsSplit \/ ResultsXgb \/ ResultsLgb \/ ResultsOof \/ ResultsShap
           \/ ResultsSummary
  <2>1. program = "results" /\ at \in {"data", "split", "xgb", "lgb", "oof", "shap", "summary"}
    BY <1>7 DEF ResultsData, ResultsSplit, ResultsXgb, ResultsLgb, ResultsOof, ResultsShap,
       ResultsSummary, Cell
  <2>2. \E step, b, reports : Runs(step, b, reports) \/ Raises(step, b)
    BY <1>3, <1>7 DEF ResultsData, ResultsSplit, ResultsXgb, ResultsLgb, ResultsOof, ResultsShap,
       ResultsSummary
  <2> QED
    BY <1>1, <1>2, <2>1, <2>2
<1>8. CASE ResultsBalance \/ ResultsRoc \/ ResultsReliability \/ ResultsSweep \/ ResultsShapBar
           \/ ResultsWaterfall \/ ResultsDemo \/ ResultsFiles
  <2>1. /\ program = "results"
        /\ at \in {"balance", "roc", "reliability", "sweep", "shap_bar", "waterfall", "demo", "files"}
    BY <1>8 DEF ResultsBalance, ResultsRoc, ResultsReliability, ResultsSweep, ResultsShapBar,
       ResultsWaterfall, ResultsDemo, ResultsFiles, Cell
  <2>2. \E step, b, reports : Runs(step, b, reports) \/ Raises(step, b)
    BY <1>4, <1>8 DEF ResultsBalance, ResultsRoc, ResultsReliability, ResultsSweep, ResultsShapBar,
       ResultsWaterfall, ResultsDemo, ResultsFiles
  <2> QED
    BY <1>1, <1>2, <2>1, <2>2
<1> QED
  BY <1>5, <1>6, <1>7, <1>8 DEF ResultsNext

\* A cell other than those of the ensemble, the curves and the calibration.
LEMMA ResultsMoves ==
  ASSUME ResultsNext, at \notin {"ensemble", "roc", "calibration"}
  PROVE  \E b : Moves(b)
<1>1. /\ "calibrated" \notin DOMAIN [imports |-> TRUE]
      /\ "calibrated" \notin DOMAIN [data |-> TRUE]
      /\ "calibrated" \notin DOMAIN [split |-> TRUE]
      /\ "calibrated" \notin DOMAIN [joblib |-> TRUE]
      /\ "calibrated" \notin DOMAIN [meta_metrics |-> TRUE]
      /\ "calibrated" \notin DOMAIN Rebound(XgbBinds, [joblib |-> TRUE])
      /\ "calibrated" \notin DOMAIN LgbBinds
      /\ "calibrated" \notin DOMAIN OofBinds
      /\ "calibrated" \notin DOMAIN ThresholdBinds
      /\ "calibrated" \notin DOMAIN [shap |-> ns.xgb]
      /\ "calibrated" \notin DOMAIN (IF Bound({"imports"}) THEN [stacker |-> NoMeta] ELSE <<>>)
      /\ "calibrated" \notin DOMAIN (IF Bound({"imports"}) THEN [tft |-> NoTft] ELSE <<>>)
  BY DEF Rebound, XgbBinds, LgbBinds, OofBinds, ThresholdBinds
<1>2. CASE ResultsData \/ ResultsSplit \/ ResultsXgb \/ ResultsLgb \/ ResultsOof \/ ResultsShap
           \/ ResultsSummary
  BY <1>1, <1>2, NotInNothing, StepMoves DEF ResultsData, ResultsSplit, ResultsXgb, ResultsLgb,
     ResultsOof, ResultsShap, ResultsSummary
<1>3. CASE ResultsBalance \/ ResultsReliability \/ ResultsSweep \/ ResultsShapBar \/ ResultsWaterfall
           \/ ResultsDemo \/ ResultsFiles
  BY <1>3, NotInNothing, StepMoves DEF ResultsBalance, ResultsReliability, ResultsSweep,
     ResultsShapBar, ResultsWaterfall, ResultsDemo, ResultsFiles, Shows
<1>4. CASE ResultsImports \/ ResultsSurvival \/ ResultsThresholds \/ ResultsConformal
  BY <1>1, <1>4, NotInNothing, RunsMoves DEF ResultsImports, ResultsSurvival, ResultsThresholds,
     ResultsConformal
<1>5. CASE ResultsTft \/ ResultsMeta \/ ResultsUplift \/ ResultsFairness
  BY <1>1, <1>5, NotInNothing, SharedMoves, RunsMoves DEF ResultsTft, ResultsMeta, ResultsUplift,
     ResultsFairness
<1> QED
  BY <1>2, <1>3, <1>4, <1>5 DEF ResultsNext, ResultsEnsemble, ResultsRoc, ResultsCalibration, Cell

\* A step after the ensemble that leaves the scores and the meta-learner alone.
LEMMA KindKept ==
  ASSUME AlikeInv, program = "results", at \in {"roc", "calibration"}, NEW b, Moves(b),
         DOMAIN b \cap {"stacker", "probs"} = {}
  PROVE  AlikeInv'
<1> DEFINE n == Rebound(ns, b)
<1>1. /\ DOMAIN n = DOMAIN ns \cup DOMAIN b
      /\ \A k \in DOMAIN ns \ DOMAIN b : n[k] = ns[k]
  BY ReboundAt
<1> HIDE DEF n
<1>2. {"stacker", "probs"} \subseteq DOMAIN n =>
        /\ {"stacker", "probs"} \subseteq DOMAIN ns
        /\ n.stacker = ns.stacker /\ n.probs = ns.probs
  BY <1>1
<1>3. ns' = n /\ UNCHANGED <<program, jumps>>
  BY DEF n, Moves
<1>4. OfOneKind'
  BY <1>2, <1>3 DEF AlikeInv, OfOneKind, Kind
<1> QED
  BY <1>3, <1>4, MovesAlike DEF AlikeInv

LEMMA ResultsAlike ==
  ASSUME AlikeInv, ResultsNext
  PROVE  AlikeInv'
<1>1. /\ program = "results" /\ UNCHANGED <<program, jumps>>
      /\ at \in StepOf("results") /\ at' \in {After(at), at}
  BY ResultsPlaces
<1>2. CASE at = "ensemble"
  <2>1. ResultsEnsemble
    BY <1>2 DEF ResultsNext, ResultsImports, ResultsData, ResultsBalance, ResultsSplit, ResultsXgb,
      ResultsLgb, ResultsTft, ResultsOof, ResultsMeta, ResultsRoc, ResultsCalibration,
      ResultsReliability, ResultsThresholds, ResultsSweep, ResultsShap, ResultsShapBar,
      ResultsWaterfall, ResultsSurvival, ResultsConformal, ResultsUplift, ResultsFairness,
      ResultsDemo, ResultsSummary, ResultsFiles, Cell
  <2>2. CASE EnsembleStep
    BY <1>1, <2>2, EnsembleAlike
  <2>3. CASE \E b \in {FixedProbs, [ensemble |-> TRUE, tft_test |-> <<>>],
                      IF Bound({"imports"}) THEN [ensemble |-> TRUE] ELSE <<>>} : Raises("ensemble", b)
    <3>1. /\ "calibrated" \notin DOMAIN FixedProbs
          /\ "calibrated" \notin DOMAIN [ensemble |-> TRUE, tft_test |-> <<>>]
          /\ "calibrated" \notin DOMAIN (IF Bound({"imports"}) THEN [ensemble |-> TRUE] ELSE <<>>)
      BY DEF FixedProbs
    <3>2. at' = "ensemble"
      BY <1>1, <2>3 DEF Raises, Notebook
    <3>3. \E b : Moves(b)
      BY <2>3, <3>1, RunsMoves
    <3> QED
      BY <1>1, <3>2, <3>3, MovesAlike DEF AlikeInv, OfOneKind
  <2> QED
    BY <2>1, <2>2, <2>3 DEF ResultsEnsemble
<1>3. CASE at = "roc"
  <2>1. ResultsRoc
    BY <1>3 DEF ResultsNext, ResultsImports, ResultsData, ResultsBalance, ResultsSplit, ResultsXgb,
      ResultsLgb, ResultsTft, ResultsOof, ResultsMeta, ResultsEnsemble, ResultsCalibration,
      ResultsReliability, ResultsThresholds, ResultsSweep, ResultsShap, ResultsShapBar,
      ResultsWaterfall, ResultsSurvival, ResultsConformal, ResultsUplift, ResultsFairness,
      ResultsDemo, ResultsSummary, ResultsFiles, Cell
  <2>2. Moves(<<>>)
    BY <2>1, NotInNothing, RunsMoves DEF ResultsRoc, Shows, Step
  <2>3. DOMAIN <<>> \cap {"stacker", "probs"} = {}
    OBVIOUS
  <2> QED
    BY <1>1, <1>3, <2>2, <2>3, KindKept
<1>4. CASE at = "calibration"
  <2>1. ResultsCalibration
    BY <1>4 DEF ResultsNext, ResultsImports, ResultsData, ResultsBalance, ResultsSplit, ResultsXgb,
      ResultsLgb, ResultsTft, ResultsOof, ResultsMeta, ResultsEnsemble, ResultsRoc,
      ResultsReliability, ResultsThresholds, ResultsSweep, ResultsShap, ResultsShapBar,
      ResultsWaterfall, ResultsSurvival, ResultsConformal, ResultsUplift, ResultsFairness,
      ResultsDemo, ResultsSummary, ResultsFiles, Cell
  <2>2. CASE /\ Bound({"imports", "xgb", "lgb", "tft", "ensemble", "stacker", "probs"})
             /\ Runs("calibration", CalibrationBinds, CalibrationReports)
    <3>1. {"stacker", "probs"} \subseteq DOMAIN ns
      BY <2>2 DEF Bound
    <3>2. After("calibration") \notin {"roc", "calibration"}
      BY <1>1, <1>4, ResultsAfter
    <3> QED
      BY <1>1, <2>2, <3>1, <3>2, CalibrationAlike
  <2>3. CASE Raises("calibration", CalibrationLeft)
    <3>1. CalibrationLeft = <<>> \/ (\E c : CalibrationLeft = [calibrator |-> c])
          \/ (\E c, d : CalibrationLeft = [calibrator |-> c, cal_probs |-> d])
          \/ (\E c, d : CalibrationLeft = [calibrator |-> c, cal_probs |-> d, cal_metrics |-> TRUE])
      BY DEF CalibrationLeft, Bound
    <3>2. "calibrated" \notin DOMAIN CalibrationLeft /\ DOMAIN CalibrationLeft \cap {"stacker", "probs"} = {}
      BY <3>1
    <3>3. Moves(CalibrationLeft)
      BY <2>3, <3>2, RunsMoves
    <3> QED
      BY <1>1, <1>4, <3>2, <3>3, KindKept
  <2> QED
    BY <2>1, <2>2, <2>3 DEF ResultsCalibration
<1>5. CASE at \notin {"ensemble", "roc", "calibration"}
  <2>1. at' \notin {"roc", "calibration"}
    BY <1>1, <1>5, ResultsAfter
  <2> QED
    BY <1>1, <1>5, <2>1, ResultsMoves, MovesAlike DEF AlikeInv, OfOneKind
<1> QED
  BY <1>2, <1>3, <1>4, <1>5

LEMMA AlikeInit == Init => AlikeInv
<1> SUFFICES ASSUME Init PROVE AlikeInv
  OBVIOUS
<1>1. jumps = 0 /\ program = "none" /\ ns = <<>>
  BY DEF Init
<1>2. "calibrated" \notin DOMAIN ns
  BY <1>1, NotInNothing
<1> QED
  BY <1>1, <1>2 DEF AlikeInv, OfOneKind, CalibratedAlike

LEMMA AlikeKept == LabelInv /\ AlikeInv /\ [Next]_vars => AlikeInv'
<1> SUFFICES ASSUME LabelInv, AlikeInv, [Next]_vars PROVE AlikeInv'
  OBVIOUS
<1>1. CASE UNCHANGED vars
  BY <1>1 DEF vars, AlikeInv, OfOneKind, Kind, CalibratedAlike
<1>2. CASE \E p \in Program : Start(p)
  <2>1. PICK p \in Program : Open(p)
    BY <1>2 DEF Start
  <2>2. ns' \in {<<>>, Imported} /\ program' = p /\ at' = Order[p][1] /\ jumps' = 0
    BY <2>1 DEF Open
  <2>3. Order["train"][1] = "data" /\ Order["results"][1] = "imports"
    BY DEF Order
  <2>4. "calibrated" \notin DOMAIN Imported
    BY DEF Imported
  <2> QED
    BY <2>2, <2>3, <2>4, NotInNothing DEF AlikeInv, OfOneKind, CalibratedAlike
<1>3. CASE Close
  <2>1. ns' = <<>> /\ program' = "none" /\ jumps' = 0
    BY <1>3 DEF Close
  <2> QED
    BY <2>1, NotInNothing DEF AlikeInv, OfOneKind, CalibratedAlike
<1>4. CASE Jump
  <2>1. jumps \in Nat /\ jumps' = jumps + 1
    BY <1>4 DEF Jump, AlikeInv
  <2>2. jumps' \in Nat /\ jumps' # 0
    BY <2>1
  <2> QED
    BY <2>2 DEF AlikeInv, OfOneKind, CalibratedAlike
<1>5. CASE TuneXgbStep \/ TuneLgbStep
  <2>1. program \notin {"train", "results"} /\ \E b : Moves(b)
    BY <1>5, NotInNothing, RunsMoves DEF TuneXgbStep, TuneLgbStep, Does
  <2> QED
    BY <2>1, ElsewhereAlike
<1>6. CASE TrainNext
  BY <1>6, TrainAlike
<1>7. CASE ResultsNext
  BY <1>7, ResultsAlike
<1>8. CASE TwoPartNext
  BY <1>8, TwoPartMoves, ElsewhereAlike
<1>9. CASE PdiNext
  BY <1>9, PdiMoves, ElsewhereAlike
<1>10. CASE TrainLstm \/ TrainKeras
  <2>1. program \notin {"train", "results"} /\ \E b : Moves(b)
    BY <1>10, NotInNothing, RunsMoves DEF TrainLstm, TrainKeras, Does
  <2> QED
    BY <2>1, ElsewhereAlike
<1> QED
  BY <1>1, <1>2, <1>3, <1>4, <1>5, <1>6, <1>7, <1>8, <1>9, <1>10 DEF Next

\* In train.py, and in its notebook when the cells are run from the top, the calibrator
\* is fitted to the kind of scores it then calibrates, and not to fixed-weight scores
\* when the meta-learner's replace them.
THEOREM CalibratesItsKind == Spec => []CalibratedAlike
<1>1. AlikeInv => CalibratedAlike
  BY DEF AlikeInv
<1>2. Spec => []AlikeInv
  BY AlwaysLabelInv, AlikeInit, AlikeKept, PTL DEF Spec
<1> QED
  BY <1>1, <1>2, PTL

-----------------------------------------------------------------------------
(* The epoch a network goes on with: induction by the least counterexample. *)

\* There is no theorem of induction here whose operator a prover could instantiate;
\* this one has none: the subsets of an interval are well-founded.
LEMMA Least ==
  ASSUME NEW T, T \subseteq Nat, T # {}
  PROVE  \E n \in T : \A k \in T : n <= k
<1>1. PICK top \in T : TRUE
  OBVIOUS
<1> DEFINE S == 0..top
           U == {0..n : n \in {k \in T : k <= top}}
           R == StrictSubsetOrdering(S)
<1>2. IsFiniteSet(S)
  BY FS_Interval
<1>3. IsWellFoundedOn(R, SUBSET S)
  BY <1>2, FS_StrictSubsetOrderingWellFounded, FS_FiniteSubsetsOfFinite
<1>4. U \subseteq SUBSET S /\ U # {}
  OBVIOUS
<1> HIDE DEF R
<1>5. PICK V \in U : \A W \in U : ~(<<W, V>> \in R)
  BY <1>3, <1>4, WFMin
<1>6. PICK n \in T : n <= top /\ V = 0..n
  BY <1>5
<1>7. \A k \in T : k < n => 0..k \in U /\ 0..k # V /\ 0..k \subseteq V
  BY <1>6
<1>8. \A k \in T : k < n => <<0..k, V>> \in R
  BY <1>7, <1>4, <1>5 DEF R, StrictSubsetOrdering
<1>9. \A k \in T : ~(k < n)
  BY <1>5, <1>7, <1>8
<1> QED
  BY <1>6, <1>9

\* One round of the loop over the epochs: what is best after e, from what is after e-1.
Round(auc, best, e) ==
  IF e = 0 THEN [auc |-> 0, at |-> 0]
  ELSE IF Validated(e) /\ auc[e] > best[e-1].auc THEN [auc |-> auc[e], at |-> e]
  ELSE best[e-1]

LEMMA RoundsExist ==
  ASSUME NEW auc, NEW n \in Nat
  PROVE  \E best : best = [e \in 0..n |-> Round(auc, best, e)]
<1> DEFINE Rounds(m) == \E best : best = [e \in 0..m |-> Round(auc, best, e)]
           T == {m \in Nat : ~Rounds(m)}
<1>1. Rounds(0)
  <2> DEFINE best == [e \in 0..0 |-> [auc |-> 0, at |-> 0]]
  <2>1. best = [e \in 0..0 |-> Round(auc, best, e)]
    BY DEF Round
  <2> QED
    BY <2>1
<1>2. ASSUME NEW m \in Nat, Rounds(m)
      PROVE  Rounds(m+1)
  <2>1. PICK best : best = [e \in 0..m |-> Round(auc, best, e)]
    BY <1>2
  <2> DEFINE more == [e \in 0..m+1 |-> IF e = m+1 THEN Round(auc, best, m+1) ELSE best[e]]
  <2>2. ASSUME NEW e \in 0..m+1
        PROVE  Round(auc, more, e) = Round(auc, best, e)
    BY DEF Round
  <2>3. \A e \in 0..m+1 : more[e] = Round(auc, best, e)
    BY <2>1
  <2>4. more = [e \in 0..m+1 |-> Round(auc, more, e)]
    BY <2>2, <2>3
  <2> QED
    BY <2>4
<1> HIDE DEF Rounds
<1>3. ASSUME T # {} PROVE FALSE
  <2>1. PICK m \in T : \A k \in T : m <= k
    BY <1>3, Least
  <2>2. m \in Nat /\ m # 0 /\ ~Rounds(m)
    BY <2>1, <1>1
  <2>3. m-1 \in Nat /\ m-1 \notin T /\ m = (m-1) + 1
    BY <2>1, <2>2
  <2>4. Rounds(m-1)
    BY <2>3
  <2> QED
    BY <1>2, <2>2, <2>3, <2>4
<1>4. Rounds(n)
  BY <1>3
<1> QED
  BY <1>4 DEF Rounds

\* b is the first of the best of the epochs validated until e, or none is above 0.
Leads(auc, e, b) ==
  /\ b.at \in 0..e /\ b.auc \in 0..Top
  /\ IF b.at = 0 THEN b.auc = 0 ELSE Validated(b.at) /\ b.auc = auc[b.at] /\ b.auc > 0
  /\ \A k \in 1..e : Validated(k) => auc[k] <= b.auc /\ (k < b.at => auc[k] < b.auc)

LEMMA LeaderKept ==
  ASSUME NEW auc \in Auc, NEW best, NEW e \in 1..Epochs, Leads(auc, e-1, best[e-1])
  PROVE  Leads(auc, e, Round(auc, best, e))
<1> DEFINE b == best[e-1]
<1>1. Top \in Nat /\ Epochs \in Nat /\ auc[e] \in 0..Top
  BY LabelFlowAssumption DEF Auc
<1>2. b.at \in 0..e-1 /\ b.auc \in 0..Top
  BY DEF Leads
<1>3. e \in Nat /\ e >= 1
  BY <1>1
<1> HIDE DEF b
<1>4. Leads(auc, e-1, b)
  BY DEF b
<1>5. \A k \in 1..e : k \in 1..e-1 \/ k = e
  BY <1>3
<1>6. \A k \in 1..e : auc[k] \in 0..Top
  BY <1>1, <1>3 DEF Auc
<1>7. CASE Validated(e) /\ auc[e] > b.auc
  <2> DEFINE r == [auc |-> auc[e], at |-> e]
  <2>1. Round(auc, best, e) = r
    BY <1>3, <1>7 DEF Round, b
  <2>2. r.at \in 0..e /\ r.auc \in 0..Top /\ r.at # 0 /\ r.auc > 0
    BY <1>1, <1>2, <1>3, <1>7
  <2>3. ASSUME NEW k \in 1..e, Validated(k)
        PROVE  auc[k] <= auc[e] /\ (k < e => auc[k] < auc[e])
    <3>1. CASE k = e
      BY <3>1, <1>1
    <3>2. CASE k \in 1..e-1
      <4>1. auc[k] <= b.auc
        BY <3>2, <2>3, <1>4 DEF Leads
      <4> QED
        BY <4>1, <1>1, <1>2, <1>6, <1>7
    <3> QED
      BY <3>1, <3>2, <1>5
  <2> QED
    BY <2>1, <2>2, <2>3, <1>7 DEF Leads
<1>8. CASE ~(Validated(e) /\ auc[e] > b.auc)
  <2>1. Round(auc, best, e) = b
    BY <1>3, <1>8 DEF Round, b
  <2>2. ASSUME NEW k \in 1..e, Validated(k)
        PROVE  auc[k] <= b.auc /\ (k < b.at => auc[k] < b.auc)
    <3>1. CASE k = e
      BY <3>1, <2>2, <1>1, <1>2, <1>3, <1>8
    <3>2. CASE k \in 1..e-1
      BY <3>2, <2>2, <1>4 DEF Leads
    <3> QED
      BY <3>1, <3>2, <1>5
  <2>3. b.at \in 0..e
    BY <1>2, <1>3
  <2> QED
    BY <2>1, <2>2, <2>3, <1>2, <1>4 DEF Leads
<1> QED
  BY <1>7, <1>8

\* What the loop over the epochs ends with (tft_model.py, lstm_model.py).
THEOREM BestLeads ==
  ASSUME NEW auc \in Auc
  PROVE  Leads(auc, Epochs, Best(auc))
<1> DEFINE best == CHOOSE f : f = [e \in 0..Epochs |-> Round(auc, f, e)]
           T == {e \in 0..Epochs : ~Leads(auc, e, best[e])}
<1>1. Epochs \in Nat /\ Top \in Nat
  BY LabelFlowAssumption
<1>2. best = [e \in 0..Epochs |-> Round(auc, best, e)]
  BY <1>1, RoundsExist
<1>3. Best(auc) = best[Epochs]
  BY DEF Best, Round
<1> HIDE DEF best
<1>4. \A e \in 0..Epochs : best[e] = Round(auc, best, e)
  BY <1>2
<1>5. Leads(auc, 0, best[0])
  <2>1. best[0] = [auc |-> 0, at |-> 0]
    <3>1. 0 \in 0..Epochs
      BY <1>1
    <3> QED
      BY <3>1, <1>4 DEF Round
  <2>2. best[0].auc = 0 /\ best[0].at = 0
    BY <2>1
  <2> QED
    BY <2>2, <1>1 DEF Leads
<1>6. ASSUME T # {} PROVE FALSE
  <2> T \subseteq Nat
    BY <1>1
  <2>1. PICK e \in T : \A k \in T : e <= k
    BY <1>6, Least
  <2>2. e \in 1..Epochs /\ e-1 \in 0..Epochs /\ e-1 \notin T
    BY <2>1, <1>1, <1>5
  <2>3. Leads(auc, e, Round(auc, best, e))
    BY <2>2, LeaderKept
  <2> QED
    BY <2>1, <2>2, <2>3, <1>4
<1> QED
  BY <1>1, <1>3, <1>6

\* The network that TFTDelinquencyModel.train leaves is one of the AUC it reports.
LEMMA TftReports ==
  ASSUME NEW auc \in Auc
  PROVE  TftTrain(auc).kept = TftTrain(auc).reported
<1>1. Leads(auc, Epochs, Best(auc))
  BY BestLeads
<1>2. Epochs \in Nat /\ Epochs >= 1 /\ Validated(Epochs) /\ auc[Epochs] \in 0..Top
  BY LabelFlowAssumption DEF Validated, Auc
<1>3. CASE Best(auc).at = 0
  <2>1. Best(auc).auc = 0 /\ auc[Epochs] <= 0
    BY <1>1, <1>2, <1>3 DEF Leads
  <2>2. auc[Epochs] = 0
    BY <2>1, <1>2
  <2> QED
    BY <2>1, <2>2, <1>3 DEF TftTrain, TftKept
<1>4. CASE Best(auc).at # 0
  BY <1>1, <1>4 DEF Leads, TftTrain, TftKept
<1> QED
  BY <1>3, <1>4

-----------------------------------------------------------------------------
(* Types, and what is reported of networks.                                *)

Saved == {"tft", "keras"}
Told(reports) == \A r \in reports : r.true \in BOOLEAN /\ (r.of \in Saved => r.true)

LEMMA MeasuresTold ==
  /\ Told({})
  /\ \A of, s : of \notin Saved => Told({Measured(of, s)})
  /\ \A of, s, on, t :
       of \notin Saved /\ on \notin Saved => Told({Measured(of, s), Measured(on, t)})
  /\ \A of, t : (of \in Saved => t.kept = t.reported) => Told({Reported(of, t)})
  /\ \A of, t, on, s :
       (of \in Saved => t.kept = t.reported) /\ on \notin Saved
         => Told({Reported(of, t), Measured(on, s)})
<1>1. \A s : Honest(s) \in BOOLEAN
  BY DEF Honest
<1>2. \A of, s : Measured(of, s).true \in BOOLEAN /\ Measured(of, s).of = of
  BY <1>1 DEF Measured
<1>3. \A of, t : /\ Reported(of, t).true \in BOOLEAN /\ Reported(of, t).of = of
                 /\ Reported(of, t).true = (t.kept = t.reported)
  BY DEF Reported
<1> QED
  BY <1>2, <1>3 DEF Told

LEMMA OrderLength ==
  ASSUME NEW p \in Program
  PROVE  \E n \in Nat : n > 0 /\ DOMAIN Order[p] = 1..n /\ Len(Order[p]) = n
<1>1. p \in {"tune", "train", "results", "models", "enhanced", "v3", "pdi", "lstm", "keras"}
  BY SessionAssumption
<1>2. CASE p = "tune"
  BY <1>2 DEF Order
<1>3. CASE p = "train"
  BY <1>3 DEF Order
<1>4. CASE p = "results"
  BY <1>4 DEF Order
<1>5. CASE p = "models"
  BY <1>5 DEF Order
<1>6. CASE p = "enhanced"
  BY <1>6 DEF Order
<1>7. CASE p = "v3"
  BY <1>7 DEF Order
<1>8. CASE p = "pdi"
  BY <1>8 DEF Order
<1>9. CASE p \in {"lstm", "keras"}
  <2>1. \E name : Order[p] = <<name>>
    BY <1>9 DEF Order
  <2>2. DOMAIN Order[p] = 1..1 /\ Len(Order[p]) = 1
    BY <2>1
  <2> QED
    BY <2>2
<1> QED
  BY <1>1, <1>2, <1>3, <1>4, <1>5, <1>6, <1>7, <1>8, <1>9

LEMMA InPlace ==
  /\ "none" \in Place /\ "end" \in Place
  /\ \A p \in Program : \A step \in StepOf(p) : step \in Place
BY DEF Place

\* A program goes on with a step of its own, or it is at its end.
LEMMA AfterPlace ==
  ASSUME program \in Program, NEW step \in StepOf(program)
  PROVE  After(step) \in StepOf(program) \cup {"end"}
<1> DEFINE o == Order[program]
           i == CHOOSE j \in DOMAIN o : o[j] = step
<1>1. \E j \in DOMAIN o : o[j] = step
  BY DEF StepOf
<1>2. i \in DOMAIN o
  BY <1>1
<1>3. PICK n \in Nat : DOMAIN o = 1..n /\ Len(o) = n
  BY OrderLength
<1>4. After(step) = IF i = Len(o) THEN "end" ELSE o[i+1]
  BY DEF After
<1> HIDE DEF i
<1>5. i # Len(o) => i+1 \in DOMAIN o
  BY <1>2, <1>3
<1> QED
  BY <1>4, <1>5 DEF StepOf

\* A step that runs or raises, whatever it binds.
Acts ==
  \E step, b, reports :
    step \notin {"none", "end"} /\ Told(reports) /\ (Runs(step, b, reports) \/ Raises(step, b))

LEMMA ActsTyped ==
  ASSUME TypeOK, Acts
  PROVE  TypeOK'
<1>1. PICK step, b, reports :
        step \notin {"none", "end"} /\ Told(reports) /\ (Runs(step, b, reports) \/ Raises(step, b))
  BY DEF Acts
<1>2. at = step /\ UNCHANGED <<setup, program, jumps, params>>
  BY <1>1 DEF Runs, Completes, Raises
<1>3. program \in Program /\ program # "none" /\ step \in StepOf(program)
  BY <1>1, <1>2 DEF TypeOK
<1>4. at' \in StepOf(program) \cup {"end"} /\ failed' \in StepOf(program) \cup {"none"}
  BY <1>1, <1>3, AfterPlace DEF Runs, Completes, Raises
<1>5. StepOf(program) \cup {"end"} \subseteq Place
  BY <1>3, InPlace
<1>6. Told(shown')
  BY <1>1, MeasuresTold DEF Runs, Completes, Raises
<1> USE DEF TypeOK
<1>7. setup' \in Setup /\ program' \in Program \cup {"none"} /\ at' \in Place
  BY <1>2, <1>4, <1>5
<1>8. failed' \in Place /\ jumps' \in 0..MaxJumps
  BY <1>2, <1>4, <1>5, InPlace
<1>9. (IF program = "none" THEN at = "none" /\ ns = <<>> ELSE at \in StepOf(program) \cup {"end"})'
  BY <1>2, <1>3, <1>4 DEF StepOf
<1>10. (\A r \in shown : r.true \in BOOLEAN)'
  BY <1>6 DEF Told
<1>11. params' \in [xgb: SUBSET Customer, lgb: SUBSET Customer]
  BY <1>2
<1> QED
  BY <1>7, <1>8, <1>9, <1>10, <1>11

LEMMA StepActs ==
  ASSUME NEW step, NEW names, NEW early, NEW b, NEW reports, step \notin {"none", "end"},
         Told(reports), Step(step, names, early, b, reports)
  PROVE  Acts
BY DEF Step, Acts

LEMMA ShowsActs ==
  ASSUME NEW step, NEW names, step \notin {"none", "end"}, Shows(step, names)
  PROVE  Acts
BY StepActs, MeasuresTold DEF Shows

LEMMA NetActs ==
  ASSUME NEW step, step \notin {"none", "end"}, NetOnTest(step)
  PROVE  Acts
<1>1. CASE Raises(step, <<>>)
  BY <1>1, MeasuresTold DEF Acts
<1>2. ASSUME NEW auc \in Auc, NEW b, NEW s,
             Runs(step, b, {Reported("tft", TftTrain(auc)), Measured("net_test", s)})
      PROVE  Acts
  <2>1. Told({Reported("tft", TftTrain(auc)), Measured("net_test", s)})
    BY TftReports, MeasuresTold DEF Saved
  <2> QED
    BY <1>2, <2>1 DEF Acts
<1> QED
  BY <1>1, <1>2 DEF NetOnTest

LEMMA SharedActs ==
  ASSUME TftStep \/ MetaStep \/ EnsembleStep \/ UpliftStep \/ FairnessStep
  PROVE  Acts
<1>1. CASE TftStep
  <2>1. \A auc \in Auc : Told({Reported("tft", TftTrain(auc))})
    BY TftReports, MeasuresTold DEF Saved
  <2> QED
    BY <1>1, <2>1, MeasuresTold DEF Saved, TftStep, Acts
<1>2. CASE MetaStep
  BY <1>2, MeasuresTold DEF Saved, MetaStep, Acts
<1>3. CASE EnsembleStep
  BY <1>3, MeasuresTold DEF Saved, EnsembleStep, Acts
<1>4. CASE UpliftStep
  <2>1. \A s, short : Told(IF short THEN {} ELSE {Measured("uplift", s)})
    BY MeasuresTold DEF Saved
  <2> QED
    BY <1>4, <2>1 DEF UpliftStep, Acts
<1>5. CASE FairnessStep
  <2>1. \A s : \A reports \in SUBSET {Measured("audit", s)} : Told(reports)
    BY MeasuresTold DEF Told, Saved
  <2> QED
    BY <1>5, <2>1 DEF FairnessStep, Acts
<1> QED
  BY <1>1, <1>2, <1>3, <1>4, <1>5

LEMMA CodeTold ==
  /\ Told(XgbReports) /\ Told(LgbReports) /\ Told(CalibrationReports) /\ Told(ThresholdReports)
  /\ Told(ConformalReports) /\ \A B \in BOOLEAN : Told(IF B THEN ConformalReports ELSE {})
BY MeasuresTold DEF Saved, XgbReports, LgbReports, CalibrationReports, ThresholdReports, ConformalReports

LEMMA TrainActs ==
  ASSUME TrainNext
  PROVE  Acts
<1>1. CASE \/ TrainTft \/ TrainMeta \/ TrainEnsemble \/ TrainUplift \/ TrainFairness
  BY <1>1, SharedActs DEF TrainTft, TrainMeta, TrainEnsemble, TrainUplift, TrainFairness
<1>2. CASE \/ TrainData \/ TrainSplit \/ TrainExplain \/ TrainSurvival \/ TrainMlflow \/ TrainResult
  BY <1>2, MeasuresTold DEF Saved, TrainData, TrainSplit, TrainExplain, TrainSurvival, TrainMlflow,
     TrainResult, Acts
<1>3. CASE TrainXgb \/ TrainLgb \/ TrainOof
  BY <1>3, MeasuresTold, CodeTold DEF Saved, TrainXgb, TrainLgb, TrainOof, Acts
<1>4. CASE TrainCalibration \/ TrainThresholds \/ TrainConformal
  BY <1>4, CodeTold DEF TrainCalibration, TrainThresholds, TrainConformal, Acts
<1> QED
  BY <1>1, <1>2, <1>3, <1>4 DEF TrainNext

LEMMA ResultsActs ==
  ASSUME ResultsNext
  PROVE  Acts
<1>1. CASE \/ ResultsBalance \/ ResultsRoc \/ ResultsReliability \/ ResultsSweep \/ ResultsShapBar
           \/ ResultsWaterfall \/ ResultsDemo \/ ResultsFiles
  BY <1>1, ShowsActs DEF ResultsBalance, ResultsRoc, ResultsReliability, ResultsSweep,
     ResultsShapBar, ResultsWaterfall, ResultsDemo, ResultsFiles
<1>2. CASE \/ ResultsImports \/ ResultsData \/ ResultsSplit \/ ResultsShap \/ ResultsSurvival
  BY <1>2, MeasuresTold, StepActs DEF Saved, ResultsImports, ResultsData, ResultsSplit, ResultsShap,
     ResultsSurvival, Acts
<1>3. CASE ResultsXgb \/ ResultsLgb \/ ResultsOof \/ ResultsSummary
  BY <1>3, MeasuresTold, CodeTold, StepActs DEF Saved, ResultsXgb, ResultsLgb, ResultsOof, ResultsSummary
<1>4. CASE ResultsTft \/ ResultsMeta \/ ResultsEnsemble
  BY <1>4, MeasuresTold, SharedActs DEF Saved, ResultsTft, ResultsMeta, ResultsEnsemble, Acts
<1>5. CASE ResultsCalibration \/ ResultsThresholds
  BY <1>5, MeasuresTold, CodeTold DEF Saved, ResultsCalibration, ResultsThresholds, Acts
<1>6. CASE ResultsUplift \/ ResultsFairness
  BY <1>6, MeasuresTold, SharedActs DEF Saved, ResultsUplift, ResultsFairness, Acts
<1>7. CASE ResultsConformal
  BY <1>7, CodeTold, MeasuresTold DEF Saved, ResultsConformal, Bound, Acts
<1> QED
  BY <1>1, <1>2, <1>3, <1>4, <1>5, <1>6, <1>7 DEF ResultsNext

LEMMA TwoPartActs ==
  ASSUME TwoPartNext
  PROVE  Acts
<1>1. CASE ModelsTft \/ EnhancedTft \/ V3Tft
  BY <1>1, NetActs DEF ModelsTft, EnhancedTft, V3Tft
<1>2. CASE ModelsLoad \/ ModelsSplit \/ ModelsXgb \/ ModelsLgb \/ ModelsWeights \/ ModelsLog
  BY <1>2, MeasuresTold DEF Saved, ModelsLoad, ModelsSplit, ModelsXgb, ModelsLgb, ModelsWeights,
     ModelsLog, Acts
<1>3. CASE \/ EnhancedFeatures \/ EnhancedLabels \/ EnhancedSplit \/ EnhancedXgb \/ EnhancedLgb
           \/ EnhancedWeights \/ EnhancedLog
  BY <1>3, MeasuresTold DEF Saved, EnhancedFeatures, EnhancedLabels, EnhancedSplit, EnhancedXgb,
     EnhancedLgb, EnhancedWeights, EnhancedLog, Acts
<1>4. CASE V3Build \/ V3Xgb \/ V3Lgb \/ V3Weights \/ V3Save
  BY <1>4, MeasuresTold DEF Saved, V3Build, V3Xgb, V3Lgb, V3Weights, V3Save, Acts
<1> QED
  BY <1>1, <1>2, <1>3, <1>4 DEF TwoPartNext

LEMMA PdiActs ==
  ASSUME PdiNext
  PROVE  Acts
<1>1. ASSUME NEW step, NEW names, NEW early, NEW b, NEW reports, step \notin {"none", "end"},
             Told(reports), Pdi(step, names, early, b, reports)
      PROVE  Acts
  BY <1>1, StepActs DEF Pdi
<1>2. CASE PdiSplit
  BY <1>2, MeasuresTold DEF Saved, PdiSplit, Acts
<1>3. CASE PdiImports \/ PdiLoad \/ PdiCustomers \/ PdiTransactions \/ PdiMerge \/ PdiLabel
  BY <1>1, <1>3, MeasuresTold DEF Saved, PdiImports, PdiLoad, PdiCustomers, PdiTransactions, PdiMerge,
     PdiLabel
<1>4. CASE PdiXgb \/ PdiLgb
  BY <1>1, <1>4, MeasuresTold DEF Saved, PdiXgb, PdiLgb
<1>5. CASE PdiLstm \/ PdiOptuna \/ PdiEnsemble
  BY <1>1, <1>5, MeasuresTold DEF Saved, PdiLstm, PdiOptuna, PdiEnsemble
<1>6. CASE \/ PdiShap \/ PdiBeeswarm \/ PdiWaterfall \/ PdiCurves \/ PdiConfusion \/ PdiSave
  BY <1>1, <1>6, MeasuresTold DEF Saved, PdiShap, PdiBeeswarm, PdiWaterfall, PdiCurves, PdiConfusion,
     PdiSave
<1> QED
  BY <1>2, <1>3, <1>4, <1>5, <1>6 DEF PdiNext

\* The tuner leaves parameters that depend on the labels of customers.
LEMMA TunedCustomers ==
  ASSUME NEW rows, rows \subseteq Customer
  PROVE  TuneXgb(rows) \subseteq Customer /\ TuneLgb(rows) \subseteq Customer
<1>1. ASSUME NEW s, DOMAIN s \subseteq Customer, \A c \in DOMAIN s : s[c] \subseteq Customer
      PROVE  FitTo(s) \subseteq Customer
  BY <1>1 DEF FitTo, Seen
<1>2. /\ DOMAIN XgbCv({}, rows, {}) = rows
      /\ \A c \in rows : XgbCv({}, rows, {})[c] \subseteq rows
  BY FoldsApart DEF XgbCv
<1>3. DOMAIN LgbCv({}, rows, {}) = rows /\ \A c \in rows : LgbCv({}, rows, {})[c] \subseteq rows
  BY DEF LgbCv
<1>4. FitTo(XgbCv({}, rows, {})) \subseteq Customer
  BY <1>1, <1>2
<1>5. FitTo(LgbCv({}, rows, {})) \subseteq Customer
  BY <1>1, <1>3
<1> QED
  BY <1>4, <1>5 DEF TuneXgb, TuneLgb

LEMMA RecurrentActs ==
  ASSUME TrainLstm \/ TrainKeras
  PROVE  Acts
<1>1. \A auc \in Auc : \A t \in KerasTrain(auc) : t.kept = t.reported
  BY DEF KerasTrain
<1>2. CASE TrainLstm
  BY <1>2, MeasuresTold DEF Saved, TrainLstm, Acts
<1>3. CASE TrainKeras
  BY <1>3, <1>1, MeasuresTold DEF TrainKeras, Acts
<1> QED
  BY <1>2, <1>3

LEMMA TuneTyped ==
  ASSUME TypeOK, TuneXgbStep \/ TuneLgbStep
  PROVE  TypeOK'
<1> DEFINE Made == [xgb: SUBSET Customer, lgb: SUBSET Customer]
<1>1. Learn \cup setup.test \subseteq Customer
  BY SessionAssumption DEF TypeOK, Learn
<1>2. params' \in Made
  BY <1>1, TunedCustomers DEF TuneXgbStep, TuneLgbStep, TypeOK
<1>3. \E step \in {"tune_xgb", "tune_lgb"} : Completes(step, <<>>, {})
  BY DEF TuneXgbStep, TuneLgbStep
<1>4. /\ UNCHANGED <<setup, program, jumps>> /\ at' = After(at) /\ at \notin {"none", "end"}
      /\ failed' = "none" /\ shown' = {}
  BY <1>3 DEF Completes
<1>5. program \in Program /\ program # "none" /\ at \in StepOf(program)
  BY <1>4 DEF TypeOK
<1>6. at' \in StepOf(program) \cup {"end"}
  BY <1>4, <1>5, AfterPlace
<1>7. at' \in Place /\ failed' \in Place
  BY <1>4, <1>5, <1>6, InPlace
<1>8. (IF program = "none" THEN at = "none" /\ ns = <<>> ELSE at \in StepOf(program) \cup {"end"})'
  BY <1>4, <1>5, <1>6 DEF StepOf
<1> QED
  BY <1>2, <1>4, <1>5, <1>7, <1>8 DEF TypeOK

LEMMA TypeInit == Init => TypeOK
<1> SUFFICES ASSUME Init PROVE TypeOK
  OBVIOUS
<1>1. jumps \in 0..MaxJumps
  BY SessionAssumption DEF Init
<1>2. params \in [xgb: SUBSET Customer, lgb: SUBSET Customer]
  BY DEF Init
<1> QED
  BY <1>1, <1>2, InPlace DEF Init, TypeOK

LEMMA TypeStep == TypeOK /\ [Next]_vars => TypeOK'
<1> SUFFICES ASSUME TypeOK, [Next]_vars PROVE TypeOK'
  OBVIOUS
<1>1. CASE UNCHANGED vars
  BY <1>1 DEF vars, TypeOK
<1>2. CASE \E p \in Program : Start(p)
  <2>1. PICK p \in Program : Open(p)
    BY <1>2 DEF Start
  <2>2. p # "none"
    BY SessionAssumption
  <2>3. 1 \in DOMAIN Order[p]
    BY OrderLength
  <2>4. Order[p][1] \in StepOf(p)
    BY <2>3 DEF StepOf
  <2>5. Order[p][1] \in Place /\ "none" \in Place
    BY <2>4, InPlace
  <2>6. setup' \in Setup /\ params' \in [xgb: SUBSET Customer, lgb: SUBSET Customer]
    BY <2>1 DEF Open, TypeOK
  <2> QED
    BY <2>1, <2>2, <2>4, <2>5, <2>6, SessionAssumption DEF Open, TypeOK
<1>3. CASE Close
  BY <1>3, SessionAssumption, InPlace DEF Close, TypeOK
<1>4. CASE Jump
  <2>1. PICK s \in StepOf(program) : at' = s
    BY <1>4 DEF Jump
  <2>2. program \in Program /\ program # "none" /\ jumps' \in 0..MaxJumps
    BY <1>4, SessionAssumption DEF Jump, Notebook, TypeOK
  <2>3. at' \in Place /\ "none" \in Place
    BY <2>1, <2>2, InPlace
  <2> QED
    BY <1>4, <2>1, <2>2, <2>3 DEF Jump, TypeOK
<1>5. CASE TuneXgbStep \/ TuneLgbStep
  BY <1>5, TuneTyped
<1>6. CASE TrainNext \/ ResultsNext \/ TwoPartNext \/ PdiNext
  BY <1>6, TrainActs, ResultsActs, TwoPartActs, PdiActs, ActsTyped
<1>7. CASE TrainLstm \/ TrainKeras
  BY <1>7, RecurrentActs, ActsTyped
<1> QED
  BY <1>1, <1>2, <1>3, <1>4, <1>5, <1>6, <1>7 DEF Next

\* A session is always at a step of its program, a step that raises is named, and what
\* the tuner leaves depends on customers.
THEOREM TypeCorrect == Spec => []TypeOK
BY TypeInit, TypeStep, PTL DEF Spec

LEMMA ReportKept == SavedIsReported /\ [Next]_vars => SavedIsReported'
<1> SUFFICES ASSUME SavedIsReported, [Next]_vars PROVE SavedIsReported'
  OBVIOUS
<1>1. CASE UNCHANGED vars
  BY <1>1 DEF vars, SavedIsReported
<1>2. CASE (\E p \in Program : Start(p)) \/ Close \/ Jump
  BY <1>2 DEF Start, Open, Close, Jump, SavedIsReported
<1>3. CASE TuneXgbStep \/ TuneLgbStep
  BY <1>3 DEF TuneXgbStep, TuneLgbStep, Completes, SavedIsReported
<1>4. CASE TrainNext \/ ResultsNext \/ TwoPartNext \/ PdiNext \/ TrainLstm \/ TrainKeras
  <2>1. Acts
    BY <1>4, TrainActs, ResultsActs, TwoPartActs, PdiActs, RecurrentActs
  <2>2. Told(shown')
    BY <2>1, MeasuresTold DEF Acts, Runs, Completes, Raises
  <2> QED
    BY <2>2 DEF Told, Saved, SavedIsReported
<1> QED
  BY <1>1, <1>2, <1>3, <1>4 DEF Next

\* For any number of epochs, any period of validation and any AUCs, the network that
\* train.py and the 80/20 programs go on with, and save, has the AUC they report as
\* the best (tft_model.py, tf_lstm_model.py): the first of the best epochs validated,
\* or, if no AUC was above 0, the last epoch.
THEOREM SavedNetworks == Spec => []SavedIsReported
<1>1. Init => SavedIsReported
  BY DEF Init, SavedIsReported
<1> QED
  BY <1>1, ReportKept, PTL DEF Spec

-----------------------------------------------------------------------------
(* Run from the top, a program raises only for what its tables hold.       *)

\* What the cells of training_results.ipynb before each have bound.
Models == {"joblib", "xgb", "xgb_test", "lgb", "lgb_test", "tft"}
Stack == {"stacker", "oof", "oof_tft"}
Scoring == {"ensemble", "tft_test", "probs"}
Calibrating == {"calibrator", "cal_probs", "cal_metrics", "calibrated"}

TillEnsemble == Split \cup Models \cup Stack \cup {"meta_metrics"}
TillCalibration == TillEnsemble \cup Scoring
TillThresholds == TillCalibration \cup Calibrating
TillShap == TillThresholds \cup {"thresholds"}

ResultsHave(cell) ==
  CASE cell = "imports" -> {}
    [] cell = "data" -> {"imports"}
    [] cell \in {"balance", "split"} -> Data
    [] cell = "xgb" -> Split
    [] cell = "lgb" -> Split \cup {"joblib", "xgb", "xgb_test"}
    [] cell = "tft" -> Split \cup {"joblib", "xgb", "xgb_test", "lgb", "lgb_test"}
    [] cell = "oof" -> Split \cup Models
    [] cell = "meta" -> Split \cup Models \cup Stack
    [] cell = "ensemble" -> TillEnsemble
    [] cell \in {"roc", "calibration"} -> TillCalibration
    [] cell \in {"reliability", "thresholds"} -> TillThresholds
    [] cell \in {"sweep", "shap"} -> TillShap
    [] OTHER -> TillShap \cup {"shap"}

\* The same for PDI_Model_Training_Notebook.ipynb.
PdiLoaded == {"imports", "loaded"}
PdiTill == PdiLoaded \cup {"features", "data", "split"}

PdiHave(cell) ==
  CASE cell = "pdi_imports" -> {}
    [] cell = "pdi_load" -> {"imports"}
    [] cell \in {"pdi_customers", "pdi_transactions", "pdi_merge"} -> PdiLoaded
    [] cell = "pdi_label" -> PdiLoaded \cup {"features"}
    [] cell = "pdi_split" -> PdiLoaded \cup {"features", "data"}
    [] cell = "pdi_xgb" -> PdiTill
    [] cell = "pdi_lgb" -> PdiTill \cup {"xgb", "cv", "xgb_test"}
    [] cell = "pdi_lstm" -> PdiTill \cup {"xgb", "cv", "xgb_test", "lgb", "lgb_test"}
    [] cell \in {"pdi_optuna", "pdi_ensemble"} ->
         PdiTill \cup {"xgb", "cv", "xgb_test", "lgb", "lgb_test", "lstm", "lstm_test"}
    [] cell = "pdi_shap" ->
         PdiTill \cup {"xgb", "cv", "xgb_test", "lgb", "lgb_test", "lstm", "lstm_test", "probs"}
    [] OTHER ->
         PdiTill \cup {"xgb", "cv", "xgb_test", "lgb", "lgb_test", "lstm", "lstm_test", "probs", "shap"}

NamesInv ==
  jumps = 0 =>
    /\ program = "results" =>
         /\ Bound(ResultsHave(at))
         /\ at \in {"roc", "calibration"} => ns.stacker.is # "unfitted"
    /\ program = "pdi" =>
         /\ Bound(PdiHave(at))
         /\ at = "pdi_split" => ns.features = "labelled"
    /\ program = "train" /\ at \in {"mlflow", "result"} => "uplift_short" \in DOMAIN ns

TopInv == NamesInv /\ TopDownRuns

LEMMA PdiGoesOn ==
  ASSUME program = "pdi"
  PROVE  /\ After("pdi_imports") = "pdi_load"
         /\ After("pdi_load") = "pdi_customers"
         /\ After("pdi_customers") = "pdi_transactions"
         /\ After("pdi_transactions") = "pdi_merge"
         /\ After("pdi_merge") = "pdi_label"
         /\ After("pdi_label") = "pdi_split"
         /\ After("pdi_split") = "pdi_xgb"
         /\ After("pdi_xgb") = "pdi_lgb"
         /\ After("pdi_lgb") = "pdi_lstm"
         /\ After("pdi_lstm") = "pdi_optuna"
         /\ After("pdi_optuna") = "pdi_ensemble"
         /\ After("pdi_ensemble") = "pdi_shap"
         /\ After("pdi_shap") = "pdi_beeswarm"
         /\ After("pdi_beeswarm") = "pdi_waterfall"
         /\ After("pdi_waterfall") = "pdi_curves"
         /\ After("pdi_curves") = "pdi_confusion"
         /\ After("pdi_confusion") = "pdi_save"
         /\ After("pdi_save") = "end"
<1> DEFINE o == Order[program]
<1>1. o = <<"pdi_imports", "pdi_load", "pdi_customers", "pdi_transactions", "pdi_merge",
            "pdi_label", "pdi_split", "pdi_xgb", "pdi_lgb", "pdi_lstm", "pdi_optuna",
            "pdi_ensemble", "pdi_shap", "pdi_beeswarm", "pdi_waterfall", "pdi_curves",
            "pdi_confusion", "pdi_save">>
  BY DEF Order
<1>2. DOMAIN o = 1..18 /\ Len(o) = 18
  BY <1>1
<1>3. \A i, j \in DOMAIN o : o[i] = o[j] => i = j
  BY <1>1, <1>2
<1>4. \A i \in DOMAIN o : After(o[i]) = IF i = 18 THEN "end" ELSE o[i+1]
  BY <1>2, <1>3, AfterIs
<1> QED
  BY <1>1, <1>2, <1>4

LEMMA RunsOn ==
  ASSUME NEW step, NEW b, NEW reports, Runs(step, b, reports)
  PROVE  /\ at = step /\ at' = After(step) /\ failed' = "none"
         /\ UNCHANGED <<setup, program, jumps>> /\ ns' = Rebound(ns, b)
         /\ DOMAIN ns' = DOMAIN ns \cup DOMAIN b
         /\ TopDownRuns'
<1>1. at = step /\ at' = After(step) /\ failed' = "none" /\ ns' = Rebound(ns, b)
      /\ UNCHANGED <<setup, program, jumps>>
  BY DEF Runs, Completes
<1>2. TopDownRuns'
  BY <1>1 DEF TopDownRuns
<1> QED
  BY <1>1, <1>2, ReboundAt

LEMMA StepRuns ==
  ASSUME NEW step, NEW names, NEW early, NEW b, NEW reports, Bound(names),
         Step(step, names, early, b, reports)
  PROVE  Runs(step, b, reports)
BY DEF Step

\* A cell that ran, and what the next one has.
LEMMA CellGoesOn ==
  ASSUME program = "results", jumps = 0, NEW step, NEW b, NEW reports, Runs(step, b, reports),
         Bound(ResultsHave(step)), ResultsHave(After(step)) \subseteq ResultsHave(step) \cup DOMAIN b,
         After(step) \notin {"roc", "calibration"}
  PROVE  TopInv'
<1>1. /\ at' = After(step) /\ program' = "results" /\ DOMAIN ns' = DOMAIN ns \cup DOMAIN b
      /\ TopDownRuns'
  BY RunsOn
<1>2. ResultsHave(at') \subseteq DOMAIN ns'
  BY <1>1 DEF Bound
<1> QED
  BY <1>1, <1>2 DEF TopInv, NamesInv, Bound

\* What the names bound by now leave a cell with.
LEMMA CellHas ==
  ASSUME NamesInv, program = "results", jumps = 0
  PROVE  /\ Bound(ResultsHave(at))
         /\ at \in {"roc", "calibration"} => ns.stacker.is # "unfitted"
BY DEF NamesInv

LEMMA FirstCells ==
  ASSUME NamesInv, jumps = 0,
         ResultsImports \/ ResultsData \/ ResultsBalance \/ ResultsSplit \/ ResultsXgb \/ ResultsLgb
  PROVE  TopInv'
<1>1. program = "results"
  BY DEF ResultsImports, ResultsData, ResultsBalance, ResultsSplit, ResultsXgb, ResultsLgb, Cell
<1>2. CASE ResultsImports
  <2>1. Runs("imports", [imports |-> TRUE], {}) /\ at = "imports"
    BY <1>2 DEF ResultsImports, Cell
  <2>2. ResultsHave("data") \subseteq ResultsHave("imports") \cup DOMAIN [imports |-> TRUE]
    BY DEF ResultsHave
  <2> QED
    BY <1>1, <2>1, <2>2, CellHas, CellGoesOn, ResultsGoOn
<1>3. CASE ResultsData
  <2>1. at = "data" /\ Step("data", {"imports"}, <<>>, [data |-> TRUE], {})
    BY <1>3 DEF ResultsData, Cell
  <2>2. Bound({"imports"})
    BY <1>1, <2>1, CellHas DEF ResultsHave, Bound
  <2>3. Runs("data", [data |-> TRUE], {})
    BY <2>1, <2>2, StepRuns
  <2>4. ResultsHave("balance") \subseteq ResultsHave("data") \cup DOMAIN [data |-> TRUE]
    BY DEF ResultsHave, Data
  <2> QED
    BY <1>1, <2>1, <2>3, <2>4, CellHas, CellGoesOn, ResultsGoOn
<1>4. CASE ResultsBalance
  <2>1. at = "balance" /\ Step("balance", Data, <<>>, <<>>, {})
    BY <1>4 DEF ResultsBalance, Cell, Shows
  <2>2. Bound(Data)
    BY <1>1, <2>1, CellHas DEF ResultsHave, Bound
  <2>3. Runs("balance", <<>>, {})
    BY <2>1, <2>2, StepRuns
  <2>4. ResultsHave("split") \subseteq ResultsHave("balance") \cup DOMAIN <<>>
    BY DEF ResultsHave
  <2> QED
    BY <1>1, <2>1, <2>3, <2>4, CellHas, CellGoesOn, ResultsGoOn
<1>5. CASE ResultsSplit
  <2>1. at = "split" /\ Step("split", Data, <<>>, [split |-> TRUE], {})
    BY <1>5 DEF ResultsSplit, Cell
  <2>2. Bound(Data)
    BY <1>1, <2>1, CellHas DEF ResultsHave, Bound
  <2>3. Runs("split", [split |-> TRUE], {})
    BY <2>1, <2>2, StepRuns
  <2>4. ResultsHave("xgb") \subseteq ResultsHave("split") \cup DOMAIN [split |-> TRUE]
    BY DEF ResultsHave, Data, Split
  <2> QED
    BY <1>1, <2>1, <2>3, <2>4, CellHas, CellGoesOn, ResultsGoOn
<1>6. CASE ResultsXgb
  <2> DEFINE b == Rebound(XgbBinds, [joblib |-> TRUE])
  <2>1. at = "xgb" /\ Step("xgb", Split, [joblib |-> TRUE], b, XgbReports)
    BY <1>6 DEF ResultsXgb, Cell
  <2>2. Bound(Split)
    BY <1>1, <2>1, CellHas DEF ResultsHave, Bound
  <2>3. Runs("xgb", b, XgbReports)
    BY <2>1, <2>2, StepRuns
  <2>4. DOMAIN b = {"xgb", "xgb_test", "joblib"}
    BY DEF Rebound, XgbBinds
  <2>5. ResultsHave("lgb") \subseteq ResultsHave("xgb") \cup DOMAIN b
    BY <2>4 DEF ResultsHave
  <2> QED
    BY <1>1, <2>1, <2>3, <2>5, CellHas, CellGoesOn, ResultsGoOn
<1>7. CASE ResultsLgb
  <2> DEFINE names == IF params.lgb = {} THEN Split ELSE Split \cup {"joblib"}
  <2>1. at = "lgb" /\ Step("lgb", names, <<>>, LgbBinds, LgbReports)
    BY <1>7 DEF ResultsLgb, Cell
  <2>2. Bound(names)
    BY <1>1, <2>1, CellHas DEF ResultsHave, Bound
  <2>3. Runs("lgb", LgbBinds, LgbReports)
    BY <2>1, <2>2, StepRuns
  <2>4. DOMAIN LgbBinds = {"lgb", "lgb_test"}
    BY DEF LgbBinds
  <2>5. ResultsHave("tft") \subseteq ResultsHave("lgb") \cup DOMAIN LgbBinds
    BY <2>4 DEF ResultsHave
  <2> QED
    BY <1>1, <2>1, <2>3, <2>5, CellHas, CellGoesOn, ResultsGoOn
<1> QED
  BY <1>2, <1>3, <1>4, <1>5, <1>6, <1>7

\* A cell that raised, for a reason that holds without a missing name.
LEMMA CellRaises ==
  ASSUME NamesInv, program = "results", jumps = 0, NEW step, NEW b, Raises(step, b),
         step \notin {"roc", "calibration"}, TopDownRuns'
  PROVE  TopInv'
<1>1. /\ at' = at /\ program' = "results" /\ DOMAIN ns' = DOMAIN ns \cup DOMAIN b
      /\ at = step
  BY ReboundAt DEF Raises, Notebook
<1>2. ResultsHave(at') \subseteq DOMAIN ns'
  BY <1>1, CellHas DEF Bound
<1> QED
  BY <1>1, <1>2 DEF TopInv, NamesInv, Bound

LEMMA TftTop ==
  ASSUME TftStep
  PROVE  \/ Raises("tft", [tft |-> [net |-> TRUE, saw |-> TftPart(setup.seqs)]]) /\ TopDownRuns'
         \/ \E m, reports : Runs("tft", [tft |-> m], reports)
<1>1. CASE /\ TftRaises(TftPart(setup.seqs))
           /\ Raises("tft", [tft |-> [net |-> TRUE, saw |-> TftPart(setup.seqs)]])
  <2>1. failed' = "tft" /\ setup' = setup
    BY <1>1 DEF Raises
  <2> QED
    BY <1>1, <2>1 DEF TopDownRuns
<1> QED
  BY <1>1 DEF TftStep

LEMMA StackerKept ==
  ASSUME NEW b, "stacker" \in DOMAIN ns, "stacker" \notin DOMAIN b, ns' = Rebound(ns, b)
  PROVE  ns'.stacker = ns.stacker
<1>1. "stacker" \in DOMAIN ns \ DOMAIN b
  OBVIOUS
<1>2. Rebound(ns, b)["stacker"] = ns["stacker"]
  BY <1>1, ReboundAt
<1> QED
  BY <1>2

LEMMA EnsembleTop ==
  ASSUME EnsembleStep, "stacker" \in DOMAIN ns
  PROVE  \/ Raises("ensemble", FixedProbs) /\ TopDownRuns'
         \/ \E b, reports : /\ Runs("ensemble", b, reports)
                            /\ DOMAIN b = {"ensemble", "tft_test", "probs"}
                            /\ ns'.stacker.is # "unfitted"
<1>0. DOMAIN FixedProbs = {"ensemble", "tft_test", "probs"}
  BY DEF FixedProbs
<1>1. CASE ns.stacker.is = "unfitted" /\ Raises("ensemble", FixedProbs)
  <2>1. failed' = "ensemble" /\ ns' = Rebound(ns, FixedProbs)
    BY <1>1 DEF Raises
  <2>2. ns'.stacker = ns.stacker
    BY <1>0, <2>1, StackerKept
  <2> QED
    BY <1>1, <2>1, <2>2 DEF TopDownRuns
<1>2. CASE /\ ns.stacker.is # "unfitted"
           /\ \E e, reports : Runs("ensemble", Rebound(FixedProbs, [probs |-> e]), reports)
  <2>1. PICK e, reports : Runs("ensemble", Rebound(FixedProbs, [probs |-> e]), reports)
    BY <1>2
  <2>2. DOMAIN Rebound(FixedProbs, [probs |-> e]) = {"ensemble", "tft_test", "probs"}
    BY <1>0 DEF Rebound
  <2>3. ns'.stacker = ns.stacker
    BY <2>1, <2>2, StackerKept, RunsOn
  <2> QED
    BY <1>2, <2>1, <2>2, <2>3
<1> QED
  BY <1>1, <1>2 DEF EnsembleStep

LEMMA LearnCells ==
  ASSUME NamesInv, jumps = 0, ResultsTft \/ ResultsOof \/ ResultsMeta \/ ResultsEnsemble
  PROVE  TopInv'
<1>1. program = "results"
  BY DEF ResultsTft, ResultsOof, ResultsMeta, ResultsEnsemble, Cell
<1>2. CASE ResultsTft
  <2>1. at = "tft" /\ TftStep
    BY <1>1, <1>2, CellHas DEF ResultsTft, Cell, ResultsHave, Bound, Split, Data
  <2>2. \A m : ResultsHave("oof") \subseteq ResultsHave("tft") \cup DOMAIN [tft |-> m]
    BY DEF ResultsHave, Models
  <2> QED
    BY <1>1, <2>1, <2>2, TftTop, CellHas, CellGoesOn, CellRaises, ResultsGoOn
<1>3. CASE ResultsOof
  <2>1. at = "oof" /\ Bound(Split)
    BY <1>1, <1>3, CellHas DEF ResultsOof, Cell, ResultsHave, Bound
  <2>2. Runs("oof", OofBinds, {Measured("oof", OofBinds.oof)})
    BY <1>3, <2>1, StepRuns DEF ResultsOof
  <2>3. DOMAIN OofBinds = Stack
    BY DEF OofBinds, Stack
  <2>4. ResultsHave("meta") \subseteq ResultsHave("oof") \cup DOMAIN OofBinds
    BY <2>3 DEF ResultsHave
  <2> QED
    BY <1>1, <2>1, <2>2, <2>4, CellHas, CellGoesOn, ResultsGoOn
<1>4. CASE ResultsMeta
  <2>1. at = "meta" /\ MetaStep
    BY <1>1, <1>4, CellHas DEF ResultsMeta, Cell, ResultsHave, Bound, Models, Stack
  <2>2. \E m, oof, reports :
          Runs("meta", [oof_tft |-> oof, meta_metrics |-> TRUE, stacker |-> m], reports)
    BY <2>1 DEF MetaStep
  <2>3. \A m, oof :
          ResultsHave("ensemble") \subseteq
            ResultsHave("meta") \cup DOMAIN [oof_tft |-> oof, meta_metrics |-> TRUE, stacker |-> m]
    BY DEF ResultsHave, TillEnsemble
  <2> QED
    BY <1>1, <2>1, <2>2, <2>3, CellHas, CellGoesOn, ResultsGoOn
<1>5. CASE ResultsEnsemble
  <2>1. at = "ensemble" /\ Bound(TillEnsemble)
    BY <1>1, <1>5, CellHas DEF ResultsEnsemble, Cell, ResultsHave
  <2>2. Bound({"imports", "xgb", "lgb", "tft", "stacker"})
    BY <2>1 DEF Bound, TillEnsemble, Split, Models, Stack
  <2>3. EnsembleStep
    BY <1>5, <2>2 DEF ResultsEnsemble, Bound
  <2>4. CASE Raises("ensemble", FixedProbs) /\ TopDownRuns'
    BY <1>1, <2>4, CellRaises
  <2>5. CASE \E b, reports : /\ Runs("ensemble", b, reports)
                             /\ DOMAIN b = {"ensemble", "tft_test", "probs"}
                             /\ ns'.stacker.is # "unfitted"
    <3>1. PICK b, reports : /\ Runs("ensemble", b, reports)
                            /\ DOMAIN b = {"ensemble", "tft_test", "probs"}
                            /\ ns'.stacker.is # "unfitted"
      BY <2>5
    <3>2. /\ at' = "roc" /\ program' = "results" /\ TopDownRuns'
          /\ DOMAIN ns' = DOMAIN ns \cup DOMAIN b
      BY <1>1, <3>1, RunsOn, ResultsGoOn
    <3>3. ResultsHave("roc") \subseteq DOMAIN ns'
      BY <2>1, <3>1, <3>2 DEF ResultsHave, TillCalibration, Scoring, Bound
    <3> QED
      BY <3>1, <3>2, <3>3 DEF TopInv, NamesInv, Bound
  <2> QED
    BY <2>2, <2>3, <2>4, <2>5, EnsembleTop DEF Bound
<1> QED
  BY <1>2, <1>3, <1>4, <1>5

LEMMA ScoreCells ==
  ASSUME NamesInv, jumps = 0, ResultsRoc \/ ResultsCalibration
  PROVE  TopInv'
<1>1. program = "results"
  BY DEF ResultsRoc, ResultsCalibration, Cell
<1>2. at \in {"roc", "calibration"} /\ Bound(TillCalibration) /\ ns.stacker.is # "unfitted"
  BY <1>1, CellHas DEF ResultsRoc, ResultsCalibration, Cell, ResultsHave
<1>3. Bound({"imports", "split", "probs", "xgb_test", "lgb_test", "tft_test", "xgb", "lgb", "tft",
             "ensemble", "stacker"})
  BY <1>2 DEF Bound, TillCalibration, TillEnsemble, Split, Models, Stack, Scoring
<1>4. CASE ResultsRoc
  <2>1. Runs("roc", <<>>, {})
    BY <1>3, <1>4, StepRuns DEF ResultsRoc, Shows, Bound
  <2>2. /\ at' = "calibration" /\ program' = "results" /\ TopDownRuns'
        /\ ns' = Rebound(ns, <<>>)
    BY <1>1, <2>1, RunsOn, ResultsGoOn
  <2>3. DOMAIN ns' = DOMAIN ns /\ ns'.stacker = ns.stacker
    <3>1. "stacker" \in DOMAIN ns /\ "stacker" \notin DOMAIN <<>>
      BY <1>3 DEF Bound
    <3>2. DOMAIN ns' = DOMAIN ns \cup DOMAIN <<>>
      BY <2>2, ReboundAt
    <3>3. DOMAIN <<>> = {}
      OBVIOUS
    <3>4. DOMAIN ns' = DOMAIN ns
      BY <3>2, <3>3
    <3> QED
      BY <2>2, <3>1, <3>4, StackerKept
  <2>4. ResultsHave("calibration") \subseteq DOMAIN ns'
    BY <1>2, <2>3 DEF ResultsHave, Bound
  <2> QED
    BY <1>2, <2>2, <2>3, <2>4 DEF TopInv, NamesInv, Bound
<1>5. CASE ResultsCalibration
  <2>1. at = "calibration" /\ Runs("calibration", CalibrationBinds, CalibrationReports)
    BY <1>2, <1>3, <1>5 DEF ResultsCalibration, Cell, Bound
  <2>2. DOMAIN CalibrationBinds = Calibrating
    BY DEF CalibrationBinds, Calibrating
  <2>3. ResultsHave("reliability") \subseteq ResultsHave("calibration") \cup DOMAIN CalibrationBinds
    BY <2>2 DEF ResultsHave, TillThresholds
  <2> QED
    BY <1>1, <2>1, <2>3, CellHas, CellGoesOn, ResultsGoOn
<1> QED
  BY <1>4, <1>5

\* Every cell after the calibration has the names it uses.
LEMMA LateHave ==
  ASSUME Bound(TillThresholds)
  PROVE  Bound(Split \cup {"xgb", "xgb_test", "lgb_test", "tft_test", "ensemble", "probs", "calibrated",
                           "cal_metrics", "meta_metrics"})
BY DEF Bound, TillThresholds, TillCalibration, TillEnsemble, Split, Models, Stack, Scoring, Calibrating

\* A cell that binds nothing the next one needs.
LEMMA LateGoesOn ==
  ASSUME NamesInv, program = "results", jumps = 0, NEW step, NEW b, NEW reports,
         Runs(step, b, reports), ResultsHave(After(step)) = ResultsHave(step),
         After(step) \notin {"roc", "calibration"}
  PROVE  TopInv'
<1>1. at = step
  BY RunsOn
<1> QED
  BY <1>1, CellHas, CellGoesOn

LEMMA ThresholdCells ==
  ASSUME NamesInv, jumps = 0,
         ResultsReliability \/ ResultsThresholds \/ ResultsSweep \/ ResultsShap
  PROVE  TopInv'
<1>1. program = "results"
  BY DEF ResultsReliability, ResultsThresholds, ResultsSweep, ResultsShap, Cell
<1>2. at \in {"reliability", "thresholds", "sweep", "shap"} /\ Bound(TillThresholds)
  BY <1>1, CellHas DEF ResultsReliability, ResultsThresholds, ResultsSweep, ResultsShap, Cell,
     ResultsHave, TillShap, Bound
<1>3. Bound(Split \cup {"imports", "split", "calibrated", "xgb"})
  BY <1>2, LateHave DEF Bound, Split, Data
<1>4. CASE ResultsReliability
  <2>1. Runs("reliability", <<>>, {})
    BY <1>3, <1>4, StepRuns DEF ResultsReliability, Shows, Bound
  <2>2. ResultsHave("thresholds") = ResultsHave("reliability")
    BY DEF ResultsHave
  <2> QED
    BY <1>1, <2>1, <2>2, LateGoesOn, ResultsGoOn
<1>5. CASE ResultsThresholds
  <2>1. at = "thresholds" /\ Runs("thresholds", ThresholdBinds, ThresholdReports)
    BY <1>3, <1>5 DEF ResultsThresholds, Bound, Cell
  <2>2. DOMAIN ThresholdBinds = {"thresholds"}
    BY DEF ThresholdBinds
  <2>3. ResultsHave("sweep") \subseteq ResultsHave("thresholds") \cup DOMAIN ThresholdBinds
    BY <2>2 DEF ResultsHave, TillShap
  <2> QED
    BY <1>1, <2>1, <2>3, CellHas, CellGoesOn, ResultsGoOn
<1>6. CASE ResultsSweep
  <2>1. at = "sweep" /\ Bound(TillShap)
    BY <1>1, <1>6, CellHas DEF ResultsSweep, Cell, ResultsHave
  <2>2. Bound({"imports", "split", "calibrated", "thresholds"})
    BY <1>3, <2>1 DEF Bound, TillShap
  <2>3. Runs("sweep", <<>>, {})
    BY <1>6, <2>2, StepRuns DEF ResultsSweep, Shows
  <2>4. ResultsHave("shap") = ResultsHave("sweep")
    BY DEF ResultsHave
  <2> QED
    BY <1>1, <2>3, <2>4, LateGoesOn, ResultsGoOn
<1>7. CASE ResultsShap
  <2>1. at = "shap" /\ Bound(Split \cup {"xgb"})
    BY <1>3, <1>7 DEF ResultsShap, Cell, Bound
  <2>2. Runs("shap", [shap |-> ns.xgb], {})
    BY <1>7, <2>1, StepRuns DEF ResultsShap
  <2>3. ResultsHave("shap_bar") \subseteq ResultsHave("shap") \cup DOMAIN [shap |-> ns.xgb]
    BY DEF ResultsHave
  <2> QED
    BY <1>1, <2>1, <2>2, <2>3, CellHas, CellGoesOn, ResultsGoOn
<1> QED
  BY <1>4, <1>5, <1>6, <1>7

LastCell ==
  {"shap_bar", "waterfall", "survival", "conformal", "uplift", "fairness", "demo", "summary", "files"}

LEMMA LastCells ==
  ASSUME NamesInv, jumps = 0,
         \/ ResultsShapBar \/ ResultsWaterfall \/ ResultsSurvival \/ ResultsConformal
         \/ ResultsUplift \/ ResultsFairness \/ ResultsDemo \/ ResultsSummary \/ ResultsFiles
  PROVE  TopInv'
<1>1. program = "results" /\ at \in LastCell
  BY DEF ResultsShapBar, ResultsWaterfall, ResultsSurvival, ResultsConformal, ResultsUplift,
     ResultsFairness, ResultsDemo, ResultsSummary, ResultsFiles, Cell, LastCell
<1>2. Bound(TillShap \cup {"shap"})
  BY <1>1, CellHas DEF LastCell, ResultsHave
<1>3. Bound(TillThresholds)
  BY <1>2 DEF Bound, TillShap
<1>4. Bound(Split \cup {"imports", "data", "split", "xgb", "xgb_test", "lgb_test", "tft_test",
                       "ensemble", "probs", "calibrated", "cal_metrics", "meta_metrics",
                       "thresholds", "shap"})
  BY <1>2, <1>3, LateHave DEF Bound, TillShap, Split
<1>5. ASSUME NEW step \in LastCell, NEW b, NEW reports, Runs(step, b, reports)
      PROVE  TopInv'
  <2>1. After(step) \in LastCell \cup {"end"}
    BY <1>1, ResultsGoOn DEF LastCell
  <2>2. \A cell \in LastCell \cup {"end"} : ResultsHave(cell) = TillShap \cup {"shap"}
    BY DEF LastCell, ResultsHave
  <2>3. After(step) \notin {"roc", "calibration"}
    BY <2>1 DEF LastCell
  <2> QED
    BY <1>1, <1>5, <2>1, <2>2, <2>3, LateGoesOn
<1>6. CASE ResultsShapBar \/ ResultsWaterfall \/ ResultsDemo \/ ResultsFiles
  <2>1. \E step \in LastCell : Runs(step, <<>>, {})
    BY <1>4, <1>6, StepRuns DEF ResultsShapBar, ResultsWaterfall, ResultsDemo, ResultsFiles, Shows,
       Bound, LastCell
  <2> QED
    BY <1>5, <2>1
<1>7. CASE ResultsSummary
  <2>1. \E reports : Runs("summary", <<>>, reports)
    BY <1>4, <1>7, StepRuns DEF ResultsSummary, Bound
  <2> QED
    BY <1>5, <2>1 DEF LastCell
<1>8. CASE ResultsSurvival \/ ResultsConformal
  BY <1>5, <1>8 DEF ResultsSurvival, ResultsConformal, LastCell
<1>9. CASE ResultsUplift \/ ResultsFairness
  BY <1>5, <1>9 DEF ResultsUplift, ResultsFairness, UpliftStep, FairnessStep, LastCell
<1> QED
  BY <1>6, <1>7, <1>8, <1>9

LEMMA ResultsTop ==
  ASSUME NamesInv, jumps = 0, ResultsNext
  PROVE  TopInv'
BY FirstCells, LearnCells, ScoreCells, ThresholdCells, LastCells DEF ResultsNext

-----------------------------------------------------------------------------
(* The other notebook.                                                     *)

LEMMA PdiHas ==
  ASSUME NamesInv, program = "pdi", jumps = 0
  PROVE  /\ Bound(PdiHave(at))
         /\ at = "pdi_split" => ns.features = "labelled"
BY DEF NamesInv

LEMMA PdiRuns ==
  ASSUME program = "pdi", jumps = 0, NEW step, NEW b, NEW reports, Runs(step, b, reports),
         Bound(PdiHave(step)), PdiHave(After(step)) \subseteq PdiHave(step) \cup DOMAIN b,
         After(step) # "pdi_split"
  PROVE  TopInv'
<1>1. /\ at' = After(step) /\ program' = "pdi" /\ DOMAIN ns' = DOMAIN ns \cup DOMAIN b
      /\ TopDownRuns'
  BY RunsOn
<1>2. PdiHave(at') \subseteq DOMAIN ns'
  BY <1>1 DEF Bound
<1> QED
  BY <1>1, <1>2 DEF TopInv, NamesInv, Bound

\* A cell whose names the cells before it have bound.
LEMMA PdiCell ==
  ASSUME NamesInv, jumps = 0, NEW step, NEW names, NEW early, NEW b, NEW reports,
         Pdi(step, names, early, b, reports), names \subseteq PdiHave(step),
         PdiHave(After(step)) \subseteq PdiHave(step) \cup DOMAIN b, After(step) # "pdi_split"
  PROVE  TopInv'
<1>1. program = "pdi" /\ at = step /\ Step(step, names, early, b, reports)
  BY DEF Pdi
<1>2. Bound(PdiHave(step)) /\ Bound(names)
  BY <1>1, PdiHas DEF Bound
<1> QED
  BY <1>1, <1>2, StepRuns, PdiRuns

LEMMA PdiTableCells ==
  ASSUME NamesInv, jumps = 0, PdiImports \/ PdiLoad \/ PdiCustomers \/ PdiTransactions \/ PdiMerge
  PROVE  TopInv'
<1>1. program = "pdi"
  BY DEF PdiImports, PdiLoad, PdiCustomers, PdiTransactions, PdiMerge, Pdi
<1>2. /\ PdiHave("pdi_load") \subseteq PdiHave("pdi_imports") \cup {"imports"}
      /\ PdiHave("pdi_customers") \subseteq PdiHave("pdi_load") \cup {"loaded"}
      /\ PdiHave("pdi_transactions") \subseteq PdiHave("pdi_customers")
      /\ PdiHave("pdi_merge") \subseteq PdiHave("pdi_transactions")
      /\ PdiHave("pdi_label") \subseteq PdiHave("pdi_merge") \cup {"features"}
      /\ "imports" \in PdiHave("pdi_load") /\ "loaded" \in PdiHave("pdi_customers")
      /\ "loaded" \in PdiHave("pdi_transactions") /\ "loaded" \in PdiHave("pdi_merge")
  BY DEF PdiHave, PdiLoaded
<1>3. /\ DOMAIN [imports |-> TRUE] = {"imports"} /\ DOMAIN [loaded |-> TRUE] = {"loaded"}
      /\ DOMAIN [features |-> "merged"] = {"features"} /\ DOMAIN <<>> = {}
  OBVIOUS
<1>4. CASE PdiImports
  BY <1>1, <1>2, <1>3, <1>4, PdiCell, PdiGoesOn DEF PdiImports
<1>5. CASE PdiLoad
  BY <1>1, <1>2, <1>3, <1>5, PdiCell, PdiGoesOn DEF PdiLoad
<1>6. CASE PdiCustomers
  BY <1>1, <1>2, <1>3, <1>6, PdiCell, PdiGoesOn DEF PdiCustomers
<1>7. CASE PdiTransactions
  BY <1>1, <1>2, <1>3, <1>7, PdiCell, PdiGoesOn DEF PdiTransactions
<1>8. CASE PdiMerge
  BY <1>1, <1>2, <1>3, <1>8, PdiCell, PdiGoesOn DEF PdiMerge
<1> QED
  BY <1>4, <1>5, <1>6, <1>7, <1>8

LEMMA PdiLabelCells ==
  ASSUME NamesInv, jumps = 0, PdiLabel \/ PdiSplit
  PROVE  TopInv'
<1>1. program = "pdi"
  BY DEF PdiLabel, PdiSplit, Pdi, Does
<1>2. CASE PdiLabel
  <2> DEFINE d == LabelledBy({"failed_autodebits", "lending_app"}, {"label"})
             b == [features |-> "labelled", data |-> d]
  <2>1. at = "pdi_label" /\ Step("pdi_label", {"features"}, <<>>, b, {})
    BY <1>2 DEF PdiLabel, Pdi
  <2>2. Bound(PdiHave("pdi_label")) /\ Bound({"features"})
    BY <1>1, <2>1, PdiHas DEF PdiHave, Bound
  <2>3. Runs("pdi_label", b, {})
    BY <2>1, <2>2, StepRuns
  <2>4. DOMAIN b = {"features", "data"} /\ b.features = "labelled"
    OBVIOUS
  <2> HIDE DEF b
  <2>5. /\ at' = "pdi_split" /\ program' = "pdi" /\ DOMAIN ns' = DOMAIN ns \cup DOMAIN b
        /\ ns' = Rebound(ns, b) /\ TopDownRuns'
    BY <1>1, <2>3, RunsOn, PdiGoesOn
  <2>6. ns'.features = "labelled"
    <3>1. "features" \in DOMAIN b
      BY <2>4
    <3>2. \A k \in DOMAIN b : Rebound(ns, b)[k] = b[k]
      BY ReboundAt
    <3>3. Rebound(ns, b)["features"] = b["features"]
      BY <3>1, <3>2
    <3> QED
      BY <2>4, <2>5, <3>3
  <2>7. PdiHave("pdi_split") \subseteq DOMAIN ns'
    BY <2>2, <2>4, <2>5 DEF PdiHave, Bound
  <2> QED
    BY <2>5, <2>6, <2>7 DEF TopInv, NamesInv, Bound
<1>3. CASE PdiSplit
  <2>1. at = "pdi_split" /\ Bound(PdiHave("pdi_split")) /\ ns.features = "labelled"
    BY <1>1, <1>3, PdiHas DEF PdiSplit, Does
  <2>2. Bound({"features"})
    BY <2>1 DEF PdiHave, Bound
  <2>3. Runs("pdi_split", [split |-> TRUE], {})
    BY <1>3, <2>1, <2>2 DEF PdiSplit
  <2>4. PdiHave("pdi_xgb") \subseteq PdiHave("pdi_split") \cup DOMAIN [split |-> TRUE]
    BY DEF PdiHave, PdiTill
  <2> QED
    BY <1>1, <2>1, <2>3, <2>4, PdiRuns, PdiGoesOn
<1> QED
  BY <1>2, <1>3

LEMMA PdiModelCells ==
  ASSUME NamesInv, jumps = 0, PdiXgb \/ PdiLgb \/ PdiLstm \/ PdiOptuna \/ PdiEnsemble
  PROVE  TopInv'
<1>1. program = "pdi"
  BY DEF PdiXgb, PdiLgb, PdiLstm, PdiOptuna, PdiEnsemble, Pdi
<1>2. /\ PdiHave("pdi_lgb") \subseteq PdiHave("pdi_xgb") \cup {"xgb", "cv", "xgb_test"}
      /\ PdiHave("pdi_lstm") \subseteq PdiHave("pdi_lgb") \cup {"lgb", "lgb_test"}
      /\ PdiHave("pdi_optuna") \subseteq PdiHave("pdi_lstm") \cup {"lstm", "lstm_test"}
      /\ PdiHave("pdi_ensemble") \subseteq PdiHave("pdi_optuna")
      /\ PdiHave("pdi_shap") \subseteq PdiHave("pdi_ensemble") \cup {"probs"}
  BY DEF PdiHave
<1>3. /\ {"split"} \subseteq PdiHave("pdi_xgb")
      /\ {"split", "cv"} \subseteq PdiHave("pdi_lgb")
      /\ {"split"} \subseteq PdiHave("pdi_lstm")
      /\ {"split", "xgb_test"} \subseteq PdiHave("pdi_optuna")
      /\ {"split", "xgb_test", "lgb_test", "lstm_test"} \subseteq PdiHave("pdi_ensemble")
  BY DEF PdiHave, PdiTill
<1>4. CASE PdiXgb
  <2>1. \A m, s : DOMAIN [xgb |-> m, cv |-> TRUE, xgb_test |-> s] = {"xgb", "cv", "xgb_test"}
    OBVIOUS
  <2> QED
    BY <1>1, <1>2, <1>3, <1>4, <2>1, PdiCell, PdiGoesOn DEF PdiXgb
<1>5. CASE PdiLgb
  <2>1. \A m, s : DOMAIN [lgb |-> m, lgb_test |-> s] = {"lgb", "lgb_test"}
    OBVIOUS
  <2> QED
    BY <1>1, <1>2, <1>3, <1>5, <2>1, PdiCell, PdiGoesOn DEF PdiLgb
<1>6. CASE PdiLstm
  <2>1. \A m, s : DOMAIN [lstm |-> m, lstm_test |-> s] = {"lstm", "lstm_test"}
    OBVIOUS
  <2> QED
    BY <1>1, <1>2, <1>3, <1>6, <2>1, PdiCell, PdiGoesOn DEF PdiLstm
<1>7. CASE PdiOptuna
  <2>1. PdiHave("pdi_ensemble") \subseteq PdiHave("pdi_optuna") \cup DOMAIN <<>>
    BY <1>2
  <2> QED
    BY <1>1, <1>3, <1>7, <2>1, PdiCell, PdiGoesOn DEF PdiOptuna
<1>8. CASE PdiEnsemble
  <2>1. DOMAIN [probs |-> TRUE] = {"probs"}
    OBVIOUS
  <2> QED
    BY <1>1, <1>2, <1>3, <1>8, <2>1, PdiCell, PdiGoesOn DEF PdiEnsemble
<1> QED
  BY <1>4, <1>5, <1>6, <1>7, <1>8

LEMMA PdiLastCells ==
  ASSUME NamesInv, jumps = 0,
         PdiShap \/ PdiBeeswarm \/ PdiWaterfall \/ PdiCurves \/ PdiConfusion \/ PdiSave
  PROVE  TopInv'
<1> DEFINE last == {"pdi_beeswarm", "pdi_waterfall", "pdi_curves", "pdi_confusion", "pdi_save"}
           all == PdiHave("end")
<1>1. program = "pdi"
  BY DEF PdiShap, PdiBeeswarm, PdiWaterfall, PdiCurves, PdiConfusion, PdiSave, Pdi
<1>2. \A cell \in last : PdiHave(cell) = all
  BY DEF PdiHave
<1>3. {"split", "xgb", "lgb", "lstm", "xgb_test", "lgb_test", "lstm_test", "probs", "shap"} \subseteq all
  BY DEF PdiHave, PdiTill
<1>4. PdiHave("pdi_beeswarm") \subseteq PdiHave("pdi_shap") \cup {"shap"}
      /\ {"split", "xgb"} \subseteq PdiHave("pdi_shap")
  BY DEF PdiHave, PdiTill
<1>5. CASE PdiShap
  <2>1. DOMAIN [shap |-> TRUE] = {"shap"}
    OBVIOUS
  <2> QED
    BY <1>1, <1>4, <1>5, <2>1, PdiCell, PdiGoesOn DEF PdiShap
<1>6. ASSUME NEW step \in last, NEW names, names \subseteq all, Pdi(step, names, <<>>, <<>>, {})
      PROVE  TopInv'
  <2>1. After(step) \in last \cup {"end"} /\ After(step) # "pdi_split"
    BY <1>1, PdiGoesOn
  <2>2. PdiHave(step) = all /\ PdiHave(After(step)) = all
    BY <1>2, <2>1
  <2> HIDE DEF all, last
  <2> QED
    BY <1>6, <2>1, <2>2, PdiCell
<1> HIDE DEF all
<1>7. CASE PdiBeeswarm \/ PdiWaterfall \/ PdiCurves
  BY <1>3, <1>6, <1>7 DEF PdiBeeswarm, PdiWaterfall, PdiCurves
<1>8. CASE PdiConfusion \/ PdiSave
  BY <1>3, <1>6, <1>8 DEF PdiConfusion, PdiSave
<1> QED
  BY <1>5, <1>7, <1>8

LEMMA PdiTop ==
  ASSUME NamesInv, jumps = 0, PdiNext
  PROVE  TopInv'
BY PdiTableCells, PdiLabelCells, PdiModelCells, PdiLastCells DEF PdiNext

-----------------------------------------------------------------------------
(* The scripts.                                                            *)

\* A step of a script that is neither train.py's nor a notebook's.
LEMMA ScriptRuns ==
  ASSUME program \notin {"train", "results", "pdi"}, TopDownRuns', UNCHANGED program
  PROVE  TopInv'
BY DEF TopInv, NamesInv

LEMMA NetTop ==
  ASSUME NEW step \in {"models_tft", "enhanced_tft", "v3_tft"}, NetOnTest(step)
  PROVE  TopDownRuns' /\ UNCHANGED program
<1>1. CASE TftRaises(Learn) /\ Raises(step, <<>>)
  <2>1. failed' = step /\ setup' = setup /\ program' = program
    BY <1>1 DEF Raises
  <2>2. TftRaises(Learn)'
    BY <1>1, <2>1 DEF Learn, TftRaises
  <2> QED
    BY <2>1, <2>2 DEF TopDownRuns
<1>2. CASE \E b, reports : Runs(step, b, reports)
  BY <1>2, RunsOn
<1> QED
  BY <1>1, <1>2 DEF NetOnTest

LEMMA TwoPartTop ==
  ASSUME TwoPartNext
  PROVE  TopInv'
<1>1. program \notin {"train", "results", "pdi"}
  BY DEF TwoPartNext, ModelsLoad, ModelsSplit, ModelsXgb, ModelsLgb, ModelsTft, ModelsWeights,
     ModelsLog, EnhancedFeatures, EnhancedLabels, EnhancedSplit, EnhancedXgb, EnhancedLgb,
     EnhancedTft, EnhancedWeights, EnhancedLog, V3Build, V3Xgb, V3Lgb, V3Tft, V3Weights, V3Save,
     Does
<1>2. CASE ModelsTft \/ EnhancedTft \/ V3Tft
  BY <1>1, <1>2, NetTop, ScriptRuns DEF ModelsTft, EnhancedTft, V3Tft
<1>3. CASE EnhancedFeatures
  <2>1. CASE setup.tables = "counting" /\ Raises("enhanced_features", <<>>)
    <3>1. failed' = "enhanced_features" /\ setup' = setup /\ program' = program
      BY <2>1 DEF Raises
    <3>2. TopDownRuns'
      BY <2>1, <3>1 DEF TopDownRuns
    <3> QED
      BY <1>1, <3>1, <3>2, ScriptRuns
  <2>2. CASE Runs("enhanced_features", <<>>, {})
    BY <1>1, <2>2, RunsOn, ScriptRuns
  <2> QED
    BY <1>3, <2>1, <2>2 DEF EnhancedFeatures
<1>4. CASE \E step, b, reports : Runs(step, b, reports)
  BY <1>1, <1>4, RunsOn, ScriptRuns
<1>5. \/ ModelsTft \/ EnhancedTft \/ V3Tft \/ EnhancedFeatures
      \/ \E step, b, reports : Runs(step, b, reports)
  BY DEF TwoPartNext, ModelsLoad, ModelsSplit, ModelsXgb, ModelsLgb, ModelsWeights,
     ModelsLog, EnhancedLabels, EnhancedSplit, EnhancedXgb, EnhancedLgb,
     EnhancedWeights, EnhancedLog, V3Build, V3Xgb, V3Lgb, V3Weights, V3Save
<1> QED
  BY <1>2, <1>3, <1>4, <1>5

\* What train.py runs into on its way.
LEMMA TrainTop ==
  ASSUME LabelInv, NamesInv, jumps = 0, TrainNext
  PROVE  TopInv'
<1>1. program = "train" /\ UNCHANGED program
  BY TrainPlaces
<1>2. ASSUME NEW step, NEW b, NEW reports, Runs(step, b, reports),
             After(step) \notin {"mlflow", "result"}
      PROVE  TopInv'
  BY <1>1, <1>2, RunsOn DEF TopInv, NamesInv
<1>3. ASSUME NEW step, NEW b, Raises(step, b), TopDownRuns'
      PROVE  TopInv'
  <2>1. at' = "end" /\ program' = "train"
    BY <1>1, <1>3 DEF Raises, Notebook
  <2> QED
    BY <1>3, <2>1 DEF TopInv, NamesInv
<1>4. CASE \/ TrainData \/ TrainSplit \/ TrainXgb \/ TrainLgb \/ TrainOof \/ TrainMeta
           \/ TrainCalibration \/ TrainThresholds \/ TrainExplain \/ TrainFairness
           \/ TrainSurvival \/ TrainConformal
  <2>1. \E step \in {"data", "split", "xgb", "lgb", "oof", "meta", "calibration", "thresholds",
                     "explain", "fairness", "survival", "conformal"} :
          \E b, reports : Runs(step, b, reports)
    BY <1>4 DEF TrainData, TrainSplit, TrainXgb, TrainLgb, TrainOof, TrainMeta, TrainCalibration,
       TrainThresholds, TrainExplain, TrainFairness, TrainSurvival, TrainConformal, MetaStep,
       FairnessStep
  <2> QED
    BY <1>1, <1>2, <2>1, TrainAfter
<1>5. CASE TrainTft
  BY <1>1, <1>2, <1>3, <1>5, TftTop, TrainAfter DEF TrainTft
<1>6. CASE TrainEnsemble
  <2>1. EnsembleStep /\ "stacker" \in DOMAIN ns
    BY <1>1, <1>6 DEF TrainEnsemble, Script, LabelInv, Ready
  <2> QED
    BY <1>1, <1>2, <1>3, <2>1, EnsembleTop, TrainAfter
<1>7. CASE TrainUplift
  <2>1. \E short, reports : Runs("uplift", [uplift_short |-> short], reports)
    BY <1>7 DEF TrainUplift, UpliftStep
  <2>2. \A short : "uplift_short" \in DOMAIN [uplift_short |-> short]
    OBVIOUS
  <2>3. "uplift_short" \in DOMAIN ns' /\ TopDownRuns'
    BY <2>1, <2>2, RunsOn
  <2> QED
    BY <1>1, <2>3 DEF TopInv, NamesInv
<1>8. CASE TrainMlflow
  <2>1. "uplift_short" \in DOMAIN ns /\ Runs("mlflow", <<>>, {})
    BY <1>1, <1>8 DEF TrainMlflow, Script, NamesInv
  <2>2. "uplift_short" \in DOMAIN ns' /\ TopDownRuns'
    BY <2>1, RunsOn
  <2> QED
    BY <1>1, <2>2 DEF TopInv, NamesInv
<1>9. CASE TrainResult
  <2>1. "uplift_short" \in DOMAIN ns
    BY <1>1, <1>9 DEF TrainResult, Script, NamesInv
  <2>2. CASE ns.uplift_short /\ Raises("result", <<>>)
    <3>1. failed' = "result" /\ ns' = Rebound(ns, <<>>)
      BY <2>2 DEF Raises
    <3>2. "uplift_short" \in DOMAIN ns \ DOMAIN <<>>
      BY <2>1
    <3>3. Rebound(ns, <<>>)["uplift_short"] = ns["uplift_short"]
      BY <3>2, ReboundAt
    <3>4. ns'.uplift_short
      BY <2>2, <3>1, <3>3
    <3>5. TopDownRuns'
      BY <3>1, <3>4 DEF TopDownRuns
    <3> QED
      BY <1>3, <2>2, <3>5
  <2>3. CASE Runs("result", <<>>, {})
    BY <1>1, <1>2, <2>3, TrainAfter
  <2> QED
    BY <1>9, <2>2, <2>3 DEF TrainResult
<1> QED
  BY <1>4, <1>5, <1>6, <1>7, <1>8, <1>9 DEF TrainNext

-----------------------------------------------------------------------------

LEMMA TopInit == Init => TopInv
<1> SUFFICES ASSUME Init PROVE TopInv
  OBVIOUS
<1> QED
  BY DEF Init, TopInv, NamesInv, TopDownRuns

LEMMA TopKept == TypeOK /\ LabelInv /\ TopInv /\ [Next]_vars => TopInv'
<1> SUFFICES ASSUME TypeOK, LabelInv, TopInv, [Next]_vars PROVE TopInv'
  OBVIOUS
<1>1. CASE UNCHANGED vars
  <2>1. NamesInv'
    BY <1>1 DEF vars, TopInv, NamesInv, Bound
  <2>2. TopDownRuns'
    BY <1>1 DEF vars, TopInv, TopDownRuns, TftRaises, TftPart, Learn
  <2> QED
    BY <2>1, <2>2 DEF TopInv
<1>2. CASE \E p \in Program : Start(p)
  <2>1. PICK p \in Program : Open(p)
    BY <1>2 DEF Start
  <2>2. program' = p /\ at' = Order[p][1] /\ failed' = "none"
    BY <2>1 DEF Open
  <2>3. /\ Order["results"][1] = "imports" /\ Order["pdi"][1] = "pdi_imports"
        /\ Order["train"][1] = "data"
    BY DEF Order
  <2>4. ResultsHave("imports") = {} /\ PdiHave("pdi_imports") = {}
    BY DEF ResultsHave, PdiHave
  <2> QED
    BY <2>2, <2>3, <2>4 DEF TopInv, NamesInv, TopDownRuns, Bound
<1>3. CASE Close
  BY <1>3 DEF Close, TopInv, NamesInv, TopDownRuns
<1>4. CASE Jump
  <2>1. jumps \in Nat /\ jumps' = jumps + 1
    BY <1>4, SessionAssumption DEF Jump, TypeOK
  <2>2. jumps' # 0
    BY <2>1
  <2> QED
    BY <2>2 DEF TopInv, NamesInv, TopDownRuns
<1>5. CASE (TrainNext \/ ResultsNext \/ PdiNext) /\ jumps = 0
  BY <1>5, TrainTop, ResultsTop, PdiTop DEF TopInv
<1>6. CASE (TrainNext \/ ResultsNext \/ PdiNext) /\ jumps # 0
  <2>1. Acts
    BY <1>6, TrainActs, ResultsActs, PdiActs
  <2>2. jumps' = jumps
    BY <2>1 DEF Acts, Runs, Completes, Raises
  <2> QED
    BY <1>6, <2>2 DEF TopInv, NamesInv, TopDownRuns
<1>7. CASE TwoPartNext
  BY <1>7, TwoPartTop
<1>8. CASE TuneXgbStep \/ TuneLgbStep
  <2>1. program = "tune" /\ program' = program /\ failed' = "none"
    BY <1>8 DEF TuneXgbStep, TuneLgbStep, Does, Completes
  <2> QED
    BY <2>1 DEF TopInv, NamesInv, TopDownRuns
<1>9. CASE TrainLstm \/ TrainKeras
  <2>1. program \in {"lstm", "keras"} /\ program' = program /\ failed' = "none"
    BY <1>9 DEF TrainLstm, TrainKeras, Does, Runs, Completes
  <2> QED
    BY <2>1 DEF TopInv, NamesInv, TopDownRuns
<1> QED
  BY <1>1, <1>2, <1>3, <1>4, <1>5, <1>6, <1>7, <1>8, <1>9 DEF Next

\* A script, and a notebook whose cells are run from the top, has every name when it comes
\* to a step: it raises only for a last batch of one customer, a meta-learner left
\* unfitted, an uplift model without enough customers, or a feature the table has already.
THEOREM TopDownHasNames == Spec => []TopDownRuns
<1>1. TopInv => TopDownRuns
  BY DEF TopInv
<1>2. Spec => []TopInv
  BY TypeCorrect, AlwaysLabelInv, TopInit, TopKept, PTL DEF Spec
<1> QED
  BY <1>1, <1>2, PTL
=============================================================================
