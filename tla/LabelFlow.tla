----------------------------- MODULE LabelFlow -----------------------------
(***************************************************************************)
(* What the learning code of ml/ makes of labels.  A fitted object is the  *)
(* set of customers on whose label it depends; scores are a function from  *)
(* the scored customers to such sets.  A measurement of scores is honest   *)
(* if no score depends on the label it is measured against.                *)
(*                                                                         *)
(* Numbers are left out: weights, probabilities, features, class balance   *)
(* and stratification.  A probability of 0.5 depends on nobody.            *)
(***************************************************************************)
EXTENDS Integers, FiniteSets

CONSTANTS Rows,    \* the tables hold customers of 1..Rows, in this order
          Folds,   \* n_splits: 5
          Batch,   \* batch_size of the TFT: 64
          Epochs,  \* epochs: 30, 50 or 60
          Every,   \* the TFT and the LSTM validate every 5 epochs
          Top,     \* bound: an AUC is one of 0..Top
          MinSeq,  \* more sequences than this, and the TFT is trained: 50
          MinCal,  \* a conformal predictor needs this many rows: 30
          MinArm   \* MIN_SAMPLES_REQUIRED in each arm: 100

Customer == 1..Rows

ASSUME LabelFlowAssumption ==
  /\ Rows \in Nat \ {0} /\ Folds \in Nat \ {0} /\ Batch \in Nat \ {0, 1}
  /\ Epochs \in Nat \ {0} /\ Every \in 1..Epochs /\ Epochs % Every = 0
  /\ Top \in Nat \ {0} /\ MinSeq \in Nat /\ MinCal \in Nat /\ MinArm \in Nat

Scores == UNION {[S -> SUBSET Customer] : S \in SUBSET Customer}
Honest(s) == \A c \in DOMAIN s : c \notin s[c]
\* Everything scores depend on, and what an object fitted to them with the
\* labels of the same customers depends on.
Seen(s) == UNION {s[c] : c \in DOMAIN s}
FitTo(s) == DOMAIN s \cup Seen(s)

\* `own`: customers whose label is computed from the features they are scored by.
Score(m, rows, own) == [c \in rows |-> m \cup ({c} \cap own)]

-----------------------------------------------------------------------------
(* Trees.  `tuned` is what the hyperparameters depend on.                  *)

\* XGBoostDelinquencyModel.train: no early_stopping_rounds, so the evaluation
\* set is only measured.
XgbFit(tuned, rows, eval) == tuned \cup rows

\* LightGBMDelinquencyModel.train: with a validation set, it stops the boosting.
LgbFit(tuned, rows, val) == tuned \cup rows \cup val

\* StratifiedKFold with a fixed random_state: some assignment, always the same.
Fold(rows) ==
  CHOOSE f \in [rows -> 1..Folds] : \A k \in 1..Folds : \E c \in rows : f[c] = k

\* Mutant of OtherFolds: the model of a fold is fitted to all rows.
AllFolds(rows, c) == rows

OtherFolds(rows, c) == {d \in rows : Fold(rows)[d] # Fold(rows)[c]}

\* cross_val_score of a classifier with the parameters it was made with.
XgbCv(tuned, rows, own) ==
  [c \in rows |-> tuned \cup OtherFolds(rows, c) \cup ({c} \cap own)]

\* The LightGBM wrapper measures each fold on the rows that stopped its boosting.
LgbCv(tuned, rows, own) == [c \in rows |-> tuned \cup rows \cup ({c} \cap own)]

\* The loop over kf.split: fold models with default parameters and no validation
\* set, of either kind.
Oof(rows) == [c \in rows |-> OtherFolds(rows, c)]

\* Optuna maximises the cross-validated AUC over the whole dataset.
TuneXgb(rows) == FitTo(XgbCv({}, rows, {}))
TuneLgb(rows) == FitTo(LgbCv({}, rows, {}))

-----------------------------------------------------------------------------
(* Networks.  auc[e] is the validation AUC after epoch e.                  *)

Auc == [1..Epochs -> 0..Top]

Validated(e) == e % Every = 0

\* best_val_auc and the epoch of best_state, 0 while there is none.
Best(auc) ==
  LET best[e \in 0..Epochs] ==
        IF e = 0 THEN [auc |-> 0, at |-> 0]
        ELSE IF Validated(e) /\ auc[e] > best[e-1].auc THEN [auc |-> auc[e], at |-> e]
        ELSE best[e-1]
  IN  best[Epochs]

\* LSTMDelinquencyModel.train: best_state is a shallow copy of state_dict(), so
\* it holds the very tensors the optimizer goes on changing.
LstmKept(auc) == Epochs

\* Mutant of TftKept: the best state is not cloned.
TftAliased(auc) == Epochs

\* TFTDelinquencyModel.train: best_state is cloned and restored, if there is one.
TftKept(auc) == IF Best(auc).at = 0 THEN Epochs ELSE Best(auc).at

\* TFLSTMDelinquencyModel.train: EarlyStopping restores the weights of some
\* epoch, and the AUC is measured afterwards.  Skipped without tensorflow.
KerasTrain(auc) ==
  {[kept |-> auc[e], reported |-> auc[e]] : e \in 1..Epochs} \cup {[kept |-> 0, reported |-> 0]}

LstmTrain(auc) == [kept |-> auc[LstmKept(auc)], reported |-> Best(auc).auc]
TftTrain(auc) == [kept |-> auc[TftKept(auc)], reported |-> Best(auc).auc]

\* squeeze() makes a scalar of the logits of a last batch of one row, which
\* BCEWithLogitsLoss does not compare with a vector: train raises.
TftRaises(rows) == Cardinality(rows) % Batch = 1

\* The best epoch is chosen on the validation rows.
TftFit(rows, val) == rows \cup val

\* Mutant of TftIndexable: only the last dimension is squeezed.
SqueezedLast(rows) == TRUE

\* predict_proba squeezes as well: the score of a single row cannot be indexed.
TftIndexable(rows) == Cardinality(rows) # 1

\* The loops ask for one customer with a sequence at a time, with [0], and
\* `except: pass` keeps 0.5.
TftEach(m, rows, seqs) == [c \in rows |-> IF c \in seqs /\ TftIndexable({c}) THEN m ELSE {}]

\* The customers with sequences, the first four fifths of them and the others.
TftPart(matched) ==
  LET n == (4 * Cardinality(matched)) \div 5
  IN  {c \in matched : Cardinality({d \in matched : d <= c}) <= n}

-----------------------------------------------------------------------------
(* Ensembles, calibration and what is fitted after it.                     *)

\* combine_batch, build_meta_features_batch: one row per customer.
Together(S) == [c \in UNION {DOMAIN s : s \in S} |-> UNION {s[c] : s \in S}]

NoMeta == [is |-> "none", saw |-> {}]
Meta == [is: {"none", "unfitted", "fitted"}, saw: SUBSET Customer]
MetaFit(S) == [is |-> "fitted", saw |-> FitTo(Together(S))]

\* combine_batch, and combine_stacked in its place if there is a meta-learner.
Ensemble(meta, S) ==
  IF meta.is = "none" THEN [kind |-> "fixed", score |-> Together(S)]
  ELSE [kind |-> "stacked", score |-> [c \in DOMAIN Together(S) |-> meta.saw \cup Together(S)[c]]]

\* A grid of weights, or a threshold, that maximises a measure of the scores.
Picked(s) == [c \in DOMAIN s |-> s[c] \cup FitTo(s)]

\* ProbabilityCalibrator; one that is not fitted returns the raw scores.
NoCalibrator == [kind |-> "raw", saw |-> {}]
Calibrator == [kind: {"raw", "fixed", "stacked"}, saw: SUBSET Customer]
CalibratorFit(ens) == [kind |-> ens.kind, saw |-> FitTo(ens.score)]
Calibrated(cal, s) ==
  IF cal.kind = "raw" THEN s ELSE [c \in DOMAIN s |-> cal.saw \cup s[c]]

\* ConformalPredictor.calibrate measures its coverage on the rows that set the
\* margin; with few rows it keeps a fixed margin and measures nothing.
ConformalScores(s) == IF Cardinality(DOMAIN s) < MinCal THEN [c \in {} |-> {}] ELSE Picked(s)

\* UpliftModel.train fits a model to each arm and measures it on that arm.
UpliftShort(treated, rows) ==
  Cardinality(treated) < MinArm \/ Cardinality(rows \ treated) < MinArm
UpliftScores(treated, rows) ==
  [c \in rows |-> IF c \in treated THEN treated ELSE rows \ treated]
=============================================================================
