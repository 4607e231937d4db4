---------------------------- MODULE ModelFiles -----------------------------
(***************************************************************************)
(* The directory models/: what trainings write there and what the servers  *)
(* find when they start.  train_pipeline (ml/train.py) saves nine files,   *)
(* one at a time and not atomically; train_models.py, train_enhanced.py    *)
(* and train_enhanced_v3.py save three of them, two in a form the loaders  *)
(* of ml/ cannot read.  The API (scoring_service/app.py) and the BentoML   *)
(* service load each file on its own, in another order, and never again.   *)
(*                                                                         *)
(* What is learnt is abstracted to the number of the training.             *)
(***************************************************************************)
EXTENDS Naturals

CONSTANTS Trainer,   \* processes that train
          Server,    \* processes that serve, as the API or as the BentoML service
          Extra,     \* which of lightgbm, survival, conformal and uplift to consider
          MaxRuns,   \* bound: trainings in a behaviour
          MaxFaults  \* bound: exceptions and kills in a behaviour

VARIABLES file,     \* the directory
          trainer,  \* each training under way
          server,   \* each server, and what it loaded
          runs,     \* how many trainings have begun
          partial,  \* history: trainings that did not save every file
          overlap,  \* history: trainings that ran at the same time as another
          faults    \* history: exceptions and kills so far

vars == <<file, trainer, server, runs, partial, overlap, faults>>

ASSUME FilesAssumption ==
  /\ Extra \subseteq {"lightgbm", "survival", "conformal", "uplift"}
  /\ MaxRuns \in Nat /\ MaxFaults \in Nat

File == {"xgboost", "tft", "meta", "calibrator", "thresholds"} \cup Extra
Script == {"pipeline", "classifiers"}

\* Mutant of SaveRank: the thresholds are saved before the calibrator.
SwappedRank == [xgboost |-> 1, lightgbm |-> 2, tft |-> 3, meta |-> 4, calibrator |-> 6,
                thresholds |-> 5, survival |-> 7, conformal |-> 8, uplift |-> 9]
\* The order of train_pipeline, and of load_models with the imports before it.
SaveRank == [xgboost |-> 1, lightgbm |-> 2, tft |-> 3, meta |-> 4, calibrator |-> 5,
             thresholds |-> 6, survival |-> 7, conformal |-> 8, uplift |-> 9]
LoadRank == [thresholds |-> 1, xgboost |-> 2, lightgbm |-> 3, tft |-> 4, meta |-> 5,
             calibrator |-> 6, survival |-> 7, conformal |-> 8, uplift |-> 9]
First(f, S, rank) == f \in S /\ \A g \in S : rank[f] <= rank[g]

Run == 0..MaxRuns
\* "raw" is a classifier where the loader expects a dict; "torn" a file that was
\* opened for writing and has not been written to its end.
Content == [by: Run, form: {"absent", "whole", "raw", "torn"}]
Absent == [by |-> 0, form |-> "absent"]

\* What a training has yet to save; run 0 stands for "not training".  `unfit` tells
\* that the meta-learner was made but not fitted, `mixed` that another training has
\* written the file this one is writing.
TrainerState == [run: Run, script: Script, todo: SUBSET File,
                 writing: BOOLEAN, mixed: BOOLEAN, unfit: BOOLEAN]
Idle == [run |-> 0, script |-> "pipeline", todo |-> {},
         writing |-> FALSE, mixed |-> FALSE, unfit |-> FALSE]

\* An object of a server: none, one that was loaded, or one whose load raised and
\* that is kept as it is.  For thresholds the defaults stay in force.
Object == [by: Run, is: {"none", "loaded", "broken"}]
Nothing == [by |-> 0, is |-> "none"]
Service == {"api", "bento"}
ServerState == [service: Service, at: {"down", "loading", "up", "failed"},
                todo: SUBSET File, has: [File -> Object], raced: BOOLEAN]
Down == [service |-> "api", at |-> "down", todo |-> {}, has |-> [f \in File |-> Nothing], raced |-> FALSE]

TypeOK ==
  /\ file \in [File -> Content]
  /\ trainer \in [Trainer -> TrainerState]
  /\ server \in [Server -> ServerState]
  /\ runs \in Run
  /\ partial \subseteq Run /\ overlap \subseteq Run
  /\ faults \in 0..MaxFaults

Init ==
  /\ file = [f \in File |-> Absent]
  /\ trainer = [t \in Trainer |-> Idle]
  /\ server = [s \in Server |-> Down]
  /\ runs = 0 /\ partial = {} /\ overlap = {}
  /\ faults = 0

Training(t) == trainer[t].run # 0
Fails == faults < MaxFaults /\ faults' = faults + 1

-----------------------------------------------------------------------------
(* Training.                                                               *)

\* Which files a training means to save.
Saves(sc) == IF sc = "pipeline" THEN File ELSE File \cap {"xgboost", "lightgbm", "tft"}

\* main.py train, main.py full-pipeline, retrain_large.py; or one of the scripts.
\* `raced` notes the servers that are loading while a training runs.
Begin(t) ==
  /\ ~Training(t) /\ runs < MaxRuns
  /\ runs' = runs + 1
  /\ \E sc \in Script :
       /\ trainer' = [trainer EXCEPT ![t] =
            [run |-> runs + 1, script |-> sc, todo |-> Saves(sc),
             writing |-> FALSE, mixed |-> FALSE, unfit |-> FALSE]]
       /\ partial' = IF sc = "pipeline" THEN partial ELSE partial \cup {runs + 1}
  /\ LET others == {trainer[u].run : u \in {v \in Trainer : Training(v)}}
     IN overlap' = IF others = {} THEN overlap ELSE overlap \cup others \cup {runs + 1}
  /\ server' = [s \in Server |->
                  IF server[s].at = "loading" THEN [server[s] EXCEPT !.raced = TRUE]
                  ELSE server[s]]
  /\ UNCHANGED <<file, faults>>

\* The training once it is through with f.
Through(t, f, bad) ==
  trainer' = [trainer EXCEPT ![t] =
                IF trainer[t].todo = {f} THEN Idle
                ELSE [trainer[t] EXCEPT !.todo = @ \ {f}, !.writing = FALSE, !.mixed = FALSE,
                                        !.unfit = @ \/ bad]]

Writes(t, f) == trainer[t].writing /\ First(f, trainer[t].todo, SaveRank)

\* joblib.dump and torch.save open the file, which empties it, and write.
Open(t) ==
  \E f \in trainer[t].todo :
    /\ First(f, trainer[t].todo, SaveRank)
    /\ ~trainer[t].writing
    /\ ~(f = "calibrator" /\ trainer[t].unfit)
    /\ file' = [file EXCEPT ![f] = [by |-> trainer[t].run, form |-> "torn"]]
    /\ trainer' = [u \in Trainer |->
         IF u = t THEN [trainer[t] EXCEPT !.writing = TRUE, !.mixed = \E v \in Trainer : Writes(v, f)]
         ELSE [trainer[u] EXCEPT !.mixed = @ \/ Writes(u, f)]]
    /\ UNCHANGED <<server, runs, partial, overlap, faults>>

\* Mutant of Written: train_pipeline saves a bare classifier as well.
WrittenBare(t, f) ==
  [by |-> trainer[t].run, form |-> IF f = "xgboost" THEN "raw" ELSE "whole"]

\* The scripts dump the classifiers themselves, where the loaders expect a dict.
Written(t, f) ==
  [by |-> trainer[t].run,
   form |-> IF trainer[t].script = "classifiers" /\ f # "tft" THEN "raw" ELSE "whole"]

\* A file two trainings wrote at the same time may be left torn.
Save(t) ==
  \E f \in trainer[t].todo :
    /\ Writes(t, f)
    /\ \/ file' = [file EXCEPT ![f] = Written(t, f)]
       \/ /\ trainer[t].mixed
          /\ file' = [file EXCEPT ![f] = [by |-> trainer[t].run, form |-> "torn"]]
    /\ Through(t, f, FALSE)
    /\ UNCHANGED <<server, runs, partial, overlap, faults>>

\* Exceptions in these steps of train_pipeline are printed as "non-fatal".
NonFatal(t, f) ==
  trainer[t].script = "pipeline" /\ f \in {"meta", "survival", "conformal", "uplift"}

\* A step leaves its file alone, or torn: the TFT for want of sequences, the
\* others by an exception.  train_meta_learner keeps the classifier it made
\* before it is fitted: if fitting raises, combine_stacked will as well.
Leave(t) ==
  \E f \in trainer[t].todo :
    /\ First(f, trainer[t].todo, SaveRank)
    /\ \/ /\ f = "tft" /\ trainer[t].script = "pipeline" /\ ~trainer[t].writing
          /\ Through(t, f, FALSE) /\ UNCHANGED faults
       \/ /\ NonFatal(t, f) /\ Fails
          /\ \E bad \in BOOLEAN : /\ bad => f = "meta" /\ ~trainer[t].writing
                                  /\ Through(t, f, bad)
    /\ partial' = partial \cup {trainer[t].run}
    /\ UNCHANGED <<file, server, runs, overlap>>

\* The training is killed or raises; it must where it uses the unfitted classifier.
Abort(t) ==
  /\ Training(t)
  /\ \/ /\ First("calibrator", trainer[t].todo, SaveRank) /\ trainer[t].unfit
        /\ UNCHANGED faults
     \/ Fails
  /\ trainer' = [trainer EXCEPT ![t] = Idle]
  /\ partial' = partial \cup {trainer[t].run}
  /\ UNCHANGED <<file, server, runs, overlap>>

-----------------------------------------------------------------------------
(* Serving.                                                                *)

Has(s, f) == server[s].has[f]
Needed(service) ==
  IF service = "api" THEN File ELSE File \cap {"thresholds", "xgboost", "lightgbm"}

\* Mutant of Start: ml.ensemble stays imported, with the thresholds it has.
StartKeeping(s) ==
  /\ server[s].at # "loading"
  /\ \E k \in Service :
       server' = [server EXCEPT ![s] =
         [Down EXCEPT !.service = k, !.at = "loading",
                      !.todo = IF server[s].at = "down" THEN Needed(k)
                               ELSE Needed(k) \ {"thresholds"},
                      !.has["thresholds"] = Has(s, "thresholds"),
                      !.raced = \E t \in Trainer : Training(t)]]
  /\ UNCHANGED <<file, trainer, runs, partial, overlap, faults>>

\* A server starts, or is started again.
Start(s) ==
  /\ server[s].at # "loading"
  /\ \E k \in Service :
       server' = [server EXCEPT ![s] =
         [Down EXCEPT !.service = k, !.at = "loading", !.todo = Needed(k),
                      !.raced = \E t \in Trainer : Training(t)]]
  /\ UNCHANGED <<file, trainer, runs, partial, overlap, faults>>

\* Mutant of Loaded: the form of the file for the state of the object.
LoadedForm(f, c) == [by |-> c.by, is |-> c.form]

\* What is left of loading content c: the object is made before its load may raise.
Loaded(f, c) ==
  [by |-> c.by,
   is |-> IF c.form = "absent" THEN "none" ELSE IF c.form = "whole" THEN "loaded" ELSE "broken"]

\* The next file is loaded, and what it raises logged; only the meta-learner is
\* loaded outside a try, so that the start fails.
Load(s) ==
  \E f \in server[s].todo :
    /\ server[s].at = "loading"
    /\ First(f, server[s].todo, LoadRank)
    /\ server' = [server EXCEPT ![s] =
         [server[s] EXCEPT !.has[f] = Loaded(f, file[f]),
                   !.todo = @ \ {f},
                   !.at = IF f = "meta" /\ file[f].form = "torn" THEN "failed"
                          ELSE IF server[s].todo = {f} THEN "up" ELSE "loading"]]
    /\ UNCHANGED <<file, trainer, runs, partial, overlap, faults>>

-----------------------------------------------------------------------------
Next ==
  \/ \E t \in Trainer : Begin(t) \/ Open(t) \/ Save(t) \/ Leave(t) \/ Abort(t)
  \/ \E s \in Server : Start(s) \/ Load(s)

Spec == Init /\ [][Next]_vars

-----------------------------------------------------------------------------
(* Properties.                                                             *)

\* The models a server scores with are of one training, unless the latest of
\* their trainings left files of an earlier one behind or ran at the same time as
\* another, or one ran while the server loaded.  /health (app.py:551) shows none of this.
ServedTogether ==
  \A s \in Server : server[s].at = "up" /\ ~server[s].raced =>
    \A f, g \in Needed(server[s].service) :
      Has(s, f).by < Has(s, g).by =>
        Has(s, g).by \in partial \cup overlap

\* A server never cuts scores of one calibrator with thresholds tuned on a later
\* one, whatever is killed and whenever it starts, unless trainings overlap.  It
\* rests on two orders: thresholds are saved after the calibrator they are tuned
\* on (train.py:383, 398) and read before it, when ml.ensemble is imported.
ThresholdsNotAhead ==
  overlap = {} =>
    \A s \in Server :
      server[s].at = "up" /\ server[s].service = "api" =>
        Has(s, "thresholds").by <= Has(s, "calibrator").by

\* A start fails on the meta-learner, and a server holds a model it cannot use
\* while /health calls it loaded (app.py:552-554), only if a training ran while
\* it loaded, or the file is of a training that did not save all files, or of
\* two at a time.
BrokenNeedsCause ==
  \A s \in Server : ~server[s].raced =>
    \A f \in File : Has(s, f).is = "broken" =>
      Has(s, f).by \in partial \cup overlap

=============================================================================
