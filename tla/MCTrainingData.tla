--------------------------- MODULE MCTrainingData ---------------------------
(* Instances of TrainingData for TLC.                                      *)
EXTENDS TrainingData, TLC

\* Terminals are interchangeable.
MCSymmetry == Permutations(Terminal)
=============================================================================
