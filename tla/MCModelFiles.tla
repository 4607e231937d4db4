---------------------------- MODULE MCModelFiles ---------------------------
(* Instances of ModelFiles for TLC.                                        *)
EXTENDS ModelFiles, TLC

MCSymmetry == Permutations(Trainer)
=============================================================================
