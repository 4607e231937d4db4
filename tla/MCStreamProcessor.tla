------------------------- MODULE MCStreamProcessor --------------------------
(* StreamProcessor for TLC: processors are interchangeable. *)
EXTENDS StreamProcessor, TLC

Symmetry == Permutations(Processor)

=============================================================================
