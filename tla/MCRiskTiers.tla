---------------------------- MODULE MCRiskTiers ----------------------------
(* Instances of RiskTiers for TLC.                                         *)
EXTENDS RiskTiers, TLC

\* Both ends of the grid, beyond it, and in between.
MCProbability == {0, 1, 50, 70, 94, 95}
MCSymmetry == Permutations(Example)
=============================================================================
