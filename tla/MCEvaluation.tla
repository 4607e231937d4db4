---------------------------- MODULE MCEvaluation ----------------------------
EXTENDS Evaluation

MCProgram == {"tune", "train", "results", "models", "enhanced", "v3", "pdi", "lstm", "keras"}

MCSplit(train, cal, test, seqs, tables) ==
  [train |-> train, cal |-> cal, test |-> test, seqs |-> seqs, tables |-> tables]

\* Six customers or seven; a network for all, for none, for an even number, and
\* for one that leaves a last batch of one.
MCSetup ==
  { MCSplit({1, 2, 3}, {4}, {5, 6}, 1..6, "bulk"),
    MCSplit({1, 2, 3}, {4}, {5, 6}, {}, "counting"),
    MCSplit({1, 2, 3, 4}, {5}, {6, 7}, 1..7, "bulk"),
    MCSplit({1, 2, 3}, {4}, {5, 6}, {1, 2, 4, 5}, "counting") }
=============================================================================
