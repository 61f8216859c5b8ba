-------------------------- MODULE MCOffspringScan --------------------------
(* OffspringScan for TLC.  All processes but the mother are alike.          *)
EXTENDS OffspringScan, TLC

Symmetry == Permutations(Pids \ {Mother})
============================================================================
