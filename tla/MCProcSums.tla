----------------------------- MODULE MCProcSums -----------------------------
(* ProcSums for TLC.  All processes but the mother are alike.               *)
EXTENDS ProcSums, TLC

Symmetry == Permutations(Pids \ {Mother})
============================================================================
