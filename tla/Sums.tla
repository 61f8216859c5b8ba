-------------------------------- MODULE Sums --------------------------------
(***************************************************************************)
(* Sums over sequences and over sets, for the specifications that say what *)
(* a total should be.  SumsProofs says what they compute.                  *)
(***************************************************************************)
EXTENDS Integers, Sequences, FiniteSetsExt

\* The sums of the first 0, 1, ..., Len(s) elements.
PartialSums(s) ==
  LET sum[k \in 0..Len(s)] == IF k = 0 THEN 0 ELSE sum[k - 1] + s[k]
  IN  sum

SumOf(s) == PartialSums(s)[Len(s)]

\* The sum of f[x] over the elements x of the finite set S.
SumOver(f, S) == MapThenSumSet(LAMBDA x : f[x], S)
=============================================================================
