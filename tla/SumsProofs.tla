----------------------------- MODULE SumsProofs -----------------------------
(***************************************************************************)
(* What SumOf and SumOver compute.  Induction is by the least              *)
(* counterexample: that the natural numbers are well-founded is a fact     *)
(* without an operator parameter.                                          *)
(***************************************************************************)
EXTENDS Sums, FiniteSetTheorems, WellFoundedInduction, TLAPS

\* Every non-empty set of natural numbers has a least element.
LEMMA LeastNat ==
  ASSUME NEW T \in SUBSET Nat, T # {}
  PROVE  \E x \in T : \A y \in T : x <= y
<1> DEFINE R == OpToRel(<, Nat)
<1>1. IsWellFoundedOn(R, Nat)
  BY NatLessThanWellFounded
<1>2. \A y \in Nat, x \in Nat : y < x => <<y, x>> \in R
  BY DEF OpToRel
<1> HIDE DEF R
<1>3. PICK x \in T : \A y \in T : ~(<<y, x>> \in R)
  BY <1>1, WFMin, Zenon
<1>4. \A y \in T : ~(y < x)
  BY <1>2, <1>3, Zenon
<1> QED BY <1>4

\* A set that contains 0 and with each number below N the next one contains
\* all numbers up to N.
LEMMA UpTo ==
  ASSUME NEW N \in Nat, NEW S, 0 \in S,
         \A k \in 0..(N - 1) : k \in S => k + 1 \in S
  PROVE  0..N \subseteq S
<1> DEFINE T == {k \in 0..N : k \notin S}
<1> SUFFICES ASSUME T # {} PROVE FALSE
  OBVIOUS
<1>1. PICK x \in T : \A y \in T : x <= y
  <2>1. T \in SUBSET Nat
    OBVIOUS
  <2> HIDE DEF T
  <2> QED BY <2>1, LeastNat
<1>2. x \in Nat /\ x # 0 /\ x - 1 \in 0..(N - 1) /\ x \notin S
  OBVIOUS
<1>3. x - 1 \in S
  BY <1>1, <1>2
<1> QED BY <1>2, <1>3

---------------------------------------------------------------------------
(* The equation that defines the partial sums has a solution.              *)

AreSums(f, s, n) == f = [k \in 0..n |-> IF k = 0 THEN 0 ELSE f[k - 1] + s[k]]

LEMMA SumsExist ==
  ASSUME NEW s \in Seq(Nat)
  PROVE  \E f : AreSums(f, s, Len(s))
<1> DEFINE S == {n \in Nat : \E f : AreSums(f, s, n)}
<1>1. 0 \in S
  <2> DEFINE f == [k \in 0..0 |-> 0]
  <2>1. AreSums(f, s, 0)
    BY DEF AreSums
  <2> QED BY <2>1
<1>2. ASSUME NEW n \in 0..(Len(s) - 1), n \in S PROVE n + 1 \in S
  <2>1. PICK f : AreSums(f, s, n)
    BY <1>2
  <2> DEFINE g == [k \in 0..(n + 1) |-> IF k = n + 1 THEN f[n] + s[n + 1] ELSE f[k]]
  <2>2. \A k \in 0..(n + 1) : g[k] = IF k = 0 THEN 0 ELSE g[k - 1] + s[k]
    <3> SUFFICES ASSUME NEW k \in 0..(n + 1)
                 PROVE  g[k] = IF k = 0 THEN 0 ELSE g[k - 1] + s[k]
      OBVIOUS
    <3>1. CASE k = n + 1
      BY <3>1
    <3>2. CASE k \in 0..n
      <4>1. f[k] = IF k = 0 THEN 0 ELSE f[k - 1] + s[k]
        BY <2>1, <3>2 DEF AreSums
      <4> QED BY <3>2, <4>1
    <3> QED BY <3>1, <3>2
  <2>3. AreSums(g, s, n + 1)
    BY <2>2 DEF AreSums
  <2> QED BY <2>3
<1>3. 0..Len(s) \subseteq S
  <2>1. Len(s) \in Nat /\ \A k \in 0..(Len(s) - 1) : k \in S => k + 1 \in S
    BY <1>2
  <2> HIDE DEF S
  <2> QED BY <1>1, <2>1, UpTo
<1>4. Len(s) \in 0..Len(s)
  OBVIOUS
<1> QED BY <1>3, <1>4

LEMMA PartialSumsDef ==
  ASSUME NEW s \in Seq(Nat)
  PROVE  /\ DOMAIN PartialSums(s) = 0..Len(s)
         /\ PartialSums(s)[0] = 0
         /\ \A k \in 1..Len(s) : PartialSums(s)[k] = PartialSums(s)[k - 1] + s[k]
<1>1. AreSums(PartialSums(s), s, Len(s))
  <2>1. PartialSums(s) = CHOOSE f : AreSums(f, s, Len(s))
    BY DEF PartialSums, AreSums
  <2> QED BY <2>1, SumsExist
<1> DEFINE f == PartialSums(s)
<1> HIDE DEF f
<1>2. f = [k \in 0..Len(s) |-> IF k = 0 THEN 0 ELSE f[k - 1] + s[k]]
  BY <1>1 DEF AreSums, f
<1>3. /\ DOMAIN f = 0..Len(s)
      /\ f[0] = 0
      /\ \A k \in 1..Len(s) : f[k] = f[k - 1] + s[k]
  BY <1>2
<1> QED BY <1>3 DEF f

LEMMA PartialSumsType ==
  ASSUME NEW s \in Seq(Nat)
  PROVE  \A k \in 0..Len(s) : PartialSums(s)[k] \in Nat
<1> DEFINE S == {k \in 0..Len(s) : PartialSums(s)[k] \in Nat}
<1>1. 0 \in S
  BY PartialSumsDef
<1>2. ASSUME NEW k \in 0..(Len(s) - 1), k \in S PROVE k + 1 \in S
  <2>1. k + 1 \in 1..Len(s) /\ (k + 1) - 1 = k
    OBVIOUS
  <2>2. PartialSums(s)[k + 1] = PartialSums(s)[k] + s[k + 1]
    BY <2>1, PartialSumsDef
  <2> QED BY <1>2, <2>1, <2>2
<1>3. 0..Len(s) \subseteq S
  <2>1. Len(s) \in Nat /\ \A k \in 0..(Len(s) - 1) : k \in S => k + 1 \in S
    BY <1>2
  <2> HIDE DEF S
  <2> QED BY <1>1, <2>1, UpTo
<1> QED BY <1>3
---------------------------------------------------------------------------
(* The laws of SumOf.                                                      *)

LEMMA SumType ==
  ASSUME NEW s \in Seq(Nat)
  PROVE  SumOf(s) \in Nat
<1>1. Len(s) \in 0..Len(s)
  OBVIOUS
<1> QED BY <1>1, PartialSumsType DEF SumOf

LEMMA SumEmpty == SumOf(<<>>) = 0
<1>1. <<>> \in Seq(Nat) /\ Len(<<>>) = 0
  OBVIOUS
<1> QED BY <1>1, PartialSumsDef DEF SumOf

\* Sequences that agree up to n have the same sums up to n.
LEMMA SumsAgree ==
  ASSUME NEW s \in Seq(Nat), NEW t \in Seq(Nat), NEW n \in Nat,
         n <= Len(s), n <= Len(t), \A i \in 1..n : s[i] = t[i]
  PROVE  PartialSums(s)[n] = PartialSums(t)[n]
<1> DEFINE S == {k \in 0..n : PartialSums(s)[k] = PartialSums(t)[k]}
<1>1. 0 \in S
  BY PartialSumsDef
<1>2. ASSUME NEW k \in 0..(n - 1), k \in S PROVE k + 1 \in S
  <2>1. /\ k + 1 \in 1..n /\ k + 1 \in 1..Len(s) /\ k + 1 \in 1..Len(t)
        /\ (k + 1) - 1 = k
    OBVIOUS
  <2>2. /\ PartialSums(s)[k + 1] = PartialSums(s)[k] + s[k + 1]
        /\ PartialSums(t)[k + 1] = PartialSums(t)[k] + t[k + 1]
    BY <2>1, PartialSumsDef
  <2> QED BY <1>2, <2>1, <2>2
<1>3. 0..n \subseteq S
  <2>1. \A k \in 0..(n - 1) : k \in S => k + 1 \in S
    BY <1>2
  <2> HIDE DEF S
  <2> QED BY <1>1, <2>1, UpTo
<1>4. n \in 0..n
  OBVIOUS
<1> QED BY <1>3, <1>4

LEMMA SumAppend ==
  ASSUME NEW s \in Seq(Nat), NEW x \in Nat
  PROVE  SumOf(Append(s, x)) = SumOf(s) + x
<1> DEFINE t == Append(s, x)
<1>1. /\ t \in Seq(Nat) /\ Len(s) \in Nat /\ Len(t) = Len(s) + 1
      /\ t[Len(s) + 1] = x /\ \A i \in 1..Len(s) : t[i] = s[i]
  OBVIOUS
<1> HIDE DEF t
<1>2. PartialSums(s)[Len(s)] = PartialSums(t)[Len(s)]
  <2>1. Len(s) <= Len(s) /\ Len(s) <= Len(t) /\ \A i \in 1..Len(s) : s[i] = t[i]
    BY <1>1
  <2> QED BY <1>1, <2>1, SumsAgree
<1>3. Len(s) + 1 \in 1..Len(t) /\ (Len(s) + 1) - 1 = Len(s)
  BY <1>1
<1>4. PartialSums(t)[Len(s) + 1] = PartialSums(t)[Len(s)] + x
  BY <1>1, <1>3, PartialSumsDef
<1> QED BY <1>1, <1>2, <1>4 DEF SumOf, t

LEMMA SumHeadTail ==
  ASSUME NEW s \in Seq(Nat), s # <<>>
  PROVE  SumOf(s) = Head(s) + SumOf(Tail(s))
<1> DEFINE t == Tail(s)
           S == {k \in 0..Len(t) : PartialSums(s)[k + 1] = s[1] + PartialSums(t)[k]}
<1>1. /\ t \in Seq(Nat) /\ Len(t) \in Nat /\ Len(s) = Len(t) + 1
      /\ Head(s) = s[1] /\ s[1] \in Nat /\ \A i \in 1..Len(t) : t[i] = s[i + 1]
  OBVIOUS
<1> HIDE DEF t
<1>2. 0 \in S
  <2>1. 1 \in 1..Len(s) /\ 1 - 1 = 0
    BY <1>1
  <2>2. PartialSums(s)[1] = PartialSums(s)[0] + s[1]
    BY <2>1, PartialSumsDef
  <2> QED BY <1>1, <2>2, PartialSumsDef
<1>3. ASSUME NEW k \in 0..(Len(t) - 1), k \in S PROVE k + 1 \in S
  <2>1. /\ k + 1 \in 1..Len(t) /\ (k + 1) + 1 \in 1..Len(s)
        /\ (k + 1) - 1 = k /\ ((k + 1) + 1) - 1 = k + 1
        /\ k \in 0..Len(t) /\ k + 1 \in 0..Len(t)
    BY <1>1
  <2>2. /\ PartialSums(t)[k + 1] = PartialSums(t)[k] + t[k + 1]
        /\ PartialSums(s)[(k + 1) + 1] = PartialSums(s)[k + 1] + s[(k + 1) + 1]
    BY <1>1, <2>1, PartialSumsDef
  <2>3. PartialSums(s)[k + 1] = s[1] + PartialSums(t)[k] /\ t[k + 1] = s[(k + 1) + 1]
    BY <1>1, <1>3, <2>1
  <2>4. PartialSums(t)[k] \in Nat /\ t[k + 1] \in Nat
    BY <1>1, <2>1, PartialSumsType
  <2> QED BY <1>1, <2>1, <2>2, <2>3, <2>4
<1>4. 0..Len(t) \subseteq S
  <2>1. \A k \in 0..(Len(t) - 1) : k \in S => k + 1 \in S
    BY <1>3
  <2> HIDE DEF S
  <2> QED BY <1>1, <1>2, <2>1, UpTo
<1>5. Len(t) \in 0..Len(t)
  BY <1>1
<1> QED BY <1>1, <1>4, <1>5 DEF SumOf, t

\* What is smaller element by element has a smaller sum.
LEMMA SumMonotone ==
  ASSUME NEW s \in Seq(Nat), NEW t \in Seq(Nat), Len(s) = Len(t),
         \A i \in 1..Len(s) : s[i] <= t[i]
  PROVE  SumOf(s) <= SumOf(t)
<1> DEFINE S == {k \in 0..Len(s) : PartialSums(s)[k] <= PartialSums(t)[k]}
<1>1. 0 \in S
  BY PartialSumsDef
<1>2. ASSUME NEW k \in 0..(Len(s) - 1), k \in S PROVE k + 1 \in S
  <2>1. /\ k \in 0..Len(s) /\ k + 1 \in 1..Len(s) /\ (k + 1) - 1 = k
    OBVIOUS
  <2>2. /\ PartialSums(s)[k + 1] = PartialSums(s)[k] + s[k + 1]
        /\ PartialSums(t)[k + 1] = PartialSums(t)[k] + t[k + 1]
    BY <2>1, PartialSumsDef
  <2>3. PartialSums(s)[k] \in Nat /\ PartialSums(t)[k] \in Nat
    BY <2>1, PartialSumsType
  <2>4. s[k + 1] \in Nat /\ t[k + 1] \in Nat /\ s[k + 1] <= t[k + 1]
    BY <2>1
  <2> QED BY <1>2, <2>1, <2>2, <2>3, <2>4
<1>3. 0..Len(s) \subseteq S
  <2>1. Len(s) \in Nat /\ \A k \in 0..(Len(s) - 1) : k \in S => k + 1 \in S
    BY <1>2
  <2> HIDE DEF S
  <2> QED BY <1>1, <2>1, UpTo
<1>4. Len(s) \in 0..Len(s)
  OBVIOUS
<1> QED BY <1>3, <1>4 DEF SumOf
---------------------------------------------------------------------------
(* Sums over finite sets.                                                  *)

Pick(s) == CHOOSE x \in s : TRUE

\* The equation of the fold behind SumOver, on the subsets in D.
AreSetSums(h, f, D) ==
  h = [s \in D |-> IF s = {} THEN 0 ELSE f[Pick(s)] + h[s \ {Pick(s)}]]

Small(S, n) == {s \in SUBSET S : Cardinality(s) <= n}

LEMMA PickSmaller ==
  ASSUME NEW S, IsFiniteSet(S), NEW s \in SUBSET S, s # {}, NEW x \in s
  PROVE  /\ s \ {x} \in SUBSET S /\ IsFiniteSet(s)
         /\ Cardinality(s) \in Nat /\ Cardinality(s) >= 1
         /\ Cardinality(s \ {x}) = Cardinality(s) - 1
<1>1. IsFiniteSet(s)
  BY FS_Subset
<1>2. Cardinality(s) \in Nat /\ Cardinality(s \ {x}) = Cardinality(s) - 1
  BY <1>1, FS_RemoveElement, FS_CardinalityType
<1>3. Cardinality(s) # 0
  BY <1>1, FS_EmptySet
<1> QED BY <1>1, <1>2, <1>3

LEMMA SetSumsExist ==
  ASSUME NEW S, IsFiniteSet(S), NEW f
  PROVE  \E h : AreSetSums(h, f, SUBSET S)
<1> DEFINE P == {n \in Nat : \E h : AreSetSums(h, f, Small(S, n))}
<1>0. Cardinality(S) \in Nat
  BY FS_CardinalityType
<1>1. 0 \in P
  <2> DEFINE h == [s \in Small(S, 0) |-> 0]
  <2>1. \A s \in Small(S, 0) : s = {}
    <3> TAKE s \in Small(S, 0)
    <3>1. IsFiniteSet(s) /\ Cardinality(s) <= 0
      BY FS_Subset DEF Small
    <3>2. Cardinality(s) = 0
      BY <3>1, FS_CardinalityType
    <3> QED BY <3>1, <3>2, FS_EmptySet
  <2>2. AreSetSums(h, f, Small(S, 0))
    BY <2>1 DEF AreSetSums
  <2> QED BY <2>2
<1>2. ASSUME NEW n \in Nat, n \in P PROVE n + 1 \in P
  <2>1. PICK h : AreSetSums(h, f, Small(S, n))
    BY <1>2
  <2> DEFINE g == [s \in Small(S, n + 1) |->
                     IF s = {} THEN 0 ELSE f[Pick(s)] + h[s \ {Pick(s)}]]
  <2>2. \A s \in Small(S, n) : g[s] = h[s]
    <3> TAKE s \in Small(S, n)
    <3>1. s \in Small(S, n + 1)
      <4>1. IsFiniteSet(s) /\ s \in SUBSET S /\ Cardinality(s) <= n
        BY FS_Subset DEF Small
      <4>2. Cardinality(s) \in Nat
        BY <4>1, FS_CardinalityType
      <4> QED BY <4>1, <4>2 DEF Small
    <3> QED BY <2>1, <3>1 DEF AreSetSums
  <2>3. ASSUME NEW s \in Small(S, n + 1), s # {}
        PROVE  s \ {Pick(s)} \in Small(S, n)
    <3>1. s \in SUBSET S /\ Cardinality(s) <= n + 1 /\ Pick(s) \in s
      BY <2>3 DEF Small, Pick
    <3>2. /\ s \ {Pick(s)} \in SUBSET S /\ Cardinality(s) \in Nat
          /\ Cardinality(s \ {Pick(s)}) = Cardinality(s) - 1
      BY <2>3, <3>1, PickSmaller
    <3> QED BY <3>1, <3>2 DEF Small
  <2>4. \A s \in Small(S, n + 1) :
          g[s] = IF s = {} THEN 0 ELSE f[Pick(s)] + g[s \ {Pick(s)}]
    BY <2>2, <2>3
  <2>5. AreSetSums(g, f, Small(S, n + 1))
    BY <2>4 DEF AreSetSums
  <2> QED BY <2>5
<1>3. Cardinality(S) \in P
  <2>1. \A k \in 0..(Cardinality(S) - 1) : k \in P => k + 1 \in P
    BY <1>0, <1>2
  <2>2. Cardinality(S) \in 0..Cardinality(S)
    BY <1>0
  <2> HIDE DEF P
  <2> QED BY <1>0, <1>1, <2>1, <2>2, UpTo
<1>4. Small(S, Cardinality(S)) = SUBSET S
  BY FS_Subset DEF Small
<1> QED BY <1>3, <1>4

SetSums(f, S) == CHOOSE h : AreSetSums(h, f, SUBSET S)

LEMMA SetSumsDef ==
  ASSUME NEW S, IsFiniteSet(S), NEW f
  PROVE  /\ SetSums(f, S)[{}] = 0
         /\ \A s \in SUBSET S : s # {} =>
              SetSums(f, S)[s] = f[Pick(s)] + SetSums(f, S)[s \ {Pick(s)}]
<1> DEFINE h == SetSums(f, S)
<1>1. AreSetSums(h, f, SUBSET S)
  BY SetSumsExist DEF SetSums
<1> HIDE DEF h
<1>2. \A s \in SUBSET S : h[s] = IF s = {} THEN 0 ELSE f[Pick(s)] + h[s \ {Pick(s)}]
  BY <1>1 DEF AreSetSums
<1>3. {} \in SUBSET S
  OBVIOUS
<1> QED BY <1>2, <1>3 DEF h

LEMMA SumOverDef == ASSUME NEW f, NEW S PROVE SumOver(f, S) = SetSums(f, S)[S]
BY DEF SumOver, MapThenSumSet, MapThenFoldSet, SetSums, AreSetSums, Pick

\* The sum over a set does not depend on the set it is computed within, nor
\* on the values elsewhere.
LEMMA SetSumsAgree ==
  ASSUME NEW S, IsFiniteSet(S), NEW T, IsFiniteSet(T), NEW f, NEW g,
         NEW s \in SUBSET S, s \in SUBSET T, \A x \in s : f[x] = g[x]
  PROVE  SetSums(f, S)[s] = SetSums(g, T)[s]
<1> DEFINE P == {n \in Nat : \A r \in SUBSET s :
                    Cardinality(r) = n => SetSums(f, S)[r] = SetSums(g, T)[r]}
<1>0. IsFiniteSet(s) /\ Cardinality(s) \in Nat
  BY FS_Subset, FS_CardinalityType
<1>1. 0 \in P
  <2>1. ASSUME NEW r \in SUBSET s, Cardinality(r) = 0
        PROVE  SetSums(f, S)[r] = SetSums(g, T)[r]
    <3>1. r = {}
      BY <1>0, <2>1, FS_Subset, FS_EmptySet
    <3> QED BY <3>1, SetSumsDef
  <2> QED BY <2>1
<1>2. ASSUME NEW n \in Nat, n \in P PROVE n + 1 \in P
  <2>1. ASSUME NEW r \in SUBSET s, Cardinality(r) = n + 1
        PROVE  SetSums(f, S)[r] = SetSums(g, T)[r]
    <3>1. r # {}
      <4>1. Cardinality({}) = 0
        BY FS_EmptySet
      <4> QED BY <2>1, <4>1
    <3>2. Pick(r) \in r
      BY <3>1 DEF Pick
    <3>3. r \ {Pick(r)} \in SUBSET s /\ Cardinality(r \ {Pick(r)}) = n
      BY <1>0, <2>1, <3>1, <3>2, PickSmaller
    <3>4. SetSums(f, S)[r \ {Pick(r)}] = SetSums(g, T)[r \ {Pick(r)}]
      BY <1>2, <3>3
    <3>5. r \in SUBSET S /\ r \in SUBSET T /\ f[Pick(r)] = g[Pick(r)]
      BY <3>2
    <3> QED BY <3>1, <3>4, <3>5, SetSumsDef
  <2> QED BY <2>1
<1>3. Cardinality(s) \in P
  <2>1. \A k \in 0..(Cardinality(s) - 1) : k \in P => k + 1 \in P
    BY <1>0, <1>2
  <2>2. Cardinality(s) \in 0..Cardinality(s)
    BY <1>0
  <2> HIDE DEF P
  <2> QED BY <1>0, <1>1, <2>1, <2>2, UpTo
<1> QED BY <1>3

LEMMA SumOverAgree ==
  ASSUME NEW S, IsFiniteSet(S), NEW f, NEW g, \A x \in S : f[x] = g[x]
  PROVE  SumOver(f, S) = SumOver(g, S)
<1>1. S \in SUBSET S
  OBVIOUS
<1>2. SetSums(f, S)[S] = SetSums(g, S)[S]
  BY <1>1, SetSumsAgree
<1> QED BY <1>2, SumOverDef

LEMMA SumOverEmpty == ASSUME NEW f PROVE SumOver(f, {}) = 0
BY SetSumsDef, SumOverDef, FS_EmptySet

LEMMA SumOverPick ==
  ASSUME NEW S, IsFiniteSet(S), S # {}, NEW f
  PROVE  SumOver(f, S) = f[Pick(S)] + SumOver(f, S \ {Pick(S)})
<1> DEFINE T == S \ {Pick(S)}
<1>1. IsFiniteSet(T) /\ T \in SUBSET S /\ T \in SUBSET T /\ S \in SUBSET S
  BY FS_Subset
<1>2. SetSums(f, S)[S] = f[Pick(S)] + SetSums(f, S)[T]
  BY <1>1, SetSumsDef
<1>3. SetSums(f, S)[T] = SetSums(f, T)[T]
  <2> HIDE DEF T
  <2> QED BY <1>1, SetSumsAgree
<1> QED BY <1>2, <1>3, SumOverDef

\* The sum may be taken in any order, and is a natural number.
LEMMA SumOverLaws ==
  ASSUME NEW S, IsFiniteSet(S), NEW f, \A x \in S : f[x] \in Nat
  PROVE  /\ SumOver(f, S) \in Nat
         /\ \A x \in S : SumOver(f, S) = f[x] + SumOver(f, S \ {x})
<1> DEFINE Laws(r) == /\ SumOver(f, r) \in Nat
                      /\ \A x \in r : /\ SumOver(f, r \ {x}) \in Nat
                                      /\ SumOver(f, r) = f[x] + SumOver(f, r \ {x})
           P == {n \in Nat : \A r \in SUBSET S : Cardinality(r) = n => Laws(r)}
<1>0. Cardinality(S) \in Nat
  BY FS_CardinalityType
<1>1. 0 \in P
  <2>1. ASSUME NEW r \in SUBSET S, Cardinality(r) = 0 PROVE Laws(r)
    <3>1. r = {}
      BY <2>1, FS_Subset, FS_EmptySet
    <3> QED BY <3>1, SumOverEmpty
  <2> QED BY <2>1
<1>2. ASSUME NEW n \in Nat, n \in P PROVE n + 1 \in P
  <2>1. ASSUME NEW r \in SUBSET S, Cardinality(r) = n + 1 PROVE Laws(r)
    <3> DEFINE c == Pick(r)
    <3>1. r # {} /\ IsFiniteSet(r)
      BY <2>1, FS_EmptySet, FS_Subset
    <3>2. c \in r
      BY <3>1 DEF Pick
    <3>3. SumOver(f, r) = f[c] + SumOver(f, r \ {c})
      BY <3>1, SumOverPick
    <3> HIDE DEF c
    <3>4. ASSUME NEW x \in r PROVE Laws(r \ {x})
      <4>1. r \ {x} \in SUBSET S /\ Cardinality(r \ {x}) = n
        BY <2>1, <3>1, PickSmaller
      <4> QED BY <1>2, <4>1
    <3>5. SumOver(f, r) \in Nat
      BY <3>2, <3>3, <3>4
    <3>6. ASSUME NEW x \in r PROVE SumOver(f, r) = f[x] + SumOver(f, r \ {x})
      <4>1. CASE x = c
        BY <3>3, <4>1
      <4>2. CASE x # c
        <5> DEFINE q == (r \ {c}) \ {x}
        <5>1. q = (r \ {x}) \ {c} /\ x \in r \ {c} /\ c \in r \ {x}
          BY <3>2, <4>2
        <5>2. SumOver(f, r \ {c}) = f[x] + SumOver(f, q)
          BY <3>2, <3>4, <5>1
        <5>3. SumOver(f, r \ {x}) = f[c] + SumOver(f, q)
          BY <3>4, <5>1
        <5> DEFINE a == SumOver(f, q)
        <5>4. f[x] \in Nat /\ f[c] \in Nat
          BY <3>2
        <5>5. a \in Nat
          <6>1. Laws(r \ {c})
            BY <3>2, <3>4
          <6> QED BY <5>1, <6>1
        <5> HIDE DEF a, q
        <5> QED BY <3>3, <5>2, <5>3, <5>4, <5>5 DEF a
      <4> QED BY <4>1, <4>2
    <3> QED BY <3>4, <3>5, <3>6
  <2> QED BY <2>1
<1>3. Cardinality(S) \in P
  <2>1. \A k \in 0..(Cardinality(S) - 1) : k \in P => k + 1 \in P
    BY <1>0, <1>2
  <2>2. Cardinality(S) \in 0..Cardinality(S)
    BY <1>0
  <2> HIDE DEF P
  <2> QED BY <1>0, <1>1, <2>1, <2>2, UpTo
<1> QED BY <1>3

\* A sum is at most another if every element counts at least as much there,
\* an element that is missing there counting for nothing.
LEMMA SumOverCompare ==
  ASSUME NEW S, IsFiniteSet(S), NEW T, IsFiniteSet(T), NEW f, NEW g,
         \A x \in S : f[x] \in Nat, \A x \in T : g[x] \in Nat,
         \A x \in S \cap T : f[x] <= g[x],
         \A x \in S \ T : f[x] = 0
  PROVE  SumOver(f, S) <= SumOver(g, T)
<1> DEFINE U == S \cup T
           P == {n \in Nat : \A r \in SUBSET U :
                    Cardinality(r) = n => SumOver(f, r \cap S) <= SumOver(g, r \cap T)}
<1>0. IsFiniteSet(U) /\ Cardinality(U) \in Nat
  BY FS_Union, FS_CardinalityType
<1>1. 0 \in P
  <2>1. ASSUME NEW r \in SUBSET U, Cardinality(r) = 0
        PROVE  SumOver(f, r \cap S) <= SumOver(g, r \cap T)
    <3>1. r = {}
      BY <1>0, <2>1, FS_Subset, FS_EmptySet
    <3>2. r \cap S = {} /\ r \cap T = {}
      BY <3>1
    <3>3. SumOver(f, r \cap S) = 0 /\ SumOver(g, r \cap T) = 0
      BY <3>2, SumOverEmpty
    <3> QED BY <3>3
  <2> QED BY <2>1
<1>2. ASSUME NEW n \in Nat, n \in P PROVE n + 1 \in P
  <2>1. ASSUME NEW r \in SUBSET U, Cardinality(r) = n + 1
        PROVE  SumOver(f, r \cap S) <= SumOver(g, r \cap T)
    <3>1. r # {}
      <4>1. Cardinality({}) = 0
        BY FS_EmptySet
      <4>2. Cardinality(r) # 0
        BY <2>1
      <4> QED BY <4>1, <4>2, Zenon
    <3>2. PICK c : c \in r
      BY <3>1
    <3>3. PICK q : q = r \ {c}
      OBVIOUS
    <3>4. q \in SUBSET U /\ Cardinality(q) = n
      <4>1. r \in SUBSET U /\ r # {} /\ c \in r /\ IsFiniteSet(U)
        BY <1>0, <3>1, <3>2
      <4> HIDE DEF U
      <4>2. r \ {c} \in SUBSET U /\ Cardinality(r \ {c}) = Cardinality(r) - 1
        BY <4>1, PickSmaller, Zenon
      <4> QED BY <2>1, <3>3, <4>2
    <3>5. SumOver(f, q \cap S) <= SumOver(g, q \cap T)
      BY <1>2, <3>4
    <3>6. /\ IsFiniteSet(r \cap S) /\ \A x \in r \cap S : f[x] \in Nat
          /\ IsFiniteSet(q \cap S) /\ \A x \in q \cap S : f[x] \in Nat
      BY <3>3, FS_Subset
    <3>7. /\ IsFiniteSet(r \cap T) /\ \A x \in r \cap T : g[x] \in Nat
          /\ IsFiniteSet(q \cap T) /\ \A x \in q \cap T : g[x] \in Nat
      BY <3>3, FS_Subset
    <3>8. SumOver(f, q \cap S) \in Nat /\ SumOver(g, q \cap T) \in Nat
      BY <3>6, <3>7, SumOverLaws
    <3>9. CASE c \in S
      <4>1. c \in r \cap S /\ (r \cap S) \ {c} = q \cap S
        BY <3>2, <3>3, <3>9
      <4>2. SumOver(f, r \cap S) = f[c] + SumOver(f, (r \cap S) \ {c})
        BY <3>6, <4>1, SumOverLaws
      <4>3. CASE c \in T
        <5>1. c \in r \cap T /\ (r \cap T) \ {c} = q \cap T
          BY <3>2, <3>3, <4>3
        <5>2. SumOver(g, r \cap T) = g[c] + SumOver(g, (r \cap T) \ {c})
          BY <3>7, <5>1, SumOverLaws
        <5>3. f[c] \in Nat /\ g[c] \in Nat /\ f[c] <= g[c]
          BY <3>9, <4>3
        <5>4. \A a, b, u, v \in Nat : a <= b /\ u <= v => u + a <= v + b
          OBVIOUS
        <5>5. f[c] + SumOver(f, q \cap S) <= g[c] + SumOver(g, q \cap T)
          BY <3>5, <3>8, <5>3, <5>4
        <5> QED BY <4>1, <4>2, <5>1, <5>2, <5>5
      <4>4. CASE c \notin T
        <5>1. r \cap T = q \cap T /\ f[c] = 0
          BY <3>3, <3>9, <4>4
        <5> QED BY <3>5, <3>8, <4>1, <4>2, <5>1
      <4> QED BY <4>3, <4>4
    <3>10. CASE c \notin S
      <4>1. c \in T /\ r \cap S = q \cap S
        BY <3>2, <3>3, <3>10
      <4>2. c \in r \cap T /\ (r \cap T) \ {c} = q \cap T
        BY <3>2, <3>3, <4>1
      <4>3. SumOver(g, r \cap T) = g[c] + SumOver(g, (r \cap T) \ {c})
        BY <3>7, <4>2, SumOverLaws
      <4>4. g[c] \in Nat
        BY <4>1
      <4> QED BY <3>5, <3>8, <4>1, <4>2, <4>3, <4>4
    <3> QED BY <3>9, <3>10
  <2> QED BY <2>1
<1>3. Cardinality(U) \in P
  <2>1. \A k \in 0..(Cardinality(U) - 1) : k \in P => k + 1 \in P
    BY <1>0, <1>2
  <2>2. Cardinality(U) \in 0..Cardinality(U)
    BY <1>0
  <2> HIDE DEF P
  <2> QED BY <1>0, <1>1, <2>1, <2>2, UpTo
<1>4. U \cap S = S /\ U \cap T = T /\ U \in SUBSET U
  OBVIOUS
<1>5. SumOver(f, U \cap S) <= SumOver(g, U \cap T)
  BY <1>3, <1>4
<1> QED BY <1>4, <1>5
=============================================================================
