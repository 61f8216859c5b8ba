--------------------------- MODULE CmdPipeProofs ---------------------------
(* The file descriptors of cmd_pipe_output, and that it returns the lines of *)
(* the command, for pipes, buffers and outputs of every size, any pieces in  *)
(* which the output is written and read, and any number of calls.            *)
EXTENDS CmdPipe, Integers, SequenceTheorems, TLAPS

\* How many ends of the pipe of the call in progress are open.
OpenEnds == IF pc = "fork" THEN 2 ELSE IF pc = "read" THEN 1 ELSE 0

\* FdsBalanced speaks of the time between calls; during a call the ends of
\* its own pipe come on top.
FdsInv ==
  /\ pc \in {"idle", "fork", "read", "wait"}
  /\ forkFailures \in Nat /\ fds \in Nat
  /\ fds = 2 * forkFailures + OpenEnds

LEMMA FdsInit == Init => FdsInv
  BY DEF Init, FdsInv, OpenEnds

\* What the child does leaves the descriptors of prmon alone.
LEMMA ChildKeepsFds ==
  ASSUME FdsInv, ChildStep \/ CloseOutput \/ Killed
  PROVE  FdsInv'
<1>1. UNCHANGED <<pc, fds, forkFailures>>
  BY DEF ChildStep, Exec, ExecFails, Write, Exits, CloseOutput, Killed, Dies,
         callVars
<1> QED
  BY <1>1 DEF FdsInv, OpenEnds

LEMMA FdsStep == FdsInv /\ [Next]_vars => FdsInv'
<1> SUFFICES ASSUME FdsInv, [Next]_vars
             PROVE  FdsInv'
  OBVIOUS
<1>1. CASE OpenPipe
  BY <1>1 DEF OpenPipe, FdsInv, OpenEnds
<1>2. CASE PipeFails
  BY <1>2 DEF PipeFails, FdsInv, OpenEnds
<1>3. CASE Fork
  BY <1>3 DEF Fork, FdsInv, OpenEnds
<1>4. CASE ForkFails
  BY <1>4 DEF ForkFails, FdsInv, OpenEnds
<1>5. CASE FillBuffer \/ TakePiece
  BY <1>5 DEF FillBuffer, TakePiece, callVars, FdsInv, OpenEnds
<1>6. CASE EndRead
  BY <1>6 DEF EndRead, FdsInv, OpenEnds
<1>7. CASE Wait
  BY <1>7 DEF Wait, callVars, FdsInv, OpenEnds
<1>8. CASE ChildStep \/ CloseOutput \/ Killed
  BY <1>8, ChildKeepsFds
<1>9. CASE UNCHANGED vars
  BY <1>9 DEF vars, callVars, FdsInv, OpenEnds
<1> QED
  BY <1>1, <1>2, <1>3, <1>4, <1>5, <1>6, <1>7, <1>8, <1>9 DEF Next, Caller

\* Between calls of cmd_pipe_output no end of a pipe is open but the two that
\* every failed fork left behind, however the commands behaved.
THEOREM FdsCorrect == Spec => []FdsBalanced
<1>1. FdsInv => FdsBalanced
  BY DEF FdsInv, FdsBalanced, OpenEnds
<1> QED
  BY <1>1, FdsInit, FdsStep, PTL DEF Spec
---------------------------------------------------------------------------
(* Pieces of sequences.                                                    *)

LEMMA PieceOfConcat ==
  ASSUME NEW s \in Seq(Chars), NEW b \in Seq(Chars),
         NEW a \in Nat, NEW e \in Nat, e <= Len(s)
  PROVE  SubSeq(s \o b, a+1, e) = SubSeq(s, a+1, e)
<1>1. CASE e < a+1
  BY <1>1, SubSeqEmpty
<1>2. CASE ~(e < a+1)
  <2>1. Len(s) \in Nat
    OBVIOUS
  <2>2. a+1 \in 1..Len(s) /\ e \in 1..Len(s)
    BY <1>2, <2>1
  <2> QED BY <2>2, SubSeqOfConcat1
<1> QED BY <1>1, <1>2

LEMMA TailOfConcat ==
  ASSUME NEW s \in Seq(Chars), NEW b \in Seq(Chars), NEW a \in Nat, a <= Len(s)
  PROVE  SubSeq(s \o b, a+1, Len(s \o b)) = SubSeq(s, a+1, Len(s)) \o b
<1> DEFINE t == s \o b
<1>1. t \in Seq(Chars) /\ Len(t) = Len(s) + Len(b) /\ Len(s) \in Nat /\ Len(b) \in Nat
  OBVIOUS
<1>2. SubSeq(t, a+1, Len(s)) = SubSeq(s, a+1, Len(s))
  BY <1>1, PieceOfConcat
<1>3. SubSeq(t, Len(s)+1, Len(t)) = b
  <2>1. CASE b = <<>>
    <3>1. Len(t) < Len(s)+1
      BY <1>1, <2>1
    <3> QED BY <1>1, <2>1, <3>1, SubSeqEmpty
  <2>2. CASE b # <<>>
    <3>1. Len(b) > 0
      BY <2>2
    <3>2. /\ Len(s)+1 \in Len(s)+1 .. Len(s)+Len(b)
          /\ Len(t) \in Len(s)+1 .. Len(s)+Len(b)
      BY <1>1, <3>1
    <3>3. SubSeq(t, Len(s)+1, Len(t)) = SubSeq(b, (Len(s)+1) - Len(s), Len(t) - Len(s))
      BY <3>2, SubSeqOfConcat2
    <3>4. (Len(s)+1) - Len(s) = 1 /\ Len(t) - Len(s) = Len(b)
      BY <1>1
    <3> QED BY <3>3, <3>4, SubSeqFull
  <2> QED BY <2>1, <2>2
<1>4. /\ a+1 \in 1 .. Len(t)+1 /\ Len(s) \in (a+1)-1 .. Len(t)
      /\ Len(t) \in Len(s) .. Len(t)
  BY <1>1
<1>5. SubSeq(t, a+1, Len(s)) \o SubSeq(t, Len(s)+1, Len(t)) = SubSeq(t, a+1, Len(t))
  BY <1>1, <1>4, ConcatAdjacentSubSeq
<1> QED BY <1>2, <1>3, <1>5

LEMMA AppendToConcat ==
  ASSUME NEW a \in Seq(Chars), NEW b \in Seq(Chars), NEW x \in Chars
  PROVE  Append(a \o b, x) = a \o Append(b, x)
OBVIOUS

LEMMA FrontAndLast ==
  ASSUME NEW b \in Seq(Chars), b # <<>>
  PROVE  /\ Front(b) \in Seq(Chars) /\ Len(Front(b)) = Len(b) - 1
         /\ \A i \in 1..(Len(b) - 1) : Front(b)[i] = b[i]
         /\ b = Front(b) \o <<Last(b)>>
<1> DEFINE n == Len(b) - 1
           f == SubSeq(b, 1, n)
           l == b[Len(b)]
<1>1. Len(b) \in Nat /\ n \in Nat /\ Len(b) = n + 1 /\ l \in Chars
  OBVIOUS
<1>2. \A i \in 1..n : b[i] \in Chars
  OBVIOUS
<1> HIDE DEF n, l
<1>3. f \in Seq(Chars) /\ Len(f) = n /\ \A i \in 1..n : f[i] = b[i]
  BY <1>1, <1>2, SubSeqProperties
<1> HIDE DEF f
<1>4. f \o <<l>> = b
  <2>1. /\ f \o <<l>> \in Seq(Chars) /\ Len(f \o <<l>>) = n + 1
        /\ \A i \in 1..n : (f \o <<l>>)[i] = f[i]
        /\ (f \o <<l>>)[n+1] = l
    BY <1>1, <1>3
  <2>2. \A i \in 1..(n+1) : (f \o <<l>>)[i] = b[i]
    BY <1>1, <1>3, <2>1 DEF l
  <2> QED BY <1>1, <2>1, <2>2, SeqEqual
<1>5. Front(b) = f /\ Last(b) = l
  BY DEF Front, Last, f, l, n
<1> QED BY <1>3, <1>4, <1>5 DEF n

---------------------------------------------------------------------------
(* Lines.                                                                  *)

\* Where the line after the k-th begins.
CutBefore(cut, k) == IF k = 0 THEN 0 ELSE cut[k]

\* ls are the finished lines of s, and rest is what follows the last newline.
Cuts(ls, rest, s, cut) ==
  /\ cut \in [1..Len(ls) -> Promise!Newlines(s)]
  /\ \A i \in Promise!Newlines(s) : \E k \in 1..Len(ls) : cut[k] = i
  /\ \A j, k \in 1..Len(ls) : j < k => cut[j] < cut[k]
  /\ \A k \in 1..Len(ls) : ls[k] = Promise!PieceOf(s, cut, k)
  /\ rest = SubSeq(s, CutBefore(cut, Len(ls)) + 1, Len(s))

SplitSoFar(ls, rest, s) == \E cut : Cuts(ls, rest, s, cut)

LEMMA CutsType ==
  ASSUME NEW ls \in Seq(Seq(Chars)), NEW s \in Seq(Chars), NEW rest, NEW cut, Cuts(ls, rest, s, cut)
  PROVE  /\ Len(ls) \in Nat /\ Len(s) \in Nat
         /\ \A k \in 1..Len(ls) : cut[k] \in Nat /\ 1 <= cut[k] /\ cut[k] <= Len(s)
         /\ CutBefore(cut, Len(ls)) \in Nat /\ CutBefore(cut, Len(ls)) <= Len(s)
<1>1. Len(ls) \in Nat /\ Len(s) \in Nat
  OBVIOUS
<1>2. \A k \in 1..Len(ls) : cut[k] \in Nat /\ 1 <= cut[k] /\ cut[k] <= Len(s)
  <2>1. \A i \in Promise!Newlines(s) : i \in 1..Len(s)
    BY DEF Promise!Newlines
  <2>2. cut \in [1..Len(ls) -> Promise!Newlines(s)]
    BY Zenon DEF Cuts
  <2>3. \A k \in 1..Len(ls) : cut[k] \in 1..Len(s)
    BY <2>1, <2>2, Zenon
  <2> QED BY <1>1, <2>3
<1> QED BY <1>1, <1>2 DEF CutBefore

\* Characters without a newline only make the rest longer.
LEMMA SplitMore ==
  ASSUME NEW ls \in Seq(Seq(Chars)), NEW s \in Seq(Chars), NEW rest \in Seq(Chars),
         SplitSoFar(ls, rest, s),
         NEW b \in Seq(Chars), \A i \in 1..Len(b) : b[i] # NL
  PROVE  SplitSoFar(ls, rest \o b, s \o b)
<1> DEFINE t == s \o b
<1>1. PICK cut : Cuts(ls, rest, s, cut)
  BY DEF SplitSoFar
<1>2. /\ Len(ls) \in Nat /\ Len(s) \in Nat
      /\ \A k \in 1..Len(ls) : cut[k] \in Nat /\ 1 <= cut[k] /\ cut[k] <= Len(s)
      /\ CutBefore(cut, Len(ls)) \in Nat /\ CutBefore(cut, Len(ls)) <= Len(s)
  BY <1>1, CutsType
<1>3. /\ t \in Seq(Chars) /\ Len(t) = Len(s) + Len(b) /\ Len(b) \in Nat
      /\ \A i \in 1..Len(s) : t[i] = s[i]
      /\ \A i \in (Len(s)+1)..Len(t) : t[i] = b[i - Len(s)] /\ i - Len(s) \in 1..Len(b)
  OBVIOUS
<1>4. Promise!Newlines(t) = Promise!Newlines(s)
  <2>1. ASSUME NEW i \in 1..Len(t) PROVE t[i] = NL <=> i \in Promise!Newlines(s)
    <3>1. CASE i <= Len(s)
      BY <1>2, <1>3, <3>1 DEF Promise!Newlines
    <3>2. CASE i > Len(s)
      <4>1. t[i] = b[i - Len(s)] /\ i - Len(s) \in 1..Len(b)
        BY <1>2, <1>3, <3>2
      <4>2. i \notin 1..Len(s)
        BY <1>2, <3>2
      <4> QED BY <4>1, <4>2 DEF Promise!Newlines
    <3> QED BY <1>2, <3>1, <3>2
  <2>2. Promise!Newlines(s) \subseteq 1..Len(t)
    BY <1>2, <1>3 DEF Promise!Newlines
  <2> QED BY <2>1, <2>2 DEF Promise!Newlines
<1>5. \A k \in 1..Len(ls) : Promise!PieceOf(t, cut, k) = Promise!PieceOf(s, cut, k)
  <2> SUFFICES ASSUME NEW k \in 1..Len(ls)
               PROVE  Promise!PieceOf(t, cut, k) = Promise!PieceOf(s, cut, k)
    OBVIOUS
  <2> DEFINE a == IF k = 1 THEN 0 ELSE cut[k-1]
             e == cut[k] - 1
  <2>1. a \in Nat
    <3>1. k # 1 => k-1 \in 1..Len(ls)
      BY <1>2
    <3> QED BY <1>2, <3>1
  <2>2. e \in Nat /\ e <= Len(s)
    BY <1>2
  <2> HIDE DEF a, e
  <2>3. SubSeq(t, a+1, e) = SubSeq(s, a+1, e)
    BY <2>1, <2>2, PieceOfConcat
  <2> QED BY <2>3 DEF Promise!PieceOf, a, e
<1>6. rest \o b = SubSeq(t, CutBefore(cut, Len(ls)) + 1, Len(t))
  BY <1>1, <1>2, TailOfConcat DEF Cuts
<1>7. Cuts(ls, rest \o b, t, cut)
  BY <1>1, <1>4, <1>5, <1>6 DEF Cuts
<1> QED BY <1>7 DEF SplitSoFar

\* A newline finishes the line.
LEMMA SplitLine ==
  ASSUME NEW ls \in Seq(Seq(Chars)), NEW s \in Seq(Chars), NEW rest \in Seq(Chars),
         SplitSoFar(ls, rest, s)
  PROVE  SplitSoFar(Append(ls, rest), <<>>, s \o <<NL>>)
<1> DEFINE t == s \o <<NL>>
           m == Append(ls, rest)
           n == Len(ls)
<1>0. <<NL>> \in Seq(Chars) /\ Len(<<NL>>) = 1
  BY PipeAssumption
<1>1. PICK cut : Cuts(ls, rest, s, cut)
  BY DEF SplitSoFar
<1>2. /\ n \in Nat /\ Len(s) \in Nat
      /\ \A k \in 1..n : cut[k] \in Nat /\ 1 <= cut[k] /\ cut[k] <= Len(s)
      /\ CutBefore(cut, n) \in Nat /\ CutBefore(cut, n) <= Len(s)
  BY <1>1, CutsType
<1>3. /\ t \in Seq(Chars) /\ Len(t) = Len(s) + 1
      /\ \A i \in 1..Len(s) : t[i] = s[i]
      /\ t[Len(s) + 1] = NL
  BY <1>0
<1>4. /\ m \in Seq(Seq(Chars)) /\ Len(m) = n + 1 /\ m[n+1] = rest
      /\ \A k \in 1..n : m[k] = ls[k]
  OBVIOUS
<1>5. Promise!Newlines(t) = Promise!Newlines(s) \cup {Len(s) + 1}
  BY <1>2, <1>3 DEF Promise!Newlines
<1> HIDE DEF t, m, n
<1> DEFINE c == [k \in 1..(n+1) |-> IF k = n+1 THEN Len(s) + 1 ELSE cut[k]]
<1>6. /\ c[n+1] = Len(s) + 1 /\ \A k \in 1..n : c[k] = cut[k] /\ k \in 1..(n+1)
      /\ n+1 \in 1..(n+1) /\ \A k \in 1..(n+1) : k \in 1..n \/ k = n+1
  BY <1>2
<1>a. /\ \A k \in 1..n : cut[k] \in Promise!Newlines(s)
      /\ \A i \in Promise!Newlines(s) : \E k \in 1..n : cut[k] = i
      /\ \A j, k \in 1..n : j < k => cut[j] < cut[k]
      /\ \A k \in 1..n : ls[k] = Promise!PieceOf(s, cut, k)
      /\ rest = SubSeq(s, CutBefore(cut, n) + 1, Len(s))
  BY <1>1 DEF Cuts, n
<1>7. c \in [1..(n+1) -> Promise!Newlines(t)]
  BY <1>5, <1>6, <1>a
<1> HIDE DEF c
<1>8. \A i \in Promise!Newlines(t) : \E k \in 1..(n+1) : c[k] = i
  BY <1>5, <1>6, <1>a
<1>9. ASSUME NEW j \in 1..(n+1), NEW k \in 1..(n+1), j < k PROVE c[j] < c[k]
  <2>1. j \in 1..n /\ c[j] = cut[j]
    BY <1>2, <1>6, <1>9
  <2>2. CASE k = n+1
    BY <1>2, <1>6, <2>1, <2>2
  <2>3. CASE k \in 1..n
    BY <1>6, <1>9, <1>a, <2>1, <2>3
  <2> QED BY <1>6, <2>2, <2>3
<1>10. ASSUME NEW k \in 1..(n+1) PROVE m[k] = Promise!PieceOf(t, c, k)
  <2> DEFINE a == IF k = 1 THEN 0 ELSE c[k-1]
             e == c[k] - 1
  <2>1. k # 1 => k-1 \in 1..n /\ c[k-1] = cut[k-1]
    BY <1>2, <1>6
  <2>2. a \in Nat
    BY <1>2, <2>1
  <2>3. e \in Nat /\ e <= Len(s)
    <3>1. CASE k = n+1
      BY <1>2, <1>6, <3>1
    <3>2. CASE k \in 1..n
      <4>1. c[k] = cut[k] /\ cut[k] \in Nat /\ 1 <= cut[k] /\ cut[k] <= Len(s)
        BY <1>2, <1>6, <3>2
      <4> QED BY <1>2, <4>1
    <3> QED BY <1>6, <3>1, <3>2
  <2>4. SubSeq(t, a+1, e) = SubSeq(s, a+1, e)
    <3> HIDE DEF a, e
    <3> QED BY <1>0, <2>2, <2>3, PieceOfConcat DEF t
  <2>5. CASE k \in 1..n
    <3>1. Promise!PieceOf(s, cut, k) = SubSeq(s, a+1, e)
      BY <1>6, <2>1, <2>5 DEF Promise!PieceOf
    <3> QED BY <1>4, <1>a, <2>4, <2>5, <3>1 DEF Promise!PieceOf
  <2>6. CASE k = n+1
    <3>1. a = CutBefore(cut, n) /\ e = Len(s)
      BY <1>2, <1>6, <2>1, <2>6 DEF CutBefore
    <3>2. rest = SubSeq(s, a+1, e)
      BY <1>a, <3>1
    <3> QED BY <1>4, <2>4, <2>6, <3>2 DEF Promise!PieceOf
  <2> QED BY <1>6, <2>5, <2>6
<1>11. <<>> = SubSeq(t, CutBefore(c, n+1) + 1, Len(t))
  <2>1. CutBefore(c, n+1) = Len(s) + 1
    BY <1>2, <1>6 DEF CutBefore
  <2> QED BY <1>2, <1>3, <2>1, SubSeqEmpty
<1>12. Cuts(m, <<>>, t, c)
  BY <1>4, <1>7, <1>8, <1>9, <1>10, <1>11 DEF Cuts
<1> QED BY <1>12 DEF SplitSoFar, m, t

\* At the end a rest that is not empty is a line too.
LEMMA SplitDone ==
  ASSUME NEW ls \in Seq(Seq(Chars)), NEW s \in Seq(Chars), NEW rest \in Seq(Chars),
         SplitSoFar(ls, rest, s)
  PROVE  Promise!IsLines(IF rest = <<>> THEN ls ELSE Append(ls, rest), s)
<1> DEFINE n == Len(ls)
<1>1. PICK cut : Cuts(ls, rest, s, cut)
  BY DEF SplitSoFar
<1>2. /\ n \in Nat /\ Len(s) \in Nat
      /\ \A k \in 1..n : cut[k] \in Nat /\ 1 <= cut[k] /\ cut[k] <= Len(s)
      /\ CutBefore(cut, n) \in Nat /\ CutBefore(cut, n) <= Len(s)
  BY <1>1, CutsType
<1>3. /\ cut \in [1..n -> Promise!Newlines(s)]
      /\ \A k \in 1..n : cut[k] \in Promise!Newlines(s)
      /\ \A i \in Promise!Newlines(s) : \E k \in 1..n : cut[k] = i
      /\ \A j, k \in 1..n : j < k => cut[j] < cut[k]
      /\ \A k \in 1..n : ls[k] = Promise!PieceOf(s, cut, k)
      /\ rest = SubSeq(s, CutBefore(cut, n) + 1, Len(s))
  BY <1>1 DEF Cuts
<1> HIDE DEF n
<1>4. CASE rest = <<>>
  <2>1. ~(CutBefore(cut, n) < Len(s))
    <3> SUFFICES ASSUME CutBefore(cut, n) < Len(s) PROVE FALSE
      OBVIOUS
    <3> DEFINE a == CutBefore(cut, n) + 1
    <3>1. a \in Int /\ 1 <= a /\ a <= Len(s) /\ \A i \in a .. Len(s) : s[i] \in Chars
      BY <1>2
    <3>2. Len(SubSeq(s, a, Len(s))) = Len(s) - a + 1
      BY <1>2, <3>1, SubSeqProperties
    <3>3. Len(rest) = 0 /\ Len(rest) = Len(s) - a + 1
      BY <1>3, <1>4, <3>2
    <3> HIDE DEF a
    <3> QED BY <1>2, <3>1, <3>3
  <2>2. s = <<>> \/ s[Len(s)] = NL
    <3>1. CASE n = 0
      BY <1>2, <2>1, <3>1 DEF CutBefore
    <3>2. CASE n # 0
      <4>1. n \in 1..n /\ cut[n] = Len(s)
        BY <1>2, <2>1, <3>2 DEF CutBefore
      <4> QED BY <1>3, <4>1 DEF Promise!Newlines
    <3> QED BY <3>1, <3>2
  <2>3. Promise!Breaks(s) = Promise!Newlines(s)
    BY <2>2 DEF Promise!Breaks, Promise!Last
  <2>4. Promise!IsLines(ls, s)
    BY <1>3, <2>3 DEF Promise!IsLines, n
  <2> QED BY <1>4, <2>4
<1>5. CASE rest # <<>>
  <2> DEFINE m == Append(ls, rest)
  <2>1. CutBefore(cut, n) < Len(s)
    <3> SUFFICES ASSUME ~(CutBefore(cut, n) < Len(s)) PROVE FALSE
      OBVIOUS
    <3>1. Len(s) < CutBefore(cut, n) + 1
      BY <1>2
    <3> QED BY <1>2, <1>3, <1>5, <3>1, SubSeqEmpty
  <2>2. \A k \in 1..n : cut[k] < Len(s)
    <3> SUFFICES ASSUME NEW k \in 1..n PROVE cut[k] < Len(s)
      OBVIOUS
    <3>1. n \in 1..n /\ CutBefore(cut, n) = cut[n] /\ (k < n \/ k = n)
      BY <1>2 DEF CutBefore
    <3>2. cut[k] <= cut[n] /\ cut[k] \in Nat /\ cut[n] \in Nat
      BY <1>2, <1>3, <3>1
    <3> QED BY <1>2, <2>1, <3>1, <3>2
  <2>3. s # <<>> /\ s[Len(s)] # NL
    <3>1. Len(s) \in 1..Len(s)
      BY <1>2, <2>1
    <3>2. Len(s) \notin Promise!Newlines(s)
      BY <1>2, <1>3, <2>2
    <3> QED BY <3>1, <3>2 DEF Promise!Newlines
  <2>4. Promise!Breaks(s) = Promise!Newlines(s) \cup {Len(s) + 1}
    BY <2>3 DEF Promise!Breaks, Promise!Last
  <2>5. /\ Len(m) = n + 1 /\ m[n+1] = rest /\ \A k \in 1..n : m[k] = ls[k]
    BY DEF n
  <2> HIDE DEF m
  <2> DEFINE c == [k \in 1..(n+1) |-> IF k = n+1 THEN Len(s) + 1 ELSE cut[k]]
  <2>6. /\ c[n+1] = Len(s) + 1 /\ \A k \in 1..n : c[k] = cut[k] /\ k \in 1..(n+1)
        /\ n+1 \in 1..(n+1) /\ \A k \in 1..(n+1) : k \in 1..n \/ k = n+1
    BY <1>2
  <2>7. c \in [1..(n+1) -> Promise!Breaks(s)]
    BY <1>3, <2>4, <2>6
  <2> HIDE DEF c
  <2>8. \A i \in Promise!Breaks(s) : \E k \in 1..(n+1) : c[k] = i
    BY <1>3, <2>4, <2>6
  <2>9. ASSUME NEW j \in 1..(n+1), NEW k \in 1..(n+1), j < k PROVE c[j] < c[k]
    <3>1. j \in 1..n /\ c[j] = cut[j]
      BY <1>2, <2>6, <2>9
    <3>2. CASE k = n+1
      BY <1>2, <2>6, <3>1, <3>2
    <3>3. CASE k \in 1..n
      BY <1>3, <2>6, <2>9, <3>1, <3>3
    <3> QED BY <2>6, <3>2, <3>3
  <2>10. ASSUME NEW k \in 1..(n+1) PROVE m[k] = Promise!PieceOf(s, c, k)
    <3>1. k # 1 => k-1 \in 1..n /\ c[k-1] = cut[k-1]
      BY <1>2, <2>6
    <3>2. CASE k \in 1..n
      <4>1. Promise!PieceOf(s, c, k) = Promise!PieceOf(s, cut, k)
        BY <2>6, <3>1, <3>2 DEF Promise!PieceOf
      <4> QED BY <1>3, <2>5, <3>2, <4>1
    <3>3. CASE k = n+1
      <4>1. /\ (IF k = 1 THEN 0 ELSE c[k-1]) = CutBefore(cut, n)
            /\ c[k] - 1 = Len(s)
        BY <1>2, <2>6, <3>1, <3>3 DEF CutBefore
      <4> QED BY <1>3, <2>5, <3>3, <4>1 DEF Promise!PieceOf
    <3> QED BY <2>6, <3>2, <3>3
  <2>11. Promise!IsLines(m, s)
    BY <2>5, <2>7, <2>8, <2>9, <2>10 DEF Promise!IsLines
  <2> QED BY <1>5, <2>11 DEF m
<1> QED BY <1>4, <1>5
LEMMA SplitEmpty == SplitSoFar(<<>>, <<>>, <<>>)
<1> DEFINE c == [k \in 1..0 |-> 0]
<1>1. 1..0 = {} /\ Promise!Newlines(<<>>) = {}
  BY DEF Promise!Newlines
<1>2. c \in [1..0 -> Promise!Newlines(<<>>)]
  BY <1>1
<1>3. SubSeq(<<>>, CutBefore(c, 0) + 1, 0) = <<>>
  BY SubSeqEmpty DEF CutBefore
<1> HIDE DEF c
<1>4. Len(<<>>) = 0
  OBVIOUS
<1>5. Cuts(<<>>, <<>>, <<>>, c)
  BY <1>1, <1>2, <1>3, <1>4 DEF Cuts
<1> QED BY <1>5 DEF SplitSoFar

---------------------------------------------------------------------------
(* cmd_pipe_output implements Command.                                     *)

PipeTypeOK ==
  /\ pc \in {"idle", "fork", "read", "wait"}
  /\ child \in {"none", "forked", "running", "failed", "dead"}
  /\ writers \in SUBSET {"caller", "child"}
  /\ todo \in Seq(Chars) /\ written \in Seq(Chars) /\ pipe \in Seq(Chars)
  /\ buffer \in Seq(Chars) /\ output \in Seq(Chars) /\ split_output \in Seq(Seq(Chars))

\* A newline is only the last character of the buffer.
BufferIsPiece == \A i \in 1..(Len(buffer) - 1) : buffer[i] # NL

\* While the caller reads, the output is what has been split, the buffer and
\* what is in the pipe; then it has all been split.  Nothing more is written
\* once the write end is closed.
PipeInv ==
  /\ PipeTypeOK
  /\ child = "none" <=> pc \in {"idle", "fork"}
  /\ child # "dead" => status = 0
  /\ pc \in {"idle", "fork"} =>
       /\ written = <<>> /\ pipe = <<>> /\ todo = <<>>
       /\ buffer = <<>> /\ output = <<>> /\ split_output = <<>>
  /\ pc \in {"read", "wait"} => "caller" \notin writers
  /\ child = "forked" \/ todo # <<>> => "child" \in writers
  /\ pc = "read" => \E s \in Seq(Chars) :
       /\ written = s \o (buffer \o pipe)
       /\ SplitSoFar(split_output, output, s) /\ BufferIsPiece
  /\ pc = "wait" =>
       /\ Promise!IsLines(split_output, written)
       /\ writers = {} /\ buffer = <<>> /\ output = <<>> /\ pipe = <<>>

LEMMA PipeInit == Init => PipeInv
<1> SUFFICES ASSUME Init PROVE PipeInv
  OBVIOUS
<1>1. PipeTypeOK
  BY DEF Init, PipeTypeOK
<1> QED BY <1>1 DEF Init, PipeInv

\* What the child does.
LEMMA PipeChildStep ==
  ASSUME PipeInv, ChildStep \/ CloseOutput \/ Killed PROVE PipeInv'
<1>0. /\ UNCHANGED <<pc, buffer, output, split_output>> /\ child # "none" /\ child' # "none"
      /\ pc \in {"read", "wait"} /\ PipeTypeOK
  BY DEF ChildStep, Exec, ExecFails, Write, Exits, CloseOutput, Killed, Dies, childVars, readVars,
         PipeInv, PipeTypeOK
<1>1. CASE Exec \/ ExecFails
  <2>1. /\ UNCHANGED <<written, pipe, writers, status>> /\ child = "forked"
        /\ child' \in {"running", "failed"}
    BY <1>1 DEF Exec, ExecFails, pipeVars
  <2>2. todo' \in Seq(Chars)
    <3>1. CASE Exec
      <4>1. todo' \in SeqOf(Chars, MaxOutput) /\ MaxOutput \in Nat
        BY <3>1, PipeAssumption DEF Exec
      <4>2. PICK m \in 0..MaxOutput : todo' \in [1..m -> Chars]
        BY <4>1 DEF SeqOf
      <4> QED BY <4>1, <4>2
    <3>2. CASE ExecFails
      <4>1. PICK c \in Chars : c # NL
        BY PipeAssumption
      <4>2. (CHOOSE x \in Chars : x # NL) \in Chars /\ NL \in Chars
        BY <4>1, PipeAssumption
      <4> QED BY <3>2, <4>2 DEF ExecFails, ErrorLine
    <3> QED BY <1>1, <3>1, <3>2
  <2>3. PipeTypeOK'
    BY <1>0, <2>1, <2>2 DEF PipeTypeOK
  <2> QED BY <1>0, <2>1, <2>3 DEF PipeInv, BufferIsPiece
<1>2. CASE Write
  <2> DEFINE h == Head(todo)
  <2>1. /\ UNCHANGED <<writers, status, child>> /\ todo # <<>>
        /\ pipe' = Append(pipe, h) /\ written' = Append(written, h) /\ todo' = Tail(todo)
        /\ h \in Chars
    BY <1>0, <1>2 DEF Write, PipeTypeOK
  <2>2. PipeTypeOK'
    BY <1>0, <2>1 DEF PipeTypeOK
  <2>3. pc = "read"
    BY <1>0, <2>1 DEF PipeInv
  <2>4. PICK s \in Seq(Chars) :
       /\ written = s \o (buffer \o pipe)
       /\ SplitSoFar(split_output, output, s) /\ BufferIsPiece
    BY <2>3 DEF PipeInv
  <2> HIDE DEF h
  <2>5. written' = s \o (buffer \o pipe')
    <3>1. buffer \in Seq(Chars) /\ pipe \in Seq(Chars) /\ buffer \o pipe \in Seq(Chars)
      BY <1>0 DEF PipeTypeOK
    <3>2. Append(buffer \o pipe, h) = buffer \o Append(pipe, h)
      BY <2>1, <3>1, AppendToConcat
    <3>3. Append(s \o (buffer \o pipe), h) = s \o Append(buffer \o pipe, h)
      BY <2>1, <3>1, AppendToConcat
    <3> QED BY <2>1, <2>4, <3>2, <3>3
  <2> QED BY <1>0, <2>1, <2>2, <2>3, <2>4, <2>5 DEF PipeInv, BufferIsPiece
<1>3. CASE CloseOutput
  <2>1. /\ UNCHANGED <<written, pipe, status, child, todo>>
        /\ writers' = writers \ {"child"} /\ todo = <<>> /\ child = "running"
    BY <1>3 DEF CloseOutput, childVars
  <2>2. PipeTypeOK'
    BY <1>0, <2>1 DEF PipeTypeOK
  <2> QED BY <1>0, <2>1, <2>2 DEF PipeInv, BufferIsPiece
<1>4. CASE Exits \/ Killed
  <2>1. /\ UNCHANGED <<written, pipe>> /\ child' = "dead"
        /\ writers' = writers \ {"child"} /\ todo' = <<>>
    BY <1>4 DEF Exits, Killed, Dies
  <2>2. PipeTypeOK'
    BY <1>0, <2>1 DEF PipeTypeOK
  <2> QED BY <1>0, <2>1, <2>2 DEF PipeInv, BufferIsPiece
<1> QED BY <1>1, <1>2, <1>3, <1>4 DEF ChildStep

LEMMA PipeCallerStep ==
  ASSUME PipeInv, Caller PROVE PipeInv'
<1>0. PipeTypeOK
  BY DEF PipeInv
<1>1. CASE OpenPipe
  <2>1. PipeTypeOK'
    BY <1>0, <1>1 DEF OpenPipe, childVars, readVars, PipeTypeOK
  <2> QED BY <1>1, <2>1 DEF OpenPipe, childVars, readVars, PipeInv
<1>2. CASE PipeFails
  <2>1. PipeTypeOK'
    BY <1>0, <1>2 DEF PipeFails, childVars, pipeVars, readVars, PipeTypeOK
  <2> QED BY <1>2, <2>1 DEF PipeFails, childVars, pipeVars, readVars, PipeInv
<1>3. CASE Fork
  <2>1. /\ pc = "fork" /\ pc' = "read" /\ child' = "forked" /\ writers' = {"child"}
        /\ UNCHANGED <<status, todo, written, pipe, buffer, output, split_output>>
    BY <1>3 DEF Fork, readVars
  <2>2. PipeTypeOK'
    BY <1>0, <2>1 DEF PipeTypeOK
  <2>3. /\ written' = <<>> /\ pipe' = <<>> /\ buffer' = <<>> /\ output' = <<>>
        /\ split_output' = <<>> /\ status' = 0
    BY <2>1 DEF PipeInv
  <2>4. <<>> \in Seq(Chars) /\ written' = <<>> \o (buffer' \o pipe') /\ BufferIsPiece'
    BY <2>3 DEF BufferIsPiece
  <2>5. SplitSoFar(split_output', output', <<>>)
    BY <2>3, SplitEmpty
  <2> QED BY <2>1, <2>2, <2>3, <2>4, <2>5 DEF PipeInv
<1>4. CASE ForkFails
  <2>1. /\ pc = "fork" /\ pc' = "idle" /\ writers' = {}
        /\ UNCHANGED <<child, status, todo, written, pipe, buffer, output, split_output>>
    BY <1>4 DEF ForkFails, childVars, readVars
  <2>2. PipeTypeOK'
    BY <1>0, <2>1 DEF PipeTypeOK
  <2>3. todo = <<>>
    BY <2>1 DEF PipeInv
  <2> QED BY <2>1, <2>2, <2>3 DEF PipeInv
<1>5. CASE FillBuffer
  <2> DEFINE h == Head(pipe)
  <2>1. /\ UNCHANGED <<pc, child, status, todo, written, writers, output, split_output>>
        /\ pc = "read" /\ ~fgetsReturns /\ pipe # <<>>
        /\ buffer' = Append(buffer, h) /\ pipe' = Tail(pipe) /\ h \in Chars
    BY <1>0, <1>5 DEF FillBuffer, childVars, PipeTypeOK
  <2>2. PipeTypeOK'
    BY <1>0, <2>1 DEF PipeTypeOK
  <2>3. PICK s \in Seq(Chars) :
       /\ written = s \o (buffer \o pipe)
       /\ SplitSoFar(split_output, output, s) /\ BufferIsPiece
    BY <2>1 DEF PipeInv
  <2>4. buffer' \o pipe' = buffer \o pipe
    BY <1>0, <2>1 DEF PipeTypeOK
  <2>5. BufferIsPiece'
    <3> HIDE DEF h
    <3>0. Len(buffer) \in Nat /\ Len(buffer') = Len(buffer) + 1
      BY <1>0, <2>1 DEF PipeTypeOK
    <3> SUFFICES ASSUME NEW i \in 1..(Len(buffer') - 1) PROVE buffer'[i] # NL
      BY DEF BufferIsPiece
    <3>1. i \in 1..Len(buffer) /\ buffer'[i] = buffer[i]
      BY <1>0, <2>1, <3>0 DEF PipeTypeOK
    <3>2. CASE i = Len(buffer)
      <4>1. buffer # <<>>
        BY <3>0, <3>1
      <4> QED BY <2>1, <3>1, <3>2, <4>1 DEF fgetsReturns, Last
    <3>3. CASE i # Len(buffer)
      <4>1. i \in 1..(Len(buffer) - 1)
        BY <3>0, <3>1, <3>3
      <4> QED BY <2>3, <3>1, <4>1 DEF BufferIsPiece
    <3> QED BY <3>2, <3>3
  <2> QED BY <2>1, <2>2, <2>3, <2>4, <2>5 DEF PipeInv
<1>6. CASE TakePiece
  <2>1. /\ UNCHANGED <<pc, child, status, todo, written, writers, pipe>>
        /\ pc = "read" /\ buffer # <<>> /\ buffer' = <<>>
    BY <1>6 DEF TakePiece, childVars, pipeVars, fgetsReturns
  <2>2. PICK s \in Seq(Chars) :
       /\ written = s \o (buffer \o pipe)
       /\ SplitSoFar(split_output, output, s) /\ BufferIsPiece
    BY <2>1 DEF PipeInv
  <2>c. buffer \in Seq(Chars) /\ pipe \in Seq(Chars)
    BY <1>0 DEF PipeTypeOK
  <2>d. <<>> \o pipe = pipe /\ s \o buffer \in Seq(Chars)
    BY <2>c
  <2>e. s \o (buffer \o pipe) = (s \o buffer) \o pipe
    BY <2>c, ConcatAssociative
  <2>3. written = (s \o buffer) \o (<<>> \o pipe) /\ s \o buffer \in Seq(Chars)
    BY <2>2, <2>d, <2>e, Zenon
  <2>4. BufferIsPiece'
    BY <2>1 DEF BufferIsPiece
  <2>a. Len(buffer) \in Nat /\ Len(buffer) >= 1
    BY <1>0, <2>1 DEF PipeTypeOK
  <2>5. CASE Last(buffer) = NL
    <3> DEFINE f == Front(buffer)
    <3>1. split_output' = Append(split_output, output \o f) /\ output' = <<>>
      BY <1>6, <2>5 DEF TakePiece
    <3>2. f \in Seq(Chars) /\ Len(f) = Len(buffer) - 1 /\ \A i \in 1..Len(f) : f[i] = buffer[i]
      BY <1>0, <2>1, FrontAndLast DEF PipeTypeOK
    <3>3. \A i \in 1..Len(f) : f[i] # NL
      BY <2>2, <3>2 DEF BufferIsPiece
    <3>4. buffer = f \o <<NL>>
      BY <1>0, <2>1, <2>5, FrontAndLast DEF PipeTypeOK
    <3> HIDE DEF f
    <3>5. SplitSoFar(split_output, output \o f, s \o f)
      BY <1>0, <2>2, <3>2, <3>3, SplitMore DEF PipeTypeOK
    <3>6. SplitSoFar(Append(split_output, output \o f), <<>>, (s \o f) \o <<NL>>)
      <4>1. output \o f \in Seq(Chars) /\ s \o f \in Seq(Chars)
        BY <1>0, <3>2 DEF PipeTypeOK
      <4> QED BY <1>0, <3>5, <4>1, SplitLine DEF PipeTypeOK
    <3>7. (s \o f) \o <<NL>> = s \o buffer
      BY <3>2, <3>4, PipeAssumption
    <3>8. PipeTypeOK'
      BY <1>0, <2>1, <3>1, <3>2 DEF PipeTypeOK
    <3> QED BY <2>1, <2>3, <2>4, <3>1, <3>6, <3>7, <3>8 DEF PipeInv
  <2>6. CASE Last(buffer) # NL
    <3>1. output' = output \o buffer /\ split_output' = split_output
      BY <1>6, <2>6 DEF TakePiece
    <3>2. \A i \in 1..Len(buffer) : buffer[i] # NL
      BY <2>2, <2>6, <2>a DEF BufferIsPiece, Last
    <3>3. SplitSoFar(split_output, output \o buffer, s \o buffer)
      BY <1>0, <2>2, <3>2, SplitMore DEF PipeTypeOK
    <3>4. PipeTypeOK'
      BY <1>0, <2>1, <3>1 DEF PipeTypeOK
    <3> QED BY <2>1, <2>3, <2>4, <3>1, <3>3, <3>4 DEF PipeInv
  <2> QED BY <2>5, <2>6
<1>7. CASE EndRead
  <2>1. /\ UNCHANGED <<child, status, todo, written, writers, pipe, buffer>>
        /\ pc = "read" /\ pc' = "wait" /\ buffer = <<>> /\ pipe = <<>> /\ writers = {}
        /\ split_output' = IF output = <<>> THEN split_output ELSE Append(split_output, output)
        /\ output' = <<>>
    BY <1>7 DEF EndRead, EndOfFile, childVars, pipeVars
  <2>2. PICK s \in Seq(Chars) :
       written = s \o (buffer \o pipe) /\ SplitSoFar(split_output, output, s)
    BY <2>1 DEF PipeInv
  <2>3. written = s
    BY <2>1, <2>2
  <2>4. Promise!IsLines(split_output', written)
    BY <1>0, <2>1, <2>2, <2>3, SplitDone DEF PipeTypeOK
  <2>5. PipeTypeOK'
    BY <1>0, <2>1 DEF PipeTypeOK
  <2> QED BY <2>1, <2>4, <2>5 DEF PipeInv
<1>8. CASE Wait
  <2>1. /\ pc = "wait" /\ pc' = "idle" /\ child' = "none" /\ status' = 0 /\ todo' = <<>>
        /\ written' = <<>> /\ split_output' = <<>> /\ UNCHANGED <<pipe, writers, buffer, output>>
    BY <1>8 DEF Wait, pipeVars
  <2>2. PipeTypeOK'
    BY <1>0, <2>1 DEF PipeTypeOK
  <2> QED BY <2>1, <2>2 DEF PipeInv
<1> QED BY <1>1, <1>2, <1>3, <1>4, <1>5, <1>6, <1>7, <1>8 DEF Caller

LEMMA PipeStep == PipeInv /\ [Next]_vars => PipeInv'
<1> SUFFICES ASSUME PipeInv, [Next]_vars PROVE PipeInv'
  OBVIOUS
<1>1. CASE UNCHANGED vars
  BY <1>1 DEF vars, childVars, pipeVars, readVars, PipeInv, PipeTypeOK, BufferIsPiece
<1> QED BY <1>1, PipeChildStep, PipeCallerStep DEF Next

\* The initial state, and every step or a stutter.
LEMMA CommandInit == Init => Promise!Init
BY DEF Init, Promise!Init, Result, Promise!Result

CommandNext ==
  \/ Promise!Start \/ Promise!NotStarted \/ Promise!Write \/ Promise!End \/ Promise!Return

LEMMA CommandStep ==
  PipeInv /\ [Next]_vars => CommandNext \/ UNCHANGED Promise!commandVars
<1> SUFFICES ASSUME PipeInv, [Next]_vars
             PROVE  CommandNext \/ UNCHANGED Promise!commandVars
  OBVIOUS
<1>0. PipeTypeOK
  BY DEF PipeInv
<1>1. ASSUME UNCHANGED <<child, status, written, ret>>
      PROVE  UNCHANGED Promise!commandVars
  BY <1>1 DEF Promise!commandVars
<1>2. CASE OpenPipe \/ FillBuffer \/ TakePiece \/ EndRead \/ CloseOutput \/ UNCHANGED vars
  BY <1>1, <1>2 DEF OpenPipe, FillBuffer, TakePiece, EndRead, CloseOutput, vars, childVars
<1>3. CASE PipeFails \/ ForkFails
  <2>1. /\ child = "none" /\ UNCHANGED <<child, status, written>>
        /\ \E code \in {2, 3} : ret' = Result(code, <<>>)
    BY <1>3 DEF PipeFails, ForkFails, childVars, PipeInv
  <2> QED BY <2>1 DEF CommandNext, Promise!NotStarted, Result, Promise!Result
<1>4. CASE Fork
  <2>1. /\ child = "none" /\ child' = "forked" /\ UNCHANGED <<status, written, ret>>
        /\ status = 0 /\ written = <<>>
    BY <1>4 DEF Fork, PipeInv
  <2> QED BY <2>1 DEF CommandNext, Promise!Start
<1>5. CASE Exec \/ ExecFails
  <2>1. /\ child = "forked" /\ child' \in {"running", "failed"}
        /\ UNCHANGED <<status, written, ret>>
    BY <1>5 DEF Exec, ExecFails
  <2> QED BY <2>1 DEF Promise!commandVars
<1>6. CASE Write
  <2>1. /\ child \in {"running", "failed"} /\ UNCHANGED <<child, status, ret>>
        /\ written' = Append(written, Head(todo)) /\ Head(todo) \in Chars
    BY <1>0, <1>6 DEF Write, PipeTypeOK
  <2> QED BY <2>1 DEF CommandNext, Promise!Write
<1>7. CASE Exits \/ Killed
  <2>1. /\ child \in {"forked", "running", "failed"} /\ child' = "dead"
        /\ UNCHANGED <<written, ret>>
    BY <1>7 DEF Exits, Killed, Dies
  <2> QED BY <2>1 DEF CommandNext, Promise!End
<1>8. CASE Wait
  <2>1. /\ pc = "wait" /\ child = "dead" /\ child' = "none" /\ status' = 0 /\ written' = <<>>
        /\ ret' = Result(IF status # 0 THEN 1 ELSE 0, split_output)
    BY <1>8 DEF Wait
  <2>2. Promise!IsLines(split_output, written)
    BY <2>1 DEF PipeInv
  <2>3. ret'.lines = split_output /\ ret' = Promise!Result(IF status = 0 THEN 0 ELSE 1, ret'.lines)
    BY <2>1 DEF Result, Promise!Result
  <2> QED BY <2>1, <2>2, <2>3 DEF CommandNext, Promise!Return
<1> QED BY <1>2, <1>3, <1>4, <1>5, <1>6, <1>7, <1>8 DEF Next, Caller, ChildStep

\* Whatever the sizes of pipe and buffer, and however the command writes its
\* output, closes it early, fails or is killed: the caller gets its lines and
\* the right code.
THEOREM CommandImplemented == Spec => ImplementsCommand
<1>1. Spec => []PipeInv
  BY PipeInit, PipeStep, PTL DEF Spec
<1> QED BY <1>1, CommandInit, CommandStep, PTL
        DEF Spec, ImplementsCommand, Promise!Spec, CommandNext
============================================================================
