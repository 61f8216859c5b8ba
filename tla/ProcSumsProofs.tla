--------------------------- MODULE ProcSumsProofs ---------------------------
(***************************************************************************)
(* offspring_pids lists no process twice and no process before its parent, *)
(* and misses only whom a children file may skip; and what cpumon, iomon,  *)
(* memmon and countmon make of the list is what the processes used or had: *)
(* for every finite set of processes, every amount of use and every        *)
(* interleaving of the reads with forks, exits and waits, and whichever    *)
(* way the list was made.                                                  *)
(***************************************************************************)
EXTENDS ProcSums, SumsProofs, SequenceTheorems

---------------------------------------------------------------------------
(* The walk of offspring_pids, by itself.                                  *)

\* The parent of a process found is the outside or was read before: an exit
\* can hand a process only to the mother, the first of the list, or to the
\* outside.  Or it is being read, and the process is one of the entries that
\* were returned.  Hence no file can show a process again.
ParentRead(i) ==
  \/ parent[Found[i]] = Outside
  \/ \E k \in 1..Len(pid_list) : k < i /\ parent[Found[i]] = Found[k]
  \/ /\ i > Len(pid_list) + 1 /\ unprocessed_pids # <<>>
     /\ parent[Found[i]] = front /\ Found[i] \in entries

ScanInv ==
  /\ TreeTypeOK
  /\ unprocessed_pids \in Seq(Pids) /\ pid_list \in Seq(Pids)
  /\ st[Mother] # "unborn" /\ parent[Mother] = Outside
  /\ Found # <<>> => Found[1] = Mother
  /\ unprocessed_pids = <<>> => entries = {}
  /\ NoDuplicates
  /\ \A i \in 1..Len(Found) : st[Found[i]] # "unborn" /\ ParentRead(i)

---------------------------------------------------------------------------
\* The order in which a file lists processes is a sequence without
\* repetition.
LEMMA OrdersType ==
  ASSUME NEW S \in SUBSET Pids, NEW cs \in Orders(S)
  PROVE  /\ cs \in Seq(S)
         /\ \A i, j \in 1..Len(cs) : cs[i] = cs[j] => i = j
<1>1. Cardinality(S) \in Nat
  BY PidsAssumption, FS_Subset, FS_CardinalityType
<1>2. cs \in [1..Cardinality(S) -> S] /\ IsInjective(cs)
  BY DEF Orders
<1>3. cs \in Seq(S) /\ Len(cs) = Cardinality(S)
  BY <1>1, <1>2
<1> QED BY <1>1, <1>2, <1>3 DEF IsInjective

\* Reading an entry appends to what has been found, moving the front to the
\* result leaves it as it is.
LEMMA FoundMoves ==
  ASSUME NEW a \in Seq(Pids), NEW b \in Seq(Pids), b # <<>>, NEW x \in Pids
  PROVE  /\ a \o Append(b, x) = Append(a \o b, x)
         /\ Append(a, Head(b)) \o Tail(b) = a \o b
         /\ Head(Append(b, x)) = Head(b) /\ Append(b, x) # <<>>
OBVIOUS

\* An order of a set lists all of it.
LEMMA OrdersOnto ==
  ASSUME NEW S \in SUBSET Pids, NEW cs \in Orders(S)
  PROVE  S \subseteq ToSet(cs)
<1>1. IsFiniteSet(S) /\ Cardinality(S) \in Nat
  BY PidsAssumption, FS_Subset, FS_CardinalityType
<1> DEFINE D == 1..Cardinality(S)
<1>2. IsFiniteSet(D) /\ Cardinality(D) = Cardinality(S)
  BY <1>1, FS_Interval
<1>3. cs \in Injection(D, S)
  BY DEF Orders, IsInjective, Injection
<1>4. cs \in Surjection(D, S)
  BY <1>1, <1>2, <1>3, FS_Injection
<1> QED BY <1>4 DEF Surjection, ToSet

LEMMA ToSetConcat ==
  ASSUME NEW a \in Seq(Pids), NEW b \in Seq(Pids)
  PROVE  ToSet(a \o b) = ToSet(a) \cup ToSet(b)
<1> DEFINE c == a \o b
<1>1. /\ Len(c) = Len(a) + Len(b) /\ Len(a) \in Nat /\ Len(b) \in Nat
      /\ DOMAIN c = 1..Len(c) /\ DOMAIN a = 1..Len(a) /\ DOMAIN b = 1..Len(b)
      /\ \A i \in 1..Len(a) : c[i] = a[i]
      /\ \A i \in 1..Len(b) : c[Len(a) + i] = b[i]
  OBVIOUS
<1> HIDE DEF c
<1>2. ToSet(a) \subseteq ToSet(c)
  BY <1>1 DEF ToSet
<1>3. ToSet(b) \subseteq ToSet(c)
  <2> SUFFICES ASSUME NEW j \in 1..Len(b) PROVE b[j] \in ToSet(c)
    BY <1>1 DEF ToSet
  <2>1. Len(a) + j \in 1..Len(c) /\ c[Len(a) + j] = b[j]
    BY <1>1
  <2> QED BY <1>1, <2>1 DEF ToSet
<1>4. ASSUME NEW i \in 1..Len(c) PROVE c[i] \in ToSet(a) \cup ToSet(b)
  <2>1. CASE i <= Len(a)
    <3>1. i \in 1..Len(a)
      BY <1>1, <2>1
    <3> QED BY <1>1, <3>1 DEF ToSet
  <2>2. CASE ~(i <= Len(a))
    <3> DEFINE j == i - Len(a)
    <3>1. j \in 1..Len(b) /\ i = Len(a) + j
      BY <1>1, <2>2
    <3>2. c[i] = b[j]
      BY <1>1, <3>1
    <3> QED BY <1>1, <3>1, <3>2 DEF ToSet
  <2> QED BY <2>1, <2>2
<1>5. ToSet(c) \subseteq ToSet(a) \cup ToSet(b)
  BY <1>1, <1>4 DEF ToSet
<1> QED BY <1>2, <1>3, <1>5 DEF c

LEMMA ToSetAppend ==
  ASSUME NEW a \in Seq(Pids), NEW x \in Pids
  PROVE  ToSet(Append(a, x)) = ToSet(a) \cup {x}
BY AppendProperties DEF ToSet

LEMMA FoundType ==
  ScanInv => /\ Found \in Seq(Pids)
             /\ Len(Found) = Len(pid_list) + Len(unprocessed_pids)
             /\ Len(pid_list) \in Nat
             /\ unprocessed_pids # <<>> =>
                  /\ Found[Len(pid_list) + 1] = front /\ front \in Pids
                  /\ Len(pid_list) + 1 \in 1..Len(Found)
BY DEF ScanInv, Found, front
---------------------------------------------------------------------------
LEMMA ScanInit == Init => ScanInv
<1> SUFFICES ASSUME Init PROVE ScanInv
  OBVIOUS
<1>1. /\ Found = <<>> /\ unprocessed_pids \in Seq(Pids) /\ pid_list \in Seq(Pids)
      /\ entries = {}
  BY DEF Init, Found
<1>2. TreeTypeOK /\ st[Mother] # "unborn" /\ parent[Mother] = Outside
  BY PidsAssumption DEF Init, TreeInit, TreeTypeOK
<1> QED BY <1>1, <1>2 DEF ScanInv, NoDuplicates

\* A step of the processes that neither takes a found process back nor gives
\* it a parent that was not read keeps the invariant.
LEMMA TreeStep ==
  ASSUME ScanInv, TreeTypeOK', UNCHANGED <<unprocessed_pids, pid_list, entries>>,
         \A p \in Pids : st[p] # "unborn" => st'[p] # "unborn",
         \A p \in Pids : st[p] # "unborn" =>
            \/ parent'[p] = parent[p]
            \/ parent'[p] = Outside
            \/ parent[p] # Outside /\ parent'[p] = Mother,
         parent'[Mother] = Outside
  PROVE  ScanInv'
<1>1. Found' = Found /\ Found \in Seq(Pids)
  BY FoundType DEF Found
<1>2. ASSUME NEW i \in 1..Len(Found)
      PROVE  st'[Found[i]] # "unborn" /\ ParentRead(i)'
  <2>1. Found[i] \in Pids /\ st[Found[i]] # "unborn" /\ ParentRead(i)
    BY <1>1, <1>2 DEF ScanInv
  <2>2. CASE parent'[Found[i]] = parent[Found[i]] \/ parent'[Found[i]] = Outside
    BY <1>1, <2>1, <2>2 DEF ParentRead, front
  <2>3. CASE /\ parent[Found[i]] # Outside /\ parent'[Found[i]] = Mother
             /\ parent[Found[i]] # Mother
    <3>0. Found[1] = Mother /\ Len(pid_list) \in Nat
      BY <1>1, <1>2, FoundType DEF ScanInv
    <3>1. Len(pid_list) >= 1 /\ i > 1
      <4>1. CASE \E k \in 1..Len(pid_list) : k < i
        BY <1>2, <3>0, <4>1
      <4>2. CASE i > Len(pid_list) + 1 /\ unprocessed_pids # <<>> /\ parent[Found[i]] = front
        <5>1. Found[Len(pid_list) + 1] = front
          BY <4>2, FoundType
        <5>2. Len(pid_list) # 0
          BY <2>3, <3>0, <4>2, <5>1
        <5> QED BY <1>2, <3>0, <4>2, <5>2
      <4> QED BY <2>1, <2>3, <4>1, <4>2 DEF ParentRead
    <3>2. 1 \in 1..Len(pid_list) /\ 1 < i
      BY <3>0, <3>1
    <3> QED BY <1>1, <2>1, <2>3, <3>0, <3>2 DEF ParentRead
  <2> QED BY <2>1, <2>2, <2>3
<1> QED BY <1>1, <1>2, PidsAssumption DEF ScanInv, NoDuplicates

LEMMA ScanStep == ScanInv /\ [Next]_vars => ScanInv'
<1> SUFFICES ASSUME ScanInv, [Next]_vars PROVE ScanInv'
  OBVIOUS
<1>0. /\ st \in [Pids -> {"unborn", "running", "zombie", "gone"}]
      /\ parent \in [Pids -> Pids \cup {Outside}]
      /\ visible \in [Pids -> BOOLEAN]
      /\ st[Mother] # "unborn" /\ parent[Mother] = Outside
  BY DEF ScanInv, TreeTypeOK
<1>1. ASSUME NEW p \in Pids, NEW c \in Pids, NEW byMain \in BOOLEAN,
             Forks(p, c, byMain)
      PROVE  ScanInv'
  <2>1. /\ st[c] = "unborn" /\ st' = [st EXCEPT ![c] = "running"]
        /\ parent' = [parent EXCEPT ![c] = p]
        /\ visible' = [visible EXCEPT ![c] = byMain]
        /\ UNCHANGED <<unprocessed_pids, pid_list, entries>>
    BY <1>1 DEF Forks, Fork, scanVars
  <2>2. TreeTypeOK'
    BY <1>0, <2>1 DEF TreeTypeOK
  <2> QED BY <1>0, <2>1, <2>2, TreeStep, PidsAssumption
<1>2. ASSUME NEW p \in Pids, EndsThread(p) PROVE ScanInv'
  <2>1. UNCHANGED <<st, parent, unprocessed_pids, pid_list, entries>>
    BY <1>2 DEF EndsThread, ThreadEnds, scanVars
  <2>2. TreeTypeOK'
    BY <1>0, <1>2 DEF EndsThread, ThreadEnds, TreeTypeOK
  <2> QED BY <1>0, <2>1, <2>2, TreeStep
<1>3. ASSUME NEW p \in Pids, NEW reaper \in {Mother, Outside}, Exits(p, reaper)
      PROVE  ScanInv'
  <2>1. /\ st' = [st EXCEPT ![p] = "zombie"]
        /\ parent' = [c \in Pids |-> IF parent[c] = p THEN reaper ELSE parent[c]]
        /\ visible' = [c \in Pids |-> visible[c] \/ parent[c] = p]
        /\ UNCHANGED <<unprocessed_pids, pid_list, entries>>
    BY <1>3 DEF Exits, Exit, scanVars
  <2>3. TreeTypeOK'
    BY <1>0, <1>3, <2>1, PidsAssumption DEF TreeTypeOK
  <2>4. parent'[Mother] = Outside
    BY <1>0, <2>1, PidsAssumption
  <2> QED BY <1>0, <1>3, <2>1, <2>3, <2>4, TreeStep, PidsAssumption
<1>4. ASSUME NEW p \in Pids, IsReaped(p) PROVE ScanInv'
  <2>1. /\ st' = [st EXCEPT ![p] = "gone"]
        /\ UNCHANGED <<parent, visible, unprocessed_pids, pid_list, entries>>
    BY <1>4 DEF IsReaped, Reaped, scanVars
  <2>2. TreeTypeOK'
    BY <1>0, <2>1 DEF TreeTypeOK
  <2> QED BY <1>0, <2>1, <2>2, TreeStep
<1>5. CASE StartScan
  <2>1. /\ unprocessed_pids' = <<Mother>> /\ pid_list' = <<>> /\ entries' = {}
        /\ UNCHANGED <<st, parent, visible>>
    BY <1>5 DEF StartScan, treeVars
  <2>2. Found' = <<Mother>> /\ Len(Found') = 1 /\ Found'[1] = Mother
    BY <2>1, PidsAssumption DEF Found
  <2> QED BY <1>0, <2>1, <2>2, PidsAssumption
          DEF ScanInv, TreeTypeOK, NoDuplicates, ParentRead
<1>6. CASE ReadChild
  <2>1. PICK c \in Unreturned(front, entries) :
          /\ unprocessed_pids' = Append(unprocessed_pids, c)
          /\ entries' = entries \cup {c}
    BY <1>6 DEF ReadChild
  <2>2. unprocessed_pids # <<>> /\ UNCHANGED <<st, parent, visible, pid_list>>
    BY <1>6 DEF ReadChild, treeVars
  <2>3. /\ c \in Pids /\ parent[c] = front /\ st[c] # "unborn" /\ c \notin entries
    BY <2>1 DEF Unreturned, ChildrenFile, ChildrenOf, Exists
  <2>4. /\ Found' = Append(Found, c) /\ front' = front /\ unprocessed_pids' # <<>>
        /\ unprocessed_pids' \in Seq(Pids)
    <3>1. pid_list \in Seq(Pids) /\ unprocessed_pids \in Seq(Pids)
      BY DEF ScanInv
    <3>2. unprocessed_pids' \in Seq(Pids)
      BY <2>1, <2>3, <3>1
    <3> QED BY <2>1, <2>2, <2>3, <3>1, <3>2, FoundMoves DEF Found, front
  <2> DEFINE n == Len(pid_list)
  <2>5. /\ Found \in Seq(Pids) /\ n \in Nat /\ n + 1 \in 1..Len(Found)
        /\ Found[n + 1] = front /\ front \in Pids /\ Len(Found) \in Nat
    BY <2>2, FoundType
  <2>6. /\ Found' \in Seq(Pids) /\ Len(Found') = Len(Found) + 1
        /\ Found'[Len(Found) + 1] = c
        /\ \A i \in 1..Len(Found) : Found'[i] = Found[i]
    BY <2>3, <2>4, <2>5
  <2>7. ASSUME NEW i \in 1..Len(Found), Found[i] = c PROVE FALSE
    <3>1. ParentRead(i) /\ front # Outside
      BY <2>5, PidsAssumption DEF ScanInv
    <3>2. PICK k \in 1..n : k < i /\ Found[k] = front
      BY <2>3, <2>7, <3>1 DEF ParentRead
    <3>3. k = n + 1
      BY <2>5, <3>2 DEF ScanInv, NoDuplicates
    <3> QED BY <2>5, <3>2, <3>3
  <2>8. NoDuplicates'
    <3> SUFFICES ASSUME NEW i \in 1..Len(Found'), NEW j \in 1..Len(Found'),
                        Found'[i] = Found'[j]
                 PROVE  i = j
      BY DEF NoDuplicates
    <3>1. /\ i \in 1..Len(Found) \/ i = Len(Found) + 1
          /\ j \in 1..Len(Found) \/ j = Len(Found) + 1
      BY <2>5, <2>6
    <3>2. CASE i \in 1..Len(Found) /\ j \in 1..Len(Found)
      BY <2>6, <3>2 DEF ScanInv, NoDuplicates
    <3>3. CASE i = Len(Found) + 1 \/ j = Len(Found) + 1
      BY <2>6, <2>7, <3>1, <3>3
    <3> QED BY <3>1, <3>2, <3>3
  <2>9. ASSUME NEW i \in 1..Len(Found')
        PROVE  st'[Found'[i]] # "unborn" /\ ParentRead(i)'
    <3>1. CASE i \in 1..Len(Found)
      <4>1. Found'[i] = Found[i]
        BY <2>6, <3>1
      <4>2. st[Found[i]] # "unborn" /\ ParentRead(i)
        BY <3>1 DEF ScanInv
      <4>3. \A k \in 1..n : Found'[k] = Found[k]
        BY <2>5, <2>6
      <4> QED BY <2>1, <2>2, <2>4, <4>1, <4>2, <4>3 DEF ParentRead
    <3>2. CASE i = Len(Found) + 1
      BY <2>1, <2>2, <2>3, <2>4, <2>5, <2>6, <3>2 DEF ParentRead
    <3> QED BY <2>5, <2>6, <3>1, <3>2
  <2>10. Found'[1] = Mother
    BY <2>5, <2>6 DEF ScanInv
  <2>11. pid_list' \in Seq(Pids) /\ TreeTypeOK'
    BY <1>0, <2>2 DEF ScanInv, TreeTypeOK
  <2> QED BY <1>0, <2>2, <2>4, <2>8, <2>9, <2>10, <2>11 DEF ScanInv
<1>8. CASE EndOfFile
  <2>1. /\ unprocessed_pids # <<>> /\ pid_list' = Append(pid_list, front)
        /\ unprocessed_pids' = Tail(unprocessed_pids) /\ entries' = {}
        /\ UNCHANGED <<st, parent, visible>>
    BY <1>8 DEF EndOfFile, treeVars
  <2>2. unprocessed_pids \in Seq(Pids) /\ pid_list \in Seq(Pids)
    BY DEF ScanInv
  <2>3. /\ Found \in Seq(Pids) /\ front \in Pids /\ Len(pid_list) + 1 \in 1..Len(Found)
        /\ Found[Len(pid_list) + 1] = front /\ Len(pid_list) \in Nat
    BY <2>1, FoundType
  <2>4. Found' = Found
    BY <2>1, <2>2, <2>3, FoundMoves DEF Found, front
  <2>5. /\ unprocessed_pids' \in Seq(Pids) /\ pid_list' \in Seq(Pids)
        /\ Len(pid_list') = Len(pid_list) + 1
    BY <2>1, <2>2, <2>3
  <2>6. ASSUME NEW i \in 1..Len(Found)
        PROVE  st[Found[i]] # "unborn" /\ ParentRead(i)'
    <3>1. st[Found[i]] # "unborn" /\ ParentRead(i)
      BY <2>6 DEF ScanInv
    <3>2. CASE parent[Found[i]] = Outside
    BY <2>1, <2>4, <3>1, <3>2 DEF ParentRead
    <3>3. CASE \E k \in 1..Len(pid_list) : k < i /\ parent[Found[i]] = Found[k]
      <4>1. PICK k \in 1..Len(pid_list) : k < i /\ parent[Found[i]] = Found[k]
        BY <3>3
      <4>2. k \in 1..Len(pid_list')
        BY <2>3, <2>5
      <4> QED BY <2>1, <2>4, <3>1, <4>1, <4>2 DEF ParentRead
    <3>4. CASE i > Len(pid_list) + 1 /\ parent[Found[i]] = front
      <4>1. Len(pid_list) + 1 \in 1..Len(pid_list') /\ Len(pid_list) + 1 < i
        BY <2>3, <2>5, <3>4
      <4> QED BY <2>1, <2>3, <2>4, <3>1, <3>4, <4>1 DEF ParentRead
    <3> QED BY <3>1, <3>2, <3>3, <3>4 DEF ParentRead
  <2>7. TreeTypeOK' /\ NoDuplicates'
    BY <1>0, <2>1, <2>4 DEF ScanInv, TreeTypeOK, NoDuplicates
  <2> QED BY <1>0, <2>1, <2>4, <2>5, <2>6, <2>7 DEF ScanInv
<1>7. CASE EndScan \/ UNCHANGED vars
  <2>1. UNCHANGED <<st, parent, visible, unprocessed_pids, pid_list, entries>>
    BY <1>7 DEF EndScan, vars, treeVars, scanVars
  <2> QED BY <1>0, <2>1, TreeStep DEF TreeTypeOK
<1> QED BY <1>1, <1>2, <1>3, <1>4, <1>5, <1>6, <1>7, <1>8
        DEF Next, TreeNext, ScanNext, Terminated

LEMMA ScanInvAlways == Spec => []ScanInv
BY ScanInit, ScanStep, PTL DEF Spec

---------------------------------------------------------------------------
\* However many processes fork, exit and change parents during the walk, no
\* process is listed twice.
THEOREM NoDuplicatesCorrect == Spec => []NoDuplicates
<1>1. ScanInv => NoDuplicates
  BY DEF ScanInv
<1> QED BY <1>1, ScanInvAlways, PTL

LEMMA ScanParentsFirst == ScanInv => ParentsFirst
<1> SUFFICES ASSUME ScanInv, NEW i \in 1..Len(Found), NEW j \in 1..Len(Found),
                    parent[Found[i]] = Found[j]
             PROVE  j < i
  BY DEF ParentsFirst
<1>1. Found[j] \in Pids /\ Found[j] # Outside
  BY FoundType, PidsAssumption
<1>2. ParentRead(i)
  BY DEF ScanInv
<1>3. CASE \E k \in 1..Len(pid_list) : k < i /\ parent[Found[i]] = Found[k]
  <2>1. PICK k \in 1..Len(pid_list) : k < i /\ Found[k] = Found[j]
    BY <1>3
  <2>2. k \in 1..Len(Found)
    BY <2>1, FoundType
  <2> QED BY <2>1, <2>2 DEF ScanInv, NoDuplicates
<1>4. CASE /\ i > Len(pid_list) + 1 /\ unprocessed_pids # <<>>
           /\ parent[Found[i]] = front
  <2>1. Len(pid_list) + 1 \in 1..Len(Found) /\ Found[Len(pid_list) + 1] = Found[j]
    BY <1>4, FoundType
  <2>2. j = Len(pid_list) + 1
    BY <2>1 DEF ScanInv, NoDuplicates
  <2> QED BY <1>4, <2>2
<1> QED BY <1>1, <1>2, <1>3, <1>4 DEF ParentRead

\* However many processes fork, exit and change parents during the walk, none
\* is listed before its parent.
THEOREM ParentsFirstCorrect == Spec => []ParentsFirst
BY ScanParentsFirst, ScanInvAlways, PTL

---------------------------------------------------------------------------
(* Nobody who could be found is missed.                                    *)

\* The descendants of p are the least set with p that is closed under
\* children.
LEMMA DescendantsClosed ==
  ASSUME NEW p \in Pids
  PROVE  /\ Descendants(p) \in SUBSET Pids /\ p \in Descendants(p)
         /\ \A q \in Descendants(p) : ChildrenOf(q) \subseteq Descendants(p)
<1>1. \A q \in Pids : ChildrenOf(q) \subseteq Pids
  BY DEF ChildrenOf
<1> QED BY <1>1 DEF Descendants, Reached, Closed

LEMMA DescendantsLeast ==
  ASSUME NEW p \in Pids, NEW S \in SUBSET Pids, p \in S,
         \A q \in S : ChildrenOf(q) \subseteq S
  PROVE  Descendants(p) \subseteq S
BY DEF Descendants, Reached, Closed

LEMMA ShownLeast ==
  ASSUME NEW p \in Pids, NEW S \in SUBSET Pids, p \in S,
         \A q \in S : ChildrenFile(q) \subseteq S
  PROVE  ShownDescendants(p) \subseteq S
BY DEF ShownDescendants, Reached, Closed

LEMMA ShownType ==
  ASSUME NEW p \in Pids
  PROVE  ShownDescendants(p) \in SUBSET Pids /\ p \in ShownDescendants(p)
BY DEF ShownDescendants, Reached, Closed

\* Whatever contains the mother, if she is there, and with any process those
\* of its children that are in V contains all of V: the induction principle
\* for the tree a walk is held to.
Generated(V) ==
  \A S \in SUBSET Pids :
    (Mother \in V => Mother \in S) /\ (\A q \in V : parent[q] \in S => q \in S)
      => V \subseteq S

ParentRuns(c) ==
  parent[c] = Outside \/ (parent[c] \in Pids /\ st[parent[c]] = "running")

\* If an entry returned from the file being read has left it, nobody who is
\* still to come from it is held to.
Spared ==
  unprocessed_pids # <<>> /\ entries \ ChildrenFile(front) # {}
    => shown \cap ChildrenFile(front) \subseteq entries

\* A process that has children runs; those the walk is held to exist, are
\* visible and hang together; and once the file of their parent has been
\* read they have been found.
CoverInv ==
  /\ \A c \in Pids : Exists(c) => ParentRuns(c)
  /\ shown \in SUBSET Pids
  /\ \A q \in shown : Exists(q) /\ (q # Mother => visible[q])
  /\ Generated(shown)
  /\ Mother \in shown => Mother \in ToSet(Found)
  /\ \A q \in shown : parent[q] \in ToSet(pid_list) => q \in ToSet(Found)
  /\ entries \subseteq ToSet(Found)
  /\ Spared

\* Taking the descendants of some processes away leaves a tree that hangs
\* together.
Below(D) == UNION {Descendants(d) : d \in D}

LEMMA BelowClosed ==
  ASSUME NEW D \in SUBSET Pids
  PROVE  /\ Below(D) \in SUBSET Pids /\ D \subseteq Below(D)
         /\ \A q \in Below(D) : ChildrenOf(q) \subseteq Below(D)
BY DescendantsClosed DEF Below

LEMMA GeneratedWithout ==
  ASSUME NEW V \in SUBSET Pids, Generated(V), \A q \in V : Exists(q),
         NEW D \in SUBSET Pids
  PROVE  \A S \in SUBSET Pids :
           /\ Mother \in V \ Below(D) => Mother \in S
           /\ \A q \in V \ Below(D) : parent[q] \in S => q \in S
           => V \ Below(D) \subseteq S
<1> SUFFICES ASSUME NEW S \in SUBSET Pids,
                    Mother \in V \ Below(D) => Mother \in S,
                    \A q \in V \ Below(D) : parent[q] \in S => q \in S
             PROVE  V \ Below(D) \subseteq S
  OBVIOUS
<1> DEFINE T == S \cup Below(D)
<1>1. T \in SUBSET Pids
  BY BelowClosed
<1>2. ASSUME NEW q \in V, parent[q] \in T PROVE q \in T
  <2>1. CASE parent[q] \in Below(D)
    <3>1. q \in ChildrenOf(parent[q])
      BY <1>2 DEF ChildrenOf
    <3> QED BY <2>1, <3>1, BelowClosed
  <2> QED BY <1>2, <2>1
<1>3. V \subseteq T
  BY <1>1, <1>2 DEF Generated
<1> QED BY <1>3

\* What the files lead to from the mother hangs together.
LEMMA ShownGenerated ==
  ASSUME ScanInv, Exists(Mother), NEW V, V = ShownDescendants(Mother)
  PROVE  /\ V \in SUBSET Pids /\ Generated(V)
         /\ \A q \in V : Exists(q) /\ (q # Mother => visible[q])
<1>1. V \in SUBSET Pids /\ Mother \in V
  BY ShownType, PidsAssumption
<1>2. \A q \in V : Exists(q) /\ (q # Mother => visible[q])
  <2> DEFINE S == {q \in Pids : Exists(q) /\ (q # Mother => visible[q])}
  <2>1. Mother \in S /\ \A q \in S : ChildrenFile(q) \subseteq S
    BY PidsAssumption DEF ChildrenFile, ChildrenOf
  <2> QED BY <2>1, ShownLeast, PidsAssumption
<1>3. ASSUME NEW S \in SUBSET Pids, Mother \in S,
             \A q \in V : parent[q] \in S => q \in S
      PROVE  V \subseteq S
  <2> DEFINE T == S \cap V
  <2>1. ASSUME NEW q \in T, NEW c \in ChildrenFile(q) PROVE c \in T
    <3>1. c \in Pids /\ parent[c] = q
      BY DEF ChildrenFile, ChildrenOf
    <3>2. c \in V
      BY <2>1, <3>1 DEF ShownDescendants, Reached, Closed
    <3> QED BY <1>3, <3>1, <3>2
  <2>2. T \in SUBSET Pids /\ Mother \in T
    BY <1>1, <1>3
  <2> QED BY <2>1, <2>2, ShownLeast, PidsAssumption
<1> QED BY <1>1, <1>2, <1>3 DEF Generated

LEMMA CoverInit == Init => CoverInv
<1> SUFFICES ASSUME Init PROVE CoverInv
  OBVIOUS
<1>1. /\ shown = {} /\ st = [p \in Pids |-> IF p = Mother THEN "running" ELSE "unborn"]
      /\ parent = [p \in Pids |-> Outside] /\ entries = {}
  BY DEF Init, TreeInit
<1> QED BY <1>1 DEF CoverInv, Generated, Exists, ParentRuns, Spared

\* A step of the processes that takes everybody it disturbs out of shown.
LEMMA CoverTreeStep ==
  ASSUME CoverInv, UNCHANGED <<unprocessed_pids, pid_list, entries>>, Spared',
         NEW D \in SUBSET Pids, shown' = shown \ Below(D) \/ shown' = shown,
         \A q \in shown' : Exists(q)' /\ parent'[q] = parent[q] /\ (visible[q] => visible'[q]),
         \A c \in Pids : Exists(c)' => ParentRuns(c)'
  PROVE  CoverInv'
<1>1. Found' = Found /\ ToSet(pid_list)' = ToSet(pid_list) /\ ToSet(Found)' = ToSet(Found)
  BY DEF Found
<1>2. shown' \in SUBSET Pids /\ shown' \subseteq shown
  BY DEF CoverInv
<1>3. Generated(shown)'
  <2> SUFFICES ASSUME NEW S \in SUBSET Pids, Mother \in shown' => Mother \in S,
                      \A q \in shown' : parent'[q] \in S => q \in S
               PROVE  shown' \subseteq S
    BY DEF Generated
  <2>1. \A q \in shown' : parent[q] \in S => q \in S
    OBVIOUS
  <2>2. CASE shown' = shown
    BY <2>1, <2>2 DEF CoverInv, Generated
  <2>3. CASE shown' = shown \ Below(D)
    BY <2>1, <2>3, GeneratedWithout DEF CoverInv
  <2> QED BY <2>2, <2>3
<1> QED BY <1>1, <1>2, <1>3 DEF CoverInv

\* Nor does a step that takes nothing out of the file being read, or empties
\* it, and brings nobody into it to whom the walk is held.
LEMMA SparedStep ==
  ASSUME ScanInv, CoverInv, UNCHANGED <<unprocessed_pids, entries>>, shown' \subseteq shown,
         \A f \in Pids : ChildrenFile(f)' = {}
                           \/ (/\ ChildrenFile(f) \subseteq ChildrenFile(f)'
                               /\ shown' \cap ChildrenFile(f)' \subseteq ChildrenFile(f))
  PROVE  Spared'
<1> SUFFICES ASSUME unprocessed_pids # <<>> PROVE Spared'
  BY DEF Spared
<1>1. front' = front /\ front \in Pids
  BY FoundType DEF front
<1>2. PICK f \in Pids : f = front
  BY <1>1
<1>3. PICK A, B : A = ChildrenFile(f) /\ B = ChildrenFile(f)'
  OBVIOUS
<1>4. ChildrenFile(front) = A /\ ChildrenFile(front)' = B
  BY <1>1, <1>2, <1>3 DEF ChildrenFile, ChildrenOf
<1>5. entries \ A # {} => shown \cap A \subseteq entries
  BY <1>4 DEF CoverInv, Spared
<1>6. B = {} \/ (A \subseteq B /\ shown' \cap B \subseteq A)
  BY <1>3
<1>7. entries \ B # {} => shown' \cap B \subseteq entries
  BY <1>5, <1>6
<1> QED BY <1>4, <1>7 DEF Spared

\* At the end of a file, nobody the walk is held to is missing from it.
LEMMA FileRead ==
  ASSUME ScanInv, CoverInv, unprocessed_pids # <<>>, FileMayEnd(front, entries),
         NEW q \in shown, q \in ChildrenFile(front)
  PROVE  q \in entries
<1> SUFFICES ASSUME q \notin entries PROVE FALSE
  OBVIOUS
<1> DEFINE U == Unreturned(front, entries)
           L == entries \ ChildrenFile(front)
<1>1. U \in SUBSET Pids /\ q \in U
  BY DEF Unreturned, ChildrenFile, ChildrenOf
<1>2. entries \in SUBSET Pids
  BY FoundType DEF CoverInv, ToSet
<1>3. IsFiniteSet(U) /\ IsFiniteSet(L)
  BY <1>1, <1>2, PidsAssumption, FS_Subset
<1>4. Cardinality(U) \in Nat /\ Cardinality(L) \in Nat
  BY <1>3, FS_CardinalityType
<1>5. Cardinality(U) # 0
  BY <1>1, <1>3, FS_EmptySet
<1>6. Cardinality(U) <= Cardinality(L)
  BY DEF FileMayEnd
<1>7. Cardinality(L) # 0
  BY <1>4, <1>5, <1>6
<1>8. L # {}
  BY <1>7, FS_EmptySet
<1> QED BY <1>8 DEF CoverInv, Spared

LEMMA CoverStep == ScanInv /\ CoverInv /\ [Next]_vars => CoverInv'
<1> SUFFICES ASSUME ScanInv, CoverInv, [Next]_vars PROVE CoverInv'
  OBVIOUS
<1>0. /\ st \in [Pids -> {"unborn", "running", "zombie", "gone"}]
      /\ parent \in [Pids -> Pids \cup {Outside}]
      /\ visible \in [Pids -> BOOLEAN] /\ parent[Mother] = Outside
  BY DEF ScanInv, TreeTypeOK
<1>a. /\ shown \in SUBSET Pids /\ \A q \in shown : Exists(q) /\ (q # Mother => visible[q])
      /\ \A c \in Pids : Exists(c) => ParentRuns(c)
  BY DEF CoverInv
<1>1. ASSUME NEW p \in Pids, NEW c \in Pids, NEW byMain \in BOOLEAN,
             Forks(p, c, byMain)
      PROVE  CoverInv'
  <2>1. /\ st[c] = "unborn" /\ st[p] = "running" /\ st' = [st EXCEPT ![c] = "running"]
        /\ parent' = [parent EXCEPT ![c] = p]
        /\ visible' = [visible EXCEPT ![c] = byMain]
        /\ UNCHANGED <<unprocessed_pids, pid_list, entries, shown>>
    BY <1>1 DEF Forks, Fork, scanVars, histVars
  <2>2. \A q \in shown : q # c
    BY <1>a, <2>1 DEF Exists, ParentRuns
  <2>3. \A q \in shown' : Exists(q)' /\ parent'[q] = parent[q] /\ (visible[q] => visible'[q])
    BY <1>0, <1>a, <2>1, <2>2 DEF Exists, ParentRuns
  <2>4. \A d \in Pids : Exists(d)' => ParentRuns(d)'
    BY <1>0, <1>a, <2>1 DEF Exists, ParentRuns
  <2>5. ASSUME NEW f \in Pids
        PROVE  /\ ChildrenFile(f) \subseteq ChildrenFile(f)'
               /\ shown' \cap ChildrenFile(f)' \subseteq ChildrenFile(f)
    BY <1>0, <1>a, <2>1, <2>2 DEF ChildrenFile, ChildrenOf, Exists
  <2>6. Spared'
    BY <2>1, <2>5, SparedStep
  <2>7. {} \in SUBSET Pids
    OBVIOUS
  <2> QED BY <2>1, <2>3, <2>4, <2>6, <2>7, CoverTreeStep
<1>2. ASSUME NEW p \in Pids, EndsThread(p) PROVE CoverInv'
  <2>1. /\ UNCHANGED <<st, parent, unprocessed_pids, pid_list, entries, shown>>
        /\ visible' = [c \in Pids |-> visible[c] \/ parent[c] = p]
    BY <1>2 DEF EndsThread, ThreadEnds, scanVars, histVars
  <2>2. ASSUME NEW f \in Pids
        PROVE  /\ ChildrenFile(f) \subseteq ChildrenFile(f)'
               /\ shown' \cap ChildrenFile(f)' \subseteq ChildrenFile(f)
    BY <1>0, <1>a, <2>1, PidsAssumption DEF ChildrenFile, ChildrenOf, Exists
  <2>3. Spared'
    BY <2>1, <2>2, SparedStep
  <2>4. /\ \A q \in shown' : Exists(q)' /\ parent'[q] = parent[q] /\ (visible[q] => visible'[q])
        /\ \A d \in Pids : Exists(d)' => ParentRuns(d)'
        /\ {} \in SUBSET Pids
    BY <1>0, <1>a, <2>1 DEF Exists, ParentRuns
  <2> QED BY <2>1, <2>3, <2>4, CoverTreeStep
<1>3. ASSUME NEW p \in Pids, NEW reaper \in {Mother, Outside}, Exits(p, reaper)
      PROVE  CoverInv'
  <2>1. /\ st[p] = "running" /\ st' = [st EXCEPT ![p] = "zombie"]
        /\ reaper = Outside \/ (reaper = Mother /\ p # Mother /\ st[Mother] = "running")
        /\ parent' = [c \in Pids |-> IF parent[c] = p THEN reaper ELSE parent[c]]
        /\ visible' = [c \in Pids |-> visible[c] \/ parent[c] = p]
        /\ shown' = shown \ Descendants(p)
        /\ UNCHANGED <<unprocessed_pids, pid_list, entries>>
    BY <1>3 DEF Exits, Exit, Reapers, scanVars
  <2>2. ASSUME NEW q \in shown'
        PROVE  Exists(q)' /\ parent'[q] = parent[q] /\ (visible[q] => visible'[q])
    <3>1. q \in Pids /\ Exists(q) /\ q \notin Descendants(p)
      BY <1>a, <2>1
    <3>2. q # p /\ parent[q] # p
      BY <3>1, DescendantsClosed DEF ChildrenOf
    <3> QED BY <1>0, <2>1, <3>1, <3>2 DEF Exists, ParentRuns
  <2>3. \A d \in Pids : Exists(d)' => ParentRuns(d)'
    BY <1>0, <1>a, <2>1, PidsAssumption DEF Exists, ParentRuns
  <2>4. ASSUME NEW f \in Pids, f # p
        PROVE  /\ ChildrenFile(f) \subseteq ChildrenFile(f)'
               /\ shown' \cap ChildrenFile(f)' \subseteq ChildrenFile(f)
    <3>1. ChildrenFile(f) \subseteq ChildrenFile(f)'
      BY <1>0, <2>1, <2>4 DEF ChildrenFile, ChildrenOf, Exists
    <3>2. ASSUME NEW q \in shown', q \in ChildrenFile(f)' PROVE q \in ChildrenFile(f)
      <4>1. q \in Pids /\ q \in shown /\ parent'[q] = f
        BY <1>a, <2>1, <3>2 DEF ChildrenFile, ChildrenOf
      <4>2. parent[q] = f
        BY <2>2, <4>1
      <4>3. q # Mother
        BY <1>0, <4>2, PidsAssumption
      <4> QED BY <1>a, <4>1, <4>2, <4>3 DEF ChildrenFile, ChildrenOf
    <3> QED BY <3>1, <3>2
  <2>5. ChildrenFile(p)' = {}
    BY <1>0, <2>1, PidsAssumption DEF ChildrenFile, ChildrenOf
  <2>6. Spared'
    <3>1. \A f \in Pids : ChildrenFile(f)' = {}
                           \/ (/\ ChildrenFile(f) \subseteq ChildrenFile(f)'
                               /\ shown' \cap ChildrenFile(f)' \subseteq ChildrenFile(f))
      BY <2>4, <2>5
    <3>2. shown' \subseteq shown
      BY <2>1
    <3> QED BY <2>1, <3>1, <3>2, SparedStep
  <2>7. {p} \in SUBSET Pids /\ shown' = shown \ Below({p})
    BY <2>1 DEF Below
  <2> QED BY <2>1, <2>2, <2>3, <2>6, <2>7, CoverTreeStep
<1>4. ASSUME NEW p \in Pids, IsReaped(p) PROVE CoverInv'
  <2>1. /\ st[p] = "zombie" /\ st' = [st EXCEPT ![p] = "gone"]
        /\ shown' = shown \ ({p} \cup Below(Skippable(p)))
        /\ UNCHANGED <<parent, visible, unprocessed_pids, pid_list, entries>>
    BY <1>4 DEF IsReaped, Reaped, scanVars, Below
  <2>2. Descendants(p) = {p}
    <3>1. ChildrenOf(p) = {}
      BY <1>0, <1>a, <2>1, PidsAssumption DEF ChildrenOf, ParentRuns
    <3>2. Descendants(p) \subseteq {p}
      <4>1. {p} \in SUBSET Pids /\ p \in {p} /\ \A q \in {p} : ChildrenOf(q) \subseteq {p}
        BY <3>1
      <4> QED BY <4>1, DescendantsLeast
    <3> QED BY <3>2, DescendantsClosed
  <2>3. \A q \in shown' : Exists(q)' /\ parent'[q] = parent[q] /\ (visible[q] => visible'[q])
    BY <1>0, <1>a, <2>1 DEF Exists, ParentRuns
  <2>4. \A d \in Pids : Exists(d)' => ParentRuns(d)'
    BY <1>0, <1>a, <2>1 DEF Exists, ParentRuns
  <2>5. Skippable(p) \in SUBSET Pids
    BY DEF Skippable, Unreturned, ChildrenFile, ChildrenOf
  <2>6. /\ {p} \cup Skippable(p) \in SUBSET Pids
        /\ shown' = shown \ Below({p} \cup Skippable(p))
    <3>1. Below({p} \cup Skippable(p)) = Descendants(p) \cup Below(Skippable(p))
      BY DEF Below
    <3> QED BY <2>1, <2>2, <2>5, <3>1
  <2>7. Spared'
    <3> SUFFICES ASSUME unprocessed_pids # <<>>, entries \ ChildrenFile(front)' # {}
                 PROVE  shown' \cap ChildrenFile(front)' \subseteq entries
      BY <2>1 DEF Spared
    <3>1. front' = front /\ ChildrenFile(front)' = ChildrenFile(front) \ {p}
      BY <1>0, <2>1 DEF front, ChildrenFile, ChildrenOf, Exists
    <3>2. CASE p \in entries /\ parent[p] = front
      <4>1. Skippable(p) = ChildrenFile(front) \ entries
        BY <3>2 DEF Skippable, Unreturned
      <4>2. Skippable(p) \subseteq Below(Skippable(p))
        BY <2>5, BelowClosed
      <4> QED BY <2>1, <3>1, <4>1, <4>2
    <3>3. CASE ~(p \in entries /\ parent[p] = front)
      <4>1. entries \ ChildrenFile(front) # {}
        BY <3>1, <3>3 DEF ChildrenFile, ChildrenOf
      <4>2. shown \cap ChildrenFile(front) \subseteq entries
        BY <4>1 DEF CoverInv, Spared
      <4> QED BY <2>1, <3>1, <4>2
    <3> QED BY <3>2, <3>3
  <2> QED BY <2>1, <2>3, <2>4, <2>6, <2>7, CoverTreeStep
<1>5. CASE StartScan
  <2>1. /\ unprocessed_pids' = <<Mother>> /\ pid_list' = <<>> /\ Exists(Mother)
        /\ entries' = {}
        /\ shown' = ShownDescendants(Mother) /\ UNCHANGED <<st, parent, visible>>
    BY <1>5 DEF StartScan, treeVars
  <2>2. Found' = <<Mother>> /\ ToSet(pid_list)' = {} /\ Mother \in ToSet(Found)'
    BY <2>1, PidsAssumption DEF Found, ToSet
  <2>3. /\ shown' \in SUBSET Pids /\ Generated(shown')
        /\ \A q \in shown' : Exists(q) /\ (q # Mother => visible[q])
    BY <2>1, ShownGenerated
  <2>4. Generated(shown)'
    BY <2>1, <2>3 DEF Generated
  <2>5. Spared' /\ entries' \subseteq ToSet(Found)'
    BY <2>1 DEF Spared
  <2> QED BY <1>a, <2>1, <2>2, <2>3, <2>4, <2>5 DEF CoverInv, Exists, ParentRuns
<1>6. CASE ReadChild
  <2>1. PICK c \in Unreturned(front, entries) :
          /\ unprocessed_pids' = Append(unprocessed_pids, c)
          /\ entries' = entries \cup {c}
    BY <1>6 DEF ReadChild
  <2>2. /\ unprocessed_pids # <<>>
        /\ UNCHANGED <<st, parent, visible, pid_list, shown>>
    BY <1>6 DEF ReadChild, treeVars, histVars
  <2>3. c \in Pids /\ c \in ChildrenFile(front)
    BY <2>1 DEF Unreturned, ChildrenFile, ChildrenOf
  <2>4. Found' = Append(Found, c) /\ front' = front /\ Found \in Seq(Pids)
    BY <2>1, <2>2, <2>3, FoundMoves, FoundType DEF Found, front, ScanInv
  <2>5. ToSet(Found') = ToSet(Found) \cup {c} /\ ToSet(Found)' = ToSet(Found')
    BY <2>3, <2>4, ToSetAppend
  <2>6. ChildrenFile(front)' = ChildrenFile(front)
    BY <2>2, <2>4 DEF ChildrenFile, ChildrenOf, Exists
  <2>7. Spared'
    BY <2>1, <2>2, <2>3, <2>6 DEF CoverInv, Spared
  <2>8. Generated(shown)' /\ entries' \subseteq ToSet(Found)'
    BY <2>1, <2>2, <2>5 DEF CoverInv, Generated
  <2> QED BY <2>2, <2>5, <2>7, <2>8 DEF CoverInv, Exists, ParentRuns
<1>8. CASE EndOfFile
  <2>1. /\ unprocessed_pids # <<>> /\ FileMayEnd(front, entries)
        /\ pid_list' = Append(pid_list, front)
        /\ unprocessed_pids' = Tail(unprocessed_pids) /\ entries' = {}
        /\ UNCHANGED <<st, parent, visible, shown>>
    BY <1>8 DEF EndOfFile, treeVars, histVars
  <2>2. front \in Pids /\ unprocessed_pids \in Seq(Pids) /\ pid_list \in Seq(Pids)
    BY <2>1, FoundType DEF ScanInv
  <2>3. Found' = Found
    BY <2>1, <2>2, FoundMoves DEF Found, front
  <2>4. ToSet(pid_list') = ToSet(pid_list) \cup {front}
    BY <2>1, <2>2, ToSetAppend
  <2>5. ASSUME NEW q \in shown, parent[q] \in ToSet(pid_list')
        PROVE  q \in ToSet(Found)
    <3>1. CASE parent[q] \in ToSet(pid_list)
      BY <3>1 DEF CoverInv
    <3>2. CASE parent[q] = front
      <4>1. q # Mother
        BY <1>0, <2>2, <3>2, PidsAssumption
      <4>2. q \in ChildrenFile(front)
        BY <1>a, <3>2, <4>1 DEF ChildrenFile, ChildrenOf
      <4> QED BY <2>1, <4>2, FileRead DEF CoverInv
    <3> QED BY <2>4, <2>5, <3>1, <3>2
  <2>6. Generated(shown)' /\ Spared' /\ entries' \subseteq ToSet(Found)'
    BY <2>1 DEF CoverInv, Generated, Spared
  <2> QED BY <2>1, <2>3, <2>5, <2>6 DEF CoverInv, Exists, ParentRuns
<1>7. CASE EndScan \/ UNCHANGED vars
  <2>1. UNCHANGED <<st, parent, visible, unprocessed_pids, pid_list, entries, shown>>
    BY <1>7 DEF EndScan, vars, treeVars, scanVars, histVars
  <2>2. Found' = Found
    BY <2>1 DEF Found
  <2>3. Spared' /\ Generated(shown)'
    BY <2>1 DEF CoverInv, Spared, front, ChildrenFile, ChildrenOf, Exists, Generated
  <2> QED BY <2>1, <2>2, <2>3 DEF CoverInv, Exists, ParentRuns
<1> QED BY <1>1, <1>2, <1>3, <1>4, <1>5, <1>6, <1>7, <1>8
        DEF Next, TreeNext, ScanNext, Terminated

LEMMA CoverAll ==
  ScanInv /\ CoverInv /\ unprocessed_pids = <<>> => shown \subseteq ToSet(pid_list)
<1> SUFFICES ASSUME ScanInv, CoverInv, unprocessed_pids = <<>>
             PROVE  shown \subseteq ToSet(pid_list)
  OBVIOUS
<1>1. Found = pid_list
  BY DEF Found, ScanInv
<1>2. ToSet(pid_list) \in SUBSET Pids
  BY DEF ToSet, ScanInv
<1> QED BY <1>1, <1>2 DEF CoverInv, Generated

LEMMA CoverCovers == ScanInv /\ CoverInv => ShownTreeCovered
BY CoverAll DEF ShownTreeCovered

\* Whatever else happens during the walk, nobody whom the children files led
\* to when it began is missing from the list unless it exited, lost an
\* ancestor, or it or an ancestor was still to be read from a children file
\* when a process already read from that file was waited for.
THEOREM ShownTreeCoveredCorrect == Spec => []ShownTreeCovered
<1>1. Spec => []CoverInv
  BY CoverInit, CoverStep, ScanInvAlways, PTL DEF Spec
<1> QED BY <1>1, CoverCovers, ScanInvAlways, PTL

---------------------------------------------------------------------------
(* Sums over all processes.                                                *)

\* The numbers w of all processes add up to at most s.
SumAtMost(w, s) == SumOver(w, Pids) <= s

LEMMA AllSum ==
  ASSUME NEW w \in [Pids -> Nat]
  PROVE  /\ SumOver(w, Pids) \in Nat
         /\ \A p \in Pids : SumOver(w, Pids) = w[p] + SumOver(w, Pids \ {p})
<1>1. IsFiniteSet(Pids) /\ \A p \in Pids : w[p] \in Nat
  BY PidsAssumption
<1> QED BY <1>1, SumOverLaws

LEMMA SumZero ==
  ASSUME NEW w \in [Pids -> Nat], \A p \in Pids : w[p] = 0 PROVE SumAtMost(w, 0)
<1>1. /\ IsFiniteSet(Pids) /\ IsFiniteSet({})
      /\ \A p \in Pids : w[p] \in Nat /\ w[p] = 0
  BY PidsAssumption, FS_EmptySet
<1>2. SumOver(w, Pids) <= SumOver(w, {})
  BY <1>1, SumOverCompare
<1> QED BY <1>2, SumOverEmpty DEF SumAtMost

LEMMA SumNat ==
  ASSUME NEW w \in [Pids -> Nat], NEW s \in Int, SumAtMost(w, s) PROVE s >= 0
BY AllSum DEF SumAtMost

\* Smaller numbers, larger bound.
LEMMA SumWeaken ==
  ASSUME NEW w \in [Pids -> Nat], NEW v \in [Pids -> Nat],
         NEW s \in Int, NEW t \in Int,
         SumAtMost(w, s), \A p \in Pids : v[p] <= w[p], s <= t
  PROVE  SumAtMost(v, t)
<1>1. /\ IsFiniteSet(Pids)
      /\ \A p \in Pids : v[p] \in Nat /\ w[p] \in Nat /\ v[p] <= w[p]
  BY PidsAssumption
<1>2. SumOver(v, Pids) <= SumOver(w, Pids)
  BY <1>1, SumOverCompare
<1>3. SumOver(v, Pids) \in Nat /\ SumOver(w, Pids) \in Nat
  BY AllSum
<1> QED BY <1>2, <1>3 DEF SumAtMost

\* One number changes, and the bound with it.
LEMMA SumUpdate ==
  ASSUME NEW w \in [Pids -> Nat], NEW s \in Int, SumAtMost(w, s),
         NEW p \in Pids, NEW x \in Nat
  PROVE  SumAtMost([w EXCEPT ![p] = x], s - w[p] + x)
<1>1. PICK v : v = [w EXCEPT ![p] = x]
  OBVIOUS
<1>2. v \in [Pids -> Nat] /\ v[p] = x /\ \A q \in Pids \ {p} : w[q] = v[q]
  BY <1>1
<1>3. IsFiniteSet(Pids \ {p}) /\ \A q \in Pids \ {p} : w[q] \in Nat
  BY PidsAssumption, FS_Subset
<1>4. SumOver(w, Pids \ {p}) = SumOver(v, Pids \ {p})
  BY <1>2, <1>3, SumOverAgree
<1>5. SumOver(w, Pids \ {p}) \in Nat
  BY <1>3, SumOverLaws
<1>6. /\ SumOver(w, Pids) = w[p] + SumOver(w, Pids \ {p})
      /\ SumOver(v, Pids) = x + SumOver(v, Pids \ {p})
  BY <1>2, AllSum
<1>7. w[p] \in Nat /\ SumOver(w, Pids) <= s
  BY DEF SumAtMost
<1>8. SumOver(v, Pids) <= s - w[p] + x
  BY <1>4, <1>5, <1>6, <1>7
<1> QED BY <1>1, <1>8 DEF SumAtMost

---------------------------------------------------------------------------
(* Types.                                                                  *)

NumbersOK == own \in [Pids -> Nat] /\ waited \in [Pids -> Nat] /\ metric \in Metrics

LEMMA ReadingType == NumbersOK => \A p \in Pids : Reading(p) \in Nat
<1> SUFFICES ASSUME NumbersOK, NEW p \in Pids PROVE Reading(p) \in Nat
  OBVIOUS
<1>1. /\ own[p] \in Nat /\ own[p] + waited[p] \in Nat
      /\ metric \in Counters \cup Gauges
  BY SumsAssumption DEF NumbersOK
<1> QED BY <1>1 DEF Reading, cpumon_reads, iomon_reads, memmon_reads,
                    countmon_reads, Counters, Gauges, CountMetrics

\* What a step of the processes leaves alone, and how it may move parents.
TreeMoves ==
  /\ TreeTypeOK'
  /\ \A p \in Pids : st[p] # "unborn" => st'[p] # "unborn"
  /\ \A p \in Pids : st[p] # "unborn" =>
        \/ parent'[p] = parent[p]
        \/ parent'[p] = Outside
        \/ parent[p] # Outside /\ parent'[p] = Mother
  /\ parent'[Mother] = Outside
  /\ UNCHANGED <<scanning, unprocessed_pids, pid_list, entries>>

MotherBorn == st[Mother] # "unborn" /\ parent[Mother] = Outside

World ==
  \/ \E p \in Pids : \/ Uses(p) \/ Resizes(p) \/ SumsEndsThread(p)
                     \/ WaitedFor(p) \/ Discarded(p)
  \/ \E p \in Pids, reaper \in {Mother, Outside} : SumsExits(p, reaper)
  \/ \E p, c \in Pids, byMain \in BOOLEAN : SumsForks(p, c, byMain)

LEMMA NotedType ==
  ASSUME SumsTypeOK, Noted, NumbersOK'
  PROVE  /\ UNCHANGED <<metric, modern_kernel, terse, next, total, stat, samples>>
         /\ quiet' \in BOOLEAN /\ lo' \in [Pids -> Nat] /\ hi' \in [Pids -> Nat]
<1>1. \A p \in Pids : Reading(p)' \in Nat
  <2>1. (NumbersOK => \A p \in Pids : Reading(p) \in Nat)'
    BY ReadingType, PTL
  <2> QED BY <2>1
<1>2. lo \in [Pids -> Nat] /\ hi \in [Pids -> Nat]
  BY DEF SumsTypeOK
<1>3. UNCHANGED <<metric, modern_kernel, terse, next, total, stat, samples>>
  BY DEF Noted, setupVars, sumVars
<1>4. quiet' \in BOOLEAN
  BY DEF Noted, Sampling
<1>5. CASE Sampling /\ metric \in Gauges
  <2>1. /\ lo' = [p \in Pids |-> IF Reading(p)' < lo[p] THEN Reading(p)' ELSE lo[p]]
        /\ hi' = [p \in Pids |-> IF Reading(p)' > hi[p] THEN Reading(p)' ELSE hi[p]]
    BY <1>5 DEF Noted
  <2> QED BY <1>1, <1>2, <1>3, <1>4, <2>1
<1>6. CASE ~(Sampling /\ metric \in Gauges)
  <2>1. UNCHANGED <<lo, hi>>
    BY <1>6 DEF Noted
  <2> QED BY <1>2, <1>3, <1>4, <2>1
<1> QED BY <1>5, <1>6

\* What all the steps of the processes have in common.
LEMMA WorldTree ==
  ASSUME SumsTypeOK, MotherBorn, World
  PROVE  TreeMoves /\ stayed' \subseteq Pids /\ shown' \subseteq Pids
<1>0. /\ st \in [Pids -> {"unborn", "running", "zombie", "gone"}]
      /\ parent \in [Pids -> Pids \cup {Outside}]
      /\ visible \in [Pids -> BOOLEAN]
      /\ stayed \subseteq Pids /\ shown \subseteq Pids
      /\ st[Mother] # "unborn" /\ parent[Mother] = Outside
  BY DEF SumsTypeOK, TypeOK, TreeTypeOK, MotherBorn
<1>1. ASSUME UNCHANGED vars
      PROVE  TreeMoves /\ stayed' \subseteq Pids /\ shown' \subseteq Pids
  BY <1>0, <1>1 DEF vars, treeVars, scanVars, histVars, TreeMoves, TreeTypeOK
<1>2. ASSUME NEW p \in Pids, EndsThread(p)
      PROVE  TreeMoves /\ stayed' \subseteq Pids /\ shown' \subseteq Pids
  BY <1>0, <1>2 DEF EndsThread, ThreadEnds, scanVars, histVars, TreeMoves, TreeTypeOK
<1>3. ASSUME NEW p \in Pids, IsReaped(p)
      PROVE  TreeMoves /\ stayed' \subseteq Pids /\ shown' \subseteq Pids
  <2>1. /\ st' = [st EXCEPT ![p] = "gone"] /\ UNCHANGED <<parent, visible>>
        /\ UNCHANGED scanVars /\ stayed' \subseteq stayed /\ shown' \subseteq shown
    BY <1>3 DEF IsReaped, Reaped
  <2> QED BY <1>0, <2>1 DEF TreeMoves, TreeTypeOK, scanVars
<1>4. ASSUME NEW p \in Pids, NEW reaper \in {Mother, Outside}, Exits(p, reaper)
      PROVE  TreeMoves /\ stayed' \subseteq Pids /\ shown' \subseteq Pids
  <2>1. /\ st' = [st EXCEPT ![p] = "zombie"]
        /\ parent' = [c \in Pids |-> IF parent[c] = p THEN reaper ELSE parent[c]]
        /\ visible' = [c \in Pids |-> visible[c] \/ parent[c] = p]
        /\ UNCHANGED scanVars
        /\ stayed' = stayed \ Descendants(p) /\ shown' = shown \ Descendants(p)
    BY <1>4 DEF Exits, Exit
  <2>2. TreeTypeOK'
    BY <1>0, <1>4, <2>1, PidsAssumption DEF TreeTypeOK
  <2> QED BY <1>0, <1>4, <2>1, <2>2, PidsAssumption DEF TreeMoves, scanVars
<1>5. ASSUME NEW p \in Pids, NEW c \in Pids, NEW byMain \in BOOLEAN, Forks(p, c, byMain)
      PROVE  TreeMoves /\ stayed' \subseteq Pids /\ shown' \subseteq Pids
  <2>1. /\ st[c] = "unborn" /\ st' = [st EXCEPT ![c] = "running"]
        /\ parent' = [parent EXCEPT ![c] = p]
        /\ visible' = [visible EXCEPT ![c] = byMain]
        /\ UNCHANGED scanVars /\ UNCHANGED <<stayed, shown>>
    BY <1>5 DEF Forks, Fork, histVars
  <2>2. TreeTypeOK'
    BY <1>0, <2>1 DEF TreeTypeOK
  <2> QED BY <1>0, <2>1, <2>2, PidsAssumption DEF TreeMoves, scanVars
<1> QED BY <1>1, <1>2, <1>3, <1>4, <1>5 DEF World, Uses, Resizes, SumsEndsThread,
          WaitedFor, Discarded, SumsExits, SumsForks
LEMMA WorldNumbers ==
  ASSUME SumsTypeOK, World
  PROVE  NumbersOK' /\ used' \in Nat /\ lossless' \in BOOLEAN /\ Noted
<1>0. /\ own \in [Pids -> Nat] /\ waited \in [Pids -> Nat] /\ used \in Nat
      /\ lossless \in BOOLEAN /\ MaxUse \in Nat /\ metric \in Metrics
      /\ parent \in [Pids -> Pids \cup {Outside}]
  BY SumsAssumption DEF SumsTypeOK, TypeOK, TreeTypeOK
<1>a. Noted
  BY DEF World, Uses, Resizes, SumsEndsThread, WaitedFor, Discarded, SumsExits, SumsForks
<1>b. metric' = metric
  BY <1>a DEF Noted, setupVars
<1>1. ASSUME NEW p \in Pids, Uses(p)
      PROVE  NumbersOK' /\ used' \in Nat /\ lossless' \in BOOLEAN
  BY <1>0, <1>b, <1>1 DEF Uses, NumbersOK
<1>2. ASSUME NEW p \in Pids, Resizes(p)
      PROVE  NumbersOK' /\ used' \in Nat /\ lossless' \in BOOLEAN
  <2>1. PICK n \in 1..MaxUse : own' = [own EXCEPT ![p] = n]
    BY <1>2 DEF Resizes
  <2>2. UNCHANGED <<waited, used, lossless>> /\ n \in Nat
    BY <1>0, <1>2 DEF Resizes
  <2> QED BY <1>0, <1>b, <2>1, <2>2 DEF NumbersOK
<1>3. ASSUME NEW p \in Pids, SumsEndsThread(p)
      PROVE  NumbersOK' /\ used' \in Nat /\ lossless' \in BOOLEAN
  BY <1>0, <1>b, <1>3 DEF SumsEndsThread, kernelVars, NumbersOK
<1>4. ASSUME NEW c \in Pids, WaitedFor(c)
      PROVE  NumbersOK' /\ used' \in Nat /\ lossless' \in BOOLEAN
  <2>1. /\ own' = [own EXCEPT ![c] = 0] /\ used' = used
        /\ lossless' \in BOOLEAN
    BY <1>4 DEF WaitedFor, Loses
  <2>2. CASE parent[c] = Outside \/ metric \in Gauges
    <3>1. waited' = [waited EXCEPT ![c] = 0]
      BY <1>4, <2>2 DEF WaitedFor
    <3> QED BY <1>0, <1>b, <2>1, <3>1 DEF NumbersOK
  <2>3. CASE ~(parent[c] = Outside \/ metric \in Gauges)
    <3>1. /\ waited' = [waited EXCEPT ![parent[c]] = @ + own[c] + waited[c], ![c] = 0]
          /\ parent[c] \in Pids
      BY <1>0, <1>4, <2>3 DEF WaitedFor
    <3> QED BY <1>0, <1>b, <2>1, <3>1 DEF NumbersOK
  <2> QED BY <2>2, <2>3
<1>5. ASSUME NEW c \in Pids, Discarded(c)
      PROVE  NumbersOK' /\ used' \in Nat /\ lossless' \in BOOLEAN
  BY <1>0, <1>b, <1>5 DEF Discarded, Loses, NumbersOK
<1>6. ASSUME NEW p \in Pids, NEW reaper \in {Mother, Outside}, SumsExits(p, reaper)
      PROVE  NumbersOK' /\ used' \in Nat /\ lossless' \in BOOLEAN
  <2>1. /\ UNCHANGED <<waited, used>> /\ lossless' \in BOOLEAN
        /\ \E n \in {0, 1, own[p]} : own' = [own EXCEPT ![p] = n]
    BY <1>6 DEF SumsExits, Loses
  <2> QED BY <1>0, <1>b, <2>1 DEF NumbersOK
<1>7. ASSUME NEW p \in Pids, NEW c \in Pids, NEW byMain \in BOOLEAN, SumsForks(p, c, byMain)
      PROVE  NumbersOK' /\ used' \in Nat /\ lossless' \in BOOLEAN
  <2>1. InitialOwn \in Nat
    BY DEF InitialOwn
  <2> QED BY <1>0, <1>b, <1>7, <2>1 DEF SumsForks, Loses, NumbersOK
<1> QED BY <1>a, <1>1, <1>2, <1>3, <1>4, <1>5, <1>6, <1>7 DEF World

LEMMA WorldType ==
  ASSUME SumsTypeOK, MotherBorn, World
  PROVE  SumsTypeOK'
<1>1. TreeMoves /\ stayed' \subseteq Pids /\ shown' \subseteq Pids
  BY WorldTree
<1>2. NumbersOK' /\ used' \in Nat /\ lossless' \in BOOLEAN /\ Noted
  BY WorldNumbers
<1>3. /\ UNCHANGED <<metric, modern_kernel, terse, next, total, stat, samples>>
      /\ quiet' \in BOOLEAN /\ lo' \in [Pids -> Nat] /\ hi' \in [Pids -> Nat]
  BY <1>2, NotedType
<1>4. P!MonitoredValueType' = P!MonitoredValueType
  BY DEF P!MonitoredValueType
<1> QED BY <1>1, <1>2, <1>3, <1>4
        DEF SumsTypeOK, TypeOK, TreeMoves, NumbersOK

---------------------------------------------------------------------------
(* The steps of the monitors.                                              *)

LEMMA ListedType ==
  ASSUME NEW l, NEW s \in Listed(l)
  PROVE  /\ s \in Seq(Pids)
         /\ \A i \in 1..Len(s) : s[i] \in Descendants(Mother)
         /\ \A i, j \in 1..Len(s) : i < j =>
              \E a, b \in DOMAIN l : a < b /\ l[a] = s[i] /\ l[b] = s[j]
<1> DEFINE S == {p \in Descendants(Mother) : Parsed(p)}
<1>1. S \in SUBSET Pids
  BY DescendantsClosed, PidsAssumption
<1>2. s \in Orders(S)
  BY DEF Listed
<1>3. s \in Seq(S)
  BY <1>1, <1>2, OrdersType
<1>4. DOMAIN s = 1..Len(s) /\ \A i \in 1..Len(s) : s[i] \in S
  BY <1>3
<1>5. s \in Seq(Pids)
  BY <1>1, <1>3
<1>6. \A i, j \in 1..Len(s) : i < j =>
              \E a, b \in DOMAIN l : a < b /\ l[a] = s[i] /\ l[b] = s[j]
  BY <1>4 DEF Listed
<1> QED BY <1>4, <1>5, <1>6

MonitorStep ==
  \/ SumsStartScan \/ SumsReads \/ PstreePids
  \/ SumsEndScan \/ ReadFile \/ SetStats

LEMMA SetValueType ==
  ASSUME NEW mv \in P!MonitoredValueType, NEW x \in Nat, NEW new, new = P!SetValue(mv, x)
  PROVE  /\ new \in P!MonitoredValueType
         /\ new.offset = mv.offset
         /\ mv.offset = 0 => new.value = mv.value \/ new.value = x
<1>0. /\ mv.value \in Nat /\ mv.max \in Nat /\ mv.summed \in Nat /\ mv.offset \in Nat
      /\ mv.iterations \in Nat /\ mv.monotonic \in BOOLEAN
  BY DEF P!MonitoredValueType
<1>1. CASE ~P!Accepts(mv, x)
  BY <1>1 DEF P!SetValue
<1>2. CASE P!Accepts(mv, x)
  <2> DEFINE v == x - mv.offset
  <2>1. v \in Nat /\ (mv.offset = 0 => v = x) /\ new = P!Recorded(mv, x)
    BY <1>0, <1>2 DEF P!Accepts, P!SetValue
  <2>2. CASE mv.monotonic
    <3>1. new = [mv EXCEPT !.value = v, !.max = v]
      BY <2>1, <2>2 DEF P!Recorded
    <3> HIDE DEF v
    <3> QED BY <2>1, <3>1 DEF P!MonitoredValueType
  <2>3. CASE ~mv.monotonic
    <3> DEFINE m == IF v > mv.max THEN v ELSE mv.max
               u == mv.summed + v
               k == mv.iterations + 1
    <3>1. new = [mv EXCEPT !.value = v, !.max = m, !.summed = u, !.iterations = k]
      BY <2>1, <2>3 DEF P!Recorded
    <3>2. m \in Nat /\ u \in Nat /\ k \in Nat
      BY <1>0, <2>1
    <3> HIDE DEF v, m, u, k
    <3> QED BY <2>1, <3>1, <3>2 DEF P!MonitoredValueType
  <2> QED BY <2>2, <2>3
<1> QED BY <1>1, <1>2

LEMMA BeginType ==
  ASSUME SumsTypeOK, BeginSample
  PROVE  quiet' \in BOOLEAN /\ lo' \in [Pids -> Nat] /\ hi' \in [Pids -> Nat]
<1>1. \A p \in Pids : Reading(p) \in Nat
  BY ReadingType DEF SumsTypeOK, NumbersOK
<1>2. /\ lo' = IF metric \in Gauges THEN [p \in Pids |-> Reading(p)] ELSE Zero
      /\ hi' = lo' /\ quiet' = TRUE
  BY DEF BeginSample
<1> QED BY <1>1, <1>2 DEF Zero

LEMMA MonitorType ==
  ASSUME SumsTypeOK, MonitorStep PROVE SumsTypeOK'
<1>0. /\ unprocessed_pids \in Seq(Pids) /\ pid_list \in Seq(Pids) /\ scanning \in BOOLEAN
      /\ next \in 0..(Len(pid_list) + 1) /\ total \in Nat /\ samples \in Nat
      /\ stat \in P!MonitoredValueType /\ metric \in Metrics
      /\ entries \subseteq Pids
  BY DEF SumsTypeOK, TypeOK
<1>b. \A p \in Pids : Reading(p) \in Nat
  BY ReadingType DEF SumsTypeOK, NumbersOK
<1>c. P!MonitoredValueType' = P!MonitoredValueType
  BY DEF P!MonitoredValueType
<1>d. /\ Descendants(Mother) \in SUBSET Pids
      /\ ShownDescendants(Mother) \in SUBSET Pids
  BY DescendantsClosed, ShownType, PidsAssumption
<1>1. CASE SumsStartScan
  <2>1. quiet' \in BOOLEAN /\ lo' \in [Pids -> Nat] /\ hi' \in [Pids -> Nat]
    BY <1>1, BeginType DEF SumsStartScan
  <2>2. unprocessed_pids' \in Seq(Pids) /\ pid_list' \in Seq(Pids) /\ next = 0
        /\ entries' = {}
    BY <1>1, PidsAssumption DEF SumsStartScan, StartScan, BeginSample
  <2>3. stayed' \subseteq Pids /\ shown' \subseteq Pids /\ scanning' = TRUE
    BY <1>1, <1>d DEF SumsStartScan, StartScan
  <2>4. /\ UNCHANGED <<metric, modern_kernel, terse, own, waited, used>>
        /\ UNCHANGED <<next, total, stat, samples, lossless, st, parent, visible>>
    BY <1>1 DEF SumsStartScan, StartScan, BeginSample, setupVars, kernelVars, sumVars,
                treeVars
  <2>5. next' \in 0..(Len(pid_list') + 1)
    BY <2>2, <2>4
  <2> QED BY <1>c, <2>1, <2>2, <2>3, <2>4, <2>5 DEF SumsTypeOK, TypeOK, TreeTypeOK
<1>2. CASE SumsReads
  <2>1. /\ UNCHANGED <<metric, modern_kernel, terse, own, waited, used>>
        /\ UNCHANGED <<next, total, stat, samples, lossless, quiet, lo, hi>>
        /\ UNCHANGED <<st, parent, visible, scanning, stayed, shown>>
    BY <1>2 DEF SumsReads, ReadChild, EndOfFile, setupVars, kernelVars, sumVars, spanVars,
                treeVars, histVars
  <2>2. CASE ReadChild
    <3>1. PICK c \in Pids : /\ unprocessed_pids' = Append(unprocessed_pids, c)
                            /\ entries' = entries \cup {c}
      BY <2>2 DEF ReadChild, Unreturned, ChildrenFile, ChildrenOf
    <3>2. /\ unprocessed_pids' \in Seq(Pids) /\ pid_list' \in Seq(Pids)
          /\ entries' \subseteq Pids /\ next' \in 0..(Len(pid_list') + 1)
      BY <1>0, <2>1, <2>2, <3>1 DEF ReadChild
    <3> QED BY <1>c, <2>1, <3>2 DEF SumsTypeOK, TypeOK, TreeTypeOK
  <2>3. CASE EndOfFile
    <3>1. /\ unprocessed_pids # <<>> /\ pid_list' = Append(pid_list, Head(unprocessed_pids))
          /\ unprocessed_pids' = Tail(unprocessed_pids) /\ entries' = {}
      BY <2>3 DEF EndOfFile, front
    <3>2. /\ unprocessed_pids' \in Seq(Pids) /\ pid_list' \in Seq(Pids)
          /\ next' \in 0..(Len(pid_list') + 1)
      BY <1>0, <2>1, <3>1
    <3> QED BY <1>c, <2>1, <3>1, <3>2 DEF SumsTypeOK, TypeOK, TreeTypeOK
  <2> QED BY <1>2, <2>2, <2>3 DEF SumsReads
<1>3. CASE PstreePids
  <2>1. quiet' \in BOOLEAN /\ lo' \in [Pids -> Nat] /\ hi' \in [Pids -> Nat]
    BY <1>3, BeginType DEF PstreePids
  <2>2. /\ unprocessed_pids' = <<>> /\ next = 0 /\ scanning' = TRUE /\ entries' = {}
        /\ UNCHANGED <<metric, modern_kernel, terse, own, waited, used>>
        /\ UNCHANGED <<next, total, stat, samples, lossless, st, parent, visible>>
    BY <1>3 DEF PstreePids, BeginSample, setupVars, kernelVars, sumVars, treeVars
  <2>3. pid_list' \in Seq(Pids) /\ stayed' \subseteq Pids /\ shown' \subseteq Pids
    <3>1. CASE \E l \in PstreeOutputs : pid_list' \in Listed(l)
      <4>1. PICK l \in PstreeOutputs : pid_list' \in Listed(l)
        BY <3>1
      <4>2. pid_list' \in Seq(Pids)
        BY <4>1, ListedType
      <4> QED BY <1>3, <1>d, <4>2 DEF PstreePids
    <3>2. CASE pid_list' = <<>>
      BY <1>3, <1>d, <3>2 DEF PstreePids
    <3> QED BY <1>3, <3>1, <3>2 DEF PstreePids
  <2>4. next' \in 0..(Len(pid_list') + 1)
    BY <2>2, <2>3
  <2> QED BY <1>c, <2>1, <2>2, <2>3, <2>4 DEF SumsTypeOK, TypeOK, TreeTypeOK
<1>4. CASE SumsEndScan
  <2>1. /\ UNCHANGED <<metric, modern_kernel, terse, own, waited, used>>
        /\ UNCHANGED <<total, stat, samples, lossless, st, parent, visible>>
        /\ UNCHANGED <<unprocessed_pids, pid_list, entries, stayed, shown, quiet, lo, hi>>
        /\ next' = 1 /\ scanning' = FALSE
    BY <1>4 DEF SumsEndScan, EndScan, setupVars, kernelVars, treeVars, histVars, spanVars
  <2>2. next' \in 0..(Len(pid_list') + 1)
    BY <1>0, <2>1
  <2> QED BY <1>c, <2>1, <2>2 DEF SumsTypeOK, TypeOK, TreeTypeOK
<1>5. CASE ReadFile
  <2>1. /\ UNCHANGED <<metric, modern_kernel, terse, own, waited, used>>
        /\ UNCHANGED <<stat, samples, lossless, st, parent, visible>>
        /\ UNCHANGED <<scanning, unprocessed_pids, pid_list, entries, stayed, shown, quiet, lo, hi>>
        /\ next \in 1..Len(pid_list) /\ next' = next + 1
        /\ total' = total + Reading(pid_list[next])
    BY <1>5 DEF ReadFile, vars, setupVars, kernelVars, treeVars, scanVars, histVars, spanVars
  <2>2. next' \in 0..(Len(pid_list') + 1) /\ pid_list[next] \in Pids
    BY <1>0, <2>1
  <2>3. total' \in Nat
    BY <1>0, <1>b, <2>1, <2>2
  <2> QED BY <1>c, <2>1, <2>2, <2>3 DEF SumsTypeOK, TypeOK, TreeTypeOK
<1>6. CASE SetStats
  <2>1. /\ UNCHANGED <<metric, modern_kernel, terse, own, waited, used>>
        /\ UNCHANGED <<lossless, st, parent, visible, scanning, unprocessed_pids, entries>>
        /\ pid_list' = <<>> /\ stayed' = {} /\ shown' = {}
        /\ quiet' = TRUE /\ lo' = Zero /\ hi' = Zero
        /\ next' = 0 /\ samples' = samples + 1 /\ total' = 0
        /\ stat' = P!SetValue(stat, total \div Unit)
    BY <1>6 DEF SetStats, Report, setupVars, kernelVars, treeVars
  <2>2. Unit \in Nat /\ Unit > 0
    BY SumsAssumption DEF Unit
  <2>3. total \div Unit \in Nat
    BY <1>0, <2>2
  <2>4. stat' \in P!MonitoredValueType
    BY <1>0, <2>1, <2>3, SetValueType
  <2>5. lo' \in [Pids -> Nat] /\ hi' \in [Pids -> Nat] /\ samples' \in Nat
        /\ next' \in 0..(Len(pid_list') + 1) /\ pid_list' \in Seq(Pids)
    BY <1>0, <2>1 DEF Zero
  <2> QED BY <1>c, <2>1, <2>4, <2>5 DEF SumsTypeOK, TypeOK, TreeTypeOK
<1> QED BY <1>1, <1>2, <1>3, <1>4, <1>5, <1>6 DEF MonitorStep
---------------------------------------------------------------------------
(* Nothing is reported that was not used.                                  *)

\* What the file of p would show, whether p exists or not.
Count == [p \in Pids |-> own[p] + waited[p]]

\* A ranking r of the processes from which the list was made (rank 0 for all
\* others): the list goes up in rank, and a process ranks above its parent.
\* For offspring_pids the rank is the position in the list; pstree_pids may
\* have dropped lines, and the dropped process keeps its rank.
Ranked(r) ==
  /\ r \in [Pids -> Nat]
  /\ \A p \in Pids : r[p] > 0 =>
       /\ st[p] # "unborn"
       /\ r[Mother] = 1 /\ (p # Mother => r[p] > 1)
       /\ parent[p] = Outside \/ (r[parent[p]] > 0 /\ r[parent[p]] < r[p])
  /\ \A i \in 1..Len(pid_list) : r[pid_list[i]] > 0
  /\ \A i, j \in 1..Len(pid_list) : i < j => r[pid_list[i]] < r[pid_list[j]]

\* The rank of the process read last, and what has not been counted yet: all
\* that is in processes of higher rank or of none.
LastRank(r) == IF next > 1 THEN r[pid_list[next-1]] ELSE 0
Passed(r) == {p \in Pids : r[p] > 0 /\ r[p] <= LastRank(r)}
Unread(r) == [p \in Pids |-> IF p \in Passed(r) THEN 0 ELSE Count[p]]

ListInv ==
  /\ SumsTypeOK /\ MotherBorn
  /\ scanning => next = 0
  /\ next = 0 => total = 0
  /\ ~scanning => unprocessed_pids = <<>>
  /\ ~scanning /\ next = 0 => pid_list = <<>>
  /\ modern_kernel => ScanInv
  /\ unprocessed_pids = <<>> => \E r : Ranked(r)
  /\ ~modern_kernel => unprocessed_pids = <<>>

CountInv == metric \in Counters =>
  /\ stat.offset = 0 /\ stat.value * Unit <= used
  /\ SumAtMost(Count, used)
  /\ next > 0 => \E r : Ranked(r) /\ SumAtMost(Unread(r), used - total)

LEMMA RankedMoves ==
  ASSUME SumsTypeOK, TreeMoves, MotherBorn, NEW r, Ranked(r)
  PROVE  Ranked(r)'
<1>0. /\ parent \in [Pids -> Pids \cup {Outside}] /\ pid_list' = pid_list
      /\ pid_list \in Seq(Pids) /\ Mother \in Pids
      /\ r \in [Pids -> Nat]
  BY PidsAssumption DEF SumsTypeOK, TypeOK, TreeTypeOK, TreeMoves, Ranked
<1>1. ASSUME NEW p \in Pids, r[p] > 0
      PROVE  /\ st'[p] # "unborn"
             /\ r[Mother] = 1 /\ (p # Mother => r[p] > 1)
             /\ parent'[p] = Outside \/ (r[parent'[p]] > 0 /\ r[parent'[p]] < r[p])
  <2>1. /\ st[p] # "unborn" /\ r[Mother] = 1 /\ (p # Mother => r[p] > 1)
        /\ parent[p] = Outside \/ (r[parent[p]] > 0 /\ r[parent[p]] < r[p])
    BY <1>1 DEF Ranked
  <2>2. /\ st'[p] # "unborn"
        /\ \/ parent'[p] = parent[p]
           \/ parent'[p] = Outside
           \/ parent[p] # Outside /\ parent'[p] = Mother
    BY <2>1 DEF TreeMoves
  <2>3. CASE parent'[p] = parent[p] \/ parent'[p] = Outside
    BY <2>1, <2>2, <2>3
  <2>4. CASE parent[p] # Outside /\ parent'[p] = Mother
    <3>1. p # Mother
      BY <2>4 DEF MotherBorn
    <3> QED BY <1>0, <2>1, <2>2, <2>4, <3>1
  <2> QED BY <2>2, <2>3, <2>4
<1> QED BY <1>0, <1>1 DEF Ranked

\* The order in which offspring_pids finds processes is a ranking.
LEMMA ScanRanked ==
  ASSUME ScanInv, unprocessed_pids = <<>> PROVE \E r : Ranked(r)
<1> DEFINE N == Len(pid_list)
<1>1. /\ pid_list \in Seq(Pids) /\ N \in Nat /\ Found = pid_list
      /\ parent \in [Pids -> Pids \cup {Outside}]
  BY DEF ScanInv, Found, TreeTypeOK
<1>2. /\ \A i \in 1..N : pid_list[i] \in Pids
      /\ \A i, j \in 1..N : pid_list[i] = pid_list[j] => i = j
      /\ N > 0 => pid_list[1] = Mother
      /\ \A i \in 1..N : /\ st[pid_list[i]] # "unborn"
                         /\ \/ parent[pid_list[i]] = Outside
                            \/ \E k \in 1..N : k < i /\ parent[pid_list[i]] = pid_list[k]
  BY <1>1 DEF ScanInv, NoDuplicates, ParentRead
<1> HIDE DEF N
<1> DEFINE In(p) == \E i \in 1..N : pid_list[i] = p
           r == [p \in Pids |-> IF In(p) THEN CHOOSE i \in 1..N : pid_list[i] = p ELSE 0]
<1>3. ASSUME NEW i \in 1..N PROVE r[pid_list[i]] = i
  <2>1. pid_list[i] \in Pids /\ In(pid_list[i])
    BY <1>2
  <2>2. (CHOOSE k \in 1..N : pid_list[k] = pid_list[i]) = i
    BY <1>2
  <2> QED BY <2>1, <2>2
<1>4. ASSUME NEW p \in Pids PROVE r[p] \in Nat /\ (r[p] > 0 => In(p))
  <2>1. CASE In(p)
    <3>1. PICK i \in 1..N : pid_list[i] = p
      BY <2>1
    <3>2. r[p] = i /\ i \in Nat
      BY <1>1, <1>3, <3>1
    <3> QED BY <2>1, <3>2
  <2>2. CASE ~In(p)
    BY <2>2
  <2> QED BY <2>1, <2>2
<1>5. r \in [Pids -> Nat]
  BY <1>4
<1> HIDE DEF r
<1>6. ASSUME NEW p \in Pids, r[p] > 0
      PROVE  /\ st[p] # "unborn"
             /\ r[Mother] = 1 /\ (p # Mother => r[p] > 1)
             /\ parent[p] = Outside \/ (r[parent[p]] > 0 /\ r[parent[p]] < r[p])
  <2>1. PICK i \in 1..N : pid_list[i] = p
    BY <1>4, <1>6
  <2>2. r[p] = i /\ i \in Nat /\ 1 \in 1..N /\ N > 0 /\ i >= 1
    BY <1>1, <1>3, <2>1
  <2>3. pid_list[1] = Mother /\ r[Mother] = 1
    BY <1>2, <1>3, <2>2
  <2>4. p # Mother => r[p] > 1
    BY <2>1, <2>2, <2>3
  <2>5. CASE parent[p] = Outside
    BY <1>2, <2>1, <2>3, <2>4, <2>5
  <2>6. CASE parent[p] # Outside
    <3>1. PICK k \in 1..N : k < i /\ parent[p] = pid_list[k]
      BY <1>2, <2>1, <2>6
    <3>2. r[parent[p]] = k /\ k > 0
      BY <1>1, <1>3, <3>1
    <3> QED BY <1>2, <2>1, <2>2, <2>3, <2>4, <3>1, <3>2
  <2> QED BY <2>5, <2>6
<1>7. \A i \in 1..N : r[pid_list[i]] > 0
  BY <1>1, <1>3
<1>8. \A i, j \in 1..N : i < j => r[pid_list[i]] < r[pid_list[j]]
  BY <1>1, <1>3
<1>9. Ranked(r)
  BY <1>5, <1>6, <1>7, <1>8 DEF Ranked, N
<1> QED BY <1>9
\* So is the order in which pstree prints them.
LEMMA PstreeRanked ==
  ASSUME TreeTypeOK, MotherBorn, Exists(Mother), UNCHANGED <<st, parent>>,
         NEW l \in PstreeOutputs, pid_list' \in Listed(l)
  PROVE  \E r : Ranked(r)'
<1> DEFINE D == Descendants(Mother)
           N == Len(l)
<1>0. /\ Mother \in Pids /\ Outside \notin Pids
      /\ parent \in [Pids -> Pids \cup {Outside}]
  BY PidsAssumption DEF TreeTypeOK
<1>1. D \in SUBSET Pids /\ Mother \in D /\ \A q \in D : ChildrenOf(q) \subseteq D
  BY <1>0, DescendantsClosed
<1>2. \A q \in D : Exists(q)
  <2> DEFINE S == {q \in Pids : Exists(q)}
  <2>1. Mother \in S /\ \A q \in S : ChildrenOf(q) \subseteq S
    BY <1>0 DEF ChildrenOf
  <2> QED BY <1>0, <2>1, DescendantsLeast
<1>3. \A q \in D : q = Mother \/ parent[q] \in D
  <2> DEFINE S == {q \in D : q = Mother \/ parent[q] \in D}
  <2>1. S \in SUBSET Pids /\ Mother \in S
    BY <1>1
  <2>2. \A q \in S : ChildrenOf(q) \subseteq S
    BY <1>1 DEF ChildrenOf
  <2>3. D \subseteq S
    <3> HIDE DEF S
    <3> QED BY <1>0, <2>1, <2>2, DescendantsLeast
  <2> QED BY <2>3
<1>4. /\ l \in Seq(D) /\ \A i, j \in 1..N : l[i] = l[j] => i = j
      /\ D \subseteq ToSet(l)
  BY <1>1, OrdersType, OrdersOnto DEF PstreeOutputs
<1>5. /\ N \in Nat /\ DOMAIN l = 1..N /\ \A i \in 1..N : l[i] \in D
      /\ \A p \in D : \E i \in 1..N : l[i] = p
  BY <1>4 DEF ToSet
<1>6. \A i, j \in 1..N : parent[l[i]] = l[j] => j < i
  BY <1>5 DEF PstreeOutputs
<1>7. /\ pid_list' \in Seq(Pids)
      /\ \A i \in 1..Len(pid_list') : pid_list'[i] \in D
      /\ \A i, j \in 1..Len(pid_list') : i < j =>
           \E a, b \in 1..N : a < b /\ l[a] = pid_list'[i] /\ l[b] = pid_list'[j]
  <2>1. /\ pid_list' \in Seq(Pids)
        /\ \A i \in 1..Len(pid_list') : pid_list'[i] \in Descendants(Mother)
        /\ \A i, j \in 1..Len(pid_list') : i < j =>
             \E a, b \in DOMAIN l : a < b /\ l[a] = pid_list'[i] /\ l[b] = pid_list'[j]
    BY ListedType
  <2> QED BY <1>5, <2>1
<1> HIDE DEF N, D
<1>8. 1 \in 1..N /\ l[1] = Mother
  <2>1. 1 \in 1..N
    BY <1>1, <1>5
  <2>2. CASE l[1] # Mother
    <3>1. PICK j \in 1..N : l[j] = parent[l[1]]
      BY <1>3, <1>5, <2>1, <2>2
    <3> QED BY <1>5, <1>6, <2>1, <3>1
  <2> QED BY <2>1, <2>2
<1>r. PICK r : r = [p \in Pids |-> IF p \in D THEN CHOOSE i \in 1..N : l[i] = p ELSE 0]
  OBVIOUS
<1>9. ASSUME NEW i \in 1..N PROVE r[l[i]] = i
  <2>1. l[i] \in Pids /\ l[i] \in D
    BY <1>1, <1>5
  <2>2. (CHOOSE k \in 1..N : l[k] = l[i]) = i
    BY <1>4
  <2> QED BY <1>r, <2>1, <2>2
<1>10. ASSUME NEW p \in Pids PROVE r[p] \in Nat /\ (r[p] > 0 <=> p \in D)
  <2>1. CASE p \in D
    <3>1. PICK i \in 1..N : l[i] = p
      BY <1>5, <2>1
    <3>2. r[p] = i /\ i \in Nat /\ i > 0
      BY <1>5, <1>9, <3>1
    <3> QED BY <2>1, <3>2
  <2>2. CASE p \notin D
    BY <1>r, <2>2
  <2> QED BY <2>1, <2>2
<1>11. r \in [Pids -> Nat]
  BY <1>r, <1>10
<1>12. ASSUME NEW p \in Pids, r[p] > 0
       PROVE  /\ st'[p] # "unborn"
              /\ r[Mother] = 1 /\ (p # Mother => r[p] > 1)
              /\ parent'[p] = Outside \/ (r[parent'[p]] > 0 /\ r[parent'[p]] < r[p])
  <2>1. p \in D
    BY <1>10, <1>12
  <2>2. PICK i \in 1..N : l[i] = p
    BY <1>5, <2>1
  <2>3. r[p] = i /\ i \in Nat /\ i >= 1
    BY <1>5, <1>9, <2>2
  <2>4. r[Mother] = 1
    BY <1>8, <1>9
  <2>5. p # Mother => r[p] > 1
    BY <1>8, <2>2, <2>3
  <2>6. st'[p] # "unborn"
    BY <1>2, <2>1 DEF Exists
  <2>7. CASE p = Mother
    BY <2>4, <2>5, <2>6, <2>7 DEF MotherBorn
  <2>8. CASE p # Mother
    <3>1. PICK j \in 1..N : l[j] = parent[p]
      BY <1>3, <1>5, <2>1, <2>8
    <3>2. j < i /\ r[parent[p]] = j /\ j > 0
      BY <1>5, <1>6, <1>9, <2>2, <3>1
    <3> QED BY <2>3, <2>4, <2>5, <2>6, <3>2
  <2> QED BY <2>7, <2>8
<1>13. \A i \in 1..Len(pid_list') : r[pid_list'[i]] > 0
  BY <1>1, <1>7, <1>10
<1>14. \A i, j \in 1..Len(pid_list') : i < j => r[pid_list'[i]] < r[pid_list'[j]]
  BY <1>7, <1>9
<1>15. Ranked(r)'
  BY <1>11, <1>12, <1>13, <1>14 DEF Ranked
<1> QED BY <1>15

---------------------------------------------------------------------------
LEMMA EmptyRanked ==
  ASSUME pid_list' = <<>> PROVE \E r : Ranked(r)'
<1> DEFINE r == [p \in Pids |-> 0]
<1>1. r \in [Pids -> Nat] /\ \A p \in Pids : ~(r[p] > 0)
  OBVIOUS
<1>2. Len(pid_list') = 0
  OBVIOUS
<1> HIDE DEF r
<1>3. Ranked(r)'
  BY <1>1, <1>2 DEF Ranked
<1> QED BY <1>3

LEMMA ListInit == SumsInit => ListInv
<1> SUFFICES ASSUME SumsInit PROVE ListInv
  OBVIOUS
<1>1. Init /\ ScanInv
  BY ScanInit DEF SumsInit
<1>2. TypeOK /\ pid_list = <<>> /\ unprocessed_pids = <<>> /\ scanning = FALSE
  BY <1>1 DEF Init, TypeOK, ScanInv
<1>3. MotherBorn
  BY <1>1 DEF ScanInv, MotherBorn
<1>4. terse \subseteq Pids
  BY DEF SumsInit
<1>5. InitialOwn \in Nat
  BY DEF InitialOwn
<1>6. /\ own \in [Pids -> Nat] /\ waited \in [Pids -> Nat]
      /\ lo \in [Pids -> Nat] /\ hi \in [Pids -> Nat]
  BY <1>5 DEF SumsInit, Zero
<1>7. stat \in P!MonitoredValueType
  BY DEF SumsInit, P!MonitoredValueType, P!NewMonitoredValue
<1>8. SumsTypeOK
  BY <1>2, <1>4, <1>6, <1>7 DEF SumsInit, SumsTypeOK
<1>9. \E r : Ranked(r)
  BY <1>1, <1>2, ScanRanked
<1> QED BY <1>1, <1>2, <1>3, <1>8, <1>9 DEF ListInv, SumsInit

LEMMA WorldIsNext == World => [Next]_vars
BY DEF World, Uses, Resizes, SumsEndsThread, WaitedFor, Discarded, SumsExits,
       SumsForks, Next, TreeNext

LEMMA ListStep == ListInv /\ [SumsNext]_allVars => ListInv'
<1> SUFFICES ASSUME ListInv, [SumsNext]_allVars PROVE ListInv'
  OBVIOUS
<1>0. /\ SumsTypeOK /\ MotherBorn /\ scanning \in BOOLEAN
      /\ unprocessed_pids \in Seq(Pids) /\ pid_list \in Seq(Pids)
  BY DEF ListInv, SumsTypeOK, TypeOK
<1>1. CASE World
  <2>1. SumsTypeOK' /\ TreeMoves
    BY <1>0, <1>1, WorldType, WorldTree
  <2>2. /\ UNCHANGED <<scanning, unprocessed_pids, pid_list>> /\ MotherBorn'
    BY <1>0, <2>1, PidsAssumption DEF TreeMoves, MotherBorn
  <2>3. UNCHANGED <<modern_kernel, next, total>>
    BY <1>0, <1>1, WorldNumbers, NotedType
  <2>4. modern_kernel => ScanInv'
    BY <1>1, WorldIsNext, ScanStep DEF ListInv
  <2>5. unprocessed_pids = <<>> => \E r : Ranked(r)'
    BY <1>0, <2>1, RankedMoves DEF ListInv
  <2> QED BY <2>1, <2>2, <2>3, <2>4, <2>5 DEF ListInv
<1>2. ASSUME MonitorStep PROVE SumsTypeOK'
  BY <1>0, <1>2, MonitorType
<1>3. CASE SumsStartScan
  <2>1. SumsTypeOK'
    BY <1>2, <1>3 DEF MonitorStep
  <2>2. /\ UNCHANGED <<st, parent, modern_kernel, next, total>>
        /\ modern_kernel /\ StartScan /\ scanning' = TRUE /\ next = 0
        /\ unprocessed_pids' = <<Mother>>
    BY <1>3 DEF SumsStartScan, StartScan, BeginSample, setupVars, sumVars, treeVars
  <2>3. ScanInv'
    BY <2>2, ScanStep DEF ListInv, Next, ScanNext
  <2>4. unprocessed_pids' # <<>>
    BY <2>2
  <2> QED BY <1>0, <2>1, <2>2, <2>3, <2>4 DEF ListInv, MotherBorn
<1>4. CASE SumsReads
  <2>1. SumsTypeOK'
    BY <1>2, <1>4 DEF MonitorStep
  <2>2. /\ UNCHANGED <<st, parent, modern_kernel, next, total, scanning>>
        /\ ReadChild \/ EndOfFile
        /\ unprocessed_pids # <<>> /\ scanning
    BY <1>4 DEF SumsReads, ReadChild, EndOfFile, setupVars, sumVars, treeVars
  <2>3. modern_kernel /\ ScanInv'
    BY <2>2, ScanStep DEF ListInv, Next, ScanNext
  <2>4. unprocessed_pids' = <<>> => \E r : Ranked(r)'
    <3>1. (ScanInv /\ unprocessed_pids = <<>> => \E r : Ranked(r))'
      BY ScanRanked, PTL
    <3> QED BY <2>3, <3>1
  <2> QED BY <1>0, <2>1, <2>2, <2>3, <2>4 DEF ListInv, MotherBorn
<1>5. CASE PstreePids
  <2>1. SumsTypeOK'
    BY <1>2, <1>5 DEF MonitorStep
  <2>2. /\ UNCHANGED <<st, parent, modern_kernel, next, total>>
        /\ ~modern_kernel /\ scanning' = TRUE /\ next = 0
        /\ unprocessed_pids' = <<>> /\ Exists(Mother)
    BY <1>5 DEF PstreePids, BeginSample, setupVars, sumVars, treeVars
  <2>3. \E r : Ranked(r)'
    <3>1. CASE \E l \in PstreeOutputs : pid_list' \in Listed(l)
      <4>1. TreeTypeOK
        BY <1>0 DEF SumsTypeOK, TypeOK
      <4> QED BY <1>0, <2>2, <3>1, <4>1, PstreeRanked
    <3>2. CASE pid_list' = <<>>
      BY <3>2, EmptyRanked
    <3> QED BY <1>5, <3>1, <3>2 DEF PstreePids
  <2> QED BY <1>0, <2>1, <2>2, <2>3 DEF ListInv, MotherBorn
<1>6. CASE SumsEndScan
  <2>1. SumsTypeOK'
    BY <1>2, <1>6 DEF MonitorStep
  <2>2. /\ UNCHANGED <<st, parent, modern_kernel, total, unprocessed_pids, pid_list>>
        /\ EndScan /\ next' = 1 /\ scanning' = FALSE /\ unprocessed_pids = <<>>
    BY <1>6 DEF SumsEndScan, EndScan, setupVars, treeVars
  <2>3. modern_kernel => ScanInv'
    BY <2>2, ScanStep DEF ListInv, Next, ScanNext
  <2>4. (\E r : Ranked(r)) => (\E r : Ranked(r)')
    BY <2>2 DEF Ranked
  <2> QED BY <1>0, <2>1, <2>2, <2>3, <2>4 DEF ListInv, MotherBorn
<1>7. CASE ReadFile
  <2>1. SumsTypeOK'
    BY <1>2, <1>7 DEF MonitorStep
  <2>2. /\ UNCHANGED <<st, parent, modern_kernel, unprocessed_pids, pid_list, scanning>>
        /\ UNCHANGED vars /\ next' = next + 1 /\ next \in 1..Len(pid_list)
    BY <1>7 DEF ReadFile, vars, setupVars, treeVars, scanVars
  <2>3. modern_kernel => ScanInv'
    BY <2>2, ScanStep DEF ListInv
  <2>4. (\E r : Ranked(r)) => (\E r : Ranked(r)')
    BY <2>2 DEF Ranked
  <2>5. next # 0 /\ next' # 0
    BY <1>0, <2>2
  <2> QED BY <1>0, <2>1, <2>2, <2>3, <2>4, <2>5 DEF ListInv, MotherBorn
<1>8. CASE SetStats
  <2>1. SumsTypeOK'
    BY <1>2, <1>8 DEF MonitorStep
  <2>2. /\ UNCHANGED <<st, parent, visible, modern_kernel, unprocessed_pids, scanning>>
        /\ pid_list' = <<>> /\ next' = 0 /\ total' = 0 /\ next = Len(pid_list) + 1
    BY <1>8 DEF SetStats, Report, setupVars, treeVars
  <2>3. next # 0 /\ ~scanning /\ unprocessed_pids = <<>>
    BY <1>0, <2>2 DEF ListInv
  <2>4. modern_kernel => ScanInv'
    <3>1. Found' = <<>> /\ entries' = entries
      BY <1>8, <2>2, <2>3 DEF Found, SetStats, Report
    <3> QED BY <2>2, <2>3, <3>1 DEF ListInv, ScanInv, TreeTypeOK, NoDuplicates
  <2>5. \E r : Ranked(r)'
    BY <2>2, EmptyRanked
  <2> QED BY <1>0, <2>1, <2>2, <2>3, <2>4, <2>5 DEF ListInv, MotherBorn
<1>9. CASE UNCHANGED allVars
  <2>1. /\ UNCHANGED vars /\ UNCHANGED <<st, parent, visible, stayed, shown>>
        /\ UNCHANGED <<scanning, unprocessed_pids, pid_list, entries, modern_kernel>>
        /\ UNCHANGED <<metric, terse, own, waited, used, next, total, stat, samples>>
        /\ UNCHANGED <<quiet, lossless, lo, hi>>
    BY <1>9 DEF allVars, vars, treeVars, scanVars, histVars, setupVars, kernelVars,
                sumVars, spanVars
  <2>2. SumsTypeOK'
    BY <1>0, <2>1 DEF SumsTypeOK, TypeOK, TreeTypeOK, P!MonitoredValueType
  <2>3. modern_kernel => ScanInv'
    BY <2>1, ScanStep DEF ListInv
  <2>4. (\E r : Ranked(r)) => (\E r : Ranked(r)')
    BY <2>1 DEF Ranked
  <2> QED BY <1>0, <2>1, <2>2, <2>3, <2>4 DEF ListInv, MotherBorn
<1> QED BY <1>1, <1>3, <1>4, <1>5, <1>6, <1>7, <1>8, <1>9
        DEF SumsNext, World, SumsTerminated
---------------------------------------------------------------------------
\* The numbers f, those of X left out.
Rest(f, X) == [p \in Pids |-> IF p \in X THEN 0 ELSE f[p]]

\* What the processes do to the numbers - lose some, use one unit, hand all of
\* c over to q - keeps the sum outside X within its bound, unless it carries
\* numbers out of X.
LEMMA SumMoves ==
  ASSUME NEW f \in [Pids -> Nat], NEW g \in [Pids -> Nat], NEW X \in SUBSET Pids,
         NEW s \in Int, NEW d \in Int, SumAtMost(Rest(f, X), s),
         \/ d = 0 /\ \A p \in Pids : g[p] <= f[p]
         \/ d = 1 /\ \E p \in Pids : g = [f EXCEPT ![p] = f[p] + 1]
         \/ d = 0 /\ \E c, q \in Pids :
              /\ c # q /\ (c \in X => q \in X)
              /\ g = [f EXCEPT ![c] = 0, ![q] = f[q] + f[c]]
  PROVE  SumAtMost(Rest(g, X), s + d)
<1>0. /\ Rest(f, X) \in [Pids -> Nat] /\ Rest(g, X) \in [Pids -> Nat]
      /\ s + d \in Int /\ s <= s + d
  BY DEF Rest
<1>1. ASSUME d = 0, \A p \in Pids : g[p] <= f[p]
      PROVE  SumAtMost(Rest(g, X), s + d)
  <2>1. \A p \in Pids : Rest(g, X)[p] <= Rest(f, X)[p]
    BY <1>1 DEF Rest
  <2> QED BY <1>0, <1>1, <2>1, SumWeaken
<1>2. ASSUME d = 1, NEW p \in Pids, g = [f EXCEPT ![p] = f[p] + 1]
      PROVE  SumAtMost(Rest(g, X), s + d)
  <2>1. CASE p \in X
    <3>1. \A q \in Pids : Rest(g, X)[q] <= Rest(f, X)[q]
      BY <1>2, <2>1 DEF Rest
    <3> QED BY <1>0, <3>1, SumWeaken
  <2>2. CASE p \notin X
    <3>1. /\ Rest(g, X) = [Rest(f, X) EXCEPT ![p] = f[p] + 1]
          /\ Rest(f, X)[p] = f[p] /\ f[p] \in Nat /\ f[p] + 1 \in Nat
      BY <1>2, <2>2 DEF Rest
    <3>2. SumAtMost([Rest(f, X) EXCEPT ![p] = f[p] + 1], s - Rest(f, X)[p] + (f[p] + 1))
      BY <1>0, <3>1, SumUpdate
    <3>3. s - f[p] + (f[p] + 1) = s + d
      BY <1>2, <3>1
    <3> QED BY <3>1, <3>2, <3>3
  <2> QED BY <2>1, <2>2
<1>3. ASSUME d = 0, NEW c \in Pids, NEW q \in Pids, c # q, c \in X => q \in X,
             g = [f EXCEPT ![c] = 0, ![q] = f[q] + f[c]]
      PROVE  SumAtMost(Rest(g, X), s + d)
  <2>0. f[c] \in Nat /\ f[q] \in Nat /\ f[q] + f[c] \in Nat
    OBVIOUS
  <2>1. CASE q \in X
    <3>1. \A p \in Pids : Rest(g, X)[p] <= Rest(f, X)[p]
      BY <1>3, <2>1 DEF Rest
    <3> QED BY <1>0, <3>1, SumWeaken
  <2>2. CASE q \notin X
    <3> DEFINE w == [Rest(f, X) EXCEPT ![c] = 0]
    <3>1. /\ w \in [Pids -> Nat] /\ w[q] = f[q] /\ Rest(f, X)[c] = f[c]
          /\ Rest(g, X) = [w EXCEPT ![q] = f[q] + f[c]]
      BY <1>3, <2>0, <2>2 DEF Rest
    <3>a. 0 \in Nat
      OBVIOUS
    <3>b. SumAtMost(w, s - Rest(f, X)[c] + 0)
      BY <1>0, <3>a, SumUpdate
    <3>2. SumAtMost(w, s - f[c] + 0)
      BY <3>1, <3>b
    <3> HIDE DEF w
    <3>3. SumAtMost([w EXCEPT ![q] = f[q] + f[c]], (s - f[c] + 0) - w[q] + (f[q] + f[c]))
      <4>1. s - f[c] + 0 \in Int
        BY <2>0
      <4> QED BY <2>0, <3>1, <3>2, <4>1, SumUpdate
    <3>4. (s - f[c] + 0) - f[q] + (f[q] + f[c]) = s + d
      BY <1>3, <2>0
    <3> QED BY <3>1, <3>3, <3>4
  <2> QED BY <2>1, <2>2
<1> QED BY <1>1, <1>2, <1>3

\* Each step of the processes is one of those.
LEMMA WorldCounts ==
  ASSUME SumsTypeOK, World, metric \in Counters
  PROVE  \/ used' - used = 0 /\ \A p \in Pids : Count'[p] <= Count[p]
         \/ /\ used' - used = 1
            /\ \E p \in Pids : Count' = [Count EXCEPT ![p] = Count[p] + 1]
         \/ /\ used' - used = 0
            /\ \E c, q \in Pids :
                 /\ c # q /\ parent[c] = q
                 /\ Count' = [Count EXCEPT ![c] = 0, ![q] = Count[q] + Count[c]]
<1> DEFINE Goal ==
         \/ used' - used = 0 /\ \A p \in Pids : Count'[p] <= Count[p]
         \/ /\ used' - used = 1
            /\ \E p \in Pids : Count' = [Count EXCEPT ![p] = Count[p] + 1]
         \/ /\ used' - used = 0
            /\ \E c, q \in Pids :
                 /\ c # q /\ parent[c] = q
                 /\ Count' = [Count EXCEPT ![c] = 0, ![q] = Count[q] + Count[c]]
<1>0. /\ own \in [Pids -> Nat] /\ waited \in [Pids -> Nat] /\ used \in Nat
      /\ parent \in [Pids -> Pids \cup {Outside}]
      /\ metric \notin Gauges /\ metric # "pss" /\ metric # "nthreads"
  BY DEF SumsTypeOK, TypeOK, TreeTypeOK, Counters, Gauges, CountMetrics
<1>1. ASSUME NEW p \in Pids, Uses(p) PROVE Goal
  <2>1. own' = [own EXCEPT ![p] = own[p] + 1] /\ waited' = waited /\ used' = used + 1
    BY <1>1 DEF Uses
  <2>a. \A q \in Pids : Count'[q] = IF q = p THEN Count[p] + 1 ELSE Count[q]
    BY <1>0, <2>1 DEF Count
  <2>2. Count' = [Count EXCEPT ![p] = Count[p] + 1]
    BY <2>a DEF Count
  <2>3. used' - used = 1
    BY <1>0, <2>1
  <2> QED BY <2>2, <2>3
<1>2. ASSUME NEW p \in Pids, Resizes(p) PROVE Goal
  BY <1>0, <1>2 DEF Resizes
<1>3. ASSUME NEW p \in Pids, SumsEndsThread(p) PROVE Goal
  <2>1. UNCHANGED <<own, waited, used>>
    BY <1>3 DEF SumsEndsThread, kernelVars
  <2>2. used' - used = 0 /\ \A q \in Pids : Count'[q] <= Count[q]
    BY <1>0, <2>1 DEF Count
  <2> QED BY <2>2
<1>4. ASSUME NEW c \in Pids, own' = [own EXCEPT ![c] = 0],
             waited' = [waited EXCEPT ![c] = 0], used' = used
      PROVE  Goal
  <2>1. used' - used = 0 /\ \A q \in Pids : Count'[q] <= Count[q]
    BY <1>0, <1>4 DEF Count
  <2> QED BY <2>1
<1>5. ASSUME NEW c \in Pids, WaitedFor(c) PROVE Goal
  <2>1. CASE parent[c] = Outside
    BY <1>4, <1>5, <2>1 DEF WaitedFor
  <2>2. CASE parent[c] # Outside
    <3>1. /\ own' = [own EXCEPT ![c] = 0] /\ used' = used /\ parent[c] \in Pids
          /\ waited' = [waited EXCEPT ![parent[c]] = waited[parent[c]] + own[c] + waited[c],
                                      ![c] = 0]
      BY <1>0, <1>5, <2>2 DEF WaitedFor
    <3>2. CASE parent[c] = c
      <4>1. waited' = [waited EXCEPT ![c] = 0]
        BY <1>0, <3>1, <3>2
      <4> QED BY <1>4, <3>1, <4>1
    <3>3. CASE parent[c] # c
      <4> DEFINE q == parent[c]
      <4>1. Count' = [Count EXCEPT ![c] = 0, ![q] = Count[q] + Count[c]]
        <5>1. \A x \in Pids : Count'[x] = IF x = c THEN 0
                                 ELSE IF x = q THEN Count[q] + Count[c] ELSE Count[x]
          BY <1>0, <3>1, <3>3 DEF Count
        <5>2. Count = [x \in Pids |-> Count[x]] /\ Count' = [x \in Pids |-> Count'[x]]
          BY DEF Count
        <5> QED BY <3>1, <3>3, <5>1, <5>2
      <4>2. used' - used = 0
        BY <1>0, <3>1
      <4> QED BY <3>1, <3>3, <4>1, <4>2
    <3> QED BY <3>2, <3>3
  <2> QED BY <2>1, <2>2
<1>6. ASSUME NEW c \in Pids, Discarded(c) PROVE Goal
  BY <1>4, <1>6 DEF Discarded
<1>7. ASSUME NEW p \in Pids, NEW reaper \in {Mother, Outside}, SumsExits(p, reaper) PROVE Goal
  <2>1. UNCHANGED <<waited, used>> /\ own' = own
    BY <1>0, <1>7 DEF SumsExits
  <2>2. used' - used = 0 /\ \A q \in Pids : Count'[q] <= Count[q]
    BY <1>0, <2>1 DEF Count
  <2> QED BY <2>2
<1>8. ASSUME NEW p \in Pids, NEW c \in Pids, NEW byMain \in BOOLEAN, SumsForks(p, c, byMain)
      PROVE  Goal
  <2>1. UNCHANGED <<waited, used>> /\ own' = [own EXCEPT ![c] = 0]
    BY <1>0, <1>8 DEF SumsForks, InitialOwn
  <2>2. used' - used = 0 /\ \A q \in Pids : Count'[q] <= Count[q]
    BY <1>0, <2>1 DEF Count
  <2> QED BY <2>2
<1> HIDE DEF Goal
<1>9. Goal
  BY <1>1, <1>2, <1>3, <1>5, <1>6, <1>7, <1>8 DEF World
<1> QED BY <1>9 DEF Goal
---------------------------------------------------------------------------
LEMMA CountInit == SumsInit => CountInv
<1> SUFFICES ASSUME SumsInit, metric \in Counters
             PROVE  /\ stat.offset = 0 /\ stat.value * Unit <= used
                    /\ SumAtMost(Count, used) /\ next = 0
  BY DEF CountInv
<1>1. InitialOwn = 0
  BY DEF InitialOwn, Counters, Gauges, CountMetrics
<1>2. Count \in [Pids -> Nat] /\ \A p \in Pids : Count[p] = 0
  BY <1>1 DEF SumsInit, Zero, Count
<1>3. used = 0 /\ next = 0
  BY DEF SumsInit
<1>4. stat.offset = 0 /\ stat.value = 0
  BY DEF SumsInit, P!NewMonitoredValue
<1>5. Unit \in Nat
  BY SumsAssumption DEF Unit
<1> QED BY <1>2, <1>3, <1>4, <1>5, SumZero

LEMMA CountStep == ListInv /\ CountInv /\ [SumsNext]_allVars => CountInv'
<1> SUFFICES ASSUME ListInv, CountInv, [SumsNext]_allVars, metric' \in Counters
             PROVE  /\ stat'.offset = 0 /\ stat'.value * Unit' <= used'
                    /\ SumAtMost(Count, used)'
                    /\ next' > 0 => \E r : Ranked(r)' /\ SumAtMost(Unread(r), used - total)'
  BY DEF CountInv
<1>0. metric' = metric
  BY WorldNumbers, NotedType DEF ListInv, SumsNext, World, SumsTerminated, SumsStartScan,
     SumsReads, PstreePids, SumsEndScan, ReadFile, SetStats, Report, BeginSample,
     setupVars, allVars
<1>a. /\ SumsTypeOK /\ MotherBorn /\ Count \in [Pids -> Nat] /\ used \in Nat /\ total \in Nat
      /\ pid_list \in Seq(Pids) /\ next \in Nat /\ Unit \in Nat \ {0} /\ Unit' = Unit
      /\ stat \in P!MonitoredValueType /\ stat.value \in Nat
  <2>1. SumsTypeOK /\ MotherBorn
    BY DEF ListInv
  <2>2. Count \in [Pids -> Nat] /\ used \in Nat /\ total \in Nat
    BY <2>1 DEF SumsTypeOK, Count
  <2>3. pid_list \in Seq(Pids) /\ next \in 0..(Len(pid_list) + 1)
    BY <2>1 DEF SumsTypeOK, TypeOK
  <2>4. next \in Nat
    BY <2>3
  <2>5. Unit \in Nat \ {0} /\ Unit' = Unit
    BY <1>0, SumsAssumption DEF Unit
  <2>6. stat \in P!MonitoredValueType
    BY <2>1 DEF SumsTypeOK
  <2>7. stat.value \in Nat
    BY <2>6 DEF P!MonitoredValueType
  <2> QED BY <2>1, <2>2, <2>3, <2>4, <2>5, <2>6, <2>7
<1>b. /\ stat.offset = 0 /\ stat.value * Unit <= used
      /\ SumAtMost(Count, used)
      /\ next > 0 => \E r : Ranked(r) /\ SumAtMost(Unread(r), used - total)
  BY <1>0 DEF CountInv
<1>1. CASE World
  <2>1. /\ UNCHANGED <<next, total, stat>> /\ TreeMoves /\ SumsTypeOK'
    BY <1>1, <1>a, WorldNumbers, NotedType, WorldTree, WorldType
  <2>2. Count' \in [Pids -> Nat] /\ used' \in Nat /\ pid_list' = pid_list
    BY <2>1 DEF SumsTypeOK, Count, TreeMoves
  <2> DEFINE d == used' - used
  <2>3. \/ d = 0 /\ \A p \in Pids : Count'[p] <= Count[p]
        \/ d = 1 /\ \E p \in Pids : Count' = [Count EXCEPT ![p] = Count[p] + 1]
        \/ d = 0 /\ \E c, q \in Pids :
                 /\ c # q /\ parent[c] = q
                 /\ Count' = [Count EXCEPT ![c] = 0, ![q] = Count[q] + Count[c]]
    BY <1>0, <1>1, <1>a, WorldCounts
  <2>a. d \in Int /\ used' = used + d
    <3>1. used \in Nat /\ used' \in Nat
      BY <1>a, <2>2
    <3>2. \A a, b \in Nat : a - b \in Int /\ a = b + (a - b)
      OBVIOUS
    <3> QED BY <3>1, <3>2, Zenon
  <2>4. d \in Int /\ used' = used + d /\ d >= 0
    <3> HIDE DEF d
    <3> QED BY <2>a, <2>3
  <2> HIDE DEF d
  <2>5. ASSUME NEW X \in SUBSET Pids, NEW s \in Int, SumAtMost(Rest(Count, X), s),
               \A c, q \in Pids : parent[c] = q /\ c \in X => q \in X
        PROVE  SumAtMost(Rest(Count', X), s + d)
    BY <1>a, <2>2, <2>3, <2>4, <2>5, SumMoves
  <2>6. SumAtMost(Count', used')
    <3>1. Rest(Count, {}) = Count /\ Rest(Count', {}) = Count'
      BY DEF Rest, Count
    <3>2. SumAtMost(Rest(Count, {}), used)
      BY <1>b, <3>1
    <3>3. SumAtMost(Rest(Count', {}), used + d)
      BY <1>a, <2>5, <3>2
    <3> QED BY <2>4, <3>1, <3>3
  <2>7. ASSUME next > 0
        PROVE  \E r : Ranked(r)' /\ SumAtMost(Unread(r), used - total)'
    <3>1. PICK r : Ranked(r) /\ SumAtMost(Unread(r), used - total)
      BY <1>b, <2>7
    <3>2. Ranked(r)'
      BY <1>a, <2>1, <3>1, RankedMoves
    <3>3. LastRank(r)' = LastRank(r) /\ Passed(r)' = Passed(r) /\ Passed(r) \in SUBSET Pids
      BY <2>1, <2>2 DEF LastRank, Passed
    <3>4. Unread(r) = Rest(Count, Passed(r)) /\ Unread(r)' = Rest(Count', Passed(r))
      BY <3>3 DEF Unread, Rest
    <3>5. ASSUME NEW c \in Pids, NEW q \in Pids, parent[c] = q, c \in Passed(r)
          PROVE  q \in Passed(r)
      <4>1. r \in [Pids -> Nat] /\ r[c] > 0 /\ r[c] <= LastRank(r)
        BY <3>1, <3>5 DEF Passed, Ranked
      <4>2. r[q] > 0 /\ r[q] < r[c]
        BY <3>1, <3>5, <4>1, PidsAssumption DEF Ranked
      <4>3. LastRank(r) \in Nat
        <5>1. next > 1 => next-1 \in 1..Len(pid_list)
          BY <1>a DEF SumsTypeOK
        <5>2. next > 1 => pid_list[next-1] \in Pids
          BY <1>a, <5>1
        <5> QED BY <4>1, <5>2 DEF LastRank
      <4> QED BY <4>1, <4>2, <4>3 DEF Passed
    <3>6. used - total \in Int /\ (used - total) + d = used' - total'
      BY <1>a, <2>1, <2>4
    <3>7. SumAtMost(Rest(Count', Passed(r)), (used - total) + d)
      BY <2>5, <3>1, <3>3, <3>4, <3>5, <3>6
    <3> QED BY <3>2, <3>4, <3>6, <3>7
  <2>8. stat'.offset = 0 /\ stat'.value * Unit' <= used'
    <3>1. stat.value * Unit \in Nat
      BY <1>a
    <3> QED BY <1>a, <1>b, <2>1, <2>4, <3>1
  <2> QED BY <2>1, <2>6, <2>7, <2>8
<1>2. CASE SumsStartScan \/ SumsReads \/ PstreePids
  <2>1. UNCHANGED <<own, waited, used, next, stat>> /\ next = 0
    BY <1>2 DEF ListInv, SumsStartScan, SumsReads, ReadChild, EndOfFile, PstreePids, BeginSample,
                kernelVars, sumVars
  <2>2. Count' = Count
    BY <2>1 DEF Count
  <2> QED BY <1>a, <1>b, <2>1, <2>2
<1>3. CASE SumsEndScan
  <2>1. /\ UNCHANGED <<own, waited, used, total, stat, pid_list, st, parent>>
        /\ unprocessed_pids = <<>> /\ next' = 1 /\ scanning
    BY <1>3 DEF SumsEndScan, EndScan, kernelVars, treeVars
  <2>2. total = 0 /\ total' = 0
    BY <2>1 DEF ListInv
  <2>3. PICK r : Ranked(r)
    BY <2>1 DEF ListInv
  <2>4. Ranked(r)' /\ r \in [Pids -> Nat]
    BY <2>1, <2>3 DEF Ranked
  <2>5. Count' = Count /\ LastRank(r)' = 0
    BY <2>1 DEF Count, LastRank
  <2>6. Passed(r)' = {}
    BY <2>4, <2>5 DEF Passed
  <2>7. Unread(r)' = Count
    BY <2>5, <2>6 DEF Unread, Count
  <2>8. used' - total' = used
    BY <1>a, <2>1, <2>2
  <2> QED BY <1>a, <1>b, <2>1, <2>4, <2>5, <2>7, <2>8
<1>4. CASE ReadFile
  <2> DEFINE p == pid_list[next]
  <2>1. /\ UNCHANGED <<own, waited, used, stat, pid_list, st, parent>>
        /\ next \in 1..Len(pid_list) /\ next' = next + 1
        /\ total' = total + Reading(p)
    BY <1>4 DEF ReadFile, vars, kernelVars, treeVars, scanVars
  <2>2. PICK r : Ranked(r) /\ SumAtMost(Unread(r), used - total)
    BY <1>a, <1>b, <2>1
  <2>3. Ranked(r)' /\ r \in [Pids -> Nat]
    BY <2>1, <2>2 DEF Ranked
  <2>4. p \in Pids /\ r[p] \in Nat /\ r[p] > 0 /\ LastRank(r)' = r[p]
    BY <1>a, <2>1, <2>2, <2>3 DEF LastRank, Ranked
  <2>5. LastRank(r) \in Nat /\ LastRank(r) < r[p]
    <3>1. CASE next > 1
      <4>1. next-1 \in 1..Len(pid_list) /\ next-1 < next /\ pid_list[next-1] \in Pids
        BY <1>a, <2>1, <3>1
      <4> QED BY <2>1, <2>2, <2>3, <3>1, <4>1 DEF LastRank, Ranked
    <3>2. CASE ~(next > 1)
      BY <2>4, <3>2 DEF LastRank
    <3> QED BY <3>1, <3>2
  <2> HIDE DEF p
  <2>6. p \notin Passed(r) /\ p \in Passed(r)' /\ Passed(r) \subseteq Passed(r)'
    BY <2>3, <2>4, <2>5 DEF Passed
  <2>7. /\ Unread(r) \in [Pids -> Nat] /\ Unread(r)' \in [Pids -> Nat]
        /\ Unread(r)[p] = Count[p] /\ Count[p] \in Nat /\ Count' = Count
    BY <1>a, <2>1, <2>4, <2>6 DEF Unread, Count
  <2> DEFINE w == [Unread(r) EXCEPT ![p] = 0]
             s == used - total - Unread(r)[p] + 0
  <2>8. SumAtMost(w, s)
    <3>1. used - total \in Int /\ 0 \in Nat
      BY <1>a
    <3> QED BY <2>2, <2>4, <2>7, <3>1, SumUpdate
  <2>9. /\ w \in [Pids -> Nat] /\ s \in Int
        /\ \A q \in Pids : Unread(r)'[q] <= w[q]
    <3>1. \A q \in Pids : Count[q] \in Nat /\ Count'[q] = Count[q]
      BY <1>a, <2>7
    <3>2. \A q \in Pids : /\ Unread(r)'[q] = IF q \in Passed(r)' THEN 0 ELSE Count[q]
                          /\ Unread(r)[q] = IF q \in Passed(r) THEN 0 ELSE Count[q]
      BY <3>1 DEF Unread
    <3>3. w \in [Pids -> Nat] /\ \A q \in Pids : w[q] = IF q = p THEN 0 ELSE Unread(r)[q]
      BY <2>4, <2>7
    <3>4. s \in Int
      BY <1>a, <2>7
    <3> HIDE DEF w, s
    <3> QED BY <2>6, <3>1, <3>2, <3>3, <3>4
  <2>10. Reading(p) = 0 \/ Reading(p) = Count[p]
    <3>1. metric = "utime" \/ metric = "rchar"
      BY <1>0 DEF Counters
    <3>2. metric \notin CountMetrics /\ Count[p] = own[p] + waited[p]
      BY <2>4, <3>1 DEF CountMetrics, Count
    <3> QED BY <3>1, <3>2 DEF Reading, cpumon_reads, iomon_reads
  <2>11. used' - total' \in Int /\ s <= used' - total'
    BY <1>a, <2>1, <2>7, <2>10
  <2> HIDE DEF w, s
  <2>12. SumAtMost(Unread(r)', used' - total')
    BY <2>7, <2>8, <2>9, <2>11, SumWeaken
  <2> QED BY <1>a, <1>b, <2>1, <2>3, <2>7, <2>12
<1>5. CASE SetStats
  <2>1. /\ UNCHANGED <<own, waited, used>> /\ next' = 0 /\ next = Len(pid_list) + 1
        /\ stat' = P!SetValue(stat, total \div Unit)
    BY <1>5 DEF SetStats, Report, kernelVars
  <2>2. Count' = Count
    BY <2>1 DEF Count
  <2>3. PICK r : SumAtMost(Unread(r), used - total)
    BY <1>a, <1>b, <2>1
  <2>4. Unread(r) \in [Pids -> Nat]
    BY <1>a DEF Unread
  <2>5. used - total >= 0
    BY <1>a, <2>3, <2>4, SumNat
  <2> DEFINE x == total \div Unit
  <2>6. x \in Nat /\ x * Unit <= total
    BY <1>a
  <2>7. stat'.offset = 0 /\ (stat'.value = stat.value \/ stat'.value = x)
    <3> HIDE DEF x
    <3> QED BY <1>a, <1>b, <2>1, <2>6, SetValueType DEF x
  <2> HIDE DEF x
  <2>8. stat'.value * Unit' <= used'
    <3>1. CASE stat'.value = stat.value
      BY <1>a, <1>b, <2>1, <3>1
    <3>2. CASE stat'.value = x
      <4>1. x * Unit \in Nat
        BY <1>a, <2>6
      <4> QED BY <1>a, <2>1, <2>5, <2>6, <3>2, <4>1
    <3> QED BY <2>7, <3>1, <3>2
  <2> QED BY <1>b, <2>1, <2>2, <2>7, <2>8
<1>6. CASE UNCHANGED allVars
  <2>1. /\ UNCHANGED <<own, waited, used, next, total, stat, pid_list, st, parent>>
    BY <1>6 DEF allVars, vars, treeVars, scanVars, kernelVars, sumVars
  <2>2. Count' = Count /\ \A r : Unread(r)' = Unread(r) /\ Ranked(r)' = Ranked(r)
    BY <2>1 DEF Count, Unread, Passed, LastRank, Ranked
  <2> QED BY <1>a, <1>b, <2>1, <2>2
<1> QED BY <1>1, <1>2, <1>3, <1>4, <1>5, <1>6 DEF SumsNext, World, SumsTerminated

LEMMA SumsInvAlways == SumsSpec => [](ListInv /\ CountInv)
BY ListInit, ListStep, CountInit, CountStep, PTL DEF SumsSpec

---------------------------------------------------------------------------
\* The types of the monitors' sums, of the numbers the kernel keeps and of the
\* history of a sample.
THEOREM SumsTypeCorrect == SumsSpec => []SumsTypeOK
<1>1. ListInv => SumsTypeOK
  BY DEF ListInv
<1> QED BY <1>1, SumsInvAlways, PTL

\* No CPU time and no byte is reported that was not used: however many
\* processes are waited for between the reads of their own file and of their
\* parent's, and whichever lines of pstree are dropped.
THEOREM NeverOverstatedCorrect == SumsSpec => []NeverOverstated
<1>1. ASSUME ListInv, CountInv PROVE NeverOverstated
  <2> SUFFICES ASSUME metric \in Counters
               PROVE  total <= used /\ get_text_stats * Unit <= used
    BY DEF NeverOverstated
  <2>1. stat.value * Unit <= used
    BY <1>1 DEF CountInv
  <2>2. used \in Nat /\ total \in Nat /\ next \in Nat /\ Count \in [Pids -> Nat]
    <3>1. used \in Nat /\ total \in Nat /\ Count \in [Pids -> Nat]
      BY <1>1 DEF ListInv, SumsTypeOK, Count
    <3>2. pid_list \in Seq(Pids) /\ next \in 0..(Len(pid_list) + 1)
      BY <1>1 DEF ListInv, SumsTypeOK, TypeOK
    <3> QED BY <3>1, <3>2
  <2>3. CASE next > 0
    <3>1. PICK r : SumAtMost(Unread(r), used - total)
      BY <1>1, <2>3 DEF CountInv
    <3>2. Unread(r) \in [Pids -> Nat]
      BY <2>2 DEF Unread
    <3>3. used - total >= 0
      BY <2>2, <3>1, <3>2, SumNat
    <3> QED BY <2>1, <2>2, <3>3 DEF get_text_stats
  <2>4. CASE ~(next > 0)
    BY <1>1, <2>1, <2>2, <2>4 DEF ListInv, get_text_stats
  <2> QED BY <2>3, <2>4
<1> QED BY <1>1, SumsInvAlways, PTL

\* Also while the sums are made from it, and when it came from pstree, the
\* list names nobody twice and nobody before its parent.
THEOREM ListsSound == SumsSpec => [](NoDuplicates /\ ParentsFirst)
<1>1. ASSUME ListInv, modern_kernel PROVE NoDuplicates /\ ParentsFirst
  <2>1. ScanInv
    BY <1>1 DEF ListInv
  <2> QED BY <2>1, ScanParentsFirst DEF ScanInv
<1>2. ASSUME ListInv, ~modern_kernel PROVE NoDuplicates /\ ParentsFirst
  <2>1. /\ Found = pid_list /\ pid_list \in Seq(Pids)
        /\ unprocessed_pids = <<>>
    BY <1>2 DEF ListInv, SumsTypeOK, TypeOK, Found
  <2>2. PICK r : Ranked(r)
    BY <1>2, <2>1 DEF ListInv
  <2>3. /\ r \in [Pids -> Nat]
        /\ \A i \in 1..Len(pid_list) : pid_list[i] \in Pids /\ r[pid_list[i]] \in Nat
        /\ \A i \in 1..Len(pid_list) : r[pid_list[i]] > 0
        /\ \A i, j \in 1..Len(pid_list) : i < j => r[pid_list[i]] < r[pid_list[j]]
    BY <2>1, <2>2 DEF Ranked
  <2>4. NoDuplicates
    <3> SUFFICES ASSUME NEW i \in 1..Len(pid_list), NEW j \in 1..Len(pid_list),
                        pid_list[i] = pid_list[j], i # j
                 PROVE  FALSE
      BY <2>1 DEF NoDuplicates
    <3>1. i < j \/ j < i
      BY <2>1
    <3> QED BY <2>3, <3>1
  <2>5. ParentsFirst
    <3> SUFFICES ASSUME NEW i \in 1..Len(pid_list), NEW j \in 1..Len(pid_list),
                        parent[pid_list[i]] = pid_list[j], ~(j < i)
                 PROVE  FALSE
      BY <2>1 DEF ParentsFirst
    <3>1. r[pid_list[j]] < r[pid_list[i]]
      BY <2>2, <2>3, PidsAssumption DEF Ranked
    <3>2. i < j \/ i = j
      BY <2>1
    <3> QED BY <2>3, <3>1, <3>2
  <2> QED BY <2>4, <2>5
<1>3. ListInv => NoDuplicates /\ ParentsFirst
  BY <1>1, <1>2
<1> QED BY <1>3, SumsInvAlways, PTL
---------------------------------------------------------------------------
(* The list of either kind misses nobody it could have found.              *)

PstreeCovers == shown \subseteq ToSet(pid_list)

SumsCoverInv ==
  (modern_kernel => CoverInv) /\ (~modern_kernel => PstreeCovers)

LEMMA WorldShown == World => shown' \subseteq shown
BY DEF World, Uses, Resizes, SumsEndsThread, EndsThread, WaitedFor, Discarded, IsReaped,
       SumsExits, Exits, SumsForks, Forks, vars, histVars

LEMMA SumsCoverStep == ListInv /\ SumsCoverInv /\ [SumsNext]_allVars => SumsCoverInv'
<1> SUFFICES ASSUME ListInv, SumsCoverInv, [SumsNext]_allVars PROVE SumsCoverInv'
  OBVIOUS
<1>0. /\ SumsTypeOK /\ MotherBorn
      /\ modern_kernel => ScanInv /\ CoverInv
      /\ ~modern_kernel => shown \subseteq ToSet(pid_list)
  BY DEF ListInv, SumsCoverInv, PstreeCovers
<1>1. CASE World
  <2>1. modern_kernel' = modern_kernel /\ pid_list' = pid_list
    BY <1>0, <1>1, WorldNumbers, NotedType, WorldTree DEF TreeMoves
  <2>2. modern_kernel => CoverInv'
    BY <1>0, <1>1, WorldIsNext, CoverStep
  <2>3. ~modern_kernel => shown' \subseteq ToSet(pid_list)
    BY <1>0, <1>1, WorldShown
  <2> QED BY <2>1, <2>2, <2>3 DEF SumsCoverInv, PstreeCovers
<1>2. CASE SumsStartScan \/ SumsReads \/ SumsEndScan \/ ReadFile \/ UNCHANGED allVars
  <2>1. modern_kernel' = modern_kernel /\ [Next]_vars
    BY <1>2 DEF SumsStartScan, BeginSample, SumsReads, SumsEndScan, ReadFile,
                allVars, setupVars, Next, ScanNext
  <2>2. modern_kernel => CoverInv'
    BY <1>0, <2>1, CoverStep
  <2>3. ~modern_kernel => shown' = shown /\ pid_list' = pid_list
    BY <1>2 DEF ListInv, SumsStartScan, SumsReads, ReadChild, EndOfFile, SumsEndScan, EndScan,
                ReadFile, allVars, vars, scanVars, histVars
  <2> QED BY <1>0, <2>1, <2>2, <2>3 DEF SumsCoverInv, PstreeCovers
<1>3. CASE PstreePids
  <2>1. ~modern_kernel /\ ~modern_kernel'
    BY <1>3 DEF PstreePids, BeginSample, setupVars
  <2>2. shown' \subseteq ToSet(pid_list')
    <3>1. CASE \E l \in PstreeOutputs :
                 pid_list' \in Listed(l) /\ shown' = Descendants(Mother) \ terse
      <4> DEFINE S == {p \in Descendants(Mother) : Parsed(p)}
      <4>1. S \in SUBSET Pids
        BY DescendantsClosed, PidsAssumption
      <4>2. pid_list' \in Orders(S) /\ shown' = S
        BY <3>1 DEF Listed, Parsed
      <4> QED BY <4>1, <4>2, OrdersOnto
    <3>2. CASE shown' = {}
      BY <3>2
    <3> QED BY <1>3, <3>1, <3>2 DEF PstreePids
  <2> QED BY <2>1, <2>2 DEF SumsCoverInv, PstreeCovers
<1>4. CASE SetStats
  <2>1. /\ UNCHANGED <<st, parent, visible, modern_kernel, entries>> /\ shown' = {}
        /\ next # 0
    BY <1>0, <1>4 DEF SetStats, Report, setupVars, treeVars, SumsTypeOK, TypeOK
  <2>2. modern_kernel => entries' = {}
    <3>1. unprocessed_pids = <<>>
      BY <2>1 DEF ListInv
    <3> QED BY <1>0, <2>1, <3>1 DEF ScanInv
  <2>3. modern_kernel => CoverInv'
    BY <1>0, <2>1, <2>2 DEF CoverInv, Generated, Exists, ParentRuns, Spared
  <2> QED BY <2>1, <2>3 DEF SumsCoverInv, PstreeCovers
<1> QED BY <1>1, <1>2, <1>3, <1>4 DEF SumsNext, World, SumsTerminated

LEMMA SumsCoverAlways == SumsSpec => []SumsCoverInv
<1>1. SumsInit => SumsCoverInv
  BY CoverInit DEF SumsInit, Init, SumsCoverInv, PstreeCovers
<1> QED BY <1>1, SumsCoverStep, SumsInvAlways, PTL DEF SumsSpec

\* Whether the list comes from the children files or from pstree: when it is
\* handed to the monitors it holds everybody it could show who has been there
\* throughout, except, of children files, those whom a file may have skipped
\* because one of their siblings, already read from it, was waited for.
THEOREM ListsComplete == SumsSpec => []ShownTreeCovered
<1>1. ListInv /\ SumsCoverInv => ShownTreeCovered
  BY CoverCovers DEF ListInv, SumsCoverInv, PstreeCovers, ShownTreeCovered
<1> QED BY <1>1, SumsCoverAlways, SumsInvAlways, PTL

---------------------------------------------------------------------------
(* Gauges: memory, processes and threads.                                  *)

\* The processes whose files have been read in this sample.
ReadSoFar == {pid_list[i] : i \in 1..(next - 1)}

\* The history of a sample encloses what every process has now; and the
\* running sum lies between what those read so far had at the least, unless
\* they are gone, and at the most.
GaugeInv == metric \in Gauges =>
  /\ stat.offset = 0 /\ ~stat.monotonic /\ stat.value <= stat.max
  /\ Sampling => \A p \in Pids : lo[p] <= Reading(p) /\ Reading(p) <= hi[p]
  /\ next > 0 => /\ SumOver(lo, shown \cap ReadSoFar) <= total
                 /\ total <= SumOver(hi, ReadSoFar)

LEMMA GaugeInit == SumsInit => GaugeInv
<1> SUFFICES ASSUME SumsInit, metric \in Gauges
             PROVE  /\ stat.offset = 0 /\ ~stat.monotonic /\ stat.value <= stat.max
                    /\ ~Sampling /\ ~(next > 0)
  BY Zenon DEF GaugeInv
<1>1. metric \notin Counters
  BY DEF Counters, Gauges, CountMetrics
<1>2. ~Sampling /\ ~(next > 0)
  BY DEF SumsInit, Init, Sampling
<1>3. stat.offset = 0 /\ stat.value = 0 /\ stat.max = 0
  BY DEF SumsInit, P!NewMonitoredValue
<1>4. stat.monotonic = (metric \in Counters)
  BY Zenon DEF SumsInit, P!NewMonitoredValue
<1>5. ~stat.monotonic
  BY <1>1, <1>4, Zenon
<1>6. stat.value <= stat.max
  BY <1>3
<1> QED BY <1>2, <1>3, <1>5, <1>6, Zenon

\* Whatever a process does, the history widens to hold it.
LEMMA NotedSpan ==
  ASSUME SumsTypeOK, Noted, NumbersOK'
  PROVE  Sampling /\ metric \in Gauges =>
           \A p \in Pids : /\ lo'[p] <= lo[p] /\ hi[p] <= hi'[p]
                           /\ lo'[p] <= Reading(p)' /\ Reading(p)' <= hi'[p]
<1>0. (NumbersOK => \A p \in Pids : Reading(p) \in Nat)'
  BY ReadingType, PTL
<1> SUFFICES ASSUME Sampling, metric \in Gauges, NEW p \in Pids
             PROVE  /\ lo'[p] <= lo[p] /\ hi[p] <= hi'[p]
                    /\ lo'[p] <= Reading(p)' /\ Reading(p)' <= hi'[p]
  OBVIOUS
<1>1. Reading(p)' \in Nat
  BY <1>0
<1>2. lo[p] \in Nat /\ hi[p] \in Nat
  BY DEF SumsTypeOK
<1>3. /\ lo' = [q \in Pids |-> IF Reading(q)' < lo[q] THEN Reading(q)' ELSE lo[q]]
      /\ hi' = [q \in Pids |-> IF Reading(q)' > hi[q] THEN Reading(q)' ELSE hi[q]]
  BY DEF Noted
<1>4. /\ lo'[p] = IF Reading(p)' < lo[p] THEN Reading(p)' ELSE lo[p]
      /\ hi'[p] = IF Reading(p)' > hi[p] THEN Reading(p)' ELSE hi[p]
  BY <1>3
<1> QED BY <1>1, <1>2, <1>4

\* Nobody is read twice.
LEMMA NotReadBefore ==
  ASSUME ListInv, next \in 1..Len(pid_list)
  PROVE  /\ pid_list[next] \in Pids /\ pid_list[next] \notin ReadSoFar
         /\ ReadSoFar \in SUBSET Pids
         /\ {pid_list[i] : i \in 1..next} = ReadSoFar \cup {pid_list[next]}
<1>1. pid_list \in Seq(Pids) /\ next \in Nat /\ Len(pid_list) \in Nat
  BY DEF ListInv, SumsTypeOK, TypeOK
<1>2. unprocessed_pids = <<>>
  BY <1>1 DEF ListInv
<1>3. PICK r : Ranked(r)
  BY <1>2 DEF ListInv
<1>4. \A i \in 1..(next - 1) : i \in 1..Len(pid_list) /\ i < next
  BY <1>1
<1>5. \A i \in 1..(next - 1) : r[pid_list[i]] < r[pid_list[next]]
  BY <1>3, <1>4 DEF Ranked
<1>6. pid_list[next] \in Pids /\ r[pid_list[next]] \in Nat
  BY <1>1, <1>3 DEF Ranked
<1>7. pid_list[next] \notin ReadSoFar
  BY <1>5, <1>6 DEF ReadSoFar
<1>8. ReadSoFar \in SUBSET Pids
  BY <1>1, <1>4 DEF ReadSoFar
<1>9. 1..next = (1..(next - 1)) \cup {next}
  BY <1>1
<1> QED BY <1>6, <1>7, <1>8, <1>9 DEF ReadSoFar

LEMMA SetGauge ==
  ASSUME NEW mv \in P!MonitoredValueType, mv.offset = 0, ~mv.monotonic,
         NEW x \in Nat, NEW new, new = P!SetValue(mv, x)
  PROVE  new.offset = 0 /\ ~new.monotonic /\ new.value <= new.max
<1>0. /\ mv.value \in Nat /\ mv.max \in Nat /\ mv.summed \in Nat
      /\ mv.iterations \in Nat
  BY DEF P!MonitoredValueType
<1>1. P!Accepts(mv, x)
  BY DEF P!Accepts
<1>2. x - mv.offset = x
  OBVIOUS
<1>3. PICK m, u, k : /\ m = IF x > mv.max THEN x ELSE mv.max
                     /\ u = mv.summed + x /\ k = mv.iterations + 1
  OBVIOUS
<1>4. new = [mv EXCEPT !.value = x, !.max = m, !.summed = u, !.iterations = k]
  BY <1>1, <1>2, <1>3 DEF P!SetValue, P!Recorded
<1>5. new.value = x /\ new.max = m /\ new.offset = 0 /\ ~new.monotonic
  BY <1>4 DEF P!MonitoredValueType
<1> QED BY <1>0, <1>3, <1>5

LEMMA GaugeStep == ListInv /\ GaugeInv /\ [SumsNext]_allVars => GaugeInv'
<1> SUFFICES ASSUME ListInv, GaugeInv, [SumsNext]_allVars, metric' \in Gauges
             PROVE  /\ stat'.offset = 0 /\ ~stat'.monotonic /\ stat'.value <= stat'.max
                    /\ Sampling' => \A p \in Pids : lo'[p] <= Reading(p)' /\ Reading(p)' <= hi'[p]
                    /\ next' > 0 => /\ SumOver(lo', shown' \cap ReadSoFar') <= total'
                                    /\ total' <= SumOver(hi', ReadSoFar')
  BY DEF GaugeInv
<1>0. metric' = metric
  BY WorldNumbers, NotedType DEF ListInv, SumsNext, World, SumsTerminated, SumsStartScan,
     SumsReads, PstreePids, SumsEndScan, ReadFile, SetStats, Report, BeginSample,
     setupVars, allVars
<1>a. /\ SumsTypeOK /\ MotherBorn /\ total \in Nat /\ next \in Nat
      /\ pid_list \in Seq(Pids) /\ Len(pid_list) \in Nat
      /\ lo \in [Pids -> Nat] /\ hi \in [Pids -> Nat] /\ shown \in SUBSET Pids
      /\ stat \in P!MonitoredValueType
  <2>1. SumsTypeOK /\ MotherBorn
    BY DEF ListInv
  <2>2. pid_list \in Seq(Pids) /\ next \in 0..(Len(pid_list) + 1)
    BY <2>1 DEF SumsTypeOK, TypeOK
  <2>3. next \in Nat
    BY <2>2
  <2> QED BY <2>1, <2>2, <2>3 DEF SumsTypeOK, TypeOK
<1>b. /\ stat.offset = 0 /\ ~stat.monotonic /\ stat.value <= stat.max
      /\ Sampling => \A p \in Pids : lo[p] <= Reading(p) /\ Reading(p) <= hi[p]
      /\ next > 0 => /\ SumOver(lo, shown \cap ReadSoFar) <= total
                     /\ total <= SumOver(hi, ReadSoFar)
  BY <1>0 DEF GaugeInv
<1>c. IsFiniteSet(ReadSoFar) /\ IsFiniteSet(shown \cap ReadSoFar) /\ ReadSoFar \in SUBSET Pids
  <2>1. \A i \in 1..(next - 1) : i \in 1..Len(pid_list)
    <3>1. next \in 0..(Len(pid_list) + 1)
      BY <1>a DEF SumsTypeOK
    <3> QED BY <1>a, <3>1
  <2>2. ReadSoFar \in SUBSET Pids
    BY <1>a, <2>1 DEF ReadSoFar
  <2> QED BY <2>2, PidsAssumption, FS_Subset
<1>d. metric \in Gauges
  BY <1>0
<1>1. CASE World
  <2>1. TreeMoves /\ NumbersOK' /\ Noted /\ shown' \subseteq shown /\ SumsTypeOK'
    BY <1>1, <1>a, WorldTree, WorldNumbers, WorldShown, WorldType
  <2>2. UNCHANGED <<next, total, stat>>
    BY <1>a, <2>1, NotedType
  <2>3. UNCHANGED <<scanning, pid_list>>
    BY <2>1 DEF TreeMoves
  <2>4. Sampling' = Sampling /\ ReadSoFar' = ReadSoFar
    BY <2>2, <2>3 DEF Sampling, ReadSoFar
  <2>5. ASSUME Sampling
        PROVE  \A p \in Pids : /\ lo'[p] <= lo[p] /\ hi[p] <= hi'[p]
                               /\ lo'[p] <= Reading(p)' /\ Reading(p)' <= hi'[p]
    BY <1>a, <1>d, <2>1, <2>5, NotedSpan
  <2>6. ASSUME next > 0
        PROVE  /\ SumOver(lo', shown' \cap ReadSoFar) <= total
               /\ total <= SumOver(hi', ReadSoFar)
    <3>0. Sampling /\ lo' \in [Pids -> Nat] /\ hi' \in [Pids -> Nat]
      BY <1>a, <2>1, <2>6 DEF Sampling, SumsTypeOK
    <3>1. PICK A, B, R : A = shown' \cap ReadSoFar /\ B = shown \cap ReadSoFar /\ R = ReadSoFar
      OBVIOUS
    <3>2. /\ A \subseteq B /\ B \subseteq R /\ R \in SUBSET Pids
          /\ IsFiniteSet(A) /\ IsFiniteSet(B) /\ IsFiniteSet(R)
      BY <1>c, <2>1, <3>1, FS_Subset
    <3>3. /\ \A x \in A : lo'[x] \in Nat
          /\ \A x \in B : lo[x] \in Nat
          /\ \A x \in A \cap B : lo'[x] <= lo[x]
          /\ \A x \in A \ B : lo'[x] = 0
      BY <1>a, <2>5, <3>0, <3>2
    <3>4. SumOver(lo', A) <= SumOver(lo, B)
      BY <3>2, <3>3, SumOverCompare
    <3>5. /\ \A x \in R : hi[x] \in Nat
          /\ \A x \in R : hi'[x] \in Nat
          /\ \A x \in R \cap R : hi[x] <= hi'[x]
          /\ \A x \in R \ R : hi[x] = 0
      BY <1>a, <2>5, <3>0, <3>2
    <3>6. SumOver(hi, R) <= SumOver(hi', R)
      BY <3>2, <3>5, SumOverCompare
    <3>7. /\ SumOver(lo', A) \in Nat /\ SumOver(lo, B) \in Nat
          /\ SumOver(hi, R) \in Nat /\ SumOver(hi', R) \in Nat
      BY <3>2, <3>3, <3>5, SumOverLaws
    <3>8. SumOver(lo, B) <= total /\ total <= SumOver(hi, R)
      BY <1>b, <2>6, <3>1
    <3>9. SumOver(lo', A) <= total /\ total <= SumOver(hi', R)
      BY <1>a, <3>4, <3>6, <3>7, <3>8
    <3> QED BY <3>1, <3>9
  <2> QED BY <1>b, <2>2, <2>4, <2>5, <2>6
<1>2. CASE SumsStartScan \/ PstreePids
  <2>1. BeginSample /\ UNCHANGED <<st, parent, visible>>
    BY <1>2 DEF SumsStartScan, StartScan, PstreePids, treeVars
  <2>2. UNCHANGED <<own, waited, next, stat>> /\ next = 0
    BY <2>1 DEF BeginSample, kernelVars, sumVars
  <2>3. lo' = [p \in Pids |-> Reading(p)] /\ hi' = lo'
    BY <1>d, <2>1 DEF BeginSample
  <2>4. \A p \in Pids : Reading(p) \in Nat
    BY <1>a, ReadingType DEF SumsTypeOK, NumbersOK
  <2>5. \A p \in Pids : Reading(p)' = Reading(p)
    BY <1>0, <2>1, <2>2 DEF Reading, Exists, cpumon_reads, iomon_reads, memmon_reads,
                            countmon_reads
  <2>6. \A p \in Pids : lo'[p] <= Reading(p)' /\ Reading(p)' <= hi'[p]
    BY <2>3, <2>4, <2>5
  <2> QED BY <1>b, <2>2, <2>6
<1>3. CASE SumsReads \/ SumsEndScan \/ ReadFile \/ UNCHANGED allVars
  <2>1. UNCHANGED <<own, waited, stat, lo, hi, st, shown>>
    BY <1>3 DEF SumsReads, ReadChild, EndOfFile, SumsEndScan, EndScan, ReadFile, kernelVars,
                spanVars, sumVars, treeVars, histVars, vars, allVars
  <2>2. \A p \in Pids : Reading(p)' = Reading(p)
    BY <1>0, <2>1 DEF Reading, Exists, cpumon_reads, iomon_reads, memmon_reads,
                      countmon_reads
  <2>3. Sampling' => Sampling
    BY <1>3, <1>a DEF SumsReads, ReadChild, EndOfFile, SumsEndScan, EndScan, ReadFile,
                sumVars, scanVars, vars, allVars, Sampling
  <2>4. ASSUME next' > 0
        PROVE  /\ SumOver(lo, shown \cap ReadSoFar') <= total'
               /\ total' <= SumOver(hi, ReadSoFar')
    <3>1. CASE SumsReads
      BY <2>4, <3>1 DEF SumsReads, ReadChild, EndOfFile, sumVars, ListInv
    <3>2. CASE SumsEndScan
      <4>1. next' = 1 /\ total' = 0
        BY <3>2 DEF SumsEndScan, EndScan, ListInv
      <4>2. 1..(next' - 1) = {}
        BY <4>1
      <4>3. ReadSoFar' = {} /\ shown \cap ReadSoFar' = {}
        BY <4>2 DEF ReadSoFar
      <4>4. SumOver(lo, {}) = 0 /\ SumOver(hi, {}) = 0
        BY SumOverEmpty
      <4> QED BY <4>1, <4>3, <4>4
    <3>3. CASE ReadFile
      <4>1. /\ next \in 1..Len(pid_list) /\ next' = next + 1 /\ pid_list' = pid_list
            /\ total' = total + Reading(pid_list[next])
        BY <3>3 DEF ReadFile, vars, scanVars
      <4>2. PICK p : p = pid_list[next]
        OBVIOUS
      <4>3. PICK R, Q : R = ReadSoFar /\ Q = ReadSoFar'
        OBVIOUS
      <4>4. /\ p \in Pids /\ p \notin R /\ R \in SUBSET Pids /\ Q = R \cup {p}
        <5>1. next' - 1 = next
          BY <1>a, <4>1
        <5>2. Q = {pid_list[i] : i \in 1..next}
          BY <4>1, <4>3, <5>1 DEF ReadSoFar
        <5> QED BY <4>1, <4>2, <4>3, <5>2, NotReadBefore
      <4>5. Sampling /\ next > 0
        BY <1>a, <4>1 DEF Sampling
      <4>6. /\ lo[p] \in Nat /\ hi[p] \in Nat /\ Reading(p) \in Nat
            /\ lo[p] <= Reading(p) /\ Reading(p) <= hi[p]
        BY <1>a, <1>b, <4>4, <4>5, ReadingType DEF SumsTypeOK, NumbersOK
      <4>7. SumOver(lo, shown \cap R) <= total /\ total <= SumOver(hi, R)
        BY <1>b, <4>3, <4>5
      <4>8. /\ IsFiniteSet(R) /\ IsFiniteSet(Q) /\ IsFiniteSet(shown \cap R)
            /\ IsFiniteSet(shown \cap Q)
        BY <4>4, PidsAssumption, FS_Subset
      <4>9. /\ \A x \in R : hi[x] \in Nat
            /\ \A x \in Q : hi[x] \in Nat
            /\ \A x \in shown \cap R : lo[x] \in Nat
            /\ \A x \in shown \cap Q : lo[x] \in Nat
        BY <1>a, <4>4
      <4>10. SumOver(hi, R) \in Nat /\ SumOver(lo, shown \cap R) \in Nat
        BY <4>8, <4>9, SumOverLaws
      <4>11. SumOver(hi, Q) = hi[p] + SumOver(hi, R)
        <5>1. p \in Q /\ Q \ {p} = R
          BY <4>4
        <5>2. SumOver(hi, Q) = hi[p] + SumOver(hi, Q \ {p})
          BY <4>8, <4>9, <5>1, SumOverLaws
        <5> QED BY <5>1, <5>2
      <4>a. \A a, b \in Nat : b + a <= b + a /\ a <= b + a
        OBVIOUS
      <4>12. SumOver(lo, shown \cap Q) <= lo[p] + SumOver(lo, shown \cap R)
        <5>1. CASE p \in shown
          <6>1. p \in shown \cap Q /\ (shown \cap Q) \ {p} = shown \cap R
            BY <4>4, <5>1
          <6>2. SumOver(lo, shown \cap Q) = lo[p] + SumOver(lo, (shown \cap Q) \ {p})
            BY <4>8, <4>9, <6>1, SumOverLaws
          <6> QED BY <4>6, <4>10, <4>a, <6>1, <6>2, Zenon
        <5>2. CASE p \notin shown
          <6>1. shown \cap Q = shown \cap R
            BY <4>4, <5>2
          <6> QED BY <4>6, <4>10, <4>a, <6>1, Zenon
        <5> QED BY <5>1, <5>2
      <4>13. SumOver(lo, shown \cap Q) \in Nat
        BY <4>8, <4>9, SumOverLaws
      <4>14. total' = total + Reading(p)
        BY <4>1, <4>2
      <4>15. SumOver(lo, shown \cap Q) <= total' /\ total' <= SumOver(hi, Q)
        BY <1>a, <4>6, <4>7, <4>10, <4>11, <4>12, <4>13, <4>14
      <4> QED BY <4>3, <4>15
    <3>4. CASE UNCHANGED allVars
      <4>1. UNCHANGED <<next, total, pid_list>>
        BY <3>4 DEF allVars, vars, scanVars, sumVars
      <4> QED BY <1>b, <2>4, <4>1 DEF ReadSoFar
    <3> QED BY <1>3, <3>1, <3>2, <3>3, <3>4
  <2> QED BY <1>b, <2>1, <2>2, <2>3, <2>4
<1>4. CASE SetStats
  <2>1. /\ stat' = P!SetValue(stat, total \div Unit) /\ next' = 0 /\ scanning' = scanning
        /\ next = Len(pid_list) + 1
    BY <1>4 DEF SetStats, Report
  <2>2. ~Sampling'
    BY <1>a, <2>1 DEF Sampling, ListInv
  <2>3. total \div Unit \in Nat
    <3>1. Unit \in Nat \ {0}
      BY SumsAssumption DEF Unit
    <3> QED BY <1>a, <3>1
  <2>4. stat'.offset = 0 /\ ~stat'.monotonic /\ stat'.value <= stat'.max
    BY <1>a, <1>b, <2>1, <2>3, SetGauge
  <2> QED BY <2>1, <2>2, <2>4
<1> QED BY <1>1, <1>2, <1>3, <1>4 DEF SumsNext, World, SumsTerminated

\* However many processes come and go between the reads, memory and numbers of
\* processes and threads are reported between what those in the list had at
\* the least and what all had at the most during the sample.
THEOREM SumWithinCorrect == SumsSpec => []SumWithinSample
<1>1. ASSUME ListInv, SumsCoverInv, GaugeInv PROVE SumWithinSample
  <2> SUFFICES ASSUME metric \in Gauges
               PROVE  /\ next = Len(pid_list) + 1 =>
                           SumOver(lo, shown) <= total /\ total <= SumOver(hi, Pids)
                      /\ get_text_stats <= get_json_total_stats
    BY DEF SumWithinSample
  <2>1. get_text_stats <= get_json_total_stats
    BY <1>1 DEF GaugeInv, get_text_stats, get_json_total_stats
  <2>2. ASSUME next = Len(pid_list) + 1
        PROVE  SumOver(lo, shown) <= total /\ total <= SumOver(hi, Pids)
    <3>1. /\ pid_list \in Seq(Pids) /\ Len(pid_list) \in Nat /\ total \in Nat
          /\ hi \in [Pids -> Nat] /\ IsFiniteSet(Pids)
      <4>1. SumsTypeOK
        BY <1>1 DEF ListInv
      <4> QED BY <4>1, PidsAssumption DEF SumsTypeOK, TypeOK
    <3>2. next > 0 /\ next - 1 = Len(pid_list) /\ unprocessed_pids = <<>>
      BY <1>1, <2>2, <3>1 DEF ListInv
    <3>3. PICK R : R = ReadSoFar
      OBVIOUS
    <3>4. R = ToSet(pid_list) /\ R \in SUBSET Pids
      BY <3>1, <3>2, <3>3 DEF ReadSoFar, ToSet
    <3>5. shown \subseteq ToSet(pid_list)
      BY <1>1, <3>2, CoverAll DEF ListInv, SumsCoverInv, PstreeCovers
    <3>6. shown \cap R = shown
      BY <3>4, <3>5
    <3>7. SumOver(lo, shown \cap R) <= total /\ total <= SumOver(hi, R)
      BY <1>1, <3>2, <3>3 DEF GaugeInv
    <3>8. /\ IsFiniteSet(R) /\ \A x \in R : hi[x] \in Nat
          /\ \A x \in Pids : hi[x] \in Nat
          /\ \A x \in R \cap Pids : hi[x] <= hi[x]
          /\ \A x \in R \ Pids : hi[x] = 0
      BY <3>1, <3>4, FS_Subset
    <3>9. SumOver(hi, R) <= SumOver(hi, Pids)
      BY <3>1, <3>8, SumOverCompare
    <3>10. SumOver(hi, R) \in Nat /\ SumOver(hi, Pids) \in Nat
      BY <3>1, <3>8, SumOverLaws
    <3>11. \A a, b, c \in Nat : a <= b /\ b <= c => a <= c
      OBVIOUS
    <3>12. total <= SumOver(hi, Pids)
      BY <3>1, <3>7, <3>9, <3>10, <3>11, Zenon
    <3> QED BY <3>6, <3>7, <3>12, Zenon
  <2> QED BY <2>1, <2>2
<1>2. SumsSpec => []GaugeInv
  BY GaugeInit, GaugeStep, SumsInvAlways, PTL DEF SumsSpec
<1> QED BY <1>1, <1>2, SumsCoverAlways, SumsInvAlways, PTL

---------------------------------------------------------------------------
(* Sums of what nobody has lost are exact.                                 *)

\* Every process there is can be reached from the mother through the
\* children files.
AllReached ==
  \A S \in SUBSET Pids :
    Mother \in S /\ (\A q \in S : ChildrenFile(q) \subseteq S)
      => \A p \in Pids : Exists(p) => p \in S

\* As long as nothing is lost, the numbers add up to exactly what was used and
\* belong to processes that are there and can be found; and if nothing has
\* happened since the sample began, the list is made of all of them, and the
\* running sum is that of the processes read so far.
ExactInv == metric \in Counters /\ modern_kernel /\ lossless =>
  /\ SumOver(Count, Pids) = used
  /\ \A p \in Pids : Count[p] > 0 => Exists(p)
  /\ Exists(Mother) /\ AllReached
  /\ Sampling /\ quiet =>
       /\ \A p \in Pids : Exists(p) => p \in shown
       /\ next > 0 => total = SumOver(Count, ReadSoFar)

\* A set that is closed after a step is closed before it, up to the process
\* that the step takes away.
LEMMA ReachedStep ==
  ASSUME AllReached, NEW X \in SUBSET Pids, Mother \notin X,
         \A q \in X : ChildrenFile(q) = {},
         \A q \in Pids : \A c \in ChildrenFile(q) :
            c \in X \/ c \in ChildrenFile(q)' \/ c \in ChildrenFile(Mother)',
         NEW S \in SUBSET Pids, Mother \in S, \A q \in S : ChildrenFile(q)' \subseteq S
  PROVE  \A p \in Pids : Exists(p) => p \in S \cup X
<1> DEFINE T == S \cup X
<1>1. T \in SUBSET Pids /\ Mother \in T
  OBVIOUS
<1>2. ASSUME NEW q \in T, NEW c \in ChildrenFile(q) PROVE c \in T
  <2>1. q \in S
    BY <1>2
  <2> QED BY <1>2, <2>1
<1>3. \A q \in T : ChildrenFile(q) \subseteq T
  BY <1>2
<1> QED BY <1>1, <1>3 DEF AllReached

\* Nothing that keeps all numbers in the tree makes a process unreachable.
LEMMA LosslessReached ==
  ASSUME SumsTypeOK, MotherBorn, World, metric \in Counters, lossless',
         Exists(Mother), AllReached, \A c \in Pids : Exists(c) => ParentRuns(c)
  PROVE  lossless /\ Exists(Mother)' /\ AllReached'
<1>0. /\ st \in [Pids -> {"unborn", "running", "zombie", "gone"}]
      /\ parent \in [Pids -> Pids \cup {Outside}]
      /\ visible \in [Pids -> BOOLEAN]
      /\ parent[Mother] = Outside /\ Mother \in Pids /\ Outside \notin Pids
  BY PidsAssumption DEF SumsTypeOK, TypeOK, TreeTypeOK, MotherBorn
<1>a. ASSUME \A q \in Pids : ChildrenFile(q) \subseteq ChildrenFile(q)',
             \A q \in Pids : Exists(q)' => Exists(q)
      PROVE  AllReached'
  <2> SUFFICES ASSUME NEW S \in SUBSET Pids, Mother \in S,
                      \A q \in S : ChildrenFile(q)' \subseteq S
               PROVE  \A q \in Pids : Exists(q)' => q \in S
    BY DEF AllReached
  <2>1. \A q \in Pids : Exists(q) => q \in S \cup {}
    BY <1>a, ReachedStep
  <2> QED BY <1>a, <2>1
<1>1. ASSUME UNCHANGED <<vars, lossless>>
      PROVE  lossless /\ Exists(Mother)' /\ AllReached'
  BY <1>1 DEF vars, treeVars, Exists, AllReached, ChildrenFile, ChildrenOf
<1>2. ASSUME NEW p \in Pids, SumsEndsThread(p)
      PROVE  lossless /\ Exists(Mother)' /\ AllReached'
  <2>1. /\ UNCHANGED <<st, parent, lossless>>
        /\ visible' = [c \in Pids |-> visible[c] \/ parent[c] = p]
    BY <1>2 DEF SumsEndsThread, EndsThread, ThreadEnds
  <2>2. \A q \in Pids : Exists(q)' = Exists(q)
    BY <2>1 DEF Exists
  <2>3. \A q \in Pids : ChildrenFile(q) \subseteq ChildrenFile(q)'
    BY <1>0, <2>1, <2>2 DEF ChildrenFile, ChildrenOf
  <2> QED BY <1>0, <1>a, <2>1, <2>2, <2>3
<1>3. ASSUME NEW p \in Pids, NEW reaper \in {Mother, Outside}, SumsExits(p, reaper)
      PROVE  lossless /\ Exists(Mother)' /\ AllReached'
  <2>1. /\ st[p] = "running" /\ st' = [st EXCEPT ![p] = "zombie"]
        /\ parent' = [c \in Pids |-> IF parent[c] = p THEN reaper ELSE parent[c]]
        /\ visible' = [c \in Pids |-> visible[c] \/ parent[c] = p]
        /\ lossless' = (lossless /\ ~(reaper = Outside /\ ChildrenOf(p) # {}))
    BY <1>3 DEF SumsExits, Exits, Exit, Loses
  <2>2. \A q \in Pids : Exists(q)' = Exists(q)
    BY <1>0, <2>1 DEF Exists
  <2>3. \A q \in Pids : \A c \in ChildrenFile(q) :
          c \in {} \/ c \in ChildrenFile(q)' \/ c \in ChildrenFile(Mother)'
    <3> SUFFICES ASSUME NEW q \in Pids, NEW c \in ChildrenFile(q)
                 PROVE  c \in ChildrenFile(q)' \/ c \in ChildrenFile(Mother)'
      OBVIOUS
    <3>1. c \in Pids /\ Exists(c) /\ Exists(c)' /\ parent[c] = q /\ visible[c]
      BY <2>2 DEF ChildrenFile, ChildrenOf
    <3>2. visible'[c]
      BY <2>1, <3>1
    <3>3. CASE q = p
      <4>1. reaper = Mother
        BY <2>1, <3>1, <3>3 DEF ChildrenOf
      <4>2. parent'[c] = Mother
        BY <2>1, <3>1, <3>3, <4>1
      <4> QED BY <3>1, <3>2, <4>2 DEF ChildrenFile, ChildrenOf
    <3>4. CASE q # p
      <4>1. parent'[c] = q
        BY <2>1, <3>1, <3>4
      <4> QED BY <3>1, <3>2, <4>1 DEF ChildrenFile, ChildrenOf
    <3> QED BY <3>3, <3>4
  <2>4. AllReached'
    <3> SUFFICES ASSUME NEW S \in SUBSET Pids, Mother \in S,
                        \A q \in S : ChildrenFile(q)' \subseteq S
                 PROVE  \A q \in Pids : Exists(q)' => q \in S
      BY DEF AllReached
    <3>1. \A q \in Pids : Exists(q) => q \in S \cup {}
      BY <2>3, ReachedStep
    <3> QED BY <2>2, <3>1
  <2> QED BY <1>0, <2>1, <2>2, <2>4
<1>4. ASSUME NEW c \in Pids, WaitedFor(c)
      PROVE  lossless /\ Exists(Mother)' /\ AllReached'
  <2>1. /\ st[c] = "zombie" /\ st' = [st EXCEPT ![c] = "gone"]
        /\ UNCHANGED <<parent, visible>>
        /\ lossless' = (lossless /\ ~(parent[c] = Outside))
    BY <1>4 DEF WaitedFor, IsReaped, Reaped, Loses
  <2>2. c # Mother
    BY <1>0, <2>1
  <2>3. \A q \in Pids : Exists(q)' <=> Exists(q) /\ q # c
    BY <1>0, <2>1 DEF Exists
  <2>4. ChildrenFile(c) = {}
    <3>1. ASSUME NEW q \in ChildrenFile(c) PROVE FALSE
      <4>1. q \in Pids /\ Exists(q) /\ parent[q] = c
        BY <3>1 DEF ChildrenFile, ChildrenOf
      <4>2. ParentRuns(q)
        BY <4>1
      <4> QED BY <1>0, <2>1, <4>1, <4>2 DEF ParentRuns
    <3> QED BY <3>1
  <2>5. \A q \in Pids : \A d \in ChildrenFile(q) : d \in {c} \/ d \in ChildrenFile(q)'
    BY <2>1, <2>3 DEF ChildrenFile, ChildrenOf
  <2>6. AllReached'
    <3> SUFFICES ASSUME NEW S \in SUBSET Pids, Mother \in S,
                        \A q \in S : ChildrenFile(q)' \subseteq S
                 PROVE  \A q \in Pids : Exists(q)' => q \in S
      BY DEF AllReached
    <3>1. \A q \in {c} : ChildrenFile(q) = {}
      BY <2>4
    <3>2. \A q \in Pids : Exists(q) => q \in S \cup {c}
      BY <2>2, <2>5, <3>1, ReachedStep
    <3> QED BY <2>3, <3>2
  <2> QED BY <1>0, <2>1, <2>2, <2>3, <2>6
<1>5. ASSUME NEW c \in Pids, Discarded(c) PROVE FALSE
  BY <1>5 DEF Discarded, Loses
<1>6. ASSUME NEW p \in Pids, NEW c \in Pids, NEW byMain \in BOOLEAN, SumsForks(p, c, byMain)
      PROVE  lossless /\ Exists(Mother)' /\ AllReached'
  <2>1. /\ st[p] = "running" /\ st[c] = "unborn" /\ st' = [st EXCEPT ![c] = "running"]
        /\ parent' = [parent EXCEPT ![c] = p]
        /\ visible' = [visible EXCEPT ![c] = byMain]
        /\ lossless /\ byMain
    BY <1>6 DEF SumsForks, Forks, Fork, Loses
  <2>2. \A q \in Pids : Exists(q)' <=> Exists(q) \/ q = c
    BY <1>0, <2>1 DEF Exists
  <2>3. ~Exists(c) /\ Exists(p)
    BY <2>1 DEF Exists
  <2>4. \A q \in Pids : ChildrenFile(q) \subseteq ChildrenFile(q)'
    <3> SUFFICES ASSUME NEW q \in Pids, NEW d \in ChildrenFile(q) PROVE d \in ChildrenFile(q)'
      OBVIOUS
    <3>1. d \in Pids /\ Exists(d) /\ parent[d] = q /\ visible[d] /\ d # c
      BY <2>3 DEF ChildrenFile, ChildrenOf
    <3>2. Exists(d)' /\ parent'[d] = q /\ visible'[d]
      BY <1>0, <2>1, <2>2, <3>1
    <3> QED BY <3>1, <3>2 DEF ChildrenFile, ChildrenOf
  <2>5. c \in ChildrenFile(p)'
    BY <1>0, <2>1, <2>2 DEF ChildrenFile, ChildrenOf
  <2>6. AllReached'
    <3> SUFFICES ASSUME NEW S \in SUBSET Pids, Mother \in S,
                        \A q \in S : ChildrenFile(q)' \subseteq S
                 PROVE  \A q \in Pids : Exists(q)' => q \in S
      BY DEF AllReached
    <3>1. \A q \in Pids : Exists(q) => q \in S \cup {}
      BY <2>4, ReachedStep
    <3>2. c \in S
      BY <2>3, <2>5, <3>1
    <3> QED BY <2>2, <3>1, <3>2
  <2> QED BY <1>0, <2>1, <2>2, <2>6
<1>7. ASSUME NEW p \in Pids, Uses(p) \/ Resizes(p) PROVE UNCHANGED <<vars, lossless>>
  BY <1>7 DEF Uses, Resizes
<1> QED BY <1>1, <1>2, <1>3, <1>4, <1>5, <1>6, <1>7 DEF World

\* One number changes, and the sum with it.
LEMMA SumChange ==
  ASSUME NEW w \in [Pids -> Nat], NEW p \in Pids, NEW x \in Nat
  PROVE  SumOver([w EXCEPT ![p] = x], Pids) = SumOver(w, Pids) - w[p] + x
<1>1. PICK v : v = [w EXCEPT ![p] = x]
  OBVIOUS
<1>2. v \in [Pids -> Nat] /\ v[p] = x /\ \A q \in Pids \ {p} : w[q] = v[q]
  BY <1>1
<1>3. IsFiniteSet(Pids \ {p}) /\ \A q \in Pids \ {p} : w[q] \in Nat
  BY PidsAssumption, FS_Subset
<1>4. SumOver(w, Pids \ {p}) = SumOver(v, Pids \ {p})
  BY <1>2, <1>3, SumOverAgree
<1>5. SumOver(w, Pids \ {p}) \in Nat
  BY <1>3, SumOverLaws
<1>6. /\ SumOver(w, Pids) = w[p] + SumOver(w, Pids \ {p})
      /\ SumOver(v, Pids) = x + SumOver(v, Pids \ {p})
  BY <1>2, AllSum
<1>7. w[p] \in Nat
  OBVIOUS
<1> QED BY <1>1, <1>4, <1>5, <1>6, <1>7

\* What the processes do when nothing is lost: nothing to the numbers, one
\* unit used by a process that runs, or those of a child handed over to its
\* parent, which runs.
Counted(s, t) ==
  \/ t = s /\ Count' = Count
  \/ t = s + 1 /\ \E p \in Pids :
       st[p] = "running" /\ Count' = [Count EXCEPT ![p] = Count[p] + 1]
  \/ t = s /\ \E c, q \in Pids :
       /\ c # q /\ st[c] = "zombie" /\ st[q] = "running"
       /\ Count' = [Count EXCEPT ![c] = 0, ![q] = Count[q] + Count[c]]

LEMMA LosslessCounts ==
  ASSUME SumsTypeOK, World, metric \in Counters, lossless',
         \A p \in Pids : Count[p] > 0 => Exists(p),
         \A c \in Pids : Exists(c) => ParentRuns(c)
  PROVE  Counted(used, used')
<1>0. /\ own \in [Pids -> Nat] /\ waited \in [Pids -> Nat] /\ used \in Nat
      /\ st \in [Pids -> {"unborn", "running", "zombie", "gone"}]
      /\ parent \in [Pids -> Pids \cup {Outside}]
      /\ metric \notin Gauges /\ metric # "pss" /\ metric # "nthreads"
  BY DEF SumsTypeOK, TypeOK, TreeTypeOK, Counters, Gauges, CountMetrics
<1>1. ASSUME NEW p \in Pids, Uses(p) PROVE Counted(used, used')
  <2>1. /\ own' = [own EXCEPT ![p] = own[p] + 1] /\ waited' = waited
        /\ used' = used + 1 /\ st[p] = "running"
    BY <1>1 DEF Uses
  <2>2. \A q \in Pids : Count'[q] = IF q = p THEN Count[p] + 1 ELSE Count[q]
    BY <1>0, <2>1 DEF Count
  <2>3. Count' = [Count EXCEPT ![p] = Count[p] + 1]
    BY <2>2 DEF Count
  <2> QED BY <2>1, <2>3 DEF Counted
<1>2. ASSUME NEW p \in Pids, Resizes(p) PROVE FALSE
  BY <1>0, <1>2 DEF Resizes
<1>3. ASSUME UNCHANGED <<own, waited, used>> PROVE Counted(used, used')
  BY <1>3 DEF Counted, Count
<1>4. ASSUME NEW p \in Pids, SumsEndsThread(p) PROVE Counted(used, used')
  BY <1>3, <1>4 DEF SumsEndsThread, kernelVars
<1>5. ASSUME NEW p \in Pids, NEW reaper \in {Mother, Outside}, SumsExits(p, reaper)
      PROVE  Counted(used, used')
  <2>1. UNCHANGED <<waited, used>> /\ own' = own
    BY <1>0, <1>5 DEF SumsExits
  <2> QED BY <1>3, <2>1
<1>6. ASSUME NEW p \in Pids, NEW c \in Pids, NEW byMain \in BOOLEAN, SumsForks(p, c, byMain)
      PROVE  Counted(used, used')
  <2>1. UNCHANGED <<waited, used>> /\ own' = [own EXCEPT ![c] = 0] /\ st[c] = "unborn"
    BY <1>0, <1>6 DEF SumsForks, Forks, Fork, InitialOwn
  <2>2. own[c] = 0
    <3>1. ~Exists(c)
      BY <2>1 DEF Exists
    <3>2. Count[c] = own[c] + waited[c] /\ own[c] \in Nat /\ waited[c] \in Nat
      BY <1>0 DEF Count
    <3> QED BY <3>1, <3>2
  <2>3. own' = own
    BY <1>0, <2>1, <2>2
  <2> QED BY <1>3, <2>1, <2>3
<1>7. ASSUME NEW c \in Pids, Discarded(c) PROVE FALSE
  BY <1>7 DEF Discarded, Loses
<1>8. ASSUME NEW c \in Pids, WaitedFor(c) PROVE Counted(used, used')
  <2> DEFINE q == parent[c]
  <2>1. q # Outside /\ st[c] = "zombie"
    BY <1>8 DEF WaitedFor, Loses, IsReaped, Reaped
  <2>2. q \in Pids /\ st[q] = "running" /\ q # c
    <3>1. ParentRuns(c)
      BY <2>1 DEF Exists
    <3> QED BY <2>1, <3>1 DEF ParentRuns
  <2>3. /\ own' = [own EXCEPT ![c] = 0] /\ used' = used
        /\ waited' = [waited EXCEPT ![q] = waited[q] + own[c] + waited[c], ![c] = 0]
    BY <1>0, <1>8, <2>1 DEF WaitedFor
  <2>4. \A x \in Pids : Count'[x] = IF x = c THEN 0
                           ELSE IF x = q THEN Count[q] + Count[c] ELSE Count[x]
    BY <1>0, <2>2, <2>3 DEF Count
  <2>5. Count = [x \in Pids |-> Count[x]] /\ Count' = [x \in Pids |-> Count'[x]]
    BY DEF Count
  <2>6. Count' = [Count EXCEPT ![c] = 0, ![q] = Count[q] + Count[c]]
    BY <2>2, <2>4, <2>5
  <2> QED BY <2>1, <2>2, <2>3, <2>6 DEF Counted
<1> QED BY <1>1, <1>2, <1>4, <1>5, <1>6, <1>7, <1>8 DEF World

\* So the sum goes with what is used, and the numbers stay with processes that
\* are there.
LEMMA LosslessSum ==
  ASSUME Count \in [Pids -> Nat], Count' \in [Pids -> Nat],
         NEW s \in Nat, NEW t \in Nat, SumOver(Count, Pids) = s, Counted(s, t)
  PROVE  SumOver(Count', Pids) = t
<1>1. CASE t = s /\ Count' = Count
  BY <1>1
<1>2. ASSUME t = s + 1, NEW p \in Pids, Count' = [Count EXCEPT ![p] = Count[p] + 1]
      PROVE  SumOver(Count', Pids) = t
  <2>1. Count[p] \in Nat /\ Count[p] + 1 \in Nat
    OBVIOUS
  <2>2. SumOver([Count EXCEPT ![p] = Count[p] + 1], Pids)
          = SumOver(Count, Pids) - Count[p] + (Count[p] + 1)
    BY <2>1, SumChange
  <2> QED BY <1>2, <2>1, <2>2
<1>3. ASSUME t = s, NEW c \in Pids, NEW q \in Pids, c # q,
             Count' = [Count EXCEPT ![c] = 0, ![q] = Count[q] + Count[c]]
      PROVE  SumOver(Count', Pids) = t
  <2>1. PICK w : w = [Count EXCEPT ![c] = 0]
    OBVIOUS
  <2>2. /\ Count[c] \in Nat /\ Count[q] \in Nat /\ Count[q] + Count[c] \in Nat
        /\ w \in [Pids -> Nat] /\ w[q] = Count[q]
        /\ Count' = [w EXCEPT ![q] = Count[q] + Count[c]]
    BY <1>3, <2>1
  <2>a. 0 \in Nat
    OBVIOUS
  <2>3. SumOver(w, Pids) = s - Count[c] + 0
    <3>1. SumOver([Count EXCEPT ![c] = 0], Pids) = SumOver(Count, Pids) - Count[c] + 0
      BY <2>a, SumChange
    <3> QED BY <2>1, <3>1
  <2>b. SumOver([w EXCEPT ![q] = Count[q] + Count[c]], Pids)
          = SumOver(w, Pids) - w[q] + (Count[q] + Count[c])
    <3>1. w \in [Pids -> Nat] /\ Count[q] + Count[c] \in Nat /\ q \in Pids
      BY <2>2
    <3> QED BY ONLY <3>1, SumChange
  <2>4. SumOver(Count', Pids) = SumOver(w, Pids) - Count[q] + (Count[q] + Count[c])
    BY <2>2, <2>b
  <2> QED BY <1>3, <2>2, <2>3, <2>4
<1> QED BY <1>1, <1>2, <1>3 DEF Counted

\* Who goes away leaves no number behind.
LEMMA LosslessThere ==
  ASSUME SumsTypeOK, World, metric \in Counters, lossless', Counted(used, used'),
         \A p \in Pids : Count[p] > 0 => Exists(p)
  PROVE  \A p \in Pids : Count'[p] > 0 => Exists(p)'
<1>0. /\ own \in [Pids -> Nat] /\ waited \in [Pids -> Nat]
      /\ st \in [Pids -> {"unborn", "running", "zombie", "gone"}]
      /\ parent \in [Pids -> Pids \cup {Outside}]
      /\ metric \notin Gauges /\ Count \in [Pids -> Nat]
  BY DEF SumsTypeOK, TypeOK, TreeTypeOK, Counters, Gauges, CountMetrics, Count
<1>1. ASSUME NEW p \in Pids, Count'[p] > 0 PROVE Exists(p)
  <2>1. CASE Count[p] > 0
    BY <2>1
  <2>2. CASE st[p] = "running"
    BY <2>2 DEF Exists
  <2>3. Count[p] > 0 \/ st[p] = "running"
    <3>1. CASE Count' = Count
      BY <1>1, <3>1
    <3>2. ASSUME NEW q \in Pids, st[q] = "running", Count' = [Count EXCEPT ![q] = Count[q] + 1]
          PROVE  Count[p] > 0 \/ st[p] = "running"
      BY <1>0, <1>1, <3>2
    <3>3. ASSUME NEW c \in Pids, NEW q \in Pids, c # q, st[q] = "running",
                 Count' = [Count EXCEPT ![c] = 0, ![q] = Count[q] + Count[c]]
          PROVE  Count[p] > 0 \/ st[p] = "running"
      <4>1. CASE p = c
        BY <1>0, <1>1, <3>3, <4>1
      <4>2. CASE p # c /\ p # q
        BY <1>0, <1>1, <3>3, <4>2
      <4> QED BY <3>3, <4>1, <4>2
    <3> QED BY <3>1, <3>2, <3>3 DEF Counted
  <2> QED BY <2>1, <2>2, <2>3
<1>2. ASSUME NEW p \in Pids, Exists(p), Count'[p] > 0 PROVE Exists(p)'
  <2>1. ASSUME UNCHANGED st PROVE Exists(p)'
    BY <1>2, <2>1 DEF Exists
  <2>2. ASSUME NEW q \in Pids, WaitedFor(q) PROVE Exists(p)'
    <3>1. /\ st' = [st EXCEPT ![q] = "gone"] /\ own' = [own EXCEPT ![q] = 0]
          /\ waited'[q] = 0
      BY <1>0, <2>2 DEF WaitedFor, IsReaped, Reaped
    <3>2. Count'[q] = 0
      BY <1>0, <3>1 DEF Count
    <3>3. p # q
      BY <1>2, <3>2
    <3> QED BY <1>0, <1>2, <3>1, <3>3 DEF Exists
  <2>3. ASSUME NEW q \in Pids, Discarded(q) PROVE FALSE
    BY <2>3 DEF Discarded, Loses
  <2>4. ASSUME NEW q \in Pids, NEW reaper \in {Mother, Outside}, SumsExits(q, reaper)
        PROVE  Exists(p)'
    <3>1. st' = [st EXCEPT ![q] = "zombie"]
      BY <2>4 DEF SumsExits, Exits, Exit
    <3> QED BY <1>0, <1>2, <3>1 DEF Exists
  <2>5. ASSUME NEW q \in Pids, NEW c \in Pids, NEW byMain \in BOOLEAN, SumsForks(q, c, byMain)
        PROVE  Exists(p)'
    <3>1. st' = [st EXCEPT ![c] = "running"]
      BY <2>5 DEF SumsForks, Forks, Fork
    <3> QED BY <1>0, <1>2, <3>1 DEF Exists
  <2>6. ASSUME NEW q \in Pids, Uses(q) \/ Resizes(q) \/ SumsEndsThread(q) PROVE Exists(p)'
    <3>1. UNCHANGED st
      BY <2>6 DEF Uses, Resizes, SumsEndsThread, EndsThread, ThreadEnds, vars, treeVars
    <3> QED BY <2>1, <3>1
  <2> QED BY <2>2, <2>3, <2>4, <2>5, <2>6 DEF World
<1> QED BY <1>1, <1>2

LEMMA ExactInit == SumsInit => ExactInv
<1> SUFFICES ASSUME SumsInit, metric \in Counters PROVE ExactInv
  BY DEF ExactInv
<1>1. InitialOwn = 0
  BY DEF InitialOwn, Counters, Gauges, CountMetrics
<1>2. Count \in [Pids -> Nat] /\ \A p \in Pids : Count[p] = 0
  BY <1>1 DEF SumsInit, Zero, Count
<1>3. SumOver(Count, Pids) = 0
  BY <1>2, AllSum, SumZero DEF SumAtMost
<1>4. /\ ~Sampling /\ used = 0
      /\ st = [p \in Pids |-> IF p = Mother THEN "running" ELSE "unborn"]
  BY DEF SumsInit, Init, TreeInit, Sampling
<1>5. Exists(Mother) /\ \A p \in Pids : Exists(p) => p = Mother
  BY <1>4, PidsAssumption DEF Exists
<1> QED BY <1>2, <1>3, <1>4, <1>5 DEF ExactInv, AllReached

\* A walk over the children files is held to everybody they lead to.
LEMMA ShownClosed ==
  ASSUME AllReached
  PROVE  \A p \in Pids : Exists(p) => p \in ShownDescendants(Mother)
<1> DEFINE S == ShownDescendants(Mother)
<1>1. S \in SUBSET Pids /\ Mother \in S
  BY ShownType, PidsAssumption
<1>2. \A q \in S : ChildrenFile(q) \subseteq S
  <2>1. \A q \in Pids : ChildrenFile(q) \subseteq Pids
    BY DEF ChildrenFile, ChildrenOf
  <2> QED BY <2>1 DEF ShownDescendants, Reached, Closed
<1> HIDE DEF S
<1>3. \A p \in Pids : Exists(p) => p \in S
  BY <1>1, <1>2 DEF AllReached
<1> QED BY <1>3 DEF S

LEMMA LosslessBefore == World /\ lossless' => lossless
BY DEF World, Uses, Resizes, SumsEndsThread, WaitedFor, Discarded, SumsExits,
       SumsForks, Loses

\* What is read of a process whose number is still there is that number.
LEMMA ReadingExact ==
  ASSUME SumsTypeOK, metric \in Counters, \A p \in Pids : Count[p] > 0 => Exists(p),
         NEW p \in Pids
  PROVE  Reading(p) = Count[p]
<1>1. metric = "utime" \/ metric = "rchar"
  BY DEF Counters
<1>2. metric \notin CountMetrics /\ Count[p] = own[p] + waited[p] /\ Count[p] \in Nat
  BY <1>1 DEF CountMetrics, Count, SumsTypeOK
<1> QED BY <1>1, <1>2 DEF Reading, cpumon_reads, iomon_reads

LEMMA ExactStep == ListInv /\ SumsCoverInv /\ ExactInv /\ [SumsNext]_allVars => ExactInv'
<1> SUFFICES ASSUME ListInv, SumsCoverInv, ExactInv, [SumsNext]_allVars,
                    metric' \in Counters, modern_kernel', lossless'
             PROVE  /\ SumOver(Count', Pids) = used'
                    /\ \A p \in Pids : Count'[p] > 0 => Exists(p)'
                    /\ Exists(Mother)' /\ AllReached'
                    /\ Sampling' /\ quiet' =>
                         /\ \A p \in Pids : Exists(p)' => p \in shown'
                         /\ next' > 0 => total' = SumOver(Count', ReadSoFar')
  BY DEF ExactInv
<1>0. metric' = metric /\ modern_kernel' = modern_kernel /\ lossless
  <2>1. CASE World
    BY <2>1, WorldNumbers, NotedType, LosslessBefore DEF ListInv
  <2>2. CASE ~World
    BY <2>2 DEF SumsNext, World, SumsTerminated, SumsStartScan, SumsReads, PstreePids,
       SumsEndScan, ReadFile, SetStats, Report, BeginSample, setupVars, allVars
  <2> QED BY <2>1, <2>2
<1>a. /\ SumsTypeOK /\ MotherBorn /\ Count \in [Pids -> Nat] /\ used \in Nat /\ total \in Nat
      /\ pid_list \in Seq(Pids) /\ next \in Nat /\ modern_kernel /\ metric \in Counters
      /\ \A c \in Pids : Exists(c) => ParentRuns(c)
  <2>1. SumsTypeOK /\ MotherBorn
    BY DEF ListInv
  <2>2. Count \in [Pids -> Nat] /\ used \in Nat /\ total \in Nat
    BY <2>1 DEF SumsTypeOK, Count
  <2>3. pid_list \in Seq(Pids) /\ next \in 0..(Len(pid_list) + 1)
    BY <2>1 DEF SumsTypeOK, TypeOK
  <2>4. next \in Nat
    BY <2>3
  <2>5. \A c \in Pids : Exists(c) => ParentRuns(c)
    BY <1>0 DEF SumsCoverInv, CoverInv
  <2> QED BY <1>0, <2>1, <2>2, <2>3, <2>4, <2>5
<1>b. /\ SumOver(Count, Pids) = used
      /\ \A p \in Pids : Count[p] > 0 => Exists(p)
      /\ Exists(Mother) /\ AllReached
      /\ Sampling /\ quiet =>
           /\ \A p \in Pids : Exists(p) => p \in shown
           /\ next > 0 => total = SumOver(Count, ReadSoFar)
  BY <1>0, <1>a DEF ExactInv
<1>1. CASE World
  <2>1. SumsTypeOK' /\ Noted /\ UNCHANGED <<next, total>> /\ scanning' = scanning
    BY <1>1, <1>a, WorldNumbers, NotedType, WorldType, WorldTree DEF TreeMoves
  <2>2. Count' \in [Pids -> Nat] /\ used' \in Nat
    BY <2>1 DEF SumsTypeOK, Count
  <2>3. Counted(used, used')
    BY <1>1, <1>a, <1>b, LosslessCounts
  <2>4. SumOver(Count', Pids) = used'
    BY <1>a, <1>b, <2>2, <2>3, LosslessSum
  <2>5. \A p \in Pids : Count'[p] > 0 => Exists(p)'
    BY <1>1, <1>a, <1>b, <2>3, LosslessThere
  <2>6. Exists(Mother)' /\ AllReached'
    BY <1>1, <1>a, <1>b, LosslessReached
  <2>7. ~(Sampling' /\ quiet')
    BY <2>1 DEF Noted, Sampling
  <2> QED BY <2>4, <2>5, <2>6, <2>7
<1>2. ASSUME UNCHANGED <<st, parent, visible, own, waited, used>>
      PROVE  /\ Count' = Count /\ SumOver(Count', Pids) = used'
             /\ \A p \in Pids : Exists(p)' = Exists(p)
             /\ \A p \in Pids : Count'[p] > 0 => Exists(p)'
             /\ Exists(Mother)' /\ AllReached'
  <2>1. Count' = Count /\ \A p \in Pids : Exists(p)' = Exists(p)
    BY <1>2 DEF Count, Exists
  <2>2. AllReached' = AllReached
    BY <1>2, <2>1 DEF AllReached, ChildrenFile, ChildrenOf, Exists
  <2> QED BY <1>2, <1>b, <2>1, <2>2, PidsAssumption
<1>3. CASE SumsStartScan
  <2>1. /\ UNCHANGED <<st, parent, visible, own, waited, used, next>> /\ next = 0
        /\ shown' = ShownDescendants(Mother)
    BY <1>3 DEF SumsStartScan, StartScan, BeginSample, kernelVars, sumVars, treeVars
  <2>2. \A p \in Pids : Exists(p)' => p \in shown'
    BY <1>2, <1>b, <2>1, ShownClosed
  <2> QED BY <1>2, <2>1, <2>2
<1>4. CASE SumsReads
  <2>1. /\ UNCHANGED <<st, parent, visible, own, waited, used, next, shown, quiet>>
        /\ scanning' = scanning /\ scanning
    BY <1>4 DEF SumsReads, ReadChild, EndOfFile, kernelVars, sumVars, treeVars, histVars,
                spanVars
  <2>2. next = 0 /\ Sampling
    BY <2>1 DEF ListInv, Sampling
  <2> QED BY <1>2, <1>b, <2>1, <2>2
<1>5. CASE PstreePids
  BY <1>5, <1>a DEF PstreePids
<1>6. CASE SumsEndScan
  <2>1. /\ UNCHANGED <<st, parent, visible, own, waited, used, total, shown, quiet>>
        /\ scanning /\ next' = 1
    BY <1>6 DEF SumsEndScan, EndScan, kernelVars, treeVars, histVars, spanVars
  <2>2. Sampling /\ total = 0
    BY <2>1 DEF ListInv, Sampling
  <2>3. ReadSoFar' = {}
    BY <2>1 DEF ReadSoFar
  <2>4. SumOver(Count, {}) = 0
    BY SumOverEmpty
  <2>5. total' = SumOver(Count', ReadSoFar')
    BY <1>2, <2>1, <2>2, <2>3, <2>4
  <2> QED BY <1>2, <1>b, <2>1, <2>2, <2>5
<1>7. CASE ReadFile
  <2>1. /\ UNCHANGED <<st, parent, visible, own, waited, used, shown, quiet, pid_list>>
        /\ next \in 1..Len(pid_list) /\ next' = next + 1
        /\ total' = total + Reading(pid_list[next])
    BY <1>7 DEF ReadFile, vars, kernelVars, treeVars, histVars, scanVars, spanVars
  <2>2. Sampling /\ next > 0
    BY <1>a, <2>1 DEF Sampling
  <2>3. PICK p, R, Q : p = pid_list[next] /\ R = ReadSoFar /\ Q = ReadSoFar'
    OBVIOUS
  <2>4. p \in Pids /\ p \notin R /\ R \in SUBSET Pids /\ Q = R \cup {p}
    <3>1. next' - 1 = next
      BY <1>a, <2>1
    <3>2. Q = {pid_list[i] : i \in 1..next}
      BY <2>1, <2>3, <3>1 DEF ReadSoFar
    <3> QED BY <2>1, <2>3, <3>2, NotReadBefore
  <2>5. total' = total + Count[p]
    BY <1>a, <1>b, <2>1, <2>3, <2>4, ReadingExact
  <2>6. /\ IsFiniteSet(Q) /\ \A x \in Q : Count[x] \in Nat
        /\ p \in Q /\ Q \ {p} = R
    BY <1>a, <2>4, PidsAssumption, FS_Subset
  <2>7. SumOver(Count, Q) = Count[p] + SumOver(Count, R)
    BY <2>6, SumOverLaws
  <2>8. ASSUME quiet PROVE total' = SumOver(Count', Q)
    <3>1. total = SumOver(Count, R)
      BY <1>b, <2>2, <2>3, <2>8
    <3>2. Count[p] \in Nat /\ total \in Nat
      BY <1>a, <2>4
    <3> QED BY <1>2, <2>1, <2>5, <2>7, <3>1, <3>2
  <2> QED BY <1>2, <1>b, <2>1, <2>2, <2>3, <2>8
<1>8. CASE SetStats
  <2>1. /\ UNCHANGED <<st, parent, visible, own, waited, used, scanning>>
        /\ next' = 0 /\ next = Len(pid_list) + 1
    BY <1>8 DEF SetStats, Report, kernelVars, treeVars
  <2>2. ~Sampling'
    <3>1. next # 0
      BY <1>a, <2>1
    <3> QED BY <2>1, <3>1 DEF ListInv, Sampling
  <2> QED BY <1>2, <2>1, <2>2
<1>9. CASE UNCHANGED allVars
  <2>1. /\ UNCHANGED <<st, parent, visible, own, waited, used, scanning, next, total, shown>>
        /\ UNCHANGED <<quiet, pid_list>>
    BY <1>9 DEF allVars, vars, treeVars, scanVars, histVars, kernelVars, sumVars, spanVars
  <2>2. Sampling' = Sampling /\ ReadSoFar' = ReadSoFar
    BY <2>1 DEF Sampling, ReadSoFar
  <2> QED BY <1>2, <1>b, <2>1, <2>2
<1> QED BY <1>1, <1>3, <1>4, <1>5, <1>6, <1>7, <1>8, <1>9
        DEF SumsNext, World, SumsTerminated

\* CPU time and bytes are exact as long as no process has left the tree with
\* what it used: a sample during which nothing happens reports all that was
\* ever used, by whoever it was used and however many of them have been waited
\* for since, in whichever order the list was found.
THEOREM ExactWhenQuietCorrect == SumsSpec => ExactWhenQuiet
<1>1. ASSUME ListInv, CountInv, SumsCoverInv, ExactInv, SetStats, quiet, lossless,
             modern_kernel, metric \in Counters
      PROVE  stat'.value = used \div Unit
  <2>1. /\ SumsTypeOK /\ pid_list \in Seq(Pids) /\ Len(pid_list) \in Nat /\ total \in Nat
        /\ Count \in [Pids -> Nat] /\ stat \in P!MonitoredValueType /\ used \in Nat
        /\ IsFiniteSet(Pids) /\ Unit \in Nat \ {0}
    <3>1. SumsTypeOK
      BY <1>1 DEF ListInv
    <3> QED BY <3>1, PidsAssumption, SumsAssumption DEF SumsTypeOK, TypeOK, Count, Unit
  <2>2. next = Len(pid_list) + 1 /\ stat' = P!SetValue(stat, total \div Unit)
    BY <1>1 DEF SetStats, Report
  <2>3. next > 0 /\ next - 1 = Len(pid_list) /\ unprocessed_pids = <<>> /\ Sampling
    BY <1>1, <2>1, <2>2 DEF ListInv, Sampling
  <2>4. PICK R : R = ReadSoFar
    OBVIOUS
  <2>5. R = ToSet(pid_list) /\ R \in SUBSET Pids
    BY <2>1, <2>3, <2>4 DEF ReadSoFar, ToSet
  <2>6. shown \subseteq R
    BY <1>1, <2>3, <2>5, CoverAll DEF ListInv, SumsCoverInv
  <2>7. \A p \in Pids : Count[p] > 0 => p \in R
    BY <1>1, <2>3, <2>6 DEF ExactInv
  <2>8. total = SumOver(Count, R) /\ SumOver(Count, Pids) = used
    BY <1>1, <2>3, <2>4 DEF ExactInv
  <2>9. /\ IsFiniteSet(R) /\ \A x \in R : Count[x] \in Nat
        /\ \A x \in Pids : Count[x] \in Nat
        /\ \A x \in R \cap Pids : Count[x] <= Count[x]
        /\ \A x \in Pids \cap R : Count[x] <= Count[x]
        /\ \A x \in R \ Pids : Count[x] = 0
        /\ \A x \in Pids \ R : Count[x] = 0
    BY <2>1, <2>5, <2>7, FS_Subset
  <2>10. SumOver(Count, R) <= SumOver(Count, Pids)
    BY <2>1, <2>9, SumOverCompare
  <2>11. SumOver(Count, Pids) <= SumOver(Count, R)
    BY <2>1, <2>9, SumOverCompare
  <2>12. total = used
    BY <2>1, <2>8, <2>10, <2>11
  <2>13. stat.offset = 0 /\ stat.value * Unit <= used
    BY <1>1 DEF CountInv
  <2> DEFINE x == used \div Unit
  <2>14. x \in Nat /\ stat.value <= x /\ stat.value \in Nat
    <3>1. stat.value \in Nat
      BY <2>1 DEF P!MonitoredValueType
    <3>2. \A v, u \in Nat, d \in Nat \ {0} : v * d <= u => v <= u \div d
      <4> SUFFICES ASSUME NEW v \in Nat, NEW u \in Nat, NEW d \in Nat \ {0}, v > u \div d
                   PROVE  v * d > u
        OBVIOUS
      <4>1. PICK y : y = u \div d
        OBVIOUS
      <4>2. y \in Nat /\ u < y * d + d
        BY <4>1
      <4>3. PICK k \in Nat : v = y + 1 + k
        <5>1. v - y - 1 \in Nat /\ v = y + 1 + (v - y - 1)
          BY <4>1, <4>2
        <5> QED BY <5>1
      <4>4. v * d = y * d + d + k * d /\ k * d \in Nat /\ y * d \in Nat
        BY <4>2, <4>3
      <4> QED BY <4>2, <4>4
    <3> QED BY <2>1, <2>13, <3>1, <3>2
  <2> HIDE DEF x
  <2>15. stat'.value = x
    BY <2>1, <2>2, <2>12, <2>13, <2>14 DEF x, P!SetValue, P!Accepts, P!Recorded
  <2> QED BY <2>15 DEF x
<1>2. SumsSpec => []ExactInv
  BY ExactInit, ExactStep, SumsInvAlways, SumsCoverAlways, PTL DEF SumsSpec
<1>3. ListInv /\ CountInv /\ SumsCoverInv /\ ExactInv =>
        ((SetStats /\ quiet /\ lossless /\ modern_kernel /\ metric \in Counters)
           => stat'.value = used \div Unit)
  BY <1>1
<1> QED BY <1>2, <1>3, SumsInvAlways, SumsCoverAlways, PTL DEF ExactWhenQuiet
============================================================================
