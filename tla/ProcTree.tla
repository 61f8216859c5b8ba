------------------------------ MODULE ProcTree ------------------------------
(***************************************************************************)
(* The part of the Linux process table that prmon reads through /proc: who *)
(* is whose child, who has exited, and which children the file             *)
(* /proc/P/task/P/children of P's main thread shows.  Not part of prmon:   *)
(* modelled from what offspring_pids, cpumon and iomon rely on.  A process *)
(* identifier is used once (no reuse).                                     *)
(***************************************************************************)
EXTENDS Naturals, FiniteSets

CONSTANTS
  Mother,         \* root of the monitored tree
  Pids,           \* all processes that may ever belong to it
  Outside,        \* parent of the mother and of processes that left the tree
  ThreadedForks   \* threads other than the main thread may fork

ASSUME PidsAssumption ==
  Mother \in Pids /\ Outside \notin Pids /\ IsFiniteSet(Pids)
ASSUME FlagsAssumption == ThreadedForks \in BOOLEAN

VARIABLES st,       \* state of each process
          parent,   \* its parent
          visible   \* whether the children file of its parent shows it

treeVars == <<st, parent, visible>>

TreeTypeOK ==
  /\ st \in [Pids -> {"unborn", "running", "zombie", "gone"}]
  /\ parent \in [Pids -> Pids \cup {Outside}]
  /\ visible \in [Pids -> BOOLEAN]

TreeInit ==
  /\ st = [p \in Pids |-> IF p = Mother THEN "running" ELSE "unborn"]
  /\ parent = [p \in Pids |-> Outside]
  /\ visible = [p \in Pids |-> TRUE]

Exists(p) == st[p] \in {"running", "zombie"}

ChildrenOf(p) == {c \in Pids : Exists(c) /\ parent[c] = p}

\* Entries of /proc/p/task/p/children; none if p is gone.
ChildrenFile(p) == {c \in ChildrenOf(p) : visible[c]}

\* The kernel takes its lock anew for each entry of that file.  It goes on
\* behind the entry it returned last or, if that one has left the list of
\* children, by its number: as many children as have left the list after
\* they were returned may be skipped.  New ones come at the end, so that
\* none is returned twice.  "entries" are those returned so far.
Unreturned(p, entries) == ChildrenFile(p) \ entries
FileMayEnd(p, entries) ==
  Cardinality(Unreturned(p, entries)) <= Cardinality(entries \ ChildrenFile(p))

\* fork() by the main thread of p, or by another one.
Fork(p, c, byMain) ==
  /\ st[p] = "running" /\ st[c] = "unborn"
  /\ byMain \/ ThreadedForks
  /\ st' = [st EXCEPT ![c] = "running"]
  /\ parent' = [parent EXCEPT ![c] = p]
  /\ visible' = [visible EXCEPT ![c] = byMain]

\* When the forking thread of p ends, its children pass to the main thread.
ThreadEnds(p) ==
  /\ st[p] = "running" /\ ChildrenOf(p) # ChildrenFile(p)
  /\ visible' = [c \in Pids |-> visible[c] \/ parent[c] = p]
  /\ UNCHANGED <<st, parent>>

\* Who may adopt the children of p when p exits: the mother, if she has made
\* herself a subreaper, or some process outside.
Reapers(p) ==
  {Outside} \cup (IF p # Mother /\ st[Mother] = "running" THEN {Mother} ELSE {})

Exit(p, reaper) ==
  /\ st[p] = "running" /\ reaper \in Reapers(p)
  /\ ChildrenOf(p) = {} => reaper = Outside   \* nobody to adopt
  /\ st' = [st EXCEPT ![p] = "zombie"]
  /\ parent' = [c \in Pids |-> IF parent[c] = p THEN reaper ELSE parent[c]]
  /\ visible' = [c \in Pids |-> visible[c] \/ parent[c] = p]

\* A zombie goes away: its parent waited for it, or ignores SIGCHLD.
Reaped(c) ==
  /\ st[c] = "zombie"
  /\ st' = [st EXCEPT ![c] = "gone"]
  /\ UNCHANGED <<parent, visible>>
============================================================================
