--------------------------- MODULE OffspringScan ---------------------------
(***************************************************************************)
(* offspring_pids() of prmonutils.cpp: a breadth first walk over the       *)
(* children files, one entry read per step, while the processes go on      *)
(* forking, exiting and being reaped between the reads.                    *)
(***************************************************************************)
EXTENDS ProcTree, Sequences, SequencesExt

VARIABLES scanning,          \* whether a walk is under way
          unprocessed_pids,  \* the deque
          pid_list,          \* the result so far
          entries,           \* processes that the file of the front process,
                             \* which is being read, has returned
          stayed,            \* history: processes that have been in the tree,
                             \* undisturbed, since the walk began
          shown              \* history: those of them that the children files
                             \* led to when it began and that could be read
                             \* before a sibling ahead of them went away

scanVars == <<scanning, unprocessed_pids, pid_list, entries>>
histVars == <<stayed, shown>>
vars == <<treeVars, scanVars, histVars>>

\* p and everybody reached from it when below[q] are found at q: the members of
\* every set that holds p and, with any process, those below it.
Closed(S, below) == \A q \in S : below[q] \subseteq S
Reached(p, below) ==
  LET closed == {S \in SUBSET Pids : p \in S /\ Closed(S, below)}
  IN  {q \in Pids : \A S \in closed : q \in S}

Descendants(p) ==
  LET below == [q \in Pids |-> ChildrenOf(q)] IN Reached(p, below)
ShownDescendants(p) ==
  LET below == [q \in Pids |-> ChildrenFile(q)] IN Reached(p, below)

Init ==
  /\ TreeInit
  /\ scanning = FALSE /\ unprocessed_pids = <<>> /\ pid_list = <<>>
  /\ entries = {}
  /\ stayed = {} /\ shown = {}

---------------------------------------------------------------------------
(* The walk.                                                               *)

StartScan ==
  /\ ~scanning /\ Exists(Mother)
  /\ scanning' = TRUE
  /\ unprocessed_pids' = <<Mother>> /\ pid_list' = <<>> /\ entries' = {}
  /\ stayed' = Descendants(Mother) /\ shown' = ShownDescendants(Mother)
  /\ UNCHANGED treeVars

\* The process whose children file is being read.
front == Head(unprocessed_pids)

\* A turn of the inner while loop: one more process identifier is read from
\* the file of the front process.
ReadChild ==
  /\ scanning /\ unprocessed_pids # <<>>
  /\ \E next_pid \in Unreturned(front, entries) :
       /\ unprocessed_pids' = Append(unprocessed_pids, next_pid)
       /\ entries' = entries \cup {next_pid}
  /\ UNCHANGED <<treeVars, scanning, pid_list, histVars>>

\* Mutated forms of EndOfFile: the front is not popped ...
EndOfFileKeepsFront ==
  /\ scanning /\ unprocessed_pids # <<>> /\ FileMayEnd(front, entries)
  /\ pid_list' = Append(pid_list, front) /\ entries' = {}
  /\ UNCHANGED <<treeVars, scanning, unprocessed_pids, histVars>>

\* ... the result is built back to front ...
EndOfFilePrepends ==
  /\ scanning /\ unprocessed_pids # <<>> /\ FileMayEnd(front, entries)
  /\ pid_list' = <<front>> \o pid_list
  /\ unprocessed_pids' = Tail(unprocessed_pids) /\ entries' = {}
  /\ UNCHANGED <<treeVars, scanning, histVars>>

\* ... "if" for "while": one child is read of every file.
EndOfFileAfterOne ==
  /\ scanning /\ unprocessed_pids # <<>>
  /\ entries # {} \/ FileMayEnd(front, entries)
  /\ pid_list' = Append(pid_list, front)
  /\ unprocessed_pids' = Tail(unprocessed_pids) /\ entries' = {}
  /\ UNCHANGED <<treeVars, scanning, histVars>>

\* The file, if it could be opened at all, is at its end: the front process
\* moves to the result.
EndOfFile ==
  /\ scanning /\ unprocessed_pids # <<>> /\ FileMayEnd(front, entries)
  /\ pid_list' = Append(pid_list, front)
  /\ unprocessed_pids' = Tail(unprocessed_pids) /\ entries' = {}
  /\ UNCHANGED <<treeVars, scanning, histVars>>

\* The deque is empty: the list is returned.
EndScan ==
  /\ scanning /\ unprocessed_pids = <<>>
  /\ scanning' = FALSE
  /\ UNCHANGED <<treeVars, unprocessed_pids, pid_list, entries, histVars>>

---------------------------------------------------------------------------
(* The processes meanwhile.                                                *)

Forks(p, c, byMain) == Fork(p, c, byMain) /\ UNCHANGED <<scanVars, histVars>>
EndsThread(p) == ThreadEnds(p) /\ UNCHANGED <<scanVars, histVars>>
Exits(p, reaper) ==
  /\ Exit(p, reaper) /\ UNCHANGED scanVars
  /\ LET ds == Descendants(p) IN stayed' = stayed \ ds /\ shown' = shown \ ds

\* A process that goes away after its entry was returned may cost its
\* siblings still to come, and those below them, their place in the list.
Skippable(c) ==
  IF c \in entries /\ parent[c] = front THEN Unreturned(front, entries) ELSE {}

IsReaped(c) ==
  /\ Reaped(c) /\ UNCHANGED scanVars
  /\ stayed' = stayed \ {c}
  /\ shown' = shown \ ({c} \cup UNION {Descendants(d) : d \in Skippable(c)})

TreeNext ==
  \/ \E p, c \in Pids, byMain \in BOOLEAN : Forks(p, c, byMain)
  \/ \E p \in Pids, reaper \in {Mother, Outside} : Exits(p, reaper)
  \/ \E p \in Pids : EndsThread(p) \/ IsReaped(p)

ScanNext == StartScan \/ ReadChild \/ EndOfFile \/ EndScan

\* The mother has gone: prmon makes no further walk.
Terminated == ~scanning /\ st[Mother] = "gone" /\ UNCHANGED vars

Next == TreeNext \/ ScanNext \/ Terminated

Spec == Init /\ [][Next]_vars

---------------------------------------------------------------------------
(* Properties.                                                             *)

\* Everything put on the deque so far, in that order.
Found == pid_list \o unprocessed_pids

\* Types of the variables.
TypeOK ==
  /\ TreeTypeOK
  /\ scanning \in BOOLEAN
  /\ unprocessed_pids \in Seq(Pids) /\ pid_list \in Seq(Pids)
  /\ entries \subseteq Pids
  /\ stayed \subseteq Pids /\ shown \subseteq Pids

\* No process is counted twice in a sample, although it may change its parent
\* while the walk is under way (prmonutils.cpp:85-96).
NoDuplicates ==
  \A i, j \in 1..Len(Found) : Found[i] = Found[j] => i = j

\* A process never precedes its parent, not even the parent it was given
\* after it was found.  cpumon and iomon depend on it: they read the list
\* front to back, and a parent read after its child would contain that child
\* again as soon as it had waited for it (prmonutils.cpp:79-96).
ParentsFirst ==
  \A i, j \in 1..Len(Found) : parent[Found[i]] = Found[j] => j < i

\* The walk misses nobody it could find: a process that the children files
\* led to when the walk began is in the list, unless it exited, lost an
\* ancestor, or it or an ancestor was still to be read from a children file
\* when a process already read from that file was waited for.  Forks, exits
\* and changes of parent anywhere else cost nobody his place
\* (prmonutils.cpp:85-96).
ShownTreeCovered ==
  scanning /\ unprocessed_pids = <<>> => shown \subseteq ToSet(pid_list)

\* "all children in the same process tree are monitored as well"
\* (README.md:124), whichever thread forked them.
TreeCovered ==
  scanning /\ unprocessed_pids = <<>> => stayed \subseteq ToSet(pid_list)
============================================================================
