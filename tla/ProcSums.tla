------------------------------ MODULE ProcSums ------------------------------
(***************************************************************************)
(* What cpumon, iomon, memmon and countmon do with the list of processes:  *)
(* they read one file per process, in the order of the list, and add up a  *)
(* number, while the processes go on working, forking, exiting and being   *)
(* waited for.  A behaviour follows one of the metrics; the list comes     *)
(* from offspring_pids or, on a kernel without children files, from        *)
(* pstree_pids.                                                            *)
(***************************************************************************)
EXTENDS OffspringScan, Sums

P == INSTANCE Parameter

CONSTANTS Metrics,    \* the metrics to follow
          MaxUse,     \* bound on what counters count and on what a gauge shows
          CounterSamples, GaugeSamples, \* bounds on the number of samples
          CLK_TCK     \* clock ticks per second

\* Counters: the kernel adds those of a child that was waited for to its
\* parent, in stat (cutime) as well as in io.  utime stands for stime too,
\* rchar for all lines of io, pss for all that is taken from smaps.
CountMetrics == {"nprocs", "nthreads"}
Counters == {"utime", "rchar"}
Gauges   == {"pss"} \cup CountMetrics

ASSUME SumsAssumption ==
  /\ Metrics \subseteq Counters \cup Gauges
  /\ MaxUse \in Nat /\ CLK_TCK \in Nat \ {0}
  /\ CounterSamples \in Nat /\ GaugeSamples \in Nat

VARIABLES
  metric,          \* the metric followed
  modern_kernel,   \* whether there are children files
  terse,           \* processes whose name has one character (at most one)
  own, waited,     \* per process: its number, and that of children waited for
  used,            \* history: all that counters have ever counted
  next,            \* position of update_stats in the list; 0 when it is idle
  total,           \* its running sum
  stat,            \* the monitored value
  samples,         \* number of samples taken
  quiet,           \* history: no process did anything since the sample began
  lossless,        \* history: all that was counted is still in the tree
  lo, hi           \* history: least and largest number of each process since
                   \* the sample began (gauges only)

setupVars  == <<metric, modern_kernel, terse>>
kernelVars == <<own, waited, used>>
sumVars    == <<next, total, stat, samples>>
spanVars   == <<quiet, lo, hi>>
allVars    == <<vars, setupVars, kernelVars, sumVars, spanVars, lossless>>

Zero == [p \in Pids |-> 0]

MaxSamples == IF metric \in Gauges THEN GaugeSamples ELSE CounterSamples

\* What exists has one thread and some memory; counters start at 0.
InitialOwn == IF metric \in Gauges THEN 1 ELSE 0

\* Constructors: cpumon and iomon make their values monotonic.
SumsInit ==
  /\ Init
  /\ metric \in Metrics /\ modern_kernel \in BOOLEAN
  /\ terse \in IF modern_kernel THEN {{}} ELSE {{}} \cup {{p} : p \in Pids}
  /\ own = [Zero EXCEPT ![Mother] = InitialOwn] /\ waited = Zero /\ used = 0
  /\ next = 0 /\ total = 0 /\ samples = 0
  /\ stat = P!NewMonitoredValue(metric \in Counters, 0)
  /\ quiet = TRUE /\ lossless = TRUE /\ lo = Zero /\ hi = Zero

\* Mutated form: children waited for are left out.
cpumon_reads_own(p) == own[p]

\* The numbers the four monitors take from the file of a process: utime and
\* cutime of stat; a line of io, where the kernel has added the children;
\* the sum over the mappings of smaps; and one process, or num_threads.
cpumon_reads(p)   == own[p] + waited[p]
iomon_reads(p)    == own[p] + waited[p]
memmon_reads(p)   == own[p]
countmon_reads(p) == own[p]

\* What p contributes: nothing if it is gone and its file cannot be opened.
Reading(p) ==
  CASE ~Exists(p)                           -> 0
    [] Exists(p) /\ metric = "utime"        -> cpumon_reads(p)
    [] Exists(p) /\ metric = "rchar"        -> iomon_reads(p)
    [] Exists(p) /\ metric = "pss"          -> memmon_reads(p)
    [] Exists(p) /\ metric \in CountMetrics -> countmon_reads(p)

---------------------------------------------------------------------------
(* The processes.                                                          *)

Sampling == scanning \/ next # 0

\* A process did something: the history variables of a sample under way.
\* This comes last in an action: it looks at the new state.
Noted ==
  /\ UNCHANGED <<setupVars, sumVars>>
  /\ quiet' = ~Sampling
  /\ IF Sampling /\ metric \in Gauges
     THEN /\ lo' = [p \in Pids |-> IF Reading(p)' < lo[p] THEN Reading(p)' ELSE lo[p]]
          /\ hi' = [p \in Pids |-> IF Reading(p)' > hi[p] THEN Reading(p)' ELSE hi[p]]
     ELSE UNCHANGED <<lo, hi>>

\* What counters counted leaves the tree for good, or for a while.
Loses(some) == lossless' = (lossless /\ ~(some /\ metric \in Counters))

Uses(p) ==
  /\ st[p] = "running" /\ metric \in Counters /\ used < MaxUse
  /\ own' = [own EXCEPT ![p] = @ + 1] /\ used' = used + 1
  /\ UNCHANGED <<vars, waited, lossless>> /\ Noted

\* Memory or threads come and go.
Resizes(p) ==
  /\ st[p] = "running" /\ metric \in Gauges \ {"nprocs"}
  /\ \E n \in (1..MaxUse) \ {own[p]} : own' = [own EXCEPT ![p] = n]
  /\ UNCHANGED <<vars, waited, used, lossless>> /\ Noted

SumsForks(p, c, byMain) ==
  /\ Forks(p, c, byMain)
  /\ own' = [own EXCEPT ![c] = InitialOwn]
  /\ Loses(~byMain)
  /\ UNCHANGED <<waited, used>> /\ Noted

SumsEndsThread(p) ==
  EndsThread(p) /\ UNCHANGED <<kernelVars, lossless>> /\ Noted

\* A zombie keeps its counters and its entry in the process table, but no
\* memory and one thread.  Children that leave the tree take theirs along.
SumsExits(p, reaper) ==
  /\ Exits(p, reaper)
  /\ own' = [own EXCEPT ![p] = CASE metric = "pss" -> 0
                                 [] metric = "nthreads" -> 1
                                 [] OTHER -> @]
  /\ Loses(reaper = Outside /\ ChildrenOf(p) # {})
  /\ UNCHANGED <<waited, used>> /\ Noted

\* The parent waits for c, and is charged with its counters ...
WaitedFor(c) ==
  LET q == parent[c] IN
  /\ IsReaped(c)
  /\ waited' = IF q = Outside \/ metric \in Gauges
               THEN [waited EXCEPT ![c] = 0]
               ELSE [waited EXCEPT ![q] = @ + own[c] + waited[c], ![c] = 0]
  /\ own' = [own EXCEPT ![c] = 0] /\ Loses(q = Outside)
  /\ UNCHANGED used /\ Noted

\* ... or it ignores SIGCHLD, and is not.
Discarded(c) ==
  /\ IsReaped(c) /\ Loses(TRUE)
  /\ own' = [own EXCEPT ![c] = 0] /\ waited' = [waited EXCEPT ![c] = 0]
  /\ UNCHANGED used /\ Noted

---------------------------------------------------------------------------
(* The list of processes.                                                  *)

\* The loop gets a list only after kill(mpid, 0) has found the mother.
BeginSample ==
  /\ next = 0 /\ samples < MaxSamples
  /\ quiet' = TRUE
  /\ lo' = IF metric \in Gauges THEN [p \in Pids |-> Reading(p)] ELSE Zero
  /\ hi' = lo'
  /\ UNCHANGED <<setupVars, kernelVars, sumVars, lossless>>

SumsStartScan == modern_kernel /\ BeginSample /\ StartScan

SumsReads ==
  /\ ReadChild \/ EndOfFile
  /\ UNCHANGED <<setupVars, kernelVars, sumVars, spanVars, lossless>>

\* Every order in which a set of processes may be listed.
Orders(S) == {cs \in [1..Cardinality(S) -> S] : IsInjective(cs)}

\* What pstree prints, external: the tree at some moment, parents first.
PstreeOutputs ==
  {l \in Orders(Descendants(Mother)) :
     \A i, j \in DOMAIN l : parent[l[i]] = l[j] => j < i}

\* Mutated form: the first line, the mother's, is taken for a heading.
ParsedButFirst(p) == p \notin terse \cup {Mother}

\* A line counts if the "(" before the process identifier is not among its
\* first two characters ("pos > 1").
Parsed(p) == p \notin terse

\* The processes of l whose lines count, in the order of l.
Listed(l) ==
  {s \in Orders({p \in Descendants(Mother) : Parsed(p)}) :
     \A i, j \in DOMAIN s : i < j =>
       \E a, b \in DOMAIN l : a < b /\ l[a] = s[i] /\ l[b] = s[j]}

\* pstree_pids: one line per process; nothing at all if popen fails.
PstreePids ==
  /\ ~modern_kernel /\ ~scanning /\ Exists(Mother)
  /\ BeginSample /\ UNCHANGED treeVars
  /\ scanning' = TRUE /\ unprocessed_pids' = <<>> /\ entries' = {}
  /\ \/ /\ \E l \in PstreeOutputs : pid_list' \in Listed(l)
        /\ stayed' = Descendants(Mother) /\ shown' = Descendants(Mother) \ terse
     \/ pid_list' = <<>> /\ stayed' = {} /\ shown' = {}

---------------------------------------------------------------------------
(* update_stats.                                                           *)

\* The list is returned, update_stats begins.
SumsEndScan ==
  /\ EndScan /\ next' = 1
  /\ UNCHANGED <<setupVars, kernelVars, total, stat, samples, spanVars, lossless>>

\* Mutated form: the position moves once in the body and once in the loop.
ReadFileSkips ==
  /\ next \in 1..Len(pid_list)
  /\ total' = total + Reading(pid_list[next]) /\ next' = next + 2
  /\ UNCHANGED <<vars, setupVars, kernelVars, stat, samples, spanVars, lossless>>

\* Mutated form: if a file cannot be opened, numbers read before are added.
ReadFileStale ==
  /\ next \in 1..Len(pid_list)
  /\ LET p == pid_list[next] IN
       total' = total + (IF Exists(p) THEN Reading(p) ELSE Reading(Mother))
  /\ next' = next + 1
  /\ UNCHANGED <<vars, setupVars, kernelVars, stat, samples, spanVars, lossless>>

ReadFile ==
  /\ next \in 1..Len(pid_list)
  /\ total' = total + Reading(pid_list[next]) /\ next' = next + 1
  /\ UNCHANGED <<vars, setupVars, kernelVars, stat, samples, spanVars, lossless>>

\* CPU time is reported in whole seconds.
Unit == IF metric = "utime" THEN CLK_TCK ELSE 1

\* The list is of no further use, and neither is the history of the sample.
Report ==
  /\ next = Len(pid_list) + 1
  /\ stat' = P!SetValue(stat, total \div Unit)
  /\ next' = 0 /\ samples' = samples + 1
  /\ pid_list' = <<>> /\ stayed' = {} /\ shown' = {}
  /\ quiet' = TRUE /\ lo' = Zero /\ hi' = Zero
  /\ UNCHANGED <<treeVars, scanning, unprocessed_pids, entries, setupVars,
                 kernelVars, lossless>>

\* Mutated form: the sums live on into the next sample.
SetStatsKeepsTotal == Report /\ UNCHANGED total

\* The sums are local to update_stats, and 0 when it begins.
SetStats == Report /\ total' = 0

SumsTerminated ==
  /\ ~Sampling /\ (st[Mother] = "gone" \/ samples = MaxSamples)
  /\ UNCHANGED allVars

SumsNext ==
  \/ \E p \in Pids : \/ Uses(p) \/ Resizes(p) \/ SumsEndsThread(p)
                     \/ WaitedFor(p) \/ Discarded(p)
  \/ \E p \in Pids, reaper \in {Mother, Outside} : SumsExits(p, reaper)
  \/ \E p, c \in Pids, byMain \in BOOLEAN : SumsForks(p, c, byMain)
  \/ SumsStartScan \/ SumsReads \/ PstreePids
  \/ SumsEndScan \/ ReadFile \/ SetStats \/ SumsTerminated

SumsSpec == SumsInit /\ [][SumsNext]_allVars

---------------------------------------------------------------------------
(* Properties.                                                             *)

\* Types of the variables of this module and of those it extends.
SumsTypeOK ==
  /\ TypeOK
  /\ metric \in Metrics /\ modern_kernel \in BOOLEAN /\ terse \subseteq Pids
  /\ own \in [Pids -> Nat] /\ waited \in [Pids -> Nat]
  /\ used \in Nat /\ total \in Nat /\ samples \in Nat
  /\ next \in 0..(Len(pid_list) + 1)
  /\ stat \in P!MonitoredValueType
  /\ quiet \in BOOLEAN /\ lossless \in BOOLEAN
  /\ lo \in [Pids -> Nat] /\ hi \in [Pids -> Nat]

\* What the monitors report: the value in the text file and, in the JSON, the
\* value again or the peak.
get_text_stats == stat.value
get_json_total_stats == IF metric \in Gauges THEN stat.max ELSE get_text_stats

\* CPU time or bytes are never reported that were not used: no child is
\* counted both in its own file and in that of its parent, although it may be
\* waited for between the two reads (cpumon.cpp:35-51, iomon.cpp:36-49, with
\* prmonutils.cpp:85-96).
NeverOverstated == metric \in Counters =>
  total <= used /\ get_text_stats * Unit <= used

\* Memory and numbers of processes and threads are sums of numbers their
\* processes really had during the sample: at least the least of everyone in
\* "shown", whom the list may not miss, at most the largest of everyone, although the files
\* are read at different moments, processes come and go in between, and a
\* process may already be gone when its file is opened (memmon.cpp:36-59,
\* countmon.cpp:37-52).  The peak in the JSON is never lower than what the
\* text file shows.
SumWithinSample == metric \in Gauges =>
  /\ next = Len(pid_list) + 1 =>
       /\ SumOver(lo, shown) <= total
       /\ total <= SumOver(hi, Pids)
  /\ get_text_stats <= get_json_total_stats

\* If nothing happened during a sample and no process has left the tree or
\* been discarded, the sample reports all that was used so far: zombies and
\* children already waited for included.
ExactWhenQuiet ==
  [][(SetStats /\ quiet /\ lossless /\ modern_kernel /\ metric \in Counters)
       => stat'.value = used \div Unit]_allVars
============================================================================
