------------------------------ MODULE NvidiaMon ------------------------------
(***************************************************************************)
(* nvidiamon: the choice between NVML and nvidia-smi when it is            *)
(* constructed, a sample by either method while the driver goes on         *)
(* measuring, and the clean up.  Of the four statistics, gpumempct is      *)
(* treated exactly like gpusmpct and left out.                             *)
(***************************************************************************)
EXTENDS Parameter, Sums, SequencesExt

CONSTANTS
  ngpus,         \* number of GPUs
  Pids,          \* processes that may use a GPU, monitored or not
  Utils,         \* utilisation values, per cent
  Bytes,         \* memory as NVML gives it; 0: the process is not listed
  Megabytes,     \* memory as nvidia-smi gives it
  MaxTimeStamp,  \* bound on the driver's time stamps
  MaxLines,      \* bound on the lines of nvidia-smi
  MaxUpdates     \* bound on the number of samples

ASSUME GpusAssumption == ngpus \in Nat \ {0}
ASSUME PidsAssumption == IsFiniteSet(Pids)
ASSUME ReadingsAssumption ==
  Utils \subseteq Nat /\ Bytes \subseteq Nat /\ Megabytes \subseteq Nat
ASSUME BoundsAssumption ==
  MaxTimeStamp \in Nat /\ MaxLines \in Nat /\ MaxUpdates \in Nat

VARIABLES
  pc, active_method,
  nvml_handle,        \* whether the handle of libnvidia-ml.so is set
  opened,             \* external: dlopen calls not yet closed
  initialised,        \* external: nvmlInit calls not yet shut down
  nvidia_stats, nvidia_stats_update,
  pids,               \* argument of update_stats
  gpu_idx, last_seen_timestamp, current_max_timestamp,  \* NVML
  lines, activegpus,                                    \* nvidia-smi
  util,               \* external: time stamp of the newest utilisation sample
  updates,            \* number of samples taken
  counted,            \* history: NVML samples that were added up
  current, reported,  \* history: what the last sample should give, and
                      \* whether its method had anything to say
  peak                \* history: largest of these

lifeVars  == <<active_method, nvml_handle, opened, initialised>>
statVars  == <<nvidia_stats, nvidia_stats_update>>
nvmlVars  == <<gpu_idx, last_seen_timestamp, current_max_timestamp>>
smiVars   == <<lines, activegpus>>
histVars  == <<counted, current, reported, peak>>
vars == <<pc, lifeVars, statVars, pids, nvmlVars, smiVars, util, updates, histVars>>

Gpus  == 0..(ngpus - 1)
Names == {"ngpus", "gpusmpct", "gpufbmem"}
Zeros == [n \in Names |-> 0]

MB_to_KB     == 1024
BYTES_PER_KB == 1024

\* A line of nvidia-smi pmon is readable; or it is not, as an idle GPU is
\* shown with "-" in place of a process; or a utilisation or memory in it is
\* neither a number nor "-", which counts as 0.
Readable == [gpu : Gpus, pid : Pids, sm : Utils, fb : Megabytes]
Unreadable == [gpu |-> 0]
Malformed == [sm |-> 0]
Lines == Readable \cup {Unreadable, Malformed}
IsReadable(l) == l \notin {Unreadable, Malformed}

Init ==
  /\ pc = "load" /\ active_method = "NONE"
  /\ nvml_handle = FALSE /\ opened = 0 /\ initialised = 0
  /\ nvidia_stats = [n \in Names |-> NewMonitoredValue(FALSE, 0)]
  /\ nvidia_stats_update = Zeros /\ pids = {}
  /\ gpu_idx = 0 /\ last_seen_timestamp = 0 /\ current_max_timestamp = 0
  /\ lines = <<>> /\ activegpus = {}
  /\ util = [g \in Gpus |-> [p \in Pids |-> 0]]
  /\ updates = 0
  /\ counted = {} /\ current = Zeros /\ reported = FALSE /\ peak = Zeros

---------------------------------------------------------------------------
(* Construction.                                                           *)

Constructing(from, to) ==
  /\ pc = from /\ pc' = to
  /\ UNCHANGED <<statVars, pids, nvmlVars, smiVars, util, updates, histVars>>

\* dlopen of load_nvml_lib, under either name of the library.
LoadNvmlLib ==
  \/ /\ Constructing("load", "resolve")
     /\ nvml_handle' = TRUE /\ opened' = opened + 1
     /\ UNCHANGED <<active_method, initialised>>
  \/ Constructing("load", "smi_test") /\ UNCHANGED lifeVars

ResolveSymbols ==
  /\ \/ Constructing("resolve", "init")
     \/ Constructing("resolve", "load_error")
  /\ UNCHANGED lifeVars

\* Mutated form: only the handle is forgotten.
LoadErrorKeepsOpen ==
  /\ Constructing("load_error", "smi_test") /\ nvml_handle' = FALSE
  /\ UNCHANGED <<active_method, opened, initialised>>

\* A symbol is missing: dlclose.
LoadError ==
  /\ Constructing("load_error", "smi_test")
  /\ nvml_handle' = FALSE /\ opened' = opened - 1
  /\ UNCHANGED <<active_method, initialised>>

\* nvmlInit() of init_nvml.  If it fails, the library stays open.
NvmlInit ==
  \/ Constructing("init", "count") /\ initialised' = initialised + 1
                                   /\ UNCHANGED <<active_method, nvml_handle, opened>>
  \/ Constructing("init", "smi_test") /\ UNCHANGED lifeVars

\* Mutated form: NVML is not shut down if it has no GPU to offer.
CountGpusNoShutdown ==
  \/ Constructing("count", "idle") /\ active_method' = "NVML"
                                   /\ UNCHANGED <<nvml_handle, opened, initialised>>
  \/ Constructing("count", "smi_test") /\ UNCHANGED lifeVars

\* nvmlDeviceGetCount of init_nvml; a failure or no GPU is the second case.
CountGpus ==
  \/ Constructing("count", "idle") /\ active_method' = "NVML"
                                   /\ UNCHANGED <<nvml_handle, opened, initialised>>
  \/ Constructing("count", "smi_test") /\ initialised' = initialised - 1
                                       /\ UNCHANGED <<active_method, nvml_handle, opened>>

\* test_nvidia_smi.  If it fails too, ProcessMonitor finds the monitor
\* invalid and drops it at once.
TestNvidiaSmi ==
  \/ Constructing("smi_test", "idle") /\ active_method' = "SMI"
                                      /\ UNCHANGED <<nvml_handle, opened, initialised>>
  \/ Constructing("smi_test", "drop") /\ UNCHANGED lifeVars

\* ~nvidiamon(), when ProcessMonitor returns or drops the monitor.
Destroy ==
  /\ pc \in {"idle", "drop"} /\ pc' = "destroyed"
  /\ initialised' = IF active_method = "NVML" THEN initialised - 1 ELSE initialised
  /\ nvml_handle' = FALSE
  /\ opened' = IF nvml_handle THEN opened - 1 ELSE opened
  /\ UNCHANGED <<active_method, statVars, pids, nvmlVars, smiVars, util,
                 updates, histVars>>
---------------------------------------------------------------------------
(* A sample.                                                               *)

SetValues(stats, new) == [n \in Names |-> SetValue(stats[n], new[n])]

Larger(a, b) == [n \in Names |-> IF a[n] > b[n] THEN a[n] ELSE b[n]]

BeginUpdate(method, label) ==
  /\ pc = "idle" /\ active_method = method /\ updates < MaxUpdates
  /\ pc' = label /\ updates' = updates + 1
  /\ pids' \in SUBSET Pids
  /\ nvidia_stats_update' = Zeros

(* update_stats_nvml *)

BeginNvml ==
  /\ BeginUpdate("NVML", "nvml")
  /\ gpu_idx' = 0 /\ current_max_timestamp' = last_seen_timestamp
  /\ UNCHANGED <<lifeVars, nvidia_stats, last_seen_timestamp, smiVars, util, histVars>>

\* External: nvmlDeviceGetProcessUtilization gives the samples that are newer
\* than the time stamp it is passed, one per process.
NewSamples(g) == {p \in Pids : util[g][p] > last_seen_timestamp}

AtDevice ==
  /\ pc = "nvml" /\ gpu_idx < ngpus
  /\ gpu_idx' = gpu_idx + 1
  /\ UNCHANGED <<pc, lifeVars, nvidia_stats, pids, last_seen_timestamp,
                 smiVars, util, updates, current, reported, peak>>

NewestSample ==
  Max({current_max_timestamp} \cup {util[gpu_idx][p] : p \in NewSamples(gpu_idx)})

\* No handle, no utilisation samples, or too many of them.
SkipDevice ==
  /\ AtDevice
  /\ UNCHANGED <<current_max_timestamp, nvidia_stats_update, counted>>

\* The memory query fails after the utilisation samples have been seen.
SkipAfterSamples ==
  /\ AtDevice
  /\ current_max_timestamp' = NewestSample
  /\ UNCHANGED <<nvidia_stats_update, counted>>

\* query_device_samples and accumulate_process_stats succeed; u and m are the
\* utilisation and the memory of the processes.
QueryDevice ==
  /\ AtDevice
  /\ current_max_timestamp' = NewestSample
  /\ \E u \in [Pids -> Utils], m \in [Pids -> Bytes] :
       LET sampled == pids \cap NewSamples(gpu_idx)
           listed  == {p \in pids : m[p] > 0}
           add == [gpusmpct |-> SumOver(u, sampled),
                   gpufbmem |-> SumOver([p \in Pids |-> m[p] \div BYTES_PER_KB], listed),
                   ngpus    |-> IF sampled \cup listed # {} THEN 1 ELSE 0]
       IN /\ nvidia_stats_update' =
               [n \in Names |-> nvidia_stats_update[n] + add[n]]
          /\ counted' = counted \cup {<<gpu_idx, p, util[gpu_idx][p]>> : p \in sampled}

\* Mutated form: the time stamp is not carried over to the next sample.
EndNvmlForgets ==
  /\ pc = "nvml" /\ gpu_idx = ngpus /\ pc' = "idle"
  /\ nvidia_stats' = SetValues(nvidia_stats, nvidia_stats_update)
  /\ current' = nvidia_stats_update /\ reported' = TRUE
  /\ peak' = Larger(peak, nvidia_stats_update)
  /\ UNCHANGED <<lifeVars, nvidia_stats_update, pids, nvmlVars, smiVars, util,
                 updates, counted>>

EndNvml ==
  /\ pc = "nvml" /\ gpu_idx = ngpus /\ pc' = "idle"
  /\ last_seen_timestamp' = current_max_timestamp
  /\ nvidia_stats' = SetValues(nvidia_stats, nvidia_stats_update)
  /\ current' = nvidia_stats_update /\ reported' = TRUE
  /\ peak' = Larger(peak, nvidia_stats_update)
  /\ UNCHANGED <<lifeVars, nvidia_stats_update, pids, gpu_idx,
                 current_max_timestamp, smiVars, util, updates, counted>>

\* External: the driver takes a sample of p on GPU g while prmon runs.
Clock == Max({util[g][p] : g \in Gpus, p \in Pids})

DriverSamples(g, p) ==
  /\ active_method = "NVML" /\ pc # "destroyed" /\ Clock < MaxTimeStamp
  /\ util' = [util EXCEPT ![g][p] = Clock + 1]
  /\ UNCHANGED <<pc, lifeVars, statVars, pids, nvmlVars, smiVars, updates, histVars>>

(* update_stats_smi *)

\* What the lines of one output say about the processes ps.
Ours(l, ps) == IsReadable(l) /\ l.pid \in ps
SmOf(out, ps) == [i \in 1..Len(out) |-> IF Ours(out[i], ps) THEN out[i].sm ELSE 0]
FbOf(out, ps) ==
  [i \in 1..Len(out) |-> IF Ours(out[i], ps) THEN out[i].fb * MB_to_KB ELSE 0]
GpusOf(out, ps) == {out[i].gpu : i \in {j \in 1..Len(out) : Ours(out[j], ps)}}

TotalOf(out, ps) ==
  [gpusmpct |-> SumOf(SmOf(out, ps)), gpufbmem |-> SumOf(FbOf(out, ps)),
   ngpus    |-> Cardinality(GpusOf(out, ps))]

Outputs == UNION {[1..n -> Lines] : n \in 0..MaxLines}

BeginSmi ==
  /\ BeginUpdate("SMI", "smi")
  /\ activegpus' = {}
  /\ \E out \in Outputs :
       /\ lines' = out
       /\ current' = TotalOf(out, pids') /\ peak' = Larger(peak, current')
       /\ reported' = \E i \in DOMAIN out : IsReadable(out[i])
  /\ UNCHANGED <<lifeVars, nvidia_stats, nvmlVars, util, counted>>

\* nvidia-smi cannot be run, or fails.
SmiFails ==
  /\ BeginUpdate("SMI", "idle") /\ reported' = FALSE
  /\ UNCHANGED <<lifeVars, nvidia_stats, nvmlVars, smiVars, util, counted,
                 current, peak>>

AtLine(label) ==
  /\ pc = "smi" /\ lines # <<>> /\ pc' = label
  /\ lines' = Tail(lines)
  /\ UNCHANGED <<lifeVars, pids, nvmlVars, util, updates, histVars>>

SkipLine ==
  /\ AtLine("smi") /\ Head(lines) = Unreadable
  /\ UNCHANGED <<statVars, activegpus>>

\* parse_uint_field throws, nothing catches it, and prmon is aborted without
\* calling any destructor.
LineAborts ==
  /\ AtLine("aborted") /\ Head(lines) = Malformed
  /\ UNCHANGED <<statVars, activegpus>>

\* Mutated form: a GPU is counted once per line.
ActiveGpuEveryLine(g) == 1

\* "Avoid double counting active GPUs"
ActiveGpu(g) == IF g \in activegpus THEN 0 ELSE 1

\* Mutated form: the lines before are forgotten.
AddedOnlyLast(l) ==
  [Zeros EXCEPT !.gpusmpct = l.sm, !.gpufbmem = l.fb * MB_to_KB,
                !.ngpus = ActiveGpu(l.gpu)]

\* The line l of a monitored process is added up.
Added(l) ==
  [nvidia_stats_update EXCEPT !.gpusmpct = @ + l.sm,
                              !.gpufbmem = @ + l.fb * MB_to_KB,
                              !.ngpus = @ + ActiveGpu(l.gpu)]

\* The persistent values are set after every readable line, whosever it is.
ReadLine ==
  /\ AtLine("smi")
  /\ LET l == Head(lines) IN
       /\ IsReadable(l)
       /\ IF l.pid \in pids
          THEN /\ nvidia_stats_update' = Added(l)
               /\ activegpus' = activegpus \cup {l.gpu}
          ELSE UNCHANGED <<nvidia_stats_update, activegpus>>
       /\ nvidia_stats' = SetValues(nvidia_stats, nvidia_stats_update')

EndSmi ==
  /\ pc = "smi" /\ lines = <<>> /\ pc' = "idle"
  /\ UNCHANGED <<lifeVars, statVars, pids, nvmlVars, smiVars, util, updates, histVars>>

Terminated == pc \in {"destroyed", "aborted"} /\ UNCHANGED vars

Next ==
  \/ LoadNvmlLib \/ ResolveSymbols \/ LoadError \/ NvmlInit \/ CountGpus
  \/ TestNvidiaSmi \/ Destroy
  \/ BeginNvml \/ SkipDevice \/ SkipAfterSamples \/ QueryDevice \/ EndNvml
  \/ BeginSmi \/ SmiFails \/ SkipLine \/ LineAborts \/ ReadLine \/ EndSmi
  \/ \E g \in Gpus, p \in Pids : DriverSamples(g, p)
  \/ Terminated

Spec == Init /\ [][Next]_vars

---------------------------------------------------------------------------
(* Properties.                                                             *)

\* What the monitor reports: values in the text file, peaks in the JSON.
get_text_stats(n) == nvidia_stats[n].value
get_json_total_stats(n) == nvidia_stats[n].max

\* Whichever way construction failed, NVML is used only while it is
\* initialised and its library open, and in the end it has been shut down as
\* often as it was initialised and closed as often as it was opened
\* (nvidiamon.cpp:83-124, 441-524).
LibraryBalanced ==
  /\ pc = "nvml" => opened = 1 /\ initialised = 1
  /\ initialised > 0 => opened > 0
  /\ pc = "destroyed" => opened = 0 /\ initialised = 0

\* No utilisation sample of the driver is added up in two samples of prmon,
\* although one time stamp serves all GPUs and some of them may be skipped
\* (nvidiamon.cpp:142-190, 229-253).
EachSampleOnce ==
  [][QueryDevice =>
       \A p \in pids \cap NewSamples(gpu_idx) :
          <<gpu_idx, p, util[gpu_idx][p]>> \notin counted]_vars

\* The value after a sample is the total over the monitored processes in that
\* sample, if it contained anything readable at all: nothing remains of the
\* lines and samples before it (nvidiamon.cpp:301-336).
TotalIfReported ==
  pc = "idle" /\ reported =>
    \A n \in Names : get_text_stats(n) = current[n]

\* The maximum is the largest total of any sample.  The partial sums that
\* nvidia-smi's lines leave behind do not disturb it (nvidiamon.cpp:334-336).
PeakIsLargestTotal ==
  pc \in {"idle", "destroyed"} => \A n \in Names : get_json_total_stats(n) = peak[n]

\* "the stat getter methods which retrieve current statistics"
\* (nvidiamon.h:125): after the GPUs have become idle, they are not reported
\* as used.
IdleGpusReportedIdle ==
  pc = "idle" /\ updates > 0 /\ current = Zeros =>
    \A n \in Names : get_text_stats(n) = 0
============================================================================
