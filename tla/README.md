# A verification project for prmon

prmon watches a process and everything it forks: every `interval` seconds it
reads the counters the kernel and the GPU driver offer, appends a row to a text
file and rewrites a JSON summary, until the process ends. These TLA+ modules
model its control flow and its accounting against the world it has no control
over: processes that fork and exit while `/proc` is being read, signals, a
clock, full disks, commands that fail, GPUs and network devices that come and go.
TLC checks small instances of every module; TLAPS proves every safety property the
passing runs check for every value of the constants, and that two of the
specifications implement what their interface promises.

Source references are to `src/package/src/` unless they start with another
directory.

## 1. The system

prmon is one thread. Its concurrency is with the outside.

| Component | State | Operations | Talks to |
|---|---|---|---|
| `monitored_value` (parameter.cpp) | value, maximum, sum, iterations, offset | `set_value`, `set_offset`, accessors | used by every monitor |
| `ProcessMonitor` (prmon.cpp:40-245) | the loop: `first`, `lastIteration`, `return_code`; text file, `_tmp`, `_snapshot` and final JSON | sample, write row, write and rename summary, sleep, reap, clean up | monitors, process lists, `sigusr1` |
| `reap_children`, `SignalCallbackHandler` (prmonutils.cpp:100-133) | `sigusr1` | wait for children without blocking; set the flag | the loop |
| `offspring_pids`, `pstree_pids` (prmonutils.cpp:32-98) | a deque and a list | walk over `/proc/P/task/P/children`; or parse pstree | the kernel; give the list to all monitors |
| cpumon | utime, stime; thread and memory nodes seen, migrations | `update_stats` | `/proc/P/stat`, `task`, `numa_maps`; lscpu once |
| nvidiamon | method in use, library handle, last time stamp, four values | construct (NVML, else nvidia-smi), `update_stats`, destroy | NVML or `cmd_pipe_output` |
| wallmon | start time known or not, wtime | `update_stats`, `get_wallclock_t` | `/proc/P/stat`, `/proc/uptime`; gives the loop the time for averages |
| netmon | open streams, offsets, four counters | construct, `update_stats`, averages | `/sys/class/net` |
| iomon, memmon, countmon | counters and gauges summed over the list | `update_stats`, averages; memmon can switch to `smaps_rollup` | `/proc/P/io`, `smaps`, `stat` |
| popl (include/popl.hpp) | values per option, words that are no options | `parse` | `main` |
| `main` (prmon.cpp:247-410), registry, MessageBase | disabled monitors, log levels | collect options and the environment, check, fork and exec, create monitors | popl, ProcessMonitor |
| `cmd_pipe_output` (utils.cpp:16-96) | a pipe and a child | run a command and split its output into lines | nvidiamon, memmon, cpumon |
| prmon_compress_output.py, prmon_plot.py | a table of rows | thin out, draw | the text file, afterwards |

What is hard here, and what a unit test hardly reaches:

* **Reads at different moments.** A sample reads one file after the other while
  processes fork, exit, change their parent and are waited for, threads move,
  pages and packets are counted. A process may be counted twice, once itself
  and once through the parent that waited for it, or not at all.
* **Being killed.** The snapshot exists so that something is left when a batch
  system kills prmon; it must be complete and current at every moment.
* **Failing file operations.** None of them changes what prmon does next.
* **Order of events at the end.** Exit of the mother, SIGUSR1, another child and
  the end of a pass come in any order; the exit code has to survive them.
* **Refused readings.** `set_value` drops a reading that would lower a
  monotonic value; nobody looks at its return code.
* **Two processes on one pipe.** A command writes more than the pipe holds, closes
  its output, fails or is killed at any moment, and its lines do not fit the
  buffer they are read with.
* **A program is started before its monitors exist.** Whatever can still fail
  after the fork would leave it running unobserved.
* **Boundaries.** Whole seconds compared strictly, clock ticks divided down to
  seconds, an uptime read into a float, averages cut to three decimals.

`PROJECT.json` lists the hazards at their lines, with the properties that would
notice them going wrong.

## 2. Modules

| Module | Models | Composes |
|---|---|---|
| `Parameter` | `monitored_value` as operators on a record | |
| `Sums` | sums over sequences and sets, for saying what a total should be | |
| `SampleSummary` | what a monitored value promises: the statistics of the series of its samples | `Sums` |
| `MonitoredValue` | one object and any sequence of calls on it | `Parameter`; implements `SampleSummary` |
| `ProcessMonitor` | the loop, its files, reaping, the signal, and its world | `Parameter`, `Sums` |
| `ProcTree` | the kernel's process table, as far as prmon reads it (external) | |
| `OffspringScan` | `offspring_pids` | `ProcTree` |
| `ProcSums` | the sums of cpumon, iomon, memmon and countmon over the processes of the list | `OffspringScan`, `Parameter`, `Sums` |
| `NumaMon` | NUMA locality of a sample | `Parameter` |
| `NvidiaMon` | nvidiamon | `Parameter`, `Sums` |
| `WallMon`, `NetMon` | wallmon and netmon | `Parameter`; `NetMon` also `Sums` |
| `Rates` | samples of both, and the averages made from them | `WallMon`, `NetMon` |
| `OptionParser` | `parse` of popl, with the options of `main` | |
| `Options` | `main` up to the loop, and the beginning of `ProcessMonitor()` | `OptionParser` |
| `Command` | what `cmd_pipe_output` promises: the lines a command wrote, and how it ended | |
| `CmdPipe` | `cmd_pipe_output`, the pipe and the command | implements `Command` |
| `MC...` | instances for TLC | |
| `SumsProofs` | lemmas about `Sums` | |
| `...Proofs` | theorems about the module of that name; `ProcSumsProofs` also about `OffspringScan`, `MonitorsProofs` about `Rates` (so `WallMon` and `NetMon`) and `NumaMon` | |

Operators whose comment begins with "Mutated form" are never used by a
specification. Each is a definition with a plausible bug in it; putting it in
place of the definition that follows must make TLC find some property violated,
which shows that the property depends on the code.

### How state and actions correspond to the code

**Parameter, MonitoredValue.** The record has the members of the class.
`Accepts` is the two early returns of `set_value`, `Recorded` its assignments;
`SetOffset` assigns whatever the return code is. `mon_value` is 64 bits wide and
nothing prmon reads comes near that, so values are natural numbers; the one place
where the width matters, the subtraction of an offset larger than the reading,
shows up as a negative number, which the type invariant refuses.

**ProcessMonitor.** `pc` has one label per observable step: loop test, update,
row, open, write and rename of the temporary file, sleep, each `waitpid`, closing
the text file, removal of the snapshot, open and write of the final file, return. `child_mode` tells
`prmon -- program` from `prmon --pid`. A file is absent, partial (opened, which
truncates it, but not written) or full with some contents. `FileOpFails` lets any
of the six operations on the JSON files fail, and does what the code does then:
nothing different. The monitors are one gauge and one counter with arbitrary readings;
averages are cut as prmon.cpp:172-199 cuts them. The world: SIGUSR1, SIGKILL of
prmon, processes exiting with any status, the mother's own parent waiting for
her, and a clock that may run at any speed while prmon works.
The text file is a stream (`file`), and only what has got out of it counts (`text`,
against `samples`, which has every row): opening it and each write of a row may fail.
A stream that has failed takes no further row, for the rest of the run; the one row
left in its buffer may still go out later (`BufferTried`), at the latest when the
stream is closed (`CloseText`). Opening the final summary with the same stream
clears its state.

**ProcTree, OffspringScan.** A process is unborn, running, zombie or gone, and
has a parent. Its entry in the children file of that parent is missing if a
thread other than the main thread forked it, until that thread ends. Orphans go
to the mother, if she is a subreaper, or leave the tree. `offspring_pids` reads a
children file entry by entry: `ReadChild` is one turn of the inner loop, `EndOfFile`
the end of a file and one turn of the outer one, and processes do something between
any two of them. The kernel takes its lock anew for each entry, and where an entry it
has returned is gone it goes on by number: `FileMayEnd` lets it end the file with as
many children unread as have left the list after they were returned. `shown` holds
whoever the walk can be held to, and `Skippable` takes from it those who lose their
place in this way, with everybody below them. Who belongs to the tree (`Descendants`) is the
least set that holds the mother and, with a process, its children; this is a set
rather than a recursion, so that it can be reasoned about.

**ProcSums.** A behaviour follows one metric: `utime` (stands for stime), `rchar`
(for all lines of io), `pss` (for all that is summed over smaps), `nprocs` or
`nthreads`. The list comes from `offspring_pids` or, without children files, from
`pstree_pids`: an external command that shows the tree of one moment, of which
names of one character (`terse`) are not recognised (`Listed` is what remains, in
pstree's order), and nothing at all is read if popen fails. Every read of a file of
`/proc/P` is a step (`ReadFile`), and processes do something between any two of them.
Counters of a child go to the parent that
waits for it (`WaitedFor`), or are lost if the parent ignores SIGCHLD
(`Discarded`); gauges change at will. History variables say what a sample can be
held to: `used` is all that was ever counted, `lossless` that all of it is still in
the tree, `quiet` that nothing happened during the sample, `lo` and `hi` the least
and largest number each process had since the sample began.

**NumaMon.** `StartLocality` begins the NUMA part of a sample, with any list of
processes: the loop makes a new one for every sample (prmon.cpp:149-156), so that a
process may leave it and take its pages along, or come back. A CPU is represented by
its node, or `Unmapped` if lscpu did not name it. Threads start, with new or used
identifiers, move and end and pages are allocated and freed between the reads.
`numa_maps` of a process can be opened or not. The order of an unordered map is a
choice. The history variable `counted` holds the processes whose pages the last sample
to look at them counted, and `turnover` how many came into this set or dropped out.

**NvidiaMon.** Construction tries dlopen, the symbols of the library, `nvmlInit`, the
device count and nvidia-smi, each of which may fail; `LoadError` is the dlclose after a
missing symbol, a step of its own. With NVML, each device is a step; the driver
takes new utilisation samples in between. With nvidia-smi, each line of its
output is a step; a line is readable or it is not (an idle GPU is printed with
`-` for the process, which is not a number), or `std::stoul` throws on one of its fields
and prmon is aborted (`LineAborts`; section 6). `TotalOf` is what the output as a whole
amounts to: sums over its readable lines of monitored processes, and the number of
their GPUs.

**WallMon, NetMon, Rates.** Times are in clock ticks, but the float of wallmon.cpp:72
is one of seconds: `AsFloat` is the float nearest to t / `CLK_TCK` seconds, ties going to
the even one, as a multiple of the smallest float, 1 / `Finest` of a second.
`FloatStep` is the distance of the floats around a time: the smallest float times one of
`PowersOfTwo`, doubling with every power of two of the seconds. `Significand` is 2^24 in
the program, where the distance is two seconds from 2^24 seconds on. In `NetMon` a stream
that is not good leaves `value_read` as it is, as operator>> does. `Rates` calls
the two monitors in either order, because the map of monitors is unordered.

**OptionParser, Options.** A word of the command line is an atom; the constants
`Long` and `Short` say which option and which attached argument it stands for, as
the parser finds them by searching for `=` and by taking letter after letter. One
step handles one word, and the next one if it is taken as an argument. An exception
of the parser is caught nowhere, so that prmon ends by SIGABRT (code 134), and so
it does if the log file cannot be opened (`LogFails`). The variable
`PRMON_DISABLE_MONITOR` is a sequence of names and commas, scanned piece by piece as
in prmonutils.cpp:152-177. `Launch` is the fork, or nothing with `--pid`;
`CreateMonitors`, `Configure` and `WriteHeader` are the beginning of
`ProcessMonitor()`, up to the state in which the module `ProcessMonitor` starts.
File names, network devices and the interval are passed through.

**CmdPipe.** Steps of the caller: pipe, fork, each character fgets takes from the
pipe, each piece it returns, end of file and close, wait. Steps of the child: exec
or its failure, each character written (which blocks while the pipe is full),
closing its output, exit, death. `writers` are the holders of the write end: there
is an end of file only when it is empty. `fds` counts the ends prmon holds;
`forkFailures` is there because the early return after a failed fork closes
neither. In `Command`, `IsLines` says what the lines of an output are by the
positions of its newlines.

## 3. Runs

Runs that pass:

| Run | Instance | Shows |
|---|---|---|
| `monitored_value` | readings 0..3, offsets 0..2, 4 samples, both kinds of object | maximum is the peak, average below maximum, monotonic values and maxima never lowered; implements `SampleSummary` |
| `loop` | interval 1, clock to 3, both modes, exit codes 0 and 3, failing files, the text file's stream included, kills, fairness | a snapshot is never half written (unless an operation failed) and is that of all samples, or of all but the last until the next rename; whatever has failed, the rows in the text file are the first samples, a snapshot is that of some first samples, the final summary that of all; clean exit; spacing of samples; the program's exit code survives; the end of the mother and SIGUSR1 end prmon |
| `sums` | 3 processes with threaded forks, both kinds of list, 5 metrics, counters to 2, gauges to 2, 2 samples of a counter and 1 of a gauge, 2 ticks per second, symmetry | nobody is listed twice or before its parent; nobody whom the children files led to is lost, unless the kernel skips him; CPU time and bytes are never overstated, and exact if nothing moved and nothing left the tree; memory and counts lie between what the processes had at the least and at the most |
| `nvidia` | 2 GPUs, 2 processes, 2 samples, 3 driver time stamps, 2 lines | library balanced on every path; no driver sample added twice; value and maximum are totals of samples |
| `numa` | 2 processes of one thread, up to 2 pages on each of 2 nodes, 3 events, 3 samples | migrations of threads are explained by moves and reuse of identifiers; those of memory by changes of memory, processes joining or leaving what is counted, or ties |
| `rates` | 2 devices, 2 samples, uptime to 11 ticks, 2 ticks per second, floats of 2 significant bits | wtime is the elapsed time up to a second and the rounding of a float; traffic is reported within the bounds of the moments of its reads |
| `options` | command lines of up to 4 words out of 14, 4 environments, 4 monitors | words after `--` reach the program untouched; the monitors and levels are those asked for; a started program is monitored; the exit code fits; every memory column can be filled |
| `cmd_pipe` | 3 calls, outputs of up to 5 characters, a pipe of 2, a buffer of 3, 5 descriptors, fairness | the caller gets exactly the lines that were written and a code that tells what happened (`Command`); only failed forks leave descriptors open; every call returns |

Runs that find a violation, each a statement of the repository that the code does
not meet:

| Run | Property | What happens |
|---|---|---|
| `disk_full` | `SnapshotWasWritten` | prmon.cpp:204 sets `wroteFile` without looking at the stream; after a failed write the partial temporary file is renamed over the last good snapshot |
| `offspring_threads` | `TreeCovered` | README.md:124 promises all children of the tree; those forked by a thread other than the main thread are not found while it lives |
| `nvidia_idle` | `IdleGpusReportedIdle` | nvidiamon.cpp:334 sets values per readable line; with none, the values of an earlier sample are written again |
| `rates_doc` | `AverageIsPerSecond` | netmon.cpp:154 (and iomon.cpp:91) multiply by ticks per second and divide by a time in seconds: "B/s" is too large by 100 |

### Why the bounds are enough

The interesting cases need few actors: a file half written and a kill; a child
waited for between two reads; two samples, so that the second meets the state the
first left; two devices, GPUs or nodes, so that one can fail or tie with the
other. `MaxTime` of 3 with an interval of 1 gives two samples: enough for a row that is
lost and one that comes too late for the stream, for two rows that are too close, and for
a snapshot that is not replaced; longer series are covered by the theorems. Three
processes are enough for a chain in which the middle one exits, and for two siblings of
which one is skipped in the children file when the other goes away. Threads and memory
share no state in `NumaMon` but the list of processes, so that it is enough if a behaviour
has one of them at work (`OneHalf`, a constraint of that run). Four words
are an option with its argument, `--` and a program with an option-like argument; the
words include every form the parser knows (attached and separate arguments, groups
of letters, a switch with an argument, unknown letters). The output of 5 characters
is longer than the pipe and than two buffers, and a third call can meet the
descriptors two failed forks left, which is why a pipe cannot be opened any more.
The run `loop` has no child of prmon other than the program; that the exit code
survives any number of those is a theorem. `cmd_pipe` does not check deadlock, since
the number of calls is bounded; that nobody waits for ever during a call is the
property `CallReturns`.
With `Significand` 4, `Finest` 4 and 2 ticks per second, floats are 1/4 second apart
below 1 second and two seconds apart from 4 seconds on, so that the uptime crosses three
powers of two in 11 ticks and is rounded up and down, as it is after 2^24 seconds.
Processes
other than the mother are interchangeable, which makes the symmetry sound. All
other bounds are guards on the environment, or on the number of samples; none cuts a
step of prmon short.

### Fairness

In the loop, liveness is checked under `WF_vars(PrmonStep)` alone: prmon is one
thread, its `waitpid` does not block and its sleep is finite, so it goes on whenever
it can. Nothing is assumed of the world: the mother need not end, no signal need
come, the clock need not move.

`CmdPipe` assumes `WF_vars(Caller)`, for the same reason, and `WF_vars(ChildStep)`:
the command goes on and ends. The latter is a fact about lscpu and nvidia-smi that
prmon relies on. It is what `PrmonStep` needs to be fair when a monitor runs a
command; see section 6 for a command that hangs.

## 4. Theorems

The proofs assume what the `ASSUME`s of the modules say: constants are natural
numbers or finite sets, the mother is not another child, wallmon and memmon are
registered, no monitor is named by a comma or by nothing, the sets of processes,
threads and nodes are finite, the list of network devices names none twice (as the
directory it is read from does not; see section 6 for `--netdev`), and there is at least one clock tick per second. They say nothing of the
bounds. Every invariant and every action property that a passing run checks is a
theorem, and so is the refinement of both abstract specifications.

**Sums.** `SumsProofs` says what the sums of `Sums` compute: a value appended to a
sequence is added, a set is summed in any order, a sum whose elements count less is
smaller (`SumOverCompare`). These need induction over data. The library's induction
theorems take an operator as a parameter and cannot be used with the provers at
hand, but that every non-empty set of natural numbers has a least element
(`LeastNat`) needs no such parameter; the lemmas argue with the set of lengths or
cardinalities for which they hold (`UpTo`).

**MonitoredValueProofs.** Types (no subtraction goes below zero), the maximum is the
peak, the average is below it, nothing is lowered. The inductive invariant `IInv` adds
that the maximum of an object without samples is 0, and that a monotonic value equals
its maximum. Without the first, the first sample could be below the maximum; without
the second, a monotonic object, which overwrites its maximum, could lose the peak.
`SampleSummaryImplemented`: an object that keeps no history implements the statistics
of the whole series; `StatInv` ties value, sum and number of iterations to the
samples, so that every call maps to a sample or to a stutter.

**ProcessMonitorProofs.**
* No half written snapshot, clean exit: `FilesInv` says which files can be in which
  state at which label; only this rules out that a partial temporary file reaches the
  rename.
* Exit code: `ExitInv` follows the code of the mother from her exit through
  `wait_code` and `return_code`, and says that between her being reaped and the loop
  test nobody assigns `return_code` again: the loop must be left at the very next
  test, which is the reason the code survives.
* Spacing of samples: `SpacingInv` relates the last row to `lastIteration`, and both to
  the clock, at every label between the test and the row. `PromptRows`: as long as time
  passes only in the sleep, rows are exactly interval + 1 seconds apart (`PromptInv`: the
  clock is behind the end of the interval until the sleep and at most a second past it
  afterwards).
* `SummariesCorrect`: whatever file operations fail, the rows in the text file are the
  first samples in their order, all of them while its stream is good; a complete
  snapshot is the summary of some first samples, and a complete final summary that of
  all, also of those the text file has lost. `TextInv` follows the stream: the text file
  is complete while it is good, and what it holds back is the row after its last.
  `StatsInv` ties the running statistics of the gauge to the samples, one reading ahead
  between update and row; `StoredInv` says of the temporary file what the property says of the snapshot, as a
  failed rename leaves it behind and a later one may put it in place.
* `SnapshotFreshCorrect`: while no operation on the JSON files fails, the snapshot is a
  sample behind only between the row and the rename of the same pass (`FreshInv`).

**ProcSumsProofs, the walk.** No process twice, none before its parent, for any finite set
of processes. `ScanInv` says that the parent of every process found so far is outside or
has already been read (`ParentRead`). An exit keeps it, because orphans go to the
mother, who is read first, or outside; and it makes sure that a file still to be read
cannot show a process again. `ShownTreeCoveredCorrect`: the processes a walk is held to
are generated from the mother by the parent relation (`Generated`, which takes the
place of induction along paths), exits and reaping keep that, and whoever's parent has
been read has been found (`CoverInv`). `Spared` adds, of the file that is being read, that
if an entry it has returned has left it, the walk is not held to anybody still to come
from it; otherwise the kernel skips nobody, and the file ends only when all have been
returned.

**ProcSumsProofs, the sums.** The same of the list while the sums are made from it, whether it
comes from the children files or from pstree (`ListsSound`, `ListsComplete`): `Ranked`
gives every process of the tree a rank above its parent's, along which the list
ascends. `NeverOverstatedCorrect`: the counters of those not yet passed add up to no more
than what was used and has not been added to the total (`CountInv`); when a child is
waited for, its counters move to a parent of lower rank: from an unread process they
move to another one or out of sight, and from one already passed never back among the
unread. This is where the order of the list is needed. `SumWithinCorrect`: the running
sum of a gauge lies between what those read so far had at the least and at the most
(`GaugeInv`), where nobody is read twice. `ExactWhenQuietCorrect`: as long as nothing has
left the tree, the counters add up to exactly what was used, and only processes that
are still there have any (`ExactInv`). That the list holds all of these takes more than
the parent relation: `AllReached` says that every set which holds the mother and, with
a process, its children file, holds every process there is. An exit or a wait keeps it
(`ReachedStep`); and if nothing happens during the sample, the processes found by the
walk are such a set (`ShownClosed`), so that nobody is missing and the sum over the
list, in any order, is the sum over all.

**NvidiaMonProofs.** The NVML library is used only while it is initialised, and is shut
down and closed by the end, whichever way construction fails (`LifeInv`); no driver
sample is added twice (`StampInv`: a sample already counted is not newer than the last
time stamp seen or, while devices are being read, than the largest one met so far; all
devices share that one time stamp). `TotalCorrect` and `PeakCorrect`: value and maximum
are totals of samples. `TotalInv` says that what has been added up and what the
remaining lines amount to make the total of the output, that the values lag behind
only until the first readable line, and that the partial sums that are set line by
line never exceed the total that is to come.

**OptionsProofs.**
* A program that was started is monitored; prmon monitors exactly one target, and
  returns 0 without having monitored only for help or a failed fork (`MainInv`: what the
  checks before the fork established holds until the loop, as nothing after it changes
  the parsed options; and wallmon is never disabled, by option or by environment, so the
  `exit` in prmon.cpp:83 is not reached).
* The monitors that run are those asked for (`DisabledInv`: the scan has dealt with every
  name ended by a comma before `start`, and there is no comma between `start` and `pos`).
* Every memory column is found in the file that is read (`ColumnsInv`).
* `VerbatimCorrect`: the words after `--` reach the program untouched (`DashInv`: before
  the terminator the plain words so far; after it, those followed by the rest of the
  line).
* `LevelsCorrect`: a monitor logs at the last level given for it, else at the last given
  for all (`LevelsInv`: after k values, each level is that of the last of the first k
  values that names it).

**CmdPipeProofs.** `FdsBalanced`, for pipes, buffers and outputs of any size (`FdsInv` adds
the ends of the pipe of the call in progress). `CommandImplemented`: `cmd_pipe_output`
implements `Command`. `PipeInv` says that what the command wrote is what has been split,
followed by the buffer and by what is in the pipe (`SplitSoFar`: complete lines and an
unfinished one), that a newline can only be the last character of the buffer, and that
nothing is written once the last writer has gone; so that at the end of file all of it
has been split.

**MonitorsProofs, netmon.** `TrafficCorrect`, for any list of devices. `NetInv` looks at
what the running sum would become if nothing more were received (`Pending`: the sum so
far and the current counters of the devices still to be read). A read does not change
it, a byte received adds at most one, so it always lies between the traffic when the
reading began and the traffic now. Therefore the offset lies between the traffic when
the constructor was entered and when it was left, and no reading falls below the
offset or below the one before: `set_value` refuses none.

**MonitorsProofs, wallmon.** `WtimeCorrect`, for every clock rate, start time and precision
of a float: wtime is off by less than a second and half the distance of the floats
around the uptime in seconds. `FloatFacts`: rounding is off by at most that half;
`StepGrows`: that distance never shrinks, from which it follows that a value that was not
too large stays so. `WallInv` adds to the property that the offset is the start of the
mother, that nothing was recorded before it was known, and that `clocked` is not
ahead of the uptime. A reading that is accepted gives both bounds at once
(`OneReading`). One that is refused leaves the value where it was: the refusal itself
gives the lower bound, the reading before gives the upper one (`StillNotAbove`).
`RatesTypeCorrect` has, besides types, that no average is divided by zero.

**MonitorsProofs, NUMA.** Both proofs keep an account. For threads (`ThreadInv`): the
migrations counted, and those owed because a thread is on another node than it was
last seen on (`Owed`), are at most the moves and new uses so far; a read turns one that
is owed into one that is counted. For memory (`MemoryInv`): there are contents of the
processes' memory as last counted, and as counted by the sample before, which no variable
of cpumon holds (a process that is not in the list, or whose file cannot be opened,
counts as having none), such that the migrations counted, the processes this sample
found changed and those the next one will find changed number at most the changes,
the turnover and the ties. The node remembered has most pages of all according to the sample before; so if
another one is dominant now, alone, some process must have been found changed.
`ReportedInv`: what is reported never runs ahead of what was counted.

Only model-checked: the liveness properties `MotherEndIsNoticed`, `SignalIsNoticed` and
`CallReturns`, since fairness is out of the prover's reach; and the four runs that find
a violation, whose properties do not hold.

## 5. Not modelled, and what could come next

Not modelled, because it is text in and text out, once, and holds no state the loop
depends on: hardware information (lscpu, meminfo, nvidia-smi), `fill_units`, log
messages, the help printers of popl, and what of popl prmon does not use (ini files,
`Implicit` options, attributes); descriptions and `unregister_class` of the registry;
the variants of `update_stats` for pre-cooked test files; the plot script.

Left out of modelled parts: exceptions while hardware information is collected
(prmon.cpp:123-126), which would leave a program running unmonitored; the `catch` in
prmon.cpp:214, as no stream of the loop has exceptions switched on; a file of `/proc`
that changes while it is read, children files excepted: stat, io, smaps and numa_maps
of a process are read at one moment, and the last two in full or not at all; part of a
row in the text file, which counts as not written; a pstree that does not show the tree
of one moment; reuse of process identifiers; a system clock that is
stepped back (section 6); subreapers below the mother; names of processes with
blanks (section 6); NUL characters in the output of a command; `gpumempct`, stime,
the other lines of io and smaps and three of the four network parameters, which are
treated like the one that is modelled.

Excluded by a premise of a property: what wallmon does after an empty list of processes
(`misled` in `WtimeIsElapsed`), what netmon reports after a stream has failed
(`TrafficReported`), other children of prmon that failed (`ExitCodeKept`), and memory and
CPU time that are too small in a sample during which a process goes away
(`ExactWhenQuiet` is about quiet samples, `NeverOverstated` about the other direction).
With `--pid`, `MotherEndIsNoticed` starts when the mother has been waited for, as `kill`
cannot tell a zombie from a living process.

What could come next: reuse of process identifiers and subreapers anywhere in the tree,
both under `ProcTree`; a system clock that is stepped back, in `ProcessMonitor`; and
`prmon_compress_output.py`, which rows it keeps, against a reference definition.

## 6. Observations without a run

* README.md:128 calls `--interval` the time between snapshots; the comparison
  in prmon.cpp:144 is strict, so that the time is interval + 1. The run `loop` checks
  exactly that (`RowsEveryIntervalPlusOne`).
* README.md:198 says the JSON summary is rewritten every interval; it is the
  `_snapshot` file that is, the summary itself is written once at the end.
* README.md:146 promises the exit code of the child. A death by signal gives 0
  (prmonutils.cpp:102-131), and another child of prmon that failed and was reaped
  in the same pass replaces the code. `ExitCodeKept` states what holds.
* `set_offset` on a monotonic object with recorded values returns 0: only
  non-monotonic objects count iterations (parameter.cpp:47-50). wallmon does this
  when its first list of processes is empty, which happens only with pstree; from
  then on every uptime is below the one recorded without offset and is refused,
  and wtime stands still. `WtimeIsElapsed` excludes this case (`misled`).
* A network device that goes away, or never existed, is replaced in the sum by
  the device before it (netmon.cpp:91), in every sample from then on.
* A device given twice with `--netdev` is read, and added, twice (netmon.cpp:85-95).
* A command that hangs (nvidia-smi) stops the loop: utils.cpp:67 reads and
  utils.cpp:88 waits without a limit.
* A fork that fails in `cmd_pipe_output` leaves both ends of the pipe open; a fork
  that fails in `main` lets prmon return 0 without a word. `FdsBalanced` and
  `OutcomeFitsTarget` state exactly this.
* README.md:144 says prmon exits with 1 for inconsistent or incomplete arguments; what
  popl throws is not caught, so a missing argument, or a pid that is not a number,
  ends in SIGABRT, and so does a log file that cannot be opened.
* The help text of `--disable` (prmon.cpp:276-277) has a "special name '[~]all'", which
  `valid_monitor_disable` treats as an unknown name.
* Without `--`, options meant for the program are taken by prmon wherever they
  stand. `VerbatimAfterDashes` is about command lines with `--`.
* `--interval -1` is converted to an unsigned number, a pause of 136 years.
* A line of nvidia-smi is added up only if it can be parsed; but a utilisation or memory
  in it that is neither `-` nor begins with a number makes `std::stoul` throw
  (utils.cpp:116), which nothing catches: prmon is aborted, without a summary and without
  closing NVML (`LineAborts`).
* Once a write to the text file has failed, its stream takes no further row, although
  the disk may have room again (prmon.cpp:159-164); the summaries go on and contain the
  samples that the text file has lost.
* With `--units` and `--fast-memmon` the summary lists a unit for vmem, which is no
  longer measured.
* A line of pstree counts only if the parenthesis before the process identifier is
  not among its first two characters (prmonutils.cpp:55, `pos > 1`): a process whose
  name has one character is not monitored.
* Fields of stat are counted in blanks (cpumon.cpp:40, countmon.cpp:43); a process
  whose name has a blank is read one field off.
* prmon started with SIGCHLD ignored gets ECHILD from waitpid, and the exit code of
  the program is lost.
* If the system clock is stepped back, no sample is taken until it has caught up
  with `lastIteration` (prmon.cpp:144).
* Averages of GPU values are over lines of nvidia-smi, not over samples, since
  each line calls `set_value` (nvidiamon.cpp:334).
* Between the removal of the snapshot and the write of the final summary
  (prmon.cpp:228-234) a kill leaves neither.
