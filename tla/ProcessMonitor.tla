--------------------------- MODULE ProcessMonitor ---------------------------
(***************************************************************************)
(* The main loop of prmon, ProcessMonitor() in prmon.cpp with              *)
(* reap_children() of prmonutils.cpp, against the world it runs in: the    *)
(* monitored process (the "mother"), other children of prmon, SIGUSR1, the *)
(* clock, failing file operations, and prmon itself being killed.          *)
(*                                                                         *)
(* The monitors are represented by one non-monotonic value ("gauge", as    *)
(* memmon, countmon and nvidiamon keep) and one monotonic value            *)
(* ("counter", as cpumon, iomon and netmon keep); what they read is an     *)
(* arbitrary member of Gauges and of Counters.                             *)
(***************************************************************************)
EXTENDS Parameter, Sums, SequencesExt, FiniteSetsExt

CONSTANTS
  Mother,      \* the monitored process
  Others,      \* children of prmon other than the mother: inherited over
               \* exec, or adopted when prmon is the init of a container
  Interval,    \* --interval, whole seconds
  Gauges, Counters,  \* readings of the monitors
  ExitCodes,   \* exit codes of processes
  MaxTime      \* bound on the clock

ASSUME ProcsAssumption  == Mother \notin Others
ASSUME TimesAssumption  == Interval \in Nat /\ MaxTime \in Nat
ASSUME ValuesAssumption ==
  Gauges \subseteq Nat /\ Counters \subseteq Nat /\ ExitCodes \subseteq Nat

VARIABLES
  pc, alive,           \* where prmon is, and whether it has been killed
  first, lastIteration, sigusr1, return_code,
  wait_code,           \* return_code of the reap_children call in progress
  exit_code,           \* exit code of prmon, once done
  gauge, counter,      \* the monitored values
  json_summary,        \* the JSON structure in memory
  samples,             \* history: the row of every sample taken
  text,                \* the rows that have got into the text file
  file,                \* its stream: good, failed, or failed with a row that
                       \* is still in the buffer
  tmp, snapshot, final,  \* the files _tmp, _snapshot and the summary itself
  io_failed,           \* history: some file operation has failed
  now,                 \* time(0)
  prompt,              \* history: time has passed only while prmon slept
  proc, status,        \* state and wait status of the processes
  child_mode           \* TRUE: prmon -- program;  FALSE: prmon --pid

sigVars   == <<alive, sigusr1>>
timeVars  == <<first, lastIteration>>
codeVars  == <<return_code, wait_code, exit_code>>
prmonVars == <<pc, sigVars, timeVars, codeVars>>
textVars  == <<samples, text, file>>
dataVars  == <<gauge, counter, json_summary, textVars>>
fileVars  == <<tmp, snapshot, final, io_failed>>
worldVars == <<now, prompt, proc, status, child_mode>>
vars == <<prmonVars, dataVars, fileVars, worldVars>>

Procs    == {Mother} \cup Others
Children == IF child_mode THEN Procs ELSE Others

Running == [how |-> "running", code |-> 0]
Statuses == {[how |-> "exited", code |-> c] : c \in ExitCodes}
            \cup {[how |-> "signaled", code |-> 0]}

\* The statistics of a summary; before the first sample the JSON has none.
NoStats == [sampled |-> FALSE, gaugeMax |-> 0, gaugeAvg |-> 0, counterMax |-> 0]

Absent  == [state |-> "absent", json |-> NoStats]
Partial == [state |-> "partial", json |-> NoStats]
Full(j) == [state |-> "full", json |-> j]

\* The decimal places of an average are cut to avg_precision (1000), and all
\* of them once the integer part exceeds it.  Averages are in thousandths.
avg_precision == 1000
Truncated(avg) ==
  IF avg.num \div avg.den > avg_precision
  THEN (avg.num \div avg.den) * avg_precision
  ELSE (avg.num * avg_precision) \div avg.den

\* Mutated form: the current value is reported as the maximum.
SummaryFromCurrent(g, c) ==
  [sampled |-> TRUE, gaugeMax |-> g.value,
   gaugeAvg |-> Truncated(AverageValue(g)), counterMax |-> c.value]

\* The "Max" and "Avg" entries made from the monitored values.
SummaryFrom(g, c) ==
  [sampled |-> TRUE, gaugeMax |-> g.max,
   gaugeAvg |-> Truncated(AverageValue(g)), counterMax |-> c.value]

---------------------------------------------------------------------------
Init ==
  /\ pc = "startup" /\ alive = TRUE
  /\ first = TRUE /\ lastIteration = 0 /\ sigusr1 = FALSE
  /\ return_code = 0 /\ wait_code = 0 /\ exit_code = 0
  /\ gauge = NewMonitoredValue(FALSE, 0)
  /\ counter = NewMonitoredValue(TRUE, 0)
  /\ json_summary = NoStats /\ samples = <<>> /\ text = <<>> /\ file = "good"
  /\ tmp = Absent /\ snapshot = Absent /\ final = Absent /\ io_failed = FALSE
  /\ now = Interval /\ prompt = TRUE
  /\ child_mode \in BOOLEAN
  /\ proc = [p \in Procs |-> "running"]
  /\ status = [p \in Procs |-> Running]

At(l) == alive /\ pc = l
Goto(l) == pc' = l

\* Mutated form: the first sample is "made due" by going back too far.
StartupTooEarly ==
  /\ At("startup") /\ Goto("check")
  /\ lastIteration' = now - Interval - 1
  /\ file' \in {"good", "bad"}
  /\ UNCHANGED <<sigVars, first, codeVars, gauge, counter, json_summary, samples,
                 text, fileVars, worldVars>>

\* Everything before the loop: the handler is installed, the monitors are
\* created, the text file is opened and its header written, or not.
Startup ==
  /\ At("startup") /\ Goto("check")
  /\ lastIteration' = now - Interval
  /\ file' \in {"good", "bad"}
  /\ UNCHANGED <<sigVars, first, codeVars, gauge, counter, json_summary, samples,
                 text, fileVars, worldVars>>

---------------------------------------------------------------------------
(* The test of the while loop and of the if inside it.                     *)

\* kill(mpid, 0) == 0: a zombie still counts as existing.
MotherExists == proc[Mother] # "gone"

\* Mutated forms: the loop forgets one of its two reasons to stop.
StayWhateverSignal == MotherExists
StayWhateverMother == ~sigusr1

StayInLoop == MotherExists /\ ~sigusr1

\* Mutated form: >= for >.
DueAtInterval == first \/ now - lastIteration >= Interval

Due == first \/ now - lastIteration > Interval

LeaveLoop ==
  /\ At("check") /\ ~StayInLoop
  /\ Goto("close")
  /\ UNCHANGED <<sigVars, timeVars, codeVars, dataVars, fileVars, worldVars>>

CheckTime ==
  /\ At("check") /\ StayInLoop
  /\ Goto(IF Due THEN "sample" ELSE "sleep")
  /\ UNCHANGED <<sigVars, timeVars, codeVars, dataVars, fileVars, worldVars>>

---------------------------------------------------------------------------
(* One sample: update_stats of the monitors, a row of text, the summary.   *)

\* Mutated form: the time of the sample is not remembered.
UpdateStatsKeepsTime ==
  /\ At("sample") /\ Goto("row")
  /\ first' = FALSE
  /\ \E g \in Gauges, c \in Counters :
       gauge' = SetValue(gauge, g) /\ counter' = SetValue(counter, c)
  /\ UNCHANGED <<sigVars, lastIteration, codeVars, json_summary, textVars, fileVars,
                 worldVars>>

UpdateStats ==
  /\ At("sample") /\ Goto("row")
  /\ lastIteration' = now /\ first' = FALSE
  /\ \E g \in Gauges, c \in Counters :
       gauge' = SetValue(gauge, g) /\ counter' = SetValue(counter, c)
  /\ UNCHANGED <<sigVars, codeVars, json_summary, textVars, fileVars, worldVars>>

\* A stream that has failed takes nothing more.  What is still in its buffer
\* may go out when it is closed and, with older libraries, when it is flushed.
BufferTried ==
  \/ UNCHANGED <<text, file>>
  \/ /\ file = "pending" /\ file' = "bad"
     /\ text' = Append(text, samples[Len(text) + 1])

\* std::endl flushes the row, which may fail (full disk); part of a row does
\* not count.  No one looks at the state of the stream.
PutRow(row) ==
  \/ file = "good" /\ text' = Append(text, row) /\ file' = "good"
  \/ file = "good" /\ text' = text /\ file' = "pending"
  \/ file # "good" /\ BufferTried

\* "start", the time the sample was begun, is not written; it is kept to
\* state properties.
WriteRow ==
  /\ At("row") /\ Goto("tmp_open")
  /\ LET row == [time |-> now, start |-> lastIteration,
                 gauge |-> gauge.value, counter |-> counter.value]
     IN  samples' = Append(samples, row) /\ PutRow(row)
  /\ json_summary' = SummaryFrom(gauge, counter)
  /\ UNCHANGED <<sigVars, timeVars, codeVars, gauge, counter, fileVars, worldVars>>

\* A step from one file operation to the next that touches only files.
FileStep(from, to) ==
  /\ At(from) /\ Goto(to)
  /\ UNCHANGED <<sigVars, timeVars, codeVars, dataVars, worldVars>>

\* Mutated form: the snapshot is written in place.
OpenSnapshotInPlace ==
  /\ FileStep("tmp_open", "tmp_write")
  /\ tmp' = Partial /\ snapshot' = Partial /\ UNCHANGED <<final, io_failed>>

\* std::ofstream json_out(tmp_json_file) truncates what was there.
OpenTmp ==
  /\ FileStep("tmp_open", "tmp_write")
  /\ tmp' = Partial /\ UNCHANGED <<snapshot, final, io_failed>>

WriteTmp ==
  /\ FileStep("tmp_write", "rename")
  /\ tmp' = Full(json_summary) /\ UNCHANGED <<snapshot, final, io_failed>>

\* Mutated form: an existing snapshot is kept.
RenameOnce ==
  /\ FileStep("rename", "sleep") /\ tmp.state # "absent"
  /\ snapshot' = (IF snapshot.state = "absent" THEN tmp ELSE snapshot)
  /\ tmp' = Absent /\ UNCHANGED <<final, io_failed>>

Rename ==
  /\ FileStep("rename", "sleep") /\ tmp.state # "absent"
  /\ snapshot' = tmp /\ tmp' = Absent /\ UNCHANGED <<final, io_failed>>

---------------------------------------------------------------------------
(* The end of a pass: 200 ms of sleep, then reap_children.                 *)

\* At most one second boundary is crossed.
Sleep ==
  /\ At("sleep") /\ Goto("reap")
  /\ wait_code' = 0
  /\ now' \in {t \in {now, now + 1} : t <= MaxTime}
  /\ UNCHANGED <<sigVars, timeVars, return_code, exit_code, dataVars, fileVars,
                 prompt, proc, status, child_mode>>

\* One waitpid(-1, WNOHANG) that finds a dead child.  Only a non-zero exit
\* status is remembered; a death by signal is logged and forgotten.
ReapOne(c) ==
  /\ At("reap") /\ c \in Children /\ proc[c] = "zombie"
  /\ proc' = [proc EXCEPT ![c] = "gone"]
  /\ wait_code' = IF status[c].how = "exited" /\ status[c].code # 0
                  THEN status[c].code ELSE wait_code
  /\ UNCHANGED <<pc, sigVars, timeVars, return_code, exit_code, dataVars,
                 fileVars, now, prompt, status, child_mode>>

\* Mutated form: the result of reap_children is dropped.
ReapNoneDropsCode ==
  /\ At("reap") /\ \A c \in Children : proc[c] # "zombie"
  /\ Goto("check")
  /\ UNCHANGED <<sigVars, timeVars, codeVars, dataVars, fileVars, worldVars>>

\* waitpid finds none: reap_children returns, and its result replaces that
\* of the previous pass.
ReapNone ==
  /\ At("reap") /\ \A c \in Children : proc[c] # "zombie"
  /\ return_code' = wait_code
  /\ Goto("check")
  /\ UNCHANGED <<sigVars, timeVars, wait_code, exit_code, dataVars, fileVars,
                 worldVars>>

---------------------------------------------------------------------------
(* After the loop.                                                         *)

\* file.close(); the same stream is used again for the final summary, and
\* opening that clears its state.
CloseText ==
  /\ At("close") /\ Goto("remove") /\ BufferTried
  /\ UNCHANGED <<sigVars, timeVars, codeVars, gauge, counter, json_summary, samples,
                 fileVars, worldVars>>

\* Mutated form: the snapshot is left behind.
KeepSnapshot ==
  FileStep("remove", "final_open") /\ UNCHANGED fileVars

RemoveSnapshot ==
  /\ FileStep("remove", "final_open")
  /\ snapshot' = Absent /\ UNCHANGED <<tmp, final, io_failed>>

OpenFinal ==
  /\ FileStep("final_open", "final_write")
  /\ final' = Partial /\ UNCHANGED <<tmp, snapshot, io_failed>>

WriteFinal ==
  /\ FileStep("final_write", "return")
  /\ final' = Full(json_summary) /\ UNCHANGED <<tmp, snapshot, io_failed>>

\* No failure of one of these operations changes what prmon does next, except that
\* a write to a file that was not opened does nothing.  rename and remove
\* report it; the streams are not even looked at, wroteFile is always set.
AfterFailure ==
  [tmp_open |-> "rename", tmp_write |-> "rename", rename |-> "sleep",
   remove |-> "final_open", final_open |-> "return", final_write |-> "return"]

FileOpFails ==
  /\ pc \in DOMAIN AfterFailure
  /\ FileStep(pc, AfterFailure[pc])
  /\ io_failed' = TRUE /\ UNCHANGED <<tmp, snapshot, final>>

\* ProcessMonitor returns return_code; main passes it on only when it started
\* the program itself.
Return ==
  /\ At("return") /\ Goto("done")
  /\ exit_code' = IF child_mode THEN return_code ELSE 0
  /\ UNCHANGED <<sigVars, timeVars, return_code, wait_code, dataVars, fileVars,
                 worldVars>>

PrmonStep ==
  \/ Startup \/ LeaveLoop \/ CheckTime
  \/ UpdateStats \/ WriteRow
  \/ OpenTmp \/ WriteTmp \/ Rename
  \/ Sleep \/ (\E c \in Children : ReapOne(c)) \/ ReapNone
  \/ CloseText \/ RemoveSnapshot \/ OpenFinal \/ WriteFinal \/ FileOpFails \/ Return

---------------------------------------------------------------------------
(* The world, followed for as long as prmon runs.                          *)

Active == alive /\ pc # "done"

\* SignalCallbackHandler runs, at any point of prmon's work.
SigUsr1 ==
  /\ Active
  /\ sigusr1' = TRUE
  /\ UNCHANGED <<pc, alive, timeVars, codeVars, dataVars, fileVars, worldVars>>

\* prmon is killed; the files stay as they are.
Crash ==
  /\ Active
  /\ alive' = FALSE
  /\ UNCHANGED <<pc, sigusr1, timeVars, codeVars, dataVars, fileVars, worldVars>>

Exit(p, st) ==
  /\ Active /\ proc[p] = "running"
  /\ proc' = [proc EXCEPT ![p] = "zombie"]
  /\ status' = [status EXCEPT ![p] = st]
  /\ UNCHANGED <<prmonVars, dataVars, fileVars, now, prompt, child_mode>>

\* With --pid the mother belongs to another process, which waits for it.
ParentReaps ==
  /\ Active /\ Mother \notin Children /\ proc[Mother] = "zombie"
  /\ proc' = [proc EXCEPT ![Mother] = "gone"]
  /\ UNCHANGED <<prmonVars, dataVars, fileVars, now, prompt, status, child_mode>>

\* Time passes while prmon works.
Tick ==
  /\ Active /\ now < MaxTime
  /\ now' = now + 1 /\ prompt' = FALSE
  /\ UNCHANGED <<prmonVars, dataVars, fileVars, proc, status, child_mode>>

Terminated ==
  /\ ~Active
  /\ UNCHANGED vars

World ==
  \/ SigUsr1 \/ Crash \/ ParentReaps \/ Tick
  \/ \E p \in Procs, st \in Statuses : Exit(p, st)

Next == PrmonStep \/ World \/ Terminated

Spec == Init /\ [][Next]_vars

\* prmon is one thread that never blocks: waitpid is called with WNOHANG and
\* the sleep is finite.  Nothing is assumed of the world.
FairSpec == Spec /\ WF_vars(PrmonStep)
---------------------------------------------------------------------------
(* Properties.                                                             *)

Labels == {"startup", "check", "sample", "row", "tmp_open", "tmp_write",
           "rename", "sleep", "reap", "close", "remove", "final_open",
           "final_write", "return", "done"}
Files == [state : {"absent", "partial", "full"},
          json : [sampled : BOOLEAN, gaugeMax : Nat, gaugeAvg : Nat,
                  counterMax : Nat]]
Rows == [time : Nat, start : Nat, gauge : Nat, counter : Nat]

\* Types of all variables; time never runs backwards past the last sample.
TypeOK ==
  /\ pc \in Labels /\ alive \in BOOLEAN
  /\ first \in BOOLEAN /\ lastIteration \in Nat /\ sigusr1 \in BOOLEAN
  /\ return_code \in Nat /\ wait_code \in Nat /\ exit_code \in Nat
  /\ gauge \in MonitoredValueType /\ counter \in MonitoredValueType
  /\ Full(json_summary) \in Files
  /\ samples \in Seq(Rows) /\ text \in Seq(Rows)
  /\ file \in {"good", "pending", "bad"}
  /\ tmp \in Files /\ snapshot \in Files /\ final \in Files
  /\ io_failed \in BOOLEAN /\ prompt \in BOOLEAN /\ child_mode \in BOOLEAN
  /\ now \in Nat /\ lastIteration <= now
  /\ proc \in [Procs -> {"running", "zombie", "gone"}]
  /\ status \in [Procs -> Statuses \cup {Running}]

\* What a reader would compute from these rows.
GaugesOf(rows) == [i \in 1..Len(rows) |-> rows[i].gauge]
SummaryOf(rows) ==
  IF rows = <<>> THEN NoStats
  ELSE [sampled    |-> TRUE,
        gaugeMax   |-> Max({rows[i].gauge : i \in 1..Len(rows)}),
        gaugeAvg   |-> Truncated([num |-> SumOf(GaugesOf(rows)), den |-> Len(rows)]),
        counterMax |-> Last(rows).counter]

\* Whenever and however prmon stops, kill included, no reader finds a half
\* written snapshot, as long as no file operation has failed (tmp file and
\* rename, prmon.cpp:201-213).
SnapshotNeverPartial == ~io_failed => snapshot.state # "partial"

\* Between the row of a sample and the rename that brings its summary.
Replacing == pc \in {"tmp_open", "tmp_write", "rename"}

\* The snapshot is the summary of all samples, or of all but the newest until
\* the tmp file that has it too is renamed; and from the first of these until
\* the loop is left there is one, so that killing prmon loses at most one
\* sample (prmon.cpp:158-213).
SnapshotFresh == ~io_failed =>
  LET n == IF Replacing THEN Len(samples) - 1 ELSE Len(samples)
  IN  /\ snapshot.state = "full" =>
           n > 0 /\ snapshot.json = SummaryOf(SubSeq(samples, 1, n))
      /\ (Replacing \/ pc \in {"check", "sample", "row", "sleep", "reap"}) /\ n > 0
           => snapshot.state = "full"

\* Whatever file operations fail, those of the text file included: its rows
\* are the first samples in their order, and all of them while its stream is
\* good; a complete snapshot is the summary of some first samples (a stale one
\* at worst), and a complete final summary that of all samples, of those too
\* that the text file has lost (prmon.cpp:158-223).
SummariesMatchRows ==
  /\ IsPrefix(text, samples) /\ (file = "good" => text = samples)
  /\ snapshot.state = "full" =>
       \E k \in 1..Len(samples) : snapshot.json = SummaryOf(SubSeq(samples, 1, k))
  /\ final.state = "full" => final.json = SummaryOf(samples)

\* A normal end leaves the complete summary and neither snapshot nor tmp file
\* (prmon.cpp:225-234).
CleanExit ==
  (pc = "done" /\ ~io_failed) =>
                 /\ final.state = "full"
                 /\ snapshot.state = "absent" /\ tmp.state = "absent"

\* With prmon -- program, prmon exits with the exit code of the program
\* unless it also reaped some other child that failed: the code collected in
\* one pass must survive until the loop is left (prmon.cpp:143, 223;
\* prmonutils.cpp:102-133).
ExitCodeKept ==
  (/\ pc = "done" /\ child_mode
   /\ proc[Mother] = "gone" /\ status[Mother].how = "exited"
   /\ \A o \in Others : ~(proc[o] = "gone" /\ status[o].how = "exited"
                                           /\ status[o].code # 0))
  => exit_code = status[Mother].code

\* Samples are begun more than interval seconds apart, however long a pass
\* takes and although the clock is read again after the test
\* (prmon.cpp:144-147).
SamplesSpaced ==
  \A i \in 1..(Len(samples) - 1) :
    /\ samples[i + 1].start - samples[i].start > Interval
    /\ samples[i].time <= samples[i + 1].start

\* When passes are quick, the times in the rows are exactly interval + 1
\* seconds apart: the comparison on whole seconds is strict (prmon.cpp:144).
RowsEveryIntervalPlusOne == prompt =>
  \A i \in 1..(Len(samples) - 1) :
    samples[i + 1].time - samples[i].time = Interval + 1

Ended == ~Active

\* Once the mother has gone - or, if prmon is her parent, once she has
\* exited - prmon writes its summary and ends.
MotherEndIsNoticed ==
  (proc[Mother] = "gone" \/ (child_mode /\ proc[Mother] = "zombie")) ~> Ended

\* SIGUSR1 ends prmon wherever it strikes (SignalCallbackHandler).
SignalIsNoticed == sigusr1 ~> Ended

---------------------------------------------------------------------------
(* A statement of the source that the code does not meet.                  *)

\* The comment "Move temporary file to the snapshot file" and the guard
\* "if (wroteFile)" (prmon.cpp:206-207): what becomes the snapshot is a file
\* that was written.
SnapshotWasWritten == snapshot.state # "partial"
============================================================================
