------------------------ MODULE ProcessMonitorProofs ------------------------
(***************************************************************************)
(* What the main loop guarantees for every interval, every set of other    *)
(* children, every reading and any number of samples.                      *)
(***************************************************************************)
EXTENDS ProcessMonitor, SumsProofs, SequenceTheorems

---------------------------------------------------------------------------
(* Types.                                                                  *)

\* set_value returns an object of the same type.
LEMMA SetValueType ==
  ASSUME NEW w \in MonitoredValueType, NEW new \in Nat
  PROVE  SetValue(w, new) \in MonitoredValueType
<1>1. CASE ~Accepts(w, new)
  BY <1>1 DEF SetValue
<1>2. CASE Accepts(w, new)
  <2> DEFINE v == new - w.offset
             p == IF v > w.max THEN v ELSE w.max
  <2>1. v \in Nat /\ p \in Nat /\ w.summed + v \in Nat /\ w.iterations + 1 \in Nat
    BY <1>2 DEF Accepts, MonitoredValueType
  <2>2. Recorded(w, new)
          = IF w.monotonic THEN [w EXCEPT !.value = v, !.max = v]
            ELSE [w EXCEPT !.value = v, !.max = p, !.summed = w.summed + v,
                           !.iterations = w.iterations + 1]
    BY DEF Recorded, MonitoredValueType
  <2> HIDE DEF v, p
  <2>3. Recorded(w, new) \in MonitoredValueType
    BY <2>1, <2>2 DEF MonitoredValueType
  <2> QED BY <1>2, <2>3 DEF SetValue
<1> QED BY <1>1, <1>2

\* The average is never a division by zero, and its cut form is a number.
LEMMA TruncatedType ==
  ASSUME NEW w \in MonitoredValueType
  PROVE  Truncated(AverageValue(w)) \in Nat
<1> DEFINE a == AverageValue(w)
<1>1. a.num \in Nat /\ a.den \in Nat \ {0}
  BY DEF AverageValue, MonitoredValueType
<1> HIDE DEF a
<1>2. a.num \div a.den \in Nat /\ (a.num * 1000) \div a.den \in Nat
  BY <1>1
<1> QED BY <1>1, <1>2 DEF Truncated, avg_precision, a
---------------------------------------------------------------------------
(* Types, and the rows of the text file.                                   *)

\* The file holds the first samples, all of them while its stream is good.  A
\* row still in the buffer is the one after those that got out: nothing is
\* put into the buffer of a stream that has failed.
TextInv ==
  /\ samples \in Seq(Rows) /\ text \in Seq(Rows)
  /\ file \in {"good", "pending", "bad"}
  /\ Len(text) <= Len(samples)
  /\ \A i \in 1..Len(text) : text[i] = samples[i]
  /\ file = "good" \/ pc = "startup" => Len(text) = Len(samples)
  /\ file = "pending" => Len(text) < Len(samples)

\* The clock never falls back behind the start of prmon, which keeps
\* lastIteration = time(0) - interval a natural number.
TypeInv == TypeOK /\ Interval <= now /\ TextInv

\* What is in the buffer is tried again, or nothing happens.
LEMMA BufferKeeps ==
  ASSUME TextInv, BufferTried,
         samples' = samples \/ \E row \in Rows : samples' = Append(samples, row),
         file # "good" \/ samples' = samples, pc' # "startup"
  PROVE  TextInv'
<1>1. /\ samples \in Seq(Rows) /\ text \in Seq(Rows)
      /\ Len(text) \in Nat /\ Len(samples) \in Nat /\ Len(text) <= Len(samples)
      /\ \A i \in 1..Len(text) : text[i] = samples[i]
  BY DEF TextInv
<1>2. /\ samples' \in Seq(Rows) /\ Len(samples') \in Nat
      /\ Len(samples) <= Len(samples')
      /\ \A i \in 1..Len(samples) : samples'[i] = samples[i]
  <2>1. CASE samples' = samples
    BY <1>1, <2>1
  <2>2. ASSUME NEW row \in Rows, samples' = Append(samples, row)
        PROVE  /\ samples' \in Seq(Rows) /\ Len(samples') \in Nat
               /\ Len(samples) <= Len(samples')
               /\ \A i \in 1..Len(samples) : samples'[i] = samples[i]
    BY <1>1, <2>2
  <2> QED BY <2>1, <2>2
<1>3. CASE UNCHANGED <<text, file>>
  BY <1>1, <1>2, <1>3 DEF TextInv
<1>4. CASE file = "pending" /\ file' = "bad"
           /\ text' = Append(text, samples[Len(text) + 1])
  <2>1. Len(text) + 1 \in 1..Len(samples) /\ samples[Len(text) + 1] \in Rows
    BY <1>1, <1>4 DEF TextInv
  <2>2. /\ text' \in Seq(Rows) /\ Len(text') = Len(text) + 1
        /\ text'[Len(text) + 1] = samples[Len(text) + 1]
        /\ \A i \in 1..Len(text) : text'[i] = text[i]
    BY <1>1, <1>4, <2>1
  <2>3. \A i \in 1..Len(text') : text'[i] = samples'[i]
    BY <1>1, <1>2, <2>1, <2>2
  <2> QED BY <1>1, <1>2, <1>4, <2>1, <2>2, <2>3 DEF TextInv
<1> QED BY <1>3, <1>4 DEF BufferTried

\* Every step keeps the file a beginning of the samples.
LEMMA TextStep == TypeInv /\ [Next]_vars => TextInv'
<1> SUFFICES ASSUME TypeInv, [Next]_vars PROVE TextInv'
  OBVIOUS
<1>0. TextInv
  BY DEF TypeInv
<1>1. CASE Startup
  BY <1>0, <1>1 DEF Startup, At, Goto, TextInv
<1>2. CASE WriteRow
  <2> DEFINE row == [time |-> now, start |-> lastIteration,
                     gauge |-> gauge.value, counter |-> counter.value]
  <2>1. row \in Rows
    BY DEF TypeInv, TypeOK, Rows, MonitoredValueType
  <2>2. samples' = Append(samples, row) /\ PutRow(row) /\ pc' # "startup"
    BY <1>2 DEF WriteRow, Goto
  <2> HIDE DEF row
  <2>3. /\ samples' \in Seq(Rows) /\ Len(samples') = Len(samples) + 1
        /\ samples'[Len(samples) + 1] = row
        /\ \A i \in 1..Len(samples) : samples'[i] = samples[i]
        /\ Len(samples) \in Nat
    BY <1>0, <2>1, <2>2 DEF TextInv
  <2>4. CASE file = "good" /\ text' = Append(text, row) /\ file' = "good"
    <3>1. /\ text' \in Seq(Rows) /\ Len(text') = Len(text) + 1
          /\ text'[Len(text) + 1] = row
          /\ \A i \in 1..Len(text) : text'[i] = text[i]
          /\ Len(text) = Len(samples)
      BY <1>0, <2>1, <2>4 DEF TextInv
    <3>2. \A i \in 1..Len(text') : text'[i] = samples'[i]
      BY <1>0, <2>3, <3>1 DEF TextInv
    <3> QED BY <2>2, <2>3, <2>4, <3>1, <3>2 DEF TextInv
  <2>5. CASE file = "good" /\ text' = text /\ file' = "pending"
    BY <1>0, <2>2, <2>3, <2>5 DEF TextInv
  <2>6. CASE file # "good" /\ BufferTried
    BY <1>0, <2>1, <2>2, <2>6, BufferKeeps
  <2> QED BY <2>2, <2>4, <2>5, <2>6 DEF PutRow
<1>3. CASE CloseText
  BY <1>0, <1>3, BufferKeeps DEF CloseText, Goto
<1>4. ASSUME UNCHANGED textVars, pc' = "startup" => pc = "startup" PROVE TextInv'
  BY <1>0, <1>4 DEF textVars, TextInv
<1>5. CASE \/ LeaveLoop \/ CheckTime \/ UpdateStats \/ Sleep \/ ReapNone \/ Return
           \/ (\E c \in Children : ReapOne(c))
  BY <1>4, <1>5 DEF LeaveLoop, CheckTime, UpdateStats, Sleep, ReapNone, Return,
                    ReapOne, Goto, dataVars
<1>6. CASE \/ OpenTmp \/ WriteTmp \/ Rename \/ RemoveSnapshot \/ OpenFinal
           \/ WriteFinal
  BY <1>4, <1>6 DEF OpenTmp, WriteTmp, Rename, RemoveSnapshot, OpenFinal,
                    WriteFinal, FileStep, Goto, dataVars
<1>7. CASE FileOpFails
  BY <1>4, <1>7 DEF FileOpFails, FileStep, AfterFailure, Goto, dataVars
<1>8. CASE World \/ UNCHANGED vars
  BY <1>4, <1>8 DEF World, SigUsr1, Crash, ParentReaps, Tick, Exit, vars,
                    prmonVars, dataVars
<1> QED BY <1>1, <1>2, <1>3, <1>5, <1>6, <1>7, <1>8 DEF Next, PrmonStep, Terminated

LEMMA TypeInit == Init => TypeInv
<1> SUFFICES ASSUME Init PROVE TypeInv
  OBVIOUS
<1>1. Absent \in Files /\ Full(json_summary) \in Files
  BY DEF Init, Absent, Full, Files, NoStats
<1>2. gauge \in MonitoredValueType /\ counter \in MonitoredValueType
  BY DEF Init, NewMonitoredValue, MonitoredValueType
<1>3. proc \in [Procs -> {"running", "zombie", "gone"}]
  BY DEF Init
<1>4. status \in [Procs -> Statuses \cup {Running}]
  BY DEF Init
<1>5. /\ alive \in BOOLEAN /\ first \in BOOLEAN /\ sigusr1 \in BOOLEAN
      /\ io_failed \in BOOLEAN /\ prompt \in BOOLEAN /\ child_mode \in BOOLEAN
  BY Zenon DEF Init
<1>6. tmp \in Files /\ snapshot \in Files /\ final \in Files
  BY <1>1 DEF Init
<1>7. /\ pc \in Labels /\ samples \in Seq(Rows) /\ text \in Seq(Rows)
      /\ file \in {"good", "pending", "bad"} /\ TextInv
  BY DEF Init, Labels, TextInv
<1>8. /\ lastIteration \in Nat /\ now \in Nat
      /\ lastIteration <= now /\ Interval <= now
      /\ return_code \in Nat /\ wait_code \in Nat /\ exit_code \in Nat
  BY TimesAssumption DEF Init
<1> QED BY <1>1, <1>2, <1>3, <1>4, <1>5, <1>6, <1>7, <1>8 DEF TypeInv, TypeOK

\* Every step leaves the values of the types the invariant says.
LEMMA TypeStep == TypeInv /\ [Next]_vars => TypeInv'
<1> SUFFICES ASSUME TypeInv, [Next]_vars PROVE TypeInv'
  OBVIOUS
<1>0. /\ TextInv' /\ samples' \in Seq(Rows) /\ text' \in Seq(Rows)
      /\ file' \in {"good", "pending", "bad"}
  BY TextStep DEF TextInv
<1> USE <1>0, TimesAssumption DEF TypeInv, TypeOK
<1>1. CASE Startup
  BY <1>1 DEF Startup, At, Goto, Labels, sigVars, codeVars, dataVars, textVars,
              fileVars, worldVars, Full
<1>2. CASE LeaveLoop \/ CheckTime
  BY <1>2 DEF LeaveLoop, CheckTime, At, Goto, Labels, sigVars, timeVars,
              codeVars, dataVars, textVars, fileVars, worldVars, Full
<1>3. CASE UpdateStats
  <2>1. PICK g \in Gauges, c \in Counters :
          gauge' = SetValue(gauge, g) /\ counter' = SetValue(counter, c)
    BY <1>3 DEF UpdateStats
  <2>2. gauge' \in MonitoredValueType /\ counter' \in MonitoredValueType
    BY <2>1, SetValueType, ValuesAssumption
  <2>3. first' \in BOOLEAN
    BY <1>3, Zenon DEF UpdateStats
  <2> QED BY <1>3, <2>2, <2>3 DEF UpdateStats, At, Goto, Labels, sigVars,
      codeVars, fileVars, worldVars, Full
<1>4. CASE WriteRow
  <2>3. Full(json_summary)' \in Files
    BY <1>4, TruncatedType DEF WriteRow, SummaryFrom, Full, Files,
        MonitoredValueType
  <2> QED BY <1>4, <2>3 DEF WriteRow, At, Goto, Labels, sigVars,
                        timeVars, codeVars, fileVars, worldVars
<1>5. CASE OpenTmp \/ WriteTmp \/ Rename \/ RemoveSnapshot \/ OpenFinal \/ WriteFinal
  <2>1. Absent \in Files /\ Partial \in Files
    BY DEF Absent, Partial, Files, NoStats
  <2>2. /\ tmp' \in Files /\ snapshot' \in Files /\ final' \in Files
        /\ io_failed' = io_failed
    BY <1>5, <2>1 DEF OpenTmp, WriteTmp, Rename, RemoveSnapshot, OpenFinal,
                      WriteFinal
  <2>3. /\ pc' \in Labels
        /\ UNCHANGED <<sigVars, timeVars, codeVars, dataVars, worldVars>>
    BY <1>5 DEF OpenTmp, WriteTmp, Rename, RemoveSnapshot, OpenFinal,
                WriteFinal, FileStep, Goto, Labels
  <2> QED BY <2>2, <2>3 DEF sigVars, timeVars, codeVars, dataVars, textVars,
                            worldVars, Full
<1>6. CASE FileOpFails
  <2>1. pc' \in Labels
    BY <1>6 DEF FileOpFails, FileStep, Goto, AfterFailure, Labels
  <2>2. io_failed' \in BOOLEAN
    BY <1>6, Zenon DEF FileOpFails
  <2> QED BY <1>6, <2>1, <2>2 DEF FileOpFails, FileStep, sigVars, timeVars,
                                  codeVars, dataVars, textVars, worldVars, Full
<1>7. CASE Sleep
  BY <1>7 DEF Sleep, At, Goto, Labels, sigVars, timeVars, dataVars, textVars,
              fileVars, Full
<1>8. ASSUME NEW c \in Children, ReapOne(c) PROVE TypeInv'
  <2>1. c \in Procs /\ status \in [Procs -> Statuses \cup {Running}]
    BY DEF Children, Procs
  <2>2. status[c] \in Statuses \cup {Running}
    BY ONLY <2>1
  <2>3. status[c].code \in Nat
    BY ONLY <2>2, ValuesAssumption DEF Statuses, Running
  <2> QED BY <1>8, <2>1, <2>3 DEF ReapOne, sigVars, timeVars, dataVars, textVars,
                            fileVars, Full
<1>9. CASE ReapNone \/ Return
  BY <1>9 DEF ReapNone, Return, At, Goto, Labels, sigVars, timeVars, dataVars,
              fileVars, worldVars, Full
<1>a. CASE CloseText
  BY <1>a DEF CloseText, At, Goto, Labels, sigVars, timeVars, codeVars, fileVars,
              worldVars, Full
<1>10. CASE SigUsr1 \/ Crash
  <2>1. alive' \in BOOLEAN /\ sigusr1' \in BOOLEAN
    BY <1>10, Zenon DEF SigUsr1, Crash
  <2> QED BY <1>10, <2>1 DEF SigUsr1, Crash, timeVars, codeVars, dataVars,
                             textVars, fileVars, worldVars, Full
<1>11. ASSUME NEW p \in Procs, NEW st \in Statuses, Exit(p, st) PROVE TypeInv'
  BY <1>11 DEF Exit, prmonVars, sigVars, timeVars, codeVars, dataVars, textVars,
               fileVars, Full
<1>12. CASE ParentReaps \/ Tick
  <2>1. prompt' \in BOOLEAN
    BY <1>12, Zenon DEF ParentReaps, Tick
  <2> QED BY <1>12, <2>1 DEF ParentReaps, Tick, Procs, prmonVars, sigVars,
                             timeVars, codeVars, dataVars, textVars, fileVars,
                             Full
<1>13. CASE UNCHANGED vars
  BY <1>13 DEF vars, prmonVars, sigVars, timeVars, codeVars, dataVars, textVars,
               fileVars, worldVars, Full
<1> QED BY <1>1, <1>2, <1>3, <1>4, <1>5, <1>6, <1>7, <1>8, <1>9, <1>a, <1>10, <1>11,
           <1>12, <1>13 DEF Next, PrmonStep, World, Terminated

LEMMA TypeInvAlways == Spec => []TypeInv
BY TypeInit, TypeStep, PTL DEF Spec

\* All variables keep their types; in particular lastIteration never lies in
\* the future and no average is a division by zero.
THEOREM TypeCorrect == Spec => []TypeOK
<1>1. TypeInv => TypeOK
  BY DEF TypeInv
<1> QED BY <1>1, TypeInvAlways, PTL
---------------------------------------------------------------------------
(* Files, as long as file operations do not fail.                          *)

\* The snapshot is never partial because the tmp file that is renamed is
\* always full; and nothing is left behind because the tmp file exists only
\* between its opening and the rename, in the same pass.
FilesInv == ~io_failed =>
  /\ snapshot.state # "partial"
  /\ tmp.state = CASE pc = "rename"    -> "full"
                   [] pc = "tmp_write" -> "partial"
                   [] OTHER            -> "absent"
  /\ pc \in {"final_open", "final_write", "return", "done"}
       => snapshot.state = "absent"
  /\ pc \in {"return", "done"} => final.state = "full"

LEMMA FilesInit == Init => FilesInv
BY DEF Init, FilesInv, Absent

LEMMA FilesStep == FilesInv /\ [Next]_vars => FilesInv'
<1> SUFFICES ASSUME FilesInv, [Next]_vars PROVE FilesInv'
  OBVIOUS
<1> USE DEF FilesInv
<1>1. CASE OpenTmp \/ WriteTmp \/ Rename \/ RemoveSnapshot \/ OpenFinal \/ WriteFinal
  BY <1>1 DEF OpenTmp, WriteTmp, Rename, RemoveSnapshot, OpenFinal, WriteFinal,
              FileStep, At, Goto, Absent, Partial, Full
<1>2. CASE FileOpFails
  <2>1. io_failed'
    BY <1>2, Zenon DEF FileOpFails
  <2> QED BY <2>1
<1>3. CASE Startup \/ LeaveLoop \/ CheckTime \/ UpdateStats \/ WriteRow
  BY <1>3 DEF Startup, LeaveLoop, CheckTime, UpdateStats, WriteRow, At, Goto,
              fileVars
<1>4. CASE \/ Sleep \/ (\E c \in Children : ReapOne(c)) \/ ReapNone \/ CloseText
           \/ Return
  BY <1>4 DEF Sleep, ReapOne, ReapNone, CloseText, Return, At, Goto, fileVars
<1>5. CASE World \/ UNCHANGED vars
  BY <1>5 DEF World, SigUsr1, Crash, ParentReaps, Tick, Exit, vars, prmonVars,
              fileVars
<1> QED BY <1>1, <1>2, <1>3, <1>4, <1>5 DEF Next, PrmonStep, Terminated

\* If file operations do not fail, a half written snapshot never exists, not
\* even when prmon is killed.
THEOREM SnapshotCorrect == Spec => []SnapshotNeverPartial
<1>1. FilesInv => SnapshotNeverPartial
  BY DEF FilesInv, SnapshotNeverPartial
<1> QED BY <1>1, FilesInit, FilesStep, PTL DEF Spec

\* If file operations do not fail, a normal end leaves a complete summary and
\* neither snapshot nor tmp file.
THEOREM CleanExitCorrect == Spec => []CleanExit
<1>1. FilesInv => CleanExit
  BY DEF FilesInv, CleanExit
<1> QED BY <1>1, FilesInit, FilesStep, PTL DEF Spec

---------------------------------------------------------------------------
(* The exit code.                                                          *)

OthersHarmless ==
  \A o \in Others : ~(proc[o] = "gone" /\ status[o].how = "exited"
                                       /\ status[o].code # 0)

\* The code of the mother passes from wait_code to return_code to exit_code.
\* It is not lost on the way because once she is gone the loop is left at the
\* next test, before return_code could be overwritten; and it is not mixed
\* up because wait_code is 0 until she is reaped.
ExitInv ==
  (child_mode /\ OthersHarmless) =>
    /\ pc = "reap" /\ proc[Mother] # "gone" => wait_code = 0
    /\ (proc[Mother] = "gone" /\ status[Mother].how = "exited") =>
         \/ pc = "reap" /\ wait_code = status[Mother].code
         \/ /\ pc \in {"check", "close", "remove", "final_open", "final_write",
                       "return"}
            /\ return_code = status[Mother].code
         \/ pc = "done" /\ exit_code = status[Mother].code
    /\ (proc[Mother] = "gone" /\ status[Mother].how # "exited") =>
         pc \in {"reap", "check", "close", "remove", "final_open",
                 "final_write", "return", "done"}

LEMMA ExitInit == Init => ExitInv
BY DEF Init, ExitInv, Procs

LEMMA ExitStep == TypeInv /\ ExitInv /\ [Next]_vars => ExitInv'
<1> SUFFICES ASSUME TypeInv, ExitInv, [Next]_vars PROVE ExitInv'
  OBVIOUS
<1>0. /\ Mother \in Procs /\ Others \subseteq Procs
      /\ proc \in [Procs -> {"running", "zombie", "gone"}]
      /\ status \in [Procs -> Statuses \cup {Running}]
  BY DEF TypeInv, TypeOK, Procs
<1>1. CASE Startup \/ LeaveLoop \/ CheckTime \/ UpdateStats \/ WriteRow
  BY <1>1 DEF Startup, LeaveLoop, CheckTime, StayInLoop, MotherExists,
              UpdateStats, WriteRow, At, Goto, codeVars, worldVars, ExitInv,
              OthersHarmless
<1>2. CASE OpenTmp \/ WriteTmp \/ Rename \/ RemoveSnapshot \/ OpenFinal \/ WriteFinal
  BY <1>2 DEF OpenTmp, WriteTmp, Rename, RemoveSnapshot, OpenFinal, WriteFinal,
              FileStep, At, Goto, codeVars, worldVars, ExitInv, OthersHarmless
<1>3. CASE FileOpFails
  BY <1>3 DEF FileOpFails, FileStep, AfterFailure, At, Goto, codeVars,
              worldVars, ExitInv, OthersHarmless
<1>4. CASE Sleep \/ ReapNone \/ Return \/ CloseText
  BY <1>4 DEF Sleep, ReapNone, Return, CloseText, At, Goto, codeVars, worldVars,
              ExitInv, OthersHarmless
<1>5. ASSUME NEW c \in Children, ReapOne(c) PROVE ExitInv'
  <2>1. /\ At("reap") /\ pc' = pc /\ proc[c] = "zombie" /\ status' = status
        /\ child_mode' = child_mode
        /\ proc' = [proc EXCEPT ![c] = "gone"]
        /\ wait_code' = IF status[c].how = "exited" /\ status[c].code # 0
                        THEN status[c].code ELSE wait_code
    BY <1>5 DEF ReapOne
  <2>2. c \in Procs /\ (c = Mother \/ c \in Others)
    BY DEF Children, Procs
  <2>3. OthersHarmless' => OthersHarmless
    BY <1>0, <2>1, <2>2 DEF OthersHarmless
  <2>4. CASE c = Mother
    BY <1>0, <2>1, <2>3, <2>4 DEF ExitInv, At
  <2>5. CASE c \in Others /\ c # Mother
    <3>1. OthersHarmless' => wait_code' = wait_code
      BY <1>0, <2>1, <2>5 DEF OthersHarmless
    <3>2. proc'[Mother] = proc[Mother]
      BY <1>0, <2>1, <2>5
    <3> QED BY <2>1, <2>3, <3>1, <3>2 DEF ExitInv, At
  <2> QED BY <2>2, <2>4, <2>5
<1>6. ASSUME NEW p \in Procs, NEW st \in Statuses, Exit(p, st) PROVE ExitInv'
  <2>1. /\ proc[p] = "running" /\ proc' = [proc EXCEPT ![p] = "zombie"]
        /\ status' = [status EXCEPT ![p] = st]
        /\ UNCHANGED <<pc, return_code, wait_code, exit_code, child_mode>>
    BY <1>6 DEF Exit, prmonVars, codeVars
  <2>2. \A q \in Procs : /\ proc'[q] = "gone" <=> proc[q] = "gone"
                         /\ proc[q] = "gone" => status'[q] = status[q]
    BY <1>0, <2>1
  <2>3. OthersHarmless' => OthersHarmless
    BY <1>0, <2>2 DEF OthersHarmless
  <2> QED BY <1>0, <2>1, <2>2, <2>3 DEF ExitInv
<1>7. CASE ParentReaps
  BY <1>7 DEF ParentReaps, Children, Procs, ExitInv
<1>8. CASE SigUsr1 \/ Crash \/ Tick
  BY <1>8 DEF SigUsr1, Crash, Tick, codeVars, worldVars, prmonVars, ExitInv,
              OthersHarmless
<1>9. CASE UNCHANGED vars
  BY <1>9 DEF vars, prmonVars, codeVars, worldVars, ExitInv, OthersHarmless
<1> QED BY <1>1, <1>2, <1>3, <1>4, <1>5, <1>6, <1>7, <1>8, <1>9
        DEF Next, PrmonStep, World, Terminated

\* Unless another child of prmon failed, prmon exits with the exit code of
\* the program it started, whatever else happens meanwhile.
THEOREM ExitCodeCorrect == Spec => []ExitCodeKept
<1>1. ExitInv => ExitCodeKept
  BY DEF ExitInv, ExitCodeKept, OthersHarmless
<1> QED BY <1>1, ExitInit, ExitStep, TypeInvAlways, PTL DEF Spec
---------------------------------------------------------------------------
(* The spacing of samples.                                                 *)

LastRow == samples[Len(samples)]

\* SamplesSpaced relates rows already written; to carry it over a sample one
\* has to know how far the last row is behind at each label of the sample:
\* when the sample was found due, and when its own start has been noted.
SpacingInv ==
  /\ SamplesSpaced
  /\ pc = "startup" => samples = <<>>
  /\ pc = "row" => ~first
  /\ samples # <<>> =>
       /\ ~first
       /\ LastRow.time <= now
       /\ pc = "sample" => now - LastRow.start > Interval
       /\ pc = "row" => /\ lastIteration - LastRow.start > Interval
                        /\ LastRow.time <= lastIteration
       /\ pc # "row" => lastIteration = LastRow.start

LEMMA SpacingInit == Init => SpacingInv
BY DEF Init, SpacingInv, SamplesSpaced

LEMMA SpacingStep == TypeInv /\ SpacingInv /\ [Next]_vars => SpacingInv'
<1> SUFFICES ASSUME TypeInv, SpacingInv, [Next]_vars PROVE SpacingInv'
  OBVIOUS
<1>0. /\ samples \in Seq(Rows) /\ now \in Nat /\ lastIteration \in Nat
      /\ lastIteration <= now /\ Interval \in Nat /\ Interval <= now
  BY TimesAssumption DEF TypeInv, TypeOK
<1>a. samples # <<>> => LastRow \in Rows
  BY <1>0 DEF LastRow
<1>b. samples # <<>> => LastRow.time \in Nat /\ LastRow.start \in Nat
  BY <1>a DEF Rows
<1>1. CASE WriteRow
  <2> DEFINE row == [time |-> now, start |-> lastIteration,
                     gauge |-> gauge.value, counter |-> counter.value]
  <2>1. /\ samples' = Append(samples, row) /\ pc = "row" /\ pc' = "tmp_open"
        /\ UNCHANGED <<now, lastIteration, first>>
    BY <1>1 DEF WriteRow, At, Goto, timeVars, worldVars
  <2>2. row.time = now /\ row.start = lastIteration /\ row \in Rows
    BY <1>0 DEF TypeInv, TypeOK, Rows, MonitoredValueType
  <2> HIDE DEF row
  <2>3. /\ Len(samples') = Len(samples) + 1 /\ samples'[Len(samples) + 1] = row
        /\ \A i \in 1..Len(samples) : samples'[i] = samples[i]
        /\ samples' # <<>> /\ Len(samples) \in Nat
    BY <1>0, <2>1, <2>2
  <2>4. SamplesSpaced'
    <3> SUFFICES ASSUME NEW i \in 1..(Len(samples') - 1)
                 PROVE  /\ samples'[i + 1].start - samples'[i].start > Interval
                        /\ samples'[i].time <= samples'[i + 1].start
      BY DEF SamplesSpaced
    <3>1. CASE i \in 1..(Len(samples) - 1)
      <4>1. samples'[i] = samples[i] /\ samples'[i + 1] = samples[i + 1]
        BY <2>3, <3>1
      <4> QED BY <3>1, <4>1 DEF SpacingInv, SamplesSpaced
    <3>2. CASE i = Len(samples)
      <4>1. samples # <<>> /\ samples'[i] = LastRow /\ samples'[i + 1] = row
        BY <2>3, <3>2, <1>0 DEF LastRow
      <4>2. lastIteration - LastRow.start > Interval /\ LastRow.time <= lastIteration
        BY <4>1, <2>1 DEF SpacingInv
      <4> QED BY <2>2, <4>1, <4>2
    <3> QED BY <2>3, <3>1, <3>2
  <2>5. LastRow' = row
    BY <2>3 DEF LastRow
  <2>6. ~first
    BY <2>1 DEF SpacingInv
  <2> QED BY <1>0, <2>1, <2>2, <2>3, <2>4, <2>5, <2>6 DEF SpacingInv
<1>2. CASE UpdateStats
  <2>1. /\ pc = "sample" /\ pc' = "row" /\ lastIteration' = now
        /\ UNCHANGED <<now, samples>>
    BY <1>2 DEF UpdateStats, At, Goto, worldVars, textVars
  <2>2. ~first'
    BY <1>2, Zenon DEF UpdateStats
  <2>3. SamplesSpaced' /\ LastRow' = LastRow
    BY <2>1 DEF SpacingInv, SamplesSpaced, LastRow
  <2> QED BY <1>0, <1>b, <2>1, <2>2, <2>3 DEF SpacingInv
<1>3. CASE CheckTime
  <2>1. /\ pc = "check" /\ pc' \in {"sample", "sleep"}
        /\ pc' = "sample" => Due
        /\ UNCHANGED <<now, samples, first, lastIteration>>
    BY <1>3 DEF CheckTime, At, Goto, worldVars, dataVars, textVars, timeVars
  <2>2. SamplesSpaced' /\ LastRow' = LastRow
    BY <2>1 DEF SpacingInv, SamplesSpaced, LastRow
  <2> QED BY <2>1, <2>2 DEF SpacingInv, Due
<1>4. CASE Startup
  <2>1. samples' = samples /\ samples = <<>> /\ pc' = "check"
    BY <1>4 DEF Startup, At, Goto, dataVars, textVars, SpacingInv
  <2> QED BY <2>1 DEF SpacingInv, SamplesSpaced
<1>5. CASE \/ OpenTmp \/ WriteTmp \/ Rename \/ RemoveSnapshot \/ OpenFinal
           \/ WriteFinal \/ FileOpFails \/ LeaveLoop \/ Return \/ CloseText
           \/ (\E c \in Children : ReapOne(c)) \/ ReapNone
  <2>1. /\ pc \notin {"startup", "row", "sample"}
        /\ pc' \notin {"startup", "row", "sample"}
        /\ UNCHANGED <<now, samples, first, lastIteration>>
    BY <1>5 DEF OpenTmp, WriteTmp, Rename, RemoveSnapshot, OpenFinal, WriteFinal,
                FileOpFails, AfterFailure, LeaveLoop, Return, CloseText, ReapOne,
                ReapNone, FileStep, At, Goto, worldVars, dataVars, textVars,
                textVars, timeVars
  <2> QED BY <2>1 DEF SpacingInv, SamplesSpaced, LastRow
<1>6. CASE Sleep \/ Tick
  <2>1. /\ now' >= now /\ now' \in Nat
        /\ UNCHANGED <<samples, first, lastIteration>>
        /\ pc' = pc \/ (pc = "sleep" /\ pc' = "reap")
    BY <1>0, <1>6 DEF Sleep, Tick, At, Goto, dataVars, textVars, prmonVars,
                      timeVars
  <2>2. SamplesSpaced' /\ LastRow' = LastRow
    BY <2>1 DEF SpacingInv, SamplesSpaced, LastRow
  <2> QED BY <1>0, <1>b, <2>1, <2>2 DEF SpacingInv
<1>7. CASE \/ SigUsr1 \/ Crash \/ ParentReaps \/ UNCHANGED vars
           \/ \E p \in Procs, st \in Statuses : Exit(p, st)
  <2>1. UNCHANGED <<pc, now, samples, first, lastIteration>>
    BY <1>7 DEF SigUsr1, Crash, ParentReaps, Exit, vars, prmonVars, dataVars,
                textVars, worldVars, timeVars
  <2> QED BY <2>1 DEF SpacingInv, SamplesSpaced, LastRow
<1> QED BY <1>1, <1>2, <1>3, <1>4, <1>5, <1>6, <1>7
        DEF Next, PrmonStep, World, Terminated

\* For every interval and however slow prmon is, samples are begun more than
\* interval seconds apart and rows are in the order of time.
THEOREM SpacingCorrect == Spec => []SamplesSpaced
<1>1. SpacingInv => SamplesSpaced
  BY DEF SpacingInv
<1> QED BY <1>1, SpacingInit, SpacingStep, TypeInvAlways, PTL DEF Spec

\* As long as time passes only in the sleep, a row bears the second in which
\* its sample was begun, and the clock is behind the end of the interval
\* until the sleep, at most one second past it afterwards: the test that finds
\* a sample due finds it due for the first second.
PromptInv == prompt =>
  /\ RowsEveryIntervalPlusOne
  /\ pc = "row" => lastIteration = now
  /\ samples # <<>> =>
       /\ pc # "row" => lastIteration = LastRow.time
       /\ pc = "row" => now - LastRow.time = Interval + 1
       /\ pc = "sample" => now - LastRow.time = Interval + 1
       /\ pc \in {"check", "reap"} => now - LastRow.time <= Interval + 1
       /\ pc \in {"tmp_open", "tmp_write", "rename", "sleep"}
            => now - LastRow.time <= Interval

LEMMA PromptInit == Init => PromptInv
BY DEF Init, PromptInv, RowsEveryIntervalPlusOne

LEMMA PromptStep ==
  TypeInv /\ SpacingInv /\ PromptInv /\ [Next]_vars => PromptInv'
<1> SUFFICES ASSUME TypeInv, SpacingInv, PromptInv, [Next]_vars, prompt'
             PROVE  PromptInv'
  BY DEF PromptInv
<1>0. /\ samples \in Seq(Rows) /\ now \in Nat /\ lastIteration \in Nat
      /\ lastIteration <= now /\ Interval \in Nat /\ Interval <= now
  BY TimesAssumption DEF TypeInv, TypeOK
<1>a. samples # <<>> => LastRow \in Rows
  BY <1>0 DEF LastRow
<1>b. samples # <<>> => LastRow.time \in Nat /\ LastRow.start \in Nat
  BY <1>a DEF Rows
<1>1. CASE WriteRow
  <2> DEFINE row == [time |-> now, start |-> lastIteration,
                     gauge |-> gauge.value, counter |-> counter.value]
  <2>1. /\ samples' = Append(samples, row) /\ pc = "row" /\ pc' = "tmp_open"
        /\ UNCHANGED <<now, lastIteration, prompt>>
    BY <1>1 DEF WriteRow, At, Goto, timeVars, worldVars
  <2>2. row.time = now /\ row \in Rows
    BY <1>0 DEF TypeInv, TypeOK, Rows, MonitoredValueType
  <2> HIDE DEF row
  <2>3. /\ Len(samples') = Len(samples) + 1 /\ samples'[Len(samples) + 1] = row
        /\ \A i \in 1..Len(samples) : samples'[i] = samples[i]
        /\ samples' # <<>> /\ Len(samples) \in Nat
    BY <1>0, <2>1, <2>2
  <2>4. RowsEveryIntervalPlusOne'
    <3> SUFFICES ASSUME NEW i \in 1..(Len(samples') - 1)
                 PROVE  samples'[i + 1].time - samples'[i].time = Interval + 1
      BY DEF RowsEveryIntervalPlusOne
    <3>1. CASE i \in 1..(Len(samples) - 1)
      <4>1. samples'[i] = samples[i] /\ samples'[i + 1] = samples[i + 1]
        BY <2>3, <3>1
      <4> QED BY <2>1, <3>1, <4>1 DEF PromptInv, RowsEveryIntervalPlusOne
    <3>2. CASE i = Len(samples)
      <4>1. samples # <<>> /\ samples'[i] = LastRow /\ samples'[i + 1] = row
        BY <2>3, <3>2, <1>0 DEF LastRow
      <4> QED BY <2>1, <2>2, <4>1 DEF PromptInv
    <3> QED BY <2>3, <3>1, <3>2
  <2>5. LastRow' = row
    BY <2>3 DEF LastRow
  <2> QED BY <1>0, <2>1, <2>2, <2>4, <2>5 DEF PromptInv
<1>2. CASE UpdateStats
  <2>1. /\ pc = "sample" /\ pc' = "row" /\ lastIteration' = now
        /\ UNCHANGED <<now, samples, prompt>>
    BY <1>2 DEF UpdateStats, At, Goto, worldVars, textVars
  <2> QED BY <2>1 DEF PromptInv, RowsEveryIntervalPlusOne, LastRow
<1>3. CASE CheckTime
  <2>1. /\ pc = "check" /\ pc' = IF Due THEN "sample" ELSE "sleep"
        /\ UNCHANGED <<now, samples, first, lastIteration, prompt>>
    BY <1>3 DEF CheckTime, At, Goto, worldVars, dataVars, textVars, timeVars
  <2>2. RowsEveryIntervalPlusOne' /\ LastRow' = LastRow
    BY <2>1 DEF PromptInv, RowsEveryIntervalPlusOne, LastRow
  <2>3. ASSUME samples # <<>>
        PROVE  /\ Due <=> now - LastRow.time > Interval
               /\ lastIteration = LastRow.time
               /\ now - LastRow.time <= Interval + 1
    BY <2>1, <2>3 DEF PromptInv, SpacingInv, Due
  <2> QED BY <1>0, <1>b, <2>1, <2>2, <2>3 DEF PromptInv
<1>4. CASE Startup
  <2>1. samples' = samples /\ samples = <<>> /\ pc' = "check"
    BY <1>4 DEF Startup, At, Goto, dataVars, textVars, SpacingInv
  <2> QED BY <2>1 DEF PromptInv, RowsEveryIntervalPlusOne
<1>5. CASE OpenTmp \/ WriteTmp \/ Rename \/ FileOpFails
  <2>1. /\ \/ /\ pc \in {"tmp_open", "tmp_write", "rename"}
              /\ pc' \in {"tmp_write", "rename", "sleep"}
           \/ /\ pc \in {"remove", "final_open", "final_write"}
              /\ pc' \in {"final_open", "return"}
        /\ UNCHANGED <<now, samples, lastIteration, prompt>>
    <3>1. CASE OpenTmp \/ WriteTmp \/ Rename
      BY <3>1 DEF OpenTmp, WriteTmp, Rename, FileStep, At, Goto, worldVars,
                  dataVars, textVars, timeVars
    <3>2. CASE FileOpFails
      <4>1. /\ pc \in DOMAIN AfterFailure /\ pc' = AfterFailure[pc]
            /\ UNCHANGED <<now, samples, lastIteration, prompt>>
        BY <3>2 DEF FileOpFails, FileStep, Goto, worldVars, dataVars, textVars,
                    timeVars
      <4>2. pc \in {"tmp_open", "tmp_write", "rename", "remove", "final_open",
                    "final_write"}
        BY <4>1 DEF AfterFailure
      <4>3. /\ AfterFailure["tmp_open"] = "rename"
            /\ AfterFailure["tmp_write"] = "rename"
            /\ AfterFailure["rename"] = "sleep"
            /\ AfterFailure["remove"] = "final_open"
            /\ AfterFailure["final_open"] = "return"
            /\ AfterFailure["final_write"] = "return"
        BY DEF AfterFailure
      <4> QED BY <4>1, <4>2, <4>3
    <3> QED BY <1>5, <3>1, <3>2
  <2> QED BY <2>1 DEF PromptInv, RowsEveryIntervalPlusOne, LastRow
<1>6. CASE \/ CloseText \/ RemoveSnapshot \/ OpenFinal \/ WriteFinal
           \/ LeaveLoop \/ Return
  <2>1. /\ pc # "row"
        /\ pc' \in {"close", "remove", "final_open", "final_write", "return", "done"}
        /\ UNCHANGED <<now, samples, lastIteration, prompt>>
    BY <1>6 DEF CloseText, RemoveSnapshot, OpenFinal, WriteFinal, LeaveLoop,
                Return, FileStep, At, Goto, worldVars, dataVars, textVars,
                timeVars
  <2> QED BY <2>1 DEF PromptInv, RowsEveryIntervalPlusOne, LastRow
<1>7. CASE (\E c \in Children : ReapOne(c)) \/ ReapNone
  <2>1. /\ pc = "reap" /\ pc' \in {"reap", "check"}
        /\ UNCHANGED <<now, samples, lastIteration, prompt>>
    BY <1>7 DEF ReapOne, ReapNone, At, Goto, worldVars, dataVars, textVars,
                timeVars
  <2> QED BY <2>1 DEF PromptInv, RowsEveryIntervalPlusOne, LastRow
<1>8. CASE Sleep
  <2>1. /\ pc = "sleep" /\ pc' = "reap" /\ now' \in {now, now + 1}
        /\ UNCHANGED <<samples, lastIteration, prompt>>
    BY <1>8 DEF Sleep, At, Goto, dataVars, textVars, timeVars
  <2>2. RowsEveryIntervalPlusOne' /\ LastRow' = LastRow
    BY <2>1 DEF PromptInv, RowsEveryIntervalPlusOne, LastRow
  <2> QED BY <1>0, <1>b, <2>1, <2>2 DEF PromptInv
<1>9. CASE Tick
  <2>1. ~prompt'
    BY <1>9, Zenon DEF Tick
  <2> QED BY <2>1
<1>10. CASE \/ SigUsr1 \/ Crash \/ ParentReaps \/ UNCHANGED vars
            \/ \E p \in Procs, st \in Statuses : Exit(p, st)
  <2>1. UNCHANGED <<pc, now, samples, lastIteration, prompt>>
    BY <1>10 DEF SigUsr1, Crash, ParentReaps, Exit, vars, prmonVars, dataVars,
                 textVars, worldVars, timeVars
  <2> QED BY <2>1 DEF PromptInv, RowsEveryIntervalPlusOne, LastRow
<1> QED BY <1>1, <1>2, <1>3, <1>4, <1>5, <1>6, <1>7, <1>8, <1>9, <1>10
        DEF Next, PrmonStep, World, Terminated

\* For every interval: if prmon loses no time but in its sleep, consecutive
\* rows are exactly interval + 1 seconds apart.
THEOREM PromptRows == Spec => []RowsEveryIntervalPlusOne
<1>1. PromptInv => RowsEveryIntervalPlusOne
  BY DEF PromptInv, RowsEveryIntervalPlusOne
<1> QED BY <1>1, PromptInit, PromptStep, SpacingInit, SpacingStep, TypeInvAlways,
           PTL DEF Spec
---------------------------------------------------------------------------
(* The summaries agree with the rows.                                      *)

\* A prefix of the rows is still one after another row.
LEMMA PrefixKept ==
  ASSUME NEW rows \in Seq(Rows), NEW r \in Rows
  PROVE  /\ \A k \in 1..Len(rows) :
              SubSeq(Append(rows, r), 1, k) = SubSeq(rows, 1, k)
         /\ SubSeq(rows, 1, Len(rows)) = rows
<1>1. Append(rows, r) = rows \o <<r>> /\ <<r>> \in Seq(Rows)
  BY AppendIsConcat
<1>2. ASSUME NEW k \in 1..Len(rows)
      PROVE  SubSeq(Append(rows, r), 1, k) = SubSeq(rows, 1, k)
  <2>1. 1 \in 1..Len(rows)
    OBVIOUS
  <2> QED BY <1>1, <2>1, SubSeqOfConcat1
<1> QED BY <1>2, SubSeqFull

LEMMA GaugesAppend ==
  ASSUME NEW rows \in Seq(Rows), NEW r \in Rows
  PROVE  /\ GaugesOf(rows) \in Seq(Nat)
         /\ GaugesOf(Append(rows, r)) = Append(GaugesOf(rows), r.gauge)
         /\ r.gauge \in Nat
<1> DEFINE g == GaugesOf(rows)
           h == GaugesOf(Append(rows, r))
<1>1. Len(rows) \in Nat /\ \A i \in 1..Len(rows) : rows[i].gauge \in Nat
  <2>1. \A i \in 1..Len(rows) : rows[i] \in Rows
    OBVIOUS
  <2>2. \A x \in Rows : x.gauge \in Nat
    BY DEF Rows
  <2> QED BY <2>1, <2>2
<1>2. g \in Seq(Nat) /\ Len(g) = Len(rows)
  BY <1>1 DEF GaugesOf
<1>3. r.gauge \in Nat
  BY DEF Rows
<1>4. /\ Len(Append(rows, r)) = Len(rows) + 1
      /\ Append(rows, r)[Len(rows) + 1] = r
      /\ \A i \in 1..Len(rows) : Append(rows, r)[i] = rows[i]
  OBVIOUS
<1>5. /\ h \in Seq(Nat) /\ Len(h) = Len(rows) + 1
      /\ h[Len(rows) + 1] = r.gauge
      /\ \A i \in 1..Len(rows) : h[i] = g[i]
  BY <1>1, <1>3, <1>4 DEF GaugesOf
<1> HIDE DEF g, h
<1>6. h = Append(g, r.gauge)
  BY <1>1, <1>2, <1>3, <1>5
<1> QED BY <1>2, <1>3, <1>6 DEF g, h

\* The object agrees with the rows except between update_stats and the row of
\* the same sample, when it is one reading ahead.
Ahead(rows, n, total, peak) ==
  /\ gauge.iterations = Len(rows) + n
  /\ gauge.summed = SumOf(GaugesOf(rows)) + total
  /\ peak <= gauge.max
  /\ \A i \in 1..Len(rows) : rows[i].gauge <= gauge.max
  /\ gauge.max = peak \/ \E i \in 1..Len(rows) : rows[i].gauge = gauge.max

StatsInv ==
  /\ ~gauge.monotonic /\ gauge.offset = 0
  /\ pc # "row" => /\ Ahead(samples, 0, 0, 0)
                   /\ samples # <<>> => \E i \in 1..Len(samples) : samples[i].gauge = gauge.max
  /\ pc = "row" => Ahead(samples, 1, gauge.value, gauge.value)
  /\ json_summary = SummaryOf(samples)

LEMMA StatsInit == Init => StatsInv
<1> SUFFICES ASSUME Init PROVE StatsInv
  OBVIOUS
<1>1. /\ samples = <<>> /\ Len(samples) = 0 /\ pc = "startup"
      /\ gauge = NewMonitoredValue(FALSE, 0) /\ json_summary = NoStats
  BY DEF Init
<1>2. GaugesOf(samples) = <<>>
  BY <1>1 DEF GaugesOf
<1>3. SumOf(GaugesOf(samples)) = 0
  BY <1>2, SumEmpty
<1>4. /\ ~gauge.monotonic /\ gauge.offset = 0 /\ gauge.iterations = 0
      /\ gauge.summed = 0 /\ gauge.max = 0
  BY <1>1 DEF NewMonitoredValue
<1>5. json_summary = SummaryOf(samples)
  BY <1>1 DEF SummaryOf
<1>6. Ahead(samples, 0, 0, 0)
  <2>0. Len(samples) = 0 /\ gauge.iterations = 0 /\ gauge.max = 0
    BY <1>1, <1>4
  <2>1. gauge.iterations = Len(samples) + 0
    BY <2>0
  <2>2. gauge.summed = SumOf(GaugesOf(samples)) + 0
    BY <1>3, <1>4
  <2>3. 0 <= gauge.max /\ 1..Len(samples) = {}
    BY <2>0
  <2> QED BY <1>4, <2>1, <2>2, <2>3 DEF Ahead
<1> QED BY <1>1, <1>4, <1>5, <1>6 DEF StatsInv

\* The entries made from the object when the row of the sample is written are
\* the statistics of the rows, that one included.
LEMMA SummaryRight ==
  ASSUME NEW rows \in Seq(Rows), NEW r \in Rows, gauge \in MonitoredValueType,
         ~gauge.monotonic, Ahead(rows, 1, gauge.value, gauge.value),
         r.gauge = gauge.value, r.counter = counter.value
  PROVE  /\ SummaryFrom(gauge, counter) = SummaryOf(Append(rows, r))
         /\ Ahead(Append(rows, r), 0, 0, 0)
         /\ \E i \in 1..Len(Append(rows, r)) : Append(rows, r)[i].gauge = gauge.max
<1> DEFINE t == Append(rows, r)
<1>1. /\ t \in Seq(Rows) /\ Len(rows) \in Nat /\ Len(t) = Len(rows) + 1 /\ t # <<>>
      /\ t[Len(rows) + 1] = r /\ \A i \in 1..Len(rows) : t[i] = rows[i]
  OBVIOUS
<1>2. SumOf(GaugesOf(t)) = SumOf(GaugesOf(rows)) + r.gauge
  BY GaugesAppend, SumAppend
<1>3. SumOf(GaugesOf(t)) \in Nat
  <2>1. GaugesOf(t) \in Seq(Nat)
    BY <1>1, GaugesAppend
  <2> QED BY <2>1, SumType
<1> HIDE DEF t
<1>4. gauge.max \in Nat /\ gauge.summed \in Nat /\ gauge.iterations \in Nat
  BY DEF MonitoredValueType
<1>5. gauge.iterations = Len(t) /\ gauge.summed = SumOf(GaugesOf(t))
  BY <1>1, <1>2 DEF Ahead
<1>6. \A i \in 1..Len(t) : t[i].gauge \in Nat /\ t[i].gauge <= gauge.max
  <2> TAKE i \in 1..Len(t)
  <2>1. t[i] \in Rows
    BY <1>1
  <2>2. i = Len(rows) + 1 \/ i \in 1..Len(rows)
    BY <1>1
  <2>3. t[i].gauge <= gauge.max
    BY <1>1, <2>2 DEF Ahead
  <2> QED BY <2>1, <2>3 DEF Rows
<1>7. \E i \in 1..Len(t) : t[i].gauge = gauge.max
  <2>1. CASE gauge.max = gauge.value
    BY <1>1, <2>1
  <2>2. CASE \E i \in 1..Len(rows) : rows[i].gauge = gauge.max
    <3>1. PICK i \in 1..Len(rows) : rows[i].gauge = gauge.max
      BY <2>2
    <3>2. i \in 1..Len(t) /\ t[i] = rows[i]
      BY <1>1
    <3> QED BY <3>1, <3>2
  <2> QED BY <2>1, <2>2 DEF Ahead
<1>8. gauge.max = Max({t[i].gauge : i \in 1..Len(t)})
  <2> DEFINE S == {t[i].gauge : i \in 1..Len(t)}
  <2>1. gauge.max \in S /\ S \subseteq Nat /\ \A y \in S : gauge.max >= y
    BY <1>4, <1>6, <1>7
  <2> HIDE DEF S
  <2>2. ASSUME NEW x \in S, \A y \in S : x >= y PROVE x = gauge.max
    <3>1. x \in Nat /\ gauge.max >= x /\ x >= gauge.max
      BY <2>1, <2>2
    <3> QED BY <1>4, <3>1
  <2>3. Max(S) = gauge.max
    BY <2>1, <2>2 DEF Max
  <2> QED BY <2>3 DEF S
<1>9. AverageValue(gauge) = [num |-> SumOf(GaugesOf(t)), den |-> Len(t)]
  BY <1>1, <1>5 DEF AverageValue
<1>10. Last(t).counter = counter.value
  BY <1>1 DEF Last
<1>11. SummaryFrom(gauge, counter) = SummaryOf(t)
  BY <1>1, <1>8, <1>9, <1>10 DEF SummaryFrom, SummaryOf
<1>12. Ahead(t, 0, 0, 0)
  BY <1>1, <1>3, <1>4, <1>5, <1>6, <1>7 DEF Ahead
<1> QED BY <1>7, <1>11, <1>12 DEF t

\* update_stats puts the object one reading ahead.
LEMMA ReadingAhead ==
  ASSUME TypeInv, StatsInv, pc = "sample", NEW g \in Gauges,
         gauge' = SetValue(gauge, g), samples' = samples
  PROVE  /\ ~gauge'.monotonic /\ gauge'.offset = 0
         /\ Ahead(samples, 1, gauge.value, gauge.value)'
<1>1. g \in Nat /\ gauge \in MonitoredValueType /\ samples \in Seq(Rows)
  BY ValuesAssumption DEF TypeInv, TypeOK
<1>2. /\ gauge.iterations \in Nat /\ gauge.max \in Nat /\ gauge.summed \in Nat
      /\ ~gauge.monotonic /\ gauge.offset = 0
  BY <1>1 DEF StatsInv, MonitoredValueType
<1> DEFINE p == IF g > gauge.max THEN g ELSE gauge.max
<1>3. gauge' = [gauge EXCEPT !.value = g, !.max = p, !.summed = gauge.summed + g,
                             !.iterations = gauge.iterations + 1]
  <2>1. g - gauge.offset = g /\ Accepts(gauge, g)
    BY <1>1, <1>2 DEF Accepts
  <2> QED BY <1>1, <1>2, <2>1 DEF SetValue, Recorded, MonitoredValueType
<1>4. p \in Nat /\ g <= p /\ gauge.max <= p /\ (p = g \/ p = gauge.max)
  BY <1>1, <1>2
<1> HIDE DEF p
<1>5. /\ gauge'.value = g /\ gauge'.max = p /\ gauge'.summed = gauge.summed + g
      /\ gauge'.iterations = gauge.iterations + 1
      /\ gauge'.monotonic = gauge.monotonic /\ gauge'.offset = gauge.offset
  BY <1>1, <1>3 DEF MonitoredValueType
<1>6. Ahead(samples, 0, 0, 0)
  BY DEF StatsInv
<1>7. SumOf(GaugesOf(samples)) \in Nat /\ Len(samples) \in Nat
  <2>1. GaugesOf(samples) \in Seq(Nat)
    <3>1. \A i \in 1..Len(samples) : samples[i] \in Rows
      BY <1>1
    <3>2. \A i \in 1..Len(samples) : samples[i].gauge \in Nat
      BY <3>1 DEF Rows
    <3> QED BY <1>1, <3>2 DEF GaugesOf
  <2> QED BY <1>1, <2>1, SumType
<1>8. \A i \in 1..Len(samples) : samples[i].gauge \in Nat /\ samples[i].gauge <= p
  <2> TAKE i \in 1..Len(samples)
  <2>1. samples[i] \in Rows
    BY <1>1
  <2>2. samples[i].gauge \in Nat /\ samples[i].gauge <= gauge.max
    BY <1>6, <2>1 DEF Rows, Ahead
  <2> QED BY <1>2, <1>4, <2>2
<1>9. p = g \/ \E i \in 1..Len(samples) : samples[i].gauge = p
  <2>1. CASE p = gauge.max /\ samples = <<>>
    <3>1. gauge.max = 0
      BY <1>6, <2>1 DEF Ahead
    <3> QED BY <1>1, <1>4, <2>1, <3>1
  <2>2. CASE p = gauge.max /\ samples # <<>>
    BY <2>2 DEF StatsInv
  <2> QED BY <1>4, <2>1, <2>2
<1>10. /\ gauge.iterations + 1 = Len(samples) + 1
       /\ gauge.summed + g = SumOf(GaugesOf(samples)) + g
  BY <1>1, <1>2, <1>6, <1>7 DEF Ahead
<1> QED BY <1>2, <1>4, <1>5, <1>8, <1>9, <1>10 DEF Ahead

LEMMA StatsStep == TypeInv /\ StatsInv /\ [Next]_vars => StatsInv'
<1> SUFFICES ASSUME TypeInv, StatsInv, [Next]_vars PROVE StatsInv'
  OBVIOUS
<1>1. CASE WriteRow
  <2> DEFINE row == [time |-> now, start |-> lastIteration,
                     gauge |-> gauge.value, counter |-> counter.value]
  <2>1. /\ samples' = Append(samples, row) /\ pc = "row" /\ pc' = "tmp_open"
        /\ json_summary' = SummaryFrom(gauge, counter) /\ gauge' = gauge
    BY <1>1 DEF WriteRow, At, Goto
  <2>2. row \in Rows /\ samples \in Seq(Rows) /\ gauge \in MonitoredValueType
    BY DEF TypeInv, TypeOK, Rows, MonitoredValueType
  <2>3. row.gauge = gauge.value /\ row.counter = counter.value
    OBVIOUS
  <2> HIDE DEF row
  <2>4. ~gauge.monotonic /\ Ahead(samples, 1, gauge.value, gauge.value)
    BY <2>1 DEF StatsInv
  <2>5. /\ SummaryFrom(gauge, counter) = SummaryOf(samples')
        /\ Ahead(samples', 0, 0, 0)
        /\ \E i \in 1..Len(samples') : samples'[i].gauge = gauge.max
    BY <2>1, <2>2, <2>3, <2>4, SummaryRight
  <2>6. Ahead(samples, 0, 0, 0)'
    BY <2>1, <2>5 DEF Ahead
  <2> QED BY <2>1, <2>5, <2>6 DEF StatsInv, SummaryOf
<1>2. CASE UpdateStats
  <2>1. /\ pc = "sample" /\ pc' = "row" /\ UNCHANGED <<samples, json_summary>>
    BY <1>2 DEF UpdateStats, At, Goto, textVars
  <2>2. PICK g \in Gauges : gauge' = SetValue(gauge, g)
    BY <1>2 DEF UpdateStats
  <2>3. /\ ~gauge'.monotonic /\ gauge'.offset = 0
        /\ Ahead(samples, 1, gauge.value, gauge.value)'
    BY <2>1, <2>2, ReadingAhead
  <2>4. SummaryOf(samples)' = SummaryOf(samples)
    BY <2>1 DEF SummaryOf
  <2> QED BY <2>1, <2>3, <2>4 DEF StatsInv
<1>3. ASSUME UNCHANGED <<gauge, samples, json_summary>>, pc = "row" <=> pc' = "row"
      PROVE  StatsInv'
  <2>1. SummaryOf(samples)' = SummaryOf(samples)
    BY <1>3 DEF SummaryOf
  <2>2. Ahead(samples, 0, 0, 0)' <=> Ahead(samples, 0, 0, 0)
    BY <1>3 DEF Ahead
  <2>3. Ahead(samples, 1, gauge.value, gauge.value)'
          <=> Ahead(samples, 1, gauge.value, gauge.value)
    BY <1>3 DEF Ahead
  <2> QED BY <1>3, <2>1, <2>2, <2>3 DEF StatsInv
<1>4. CASE \/ Startup \/ LeaveLoop \/ CheckTime \/ Sleep \/ ReapNone \/ CloseText
           \/ Return
  BY <1>3, <1>4 DEF Startup, LeaveLoop, CheckTime, Sleep, ReapNone, CloseText,
                    Return, At, Goto, dataVars, textVars
<1>5. CASE OpenTmp \/ WriteTmp \/ Rename \/ RemoveSnapshot \/ OpenFinal \/ WriteFinal
  BY <1>3, <1>5 DEF OpenTmp, WriteTmp, Rename, RemoveSnapshot, OpenFinal,
                    WriteFinal, FileStep, At, Goto, dataVars, textVars
<1>6. CASE FileOpFails
  BY <1>3, <1>6 DEF FileOpFails, FileStep, AfterFailure, At, Goto, dataVars,
                    textVars
<1>7. CASE \/ SigUsr1 \/ Crash \/ ParentReaps \/ Tick \/ UNCHANGED vars
           \/ (\E p \in Procs, st \in Statuses : Exit(p, st))
           \/ (\E c \in Children : ReapOne(c))
  BY <1>3, <1>7 DEF SigUsr1, Crash, ParentReaps, Tick, Exit, ReapOne, vars,
                    prmonVars, dataVars, textVars
<1> QED BY <1>1, <1>2, <1>4, <1>5, <1>6, <1>7
        DEF Next, PrmonStep, World, Terminated

\* What a file may hold: the summary of the first k rows, for some k.
OfPrefix(j) == \E k \in 1..Len(samples) : j = SummaryOf(SubSeq(samples, 1, k))

\* A tmp file that could not be renamed stays, and a later rename may put it
\* in place although it is stale; no row is written once the final summary
\* has been begun.
StoredInv ==
  /\ tmp.state = "full" => OfPrefix(tmp.json)
  /\ snapshot.state = "full" => OfPrefix(snapshot.json)
  /\ final.state # "absent" => pc \in {"final_write", "return", "done"}
  /\ final.state = "full" => final.json = SummaryOf(samples)
  /\ pc \in {"tmp_open", "tmp_write", "rename"} => samples # <<>>

LEMMA StoredInit == Init => StoredInv
BY DEF Init, StoredInv, Absent

LEMMA StoredStep == TypeInv /\ StatsInv /\ StoredInv /\ [Next]_vars => StoredInv'
<1> SUFFICES ASSUME TypeInv, StatsInv, StoredInv, [Next]_vars PROVE StoredInv'
  OBVIOUS
<1>0. samples \in Seq(Rows) /\ json_summary = SummaryOf(samples) /\ Len(samples) \in Nat
  BY DEF TypeInv, TypeOK, StatsInv
<1>1. samples # <<>> => OfPrefix(json_summary)
  <2>1. samples # <<>> => Len(samples) \in 1..Len(samples)
    BY <1>0
  <2>2. SubSeq(samples, 1, Len(samples)) = samples
    BY <1>0, SubSeqFull
  <2> QED BY <1>0, <2>1, <2>2 DEF OfPrefix
<1>2. CASE WriteRow
  <2> DEFINE row == [time |-> now, start |-> lastIteration,
                     gauge |-> gauge.value, counter |-> counter.value]
  <2>1. /\ samples' = Append(samples, row) /\ pc = "row" /\ pc' = "tmp_open"
        /\ UNCHANGED <<tmp, snapshot, final>>
    BY <1>2 DEF WriteRow, At, Goto, fileVars
  <2>2. row \in Rows
    BY DEF TypeInv, TypeOK, Rows, MonitoredValueType
  <2> HIDE DEF row
  <2>3. Len(samples') = Len(samples) + 1 /\ samples' # <<>>
    BY <1>0, <2>1, <2>2
  <2>4. ASSUME NEW j, OfPrefix(j) PROVE OfPrefix(j)'
    <3>1. PICK k \in 1..Len(samples) : j = SummaryOf(SubSeq(samples, 1, k))
      BY <2>4 DEF OfPrefix
    <3>2. SubSeq(samples', 1, k) = SubSeq(samples, 1, k) /\ k \in 1..Len(samples')
      BY <1>0, <2>1, <2>2, <2>3, PrefixKept
    <3>3. \E i \in 1..Len(samples') : j = SummaryOf(SubSeq(samples', 1, i))
      BY <3>1, <3>2
    <3>4. OfPrefix(j)' <=> \E i \in 1..Len(samples') : j = SummaryOf(SubSeq(samples', 1, i))
      BY DEF OfPrefix, SummaryOf
    <3> QED BY <3>3, <3>4
  <2>5. final.state = "absent"
    BY <2>1 DEF StoredInv
  <2>6. /\ tmp'.state = "full" => OfPrefix(tmp.json)'
        /\ snapshot'.state = "full" => OfPrefix(snapshot.json)'
    <3>1. PICK a, b : a = tmp.json /\ b = snapshot.json
      OBVIOUS
    <3>2. /\ tmp.state = "full" => OfPrefix(a)'
          /\ snapshot.state = "full" => OfPrefix(b)'
      BY <2>4, <3>1 DEF StoredInv
    <3>3. tmp'.json = a /\ snapshot'.json = b
      BY <2>1, <3>1
    <3> QED BY <2>1, <3>2, <3>3 DEF OfPrefix
  <2> QED BY <2>1, <2>3, <2>5, <2>6 DEF StoredInv
<1>3. ASSUME samples' = samples
      PROVE  SummaryOf(samples)' = SummaryOf(samples) /\ \A j : OfPrefix(j)' <=> OfPrefix(j)
  BY <1>3 DEF OfPrefix, SummaryOf
<1>4. CASE OpenTmp \/ Rename \/ RemoveSnapshot \/ OpenFinal \/ FileOpFails
  BY <1>3, <1>4 DEF OpenTmp, Rename, RemoveSnapshot, OpenFinal, FileOpFails,
                    FileStep, AfterFailure, At, Goto, dataVars, textVars, Absent,
                    Partial, StoredInv, OfPrefix
<1>5. CASE WriteTmp
  BY <1>0, <1>1, <1>3, <1>5 DEF WriteTmp, FileStep, At, Goto, dataVars, textVars,
      Full, StoredInv, OfPrefix
<1>6. CASE WriteFinal
  BY <1>0, <1>3, <1>6 DEF WriteFinal, FileStep, At, Goto, dataVars, textVars,
                          Full, StoredInv, OfPrefix
<1>7. CASE Startup \/ LeaveLoop \/ CheckTime \/ UpdateStats
  BY <1>3, <1>7 DEF Startup, LeaveLoop, CheckTime, UpdateStats, At, Goto,
     dataVars, textVars, fileVars, StoredInv, OfPrefix
<1>8. CASE \/ Sleep \/ (\E c \in Children : ReapOne(c)) \/ ReapNone \/ CloseText
           \/ Return
  BY <1>3, <1>8 DEF Sleep, ReapOne, ReapNone, CloseText, Return, At, Goto,
                    dataVars, textVars, fileVars, StoredInv, OfPrefix
<1>9. CASE World \/ UNCHANGED vars
  BY <1>3, <1>9 DEF World, SigUsr1, Crash, ParentReaps, Tick, Exit, vars,
     prmonVars, dataVars, textVars, fileVars, StoredInv, OfPrefix
<1> QED BY <1>2, <1>4, <1>5, <1>6, <1>7, <1>8, <1>9 DEF Next, PrmonStep,
    Terminated

LEMMA StoredInvAlways == Spec => [](TypeInv /\ StatsInv /\ StoredInv)
BY TypeInit, TypeStep, StatsInit, StatsStep, StoredInit, StoredStep, PTL DEF Spec

\* Whatever file operations fail, those of the text file included, and
\* wherever prmon is killed: the text file holds the first samples, and all of
\* them while its stream is good; a complete snapshot is the summary of some
\* first samples, a complete final summary that of all, lost rows included.
THEOREM SummariesCorrect == Spec => []SummariesMatchRows
<1>1. TypeInv /\ StoredInv => SummariesMatchRows
  <2> SUFFICES ASSUME TypeInv, StoredInv PROVE SummariesMatchRows
    OBVIOUS
  <2>1. /\ samples \in Seq(Rows) /\ text \in Seq(Rows)
        /\ Len(text) \in Nat /\ Len(samples) \in Nat /\ Len(text) <= Len(samples)
        /\ \A i \in 1..Len(text) : text[i] = samples[i]
        /\ file = "good" => Len(text) = Len(samples)
    BY DEF TypeInv, TextInv
  <2>2. SubSeq(samples, 1, Len(text)) = text
    BY <2>1
  <2>3. IsPrefix(text, samples)
    BY <2>1, <2>2 DEF IsPrefix
  <2>4. file = "good" => text = samples
    BY <2>1
  <2> QED BY <2>3, <2>4 DEF StoredInv, OfPrefix, SummariesMatchRows
<1> QED BY <1>1, StoredInvAlways, PTL

\* Where the snapshot is one sample behind, the tmp file already has the new one.
FreshInv == ~io_failed =>
  /\ pc = "rename" => tmp.json = SummaryOf(samples)
  /\ snapshot.state = "full" =>
       \/ ~Replacing /\ samples # <<>> /\ snapshot.json = SummaryOf(samples)
       \/ /\ Replacing /\ Len(samples) >= 2
          /\ snapshot.json = SummaryOf(SubSeq(samples, 1, Len(samples) - 1))
  /\ Replacing /\ Len(samples) >= 2 => snapshot.state = "full"
  /\ pc \in {"check", "sample", "row", "sleep", "reap"} /\ samples # <<>>
       => snapshot.state = "full"
  /\ pc = "startup" => samples = <<>>

LEMMA FreshInit == Init => FreshInv
BY DEF Init, FreshInv, Replacing, Absent

LEMMA FreshStep ==
  TypeInv /\ StatsInv /\ StoredInv /\ FilesInv /\ FreshInv /\ [Next]_vars => FreshInv'
<1> SUFFICES ASSUME TypeInv, StatsInv, StoredInv, FilesInv, FreshInv, [Next]_vars,
                    ~io_failed'
             PROVE  FreshInv'
  BY DEF FreshInv
<1>0. samples \in Seq(Rows) /\ json_summary = SummaryOf(samples) /\ Len(samples) \in Nat
  BY DEF TypeInv, TypeOK, StatsInv
<1>1. CASE WriteRow
  <2> DEFINE row == [time |-> now, start |-> lastIteration,
                     gauge |-> gauge.value, counter |-> counter.value]
  <2>1. /\ samples' = Append(samples, row) /\ pc = "row" /\ pc' = "tmp_open"
        /\ UNCHANGED <<snapshot, io_failed>>
    BY <1>1 DEF WriteRow, At, Goto, fileVars
  <2>2. row \in Rows
    BY DEF TypeInv, TypeOK, Rows, MonitoredValueType
  <2> HIDE DEF row
  <2>3. Len(samples') = Len(samples) + 1 /\ (samples # <<>> <=> Len(samples) >= 1)
    BY <1>0, <2>1, <2>2
  <2>4. ASSUME samples # <<>> PROVE SubSeq(samples', 1, Len(samples') - 1) = samples
    <3>1. Len(samples) \in 1..Len(samples) /\ Len(samples') - 1 = Len(samples)
      BY <1>0, <2>3, <2>4
    <3> QED BY <1>0, <2>1, <2>2, <3>1, PrefixKept
  <2>5. SummaryOf(SubSeq(samples, 1, Len(samples) - 1))'
          = SummaryOf(SubSeq(samples', 1, Len(samples') - 1))
    BY DEF SummaryOf
  <2>6. snapshot.state = "full" <=> samples # <<>>
    BY <2>1 DEF FreshInv, Replacing
  <2>7. ASSUME snapshot.state = "full"
        PROVE  /\ Len(samples') >= 2
               /\ snapshot.json = SummaryOf(SubSeq(samples', 1, Len(samples') - 1))
    <3>1. samples # <<>> /\ snapshot.json = SummaryOf(samples)
      BY <2>1, <2>7 DEF FreshInv, Replacing
    <3>2. Len(samples') >= 2
      BY <1>0, <2>3, <3>1
    <3>3. SubSeq(samples', 1, Len(samples') - 1) = samples
      BY <2>4, <3>1
    <3> QED BY <3>1, <3>2, <3>3
  <2> QED BY <1>0, <2>1, <2>3, <2>5, <2>6, <2>7 DEF FreshInv, Replacing
<1>2. ASSUME samples' = samples
      PROVE  /\ SummaryOf(samples)' = SummaryOf(samples)
             /\ SummaryOf(SubSeq(samples, 1, Len(samples) - 1))'
                  = SummaryOf(SubSeq(samples, 1, Len(samples) - 1))
  BY <1>2 DEF SummaryOf
<1>3. CASE WriteTmp
  BY <1>0, <1>2, <1>3 DEF WriteTmp, FileStep, At, Goto, dataVars, textVars, Full,
                          FreshInv, Replacing
<1>4. CASE Rename
  <2>1. /\ pc = "rename" /\ pc' = "sleep" /\ snapshot' = tmp
        /\ UNCHANGED <<samples, io_failed>>
    BY <1>4 DEF Rename, FileStep, At, Goto, dataVars, textVars
  <2>2. samples # <<>> /\ tmp.json = SummaryOf(samples) /\ tmp.state = "full"
    BY <2>1 DEF FreshInv, StoredInv, FilesInv
  <2> QED BY <1>2, <2>1, <2>2 DEF FreshInv, Replacing
<1>5. CASE OpenTmp \/ RemoveSnapshot \/ OpenFinal \/ WriteFinal
  BY <1>2, <1>5 DEF OpenTmp, RemoveSnapshot, OpenFinal, WriteFinal, FileStep, At,
     Goto, dataVars, textVars, Absent, Partial, FreshInv, Replacing
<1>6. CASE FileOpFails
  <2>1. io_failed'
    BY <1>6, Zenon DEF FileOpFails
  <2> QED BY <2>1
<1>7. CASE Startup \/ LeaveLoop \/ CheckTime \/ UpdateStats
  BY <1>2, <1>7 DEF Startup, LeaveLoop, CheckTime, UpdateStats, At, Goto,
     dataVars, textVars, fileVars, FreshInv, Replacing
<1>8. CASE \/ Sleep \/ (\E c \in Children : ReapOne(c)) \/ ReapNone \/ CloseText
           \/ Return
  BY <1>2, <1>8 DEF Sleep, ReapOne, ReapNone, CloseText, Return, At, Goto,
                    dataVars, textVars, fileVars, FreshInv, Replacing
<1>9. CASE World \/ UNCHANGED vars
  BY <1>2, <1>9 DEF World, SigUsr1, Crash, ParentReaps, Tick, Exit, vars,
     prmonVars, dataVars, textVars, fileVars, FreshInv, Replacing
<1> QED BY <1>1, <1>3, <1>4, <1>5, <1>6, <1>7, <1>8, <1>9
        DEF Next, PrmonStep, Terminated

\* If no operation on the JSON files fails, killing prmon at any moment loses at
\* most the newest sample: the snapshot is the summary of all samples, or of all
\* but one between the row and the rename, and there is one until the loop is
\* left.
THEOREM SnapshotFreshCorrect == Spec => []SnapshotFresh
<1>1. TypeInv /\ FreshInv => SnapshotFresh
  <2> SUFFICES ASSUME TypeInv, FreshInv, ~io_failed PROVE SnapshotFresh
    BY DEF SnapshotFresh
  <2>1. samples \in Seq(Rows) /\ Len(samples) \in Nat
    BY DEF TypeInv, TypeOK
  <2>2. SubSeq(samples, 1, Len(samples)) = samples
    BY <2>1, SubSeqFull
  <2>3. samples # <<>> <=> Len(samples) >= 1
    BY <2>1
  <2>4. CASE Replacing
    <3>1. snapshot.state = "full" =>
             /\ Len(samples) - 1 > 0
             /\ snapshot.json = SummaryOf(SubSeq(samples, 1, Len(samples) - 1))
      BY <2>1, <2>4 DEF FreshInv
    <3>2. Len(samples) - 1 > 0 => snapshot.state = "full"
      BY <2>1, <2>4 DEF FreshInv
    <3> QED BY <2>4, <3>1, <3>2 DEF SnapshotFresh
  <2>5. CASE ~Replacing
    <3>1. snapshot.state = "full" =>
             /\ Len(samples) > 0
             /\ snapshot.json = SummaryOf(SubSeq(samples, 1, Len(samples)))
      <4>1. SummaryOf(SubSeq(samples, 1, Len(samples))) = SummaryOf(samples)
        BY <2>2
      <4> QED BY <2>1, <2>3, <2>5, <4>1 DEF FreshInv
    <3>2. pc \in {"check", "sample", "row", "sleep", "reap"} /\ Len(samples) > 0
             => snapshot.state = "full"
      BY <2>1, <2>3 DEF FreshInv
    <3> QED BY <2>5, <3>1, <3>2 DEF SnapshotFresh
  <2> QED BY <2>4, <2>5
<1> QED BY <1>1, StoredInvAlways, FilesInit, FilesStep, FreshInit, FreshStep, PTL
        DEF Spec
============================================================================
