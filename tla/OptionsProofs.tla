---------------------------- MODULE OptionsProofs ----------------------------
(* The way from the command line to the loop, for all command lines,         *)
(* environments and registries.                                              *)
EXTENDS Options, TLAPS, SequenceTheorems

Before == {"parse", "levels", "env", "check"}     \* the program is not started
After  == {"create", "wallmon", "header", "loop"} \* prmon monitors or is about to

\* Both properties rest on what the checks before the fork established: it
\* still holds when it matters, as nothing after the fork changes the parsed
\* options, and no disabled monitor is wallmon.
MainInv ==
  /\ pc \in Before \cup After \cup {"done"}
  /\ "wallmon" \notin disabled_monitors
  /\ pc = "wallmon" => "wallmon" \in monitors
  /\ pc \in Before => program = "none"
  /\ pc \in After => ~Refused /\ program = IF got_pid THEN "none" ELSE "running"
  /\ pc = "done" => program = "none"
  /\ pc # "done" => exit_code = NoCode
  /\ exit_code = 0 => \/ "help" \in set
                      \/ program = "none" /\ child # <<>> /\ ~got_pid

LEMMA MainInit == Init => MainInv
  BY DEF Init, MainInv, Before, After, NoCode

\* Steps that end prmon before anything was started.
LEMMA EarlyExit ==
  ASSUME MainInv, NEW code, pc \in Before, Exit(code), UNCHANGED <<parserVars, keptVars>>,
         code = 0 => "help" \in set \/ (child # <<>> /\ ~got_pid)
  PROVE  MainInv'
<1>1. UNCHANGED <<set, child, got_pid, disabled_monitors, program>>
  BY DEF parserVars, keptVars, child, got_pid, IsSet
<1>2. program = "none"
  BY DEF MainInv, Before
<1> QED
  BY <1>1, <1>2 DEF MainInv, Exit, Before, After

\* Steps before the fork that only collect what was asked for.
LEMMA Collecting ==
  ASSUME MainInv, pc \in Before, pc' \in Before, UNCHANGED <<program, exit_code>>,
         "wallmon" \notin disabled_monitors'
  PROVE  MainInv'
  BY DEF MainInv, Before, After, NoCode

\* Steps after the fork leave everything alone that was decided before it.
LEMMA Continuing ==
  ASSUME MainInv, pc \in After, pc' \in After,
         pc' = "wallmon" => "wallmon" \in monitors',
         UNCHANGED <<parserVars, program, exit_code, disabled_monitors, invalid_level_option>>
  PROVE  MainInv'
<1>1. UNCHANGED <<set, child, got_pid, pid, Refused>>
  BY DEF parserVars, child, got_pid, IsSet, pid, Value, Refused
<1> QED
  BY <1>1 DEF MainInv, Before, After, NoCode

LEMMA MainStep == MainInv /\ [Next]_vars => MainInv'
<1> SUFFICES ASSUME MainInv, [Next]_vars
             PROVE  MainInv'
  OBVIOUS
<1>1. CASE ParseStep
  BY <1>1, Collecting DEF ParseStep, mainVars, keptVars, MainInv, Before
<1>2. CASE Uncaught
  BY <1>2, EarlyExit DEF Uncaught, Before, Aborted
<1>3. CASE Help
  BY <1>3, EarlyExit DEF Help, Before
<1>4. CASE DisableFromOptions
  BY <1>4, Collecting DEF DisableFromOptions, Before, valid_monitor_disable
<1>5. CASE ProcessLevels \/ LevelsDone
  BY <1>5, Collecting DEF ProcessLevels, LevelsDone, Before, MainInv
<1>6. CASE EnvChar \/ EnvEnd
  <2>1. "wallmon" \notin Snipped
    BY DEF Snipped, valid_monitor_disable, MainInv
  <2> QED
    BY <1>6, <2>1, Collecting DEF EnvChar, EnvEnd, Before, MainInv
<1>7. CASE Refuse \/ LogFails
  BY <1>7, EarlyExit DEF Refuse, LogFails, Before, EXIT_FAILURE, Aborted
<1>8. CASE ForkFails
  <2>1. child # <<>> /\ ~got_pid
    BY <1>8 DEF ForkFails, Refused, got_pid, IsSet
  <2> QED
    BY <1>8, <2>1, EarlyExit DEF ForkFails, Before
<1>9. CASE Launch
  <2>1. UNCHANGED <<set, child, got_pid, pid, Refused>>
    BY <1>9 DEF Launch, parserVars, levelVars, child, got_pid, IsSet, pid, Value, Refused
  <2> QED
    BY <1>9, <2>1 DEF Launch, MainInv, Before, After, NoCode
<1>10. CASE CreateMonitors
  <2>1. "wallmon" \in monitors'
    BY <1>10, MonitorsAssumption DEF CreateMonitors, MainInv
  <2> QED
    BY <1>10, <2>1, Continuing DEF CreateMonitors, After, levelVars
<1>11. CASE Configure
  <2>1. pc' = "header" /\ UNCHANGED exit_code
    BY <1>11 DEF Configure, MainInv
  <2> QED
    BY <1>11, <2>1, Continuing DEF Configure, After, levelVars
<1>12. CASE WriteHeader
  BY <1>12, Continuing DEF WriteHeader, After, levelVars
<1>13. CASE Terminated \/ UNCHANGED vars
  BY <1>13 DEF Terminated, vars, parserVars, mainVars, keptVars, levelVars,
               monVars, MainInv, child, got_pid, IsSet, pid, Value, Refused
<1> QED
  BY <1>1, <1>2, <1>3, <1>4, <1>5, <1>6, <1>7, <1>8, <1>9, <1>10, <1>11,
     <1>12, <1>13 DEF Next

\* No program is started and then left without its monitor: whatever is
\* disabled, wallmon is there when ProcessMonitor asks for it.
THEOREM StartedCorrect == Spec => []StartedProgramIsMonitored
<1>1. MainInv => StartedProgramIsMonitored
  BY DEF MainInv, StartedProgramIsMonitored
<1> QED
  BY <1>1, MainInit, MainStep, PTL DEF Spec

\* prmon monitors exactly one thing, and a 0 without monitoring means help or
\* a failed fork.
THEOREM OutcomeCorrect == Spec => []OutcomeFitsTarget
<1>1. MainInv => OutcomeFitsTarget
  BY DEF MainInv, OutcomeFitsTarget, After, Refused, got_pid, IsSet
<1> QED
  BY <1>1, MainInit, MainStep, PTL DEF Spec

---------------------------------------------------------------------------
(* Which monitors run.                                                     *)

\* What --disable asked for, and the names of env ended by a comma before k.
FromOptions == {d \in ToSet(values["disable"]) : valid_monitor_disable(d)}
EndedBefore(k) ==
  {x \in Registered : valid_monitor_disable(x) /\ \E i \in DOMAIN env :
     i + 1 < k /\ env[i] = x /\ (i = 1 \/ env[i - 1] = Comma) /\ env[i + 1] = Comma}

\* The scan is at pos, in a piece that began at start, right after a comma,
\* and has had none since.
ScanAt ==
  /\ env \in Seq(STRING)
  /\ pos \in Nat \ {0} /\ start \in Nat \ {0}
  /\ start <= pos /\ pos <= Len(env) + 1
  /\ start = 1 \/ env[start - 1] = Comma
  /\ \A j \in start..(pos - 1) : env[j] # Comma

\* All names before the piece under way have been dealt with; the set found by
\* the scan is what the monitors are created from.
DisabledInv ==
  /\ pc = "parse" => start = 1
  /\ pc = "levels" => start = 1 /\ disabled_monitors = FromOptions
  /\ pc = "env" => ScanAt /\ disabled_monitors = FromOptions \cup EndedBefore(start)
  /\ pc \in {"check"} \cup After =>
       disabled_monitors = FromOptions \cup {x \in Names(env) : valid_monitor_disable(x)}
  /\ pc \in {"wallmon", "header", "loop"} =>
       /\ monitors \subseteq Registered \ disabled_monitors
       /\ Registered \ (disabled_monitors \cup {"nvidiamon"}) \subseteq monitors

\* The piece under way is a name if it is one item long.
LEMMA PieceIsName ==
  ASSUME ScanAt, NEW x
  PROVE  SubSeq(env, start, pos - 1) = <<x>> <=> pos = start + 1 /\ env[start] = x
<1>1. /\ start \in Int /\ pos \in Int /\ 1 <= start /\ start <= pos /\ pos <= Len(env) + 1
      /\ Len(env) \in Nat
  BY DEF ScanAt
<1>2. Len(SubSeq(env, start, pos - 1)) = pos - start
  BY <1>1 DEF ScanAt
<1>3. Len(<<x>>) = 1 /\ <<x>>[1] = x
  OBVIOUS
<1>4. ASSUME pos = start + 1
      PROVE  SubSeq(env, start, pos - 1) = <<env[start]>>
  <2>1. env \in Seq(STRING) /\ start \in 1..Len(env) /\ pos - 1 = start
    BY <1>1, <1>4 DEF ScanAt
  <2>2. SubSeq(env, start, start) = <<env[start]>>
    <3>1. \A i \in start..start : env[i] \in STRING
      BY <2>1
    <3>2. /\ SubSeq(env, start, start) \in Seq(STRING)
          /\ Len(SubSeq(env, start, start)) = 1
          /\ SubSeq(env, start, start)[1] = env[start]
      BY <2>1, <3>1, SubSeqProperties
    <3>3. /\ <<env[start]>> \in Seq(STRING)
          /\ Len(<<env[start]>>) = 1 /\ <<env[start]>>[1] = env[start]
      BY <2>1
    <3>4. \A i \in 1..1 : SubSeq(env, start, start)[i] = <<env[start]>>[i]
      BY <3>2, <3>3
    <3> QED
      BY <3>2, <3>3, <3>4, SeqEqual, Zenon
  <2> QED
    BY <2>1, <2>2
<1> QED
  BY <1>1, <1>2, <1>3, <1>4

\* A comma ends the piece under way.
LEMMA CommaEnds ==
  ASSUME ScanAt, pos <= Len(env), env[pos] = Comma,
         disabled_monitors = FromOptions \cup EndedBefore(start)
  PROVE  Snipped = FromOptions \cup EndedBefore(pos + 1)
<1>0. Len(env) \in Nat /\ DOMAIN env = 1..Len(env) /\ start \in Nat \ {0} /\ pos \in Nat \ {0}
  BY DEF ScanAt
<1>1. ASSUME NEW x \in Registered, NEW i \in DOMAIN env, i < pos,
             env[i] = x, i = 1 \/ env[i - 1] = Comma, env[i + 1] = Comma, i + 1 >= start
      PROVE  pos = start + 1 /\ env[start] = x
  <2>1. i + 1 # start
    BY <1>0, <1>1, MonitorsAssumption DEF ScanAt
  <2>2. i + 1 = pos
    BY <1>0, <1>1, <2>1 DEF ScanAt
  <2>3. i = start
    BY <1>0, <1>1, <2>1, <2>2 DEF ScanAt
  <2> QED
    BY <1>1, <2>2, <2>3
<1>2. ASSUME NEW x \in Registered
      PROVE  x \in EndedBefore(pos + 1) <=>
               \/ x \in EndedBefore(start)
               \/ valid_monitor_disable(x) /\ pos = start + 1 /\ env[start] = x
  <2>1. \A i \in DOMAIN env : /\ (i + 1 < pos + 1 <=> i < pos)
                              /\ (i + 1 < start => i < pos)
                              /\ (i + 1 < start \/ i + 1 >= start)
    BY <1>0 DEF ScanAt
  <2>2. ASSUME pos = start + 1
        PROVE  /\ start \in DOMAIN env /\ start < pos
               /\ start = 1 \/ env[start - 1] = Comma
               /\ env[start + 1] = Comma
    BY <1>0, <2>2 DEF ScanAt
  <2>3. ASSUME x \in EndedBefore(pos + 1), x \notin EndedBefore(start)
        PROVE  valid_monitor_disable(x) /\ pos = start + 1 /\ env[start] = x
    <3>1. PICK i \in DOMAIN env : /\ i + 1 < pos + 1 /\ env[i] = x
                                  /\ i = 1 \/ env[i - 1] = Comma
                                  /\ env[i + 1] = Comma
      BY <2>3 DEF EndedBefore
    <3>2. valid_monitor_disable(x) /\ ~(i + 1 < start)
      BY <2>3, <3>1 DEF EndedBefore
    <3>3. i < pos /\ i + 1 >= start
      BY <1>0, <2>1, <3>1, <3>2
    <3> QED
      BY <1>1, <3>1, <3>2, <3>3
  <2>4. x \in EndedBefore(start) => x \in EndedBefore(pos + 1)
    BY <1>0, <2>1 DEF EndedBefore
  <2>5. valid_monitor_disable(x) /\ pos = start + 1 /\ env[start] = x
          => x \in EndedBefore(pos + 1)
    BY <2>1, <2>2 DEF EndedBefore
  <2> QED
    BY <2>3, <2>4, <2>5
<1>3. EndedBefore(pos + 1) \subseteq Registered
  BY DEF EndedBefore
<1>4. EndedBefore(start) \subseteq Registered
  BY DEF EndedBefore
<1> QED
  BY <1>2, <1>3, <1>4, PieceIsName DEF Snipped

\* The end of the string does so too.
LEMMA EndEnds ==
  ASSUME ScanAt, pos = Len(env) + 1,
         disabled_monitors = FromOptions \cup EndedBefore(start)
  PROVE  Snipped = FromOptions \cup {x \in Names(env) : valid_monitor_disable(x)}
<1>0. Len(env) \in Nat /\ DOMAIN env = 1..Len(env) /\ start \in Nat \ {0} /\ pos \in Nat \ {0}
  BY DEF ScanAt
<1>1. ASSUME NEW x \in Registered, NEW i \in DOMAIN env,
             env[i] = x, i = 1 \/ env[i - 1] = Comma, i = Len(env) \/ env[i + 1] = Comma,
             i + 1 >= start
      PROVE  pos = start + 1 /\ env[start] = x
  <2>1. i + 1 # start
    BY <1>0, <1>1, MonitorsAssumption DEF ScanAt
  <2>2. i + 1 = pos
    BY <1>0, <1>1, <2>1 DEF ScanAt
  <2>3. i = start
    BY <1>0, <1>1, <2>1, <2>2 DEF ScanAt
  <2> QED
    BY <1>1, <2>2, <2>3
<1>2. ASSUME NEW x \in Registered, valid_monitor_disable(x)
      PROVE  x \in Names(env) <=>
               x \in EndedBefore(start) \/ (pos = start + 1 /\ env[start] = x)
  <2>1. \A i \in DOMAIN env : i + 1 >= start \/ (i + 1 < start /\ i # Len(env))
    BY <1>0 DEF ScanAt
  <2>2. ASSUME pos = start + 1
        PROVE  start \in DOMAIN env /\ (start = 1 \/ env[start - 1] = Comma) /\ start = Len(env)
    <3>0. \A k, l \in Nat : k + 1 = l + 1 => k = l
      OBVIOUS
    <3>1. start = Len(env)
      <4>1. start + 1 = Len(env) + 1
        BY <2>2, Zenon
      <4> QED
        BY <1>0, <3>0, <4>1, Zenon
    <3>2. start \in DOMAIN env
      BY <1>0, <3>1
    <3> QED
      BY <3>1, <3>2 DEF ScanAt
  <2>3. ASSUME x \in Names(env), x \notin EndedBefore(start)
        PROVE  pos = start + 1 /\ env[start] = x
    BY <1>1, <1>2, <2>1, <2>3 DEF EndedBefore, Names
  <2>4. x \in EndedBefore(start) => x \in Names(env)
    BY DEF EndedBefore, Names
  <2>5. pos = start + 1 /\ env[start] = x => x \in Names(env)
    BY <2>2 DEF Names
  <2> QED
    BY <2>3, <2>4, <2>5
<1>3. Names(env) \subseteq Registered /\ EndedBefore(start) \subseteq Registered
  BY DEF EndedBefore, Names
<1>4. \A x \in EndedBefore(start) : valid_monitor_disable(x)
  BY DEF EndedBefore
<1> QED
  BY <1>2, <1>3, <1>4, PieceIsName DEF Snipped

LEMMA DisabledInit == Init => DisabledInv
  BY DEF Init, DisabledInv, After

LEMMA DisabledStep == DisabledInv /\ [Next]_vars => DisabledInv'
<1> SUFFICES ASSUME DisabledInv, [Next]_vars
             PROVE  DisabledInv'
  OBVIOUS
<1> USE DEF DisabledInv, After
<1>1. CASE ParseStep
  BY <1>1 DEF ParseStep, mainVars, keptVars, scanVars
<1>2. CASE Uncaught \/ Help \/ LogFails \/ Refuse \/ ForkFails
  BY <1>2 DEF Uncaught, Help, LogFails, Refuse, ForkFails, Exit
<1>3. CASE DisableFromOptions
  BY <1>3 DEF DisableFromOptions, FromOptions, parserVars, scanVars
<1>4. CASE ProcessLevels
  BY <1>4 DEF ProcessLevels, FromOptions, parserVars
<1>5. CASE LevelsDone
  <2>1. EndedBefore(start)' = {}
    <3>1. env' \in Seq(STRING) /\ start' = 1
      BY <1>5, EnvsAssumption DEF LevelsDone
    <3>2. \A i \in DOMAIN env' : ~(i + 1 < start')
      BY <3>1
    <3> QED
      BY <3>2 DEF EndedBefore
  <2>2. ScanAt'
    BY <1>5, EnvsAssumption DEF LevelsDone, ScanAt
  <2> QED
    BY <1>5, <2>1, <2>2 DEF LevelsDone, FromOptions, parserVars
<1>6. CASE EnvChar
  <2>0. UNCHANGED <<pc, env, FromOptions>> /\ pc = "env" /\ pos <= Len(env) /\ pos' = pos + 1
    BY <1>6 DEF EnvChar, FromOptions, parserVars
  <2>1. CASE env[pos] = Comma
    <3>1. start' = pos + 1 /\ disabled_monitors' = FromOptions \cup EndedBefore(pos + 1)
      BY <1>6, <2>1, CommaEnds DEF EnvChar
    <3>2. ScanAt'
      BY <2>0, <2>1, <3>1 DEF ScanAt
    <3> QED
      BY <2>0, <3>1, <3>2 DEF EndedBefore
  <2>2. CASE env[pos] # Comma
    <3>1. UNCHANGED <<start, disabled_monitors>>
      BY <1>6, <2>2 DEF EnvChar
    <3>2. ScanAt'
      BY <2>0, <2>2, <3>1 DEF ScanAt
    <3> QED
      BY <2>0, <3>1, <3>2 DEF EndedBefore
  <2> QED
    BY <2>1, <2>2
<1>7. CASE EnvEnd
  BY <1>7, EndEnds DEF EnvEnd, FromOptions, Names, parserVars, scanVars
<1>8. CASE Launch
  BY <1>8 DEF Launch, FromOptions, Names, parserVars, scanVars, monVars
<1>9. CASE CreateMonitors
  BY <1>9 DEF CreateMonitors, FromOptions, Names, parserVars, scanVars
<1>10. CASE Configure \/ WriteHeader
  BY <1>10 DEF Configure, WriteHeader, Exit, FromOptions, Names, parserVars, scanVars
<1>11. CASE Terminated \/ UNCHANGED vars
  <2>1. UNCHANGED <<pc, start, pos, env, disabled_monitors, monitors, values>>
    BY <1>11 DEF Terminated, vars, parserVars, mainVars, keptVars, scanVars, monVars
  <2>2. UNCHANGED <<FromOptions, ScanAt, EndedBefore(start), Names(env)>>
    BY <2>1 DEF FromOptions, ScanAt, EndedBefore, Names
  <2> QED
    BY <2>1, <2>2
<1> QED
  BY <1>1, <1>2, <1>3, <1>4, <1>5, <1>6, <1>7, <1>8, <1>9, <1>10, <1>11 DEF Next

\* The loop runs with exactly the monitors that neither --disable nor the
\* environment variable names, for lists of any length.
THEOREM MonitorsCorrect == Spec => []MonitorsAsAsked
<1>1. DisabledInv /\ MainInv => MonitorsAsAsked
  <2> SUFFICES ASSUME DisabledInv, MainInv, pc = "loop"
               PROVE  MonitorsAsAsked
    BY DEF MonitorsAsAsked
  <2>1. \A x \in Registered : x \in disabled_monitors <=>
          x # "wallmon" /\ x \in ToSet(values["disable"]) \cup Names(env)
    BY DEF DisabledInv, After, FromOptions, valid_monitor_disable
  <2>2. /\ monitors \subseteq Registered \ disabled_monitors
        /\ Registered \ (disabled_monitors \cup {"nvidiamon"}) \subseteq monitors
    BY DEF DisabledInv
  <2> QED
    BY <2>1, <2>2 DEF MonitorsAsAsked
<1> QED
  BY <1>1, MainInit, MainStep, DisabledInit, DisabledStep, PTL DEF Spec

---------------------------------------------------------------------------
(* The memory columns.                                                     *)

\* Whatever memmon reads from has all it reports, from its construction on;
\* the switch to another file comes before the header is written.
ColumnsInv ==
  /\ mem_stats \subseteq IF smaps = "smaps" THEN MemMetrics ELSE rollup
  /\ (pc = "loop" /\ "memmon" \in monitors) => header = mem_stats

LEMMA ColumnsStep == ColumnsInv /\ [Next]_vars => ColumnsInv'
<1> SUFFICES ASSUME ColumnsInv, [Next]_vars
             PROVE  ColumnsInv'
  OBVIOUS
<1> USE DEF ColumnsInv
<1>1. CASE Configure
  BY <1>1 DEF Configure, Exit, do_fastmon, memVars
<1>2. CASE WriteHeader
  BY <1>2 DEF WriteHeader, memVars
<1>3. CASE Terminated \/ UNCHANGED vars
  BY <1>3 DEF Terminated, vars, mainVars, keptVars, monVars, memVars
<1>4. CASE ParseStep \/ Uncaught \/ Help \/ LogFails \/ Refuse \/ ForkFails
  BY <1>4 DEF ParseStep, Uncaught, Help, LogFails, Refuse, ForkFails, Exit,
              mainVars, keptVars, monVars, memVars
<1>5. CASE DisableFromOptions \/ ProcessLevels \/ LevelsDone \/ EnvChar \/ EnvEnd
  BY <1>5 DEF DisableFromOptions, ProcessLevels, LevelsDone, EnvChar, EnvEnd,
              monVars, memVars
<1>6. CASE Launch \/ CreateMonitors
  BY <1>6 DEF Launch, CreateMonitors, monVars, memVars
<1> QED
  BY <1>1, <1>2, <1>3, <1>4, <1>5, <1>6 DEF Next

\* Every memory column of the text file is measured in every row.
THEOREM ColumnsCorrect == Spec => []ColumnsAreFilled
<1>1. Init => ColumnsInv
  BY DEF Init, ColumnsInv
<1>2. ColumnsInv => ColumnsAreFilled
  BY DEF ColumnsInv, ColumnsAreFilled
<1> QED
  BY <1>1, <1>2, ColumnsStep, PTL DEF Spec

---------------------------------------------------------------------------
(* The words after "--".                                                   *)

\* "--" in a place where no option before it takes it as an argument.
Ends(i) == argv[i] = "--" /\ (i = 1 \/ ~TakesNext(i - 1))

\* Until "--" is met, only plain words have been collected, at most one for
\* each word read, and no "--" that ends the options has been passed over.
Open ==
  /\ non_option_args \in Seq(Plain) /\ Len(non_option_args) < n
  /\ \A i \in DOMAIN argv : Ends(i) => n <= i

\* After it, the rest of the line follows them.
Closed(t, before) ==
  /\ argv[t] = "--" /\ before \in Seq(Plain) /\ Len(before) < t
  /\ non_option_args = before \o SubSeq(argv, t + 1, Len(argv))
  /\ \A i \in DOMAIN argv : Ends(i) => t <= i

DashInv ==
  /\ argv \in Seq(Words) /\ n \in 1..(Len(argv) + 1)
  /\ Open \/ (n = Len(argv) + 1 /\ \E t \in DOMAIN argv : \E before : Closed(t, before))

LEMMA DashInit == Init => DashInv
<1> SUFFICES ASSUME Init PROVE DashInv
  OBVIOUS
<1>1. argv \in SeqOf(Words, MaxArgs) /\ n = 1 /\ non_option_args = <<>>
  BY DEF Init, ParserInit
<1>2. PICK m \in 0..MaxArgs : argv \in [1..m -> Words]
  BY <1>1 DEF SeqOf
<1>3. argv \in Seq(Words) /\ Len(argv) \in Nat /\ DOMAIN argv = 1..Len(argv)
  BY <1>2, WordsAssumption
<1>4. non_option_args \in Seq(Plain) /\ Len(non_option_args) = 0
  BY <1>1
<1> QED BY <1>1, <1>3, <1>4 DEF DashInv, Open

\* The parser moves over one word, or over two if the first takes the second.
LEMMA OpenMoves ==
  ASSUME DashInv, Open, Parsing, Word # "--", UNCHANGED argv,
         n' = n + 1 \/ (n' = n + 2 /\ n < Len(argv) /\ TakesNext(n)),
         \/ UNCHANGED non_option_args
         \/ Word \in Plain /\ non_option_args' = Append(non_option_args, Word)
  PROVE  DashInv'
<1>1. /\ argv \in Seq(Words) /\ Len(argv) \in Nat /\ DOMAIN argv = 1..Len(argv)
      /\ n \in Nat \ {0} /\ n <= Len(argv)
  BY DEF DashInv, Parsing
<1>2. n' \in 1..(Len(argv) + 1)
  BY <1>1
<1>3. ASSUME NEW i \in DOMAIN argv, Ends(i) PROVE n' <= i
  <2>1. n <= i /\ i \in Nat
    BY <1>1, <1>3 DEF Open
  <2>2. n # i
    BY <1>3 DEF Ends, Word
  <2>3. n' = n + 2 => i # n + 1
    <3> SUFFICES ASSUME TakesNext(n), i = n + 1 PROVE FALSE
      BY <1>1, <2>1
    <3>1. i - 1 = n /\ i # 1
      BY <1>1
    <3> QED BY <1>3, <3>1 DEF Ends
  <2> QED BY <1>1, <2>1, <2>2, <2>3
<1>4. non_option_args' \in Seq(Plain) /\ Len(non_option_args') < n'
  <2>1. non_option_args \in Seq(Plain) /\ Len(non_option_args) \in Nat
        /\ Len(non_option_args) < n
    BY DEF Open
  <2>2. CASE UNCHANGED non_option_args
    BY <1>1, <2>1, <2>2
  <2>3. CASE Word \in Plain /\ non_option_args' = Append(non_option_args, Word)
    BY <1>1, <2>1, <2>3
  <2> QED BY <2>2, <2>3
<1>5. \A i : Ends(i)' <=> Ends(i)
  BY DEF Ends, TakesNext
<1> QED BY <1>1, <1>2, <1>3, <1>4, <1>5 DEF DashInv, Open

\* Where an option takes an argument.
LEMMA ArgumentMoves ==
  ASSUME NEW opt, NEW attached, TakeArgument(opt, attached), DashInv, Parsing,
         attached = "" => TakesNext(n)
  PROVE  n' = n + 1 \/ (n' = n + 2 /\ n < Len(argv) /\ TakesNext(n))
  BY DEF TakeArgument

LEMMA DashStep == DashInv /\ [Next]_vars => DashInv'
<1> SUFFICES ASSUME DashInv, [Next]_vars
             PROVE  DashInv'
  OBVIOUS
<1>0. /\ argv \in Seq(Words) /\ Len(argv) \in Nat /\ DOMAIN argv = 1..Len(argv)
      /\ n \in Nat \ {0} /\ n <= Len(argv) + 1
  BY DEF DashInv
<1>1. CASE UNCHANGED <<argv, n, non_option_args>>
  <2>1. \A i : Ends(i)' <=> Ends(i)
    BY <1>1 DEF Ends, TakesNext
  <2> QED BY <1>1, <2>1 DEF DashInv, Open, Closed
<1>2. CASE ParseStep
  <2>1. Parsing /\ Open /\ n \in DOMAIN argv
    <3>1. Parsing
      BY <1>2 DEF ParseStep, Parse, ParseTerminator, ParseLong, ParseShort, ParsePlain
    <3>2. n <= Len(argv)
      BY <3>1 DEF Parsing
    <3>3. n # Len(argv) + 1
      BY <1>0, <3>2
    <3> QED BY <1>0, <3>1, <3>2, <3>3 DEF DashInv
  <2>2. CASE ParseTerminator
    <3>1. /\ argv[n] = "--" /\ n' = Len(argv) + 1 /\ UNCHANGED argv
          /\ non_option_args' = non_option_args \o SubSeq(argv, n + 1, Len(argv))
      BY <2>2 DEF ParseTerminator, Word
    <3>2. \A i : Ends(i)' <=> Ends(i)
      BY <3>1 DEF Ends, TakesNext
    <3>3. PICK t \in DOMAIN argv : t = n
      BY <2>1
    <3>4. PICK before : before = non_option_args
      OBVIOUS
    <3>5. Closed(t, before)'
      BY <2>1, <3>1, <3>2, <3>3, <3>4 DEF Closed, Open
    <3> QED BY <1>0, <3>1, <3>5 DEF DashInv
  <2>3. CASE ParseLong
    <3>1. /\ Word \in DOMAIN Long /\ UNCHANGED <<argv, non_option_args>>
          /\ n' = n + 1 \/ (Long[Word].opt \in WithArgument /\
                              TakeArgument(Long[Word].opt, Long[Word].arg))
      BY <2>3 DEF ParseLong
    <3>2. Word # "--"
      BY <3>1, WordsAssumption
    <3>3. Long[Word].opt \in WithArgument /\ Long[Word].arg = "" => TakesNext(n)
      BY <3>1 DEF TakesNext, Word
    <3>4. n' = n + 1 \/ (n' = n + 2 /\ n < Len(argv) /\ TakesNext(n))
      BY <2>1, <3>1, <3>3, ArgumentMoves
    <3> QED BY <2>1, <3>1, <3>2, <3>4, OpenMoves
  <2>4. CASE ParseShort
    <3>1. /\ Word \in DOMAIN Short /\ UNCHANGED <<argv, non_option_args>>
          /\ \/ n' = n + 1
             \/ \E t \in DOMAIN Short[Word] :
                  /\ Short[Word][t].opt \in WithArgument
                  /\ TakeArgument(Short[Word][t].opt, Short[Word][t].after)
      BY <2>4 DEF ParseShort
    <3>2. Word # "--"
      BY <3>1, WordsAssumption
    <3>3. \A t \in DOMAIN Short[Word] :
            Short[Word][t].opt \in WithArgument /\ Short[Word][t].after = "" => TakesNext(n)
      BY <3>1 DEF TakesNext, Word
    <3>4. n' = n + 1 \/ (n' = n + 2 /\ n < Len(argv) /\ TakesNext(n))
      BY <2>1, <3>1, <3>3, ArgumentMoves
    <3> QED BY <2>1, <3>1, <3>2, <3>4, OpenMoves
  <2>5. CASE ParsePlain
    <3>1. /\ Word \in Plain /\ UNCHANGED argv /\ n' = n + 1
          /\ non_option_args' = Append(non_option_args, Word)
      BY <2>5 DEF ParsePlain
    <3>2. Word # "--"
      BY <3>1, WordsAssumption
    <3> QED BY <2>1, <3>1, <3>2, OpenMoves
  <2> QED BY <1>2, <2>2, <2>3, <2>4, <2>5 DEF ParseStep, Parse
<1> QED
  BY <1>1, <1>2 DEF Next, Uncaught, Help, DisableFromOptions, ProcessLevels, LevelsDone,
     EnvChar, EnvEnd, LogFails, Refuse, Launch, ForkFails, CreateMonitors, Configure,
     WriteHeader, Terminated, vars, parserVars

\* What is left of a sequence after its first a items.
LEMMA Remainder ==
  ASSUME NEW S, NEW s \in Seq(S), NEW a \in 0..Len(s)
  PROVE  /\ SubSeq(s, a + 1, Len(s)) \in Seq(S)
         /\ Len(SubSeq(s, a + 1, Len(s))) = Len(s) - a
         /\ \A j \in 1..(Len(s) - a) : SubSeq(s, a + 1, Len(s))[j] = s[a + j]
<1>0. Len(s) \in Nat /\ a \in Nat /\ a <= Len(s) /\ a + 1 \in Int /\ Len(s) \in Int
  OBVIOUS
<1>1. \A j \in (a + 1)..Len(s) : s[j] \in S
  BY <1>0
<1>2. /\ SubSeq(s, a + 1, Len(s)) \in Seq(S)
      /\ Len(SubSeq(s, a + 1, Len(s))) = IF a + 1 <= Len(s) THEN Len(s) - (a + 1) + 1 ELSE 0
      /\ \A j \in 1..(Len(s) - (a + 1) + 1) :
            SubSeq(s, a + 1, Len(s))[j] = s[(a + 1) + j - 1]
  BY <1>0, <1>1, SubSeqProperties
<1>3. Len(s) - (a + 1) + 1 = Len(s) - a /\ \A j \in 1..(Len(s) - a) : (a + 1) + j - 1 = a + j
  BY <1>0
<1>4. Len(SubSeq(s, a + 1, Len(s))) = Len(s) - a
  BY <1>0, <1>2
<1> QED BY <1>2, <1>3, <1>4

\* What follows the first "--" that no option takes reaches the program as it
\* was given, for command lines of any length (popl.hpp:998-1081).
THEOREM VerbatimCorrect == Spec => []VerbatimAfterDashes
<1>1. DashInv => VerbatimAfterDashes
  <2> SUFFICES ASSUME DashInv, Parsed, NEW i \in DOMAIN argv,
                      argv[i] = "--", i = 1 \/ ~TakesNext(i - 1)
               PROVE  \E k \in 0..(i - 1) :
                        /\ SubSeq(non_option_args, k + 1, Len(non_option_args))
                             = SubSeq(argv, i + 1, Len(argv))
                        /\ (\A j \in 1..(i - 1) : argv[j] # "--")
                             => ToSet(SubSeq(non_option_args, 1, k)) \subseteq Plain
    BY DEF VerbatimAfterDashes
  <2>1. /\ argv \in Seq(Words) /\ Len(argv) \in Nat /\ DOMAIN argv = 1..Len(argv)
        /\ n = Len(argv) + 1 /\ Ends(i)
    BY DEF DashInv, Parsed, Ends
  <2>2. ~Open
    BY <2>1 DEF Open
  <2>3. PICK t \in DOMAIN argv : \E before : Closed(t, before)
    BY <2>2 DEF DashInv
  <2>4. PICK before : Closed(t, before)
    BY <2>3
  <2> DEFINE rest == SubSeq(argv, t + 1, Len(argv))
             out  == before \o rest
             b    == Len(before)
             k    == b + (i - t)
  <2>5. /\ argv[t] = "--" /\ before \in Seq(Plain) /\ b \in Nat /\ b < t /\ t <= i
        /\ non_option_args = out /\ t \in Nat /\ i \in Nat /\ i <= Len(argv) /\ 1 <= t
    BY <2>1, <2>4 DEF Closed
  <2>6. /\ rest \in Seq(Words) /\ Len(rest) = Len(argv) - t
        /\ \A j \in 1..(Len(argv) - t) : rest[j] = argv[t + j]
    <3>1. t \in 0..Len(argv)
      BY <2>1, <2>5
    <3> QED BY <2>1, <3>1, Remainder
  <2> DEFINE All == Words \cup Plain
  <2>7. before \in Seq(All) /\ rest \in Seq(All) /\ argv \in Seq(All)
    BY <2>1, <2>5, <2>6
  <2> HIDE DEF rest, All
  <2>8. /\ out \in Seq(All) /\ Len(out) = b + Len(argv) - t
        /\ \A j \in 1..b : out[j] = before[j]
        /\ \A j \in (b + 1)..(b + Len(argv) - t) : out[j] = rest[j - b]
    <3>1. /\ out \in Seq(All) /\ Len(out) = b + Len(rest)
          /\ \A j \in 1..(b + Len(rest)) :
               out[j] = IF j <= b THEN before[j] ELSE rest[j - b]
      BY <2>7, ConcatProperties
    <3>2. b + Len(rest) = b + Len(argv) - t /\ Len(argv) - t \in Nat
      BY <2>1, <2>5, <2>6
    <3> HIDE DEF out, b
    <3>3. \A j \in 1..b : out[j] = before[j]
      BY <2>1, <2>5, <2>6, <3>1, <3>2
    <3>4. \A j \in (b + 1)..(b + Len(argv) - t) : out[j] = rest[j - b]
      BY <2>1, <2>5, <2>6, <3>1, <3>2
    <3> QED BY <3>1, <3>2, <3>3, <3>4
  <2> HIDE DEF out
  <2>9. k \in 0..(i - 1)
    BY <2>5
  <2>10. SubSeq(out, k + 1, Len(out)) = SubSeq(argv, i + 1, Len(argv))
    <3> DEFINE x == SubSeq(out, k + 1, Len(out))
               y == SubSeq(argv, i + 1, Len(argv))
               m == Len(argv) - i
    <3>1. /\ x \in Seq(All) /\ Len(x) = m
          /\ \A j \in 1..m : x[j] = out[k + j]
      <4>1. k \in 0..Len(out) /\ Len(out) - k = m
        BY <2>1, <2>5, <2>8
      <4>2. PICK o \in Seq(All) : o = out
        BY <2>8
      <4>3. PICK a \in 0..Len(o) : a = k
        BY <4>1, <4>2
      <4>4. /\ SubSeq(o, a + 1, Len(o)) \in Seq(All)
            /\ Len(SubSeq(o, a + 1, Len(o))) = Len(o) - a
            /\ \A j \in 1..(Len(o) - a) : SubSeq(o, a + 1, Len(o))[j] = o[a + j]
        BY Remainder
      <4> HIDE DEF k, m
      <4> QED BY <4>1, <4>2, <4>3, <4>4
    <3>2. /\ y \in Seq(All) /\ Len(y) = m
          /\ \A j \in 1..m : y[j] = argv[i + j]
      <4>1. i \in 0..Len(argv)
        BY <2>1, <2>5
      <4> QED BY <2>7, <4>1, Remainder
    <3>3. \A j \in 1..m : out[k + j] = argv[i + j]
      <4> TAKE j \in 1..m
      <4>1. k + j \in (b + 1)..(b + Len(argv) - t) /\ (k + j) - b = (i - t) + j
        BY <2>1, <2>5
      <4>2. out[k + j] = rest[(i - t) + j]
        BY <2>8, <4>1
      <4>3. (i - t) + j \in 1..(Len(argv) - t) /\ t + ((i - t) + j) = i + j
        BY <2>1, <2>5
      <4> QED BY <2>6, <4>2, <4>3
    <3> HIDE DEF x, y
    <3>4. \A j \in 1..Len(x) : x[j] = y[j]
      BY <3>1, <3>2, <3>3
    <3>5. x = y
      BY <3>1, <3>2, <3>4, SeqEqual
    <3> QED BY <3>5 DEF x, y
  <2>11. ASSUME \A j \in 1..(i - 1) : argv[j] # "--"
         PROVE  ToSet(SubSeq(out, 1, k)) \subseteq Plain
    <3>1. t = i /\ k = b
      BY <2>5, <2>11
    <3>2. Len(SubSeq(out, 1, b)) = b /\ \A j \in 1..b : SubSeq(out, 1, b)[j] = before[j]
      BY <2>1, <2>5, <2>8
    <3>3. DOMAIN SubSeq(out, 1, b) = 1..b
      BY <2>5, <2>8, <3>2
    <3>4. \A j \in 1..b : before[j] \in Plain
      BY <2>5
    <3> QED BY <3>1, <3>2, <3>3, <3>4 DEF ToSet
  <2> HIDE DEF k
  <2> QED BY <2>5, <2>9, <2>10, <2>11
<1> QED
  BY <1>1, DashInit, DashStep, PTL DEF Spec

---------------------------------------------------------------------------
(* The log levels.                                                         *)

\* Whatever an option's argument may be taken from.
Texts ==
  Words \cup {Long[w].arg : w \in DOMAIN Long}
    \cup UNION {{Short[w][m].after : m \in DOMAIN Short[w]} : w \in DOMAIN Short}

LEMMA ArgumentType ==
  ASSUME NEW opt, NEW attached \in Texts, TakeArgument(opt, attached), Parsing,
         argv \in Seq(Words), n \in Nat \ {0}, values \in [WithArgument -> Seq(Texts)]
  PROVE  values' \in [WithArgument -> Seq(Texts)]
<1>1. n < Len(argv) => argv[n + 1] \in Texts
  <2> SUFFICES ASSUME n < Len(argv) PROVE argv[n + 1] \in Words
    BY DEF Texts
  <2>1. n + 1 \in 1..Len(argv)
    OBVIOUS
  <2> QED BY <2>1
<1>2. PICK text : text = IF attached = "" /\ n < Len(argv) THEN argv[n + 1] ELSE attached
  OBVIOUS
<1>3. text \in Texts
  BY <1>1, <1>2
<1>4. UNCHANGED values \/ values' = [values EXCEPT ![opt] = Append(@, text)]
  BY <1>2 DEF TakeArgument
<1>5. CASE opt \in WithArgument
  <2>1. Append(values[opt], text) \in Seq(Texts)
    BY <1>3, <1>5
  <2> QED BY <1>4, <1>5, <2>1
<1>6. CASE opt \notin WithArgument
  BY <1>4, <1>6
<1> QED BY <1>5, <1>6

LEMMA ValuesInit == Init => values \in [WithArgument -> Seq(Texts)]
  BY DEF Init, ParserInit

LEMMA ValuesStep ==
  ASSUME DashInv, values \in [WithArgument -> Seq(Texts)], [Next]_vars
  PROVE  /\ values' \in [WithArgument -> Seq(Texts)]
         /\ pc # "parse" => UNCHANGED values
<1>0. argv \in Seq(Words) /\ n \in Nat \ {0}
  BY DEF DashInv
<1>1. CASE ParseStep
  <2>1. CASE ParseLong
    <3>1. Parsing /\ Word \in DOMAIN Long
      BY <2>1 DEF ParseLong
    <3>2. UNCHANGED values \/ TakeArgument(Long[Word].opt, Long[Word].arg)
      BY <2>1 DEF ParseLong
    <3>3. Long[Word].arg \in Texts
      BY <3>1 DEF Texts
    <3>4. values' \in [WithArgument -> Seq(Texts)]
      BY <1>0, <3>1, <3>2, <3>3, ArgumentType
    <3> QED BY <1>1, <3>4 DEF ParseStep
  <2>2. CASE ParseShort
    <3>1. Parsing /\ Word \in DOMAIN Short
      BY <2>2 DEF ParseShort
    <3>2. UNCHANGED values \/ \E t \in DOMAIN Short[Word] :
                                TakeArgument(Short[Word][t].opt, Short[Word][t].after)
      BY <2>2 DEF ParseShort
    <3>3. \A t \in DOMAIN Short[Word] : Short[Word][t].after \in Texts
      BY <3>1 DEF Texts
    <3>4. values' \in [WithArgument -> Seq(Texts)]
      BY <1>0, <3>1, <3>2, <3>3, ArgumentType
    <3> QED BY <1>1, <3>4 DEF ParseStep
  <2>3. CASE ParseTerminator \/ ParsePlain
    BY <2>3 DEF ParseTerminator, ParsePlain
  <2> QED BY <1>1, <2>1, <2>2, <2>3 DEF ParseStep, Parse
<1>2. CASE UNCHANGED values
  BY <1>2
<1> QED
  BY <1>1, <1>2 DEF Next, Uncaught, Help, DisableFromOptions, ProcessLevels, LevelsDone,
     EnvChar, EnvEnd, LogFails, Refuse, Launch, ForkFails, CreateMonitors, Configure,
     WriteHeader, Terminated, vars, parserVars

\* What the value at position i of --level asks for.
Asked(i) == LevelOf(values["level"][i])

\* Among the first k - 1 values the last one for m gives the level l; if there
\* is none for m, it is l by default.
LastIs(m, k, l, default) ==
  \/ l = default /\ \A j \in 1..(k - 1) : Asked(j).mon # m
  \/ \E i \in 1..(k - 1) : /\ Asked(i).mon = m /\ l = Asked(i).level
                           /\ \A j \in (i + 1)..(k - 1) : Asked(j).mon # m

\* The level a monitor has of its own, if any.
OwnLevel(x) == IF x \in DOMAIN monitor_level THEN monitor_level[x] ELSE ""

\* The levels are those of the first k - 1 values.
Upto(k) ==
  /\ \A j \in 1..(k - 1) : Asked(j).level \in Levels
  /\ LastIs("", k, global_logging_level, "warn")
  /\ \A x \in Registered : LastIs(x, k, OwnLevel(x), "")
  /\ \A x \in DOMAIN monitor_level : monitor_level[x] # ""

LevelsInv ==
  /\ values \in [WithArgument -> Seq(Texts)]
  /\ pc = "parse" => /\ pos = 1 /\ global_logging_level = "warn" /\ monitor_level = <<>>
  /\ pc = "levels" => /\ pos \in 1..(Len(values["level"]) + 1)
                      /\ ~invalid_level_option => Upto(pos)
  /\ pc \in {"env", "check", "create", "wallmon", "header", "loop"} =>
       (~invalid_level_option => Upto(Len(values["level"]) + 1))
  /\ pc \in {"wallmon", "header", "loop"} =>
       \A x \in monitors : x \in Registered /\ log_level[x] = log_init(x)

\* One more value.
LEMMA LastGoesOn ==
  ASSUME NEW m, NEW k \in Nat \ {0}, NEW l, NEW default, LastIs(m, k, l, default)
  PROVE  /\ Asked(k).mon = m => LastIs(m, k + 1, Asked(k).level, default)
         /\ Asked(k).mon # m => LastIs(m, k + 1, l, default)
<1>1. 1..((k + 1) - 1) = 1..(k - 1) \cup {k} /\ k \in 1..((k + 1) - 1)
  OBVIOUS
<1>2. \A i \in 1..(k - 1) : (i + 1)..((k + 1) - 1) = (i + 1)..(k - 1) \cup {k}
  OBVIOUS
<1>3. (k + 1)..((k + 1) - 1) = {}
  OBVIOUS
<1>4. ASSUME Asked(k).mon = m PROVE LastIs(m, k + 1, Asked(k).level, default)
  BY <1>1, <1>3, <1>4 DEF LastIs
<1>5. ASSUME Asked(k).mon # m PROVE LastIs(m, k + 1, l, default)
  BY <1>1, <1>2, <1>5 DEF LastIs
<1> QED BY <1>4, <1>5

\* What processLevel does to the levels of one monitor.
LEMMA OwnLevelSet ==
  ASSUME NEW m, NEW l, monitor_level' = WithLevel(m, l), NEW x
  PROVE  OwnLevel(x)' = IF x = m THEN l ELSE OwnLevel(x)
<1>1. /\ DOMAIN monitor_level' = {m} \cup DOMAIN monitor_level
      /\ \A y \in {m} \cup DOMAIN monitor_level :
           monitor_level'[y] = IF y = m THEN l ELSE monitor_level[y]
  BY DEF WithLevel
<1> QED BY <1>1 DEF OwnLevel

LEMMA LevelsGoOn ==
  ASSUME LevelsInv, ProcessLevels, ~invalid_level_option'
  PROVE  Upto(pos)'
<1> DEFINE a == Asked(pos)
<1>1. /\ pc = "levels" /\ pos <= Len(values["level"]) /\ pos' = pos + 1 /\ UNCHANGED values
      /\ pos \in Nat \ {0}
  BY DEF ProcessLevels, parserVars, LevelsInv, WithArgument, Textual
<1>2. /\ a.level \in Levels /\ a.mon \in Registered \cup {""} /\ ~invalid_level_option
      /\ global_logging_level' = IF a.mon = "" THEN a.level ELSE global_logging_level
      /\ monitor_level' = IF a.mon = "" THEN monitor_level
                          ELSE WithLevel(a.mon, a.level)
  BY DEF ProcessLevels, processLevel, Asked
<1>3. Upto(pos)
  BY <1>1, <1>2 DEF LevelsInv
<1>4. \A i : Asked(i)' = Asked(i)
  BY <1>1 DEF Asked
<1>5. \A j \in 1..(pos' - 1) : Asked(j)'.level \in Levels
  <2>1. \A j \in 1..(pos' - 1) : j \in 1..(pos - 1) \/ j = pos
    BY <1>1
  <2> QED BY <1>2, <1>3, <1>4, <2>1 DEF Upto
<1>6. PICK k : k = pos + 1
  OBVIOUS
<1>8. LastIs("", k, global_logging_level', "warn")
  <2>1. LastIs("", pos, global_logging_level, "warn")
    BY <1>3 DEF Upto
  <2> QED BY <1>1, <1>2, <1>6, <2>1, LastGoesOn
<1>9. ASSUME NEW x \in Registered PROVE LastIs(x, k, OwnLevel(x)', "")
  <2>1. LastIs(x, pos, OwnLevel(x), "")
    BY <1>3 DEF Upto
  <2>2. OwnLevel(x)' = IF x = a.mon THEN a.level ELSE OwnLevel(x)
    <3>1. CASE a.mon = ""
      BY <1>2, <3>1, NoEmptyNames DEF OwnLevel
    <3>2. CASE a.mon # ""
      BY <1>2, <3>2, OwnLevelSet
    <3> QED BY <3>1, <3>2
  <2> HIDE DEF a
  <2>3. /\ a.mon = x => LastIs(x, pos + 1, a.level, "")
        /\ a.mon # x => LastIs(x, pos + 1, OwnLevel(x), "")
    BY <1>1, <2>1, LastGoesOn DEF a
  <2> QED BY <1>6, <2>2, <2>3
<1>10. LastIs("", pos, global_logging_level, "warn")'
  BY <1>1, <1>6, <1>8 DEF LastIs, Asked
<1>11. ASSUME NEW x \in Registered PROVE LastIs(x, pos, OwnLevel(x), "")'
  <2>1. PICK o : o = OwnLevel(x)'
    OBVIOUS
  <2>2. LastIs(x, k, o, "")
    BY <1>9, <2>1
  <2>3. o = IF x \in DOMAIN monitor_level' THEN monitor_level'[x] ELSE ""
    BY <2>1 DEF OwnLevel
  <2> QED BY <1>1, <1>6, <2>2, <2>3 DEF LastIs, Asked, OwnLevel
<1>12. \A x \in DOMAIN monitor_level' : monitor_level'[x] # ""
  <2>1. \A x \in DOMAIN monitor_level : monitor_level[x] # ""
    BY <1>3 DEF Upto
  <2> QED BY <1>2, <2>1, NoEmptyNames DEF WithLevel
<1> QED BY <1>5, <1>10, <1>11, <1>12 DEF Upto

\* Steps that change neither the values nor the levels.
LEMMA LevelsKept ==
  ASSUME NEW k, Upto(k), UNCHANGED <<values, global_logging_level, monitor_level>>
  PROVE  Upto(k)'
<1>1. \A i : Asked(i)' = Asked(i)
  BY DEF Asked
<1>2. \A x : OwnLevel(x)' = OwnLevel(x)
  BY DEF OwnLevel
<1> QED BY <1>1, <1>2 DEF Upto, LastIs, Asked, OwnLevel

LEMMA LevelsInit == Init => LevelsInv
  BY ValuesInit DEF Init, LevelsInv

LEMMA LevelsStep == MainInv /\ DashInv /\ LevelsInv /\ [Next]_vars => LevelsInv'
<1> SUFFICES ASSUME MainInv, DashInv, LevelsInv, [Next]_vars
             PROVE  LevelsInv'
  OBVIOUS
<1> DEFINE N == Len(values["level"]) + 1
<1>0. /\ values \in [WithArgument -> Seq(Texts)] /\ values' \in [WithArgument -> Seq(Texts)]
      /\ pc # "parse" => UNCHANGED values
      /\ N \in Nat \ {0} /\ N' \in Nat \ {0}
  <2>1. values \in [WithArgument -> Seq(Texts)]
    BY DEF LevelsInv
  <2>2. /\ values' \in [WithArgument -> Seq(Texts)]
        /\ pc # "parse" => UNCHANGED values
    BY <2>1, ValuesStep
  <2> QED BY <2>1, <2>2 DEF WithArgument, Textual
<1>1. CASE ParseStep
  BY <1>0, <1>1 DEF ParseStep, mainVars, keptVars, levelVars, scanVars, LevelsInv
<1>2. CASE Uncaught \/ Help \/ LogFails \/ Refuse \/ ForkFails
  BY <1>0, <1>2 DEF Uncaught, Help, LogFails, Refuse, ForkFails, Exit, LevelsInv
<1>3. CASE DisableFromOptions
  <2>1. /\ pc = "parse" /\ pc' = "levels" /\ pos' = 1 /\ UNCHANGED values
        /\ global_logging_level' = "warn" /\ monitor_level' = <<>>
    BY <1>3 DEF DisableFromOptions, LevelsInv, parserVars, levelVars, scanVars
  <2>2. Upto(pos)'
    <3>1. 1..(pos' - 1) = {}
      BY <2>1
    <3>2. \A x : OwnLevel(x)' = ""
      BY <2>1 DEF OwnLevel
    <3>3. DOMAIN monitor_level' = {}
      BY <2>1
    <3> QED BY <2>1, <3>1, <3>2, <3>3 DEF Upto, LastIs
  <2>3. pos' \in 1..N'
    BY <1>0, <2>1
  <2> QED BY <1>0, <2>1, <2>2, <2>3 DEF LevelsInv
<1>4. CASE ProcessLevels
  <2>1. pc = "levels" /\ pc' = "levels" /\ pos' = pos + 1 /\ pos < N /\ UNCHANGED values
        /\ pos \in Nat \ {0}
    BY <1>0, <1>4 DEF ProcessLevels, parserVars, LevelsInv
  <2>2. ~invalid_level_option' => Upto(pos)'
    BY <1>4, LevelsGoOn
  <2>3. pos' \in 1..N'
    BY <1>0, <2>1
  <2> QED BY <1>0, <2>1, <2>2, <2>3 DEF LevelsInv
<1>5. CASE LevelsDone
  <2>1. /\ pc = "levels" /\ pc' = "env" /\ pos = N /\ UNCHANGED <<values, levelVars>>
    BY <1>0, <1>5 DEF LevelsDone, parserVars, LevelsInv
  <2>2. ~invalid_level_option => Upto(N)
    BY <2>1 DEF LevelsInv
  <2>3. PICK k : k = N
    OBVIOUS
  <2>4. UNCHANGED <<global_logging_level, monitor_level, invalid_level_option>> /\ N' = k
    BY <2>1, <2>3 DEF levelVars
  <2>5. ~invalid_level_option' => Upto(k)'
    BY <2>1, <2>2, <2>3, <2>4, LevelsKept
  <2>6. ~invalid_level_option' => Upto(Len(values["level"]) + 1)'
    BY <2>4, <2>5 DEF Upto, LastIs
  <2> QED BY <1>0, <2>1, <2>6 DEF LevelsInv
<1>6. CASE EnvChar \/ EnvEnd \/ Launch \/ CreateMonitors \/ Configure \/ WriteHeader
            \/ Terminated \/ UNCHANGED vars
  <2>1. /\ pc \notin {"parse", "levels"} => pc' \notin {"parse", "levels"}
        /\ UNCHANGED <<values, global_logging_level, monitor_level, invalid_level_option>>
    BY <1>6 DEF EnvChar, EnvEnd, Launch, CreateMonitors, Configure, WriteHeader, Exit,
       Terminated, vars, parserVars, mainVars, keptVars, levelVars
  <2>2. PICK k : k = N
    OBVIOUS
  <2>3. N' = k /\ (Upto(k) => Upto(k)')
    BY <2>1, <2>2, LevelsKept
  <2>4. Upto(Len(values["level"]) + 1) => Upto(Len(values["level"]) + 1)'
    <3> SUFFICES ASSUME Upto(N) PROVE Upto(N)'
      OBVIOUS
    <3>1. Upto(k)'
      BY <2>2, <2>3
    <3> QED BY <2>3, <3>1 DEF Upto, LastIs
  <2>5. \A x : log_init(x)' = log_init(x)
    BY <2>1 DEF log_init
  <2>6. CASE CreateMonitors
    BY <1>0, <2>1, <2>4, <2>5, <2>6 DEF CreateMonitors, LevelsInv, log_init
  <2>7. CASE Configure \/ WriteHeader
    BY <1>0, <2>1, <2>4, <2>5, <2>7 DEF Configure, WriteHeader, Exit, LevelsInv, log_init
  <2>8. CASE EnvChar \/ EnvEnd \/ Launch
    BY <1>0, <2>1, <2>4, <2>8 DEF EnvChar, EnvEnd, Launch, LevelsInv
  <2>9. CASE Terminated \/ UNCHANGED vars
    <3>1. UNCHANGED <<pc, pos, monitors, log_level>>
      BY <2>9 DEF Terminated, vars, mainVars, keptVars, scanVars, monVars
    <3>2. Upto(pos) => Upto(pos)'
      <4> SUFFICES ASSUME Upto(pos) PROVE Upto(pos)'
        OBVIOUS
      <4>1. PICK q : q = pos
        OBVIOUS
      <4>2. Upto(q)'
        BY <2>1, <4>1, LevelsKept
      <4> QED BY <3>1, <4>1, <4>2 DEF Upto, LastIs
    <3> QED BY <1>0, <2>1, <2>4, <2>5, <3>1, <3>2 DEF LevelsInv, log_init
  <2> QED BY <1>6, <2>6, <2>7, <2>8, <2>9
<1> QED
  BY <1>1, <1>2, <1>3, <1>4, <1>5, <1>6 DEF Next

\* The level is that of the largest position that gives one.
LEMMA LastGiven ==
  ASSUME NEW m, NEW l, NEW default, NEW k \in Nat \ {0}, LastIs(m, k, l, default),
         NEW G, \A i : i \in G <=> i \in 1..(k - 1) /\ Asked(i).mon = m
  PROVE  /\ G = {} => l = default
         /\ G # {} => l = Asked(Max(G)).level /\ Max(G) \in 1..(k - 1)
<1>1. CASE \A j \in 1..(k - 1) : Asked(j).mon # m
  BY <1>1 DEF LastIs
<1>2. CASE ~ \A j \in 1..(k - 1) : Asked(j).mon # m
  <2>1. PICK i \in 1..(k - 1) : /\ Asked(i).mon = m /\ l = Asked(i).level
                                /\ \A j \in (i + 1)..(k - 1) : Asked(j).mon # m
    BY <1>2 DEF LastIs
  <2>2. i \in G /\ \A j \in G : i >= j
    BY <2>1
  <2>3. \A j \in G : j \in Int
    OBVIOUS
  <2>4. Max(G) \in G /\ \A j \in G : Max(G) >= j
    BY <2>2 DEF Max
  <2>5. Max(G) >= i /\ i >= Max(G) /\ Max(G) \in Int /\ i \in Int
    BY <2>2, <2>3, <2>4
  <2>6. Max(G) = i
    BY <2>5
  <2> QED BY <2>1, <2>2, <2>6
<1> QED BY <1>1, <1>2

\* Every monitor logs at the last level given for it, else at the last level
\* given for all, for any number of --level (MessageBase.cpp:15-88).
THEOREM LevelsCorrect == Spec => []LevelsAsAsked
<1>1. MainInv /\ LevelsInv => LevelsAsAsked
  <2> SUFFICES ASSUME MainInv, LevelsInv, pc = "loop", NEW x \in monitors
               PROVE  LET mine == LastSuch(LAMBDA s : s.mon = x)
                          all  == LastSuch(LAMBDA s : s.mon = "")
                      IN  log_level[x] = IF mine # "" THEN mine
                                         ELSE IF all # "" THEN all ELSE "warn"
    BY DEF LevelsAsAsked
  <2> DEFINE V == values["level"]
             N == Len(V) + 1
  <2>1. ~invalid_level_option
    BY DEF MainInv, After, Refused
  <2>2. /\ x \in Registered /\ Upto(N) /\ V \in Seq(Texts)
        /\ log_level[x] = IF x \in DOMAIN monitor_level THEN monitor_level[x]
                          ELSE global_logging_level
    BY <2>1 DEF LevelsInv, log_init, WithArgument, Textual
  <2>3. DOMAIN V = 1..(N - 1)
    BY <2>2
  <2>4. PICK G : G = {i \in DOMAIN V : Asked(i).mon = x}
    OBVIOUS
  <2>5. PICK H : H = {i \in DOMAIN V : Asked(i).mon = ""}
    OBVIOUS
  <2>6. PICK mine, all : /\ mine = LastSuch(LAMBDA s : s.mon = x)
                         /\ all = LastSuch(LAMBDA s : s.mon = "")
    OBVIOUS
  <2>7. /\ mine = IF G = {} THEN "" ELSE Asked(Max(G)).level
        /\ all = IF H = {} THEN "" ELSE Asked(Max(H)).level
    BY <2>4, <2>5, <2>6 DEF LastSuch, Asked
  <2>8. /\ G = {} => OwnLevel(x) = ""
        /\ G # {} => OwnLevel(x) = Asked(Max(G)).level
        /\ H = {} => global_logging_level = "warn"
        /\ H # {} => global_logging_level = Asked(Max(H)).level /\ Max(H) \in 1..(N - 1)
    <3>1. PICK o, g : o = OwnLevel(x) /\ g = global_logging_level
      OBVIOUS
    <3>2. LastIs(x, N, o, "") /\ LastIs("", N, g, "warn")
      BY <2>2, <3>1 DEF Upto
    <3>3. PICK k \in Nat \ {0} : k = N
      BY <2>2
    <3>4. /\ LastIs(x, k, o, "") /\ G = {i \in 1..(k - 1) : Asked(i).mon = x}
          /\ LastIs("", k, g, "warn") /\ H = {i \in 1..(k - 1) : Asked(i).mon = ""}
      BY <2>3, <2>4, <2>5, <3>2, <3>3
    <3>5. /\ \A i : i \in G <=> i \in 1..(k - 1) /\ Asked(i).mon = x
          /\ \A i : i \in H <=> i \in 1..(k - 1) /\ Asked(i).mon = ""
      BY <3>4
    <3>6. k \in Nat \ {0} /\ LastIs(x, k, o, "") /\ LastIs("", k, g, "warn")
      BY <3>3, <3>4
    <3>7. /\ G = {} => o = ""
          /\ G # {} => o = Asked(Max(G)).level /\ Max(G) \in 1..(k - 1)
      BY <3>5, <3>6, LastGiven, Zenon
    <3>8. /\ H = {} => g = "warn"
          /\ H # {} => g = Asked(Max(H)).level /\ Max(H) \in 1..(k - 1)
      BY <3>5, <3>6, LastGiven, Zenon
    <3> QED BY <3>1, <3>3, <3>7, <3>8
  <2>9. \A i \in 1..(N - 1) : Asked(i).level # ""
    BY <2>2, NoEmptyNames DEF Upto
  <2>10. log_level[x] = IF OwnLevel(x) # "" THEN OwnLevel(x) ELSE global_logging_level
    BY <2>2 DEF OwnLevel, Upto
  <2>11. log_level[x] = IF mine # "" THEN mine ELSE IF all # "" THEN all ELSE "warn"
    <3>1. mine = OwnLevel(x)
      BY <2>7, <2>8
    <3>2. CASE H = {}
      <4>1. all = "" /\ global_logging_level = "warn"
        BY <2>7, <2>8, <3>2
      <4> QED BY <2>10, <3>1, <4>1
    <3>3. CASE H # {}
      <4>1. all = Asked(Max(H)).level /\ all = global_logging_level /\ Max(H) \in 1..(N - 1)
        BY <2>7, <2>8, <3>3
      <4>2. all # ""
        BY <2>9, <4>1
      <4> QED BY <2>10, <3>1, <4>1, <4>2
    <3> QED BY <3>2, <3>3
  <2> QED BY <2>6, <2>11
<1> QED
  BY <1>1, MainInit, MainStep, DashInit, DashStep, LevelsInit, LevelsStep, PTL DEF Spec
=============================================================================
