------------------------------- MODULE Options -------------------------------
(***************************************************************************)
(* main() of prmon.cpp, from the parsed command line to the monitoring     *)
(* loop: disabled monitors from --disable and PRMON_DISABLE_MONITOR, log   *)
(* levels, the checks of the target, fork, and the creation of monitors at *)
(* the beginning of ProcessMonitor().                                      *)
(***************************************************************************)
EXTENDS OptionParser

CONSTANTS
  Registered,  \* names in the registries of monitors
  LevelWord,   \* word -> [mon, level]: "level" (mon "") or "mon:level"
  Levels,      \* names of levels
  Envs         \* values of PRMON_DISABLE_MONITOR: sequences of names and ","

Comma == ","

ASSUME MonitorsAssumption ==
  {"wallmon", "memmon"} \subseteq Registered /\ Comma \notin Registered
ASSUME NoEmptyNames == "" \notin Registered /\ "" \notin Levels
ASSUME EnvsAssumption == Envs \subseteq Seq(STRING)

VARIABLES
  pc,
  disabled_monitors,
  global_logging_level, monitor_level, invalid_level_option,
  env, start, pos,    \* the environment variable and the scan over it
  program,            \* the program: "none", "running"
  monitors, log_level, \* the monitors created, and the level of each
  smaps, mem_stats,    \* memmon: the file it reads, the metrics it reports
  rollup,              \* the metrics in smaps_rollup
  header,              \* memory columns of the text file
  exit_code            \* NoCode until prmon ends

levelVars == <<global_logging_level, monitor_level, invalid_level_option>>
scanVars  == <<env, start, pos>>
memVars   == <<smaps, mem_stats, rollup>>
monVars   == <<monitors, log_level, memVars, header>>
keptVars  == <<disabled_monitors, levelVars, scanVars, program, monVars>>
mainVars  == <<pc, exit_code, keptVars>>
vars == <<parserVars, mainVars>>

NoCode  == -1
Aborted == 134         \* an exception nobody catches: SIGABRT
EXIT_FAILURE == 1
MemMetrics == {"vmem", "pss", "rss", "swap"}

Init ==
  /\ ParserInit
  /\ pc = "parse" /\ disabled_monitors = {}
  /\ global_logging_level = "warn" /\ monitor_level = <<>>
  /\ invalid_level_option = FALSE
  /\ env = <<>> /\ start = 1 /\ pos = 1
  /\ program = "none" /\ monitors = {} /\ log_level = <<>>
  /\ smaps = "smaps" /\ mem_stats = MemMetrics
  /\ rollup = {} /\ header = {}
  /\ exit_code = NoCode

\* Ends prmon.
Exit(code) == pc' = "done" /\ exit_code' = code

---------------------------------------------------------------------------
(* Options.                                                                *)

ParseStep == pc = "parse" /\ Parse /\ UNCHANGED mainVars

\* Nobody catches what the parser throws.
Uncaught ==
  /\ pc = "parse" /\ thrown /\ Exit(Aborted)
  /\ UNCHANGED <<parserVars, keptVars>>

Help ==
  /\ pc = "parse" /\ Parsed /\ "help" \in set /\ Exit(0)
  /\ UNCHANGED <<parserVars, keptVars>>

\* Mutated form: any registered monitor may be disabled.
ValidIfRegistered(name) == name \in Registered

\* wallmon cannot be disabled, unknown names are reported and ignored.
valid_monitor_disable(name) == name # "wallmon" /\ name \in Registered

DisableFromOptions ==
  /\ pc = "parse" /\ Parsed /\ "help" \notin set
  /\ pc' = "levels"
  /\ disabled_monitors' = {d \in ToSet(values["disable"]) : valid_monitor_disable(d)}
  /\ UNCHANGED <<parserVars, exit_code, levelVars, scanVars, program,
                 monVars>>

\* monitor_level[m] = l
WithLevel(m, l) ==
  [x \in DOMAIN monitor_level \cup {m} |-> IF x = m THEN l ELSE monitor_level[x]]

\* Mutated form: a level for all monitors makes those given before void.
LevelResets(s) ==
  IF s.level \notin Levels \/ s.mon \notin Registered \cup {""}
  THEN [invalid |-> TRUE, global |-> global_logging_level, own |-> monitor_level]
  ELSE [invalid |-> invalid_level_option,
        global  |-> IF s.mon = "" THEN s.level ELSE global_logging_level,
        own     |-> IF s.mon = "" THEN <<>>
                    ELSE WithLevel(s.mon, s.level)]

\* What processLevel makes of one --level: a level for all monitors or for
\* one; a name that is not known is remembered as an error.
processLevel(s) ==
  IF s.level \notin Levels \/ s.mon \notin Registered \cup {""}
  THEN [invalid |-> TRUE, global |-> global_logging_level, own |-> monitor_level]
  ELSE [invalid |-> invalid_level_option,
        global  |-> IF s.mon = "" THEN s.level ELSE global_logging_level,
        own     |-> IF s.mon = "" THEN monitor_level
                    ELSE WithLevel(s.mon, s.level)]

NoLevel == [mon |-> "", level |-> ""]
LevelOf(w) == IF w \in DOMAIN LevelWord THEN LevelWord[w] ELSE NoLevel

\* The loop over the values of --level, counted by pos.
ProcessLevels ==
  /\ pc = "levels" /\ pos <= Len(values["level"])
  /\ LET r == processLevel(LevelOf(values["level"][pos])) IN
     /\ invalid_level_option' = r.invalid
     /\ global_logging_level' = r.global
     /\ monitor_level' = r.own
  /\ pos' = pos + 1
  /\ UNCHANGED <<parserVars, pc, exit_code, disabled_monitors, env, start,
                 program, monVars>>

\* getenv: whatever the environment holds; unset is like empty.
LevelsDone ==
  /\ pc = "levels" /\ pos > Len(values["level"])
  /\ pc' = "env" /\ env' \in Envs /\ pos' = 1
  /\ UNCHANGED <<parserVars, exit_code, disabled_monitors, levelVars, start,
                 program, monVars>>

---------------------------------------------------------------------------
(* disable_monitors_from_env.                                              *)

\* snip_string_and_test: env from start up to pos, exclusive, is a name.
Snipped ==
  LET piece == SubSeq(env, start, pos - 1)
  IN  disabled_monitors \cup
        {x \in Registered : piece = <<x>> /\ valid_monitor_disable(x)}

EnvChar ==
  /\ pc = "env" /\ pos <= Len(env) /\ pos' = pos + 1
  /\ IF env[pos] = Comma
     THEN disabled_monitors' = Snipped /\ start' = pos + 1
     ELSE UNCHANGED <<disabled_monitors, start>>
  /\ UNCHANGED <<parserVars, pc, exit_code, levelVars, env, program, monVars>>

\* Mutated form: what follows the last comma is forgotten.
EnvEndForgets ==
  /\ pc = "env" /\ pos = Len(env) + 1 /\ pc' = "check"
  /\ UNCHANGED <<parserVars, exit_code, keptVars>>

\* The end of the string ends the last name.
EnvEnd ==
  /\ pc = "env" /\ pos = Len(env) + 1 /\ pc' = "check"
  /\ disabled_monitors' = Snipped
  /\ UNCHANGED <<parserVars, exit_code, levelVars, scanVars, program,
                 monVars>>

---------------------------------------------------------------------------
(* Checks, fork and the beginning of ProcessMonitor.                       *)

child == non_option_args
got_pid == IsSet("pid")
pid == Number[Value("pid")]

\* The sink of the log throws if its file cannot be opened.
LogFails ==
  /\ pc = "check" /\ ~invalid_level_option /\ Exit(Aborted)
  /\ UNCHANGED <<parserVars, keptVars>>

\* Mutated form: only the lack of a target is refused.
RefusedOnlyNone == ~got_pid /\ child = <<>>

\* Exactly one of a process identifier and a program is required.
Refused ==
  \/ invalid_level_option
  \/ got_pid = (child # <<>>)
  \/ got_pid /\ pid < 2

Refuse ==
  /\ pc = "check" /\ Refused /\ Exit(EXIT_FAILURE)
  /\ UNCHANGED <<parserVars, keptVars>>

\* The program is started before any monitor exists ...
Launch ==
  /\ pc = "check" /\ ~Refused /\ pc' = "create"
  /\ program' = IF got_pid THEN "none" ELSE "running"
  /\ UNCHANGED <<parserVars, exit_code, disabled_monitors, levelVars,
                 scanVars, monVars>>

\* ... and if fork fails, main falls through to its last line.
ForkFails ==
  /\ pc = "check" /\ ~Refused /\ ~got_pid /\ Exit(0)
  /\ UNCHANGED <<parserVars, keptVars>>

\* The constructor of a monitor sets its level: its own or that of all.
log_init(x) ==
  IF x \in DOMAIN monitor_level THEN monitor_level[x] ELSE global_logging_level

\* Those not disabled are created; nvidiamon is dropped if it finds no GPU.
CreateMonitors ==
  /\ pc = "create" /\ pc' = "wallmon"
  /\ \E absent \in SUBSET (Registered \cap {"nvidiamon"}) :
       monitors' = Registered \ (disabled_monitors \cup absent)
  /\ log_level' = [x \in Registered \ disabled_monitors |-> log_init(x)]
  /\ UNCHANGED <<parserVars, exit_code, disabled_monitors, levelVars,
                 scanVars, program, memVars, header>>

\* Mutated form: the file is changed, the metrics are kept.
fastmon_keeps(available) ==
  smaps' = "smaps_rollup" /\ rollup' = available /\ UNCHANGED mem_stats

\* Another file is read, and only the metrics found in it are kept.
do_fastmon(available) ==
  /\ smaps' = "smaps_rollup" /\ rollup' = available
  /\ mem_stats' = mem_stats \cap available

\* wallmon is needed; memmon is switched over if asked for and if there is
\* a file smaps_rollup, which has no "Size:".
Configure ==
  /\ pc = "wallmon"
  /\ IF "wallmon" \in monitors THEN pc' = "header" /\ UNCHANGED exit_code
                              ELSE Exit(EXIT_FAILURE)
  /\ \/ /\ "fast_memmon" \in set /\ {"memmon", "wallmon"} \subseteq monitors
        /\ do_fastmon({"pss", "rss", "swap"})
     \/ UNCHANGED memVars
  /\ UNCHANGED <<parserVars, disabled_monitors, levelVars, scanVars, program,
                 monitors, log_level, header>>

\* The first line of the text file: the names of what get_text_stats returns,
\* once and for all rows.
WriteHeader ==
  /\ pc = "header" /\ pc' = "loop"
  /\ header' = IF "memmon" \in monitors THEN mem_stats ELSE {}
  /\ UNCHANGED <<parserVars, exit_code, disabled_monitors, levelVars, scanVars,
                 program, monitors, log_level, memVars>>

\* The loop (module ProcessMonitor) has begun, or prmon has ended.
Terminated == pc \in {"loop", "done"} /\ UNCHANGED vars

Next ==
  \/ ParseStep \/ Uncaught \/ Help \/ DisableFromOptions \/ ProcessLevels
  \/ LevelsDone \/ EnvChar \/ EnvEnd \/ LogFails \/ Refuse \/ Launch \/ ForkFails
  \/ CreateMonitors \/ Configure \/ WriteHeader \/ Terminated

Spec == Init /\ [][Next]_vars

---------------------------------------------------------------------------
(* Properties.                                                             *)

\* The names in env: what is between two commas, or a comma and an end.
Names(s) ==
  {x \in Registered : \E i \in DOMAIN s :
     /\ s[i] = x
     /\ i = 1 \/ s[i - 1] = Comma
     /\ i = Len(s) \/ s[i + 1] = Comma}

\* The loop runs with the monitors that neither an option nor the environment
\* disables, wherever in the list they are named and whatever nonsense is
\* beside them; wallmon runs whatever is asked (prmonutils.cpp:136-177,
\* prmon.cpp:52-83).
MonitorsAsAsked == pc = "loop" =>
  /\ Registered \ monitors \subseteq
       (ToSet(values["disable"]) \cup Names(env) \cup {"nvidiamon"}) \ {"wallmon"}
  /\ monitors \cap ((ToSet(values["disable"]) \cup Names(env)) \ {"wallmon"}) = {}

LastSuch(T(_)) ==
  LET given == {i \in DOMAIN values["level"] : T(LevelOf(values["level"][i]))}
  IN  IF given = {} THEN "" ELSE LevelOf(values["level"][Max(given)]).level

\* A monitor logs at the last level given for it, else at the last level given
\* for all of them, in whichever order the two kinds were given
\* (MessageBase.cpp:15-88).
LevelsAsAsked == pc = "loop" => \A x \in monitors :
  LET mine == LastSuch(LAMBDA s : s.mon = x)
      all  == LastSuch(LAMBDA s : s.mon = "")
  IN  log_level[x] = IF mine # "" THEN mine ELSE IF all # "" THEN all ELSE "warn"

\* A program that was started is monitored: the options and disabled monitors
\* that would make prmon give up are found out before the fork, so that the
\* exit without wallmon is not reached (prmon.cpp:80-83, 356-404).  What else
\* can go wrong there, in the hardware information for one, is not modelled.
StartedProgramIsMonitored == program = "running" => pc # "done"

\* prmon monitors exactly one thing, and ends with 0 without having monitored
\* anything only after --help, or with a program that could not be forked
\* (prmon.cpp:295-321, 368-409).
OutcomeFitsTarget ==
  /\ pc = "loop" => /\ got_pid # (child # <<>>)
                    /\ (program = "running") = (child # <<>>)
  /\ exit_code = 0 => \/ "help" \in set
                      \/ program = "none" /\ child # <<>> /\ ~got_pid

\* The columns of the text file are those every row will have, and each of
\* them is found in the file memmon reads from now on: the switch to fast
\* monitoring comes before the header and takes the missing metrics out of
\* both (memmon.cpp:142-180, prmon.cpp:86-108).
ColumnsAreFilled ==
  (pc = "loop" /\ "memmon" \in monitors) =>
    /\ header = mem_stats
    /\ header \subseteq IF smaps = "smaps" THEN MemMetrics ELSE rollup
============================================================================
