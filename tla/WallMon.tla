------------------------------ MODULE WallMon ------------------------------
(***************************************************************************)
(* wallmon: the wall clock time of the mother, from the time it was        *)
(* started, which is asked for until it is known, and the uptime of the    *)
(* machine, which is read in seconds into a float.  The times of this      *)
(* module are in clock ticks, which are hundredths of a second, as the     *)
(* uptime is.                                                              *)
(***************************************************************************)
EXTENDS Parameter, Integers

CONSTANTS
  CLK_TCK,     \* sysconf(_SC_CLK_TCK), ticks per second
  StartTime,   \* when the mother was started
  Finest,      \* the smallest float is 1/Finest (2^149 for IEEE single)
  Significand, \* number of integers a float can tell apart (2^24)
  MaxUptime    \* bound on the uptime

ASSUME WallAssumption ==
  /\ CLK_TCK \in Nat \ {0} /\ Finest \in Nat \ {0} /\ Significand \in Nat \ {0}
  /\ StartTime \in Nat /\ MaxUptime \in Nat

VARIABLES
  uptime,                 \* external: /proc/uptime
  modern_kernel,          \* kernel_proc_pid_test
  listed,                 \* the list of processes is not empty
  got_mother_starttime,
  wtime,                  \* the monitored value
  misled,                 \* history: a list was empty before the start of the
                          \* mother was known
  clocked                 \* history: uptime when wtime was last set

wallVars == <<uptime, modern_kernel, listed, got_mother_starttime, wtime, misled, clocked>>

WallInit ==
  /\ uptime = StartTime
  /\ modern_kernel \in BOOLEAN /\ listed = FALSE
  /\ got_mother_starttime = FALSE
  /\ wtime = NewMonitoredValue(TRUE, 0)
  /\ misled = FALSE /\ clocked = StartTime

\* External: time passes.
WallTick ==
  /\ uptime < MaxUptime /\ uptime' = uptime + 1
  /\ UNCHANGED <<modern_kernel, listed, got_mother_starttime, wtime, misled, clocked>>

\* offspring_pids always lists the mother; pstree_pids returns nothing if
\* pstree cannot be run.
ListProcesses ==
  /\ listed' \in (IF modern_kernel THEN {TRUE} ELSE BOOLEAN)
  /\ UNCHANGED <<uptime, modern_kernel, got_mother_starttime, wtime, misled, clocked>>

\* 1, 2, 4, ..., 2^n
PowersOfTwo(n) ==
  LET power[k \in 0..n] == IF k = 0 THEN 1 ELSE 2 * power[k - 1]
  IN  power

\* Distance of the floats around t ticks, as a multiple of the smallest float:
\* it doubles with every power of two of the number of seconds.
FloatStep(t) ==
  LET time    == t * Finest
      power   == PowersOfTwo(time)
      Fits(k) == /\ time < (Significand * CLK_TCK) * power[k]
                 /\ k = 0 \/ time >= (Significand * CLK_TCK) * power[k - 1]
  IN  power[CHOOSE k \in 0..time : Fits(k)]

\* t ticks in seconds, as a float, in multiples of the smallest float: the
\* nearest one, and of two the one with an even significand.
AsFloat(t) ==
  LET step == CLK_TCK * FloatStep(t)
      q    == (t * Finest) \div step
      rest == 2 * ((t * Finest) % step)
  IN  (IF rest > step \/ (rest = step /\ q % 2 = 1) THEN q + 1 ELSE q) * FloatStep(t)

\* Mutated form: the start time is taken for seconds.
StartSecondsTicks == StartTime

\* The second component of get_mother_starttime, in seconds.
StartSeconds == StartTime \div CLK_TCK

\* wallmon::update_stats; the stat file of the mother or /proc/uptime may
\* turn out unreadable.
WallUpdate(stat_ok, uptime_ok) ==
  LET asks == ~got_mother_starttime /\ listed
      set  == ~(asks /\ ~stat_ok) /\ uptime_ok
      w    == IF asks /\ stat_ok THEN SetOffset(wtime, StartSeconds) ELSE wtime
  IN  /\ got_mother_starttime' = (got_mother_starttime \/ (asks /\ stat_ok))
      /\ wtime' = IF set THEN SetValue(w, AsFloat(uptime) \div Finest) ELSE w
      /\ clocked' = IF set THEN uptime ELSE clocked
      /\ misled' = (misled \/ (set /\ ~got_mother_starttime'))
      /\ UNCHANGED <<uptime, modern_kernel, listed>>

\* Mutated form: zero is returned as it is.
WallclockUnchecked == wtime.value

\* get_wallclock_t: "ensure we never return a zero"
get_wallclock_t == IF wtime.value > 0 THEN wtime.value ELSE 1

---------------------------------------------------------------------------
WallTypeOK ==
  /\ uptime \in Nat /\ modern_kernel \in BOOLEAN /\ listed \in BOOLEAN
  /\ got_mother_starttime \in BOOLEAN /\ wtime \in MonitoredValueType
  /\ misled \in BOOLEAN /\ clocked \in Nat

\* wtime is the time since the start of the mother, to less than a second and
\* half the distance of the floats around the uptime, although both times are
\* cut to seconds, the uptime goes through a float, and either file may have
\* been unreadable before.  Where processes are listed with pstree it takes
\* that the first list was not empty (wallmon.cpp:57-80).
WtimeIsElapsed ==
  got_mother_starttime /\ ~misled =>
    LET error == wtime.value * CLK_TCK - (clocked - StartTime)
        slack == 2 * Finest * CLK_TCK + CLK_TCK * FloatStep(clocked)
    IN  -slack < 2 * Finest * error /\ 2 * Finest * error < slack
=============================================================================
