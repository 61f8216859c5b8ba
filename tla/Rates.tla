------------------------------- MODULE Rates -------------------------------
(***************************************************************************)
(* Samples of wallmon and netmon, in the unspecified order of the map of   *)
(* monitors, and the averages ProcessMonitor has netmon compute from the   *)
(* time of wallmon.  The averages of iomon are computed in the same way    *)
(* (iomon.cpp:86-95).                                                      *)
(***************************************************************************)
EXTENDS WallMon, NetMon

CONSTANT MaxSamples   \* bound on the number of samples

ASSUME SamplesAssumption == MaxSamples \in Nat

VARIABLES
  updating,  \* the monitors that update_stats has still to be called for
  averaged,  \* the averages of the last sample have been computed
  average,   \* json_summary["Avg"], an exact fraction
  samples

loopVars == <<updating, averaged, average, samples>>
vars == <<wallVars, netVars, loopVars>>

Init ==
  /\ WallInit /\ NetInit
  /\ updating = {} /\ averaged = TRUE /\ average = [num |-> 0, den |-> 1]
  /\ samples = 0

Finished == samples = MaxSamples /\ averaged

\* The world moves on between any two steps.
World ==
  /\ ~Finished
  /\ \/ WallTick /\ UNCHANGED netVars
     \/ \E d \in Devices : (Receive(d) \/ Vanish(d)) /\ UNCHANGED wallVars
  /\ UNCHANGED loopVars

Construct ==
  /\ OpenStreams \/ Constructed
  /\ UNCHANGED <<wallVars, loopVars>>

StartSample ==
  /\ net_pc = "idle" /\ averaged /\ samples < MaxSamples
  /\ updating' = {"wallmon", "netmon"} /\ averaged' = FALSE
  /\ samples' = samples + 1
  /\ ListProcesses /\ UNCHANGED <<netVars, average>>

UpdateWallmon ==
  /\ "wallmon" \in updating /\ net_pc = "idle"
  /\ updating' = updating \ {"wallmon"}
  /\ \E stat_ok, uptime_ok \in BOOLEAN : WallUpdate(stat_ok, uptime_ok)
  /\ UNCHANGED <<netVars, averaged, average, samples>>

UpdateNetmon ==
  /\ \/ NetBegin /\ "netmon" \in updating /\ UNCHANGED updating
     \/ NetEnd /\ updating' = updating \ {"netmon"}
  /\ UNCHANGED <<wallVars, averaged, average, samples>>

ReadNextDevice == ReadDevice /\ UNCHANGED <<wallVars, loopVars>>

\* get_json_average_stats(elapsed_clock_ticks) of netmon.
get_json_average_stats(elapsed_clock_ticks) ==
  [num |-> net_stats.value * CLK_TCK, den |-> elapsed_clock_ticks]

\* Kept exact here; ProcessMonitor!Truncated is what cuts it to thousandths.
Average ==
  /\ ~averaged /\ updating = {} /\ averaged' = TRUE
  /\ average' = get_json_average_stats(get_wallclock_t)
  /\ UNCHANGED <<wallVars, netVars, updating, samples>>

Terminated == Finished /\ UNCHANGED vars

Next ==
  \/ World \/ Construct \/ StartSample \/ UpdateWallmon \/ UpdateNetmon
  \/ ReadNextDevice \/ Average \/ Terminated

Spec == Init /\ [][Next]_vars

---------------------------------------------------------------------------
\* Types of the variables.
TypeOK ==
  /\ WallTypeOK /\ NetTypeOK
  /\ updating \subseteq {"wallmon", "netmon"} /\ averaged \in BOOLEAN
  /\ average.num \in Nat /\ average.den \in Nat \ {0} /\ samples \in Nat

\* The average of rx_bytes is in "B/s" (netmon.h:29): the bytes reported,
\* divided by the seconds of wall clock time reported beside them.
AverageIsPerSecond ==
  averaged /\ samples > 0 =>
    average.num * get_wallclock_t = net_stats.value * average.den
=============================================================================
