-------------------------- MODULE MCMonitoredValue --------------------------
(* MonitoredValue bounded for TLC.  A refused call changes nothing but the  *)
(* return code, so bounding the number of samples bounds the state space.   *)
EXTENDS MonitoredValue

CONSTANT MaxSamples

MCNext == Next /\ Len(samples') <= MaxSamples

MCSpec == Init /\ [][MCNext]_vars
============================================================================
