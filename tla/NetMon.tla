------------------------------- MODULE NetMon -------------------------------
(***************************************************************************)
(* netmon: the counters of the network devices, read one after the other   *)
(* through streams that stay open, while traffic goes on and devices go    *)
(* away.  The four interface parameters are treated alike; this is one.    *)
(***************************************************************************)
EXTENDS Parameter, Sums, SequencesExt

CONSTANTS
  monitored_netdevs,  \* the devices, a sequence
  MaxBytes            \* bound on the counter of a device

Devices == ToSet(monitored_netdevs)

ASSUME DevicesAssumption ==
  monitored_netdevs \in Seq(Devices) /\ IsInjective(monitored_netdevs)
ASSUME BytesAssumption == MaxBytes \in Nat

VARIABLES
  bytes, present,    \* external: the counters, and which devices exist
  network_if_streams,  \* whether the stream of a device is good
  net_pc,
  todo,              \* devices the loop has still to read
  value_read, stats, \* variables of read_raw_network_stats
  net_stats,         \* the monitored value
  opened, based,     \* history: traffic when the first values were begun to be
                     \* read, and when they had been read
  begun, ended,      \* history: the same for the last sample
  spoiled            \* history: a stream was not good when it was read

netVars == <<bytes, present, network_if_streams, net_pc, todo, value_read, stats,
             net_stats, opened, based, begun, ended, spoiled>>
netWorld == <<bytes, present>>

\* What all devices have received.
Traffic == SumOver(bytes, Devices)

NetInit ==
  /\ bytes = [d \in Devices |-> 1] /\ present \in [Devices -> BOOLEAN]
  /\ network_if_streams = [d \in Devices |-> FALSE]
  /\ net_pc = "open" /\ todo = <<>> /\ value_read = 0 /\ stats = 0
  /\ net_stats = NewMonitoredValue(TRUE, 0)
  /\ opened = 0 /\ based = 0 /\ begun = 0 /\ ended = 0 /\ spoiled = FALSE

---------------------------------------------------------------------------
(* The network.                                                            *)

Receive(d) ==
  /\ present[d] /\ bytes[d] < MaxBytes
  /\ bytes' = [bytes EXCEPT ![d] = @ + 1]
  /\ UNCHANGED <<present, network_if_streams, net_pc, todo, value_read, stats,
                 net_stats, opened, based, begun, ended, spoiled>>

Vanish(d) ==
  /\ present[d]
  /\ present' = [present EXCEPT ![d] = FALSE]
  /\ UNCHANGED <<bytes, network_if_streams, net_pc, todo, value_read, stats,
                 net_stats, opened, based, begun, ended, spoiled>>

---------------------------------------------------------------------------
(* netmon.                                                                 *)

\* The head of read_raw_network_stats.
StartReading(label) ==
  /\ net_pc' = label /\ todo' = monitored_netdevs
  /\ value_read' = 0 /\ stats' = 0

\* open_interface_streams, in the constructor.
OpenStreams ==
  /\ net_pc = "open" /\ StartReading("initial")
  /\ network_if_streams' = present
  /\ opened' = Traffic
  /\ UNCHANGED <<netWorld, net_stats, based, begun, ended, spoiled>>

\* Mutated form: the last device is read and not added.
SumLate(v) == stats + value_read

\* stats[if_param] += value_read
Sum(v) == stats + v

\* The turn of one device.  >> leaves value_read as it is when the stream is
\* not good, so that the device before is added a second time; and once it is
\* not good, seekg(0) does not make it good again.
ReadDevice ==
  /\ net_pc \in {"initial", "update"} /\ todo # <<>>
  /\ LET d  == Head(todo)
         ok == network_if_streams[d] /\ present[d]
     IN  /\ network_if_streams' = [network_if_streams EXCEPT ![d] = ok]
         /\ value_read' = IF ok THEN bytes[d] ELSE value_read
         /\ spoiled' = (spoiled \/ ~ok)
  /\ stats' = Sum(value_read')
  /\ todo' = Tail(todo)
  /\ UNCHANGED <<netWorld, net_pc, net_stats, opened, based, begun, ended>>

\* The rest of the constructor: the first values become the offset.
Constructed ==
  /\ net_pc = "initial" /\ todo = <<>> /\ net_pc' = "idle"
  /\ net_stats' = NewMonitoredValue(TRUE, stats)
  /\ based' = Traffic
  /\ UNCHANGED <<netWorld, network_if_streams, todo, value_read, stats, opened,
                 begun, ended, spoiled>>

NetBegin ==
  /\ net_pc = "idle" /\ StartReading("update")
  /\ begun' = Traffic
  /\ UNCHANGED <<netWorld, network_if_streams, net_stats, opened, based, ended,
                 spoiled>>

NetEnd ==
  /\ net_pc = "update" /\ todo = <<>> /\ net_pc' = "idle"
  /\ net_stats' = SetValue(net_stats, stats)
  /\ ended' = Traffic
  /\ UNCHANGED <<netWorld, network_if_streams, todo, value_read, stats, opened,
                 based, begun, spoiled>>

---------------------------------------------------------------------------
NetTypeOK ==
  /\ bytes \in [Devices -> Nat] /\ present \in [Devices -> BOOLEAN]
  /\ network_if_streams \in [Devices -> BOOLEAN]
  /\ net_pc \in {"open", "initial", "idle", "update"}
  /\ IsSuffix(todo, monitored_netdevs)
  /\ value_read \in Nat /\ stats \in Nat /\ net_stats \in MonitoredValueType
  /\ {opened, based, begun, ended} \subseteq Nat /\ spoiled \in BOOLEAN

\* As long as every device can be read, the sample reports at least the
\* traffic since the constructor was left and at most the traffic since it was
\* entered, however traffic and the reads of several devices interleave: the
\* sum over the devices is never a mixture that the offset or the check for
\* decreases refuses (netmon.cpp:85-95, 120-132).
TrafficReported ==
  net_pc = "idle" /\ ~spoiled =>
    /\ net_stats.value >= begun - based
    /\ net_stats.value <= (IF ended > opened THEN ended - opened ELSE 0)
=============================================================================
