--------------------------- MODULE MonitorsProofs ---------------------------
(***************************************************************************)
(* What netmon, wallmon and the NUMA part of cpumon report, for any number *)
(* of devices, threads, processes and nodes, whatever happens between      *)
(* their reads.                                                            *)
(***************************************************************************)
EXTENDS Rates, NumaMon, SumsProofs

\* set_value keeps the type and the offset; and it stores a reading that lies
\* above the offset by at least the value stored before.
LEMMA SetValueFacts ==
  ASSUME NEW v \in MonitoredValueType, NEW x \in Nat, NEW new, new = SetValue(v, x)
  PROVE  /\ new \in MonitoredValueType
         /\ new.offset = v.offset /\ new.monotonic = v.monotonic
         /\ new.value = v.value \/ (x >= v.offset /\ new.value = x - v.offset)
         /\ x >= v.offset + v.value => new.value = x - v.offset
         /\ v.monotonic /\ new.value = v.value => x <= v.offset + v.value
<1>0. /\ v.value \in Nat /\ v.max \in Nat /\ v.summed \in Nat /\ v.offset \in Nat
      /\ v.iterations \in Nat /\ v.monotonic \in BOOLEAN
  BY DEF MonitoredValueType
<1>1. CASE ~Accepts(v, x)
  <2>1. new = v /\ ~(x >= v.offset + v.value)
    BY <1>0, <1>1 DEF SetValue, Accepts
  <2> QED BY <1>0, <2>1
<1>2. CASE Accepts(v, x)
  <2>1. PICK y : y = x - v.offset
    OBVIOUS
  <2>2. y \in Nat /\ x >= v.offset /\ new = Recorded(v, x)
    BY <1>0, <1>2, <2>1 DEF Accepts, SetValue
  <2>3. \E m, u, k \in Nat :
          new = [v EXCEPT !.value = y, !.max = m, !.summed = u, !.iterations = k]
    <3>1. CASE v.monotonic
      <4>1. new = [v EXCEPT !.value = y, !.max = y]
        BY <2>1, <2>2, <3>1 DEF Recorded
      <4>2. new = [v EXCEPT !.value = y, !.max = y, !.summed = v.summed,
                            !.iterations = v.iterations]
        BY <4>1 DEF MonitoredValueType
      <4> QED BY <1>0, <2>2, <4>2
    <3>2. CASE ~v.monotonic
      <4>1. PICK m, u, k : /\ m = IF y > v.max THEN y ELSE v.max
                           /\ u = v.summed + y /\ k = v.iterations + 1
        OBVIOUS
      <4>2. m \in Nat /\ u \in Nat /\ k \in Nat
        BY <1>0, <2>2, <4>1
      <4>3. new = [v EXCEPT !.value = y, !.max = m, !.summed = u, !.iterations = k]
        BY <2>1, <2>2, <3>2, <4>1 DEF Recorded
      <4> QED BY <4>2, <4>3
    <3> QED BY <3>1, <3>2
  <2>4. /\ new \in MonitoredValueType /\ new.value = y
        /\ new.offset = v.offset /\ new.monotonic = v.monotonic
    BY <2>2, <2>3 DEF MonitoredValueType
  <2> QED BY <1>0, <2>1, <2>2, <2>4
<1> QED BY <1>1, <1>2

\* A new object, and one whose offset is set.
LEMMA NewValueType ==
  ASSUME NEW mono \in BOOLEAN, NEW o \in Nat
  PROVE  /\ NewMonitoredValue(mono, o) \in MonitoredValueType
         /\ NewMonitoredValue(mono, o).monotonic = mono
         /\ NewMonitoredValue(mono, o).offset = o
         /\ NewMonitoredValue(mono, o).value = 0
BY DEF NewMonitoredValue, MonitoredValueType

---------------------------------------------------------------------------
(* netmon.                                                                 *)

\* The devices still to be read are the last ones of the list.
Rest ==
  /\ todo \in Seq(Devices) /\ Len(todo) <= Len(monitored_netdevs)
  /\ \A i \in 1..Len(todo) :
       todo[i] = monitored_netdevs[Len(monitored_netdevs) - Len(todo) + i]

NetShape ==
  /\ bytes \in [Devices -> Nat] /\ present \in [Devices -> BOOLEAN]
  /\ network_if_streams \in [Devices -> BOOLEAN]
  /\ net_pc \in {"open", "initial", "idle", "update"}
  /\ Rest
  /\ value_read \in Nat /\ stats \in Nat /\ net_stats \in MonitoredValueType
  /\ opened \in Nat /\ based \in Nat /\ begun \in Nat /\ ended \in Nat
  /\ spoiled \in BOOLEAN

\* What the sum will be if nothing is received until the last device is read.
Pending == stats + SumOver(bytes, ToSet(todo))

\* While every device can be read, what is pending lies between the traffic
\* when the reading began and the traffic now.  So the offset lies between the
\* traffic when the constructor was entered and left, and no reading is below
\* the offset or below the reading before.
NetInv ==
  /\ NetShape
  /\ ~spoiled =>
     /\ ended <= Traffic
     /\ net_pc \in {"open", "initial"} => begun = 0 /\ ended = 0
     /\ net_pc = "initial" => opened <= Pending /\ Pending <= Traffic
     /\ net_pc \in {"idle", "update"} =>
          /\ opened <= net_stats.offset /\ net_stats.offset <= based /\ based <= Traffic
          /\ net_stats.value = 0 \/ net_stats.offset + net_stats.value <= ended
     /\ net_pc = "idle" => begun = 0 \/ begun <= net_stats.offset + net_stats.value
     /\ net_pc = "update" => /\ based <= begun /\ ended <= begun
                             /\ begun <= Pending /\ Pending <= Traffic

NetSteps ==
  \/ \E d \in Devices : Receive(d) \/ Vanish(d)
  \/ OpenStreams \/ ReadDevice \/ Constructed \/ NetBegin \/ NetEnd
  \/ UNCHANGED netVars

LEMMA DevicesFinite == IsFiniteSet(Devices)
<1>1. monitored_netdevs \in Seq(Devices)
  BY DevicesAssumption
<1> DEFINE D == 1..Len(monitored_netdevs)
<1>2. DOMAIN monitored_netdevs = D /\ Len(monitored_netdevs) \in Nat
  BY <1>1
<1>3. IsFiniteSet(D)
  BY <1>2, FS_Interval
<1>4. \A d \in Devices : \E i \in D : monitored_netdevs[i] = d
  BY <1>2 DEF Devices, ToSet
<1>5. monitored_netdevs \in [D -> Devices]
  BY <1>1
<1>6. monitored_netdevs \in Surjection(D, Devices)
  BY <1>4, <1>5 DEF Surjection
<1> HIDE DEF D
<1> QED BY <1>3, <1>6, FS_Surjection

LEMMA SomeTraffic ==
  ASSUME NEW f \in [Devices -> Nat], NEW S \in SUBSET Devices
  PROVE  /\ IsFiniteSet(S) /\ SumOver(f, S) \in Nat
         /\ \A d \in S : SumOver(f, S) = f[d] + SumOver(f, S \ {d})
<1>1. IsFiniteSet(S) /\ \A d \in S : f[d] \in Nat
  BY DevicesFinite, FS_Subset
<1> QED BY <1>1, SumOverLaws

\* One more byte for d.
LEMMA OneMore ==
  ASSUME NEW f \in [Devices -> Nat], NEW g \in [Devices -> Nat], NEW d \in Devices,
         \A x \in Devices : g[x] = (IF x = d THEN f[x] + 1 ELSE f[x]),
         NEW S \in SUBSET Devices
  PROVE  /\ d \in S => SumOver(g, S) = SumOver(f, S) + 1
         /\ d \notin S => SumOver(g, S) = SumOver(f, S)
<1>1. /\ SumOver(f, S) \in Nat /\ SumOver(f, S \ {d}) \in Nat /\ f[d] \in Nat
      /\ IsFiniteSet(S \ {d}) /\ IsFiniteSet(S)
  BY SomeTraffic
<1>2. SumOver(f, S \ {d}) = SumOver(g, S \ {d})
  <2>1. \A x \in S \ {d} : f[x] = g[x]
    OBVIOUS
  <2> QED BY <1>1, <2>1, SumOverAgree
<1>3. CASE d \in S
  <2>1. SumOver(f, S) = f[d] + SumOver(f, S \ {d})
    BY <1>3, SomeTraffic
  <2>2. SumOver(g, S) = g[d] + SumOver(g, S \ {d})
    BY <1>3, SomeTraffic
  <2>3. g[d] = f[d] + 1
    OBVIOUS
  <2> QED BY <1>1, <1>2, <1>3, <2>1, <2>2, <2>3
<1>4. CASE d \notin S
  <2>1. S \ {d} = S
    BY <1>4
  <2> QED BY <1>1, <1>2, <1>4, <2>1
<1> QED BY <1>3, <1>4

LEMMA RestFacts ==
  ASSUME Rest, todo # <<>>
  PROVE  /\ Head(todo) \in Devices /\ Head(todo) \notin ToSet(Tail(todo))
         /\ ToSet(todo) \in SUBSET Devices
         /\ ToSet(todo) \ {Head(todo)} = ToSet(Tail(todo)) /\ Head(todo) \in ToSet(todo)
         /\ Tail(todo) \in Seq(Devices) /\ Len(Tail(todo)) = Len(todo) - 1
         /\ \A i \in 1..Len(Tail(todo)) : Tail(todo)[i] = todo[i + 1]
<1> DEFINE N == Len(monitored_netdevs)
           n == Len(todo)
           t == Tail(todo)
<1>1. /\ todo \in Seq(Devices) /\ n \in Nat /\ n >= 1 /\ N \in Nat /\ n <= N
      /\ \A i \in 1..n : todo[i] = monitored_netdevs[N - n + i]
  BY DevicesAssumption DEF Rest
<1>2. /\ Head(todo) = todo[1] /\ t \in Seq(Devices) /\ Len(t) = n - 1
      /\ \A i \in 1..(n - 1) : t[i] = todo[i + 1]
      /\ \A i \in 1..n : todo[i] \in Devices
  BY <1>1
<1>3. DOMAIN monitored_netdevs = 1..N
  BY DevicesAssumption
<1>4. ASSUME NEW i \in 1..n, NEW j \in 1..n, todo[i] = todo[j] PROVE i = j
  <2>1. N - n + i \in 1..N /\ N - n + j \in 1..N
    BY <1>1
  <2>2. monitored_netdevs[N - n + i] = monitored_netdevs[N - n + j]
    BY <1>1, <1>4
  <2>3. N - n + i = N - n + j
    BY <1>3, <2>1, <2>2, DevicesAssumption DEF IsInjective
  <2> QED BY <1>1, <2>3
<1>5. ToSet(todo) = {todo[i] : i \in 1..n} /\ ToSet(t) = {t[i] : i \in 1..(n - 1)}
  <2>1. DOMAIN todo = 1..n /\ DOMAIN t = 1..(n - 1)
    <3>1. DOMAIN t = 1..Len(t)
      BY <1>2
    <3> QED BY <1>1, <1>2, <3>1
  <2> HIDE DEF t, n
  <2> QED BY <2>1 DEF ToSet
<1>6. Head(todo) \notin ToSet(t)
  <2> SUFFICES ASSUME NEW i \in 1..(n - 1), todo[1] = t[i] PROVE FALSE
    BY <1>2, <1>5
  <2>1. i + 1 \in 1..n /\ 1 \in 1..n /\ todo[1] = todo[i + 1]
    BY <1>1, <1>2
  <2>2. 1 = i + 1
    BY <1>4, <2>1
  <2> QED BY <2>2
<1>7. ToSet(todo) = {Head(todo)} \cup ToSet(t)
  <2>1. ASSUME NEW i \in 1..n PROVE todo[i] \in {Head(todo)} \cup ToSet(t)
    <3>1. CASE i = 1
      BY <1>2, <3>1
    <3>2. CASE i # 1
      <4>1. i - 1 \in 1..(n - 1) /\ (i - 1) + 1 = i
        BY <1>1, <3>2
      <4>2. t[i - 1] = todo[i]
        BY <1>2, <4>1
      <4> QED BY <1>5, <4>1, <4>2
    <3> QED BY <3>1, <3>2
  <2>2. ASSUME NEW i \in 1..(n - 1) PROVE t[i] \in ToSet(todo)
    <3>1. i + 1 \in 1..n
      BY <1>1
    <3> QED BY <1>2, <1>5, <3>1
  <2>3. Head(todo) \in ToSet(todo)
    <3>1. 1 \in 1..n
      BY <1>1
    <3> QED BY <1>2, <1>5, <3>1
  <2> QED BY <1>5, <2>1, <2>2, <2>3
<1>8. ToSet(todo) \in SUBSET Devices
  BY <1>2, <1>5
<1>9. Head(todo) \in Devices /\ \A i \in 1..Len(t) : t[i] = todo[i + 1]
  BY <1>1, <1>2
<1>10. ToSet(todo) \ {Head(todo)} = ToSet(t) /\ Head(todo) \in ToSet(todo)
  BY <1>6, <1>7
<1> QED BY <1>2, <1>6, <1>8, <1>9, <1>10

LEMMA NetInitInv == NetInit => NetInv
<1> SUFFICES ASSUME NetInit PROVE NetInv
  OBVIOUS
<1>1. /\ bytes \in [Devices -> Nat] /\ present \in [Devices -> BOOLEAN]
      /\ network_if_streams \in [Devices -> BOOLEAN]
      /\ net_pc = "open" /\ todo = <<>> /\ value_read = 0 /\ stats = 0
      /\ opened = 0 /\ based = 0 /\ begun = 0 /\ ended = 0 /\ spoiled = FALSE
      /\ net_stats = NewMonitoredValue(TRUE, 0)
  BY DEF NetInit
<1>2. net_stats \in MonitoredValueType
  <2>1. 0 \in Nat /\ TRUE \in BOOLEAN
    OBVIOUS
  <2> QED BY <1>1, <2>1, NewValueType
<1>3. Rest
  <2>1. todo \in Seq(Devices) /\ Len(todo) = 0 /\ Len(monitored_netdevs) \in Nat
    BY <1>1, DevicesAssumption
  <2> QED BY <2>1 DEF Rest
<1>4. NetShape
  BY <1>1, <1>2, <1>3 DEF NetShape
<1>5. Traffic \in Nat
  BY <1>1, SomeTraffic DEF Traffic
<1> QED BY <1>1, <1>4, <1>5 DEF NetInv

\* Reading all devices begins: what is pending is the traffic.
LEMMA ReadingStarts ==
  ASSUME NetShape, NEW label, StartReading(label), bytes' = bytes
  PROVE  Rest' /\ Pending' = Traffic /\ stats' = 0 /\ value_read' = 0 /\ Traffic' = Traffic
<1>1. todo' = monitored_netdevs /\ value_read' = 0 /\ stats' = 0
  BY DEF StartReading
<1>2. Rest'
  <2>1. monitored_netdevs \in Seq(Devices) /\ Len(monitored_netdevs) \in Nat
    BY DevicesAssumption
  <2>2. \A i \in 1..Len(monitored_netdevs) :
          Len(monitored_netdevs) - Len(monitored_netdevs) + i = i
    BY <2>1
  <2> QED BY <1>1, <2>1, <2>2 DEF Rest
<1>3. Traffic \in Nat
  BY SomeTraffic DEF Traffic, NetShape
<1>4. Pending' = 0 + Traffic
  BY <1>1 DEF Pending, Traffic, Devices
<1> QED BY <1>1, <1>2, <1>3, <1>4 DEF Traffic

LEMMA NetStep == NetInv /\ NetSteps => NetInv'
<1> SUFFICES ASSUME NetInv, NetSteps PROVE NetInv'
  OBVIOUS
<1>0. NetShape /\ Rest
  BY DEF NetInv, NetShape
<1>a. /\ bytes \in [Devices -> Nat] /\ present \in [Devices -> BOOLEAN]
      /\ network_if_streams \in [Devices -> BOOLEAN]
      /\ value_read \in Nat /\ stats \in Nat /\ net_stats \in MonitoredValueType
      /\ opened \in Nat /\ based \in Nat /\ begun \in Nat /\ ended \in Nat
      /\ spoiled \in BOOLEAN /\ todo \in Seq(Devices)
      /\ net_stats.value \in Nat /\ net_stats.offset \in Nat
  <2>1. net_stats \in MonitoredValueType
    BY <1>0 DEF NetShape
  <2>2. net_stats.value \in Nat /\ net_stats.offset \in Nat
    BY <2>1 DEF MonitoredValueType
  <2> QED BY <1>0, <2>1, <2>2 DEF NetShape, Rest
<1>b. /\ Traffic \in Nat /\ Devices \in SUBSET Devices
      /\ ToSet(todo) \in SUBSET Devices /\ SumOver(bytes, ToSet(todo)) \in Nat
      /\ Pending \in Nat
  <2>1. ToSet(todo) \in SUBSET Devices /\ Devices \in SUBSET Devices
    BY <1>a DEF ToSet
  <2>2. Traffic \in Nat /\ SumOver(bytes, ToSet(todo)) \in Nat
    BY <1>a, <2>1, SomeTraffic DEF Traffic
  <2> QED BY <1>a, <2>1, <2>2 DEF Pending
<1>1. ASSUME NEW d \in Devices, Receive(d) PROVE NetInv'
  <2>1. /\ bytes' = [bytes EXCEPT ![d] = bytes[d] + 1]
        /\ UNCHANGED <<present, network_if_streams, net_pc, todo, value_read, stats>>
        /\ UNCHANGED <<net_stats, opened, based, begun, ended, spoiled>>
    BY <1>1 DEF Receive
  <2>2. bytes' \in [Devices -> Nat]
    BY <1>a, <2>1
  <2>3. NetShape'
    BY <1>0, <2>1, <2>2 DEF NetShape, Rest
  <2>a. ASSUME NEW S \in SUBSET Devices
        PROVE  /\ d \in S => SumOver(bytes', S) = SumOver(bytes, S) + 1
               /\ d \notin S => SumOver(bytes', S) = SumOver(bytes, S)
    <3>1. PICK g : g = bytes'
      OBVIOUS
    <3>2. /\ g \in [Devices -> Nat]
          /\ \A x \in Devices : g[x] = (IF x = d THEN bytes[x] + 1 ELSE bytes[x])
      BY <1>a, <2>1, <2>2, <3>1
    <3>3. /\ d \in S => SumOver(g, S) = SumOver(bytes, S) + 1
          /\ d \notin S => SumOver(g, S) = SumOver(bytes, S)
      <4>1. bytes \in [Devices -> Nat]
        BY <1>a
      <4> QED BY ONLY <3>2, <4>1, OneMore, d \in Devices, S \in SUBSET Devices
    <3> QED BY <3>1, <3>3
  <2>4. Traffic' = Traffic + 1
    BY <1>b, <2>a DEF Traffic
  <2>5. /\ Pending' \in Nat /\ Pending <= Pending' /\ Pending' <= Pending + 1
    <3>1. \/ SumOver(bytes', ToSet(todo)) = SumOver(bytes, ToSet(todo)) + 1
          \/ SumOver(bytes', ToSet(todo)) = SumOver(bytes, ToSet(todo))
      BY <1>b, <2>a
    <3>2. Pending' = stats + SumOver(bytes', ToSet(todo))
      BY <2>1 DEF Pending
    <3> QED BY <1>a, <1>b, <3>1, <3>2 DEF Pending
  <2> QED BY <1>a, <1>b, <2>1, <2>3, <2>4, <2>5 DEF NetInv
<1>2. ASSUME UNCHANGED <<bytes, network_if_streams, net_pc, todo, value_read, stats>>,
             UNCHANGED <<net_stats, opened, based, begun, ended, spoiled>>,
             present' \in [Devices -> BOOLEAN]
      PROVE  NetInv'
  <2>1. NetShape'
    BY <1>0, <1>2 DEF NetShape, Rest
  <2>2. Traffic' = Traffic /\ Pending' = Pending
    BY <1>2 DEF Traffic, Pending
  <2> QED BY <1>2, <2>1, <2>2 DEF NetInv
<1>3. ASSUME NEW d \in Devices, Vanish(d) PROVE NetInv'
  <2>1. present' \in [Devices -> BOOLEAN]
    BY <1>a, <1>3 DEF Vanish
  <2> QED BY <1>2, <1>3, <2>1 DEF Vanish
<1>4. CASE OpenStreams
  <2>1. /\ net_pc = "open" /\ StartReading("initial") /\ net_pc' = "initial"
        /\ network_if_streams' = present /\ opened' = Traffic
        /\ UNCHANGED <<bytes, present, net_stats, based, begun, ended, spoiled>>
    BY <1>4 DEF OpenStreams, StartReading, netWorld
  <2>2. /\ Rest' /\ Pending' = Traffic /\ stats' = 0 /\ value_read' = 0
        /\ Traffic' = Traffic
    BY <1>0, <2>1, ReadingStarts
  <2>3. NetShape'
    BY <1>a, <1>b, <2>1, <2>2 DEF NetShape
  <2> QED BY <1>a, <1>b, <2>1, <2>2, <2>3 DEF NetInv
<1>5. CASE ReadDevice
  <2>1. PICK d, ok : d = Head(todo) /\ ok = (network_if_streams[d] /\ present[d])
    OBVIOUS
  <2>2. /\ net_pc \in {"initial", "update"} /\ todo # <<>> /\ todo' = Tail(todo)
        /\ network_if_streams' = [network_if_streams EXCEPT ![d] = ok]
        /\ value_read' = IF ok THEN bytes[d] ELSE value_read
        /\ spoiled' = (spoiled \/ ~ok)
        /\ stats' = stats + value_read'
        /\ UNCHANGED <<bytes, present, net_pc, net_stats, opened, based, begun, ended>>
    BY <1>5, <2>1 DEF ReadDevice, Sum, netWorld
  <2>3. /\ d \in Devices /\ ToSet(todo) \ {d} = ToSet(todo') /\ d \in ToSet(todo)
        /\ todo' \in Seq(Devices) /\ Len(todo') = Len(todo) - 1
        /\ \A i \in 1..Len(todo') : todo'[i] = todo[i + 1]
    BY <1>0, <2>1, <2>2, RestFacts
  <2>4. ok \in BOOLEAN /\ bytes[d] \in Nat
    BY <1>a, <2>1, <2>3
  <2>5. value_read' \in Nat /\ stats' \in Nat
    BY <1>a, <2>2, <2>4
  <2>6. network_if_streams' \in [Devices -> BOOLEAN] /\ spoiled' \in BOOLEAN
    BY <1>a, <2>2, <2>3, <2>4
  <2>7. Rest'
    <3> DEFINE N == Len(monitored_netdevs)
               n == Len(todo)
    <3>1. n \in Nat /\ N \in Nat /\ n <= N /\ Len(todo') = n - 1
      BY <1>0, <1>a, <2>3, DevicesAssumption DEF Rest
    <3>2. ASSUME NEW i \in 1..Len(todo')
          PROVE  todo'[i] = monitored_netdevs[N - Len(todo') + i]
      <4>1. i + 1 \in 1..n /\ N - n + (i + 1) = N - (n - 1) + i
        BY <3>1
      <4>2. todo'[i] = todo[i + 1] /\ todo[i + 1] = monitored_netdevs[N - n + (i + 1)]
        BY <1>0, <2>3, <4>1 DEF Rest
      <4> QED BY <3>1, <4>1, <4>2
    <3>3. Len(todo') <= N
      BY <3>1
    <3> QED BY <2>3, <3>2, <3>3 DEF Rest
  <2>8. NetShape'
    BY <1>0, <1>a, <2>2, <2>5, <2>6, <2>7 DEF NetShape
  <2>9. ASSUME ~spoiled' PROVE Pending' = Pending
    <3>1. stats' = stats + bytes[d]
      BY <2>2, <2>4, <2>9
    <3>2. SumOver(bytes, ToSet(todo)) = bytes[d] + SumOver(bytes, ToSet(todo) \ {d})
      <4>1. bytes \in [Devices -> Nat] /\ ToSet(todo) \in SUBSET Devices
        BY <1>a, <1>b
      <4>2. \A x \in ToSet(todo) :
              SumOver(bytes, ToSet(todo)) = bytes[x] + SumOver(bytes, ToSet(todo) \ {x})
        BY ONLY <4>1, SomeTraffic
      <4> QED BY <2>3, <4>2
    <3>3. Pending' = stats' + SumOver(bytes, ToSet(todo) \ {d})
      BY <2>2, <2>3 DEF Pending
    <3>4. SumOver(bytes, ToSet(todo) \ {d}) \in Nat
      BY <1>a, <1>b, SomeTraffic
    <3> QED BY <1>a, <2>4, <3>1, <3>2, <3>3, <3>4 DEF Pending
  <2>10. Traffic' = Traffic /\ (~spoiled' => ~spoiled)
    BY <2>2 DEF Traffic
  <2> QED BY <2>2, <2>8, <2>9, <2>10 DEF NetInv
<1>6. CASE Constructed
  <2>1. /\ net_pc = "initial" /\ todo = <<>> /\ net_pc' = "idle" /\ based' = Traffic
        /\ net_stats' = NewMonitoredValue(TRUE, stats)
        /\ UNCHANGED <<bytes, present, network_if_streams, todo, value_read, stats>>
        /\ UNCHANGED <<opened, begun, ended, spoiled>>
    BY <1>6 DEF Constructed, netWorld
  <2>2. net_stats' \in MonitoredValueType /\ net_stats'.offset = stats /\ net_stats'.value = 0
    <3>1. TRUE \in BOOLEAN
      OBVIOUS
    <3> QED BY <1>a, <2>1, <3>1, NewValueType
  <2>3. NetShape'
    BY <1>0, <1>b, <2>1, <2>2 DEF NetShape, Rest
  <2>4. Pending = stats
    <3>1. ToSet(todo) = {}
      BY <2>1 DEF ToSet
    <3> QED BY <1>a, <3>1, SumOverEmpty DEF Pending
  <2>5. Traffic' = Traffic
    BY <2>1 DEF Traffic
  <2>6. ~spoiled => /\ opened <= stats /\ stats <= Traffic
                    /\ begun = 0 /\ ended = 0
    BY <2>1, <2>4 DEF NetInv
  <2>7. ~spoiled' => /\ opened' <= net_stats'.offset /\ net_stats'.offset <= based'
                     /\ based' <= Traffic' /\ net_stats'.value = 0
                     /\ begun' = 0 /\ ended' = 0 /\ ended' <= Traffic'
    <3>1. UNCHANGED <<spoiled, opened, begun, ended>> /\ based' = Traffic
      BY <2>1
    <3> QED BY <1>a, <1>b, <2>2, <2>5, <2>6, <3>1
  <2>8. net_pc' = "idle"
    BY <2>1
  <2> QED BY <2>3, <2>7, <2>8 DEF NetInv
<1>7. CASE NetBegin
  <2>1. /\ net_pc = "idle" /\ StartReading("update") /\ net_pc' = "update"
        /\ begun' = Traffic
        /\ UNCHANGED <<bytes, present, network_if_streams, net_stats, opened, based>>
        /\ UNCHANGED <<ended, spoiled>>
    BY <1>7 DEF NetBegin, StartReading, netWorld
  <2>2. /\ Rest' /\ Pending' = Traffic /\ stats' = 0 /\ value_read' = 0
        /\ Traffic' = Traffic
    BY <1>0, <2>1, ReadingStarts
  <2>3. NetShape'
    BY <1>a, <1>b, <2>1, <2>2 DEF NetShape
  <2> QED BY <1>a, <1>b, <2>1, <2>2, <2>3 DEF NetInv
<1>8. CASE NetEnd
  <2>1. /\ net_pc = "update" /\ todo = <<>> /\ net_pc' = "idle" /\ ended' = Traffic
        /\ net_stats' = SetValue(net_stats, stats)
        /\ UNCHANGED <<bytes, present, network_if_streams, todo, value_read, stats>>
        /\ UNCHANGED <<opened, based, begun, spoiled>>
    BY <1>8 DEF NetEnd, netWorld
  <2>2. /\ net_stats' \in MonitoredValueType /\ net_stats'.offset = net_stats.offset
        /\ stats >= net_stats.offset + net_stats.value =>
             net_stats'.value = stats - net_stats.offset
    <3>1. net_stats \in MonitoredValueType /\ stats \in Nat
      BY <1>a
    <3>2. net_stats' = SetValue(net_stats, stats)
      BY <2>1
    <3> QED BY ONLY <3>1, <3>2, SetValueFacts
  <2>3. NetShape'
    BY <1>0, <1>b, <2>1, <2>2 DEF NetShape, Rest
  <2>4. Pending = stats
    <3>1. ToSet(todo) = {}
      BY <2>1 DEF ToSet
    <3> QED BY <1>a, <3>1, SumOverEmpty DEF Pending
  <2>5. Traffic' = Traffic
    BY <2>1 DEF Traffic
  <2>6. ASSUME ~spoiled
        PROVE  /\ opened <= net_stats.offset /\ net_stats.offset <= based /\ based <= Traffic
               /\ begun <= stats /\ stats <= Traffic
               /\ stats >= net_stats.offset + net_stats.value
    BY <1>a, <1>b, <2>1, <2>4, <2>6 DEF NetInv
  <2>7. ASSUME ~spoiled
        PROVE  /\ net_stats'.value \in Nat
               /\ net_stats'.offset + net_stats'.value = stats
    BY <1>a, <2>2, <2>6, <2>7
  <2> QED BY <1>a, <1>b, <2>1, <2>2, <2>3, <2>5, <2>6, <2>7 DEF NetInv
<1>9. CASE UNCHANGED netVars
  <2>1. /\ UNCHANGED <<bytes, network_if_streams, net_pc, todo, value_read, stats>>
        /\ UNCHANGED <<net_stats, opened, based, begun, ended, spoiled, present>>
    BY <1>9 DEF netVars
  <2> QED BY <1>2, <1>a, <2>1
<1> QED BY <1>1, <1>3, <1>4, <1>5, <1>6, <1>7, <1>8, <1>9 DEF NetSteps

LEMMA NetReports == NetInv => TrafficReported
<1> SUFFICES ASSUME NetInv, net_pc = "idle", ~spoiled
             PROVE  /\ net_stats.value >= begun - based
                    /\ net_stats.value <= (IF ended > opened THEN ended - opened ELSE 0)
  BY DEF TrafficReported
<1>1. /\ opened \in Nat /\ based \in Nat /\ begun \in Nat /\ ended \in Nat
      /\ net_stats.value \in Nat /\ net_stats.offset \in Nat
  BY DEF NetInv, NetShape, MonitoredValueType
<1>2. /\ opened <= net_stats.offset /\ net_stats.offset <= based
      /\ net_stats.value = 0 \/ net_stats.offset + net_stats.value <= ended
      /\ begun = 0 \/ begun <= net_stats.offset + net_stats.value
  BY DEF NetInv
<1> QED BY <1>1, <1>2

LEMMA RestSuffix == Rest => IsSuffix(todo, monitored_netdevs)
<1> SUFFICES ASSUME Rest PROVE IsSuffix(todo, monitored_netdevs)
  OBVIOUS
<1> DEFINE N == Len(monitored_netdevs)
           n == Len(todo)
           a == Reverse(todo)
           b == Reverse(monitored_netdevs)
<1>1. /\ todo \in Seq(Devices) /\ n \in Nat /\ N \in Nat /\ n <= N
      /\ \A i \in 1..n : todo[i] = monitored_netdevs[N - n + i]
      /\ monitored_netdevs \in Seq(Devices)
  BY DevicesAssumption DEF Rest
<1>2. /\ a \in Seq(Devices) /\ Len(a) = n /\ b \in Seq(Devices) /\ Len(b) = N
      /\ \A i \in 1..n : a[i] = todo[(n - i) + 1]
      /\ \A i \in 1..N : b[i] = monitored_netdevs[(N - i) + 1]
  BY <1>1 DEF Reverse
<1>3. \A i \in 1..n : a[i] = b[i]
  <2> TAKE i \in 1..n
  <2>1. (n - i) + 1 \in 1..n /\ i \in 1..N /\ N - n + ((n - i) + 1) = (N - i) + 1
    BY <1>1
  <2> QED BY <1>1, <1>2, <2>1
<1> HIDE DEF a, b
<1>4. SubSeq(a, 1, n) = SubSeq(b, 1, n)
  BY <1>1, <1>2, <1>3
<1> QED BY <1>1, <1>2, <1>4 DEF IsSuffix, IsPrefix, a, b

---------------------------------------------------------------------------
(* wallmon: floats.                                                        *)

ArePowers(f, n) == f = [k \in 0..n |-> IF k = 0 THEN 1 ELSE 2 * f[k - 1]]

LEMMA PowersExist ==
  ASSUME NEW n \in Nat
  PROVE  \E f : ArePowers(f, n)
<1> DEFINE S == {m \in Nat : \E f : ArePowers(f, m)}
<1>1. 0 \in S
  <2> DEFINE f == [k \in 0..0 |-> 1]
  <2>1. ArePowers(f, 0)
    BY DEF ArePowers
  <2> QED BY <2>1
<1>2. ASSUME NEW m \in 0..(n - 1), m \in S PROVE m + 1 \in S
  <2>1. PICK f : ArePowers(f, m)
    BY <1>2
  <2> DEFINE g == [k \in 0..(m + 1) |-> IF k = m + 1 THEN 2 * f[m] ELSE f[k]]
  <2>2. \A k \in 0..(m + 1) : g[k] = IF k = 0 THEN 1 ELSE 2 * g[k - 1]
    <3> SUFFICES ASSUME NEW k \in 0..(m + 1)
                 PROVE  g[k] = IF k = 0 THEN 1 ELSE 2 * g[k - 1]
      OBVIOUS
    <3>1. CASE k = m + 1
      BY <3>1
    <3>2. CASE k \in 0..m
      <4>1. f[k] = IF k = 0 THEN 1 ELSE 2 * f[k - 1]
        BY <2>1, <3>2 DEF ArePowers
      <4> QED BY <3>2, <4>1
    <3> QED BY <3>1, <3>2
  <2>3. ArePowers(g, m + 1)
    BY <2>2 DEF ArePowers
  <2> QED BY <2>3
<1>3. 0..n \subseteq S
  <2>1. \A k \in 0..(n - 1) : k \in S => k + 1 \in S
    BY <1>2
  <2> HIDE DEF S
  <2> QED BY <1>1, <2>1, UpTo
<1> QED BY <1>3

LEMMA PowersDef ==
  ASSUME NEW n \in Nat
  PROVE  /\ PowersOfTwo(n)[0] = 1
         /\ \A k \in 1..n : PowersOfTwo(n)[k] = 2 * PowersOfTwo(n)[k - 1]
<1>1. ArePowers(PowersOfTwo(n), n)
  <2>1. PowersOfTwo(n) = CHOOSE f : ArePowers(f, n)
    BY DEF PowersOfTwo, ArePowers
  <2> QED BY <2>1, PowersExist
<1>2. PICK f : f = PowersOfTwo(n)
  OBVIOUS
<1>3. f = [k \in 0..n |-> IF k = 0 THEN 1 ELSE 2 * f[k - 1]]
  BY <1>1, <1>2 DEF ArePowers
<1>4. f[0] = 1 /\ \A k \in 1..n : f[k] = 2 * f[k - 1]
  BY <1>3
<1> QED BY <1>2, <1>4

\* The powers are positive and grow, beyond their exponents.
LEMMA PowersGrow ==
  ASSUME NEW n \in Nat
  PROVE  \A k \in 0..n : /\ PowersOfTwo(n)[k] \in Nat
                         /\ PowersOfTwo(n)[k] > k
                         /\ \A j \in 0..k : PowersOfTwo(n)[j] <= PowersOfTwo(n)[k]
<1> DEFINE p == PowersOfTwo(n)
           S == {k \in 0..n : /\ p[k] \in Nat /\ p[k] > k
                               /\ \A j \in 0..k : p[j] \in Nat /\ p[j] <= p[k]}
<1>0. p[0] = 1 /\ \A k \in 1..n : p[k] = 2 * p[k - 1]
  BY PowersDef
<1> HIDE DEF p
<1>1. 0 \in S
  <2>1. \A j \in 0..0 : j = 0
    OBVIOUS
  <2> QED BY <1>0, <2>1
<1>2. ASSUME NEW k \in 0..(n - 1), k \in S PROVE k + 1 \in S
  <2>1. k + 1 \in 1..n /\ (k + 1) - 1 = k
    OBVIOUS
  <2>2. p[k + 1] = 2 * p[k] /\ p[k] \in Nat /\ p[k] > k
    BY <1>0, <1>2, <2>1
  <2>3. ASSUME NEW j \in 0..(k + 1) PROVE p[j] \in Nat /\ p[j] <= p[k + 1]
    <3>1. CASE j = k + 1
      BY <2>2, <3>1
    <3>2. CASE j \in 0..k
      <4>1. p[j] \in Nat /\ p[j] <= p[k]
        BY <1>2, <3>2
      <4> QED BY <2>2, <4>1
    <3> QED BY <3>1, <3>2
  <2> QED BY <2>1, <2>2, <2>3
<1>3. 0..n \subseteq S
  <2>1. \A k \in 0..(n - 1) : k \in S => k + 1 \in S
    BY <1>2
  <2> HIDE DEF S
  <2> QED BY <1>1, <2>1, UpTo
<1> QED BY <1>3 DEF p

LEMMA PowersAgree ==
  ASSUME NEW m \in Nat, NEW n \in Nat, m <= n
  PROVE  \A k \in 0..m : PowersOfTwo(m)[k] = PowersOfTwo(n)[k]
<1> DEFINE p == PowersOfTwo(m)
           q == PowersOfTwo(n)
           S == {k \in 0..m : p[k] = q[k]}
<1>0. /\ p[0] = 1 /\ \A k \in 1..m : p[k] = 2 * p[k - 1]
      /\ q[0] = 1 /\ \A k \in 1..n : q[k] = 2 * q[k - 1]
  BY PowersDef
<1> HIDE DEF p, q
<1>1. 0 \in S
  BY <1>0
<1>2. ASSUME NEW k \in 0..(m - 1), k \in S PROVE k + 1 \in S
  <2>1. k + 1 \in 1..m /\ k + 1 \in 1..n /\ (k + 1) - 1 = k
    OBVIOUS
  <2>2. p[k + 1] = 2 * p[k] /\ q[k + 1] = 2 * q[k]
    BY <1>0, <2>1
  <2> QED BY <1>2, <2>1, <2>2
<1>3. 0..m \subseteq S
  <2>1. \A k \in 0..(m - 1) : k \in S => k + 1 \in S
    BY <1>2
  <2> HIDE DEF S
  <2> QED BY <1>1, <2>1, UpTo
<1> QED BY <1>3 DEF p, q

LEMMA Scaled ==
  ASSUME NEW m \in Nat, NEW x \in Nat, NEW y \in Nat, x <= y
  PROVE  m * x \in Nat /\ m * x <= m * y
<1>1. PICK z \in Nat : y = x + z
  <2>1. y - x \in Nat /\ y = x + (y - x)
    OBVIOUS
  <2> QED BY <2>1
<1>2. m * y = m * x + m * z /\ m * x \in Nat /\ m * z \in Nat
  BY <1>1
<1> QED BY <1>2

\* Above this many units 1 / (CLK_TCK * Finest) s the floats lie further apart.
Exact == Significand * CLK_TCK

LEMMA WallNumbers ==
  /\ Exact \in Nat /\ Exact >= 1 /\ CLK_TCK \in Nat /\ CLK_TCK >= 1
  /\ Finest \in Nat /\ Finest >= 1 /\ StartTime \in Nat
  /\ \A t \in Nat : t * Finest \in Nat
<1>1. /\ Significand \in Nat /\ Significand >= 1 /\ CLK_TCK \in Nat /\ CLK_TCK >= 1
      /\ Finest \in Nat /\ Finest >= 1 /\ StartTime \in Nat
  BY WallAssumption
<1>2. Significand * 1 \in Nat /\ Significand * 1 <= Significand * CLK_TCK
  BY <1>1, Scaled
<1> QED BY <1>1, <1>2 DEF Exact

\* There is a distance for every time.
LEMMA StepFacts ==
  ASSUME NEW t \in Nat
  PROVE  /\ FloatStep(t) \in Nat /\ FloatStep(t) >= 1
         /\ \E k \in 0..(t * Finest) :
              /\ FloatStep(t) = PowersOfTwo(t * Finest)[k]
              /\ t * Finest < Exact * PowersOfTwo(t * Finest)[k]
              /\ k = 0 \/ t * Finest >= Exact * PowersOfTwo(t * Finest)[k - 1]
<1>0. PICK x \in Nat : x = t * Finest
  BY WallNumbers
<1> DEFINE p == PowersOfTwo(x)
           Fits(k) == x < Exact * p[k] /\ (k = 0 \/ x >= Exact * p[k - 1])
           T == {k \in 0..x : x < Exact * p[k]}
<1>1. \A k \in 0..x : p[k] \in Nat /\ p[k] > k
  BY PowersGrow
<1>2. FloatStep(t) = p[CHOOSE k \in 0..x : Fits(k)]
  BY <1>0 DEF FloatStep, Exact
<1> HIDE DEF p
<1>3. x \in T
  <2>1. x \in 0..x /\ p[x] \in Nat /\ p[x] > x
    BY <1>1
  <2>2. p[x] * 1 \in Nat /\ p[x] * 1 <= p[x] * Exact
    BY <2>1, WallNumbers, Scaled
  <2> QED BY <2>1, <2>2, WallNumbers
<1>4. PICK k \in T : \A j \in T : k <= j
  <2>1. T \in SUBSET Nat /\ T # {}
    BY <1>3
  <2> HIDE DEF T
  <2> QED BY <2>1, LeastNat
<1>5. k \in 0..x /\ Fits(k)
  <2>1. k \in 0..x /\ x < Exact * p[k]
    OBVIOUS
  <2>2. CASE k # 0
    <3>1. k - 1 \in 0..x /\ ~(k <= k - 1)
      BY <2>1, <2>2
    <3>2. k - 1 \notin T
      BY <1>4, <3>1
    <3>3. Exact * p[k - 1] \in Nat
      BY <1>1, <3>1, WallNumbers
    <3>4. x >= Exact * p[k - 1]
      BY <3>1, <3>2, <3>3
    <3> QED BY <2>1, <3>4
  <2> QED BY <2>1, <2>2
<1> HIDE DEF T, Fits
<1>6. PICK i : i = CHOOSE n \in 0..x : Fits(n)
  OBVIOUS
<1>7. i \in 0..x /\ Fits(i)
  BY <1>5, <1>6
<1>8. FloatStep(t) = p[i]
  BY <1>2, <1>6
<1>9. FloatStep(t) \in Nat /\ FloatStep(t) >= 1
  BY <1>1, <1>7, <1>8
<1> QED BY <1>0, <1>7, <1>8, <1>9 DEF Fits, p

\* Later times are never held more precisely.
LEMMA StepGrows ==
  ASSUME NEW c \in Nat, NEW u \in Nat, c <= u
  PROVE  FloatStep(c) <= FloatStep(u)
<1>1. PICK x \in Nat, y \in Nat : x = c * Finest /\ y = u * Finest
  BY WallNumbers
<1>2. x <= y
  BY <1>1, WallNumbers, Scaled
<1> DEFINE p == PowersOfTwo(y)
<1>3. PICK i \in 0..x : /\ FloatStep(c) = p[i]
                        /\ i = 0 \/ x >= Exact * p[i - 1]
  <2>1. PICK i \in 0..x : /\ FloatStep(c) = PowersOfTwo(x)[i]
                          /\ i = 0 \/ x >= Exact * PowersOfTwo(x)[i - 1]
    BY <1>1, StepFacts
  <2>2. PowersOfTwo(x)[i] = p[i]
    BY <1>2, PowersAgree
  <2>3. i = 0 \/ (i - 1 \in 0..x /\ PowersOfTwo(x)[i - 1] = p[i - 1])
    BY <1>2, PowersAgree
  <2> QED BY <2>1, <2>2, <2>3
<1>4. PICK j \in 0..y : FloatStep(u) = p[j] /\ y < Exact * p[j]
  BY <1>1, StepFacts
<1>5. \A k \in 0..y : p[k] \in Nat /\ \A l \in 0..k : p[l] <= p[k]
  BY PowersGrow
<1> HIDE DEF p
<1>6. CASE i <= j
  <2>1. i \in 0..j
    BY <1>6
  <2> QED BY <1>3, <1>4, <1>5, <2>1
<1>7. CASE i > j
  <2>1. i # 0 /\ i - 1 \in 0..y /\ j \in 0..(i - 1)
    BY <1>2, <1>7
  <2>2. p[j] \in Nat /\ p[i - 1] \in Nat /\ p[j] <= p[i - 1]
    BY <1>5, <2>1
  <2>3. /\ Exact * p[j] <= Exact * p[i - 1] /\ Exact * p[j] \in Nat
        /\ Exact * p[i - 1] \in Nat
    BY <2>2, WallNumbers, Scaled
  <2>4. x >= Exact * p[i - 1]
    BY <1>3, <2>1
  <2> QED BY <1>2, <1>4, <2>3, <2>4
<1> QED BY <1>6, <1>7

\* The quotient and the remainder.
LEMMA Division ==
  ASSUME NEW t \in Nat, NEW s \in Nat, s >= 1
  PROVE  /\ t \div s \in Nat /\ t % s \in Nat /\ t % s < s
         /\ t = s * (t \div s) + (t % s)
OBVIOUS

\* Rounding is off by at most half the distance.
LEMMA FloatFacts ==
  ASSUME NEW t \in Nat
  PROVE  /\ AsFloat(t) \in Nat
         /\ CLK_TCK * FloatStep(t) \in Nat /\ CLK_TCK * AsFloat(t) \in Nat
         /\ 2 * (CLK_TCK * AsFloat(t))
              <= 2 * (Finest * t) + CLK_TCK * FloatStep(t)
         /\ 2 * (Finest * t)
              <= 2 * (CLK_TCK * AsFloat(t)) + CLK_TCK * FloatStep(t)
<1>1. PICK p, x, d : p = FloatStep(t) /\ x = t * Finest /\ d = CLK_TCK * p
  OBVIOUS
<1>2. /\ p \in Nat /\ x \in Nat /\ Finest * t = x
      /\ d \in Nat /\ d >= 1 /\ CLK_TCK \in Nat
  <2>1. p \in Nat /\ p >= 1
    BY <1>1, StepFacts
  <2>2. CLK_TCK * 1 \in Nat /\ CLK_TCK * 1 <= CLK_TCK * p
    BY <2>1, WallNumbers, Scaled
  <2>3. x \in Nat /\ Finest * t = x
    BY <1>1, WallNumbers
  <2> QED BY <1>1, <2>1, <2>2, <2>3, WallNumbers
<1>3. PICK q \in Nat, m \in Nat : /\ q = x \div d /\ m = x % d
                                 /\ m < d /\ x = d * q + m
  <2>1. PICK q, m : q = x \div d /\ m = x % d
    OBVIOUS
  <2>2. q \in Nat /\ m \in Nat /\ m < d /\ x = d * q + m
    BY <1>2, <2>1, Division
  <2> QED BY <2>1, <2>2
<1>4. AsFloat(t) = (IF 2 * m > d \/ (2 * m = d /\ q % 2 = 1) THEN q + 1 ELSE q) * p
  BY <1>1, <1>3 DEF AsFloat
<1>5. PICK y \in Nat : y = d * q
  BY <1>2
<1>6. /\ q * p \in Nat /\ CLK_TCK * (q * p) = y
      /\ (q + 1) * p \in Nat /\ CLK_TCK * ((q + 1) * p) = y + d
  <2>1. \A i, j \in Nat : i * j \in Nat
    OBVIOUS
  <2>2. CLK_TCK * (q * p) = (CLK_TCK * p) * q
    BY ONLY <1>2
  <2>3. CLK_TCK * ((q + 1) * p) = (CLK_TCK * p) * q + CLK_TCK * p
    BY ONLY <1>2
  <2> QED BY <1>1, <1>2, <1>5, <2>1, <2>2, <2>3
<1>7. x = y + m
  BY <1>3, <1>5
<1>8. \/ AsFloat(t) = (q + 1) * p /\ 2 * m >= d
      \/ AsFloat(t) = q * p /\ 2 * m <= d
  <2>1. 2 * m \in Nat
    BY <1>3
  <2> QED BY ONLY <1>2, <1>4, <2>1
<1>9. PICK a : a = CLK_TCK * AsFloat(t)
  OBVIOUS
<1>10. /\ AsFloat(t) \in Nat
       /\ (a = y + d /\ 2 * m >= d) \/ (a = y /\ 2 * m <= d)
  BY ONLY <1>6, <1>8, <1>9
<1>11. a \in Nat /\ 2 * a <= 2 * x + d /\ 2 * x <= 2 * a + d
  BY ONLY <1>2, <1>3, <1>5, <1>7, <1>10
<1> QED BY <1>1, <1>2, <1>9, <1>10, <1>11

\* How far off wtime may be for an uptime of c; a tick counts 2 * Finest here.
Slack(c) == 2 * (Finest * CLK_TCK) + CLK_TCK * FloatStep(c)
NotAbove(v, c) ==
  2 * (Finest * (CLK_TCK * v)) + 2 * (Finest * StartTime) < 2 * (Finest * c) + Slack(c)
NotBelow(v, c) ==
  2 * (Finest * c) < 2 * (Finest * (CLK_TCK * v)) + 2 * (Finest * StartTime) + Slack(c)

\* Products of natural numbers.
LEMMA Products ==
  ASSUME NEW x \in Nat, NEW y \in Nat, NEW z \in Nat
  PROVE  /\ x * y \in Nat /\ x * (y + z) = x * y + x * z
         /\ x * (y * z) \in Nat /\ x * (y * z) = y * (x * z)
OBVIOUS

\* What one reading of the uptime says of the elapsed time.
LEMMA OneReading ==
  ASSUME NEW u \in Nat, NEW v \in Nat, NEW f, f = AsFloat(u) \div Finest
  PROVE  /\ f \in Nat /\ StartSeconds \in Nat
         /\ f >= StartSeconds + v => NotAbove(v, u)
         /\ f <= StartSeconds + v => NotBelow(v, u)
<1>1. PICK a, c, d, F, s : /\ a = AsFloat(u) /\ c = CLK_TCK /\ F = Finest
                           /\ d = CLK_TCK * FloatStep(u) /\ s = StartSeconds
  OBVIOUS
<1>2. c \in Nat /\ c >= 1 /\ F \in Nat /\ F >= 1 /\ StartTime \in Nat
  BY <1>1, WallNumbers
<1>3. /\ a \in Nat /\ d \in Nat /\ c * a \in Nat
      /\ 2 * (c * a) <= 2 * (F * u) + d /\ 2 * (F * u) <= 2 * (c * a) + d
  BY <1>1, FloatFacts
<1>4. PICK r \in Nat : f \in Nat /\ r < F /\ a = F * f + r
  <2>1. f = a \div F
    BY <1>1
  <2>2. PICK g, r : g = a \div F /\ r = a % F
    OBVIOUS
  <2>3. g \in Nat /\ r \in Nat /\ r < F /\ a = F * g + r
    BY ONLY <1>2, <1>3, <2>2, Division
  <2>4. f = g
    BY <2>1, <2>2
  <2> QED BY <2>3, <2>4
<1>5. PICK q \in Nat : s \in Nat /\ q < c /\ StartTime = c * s + q
  <2>1. PICK q : s = StartTime \div c /\ q = StartTime % c
    BY <1>1 DEF StartSeconds
  <2>2. s \in Nat /\ q \in Nat /\ q < c /\ StartTime = c * s + q
    BY <1>2, <2>1, Division
  <2> QED BY <2>2
<1>6. PICK X \in Nat, V \in Nat, S \in Nat, R \in Nat, Q \in Nat, W \in Nat :
        /\ X = F * (c * f) /\ V = F * (c * v) /\ S = F * (c * s)
        /\ R = c * r /\ Q = F * q /\ W = F * c
  BY <1>2, <1>4, <1>5, Products
<1>7. PICK A \in Nat, U \in Nat : A = c * a /\ U = F * u
  BY <1>2, <1>3, Products
<1>8. A = X + R
  <2>1. F * f \in Nat /\ c * (F * f) = F * (c * f)
    BY <1>2, <1>4, Products
  <2>2. c * (F * f + r) = c * (F * f) + c * r
    BY <1>2, <1>4, <2>1, Products
  <2> QED BY <1>4, <1>6, <1>7, <2>1, <2>2
<1>9. F * StartTime = S + Q
  <2>1. c * s \in Nat /\ F * (c * s + q) = F * (c * s) + F * q
    BY <1>2, <1>5, Products
  <2> QED BY <1>5, <1>6, <2>1
<1>10. R < W /\ Q < W
  <2>1. c * (r + 1) <= c * F /\ F * (q + 1) <= F * c
    <3>1. r + 1 \in Nat /\ r + 1 <= F /\ q + 1 \in Nat /\ q + 1 <= c
      BY <1>2, <1>4, <1>5
    <3> QED BY <1>2, <3>1, Scaled
  <2>2. c * (r + 1) = R + c /\ F * (q + 1) = Q + F /\ c * F = W
    BY ONLY <1>2, <1>6, r \in Nat, q \in Nat
  <2> QED BY <1>2, <2>1, <2>2
<1>11. F * (c * (s + v)) = S + V
  <2>1. c * s \in Nat /\ c * v \in Nat /\ c * (s + v) = c * s + c * v
    BY <1>2, <1>5, Products
  <2>2. F * (c * s + c * v) = F * (c * s) + F * (c * v)
    BY <1>2, <2>1, Products
  <2> QED BY <1>6, <2>1, <2>2
<1>12. /\ f >= s + v => S + V <= X
       /\ f <= s + v => X <= S + V
  <2>1. s + v \in Nat /\ c * (s + v) \in Nat /\ c * f \in Nat
    BY <1>2, <1>4, <1>5
  <2>2. ASSUME f >= s + v PROVE S + V <= X
    <3>1. c * (s + v) <= c * f
      BY <1>2, <1>4, <2>1, <2>2, Scaled
    <3>2. F * (c * (s + v)) <= F * (c * f)
      BY <1>2, <2>1, <3>1, Scaled
    <3> QED BY <1>6, <1>11, <3>2
  <2>3. ASSUME f <= s + v PROVE X <= S + V
    <3>1. c * f <= c * (s + v)
      BY <1>2, <1>4, <2>1, <2>3, Scaled
    <3>2. F * (c * f) <= F * (c * (s + v))
      BY <1>2, <2>1, <3>1, Scaled
    <3> QED BY <1>6, <1>11, <3>2
  <2> QED BY <2>2, <2>3
<1>13. /\ NotAbove(v, u) <=> 2 * V + 2 * (S + Q) < 2 * U + (2 * W + d)
       /\ NotBelow(v, u) <=> 2 * U < 2 * V + 2 * (S + Q) + (2 * W + d)
  BY <1>1, <1>6, <1>7, <1>9 DEF NotAbove, NotBelow, Slack
<1>14. 2 * A <= 2 * U + d /\ 2 * U <= 2 * A + d
  BY <1>3, <1>7
<1>15. ASSUME f >= s + v PROVE NotAbove(v, u)
  <2>1. S + V <= X
    BY <1>12, <1>15
  <2>2. 2 * V + 2 * (S + Q) < 2 * U + (2 * W + d)
    BY ONLY <1>3, <1>8, <1>10, <1>14, <2>1, V \in Nat, S \in Nat, Q \in Nat,
            W \in Nat, X \in Nat, R \in Nat, U \in Nat, A \in Nat
  <2> QED BY <1>13, <2>2
<1>16. ASSUME f <= s + v PROVE NotBelow(v, u)
  <2>1. X <= S + V
    BY <1>12, <1>16
  <2>2. 2 * U < 2 * V + 2 * (S + Q) + (2 * W + d)
    BY ONLY <1>3, <1>8, <1>10, <1>14, <2>1, V \in Nat, S \in Nat, Q \in Nat,
            W \in Nat, X \in Nat, R \in Nat, U \in Nat, A \in Nat
  <2> QED BY <1>13, <2>2
<1> QED BY <1>1, <1>4, <1>5, <1>15, <1>16

\* A value that was not too large is not too large later.
LEMMA StillNotAbove ==
  ASSUME NEW v \in Nat, NEW c \in Nat, NEW u \in Nat, c <= u, NotAbove(v, c)
  PROVE  NotAbove(v, u)
<1>1. /\ CLK_TCK \in Nat /\ Finest \in Nat /\ StartTime \in Nat
      /\ FloatStep(c) \in Nat /\ FloatStep(u) \in Nat
  BY WallNumbers, StepFacts
<1>2. PICK a, b, x, y, w, z :
        /\ a = CLK_TCK * FloatStep(c) /\ b = CLK_TCK * FloatStep(u)
        /\ x = Finest * c /\ y = Finest * u /\ w = Finest * CLK_TCK
        /\ z = 2 * (Finest * (CLK_TCK * v)) + 2 * (Finest * StartTime)
  OBVIOUS
<1>3. a \in Nat /\ b \in Nat /\ x \in Nat /\ y \in Nat /\ w \in Nat /\ z \in Nat
  <2>1. Finest * (CLK_TCK * v) \in Nat /\ Finest * StartTime \in Nat
    BY <1>1, Products
  <2> QED BY <1>1, <1>2, <2>1, Products
<1>4. a <= b
  BY <1>1, <1>2, StepGrows, Scaled
<1>5. x <= y
  BY <1>1, <1>2, Scaled
<1>6. z < 2 * x + (2 * w + a)
  BY <1>2 DEF NotAbove, Slack
<1>7. z < 2 * y + (2 * w + b)
  BY ONLY <1>3, <1>4, <1>5, <1>6
<1> QED BY <1>2, <1>7 DEF NotAbove, Slack

\* Until the start of the mother is known nothing is measured; afterwards the
\* offset is the start, and wtime fits the last reading, also when set_value
\* refused it because rounding took it below the one before.
WallInv ==
  /\ WallTypeOK /\ wtime.monotonic
  /\ StartTime <= clocked /\ clocked <= uptime
  /\ ~misled =>
     /\ got_mother_starttime =>
          /\ wtime.offset = StartSeconds
          /\ NotAbove(wtime.value, clocked) /\ NotBelow(wtime.value, clocked)
     /\ ~got_mother_starttime => wtime.value = 0 /\ clocked = StartTime

WallSteps ==
  \/ WallTick \/ ListProcesses \/ UNCHANGED wallVars
  \/ \E stat_ok, uptime_ok \in BOOLEAN : WallUpdate(stat_ok, uptime_ok)

LEMMA WallInitInv == WallInit => WallInv
<1> SUFFICES ASSUME WallInit PROVE WallInv
  OBVIOUS
<1>1. StartTime \in Nat
  BY WallAssumption
<1>2. wtime \in MonitoredValueType /\ wtime.monotonic /\ wtime.value = 0
  BY NewValueType DEF WallInit
<1>3. /\ uptime \in Nat /\ clocked \in Nat /\ StartTime <= clocked /\ clocked <= uptime
      /\ clocked = StartTime
  BY <1>1 DEF WallInit
<1>4. /\ modern_kernel \in BOOLEAN /\ listed \in BOOLEAN /\ ~got_mother_starttime
      /\ got_mother_starttime \in BOOLEAN /\ misled \in BOOLEAN
  BY DEF WallInit
<1> QED BY <1>2, <1>3, <1>4 DEF WallInv, WallTypeOK

\* A value of zero fits the start of the mother.
LEMMA ZeroAtStart == NotAbove(0, StartTime) /\ NotBelow(0, StartTime)
<1>1. /\ CLK_TCK \in Nat /\ CLK_TCK >= 1 /\ Finest \in Nat /\ Finest >= 1
      /\ StartTime \in Nat /\ FloatStep(StartTime) \in Nat
  BY WallNumbers, StepFacts
<1>2. PICK a, x, w : /\ a = CLK_TCK * FloatStep(StartTime)
                     /\ x = Finest * StartTime /\ w = Finest * CLK_TCK
  OBVIOUS
<1>3. a \in Nat /\ x \in Nat /\ w \in Nat /\ w >= 1
  <2>1. Finest * 1 <= Finest * CLK_TCK
    BY <1>1, Scaled
  <2> QED BY <1>1, <1>2, <2>1, Products
<1>4. Finest * (CLK_TCK * 0) = 0
  BY <1>1
<1>5. 2 * 0 + 2 * x < 2 * x + (2 * w + a) /\ 2 * x < 2 * 0 + 2 * x + (2 * w + a)
  BY ONLY <1>3
<1> QED BY <1>2, <1>4, <1>5 DEF NotAbove, NotBelow, Slack

LEMMA WallStep == WallInv /\ WallSteps => WallInv'
<1> SUFFICES ASSUME WallInv, WallSteps PROVE WallInv'
  OBVIOUS
<1>0. /\ uptime \in Nat /\ modern_kernel \in BOOLEAN /\ listed \in BOOLEAN
      /\ got_mother_starttime \in BOOLEAN /\ wtime \in MonitoredValueType
      /\ misled \in BOOLEAN /\ clocked \in Nat
      /\ StartTime \in Nat /\ StartTime <= clocked /\ clocked <= uptime
  BY WallAssumption DEF WallInv, WallTypeOK
<1>1. CASE WallTick
  <2>1. uptime' \in Nat /\ clocked <= uptime'
    BY <1>0, <1>1 DEF WallTick
  <2>2. /\ modern_kernel' = modern_kernel /\ listed' = listed /\ misled' = misled
        /\ got_mother_starttime' = got_mother_starttime /\ wtime' = wtime
        /\ clocked' = clocked
    BY <1>1 DEF WallTick
  <2> QED BY <2>1, <2>2 DEF WallInv, WallTypeOK, NotAbove, NotBelow, Slack
<1>2. CASE ListProcesses
  <2>1. listed' \in BOOLEAN
    BY <1>2 DEF ListProcesses
  <2>2. /\ modern_kernel' = modern_kernel /\ uptime' = uptime /\ misled' = misled
        /\ got_mother_starttime' = got_mother_starttime /\ wtime' = wtime
        /\ clocked' = clocked
    BY <1>2 DEF ListProcesses
  <2> QED BY <2>1, <2>2 DEF WallInv, WallTypeOK, NotAbove, NotBelow, Slack
<1>3. CASE UNCHANGED wallVars
  BY <1>3 DEF WallInv, WallTypeOK, wallVars, NotAbove, NotBelow, Slack
<1>4. ASSUME NEW stat_ok \in BOOLEAN, NEW uptime_ok \in BOOLEAN,
             WallUpdate(stat_ok, uptime_ok)
      PROVE  WallInv'
  <2> DEFINE asks == ~got_mother_starttime /\ listed
             set  == ~(asks /\ ~stat_ok) /\ uptime_ok
             f    == AsFloat(uptime) \div Finest
  <2>1. PICK w : w = IF asks /\ stat_ok THEN SetOffset(wtime, StartSeconds) ELSE wtime
    OBVIOUS
  <2>2. /\ got_mother_starttime' = (got_mother_starttime \/ (asks /\ stat_ok))
        /\ wtime' = IF set THEN SetValue(w, f) ELSE w
        /\ clocked' = IF set THEN uptime ELSE clocked
        /\ misled' = (misled \/ (set /\ ~got_mother_starttime'))
        /\ uptime' = uptime /\ modern_kernel' = modern_kernel /\ listed' = listed
    BY <1>4, <2>1 DEF WallUpdate
  <2>3. f \in Nat /\ StartSeconds \in Nat
    BY <1>0, OneReading, 0 \in Nat
  <2>4. /\ w \in MonitoredValueType /\ w.monotonic /\ w.value = wtime.value
        /\ w.value \in Nat /\ w.offset \in Nat
        /\ asks /\ stat_ok => w.offset = StartSeconds
        /\ ~(asks /\ stat_ok) => w = wtime
    <3>1. SetOffset(wtime, StartSeconds) \in MonitoredValueType
      BY <1>0, <2>3 DEF SetOffset, MonitoredValueType
    <3>2. /\ SetOffset(wtime, StartSeconds).monotonic = wtime.monotonic
          /\ SetOffset(wtime, StartSeconds).value = wtime.value
          /\ SetOffset(wtime, StartSeconds).offset = StartSeconds
      BY <1>0 DEF SetOffset, MonitoredValueType
    <3>3. w \in MonitoredValueType
      BY <1>0, <2>1, <3>1
    <3>4. w.value \in Nat /\ w.offset \in Nat
      BY <3>3 DEF MonitoredValueType
    <3> QED BY <2>1, <3>2, <3>3, <3>4 DEF WallInv
  <2> HIDE DEF asks, set, f
  <2>5. PICK new : new = SetValue(w, f)
    OBVIOUS
  <2>6. /\ new \in MonitoredValueType /\ new.offset = w.offset /\ new.monotonic
        /\ new.value \in Nat
        /\ \/ f >= w.offset /\ new.value = f - w.offset
           \/ new.value = w.value /\ f <= w.offset + w.value
    <3>1. /\ new \in MonitoredValueType /\ new.offset = w.offset
          /\ new.monotonic = w.monotonic
          /\ new.value = w.value \/ (f >= w.offset /\ new.value = f - w.offset)
          /\ w.monotonic /\ new.value = w.value => f <= w.offset + w.value
      <4>1. w \in MonitoredValueType /\ f \in Nat
        BY <2>3, <2>4
      <4> QED BY ONLY <2>5, <4>1, SetValueFacts
    <3>2. new.value \in Nat
      BY <3>1 DEF MonitoredValueType
    <3> QED BY <2>4, <3>1, <3>2
  <2>7. WallTypeOK' /\ wtime'.monotonic
    <3>1. wtime' \in MonitoredValueType /\ wtime'.monotonic
      BY <2>2, <2>4, <2>5, <2>6
    <3>2. got_mother_starttime' \in BOOLEAN /\ misled' \in BOOLEAN /\ clocked' \in Nat
      BY <1>0, <2>2
    <3> QED BY <1>0, <2>2, <3>1, <3>2 DEF WallTypeOK
  <2>8. StartTime <= clocked' /\ clocked' <= uptime'
    BY <1>0, <2>2
  <2>9. ASSUME ~misled', got_mother_starttime'
        PROVE  /\ wtime'.offset = StartSeconds
               /\ NotAbove(wtime'.value, clocked') /\ NotBelow(wtime'.value, clocked')
    <3>1. /\ ~misled /\ w.offset = StartSeconds
          /\ NotAbove(w.value, clocked) /\ NotBelow(w.value, clocked)
      <4>0. ~misled
        BY <2>2, <2>9
      <4>1. CASE got_mother_starttime
        <5>1. w = wtime
          BY <2>4, <4>1 DEF asks
        <5> QED BY <4>0, <4>1, <5>1 DEF WallInv
      <4>2. CASE ~got_mother_starttime
        <5>1. asks /\ stat_ok
          BY <2>2, <2>9, <4>2
        <5>2. w.value = 0 /\ clocked = StartTime
          BY <2>4, <4>0, <4>2 DEF WallInv
        <5> QED BY <2>4, <4>0, <5>1, <5>2, ZeroAtStart
      <4> QED BY <4>1, <4>2
    <3>2. CASE ~set
      BY <2>2, <3>1, <3>2
    <3>3. CASE set
      <4>1. wtime' = new /\ clocked' = uptime
        BY <2>2, <2>5, <3>3
      <4>2. /\ f >= StartSeconds + new.value => NotAbove(new.value, uptime)
            /\ f <= StartSeconds + new.value => NotBelow(new.value, uptime)
        BY <1>0, <2>6, OneReading DEF f
      <4>3. CASE f >= w.offset /\ new.value = f - w.offset
        <5>1. f = StartSeconds + new.value
          BY <2>3, <3>1, <4>3
        <5>2. f \in Nat /\ StartSeconds + new.value \in Nat
          BY <2>3, <2>6
        <5>3. f >= StartSeconds + new.value /\ f <= StartSeconds + new.value
          BY <5>1, <5>2
        <5> QED BY <2>6, <3>1, <4>1, <4>2, <5>3
      <4>4. CASE new.value = w.value /\ f <= w.offset + w.value
        <5>1. NotBelow(new.value, uptime)
          BY <3>1, <4>2, <4>4
        <5>2. NotAbove(new.value, uptime)
          BY <1>0, <2>4, <3>1, <4>4, StillNotAbove
        <5> QED BY <2>6, <3>1, <4>1, <5>1, <5>2
      <4> QED BY <2>6, <4>3, <4>4
    <3> QED BY <3>2, <3>3
  <2>10. ASSUME ~misled', ~got_mother_starttime'
         PROVE  wtime'.value = 0 /\ clocked' = StartTime
    <3>1. ~misled /\ ~got_mother_starttime /\ ~(asks /\ stat_ok) /\ ~set
      BY <2>2, <2>10
    <3>2. wtime.value = 0 /\ clocked = StartTime
      BY <3>1 DEF WallInv
    <3> QED BY <2>2, <2>4, <3>1, <3>2
  <2>11. /\ NotAbove(wtime.value, clocked)' <=> NotAbove(wtime'.value, clocked')
         /\ NotBelow(wtime.value, clocked)' <=> NotBelow(wtime'.value, clocked')
         /\ StartSeconds' = StartSeconds
    BY DEF NotAbove, NotBelow, Slack, StartSeconds
  <2> QED BY <2>7, <2>8, <2>9, <2>10, <2>11 DEF WallInv
<1> QED BY <1>1, <1>2, <1>3, <1>4 DEF WallSteps

LEMMA WallReports == WallInv => WtimeIsElapsed
<1> SUFFICES ASSUME WallInv, got_mother_starttime, ~misled
             PROVE  LET error == wtime.value * CLK_TCK - (clocked - StartTime)
                        slack == 2 * Finest * CLK_TCK + CLK_TCK * FloatStep(clocked)
                    IN  -slack < 2 * Finest * error /\ 2 * Finest * error < slack
  BY DEF WtimeIsElapsed
<1>1. /\ clocked \in Nat /\ wtime.value \in Nat /\ CLK_TCK \in Nat /\ StartTime \in Nat
      /\ Finest \in Nat /\ FloatStep(clocked) \in Nat
  <2>1. clocked \in Nat /\ wtime.value \in Nat
    BY DEF WallInv, WallTypeOK, MonitoredValueType
  <2> QED BY <2>1, WallNumbers, StepFacts
<1>2. PICK v, x, y, z, d : /\ v = wtime.value * CLK_TCK
                           /\ x = Finest * v /\ y = Finest * StartTime
                           /\ z = Finest * clocked
                           /\ d = 2 * (Finest * CLK_TCK) + CLK_TCK * FloatStep(clocked)
  OBVIOUS
<1>3. v \in Nat /\ x \in Nat /\ y \in Nat /\ z \in Nat /\ d \in Nat
  <2>1. v \in Nat
    BY <1>1, <1>2, Products
  <2>2. x \in Nat /\ y \in Nat /\ z \in Nat
    BY <1>1, <1>2, <2>1, Products
  <2>3. Finest * CLK_TCK \in Nat /\ CLK_TCK * FloatStep(clocked) \in Nat
    BY <1>1, Products
  <2> QED BY <1>2, <2>1, <2>2, <2>3
<1>4. x = Finest * (CLK_TCK * wtime.value)
  BY <1>1, <1>2
<1>5. 2 * x + 2 * y < 2 * z + d /\ 2 * z < 2 * x + 2 * y + d
  BY <1>2, <1>4 DEF WallInv, NotAbove, NotBelow, Slack
<1>6. 2 * Finest * (v - (clocked - StartTime)) = 2 * x - 2 * z + 2 * y
  <2>1. Finest * (v - (clocked - StartTime))
          = Finest * v - Finest * clocked + Finest * StartTime
    BY ONLY <1>1, <1>3
  <2>2. 2 * Finest * (v - (clocked - StartTime))
          = 2 * (Finest * (v - (clocked - StartTime)))
    BY ONLY <1>1, <1>3
  <2> QED BY <1>2, <1>3, <2>1, <2>2
<1>7. 2 * Finest * CLK_TCK + CLK_TCK * FloatStep(clocked) = d
  BY <1>1, <1>2
<1>8. -d < 2 * x - 2 * z + 2 * y /\ 2 * x - 2 * z + 2 * y < d
  BY ONLY <1>3, <1>5
<1> QED BY <1>2, <1>6, <1>7, <1>8

---------------------------------------------------------------------------
(* Both, in the samples of ProcessMonitor.                                 *)

LoopTypeOK ==
  /\ updating \subseteq {"wallmon", "netmon"} /\ averaged \in BOOLEAN
  /\ average.num \in Nat /\ average.den \in Nat \ {0} /\ samples \in Nat

RatesInv == WallInv /\ NetInv /\ LoopTypeOK

LEMMA RatesInit == Init => RatesInv
<1> SUFFICES ASSUME Init PROVE RatesInv
  OBVIOUS
<1>1. WallInv /\ NetInv
  BY WallInitInv, NetInitInv DEF Init
<1>2. LoopTypeOK
  BY DEF Init, LoopTypeOK
<1> QED BY <1>1, <1>2 DEF RatesInv

\* In the loop, wallmon and netmon take the steps they take alone.
LEMMA RatesSteps == [Next]_vars => WallSteps /\ NetSteps
<1> SUFFICES ASSUME [Next]_vars PROVE WallSteps /\ NetSteps
  OBVIOUS
<1>1. CASE World
  BY <1>1 DEF World, WallSteps, NetSteps
<1>2. CASE Construct
  BY <1>2 DEF Construct, WallSteps, NetSteps, wallVars
<1>3. CASE StartSample
  BY <1>3 DEF StartSample, WallSteps, NetSteps, netVars
<1>4. CASE UpdateWallmon
  BY <1>4 DEF UpdateWallmon, WallSteps, NetSteps, netVars
<1>5. CASE UpdateNetmon
  BY <1>5 DEF UpdateNetmon, WallSteps, NetSteps, wallVars
<1>6. CASE ReadNextDevice
  BY <1>6 DEF ReadNextDevice, WallSteps, NetSteps, wallVars
<1>7. CASE Average
  BY <1>7 DEF Average, WallSteps, NetSteps, wallVars, netVars
<1>8. CASE Terminated \/ UNCHANGED vars
  BY <1>8 DEF Terminated, vars, WallSteps, NetSteps, wallVars, netVars
<1> QED BY <1>1, <1>2, <1>3, <1>4, <1>5, <1>6, <1>7, <1>8 DEF Next

LEMMA LoopStep == RatesInv /\ [Next]_vars => LoopTypeOK'
<1> SUFFICES ASSUME RatesInv, [Next]_vars PROVE LoopTypeOK'
  OBVIOUS
<1>0. LoopTypeOK
  BY DEF RatesInv
<1>1. CASE World
  BY <1>0, <1>1 DEF World, LoopTypeOK, loopVars
<1>2. CASE Construct
  BY <1>0, <1>2 DEF Construct, LoopTypeOK, loopVars
<1>3. CASE StartSample
  <2>1. updating' = {"wallmon", "netmon"} /\ averaged' = FALSE /\ average' = average
    BY <1>3 DEF StartSample
  <2>2. samples' \in Nat
    BY <1>0, <1>3 DEF StartSample, LoopTypeOK
  <2> QED BY <1>0, <2>1, <2>2 DEF LoopTypeOK
<1>4. CASE UpdateWallmon
  BY <1>0, <1>4 DEF UpdateWallmon, LoopTypeOK
<1>5. CASE UpdateNetmon
  BY <1>0, <1>5 DEF UpdateNetmon, LoopTypeOK
<1>6. CASE ReadNextDevice
  BY <1>0, <1>6 DEF ReadNextDevice, LoopTypeOK, loopVars
<1>7. CASE Average
  <2>1. net_stats.value \in Nat /\ wtime.value \in Nat /\ CLK_TCK \in Nat
    BY WallAssumption
    DEF RatesInv, NetInv, NetShape, WallInv, WallTypeOK, MonitoredValueType
  <2>2. get_wallclock_t \in Nat \ {0}
    BY <2>1 DEF get_wallclock_t
  <2>3. net_stats.value * CLK_TCK \in Nat
    BY <2>1
  <2>4. average' = [num |-> net_stats.value * CLK_TCK, den |-> get_wallclock_t]
    BY <1>7 DEF Average, get_json_average_stats
  <2>5. average'.num \in Nat /\ average'.den \in Nat \ {0}
    BY <2>2, <2>3, <2>4
  <2>6. updating' = updating /\ averaged' \in BOOLEAN /\ samples' = samples
    BY <1>7 DEF Average
  <2> QED BY <1>0, <2>5, <2>6 DEF LoopTypeOK
<1>8. CASE Terminated \/ UNCHANGED vars
  BY <1>0, <1>8 DEF Terminated, vars, LoopTypeOK, loopVars
<1> QED BY <1>1, <1>2, <1>3, <1>4, <1>5, <1>6, <1>7, <1>8 DEF Next

LEMMA RatesInvariant == Spec => []RatesInv
<1>1. RatesInv /\ [Next]_vars => RatesInv'
  BY RatesSteps, WallStep, NetStep, LoopStep DEF RatesInv
<1> QED BY <1>1, RatesInit, PTL DEF Spec

\* The variables of wallmon, netmon and the loop keep their types; above all
\* the time an average is divided by is never zero (wallmon.cpp:82-87).
THEOREM RatesTypeCorrect == Spec => []TypeOK
<1>1. RatesInv => TypeOK
  <2> SUFFICES ASSUME RatesInv PROVE TypeOK
    OBVIOUS
  <2>1. WallTypeOK /\ NetShape /\ LoopTypeOK
    BY DEF RatesInv, WallInv, NetInv
  <2>2. NetTypeOK
    BY <2>1, RestSuffix DEF NetShape, NetTypeOK
  <2> QED BY <2>1, <2>2 DEF TypeOK, LoopTypeOK
<1> QED BY <1>1, RatesInvariant, PTL

\* wtime is the time since the start of the mother, to less than a second and
\* the rounding of a float, for every clock rate and uptime, whatever files
\* were unreadable before and although set_value refuses a reading that
\* rounding took below the one before (wallmon.cpp:57-80).
THEOREM WtimeCorrect == Spec => []WtimeIsElapsed
<1>1. RatesInv => WtimeIsElapsed
  BY WallReports DEF RatesInv
<1> QED BY <1>1, RatesInvariant, PTL

\* For any number of devices, traffic that goes on while they are read one
\* after the other is reported, at least what came between the reads and at
\* most what came from the first to the last of them (netmon.cpp:85-95,
\* 120-132).
THEOREM TrafficCorrect == Spec => []TrafficReported
<1>1. RatesInv => TrafficReported
  BY NetReports DEF RatesInv
<1> QED BY <1>1, RatesInvariant, PTL

---------------------------------------------------------------------------
(* The NUMA part of cpumon.                                                *)

NumaShape ==
  /\ place \in [Tids -> Places] /\ pages \in [Procs -> [Nodes -> Nat]]
  /\ pc \in {"idle", "threads", "memory"} /\ list \in SUBSET Procs
  /\ pids \in SUBSET Procs /\ tids \in SUBSET Tids
  /\ last_seen_node \in [Tids -> Nodes \cup {None}]
  /\ nodes_seen \in SUBSET visited /\ visited \in SUBSET Nodes
  /\ node_pages \in [Nodes -> Nat] /\ mem_nodes_seen \in SUBSET Nodes
  /\ numa_migrations \in Nat /\ numa_mem_migrations \in Nat
  /\ moves \in Nat /\ reuses \in Nat /\ changes \in Nat /\ ties \in Nat
  /\ counted \in SUBSET Procs /\ turnover \in Nat

\* Threads that a sample would find on another node than the sample before.
Owed == {t \in Tids : /\ last_seen_node[t] # None /\ place[t] # None
                      /\ place[t] # last_seen_node[t]}

\* Every migration counted, and every one that is owed, has been paid for by
\* a move or by the new use of an identifier.
ThreadInv ==
  /\ numa_migrations + Cardinality(Owed) <= moves + reuses
  /\ \A t \in Tids : /\ last_seen_node[t] # None => t \in used
                     /\ place[t] # None => t \in used
                     /\ place[t] \in Nodes => place[t] \in visited

LEMMA NumaSets ==
  /\ None \notin Nodes /\ Unmapped \notin Nodes /\ Unmapped # None
  /\ \A S \in SUBSET Tids : IsFiniteSet(S) /\ Cardinality(S) \in Nat
  /\ \A S \in SUBSET Procs : IsFiniteSet(S) /\ Cardinality(S) \in Nat
  /\ \A S \in SUBSET Nodes : IsFiniteSet(S) /\ Cardinality(S) \in Nat
<1>1. None \notin Nodes /\ Unmapped \notin Nodes /\ Unmapped # None
  BY NodesAssumption DEF None, Unmapped
<1>2. IsFiniteSet(Tids) /\ IsFiniteSet(Procs) /\ IsFiniteSet(Nodes)
  BY ThreadsAssumption, NodesAssumption
<1> QED BY <1>1, <1>2, FS_Subset, FS_CardinalityType

\* The steps of the scans and of the world, as far as the shape goes.
LEMMA NumaShapeInit == NumaInit => NumaShape
<1> SUFFICES ASSUME NumaInit PROVE NumaShape
  OBVIOUS
<1>1. place \in [Tids -> Places]
  BY DEF NumaInit, Places
<1>2. pages \in [Procs -> [Nodes -> Nat]]
  BY NumaBoundsAssumption DEF NumaInit
<1>3. last_seen_node \in [Tids -> Nodes \cup {None}]
  BY DEF NumaInit
<1>4. node_pages \in [Nodes -> Nat]
  BY DEF NumaInit
<1>5. /\ nodes_seen \in SUBSET visited /\ visited \in SUBSET Nodes
      /\ mem_nodes_seen \in SUBSET Nodes /\ pids \in SUBSET Procs /\ tids \in SUBSET Tids
      /\ list \in SUBSET Procs /\ counted \in SUBSET Procs
  BY DEF NumaInit
<1>6. /\ numa_migrations \in Nat /\ numa_mem_migrations \in Nat
      /\ moves \in Nat /\ reuses \in Nat /\ changes \in Nat /\ ties \in Nat
      /\ turnover \in Nat /\ pc \in {"idle", "threads", "memory"}
  BY DEF NumaInit
<1> QED BY <1>1, <1>2, <1>3, <1>4, <1>5, <1>6 DEF NumaShape

LEMMA NumaShapeStep == NumaShape /\ ThreadInv /\ [NumaNext]_numaVars => NumaShape'
<1> SUFFICES ASSUME NumaShape, ThreadInv, [NumaNext]_numaVars PROVE NumaShape'
  OBVIOUS
<1> USE DEF NumaShape
<1>1. CASE StartLocality
  <2>1. list' \in SUBSET Procs /\ pids' \in SUBSET Procs
    BY <1>1 DEF StartLocality
  <2> QED BY <1>1, <2>1
          DEF StartLocality, threadVars, memVars, countVars, Quiet, worldVars, histVars
<1>2. CASE EndThreads
  <2>1. node_pages' \in [Nodes -> Nat]
    BY <1>2 DEF EndThreads
  <2>2. turnover' \in Nat
    <3>1. PICK k : k = Cardinality(counted \ list)
      OBVIOUS
    <3>2. k \in Nat
      <4>1. counted \ list \in SUBSET Procs
        OBVIOUS
      <4> QED BY <3>1, <4>1, NumaSets
    <3>3. turnover' = turnover + k
      BY <1>2, <3>1 DEF EndThreads
    <3> QED BY <3>2, <3>3
  <2>3. counted' \in SUBSET Procs /\ pids' \in SUBSET Procs /\ list' \in SUBSET Procs
    BY <1>2 DEF EndThreads
  <2> QED BY <1>2, <2>1, <2>2, <2>3 DEF EndThreads, threadVars, Quiet, worldVars, histVars
<1>3. CASE EndMemory
  <2>1. numa_mem_migrations' \in Nat /\ ties' \in Nat
    BY <1>3 DEF EndMemory
  <2>2. mem_nodes_seen' \in SUBSET Nodes
    BY <1>3 DEF EndMemory, Present
  <2> QED BY <1>3, <2>1, <2>2
          DEF EndMemory, threadVars, countVars, Quiet, worldVars, histVars
<1>4. CASE NumaTerminated \/ UNCHANGED numaVars
  BY <1>4 DEF NumaTerminated, numaVars, threadVars, memVars, countVars, worldVars, histVars
<1>5. ASSUME NEW p \in Procs, ListThreads(p) PROVE NumaShape'
  BY <1>5 DEF ListThreads, threadVars, memVars, countVars, Quiet, worldVars, histVars
<1>6. ASSUME NEW p \in Procs, NEW readable \in BOOLEAN, ReadNumaMaps(p, readable)
      PROVE  NumaShape'
  <2>1. node_pages' \in [Nodes -> Nat]
    BY <1>6 DEF ReadNumaMaps
  <2>2. counted' \in SUBSET Procs /\ turnover' \in Nat
    BY <1>6 DEF ReadNumaMaps
  <2> QED BY <1>6, <2>1, <2>2 DEF ReadNumaMaps, threadVars, Quiet, worldVars, histVars
<1>7. ASSUME NEW t \in Tids, ReadThread(t) PROVE NumaShape'
  <2>1. /\ numa_migrations' \in Nat /\ nodes_seen' \in SUBSET visited
        /\ last_seen_node' \in [Tids -> Nodes \cup {None}]
    BY <1>7 DEF ReadThread, threadVars, ThreadInv
  <2> QED BY <1>7, <2>1 DEF ReadThread, memVars, countVars, Quiet, worldVars, histVars
<1>8. ASSUME NEW t \in Tids, ThreadEnds(t) PROVE NumaShape'
  <2>1. place' \in [Tids -> Places]
    BY <1>8 DEF ThreadEnds, Places
  <2> QED BY <1>8, <2>1 DEF ThreadEnds, Event, threadVars, memVars, countVars, histVars
<1>9. ASSUME NEW t \in Tids, NEW n \in Nodes, ThreadStarts(t, n) PROVE NumaShape'
  <2>1. place' \in [Tids -> Places] /\ reuses' \in Nat
    BY <1>9 DEF ThreadStarts, Places
  <2> QED BY <1>9, <2>1 DEF ThreadStarts, Event, threadVars, memVars, countVars
<1>10. ASSUME NEW t \in Tids, NEW q \in Nodes \cup {Unmapped}, ThreadMoves(t, q)
       PROVE  NumaShape'
  <2>1. place' \in [Tids -> Places] /\ moves' \in Nat
    BY <1>10 DEF ThreadMoves, Places
  <2> QED BY <1>10, <2>1 DEF ThreadMoves, Event, threadVars, memVars, countVars
<1>11. ASSUME NEW p \in Procs, NEW n \in Nodes, NEW k \in 0..MaxPages, PagesChange(p, n, k)
       PROVE  NumaShape'
  <2>1. pages' \in [Procs -> [Nodes -> Nat]] /\ changes' \in Nat
    BY <1>11, NumaBoundsAssumption DEF PagesChange
  <2> QED BY <1>11, <2>1 DEF PagesChange, Event, threadVars, memVars, countVars
<1> HIDE DEF NumaShape
<1> QED BY <1>1, <1>2, <1>3, <1>4, <1>5, <1>6, <1>7, <1>8, <1>9, <1>10, <1>11 DEF NumaNext

\* The threads that are owed a migration change only with a thread's place
\* or with the node it was last seen on.
LEMMA OwedSame ==
  ASSUME place' = place, last_seen_node' = last_seen_node
  PROVE  Owed' = Owed
BY DEF Owed

LEMMA ThreadInit == NumaInit => ThreadInv
<1> SUFFICES ASSUME NumaInit PROVE ThreadInv
  OBVIOUS
<1>1. Owed = {}
  BY DEF NumaInit, Owed
<1>2. Cardinality(Owed) = 0
  BY <1>1, FS_EmptySet
<1>3. numa_migrations + Cardinality(Owed) <= moves + reuses
  BY <1>2 DEF NumaInit
<1>4. ASSUME NEW t \in Tids
      PROVE  /\ last_seen_node[t] # None => t \in used
             /\ place[t] # None => t \in used
             /\ place[t] \in Nodes => place[t] \in visited
  BY DEF NumaInit
<1> QED BY <1>3, <1>4 DEF ThreadInv

\* A step that owes at most one more migration, paid for; or that counts one
\* that was owed.
LEMMA OwedOneMore ==
  ASSUME NumaShape, NumaShape', ThreadInv, NEW t \in Tids, Owed' \subseteq Owed \cup {t},
         numa_migrations' = numa_migrations, moves' + reuses' = moves + reuses + 1
  PROVE  (numa_migrations + Cardinality(Owed) <= moves + reuses)'
<1>1. Owed \in SUBSET Tids /\ Owed' \in SUBSET Tids
  BY DEF Owed
<1>2. PICK c, d : c = Cardinality(Owed) /\ d = Cardinality(Owed')
  OBVIOUS
<1>3. c \in Nat /\ d \in Nat /\ IsFiniteSet(Owed) /\ IsFiniteSet(Owed')
  BY <1>1, <1>2, NumaSets
<1>4. IsFiniteSet(Owed \cup {t}) /\ Cardinality(Owed \cup {t}) \in {c, c + 1}
  BY <1>2, <1>3, FS_AddElement
<1>5. d <= Cardinality(Owed \cup {t})
  BY <1>2, <1>4, FS_Subset
<1>6. d <= c + 1
  BY <1>3, <1>4, <1>5
<1>7. numa_migrations + c <= moves + reuses
  BY <1>2 DEF ThreadInv
<1>8. /\ numa_migrations \in Nat /\ moves \in Nat /\ reuses \in Nat
      /\ moves' \in Nat /\ reuses' \in Nat
  BY DEF NumaShape
<1>9. numa_migrations' = numa_migrations /\ moves' + reuses' = moves + reuses + 1
  OBVIOUS
<1>10. numa_migrations + d <= moves + reuses + 1
  BY ONLY <1>3, <1>6, <1>7, <1>8
<1>11. numa_migrations' + d <= moves' + reuses'
  BY ONLY <1>9, <1>10
<1> QED BY <1>2, <1>11

LEMMA OwedFewer ==
  ASSUME NumaShape, NumaShape', ThreadInv, Owed' \subseteq Owed,
         numa_migrations' = numa_migrations, moves + reuses <= moves' + reuses'
  PROVE  (numa_migrations + Cardinality(Owed) <= moves + reuses)'
<1>1. Owed \in SUBSET Tids /\ Owed' \in SUBSET Tids
  BY DEF Owed
<1>2. PICK c, d : c = Cardinality(Owed) /\ d = Cardinality(Owed')
  OBVIOUS
<1>3. c \in Nat /\ d \in Nat /\ IsFiniteSet(Owed)
  BY <1>1, <1>2, NumaSets
<1>4. d <= c
  BY <1>2, <1>3, FS_Subset
<1>5. numa_migrations + c <= moves + reuses
  BY <1>2 DEF ThreadInv
<1>6. /\ numa_migrations \in Nat /\ moves \in Nat /\ reuses \in Nat
      /\ moves' \in Nat /\ reuses' \in Nat
  BY DEF NumaShape
<1>7. numa_migrations' = numa_migrations /\ moves + reuses <= moves' + reuses'
  OBVIOUS
<1>8. numa_migrations + d <= moves' + reuses'
  <2>1. PICK x, y : x = moves + reuses /\ y = moves' + reuses'
    OBVIOUS
  <2>2. x \in Nat /\ y \in Nat /\ x <= y
    <3>1. x \in Nat
      BY ONLY <1>6, <2>1
    <3>2. y \in Nat
      <4>1. PICK i, j : i = moves' /\ j = reuses'
        OBVIOUS
      <4>2. i \in Nat /\ j \in Nat
        BY ONLY <1>6, <4>1
      <4>3. y = i + j
        BY ONLY <2>1, <4>1
      <4> QED BY ONLY <4>2, <4>3
    <3>3. x <= y
      BY ONLY <1>7, <2>1
    <3> QED BY <3>1, <3>2, <3>3
  <2>3. numa_migrations + c <= x
    BY <1>5, <2>1
  <2>4. numa_migrations + d <= y
    BY ONLY <1>3, <1>4, <1>6, <2>2, <2>3
  <2> QED BY <2>1, <2>4
<1>9. numa_migrations' + d <= moves' + reuses'
  BY ONLY <1>7, <1>8
<1> QED BY <1>2, <1>9

LEMMA OwedCounted ==
  ASSUME NumaShape, NumaShape', ThreadInv, NEW t \in Owed, Owed' \subseteq Owed \ {t},
         numa_migrations' = numa_migrations + 1, moves' = moves, reuses' = reuses
  PROVE  (numa_migrations + Cardinality(Owed) <= moves + reuses)'
<1>1. Owed \in SUBSET Tids /\ Owed' \in SUBSET Tids
  BY DEF Owed
<1>2. PICK c, d : c = Cardinality(Owed) /\ d = Cardinality(Owed')
  OBVIOUS
<1>3. c \in Nat /\ d \in Nat /\ IsFiniteSet(Owed)
  BY <1>1, <1>2, NumaSets
<1>4. IsFiniteSet(Owed \ {t}) /\ Cardinality(Owed \ {t}) = c - 1
  BY <1>2, <1>3, FS_RemoveElement
<1>5. d <= c - 1
  BY <1>2, <1>4, FS_Subset
<1>7. numa_migrations + c <= moves + reuses
  BY <1>2 DEF ThreadInv
<1>8. /\ numa_migrations \in Nat /\ moves \in Nat /\ reuses \in Nat
  BY DEF NumaShape
<1>9. numa_migrations' + d <= moves' + reuses'
  BY <1>3, <1>5, <1>7, <1>8
<1> QED BY <1>2, <1>9

\* The steps of the world and of the scans, as far as threads go.
LEMMA ThreadStep == NumaShape /\ ThreadInv /\ [NumaNext]_numaVars => ThreadInv'
<1> SUFFICES ASSUME NumaShape, ThreadInv, [NumaNext]_numaVars PROVE ThreadInv'
  OBVIOUS
<1>0. NumaShape'
  BY NumaShapeStep
<1> DEFINE Kept == /\ place' = place /\ last_seen_node' = last_seen_node
                   /\ numa_migrations' = numa_migrations /\ moves' = moves
                   /\ reuses' = reuses /\ used' = used /\ visited' = visited
<1>1. ASSUME Kept PROVE ThreadInv'
  <2>1. Cardinality(Owed)' = Cardinality(Owed)
    BY <1>1, OwedSame
  <2>2. \A t \in Tids : /\ last_seen_node'[t] # None => t \in used'
                        /\ place'[t] # None => t \in used'
                        /\ place'[t] \in Nodes => place'[t] \in visited'
    BY <1>1 DEF ThreadInv
  <2>3. numa_migrations' + Cardinality(Owed)' <= moves' + reuses'
    BY <1>1, <2>1 DEF ThreadInv
  <2> QED BY <2>2, <2>3 DEF ThreadInv, None
<1>2. CASE StartLocality \/ EndThreads \/ EndMemory \/ NumaTerminated \/ UNCHANGED numaVars
  <2>1. Kept
    BY <1>2 DEF StartLocality, EndThreads, EndMemory, NumaTerminated, numaVars,
                threadVars, Quiet, worldVars, histVars
  <2> QED BY <1>1, <2>1
<1>3. ASSUME NEW p \in Procs, NEW readable \in BOOLEAN,
             ListThreads(p) \/ ReadNumaMaps(p, readable)
      PROVE  ThreadInv'
  <2>1. Kept
    BY <1>3 DEF ListThreads, ReadNumaMaps, threadVars, Quiet, worldVars, histVars
  <2> QED BY <1>1, <2>1
<1>4. ASSUME NEW p \in Procs, NEW n \in Nodes, NEW k \in 0..MaxPages, PagesChange(p, n, k)
      PROVE  ThreadInv'
  <2>1. Kept
    BY <1>4 DEF PagesChange, Event, threadVars
  <2> QED BY <1>1, <2>1
<1> HIDE DEF Kept
<1>5. ASSUME NEW t \in Tids, ReadThread(t) PROVE ThreadInv'
  <2>1. /\ place' = place /\ moves' = moves /\ reuses' = reuses /\ used' = used
        /\ visited' = visited
    BY <1>5 DEF ReadThread, Quiet, worldVars, histVars
  <2>2. CASE place[t] \notin Nodes
    <3>1. Kept
      BY <1>5, <2>1, <2>2 DEF ReadThread, threadVars, Kept
    <3> QED BY <1>1, <3>1
  <2>3. CASE place[t] \in Nodes
    <3>1. /\ last_seen_node' = [last_seen_node EXCEPT ![t] = place[t]]
          /\ numa_migrations' = IF last_seen_node[t] \notin {None, place[t]}
                                THEN numa_migrations + 1 ELSE numa_migrations
      BY <1>5, <2>3 DEF ReadThread
    <3>2. \A x \in Tids : last_seen_node'[x] = (IF x = t THEN place[t] ELSE last_seen_node[x])
      BY <3>1 DEF NumaShape
    <3>3. Owed' \subseteq Owed \ {t}
      BY <2>1, <3>2 DEF Owed, None
    <3>4. place[t] # None
      BY <2>3, NumaSets
    <3>5. (numa_migrations + Cardinality(Owed) <= moves + reuses)'
      <4>1. CASE last_seen_node[t] \notin {None, place[t]}
        <5>1. t \in Owed
          BY <3>4, <4>1 DEF Owed
        <5>2. numa_migrations' = numa_migrations + 1
          BY <3>1, <4>1
        <5> QED BY <1>0, <2>1, <3>3, <5>1, <5>2, OwedCounted
      <4>2. CASE last_seen_node[t] \in {None, place[t]}
        <5>1. numa_migrations' = numa_migrations
          BY <3>1, <4>2
        <5>2. moves + reuses <= moves' + reuses'
          BY <2>1 DEF NumaShape
        <5>3. Owed' \subseteq Owed
          BY <3>3
        <5> QED BY <1>0, <5>1, <5>2, <5>3, OwedFewer
      <4> QED BY <4>1, <4>2
    <3>6. \A x \in Tids : /\ last_seen_node'[x] # None => x \in used'
                          /\ place'[x] # None => x \in used'
                          /\ place'[x] \in Nodes => place'[x] \in visited'
      BY <2>1, <3>2, <3>4 DEF ThreadInv
    <3> QED BY <3>5, <3>6 DEF ThreadInv, None
  <2> QED BY <2>2, <2>3
<1>6. ASSUME NEW t \in Tids, ThreadEnds(t) PROVE ThreadInv'
  <2>1. /\ last_seen_node' = last_seen_node /\ numa_migrations' = numa_migrations
        /\ moves' = moves /\ reuses' = reuses /\ used' = used /\ visited' = visited
        /\ place' = [place EXCEPT ![t] = None]
    BY <1>6 DEF ThreadEnds, Event, threadVars, histVars
  <2>2. \A x \in Tids : place'[x] = (IF x = t THEN None ELSE place[x])
    BY <2>1 DEF NumaShape
  <2>3. Owed' \subseteq Owed
    BY <2>1, <2>2 DEF Owed, None
  <2>4. moves + reuses <= moves' + reuses'
    BY <2>1 DEF NumaShape
  <2>5. (numa_migrations + Cardinality(Owed) <= moves + reuses)'
    BY <1>0, <2>1, <2>3, <2>4, OwedFewer
  <2>6. \A x \in Tids : /\ last_seen_node'[x] # None => x \in used'
                        /\ place'[x] # None => x \in used'
                        /\ place'[x] \in Nodes => place'[x] \in visited'
    BY <2>1, <2>2, NumaSets DEF ThreadInv
  <2> QED BY <2>5, <2>6 DEF ThreadInv, None
<1>7. ASSUME NEW t \in Tids, NEW n \in Nodes, ThreadStarts(t, n) PROVE ThreadInv'
  <2>1. /\ last_seen_node' = last_seen_node /\ numa_migrations' = numa_migrations
        /\ moves' = moves /\ reuses' = (IF t \in used THEN reuses + 1 ELSE reuses)
        /\ used' = used \cup {t} /\ visited' = visited \cup {n}
        /\ place' = [place EXCEPT ![t] = n]
    BY <1>7 DEF ThreadStarts, Event, threadVars
  <2>2. \A x \in Tids : place'[x] = (IF x = t THEN n ELSE place[x])
    BY <2>1 DEF NumaShape
  <2>3. Owed' \subseteq Owed \cup {t}
    BY <2>1, <2>2 DEF Owed, None
  <2>5. (numa_migrations + Cardinality(Owed) <= moves + reuses)'
    <3>1. CASE t \in used
      <4>1. moves' + reuses' = moves + reuses + 1
        BY <2>1, <3>1 DEF NumaShape
      <4> QED BY <1>0, <2>1, <2>3, <4>1, OwedOneMore
    <3>2. CASE t \notin used
      <4>1. last_seen_node[t] = None
        BY <3>2 DEF ThreadInv
      <4>2. t \notin Owed'
        BY <2>1, <4>1 DEF Owed, None
      <4>3. Owed' \subseteq Owed
        BY <2>3, <4>2
      <4>4. moves + reuses <= moves' + reuses'
        BY <2>1, <3>2 DEF NumaShape
      <4> QED BY <1>0, <2>1, <4>3, <4>4, OwedFewer
    <3> QED BY <3>1, <3>2
  <2>6. \A x \in Tids : /\ last_seen_node'[x] # None => x \in used'
                        /\ place'[x] # None => x \in used'
                        /\ place'[x] \in Nodes => place'[x] \in visited'
    BY <2>1, <2>2 DEF ThreadInv
  <2> QED BY <2>5, <2>6 DEF ThreadInv, None
<1>8. ASSUME NEW t \in Tids, NEW q \in Nodes \cup {Unmapped}, ThreadMoves(t, q)
      PROVE  ThreadInv'
  <2>1. /\ last_seen_node' = last_seen_node /\ numa_migrations' = numa_migrations
        /\ moves' = moves + 1 /\ reuses' = reuses
        /\ used' = used /\ visited' = visited \cup ({q} \cap Nodes)
        /\ place' = [place EXCEPT ![t] = q] /\ place[t] # None
    BY <1>8 DEF ThreadMoves, Event, threadVars
  <2>2. \A x \in Tids : place'[x] = (IF x = t THEN q ELSE place[x])
    BY <2>1 DEF NumaShape
  <2>3. Owed' \subseteq Owed \cup {t}
    BY <2>1, <2>2 DEF Owed, None
  <2>4. moves' + reuses' = moves + reuses + 1
    BY <2>1 DEF NumaShape
  <2>5. (numa_migrations + Cardinality(Owed) <= moves + reuses)'
    BY <1>0, <2>1, <2>3, <2>4, OwedOneMore
  <2>6. \A x \in Tids : /\ last_seen_node'[x] # None => x \in used'
                        /\ place'[x] # None => x \in used'
                        /\ place'[x] \in Nodes => place'[x] \in visited'
    BY <2>1, <2>2 DEF ThreadInv
  <2> QED BY <2>5, <2>6 DEF ThreadInv, None
<1> QED BY <1>2, <1>3, <1>4, <1>5, <1>6, <1>7, <1>8 DEF NumaNext

\* The pages that processes S have on node n, according to f.
Total(f, n, S) == SumOver([p \in Procs |-> f[p][n]], S)

\* The pages of a process that is not counted.
Zero == [n \in Nodes |-> 0]

Differ(f, g) == {p \in Procs : f[p] # g[p]}

\* The processes of C of which f does not hold what g does.
Stale(f, g, C) == {p \in C : f[p] # g[p]}

\* before holds what the sample before counted of each process, and latest
\* what was last counted of it.  The node remembered is one that had most
\* pages before; every migration counted, every process that this sample found
\* changed, come or gone and every one that has changed since it was counted
\* has been paid for by a change, a tie, a coming or a going.
MemoryOK(before, latest) ==
  /\ \A p \in Procs \ counted : latest[p] = Zero
  /\ pc = "memory" =>
       /\ \A p \in pids : latest[p] = before[p]
       /\ \A n \in Nodes : node_pages[n] = Total(latest, n, Procs \ pids)
  /\ pc # "memory" => latest = before
  /\ last_dominant_mem_node # None =>
       /\ last_dominant_mem_node \in Nodes
       /\ \A n \in Nodes :
            Total(before, n, Procs) <= Total(before, last_dominant_mem_node, Procs)
  /\ numa_mem_migrations + Cardinality(Differ(before, latest))
       + Cardinality(Stale(latest, pages, counted)) <= changes + turnover + ties

MemoryInv == \E before, latest \in [Procs -> [Nodes -> Nat]] : MemoryOK(before, latest)

LEMMA DifferFacts ==
  ASSUME NEW f, NEW g
  PROVE  Differ(f, g) \in SUBSET Procs /\ IsFiniteSet(Differ(f, g))
         /\ Cardinality(Differ(f, g)) \in Nat
<1>1. Differ(f, g) \in SUBSET Procs
  BY DEF Differ
<1> QED BY <1>1, NumaSets

LEMMA StaleFacts ==
  ASSUME NEW f, NEW g, NEW C \in SUBSET Procs
  PROVE  Stale(f, g, C) \in SUBSET Procs /\ IsFiniteSet(Stale(f, g, C))
         /\ Cardinality(Stale(f, g, C)) \in Nat
<1>1. Stale(f, g, C) \in SUBSET Procs
  BY DEF Stale
<1> QED BY <1>1, NumaSets

LEMMA DifferSelf == ASSUME NEW f PROVE Cardinality(Differ(f, f)) = 0
<1>1. Differ(f, f) = {}
  BY DEF Differ
<1> QED BY <1>1, FS_EmptySet

LEMMA TotalOfNone == ASSUME NEW f, NEW n PROVE Total(f, n, {}) = 0
BY SumOverEmpty DEF Total

LEMMA TotalAgree ==
  ASSUME NEW f \in [Procs -> [Nodes -> Nat]], NEW g \in [Procs -> [Nodes -> Nat]],
         NEW n \in Nodes, NEW S \in SUBSET Procs, \A p \in S : f[p] = g[p]
  PROVE  Total(f, n, S) = Total(g, n, S)
<1> DEFINE c == [p \in Procs |-> f[p][n]]
           d == [p \in Procs |-> g[p][n]]
<1>1. \A p \in S : c[p] = d[p]
  OBVIOUS
<1>2. IsFiniteSet(S)
  BY NumaSets
<1>3. Total(f, n, S) = SumOver(c, S) /\ Total(g, n, S) = SumOver(d, S)
  BY DEF Total
<1> HIDE DEF c, d
<1> QED BY <1>1, <1>2, <1>3, SumOverAgree

LEMMA TotalOfZeros ==
  ASSUME NEW f \in [Procs -> [Nodes -> Nat]], NEW n \in Nodes, NEW S \in SUBSET Procs,
         \A p \in S : f[p] = Zero
  PROVE  Total(f, n, S) = 0
<1> DEFINE c == [p \in Procs |-> f[p][n]]
<1>1. IsFiniteSet(S) /\ \A p \in S : c[p] = 0
  BY NumaSets DEF Zero
<1>2. Total(f, n, S) = SumOver(c, S)
  BY DEF Total
<1> HIDE DEF c
<1>3. SumOver(c, S) \in Nat
  BY <1>1, SumOverLaws
<1>4. SumOver(c, S) <= SumOver(c, {})
  BY <1>1, FS_EmptySet, SumOverCompare
<1>5. SumOver(c, {}) = 0
  BY SumOverEmpty
<1> QED BY <1>2, <1>3, <1>4, <1>5

LEMMA MemoryInit == NumaInit => MemoryInv
<1> SUFFICES ASSUME NumaInit PROVE MemoryInv
  OBVIOUS
<1>1. PICK zeros : zeros = [p \in Procs |-> Zero]
  OBVIOUS
<1>2. zeros \in [Procs -> [Nodes -> Nat]] /\ \A p \in Procs : zeros[p] = Zero
  BY <1>1 DEF Zero
<1>3. Cardinality(Differ(zeros, zeros)) = 0
  BY DifferSelf
<1>4. /\ pc = "idle" /\ last_dominant_mem_node = None /\ numa_mem_migrations = 0
      /\ changes = 0 /\ ties = 0 /\ turnover = 0 /\ counted = {}
  BY DEF NumaInit
<1>5. Cardinality(Stale(zeros, pages, counted)) = 0
  <2>1. Stale(zeros, pages, counted) = {}
    BY <1>4 DEF Stale
  <2> QED BY <2>1, FS_EmptySet
<1>6. MemoryOK(zeros, zeros)
  BY <1>2, <1>3, <1>4, <1>5 DEF MemoryOK
<1> QED BY <1>2, <1>6 DEF MemoryInv

\* What to show of the state after a step.
LEMMA MemoryAfter ==
  ASSUME NEW before \in [Procs -> [Nodes -> Nat]], NEW latest \in [Procs -> [Nodes -> Nat]],
         \A p \in Procs \ counted' : latest[p] = Zero,
         pc' = "memory" =>
           /\ \A p \in pids' : latest[p] = before[p]
           /\ \A n \in Nodes : node_pages'[n] = Total(latest, n, Procs \ pids'),
         pc' # "memory" => latest = before,
         last_dominant_mem_node' # None =>
           /\ last_dominant_mem_node' \in Nodes
           /\ \A n \in Nodes :
                Total(before, n, Procs) <= Total(before, last_dominant_mem_node', Procs),
         numa_mem_migrations' + Cardinality(Differ(before, latest))
           + Cardinality(Stale(latest, pages', counted')) <= changes' + turnover' + ties'
  PROVE  MemoryInv'
BY DEF MemoryInv, MemoryOK, Total, Differ, Stale, Zero, None

\* One process is found with other pages: one more may differ.
LEMMA ChangePaid ==
  ASSUME NEW f, NEW g, NEW h, NEW p \in Procs, \A x \in Procs : x # p => g[x] = h[x]
  PROVE  Cardinality(Differ(f, h)) <= Cardinality(Differ(f, g)) + 1
<1>1. Differ(f, h) \subseteq Differ(f, g) \cup {p}
  BY DEF Differ
<1>2. PICK c, d : c = Cardinality(Differ(f, g)) /\ d = Cardinality(Differ(f, h))
  OBVIOUS
<1>3. c \in Nat /\ d \in Nat /\ IsFiniteSet(Differ(f, g))
  BY <1>2, DifferFacts
<1>4. /\ IsFiniteSet(Differ(f, g) \cup {p})
      /\ Cardinality(Differ(f, g) \cup {p}) \in {c, c + 1}
  BY <1>2, <1>3, FS_AddElement
<1>5. d <= Cardinality(Differ(f, g) \cup {p})
  BY <1>1, <1>2, <1>4, FS_Subset
<1>6. d <= c + 1
  BY <1>3, <1>4, <1>5
<1> QED BY <1>2, <1>6

\* The pages of one process change: one more counted process may be stale.
LEMMA StalePaid ==
  ASSUME NEW f, NEW g, NEW h, NEW C \in SUBSET Procs, NEW p \in Procs,
         \A x \in Procs : x # p => g[x] = h[x]
  PROVE  Cardinality(Stale(f, h, C)) <= Cardinality(Stale(f, g, C)) + 1
<1>1. Stale(f, h, C) \subseteq Stale(f, g, C) \cup {p}
  BY DEF Stale
<1>2. PICK c, d : c = Cardinality(Stale(f, g, C)) /\ d = Cardinality(Stale(f, h, C))
  OBVIOUS
<1>3. c \in Nat /\ d \in Nat /\ IsFiniteSet(Stale(f, g, C))
  BY <1>2, StaleFacts
<1>4. /\ IsFiniteSet(Stale(f, g, C) \cup {p})
      /\ Cardinality(Stale(f, g, C) \cup {p}) \in {c, c + 1}
  BY <1>2, <1>3, FS_AddElement
<1>5. d <= Cardinality(Stale(f, g, C) \cup {p})
  BY <1>1, <1>2, <1>4, FS_Subset
<1>6. d <= c + 1
  BY <1>3, <1>4, <1>5
<1> QED BY <1>2, <1>6

\* A process is read, or found unreadable: it is no longer stale.  If it was,
\* or nothing of it is new, the others pay for it.
LEMMA ReadPaid ==
  ASSUME NEW f, NEW g, NEW h, NEW w, NEW p \in Procs,
         NEW C \in SUBSET Procs, NEW D \in SUBSET Procs,
         C \ {p} = D \ {p}, p \in D => h[p] = w[p],
         \A x \in Procs : x # p => g[x] = h[x]
  PROVE  /\ Cardinality(Differ(f, h)) + Cardinality(Stale(h, w, D))
              <= Cardinality(Differ(f, g)) + Cardinality(Stale(g, w, C)) + 1
         /\ (p \in Stale(g, w, C) \/ h[p] = g[p]) =>
              Cardinality(Differ(f, h)) + Cardinality(Stale(h, w, D))
                <= Cardinality(Differ(f, g)) + Cardinality(Stale(g, w, C))
<1>1. PICK a, b, c, d : /\ a = Cardinality(Differ(f, g)) /\ b = Cardinality(Stale(g, w, C))
                        /\ c = Cardinality(Differ(f, h)) /\ d = Cardinality(Stale(h, w, D))
  OBVIOUS
<1>2. /\ a \in Nat /\ b \in Nat /\ c \in Nat /\ d \in Nat
      /\ IsFiniteSet(Stale(g, w, C))
  BY <1>1, DifferFacts, StaleFacts
<1>3. c <= a + 1
  BY <1>1, ChangePaid
<1>4. Stale(h, w, D) = Stale(g, w, C) \ {p}
  BY DEF Stale
<1>5. d <= b
  <2>1. Stale(h, w, D) \subseteq Stale(g, w, C)
    BY <1>4
  <2> QED BY <1>1, <1>2, <2>1, FS_Subset
<1>6. p \in Stale(g, w, C) => d = b - 1
  BY <1>1, <1>2, <1>4, FS_RemoveElement
<1>7. h[p] = g[p] => c = a
  <2>1. ASSUME h[p] = g[p] PROVE Differ(f, h) = Differ(f, g)
    BY <2>1 DEF Differ
  <2> QED BY <1>1, <2>1
<1>8. c + d <= a + b + 1
  BY ONLY <1>2, <1>3, <1>5
<1>9. ASSUME p \in Stale(g, w, C) PROVE c + d <= a + b
  <2>1. d = b - 1
    BY <1>6, <1>9
  <2> QED BY ONLY <1>2, <1>3, <2>1
<1>10. ASSUME h[p] = g[p] PROVE c + d <= a + b
  <2>1. c = a
    BY <1>7, <1>10
  <2> QED BY ONLY <1>2, <1>5, <2>1
<1> QED BY <1>1, <1>8, <1>9, <1>10

LEMMA MemoryStep == NumaShape /\ ThreadInv /\ MemoryInv /\ [NumaNext]_numaVars => MemoryInv'
<1> SUFFICES ASSUME NumaShape, ThreadInv, MemoryInv, [NumaNext]_numaVars PROVE MemoryInv'
  OBVIOUS
<1>0. NumaShape'
  BY NumaShapeStep
<1>1. PICK before \in [Procs -> [Nodes -> Nat]], latest \in [Procs -> [Nodes -> Nat]] :
        MemoryOK(before, latest)
  BY DEF MemoryInv
<1>2. PICK a, b : /\ a = Cardinality(Differ(before, latest))
                  /\ b = Cardinality(Stale(latest, pages, counted))
  OBVIOUS
<1>3. a \in Nat /\ b \in Nat
  BY <1>2, DifferFacts, StaleFacts DEF NumaShape
<1>4. numa_mem_migrations + a + b <= changes + turnover + ties
  BY <1>1, <1>2 DEF MemoryOK
<1>5. /\ numa_mem_migrations \in Nat /\ changes \in Nat /\ ties \in Nat
      /\ turnover \in Nat /\ counted \in SUBSET Procs
  BY DEF NumaShape
<1> DEFINE Kept ==
      /\ pages' = pages /\ changes' = changes /\ ties' = ties
      /\ counted' = counted /\ turnover' = turnover
      /\ last_dominant_mem_node' = last_dominant_mem_node
      /\ numa_mem_migrations' = numa_mem_migrations
      /\ \/ pc' = pc /\ pids' = pids /\ node_pages' = node_pages
         \/ pc # "memory" /\ pc' # "memory"
<1>6. ASSUME Kept PROVE MemoryInv'
  <2>1. /\ pc' = "memory" =>
           /\ \A p \in pids' : latest[p] = before[p]
           /\ \A n \in Nodes : node_pages'[n] = Total(latest, n, Procs \ pids')
        /\ pc' # "memory" => latest = before
    BY <1>1, <1>6 DEF MemoryOK
  <2>2. last_dominant_mem_node' # None =>
           /\ last_dominant_mem_node' \in Nodes
           /\ \A n \in Nodes :
                Total(before, n, Procs) <= Total(before, last_dominant_mem_node', Procs)
    BY <1>1, <1>6 DEF MemoryOK
  <2>3. numa_mem_migrations' + a + Cardinality(Stale(latest, pages', counted'))
          <= changes' + turnover' + ties'
    BY <1>2, <1>4, <1>6
  <2>4. \A p \in Procs \ counted' : latest[p] = Zero
    BY <1>1, <1>6 DEF MemoryOK
  <2> QED BY <1>1, <1>2, <2>1, <2>2, <2>3, <2>4, MemoryAfter
<1>7. CASE StartLocality \/ NumaTerminated \/ UNCHANGED numaVars
  <2>1. Kept
    BY <1>7 DEF StartLocality, NumaTerminated, numaVars, memVars, countVars, Quiet,
                worldVars, histVars
  <2> QED BY <1>6, <2>1
<1>8. ASSUME NEW p \in Procs, ListThreads(p) PROVE MemoryInv'
  <2>1. Kept
    BY <1>8 DEF ListThreads, memVars, countVars, Quiet, worldVars, histVars
  <2> QED BY <1>6, <2>1
<1>9. ASSUME NEW t \in Tids, ReadThread(t) \/ ThreadEnds(t) PROVE MemoryInv'
  <2>1. Kept
    BY <1>9 DEF ReadThread, ThreadEnds, Event, memVars, countVars, Quiet, worldVars,
                histVars
  <2> QED BY <1>6, <2>1
<1>10. ASSUME NEW t \in Tids, NEW n \in Nodes, ThreadStarts(t, n) PROVE MemoryInv'
  <2>1. Kept
    BY <1>10 DEF ThreadStarts, Event, memVars, countVars
  <2> QED BY <1>6, <2>1
<1>11. ASSUME NEW t \in Tids, NEW q \in Nodes \cup {Unmapped}, ThreadMoves(t, q)
       PROVE  MemoryInv'
  <2>1. Kept
    BY <1>11 DEF ThreadMoves, Event, memVars, countVars
  <2> QED BY <1>6, <2>1
<1> HIDE DEF Kept
<1>12. ASSUME NEW p \in Procs, NEW n \in Nodes, NEW k \in 0..MaxPages, PagesChange(p, n, k)
       PROVE  MemoryInv'
  <2>1. /\ pc' = pc /\ pids' = pids /\ node_pages' = node_pages /\ ties' = ties
        /\ last_dominant_mem_node' = last_dominant_mem_node
        /\ numa_mem_migrations' = numa_mem_migrations /\ changes' = changes + 1
        /\ pages' = [pages EXCEPT ![p][n] = k]
        /\ counted' = counted /\ turnover' = turnover
    BY <1>12 DEF PagesChange, Event, memVars, countVars
  <2>2. \A x \in Procs : x # p => pages[x] = pages'[x]
    BY <2>1 DEF NumaShape
  <2>3. PICK d : d = Cardinality(Stale(latest, pages', counted))
    OBVIOUS
  <2>4. d <= b + 1 /\ d \in Nat
    BY <1>2, <1>5, <2>2, <2>3, StalePaid, StaleFacts
  <2>5. numa_mem_migrations' + a + d <= changes' + turnover' + ties'
    <3>1. numa_mem_migrations + a + d <= (changes + 1) + turnover + ties
      BY ONLY <1>3, <1>4, <1>5, <2>4
    <3> QED BY <2>1, <3>1
  <2>6. /\ pc' = "memory" =>
           /\ \A x \in pids' : latest[x] = before[x]
           /\ \A x \in Nodes : node_pages'[x] = Total(latest, x, Procs \ pids')
        /\ pc' # "memory" => latest = before
    BY <1>1, <2>1 DEF MemoryOK
  <2>7. last_dominant_mem_node' # None =>
           /\ last_dominant_mem_node' \in Nodes
           /\ \A x \in Nodes :
                Total(before, x, Procs) <= Total(before, last_dominant_mem_node', Procs)
    BY <1>1, <2>1 DEF MemoryOK
  <2>8. \A x \in Procs \ counted' : latest[x] = Zero
    BY <1>1, <2>1 DEF MemoryOK
  <2>9. numa_mem_migrations' + Cardinality(Differ(before, latest))
          + Cardinality(Stale(latest, pages', counted')) <= changes' + turnover' + ties'
    BY <1>2, <2>1, <2>3, <2>5
  <2> QED BY <1>1, <2>6, <2>7, <2>8, <2>9, MemoryAfter
<1>13. CASE EndThreads
  <2>1. /\ pc = "threads" /\ pc' = "memory" /\ pids' = list
        /\ node_pages' = [n \in Nodes |-> 0] /\ ties' = ties /\ pages' = pages
        /\ last_dominant_mem_node' = last_dominant_mem_node
        /\ numa_mem_migrations' = numa_mem_migrations /\ changes' = changes
        /\ counted' = counted \cap list
        /\ turnover' = turnover + Cardinality(counted \ list)
    BY <1>13 DEF EndThreads, Quiet, worldVars, histVars
  <2>2. latest = before
    BY <1>1, <2>1 DEF MemoryOK
  <2>3. PICK now : now = [p \in Procs |-> IF p \in list THEN latest[p] ELSE Zero]
    OBVIOUS
  <2>4. /\ now \in [Procs -> [Nodes -> Nat]]
        /\ \A p \in list : now[p] = before[p]
        /\ \A p \in Procs \ list : now[p] = Zero
    BY <1>1, <2>2, <2>3 DEF NumaShape, Zero
  <2>5. \A p \in Procs \ counted' : now[p] = Zero
    <3>1. ASSUME NEW p \in list, p \notin counted PROVE now[p] = Zero
      BY <1>1, <2>2, <2>4, <3>1 DEF MemoryOK, NumaShape
    <3> QED BY <2>1, <2>4, <3>1
  <2>6. \A n \in Nodes : node_pages'[n] = Total(now, n, Procs \ pids')
    <3>1. \A n \in Nodes : Total(now, n, Procs \ list) = 0
      BY <2>4, TotalOfZeros
    <3> QED BY <2>1, <3>1
  <2>7. last_dominant_mem_node' # None =>
           /\ last_dominant_mem_node' \in Nodes
           /\ \A n \in Nodes :
                Total(before, n, Procs) <= Total(before, last_dominant_mem_node', Procs)
    BY <1>1, <2>1 DEF MemoryOK
  <2>8. PICK c, d, k : /\ c = Cardinality(Differ(before, now))
                       /\ d = Cardinality(Stale(now, pages, counted'))
                       /\ k = Cardinality(counted \ list)
    OBVIOUS
  <2>9. c <= k /\ c \in Nat /\ k \in Nat
    <3>1. Differ(before, now) \subseteq counted \ list
      BY <1>1, <2>2, <2>4 DEF Differ, MemoryOK
    <3>2. counted \ list \in SUBSET Procs
      BY <1>5
    <3> QED BY <2>8, <3>1, <3>2, NumaSets, FS_Subset
  <2>10. d <= b /\ d \in Nat
    <3>1. Stale(now, pages, counted') \subseteq Stale(latest, pages, counted)
      BY <2>1, <2>2, <2>4 DEF Stale
    <3>2. /\ IsFiniteSet(Stale(latest, pages, counted))
          /\ Stale(latest, pages, counted) \in SUBSET Procs
      BY <1>5, StaleFacts
    <3>3. Stale(now, pages, counted') \in SUBSET Procs
      BY <3>1, <3>2
    <3> QED BY <1>2, <2>8, <3>1, <3>2, <3>3, NumaSets, FS_Subset
  <2>11. numa_mem_migrations + c + d <= changes + (turnover + k) + ties
    BY ONLY <1>3, <1>4, <1>5, <2>9, <2>10
  <2>12. numa_mem_migrations' + Cardinality(Differ(before, now))
           + Cardinality(Stale(now, pages', counted')) <= changes' + turnover' + ties'
    BY <2>1, <2>8, <2>11
  <2>13. \A p \in pids' : now[p] = before[p]
    BY <2>1, <2>4
  <2> QED BY <1>1, <2>1, <2>4, <2>5, <2>6, <2>7, <2>12, <2>13, MemoryAfter
<1>14. ASSUME NEW p \in Procs, NEW readable \in BOOLEAN, ReadNumaMaps(p, readable)
       PROVE  MemoryInv'
  <2>1. /\ pc = "memory" /\ pc' = "memory" /\ p \in pids /\ pids' = pids \ {p}
        /\ ties' = ties /\ pages' = pages
        /\ last_dominant_mem_node' = last_dominant_mem_node
        /\ numa_mem_migrations' = numa_mem_migrations /\ changes' = changes
    BY <1>14 DEF ReadNumaMaps, Quiet, worldVars, histVars
  <2>2. PICK found, now : /\ found = IF readable THEN pages[p] ELSE Zero
                          /\ now = [latest EXCEPT ![p] = found]
    OBVIOUS
  <2>3. /\ now \in [Procs -> [Nodes -> Nat]] /\ now[p] = found
        /\ found \in [Nodes -> Nat]
        /\ \A x \in Procs : x # p => latest[x] = now[x]
    <3>1. found \in [Nodes -> Nat]
      BY <2>2 DEF NumaShape, Zero
    <3> QED BY <1>1, <2>2, <3>1
  <2>4. \A x \in pids' : now[x] = before[x]
    BY <1>1, <2>1, <2>3 DEF MemoryOK, NumaShape
  <2>5. ASSUME NEW n \in Nodes PROVE node_pages'[n] = Total(now, n, Procs \ pids')
    <3>0. PICK S, T : S = Procs \ pids' /\ T = Procs \ pids
      OBVIOUS
    <3>1. p \in S /\ S \ {p} = T /\ S \in SUBSET Procs /\ T \in SUBSET Procs
      BY <2>1, <3>0 DEF NumaShape
    <3>2. \A x \in T : now[x] = latest[x]
      BY <2>1, <2>3, <3>1
    <3>3. node_pages[n] = Total(latest, n, T)
      BY <1>1, <2>1, <3>0 DEF MemoryOK
    <3>4. Total(now, n, S) = now[p][n] + Total(now, n, T)
      <4>1. PICK c : c = [x \in Procs |-> now[x][n]]
        OBVIOUS
      <4>2. \A x \in Procs : c[x] = now[x][n] /\ c[x] \in Nat
        BY <2>3, <4>1
      <4>3. Total(now, n, S) = SumOver(c, S) /\ Total(now, n, T) = SumOver(c, T)
        BY <4>1 DEF Total
      <4>4. IsFiniteSet(S) /\ \A x \in S : c[x] \in Nat
        BY <3>1, <4>2, NumaSets
      <4>5. \A x \in S : SumOver(c, S) = c[x] + SumOver(c, S \ {x})
        BY ONLY <4>4, SumOverLaws
      <4>6. SumOver(c, S) = c[p] + SumOver(c, T)
        BY ONLY <3>1, <4>5
      <4> QED BY <4>2, <4>3, <4>6
    <3>5. Total(now, n, T) = Total(latest, n, T)
      <4>1. /\ now \in [Procs -> [Nodes -> Nat]] /\ latest \in [Procs -> [Nodes -> Nat]]
            /\ T \in SUBSET Procs
        BY <2>3, <3>1
      <4> QED BY ONLY <3>2, <4>1, TotalAgree, n \in Nodes
    <3>6. node_pages[n] \in Nat /\ found[n] \in Nat
      BY <2>3 DEF NumaShape
    <3>7. node_pages'[n] = node_pages[n] + found[n]
      <4>1. CASE readable
        BY <1>14, <2>2, <4>1 DEF ReadNumaMaps
      <4>2. CASE ~readable
        <5>1. node_pages' = node_pages /\ found[n] = 0
          BY <1>14, <2>2, <4>2 DEF ReadNumaMaps, Zero
        <5> QED BY <3>6, <5>1
      <4> QED BY <4>1, <4>2
    <3>8. Total(now, n, S) = found[n] + node_pages[n]
      BY <2>3, <3>3, <3>4, <3>5
    <3>9. node_pages'[n] = Total(now, n, S)
      BY ONLY <3>6, <3>7, <3>8
    <3> QED BY <3>0, <3>9
  <2>6. PICK c, d, new : /\ c = Cardinality(Differ(before, now))
                         /\ d = Cardinality(Stale(now, pages, new)) /\ new = counted'
    OBVIOUS
  <2>7. /\ new \in SUBSET Procs /\ counted \ {p} = new \ {p}
        /\ p \in new <=> readable
    BY <1>5, <1>14, <2>6 DEF ReadNumaMaps
  <2>8. c \in Nat /\ d \in Nat
    BY <2>6, <2>7, DifferFacts, StaleFacts
  <2>9. p \in new => now[p] = pages[p]
    BY <2>2, <2>3, <2>7
  <2>10. /\ c + d <= a + b + 1
         /\ (p \in Stale(latest, pages, counted) \/ now[p] = latest[p]) => c + d <= a + b
    BY <1>2, <1>5, <2>3, <2>6, <2>7, <2>9, ReadPaid
  <2>11. ASSUME turnover' = turnover + 1
         PROVE  numa_mem_migrations + c + d <= changes + turnover' + ties
    <3>1. numa_mem_migrations + c + d <= changes + (turnover + 1) + ties
      BY ONLY <1>3, <1>4, <1>5, <2>8, <2>10
    <3> QED BY <2>11, <3>1
  <2>12. ASSUME turnover' = turnover, readable <=> p \in counted
         PROVE  numa_mem_migrations + c + d <= changes + turnover' + ties
    <3>1. p \in Stale(latest, pages, counted) \/ now[p] = latest[p]
      <4>1. CASE readable
        BY <2>2, <2>3, <2>12, <4>1 DEF Stale
      <4>2. CASE ~readable
        BY <1>1, <2>2, <2>3, <2>12, <4>2 DEF MemoryOK
      <4> QED BY <4>1, <4>2
    <3>2. c + d <= a + b
      BY <2>10, <3>1
    <3>3. numa_mem_migrations + c + d <= changes + turnover + ties
      BY ONLY <1>3, <1>4, <1>5, <2>8, <3>2
    <3> QED BY <2>12, <3>3
  <2>13. \/ turnover' = turnover + 1
         \/ turnover' = turnover /\ (readable <=> p \in counted)
    BY <1>14 DEF ReadNumaMaps
  <2>14. numa_mem_migrations' + Cardinality(Differ(before, now))
           + Cardinality(Stale(now, pages', counted')) <= changes' + turnover' + ties'
    <3>1. numa_mem_migrations + c + d <= changes + turnover' + ties
      BY <2>11, <2>12, <2>13
    <3>2. Cardinality(Stale(now, pages', counted')) = d
      BY <2>1, <2>6
    <3> QED BY <2>1, <2>6, <3>1, <3>2
  <2>15. last_dominant_mem_node' # None =>
           /\ last_dominant_mem_node' \in Nodes
           /\ \A n \in Nodes :
                Total(before, n, Procs) <= Total(before, last_dominant_mem_node', Procs)
    BY <1>1, <2>1 DEF MemoryOK
  <2>16. \A x \in Procs \ counted' : now[x] = Zero
    <3>1. p \notin new => now[p] = Zero
      BY <2>2, <2>3, <2>7
    <3>2. \A x \in Procs \ new : x # p => now[x] = Zero
      BY <1>1, <2>3, <2>7 DEF MemoryOK
    <3> QED BY <2>6, <3>1, <3>2
  <2> QED BY <1>1, <2>1, <2>3, <2>4, <2>5, <2>14, <2>15, <2>16, MemoryAfter
<1>15. CASE EndMemory
  <2>1. /\ pc = "memory" /\ pids = {} /\ pc' = "idle" /\ pages' = pages
        /\ changes' = changes /\ ties' = IF Tied THEN ties + 1 ELSE ties
        /\ counted' = counted /\ turnover' = turnover
    BY <1>15 DEF EndMemory, countVars, Quiet, worldVars, histVars
  <2>2. \A n \in Nodes : /\ node_pages[n] = Total(latest, n, Procs)
                         /\ node_pages[n] \in Nat
    <3>1. Procs \ pids = Procs
      BY <2>1
    <3> QED BY <1>1, <2>1, <3>1 DEF MemoryOK, NumaShape
  <2>3. /\ Cardinality(Differ(latest, latest)) = 0
        /\ \A p \in Procs \ counted' : latest[p] = Zero
    BY <1>1, <2>1, DifferSelf DEF MemoryOK
  <2>4. CASE Present = {} /\ UNCHANGED <<last_dominant_mem_node, numa_mem_migrations>>
    <3>1. \A n \in Nodes : Total(latest, n, Procs) = 0
      BY <2>2, <2>4 DEF Present
    <3>2. last_dominant_mem_node' # None =>
             /\ last_dominant_mem_node' \in Nodes
             /\ \A n \in Nodes :
                  Total(latest, n, Procs) <= Total(latest, last_dominant_mem_node', Procs)
      BY <1>1, <2>4, <3>1 DEF MemoryOK
    <3>3. ties' \in Nat /\ ties <= ties'
      BY <1>5, <2>1
    <3>4. numa_mem_migrations + 0 + b <= changes + turnover + ties'
      <4>1. PICK m, z : m = numa_mem_migrations /\ z = ties'
        OBVIOUS
      <4>2. m \in Nat /\ z \in Nat /\ ties <= z /\ m + a + b <= changes + turnover + ties
        BY ONLY <1>4, <1>5, <3>3, <4>1
      <4>3. m + 0 + b <= changes + turnover + z
        BY ONLY <1>3, <1>5, <4>2
      <4> QED BY <4>1, <4>3
    <3>5. numa_mem_migrations' + 0 + Cardinality(Stale(latest, pages', counted'))
            <= changes' + turnover' + ties'
      BY <1>2, <2>1, <2>4, <3>4
    <3> QED BY <1>1, <2>1, <2>3, <3>2, <3>5, MemoryAfter
  <2>5. ASSUME NEW d \in Dominant,
               numa_mem_migrations' = IF last_dominant_mem_node \notin {None, d}
                                      THEN numa_mem_migrations + 1
                                      ELSE numa_mem_migrations,
               last_dominant_mem_node' = d
        PROVE  MemoryInv'
    <3>1. /\ d \in Nodes /\ node_pages[d] > 0
          /\ \A n \in Nodes : node_pages[n] > 0 => node_pages[d] >= node_pages[n]
      BY DEF Dominant, Present
    <3>2. \A n \in Nodes : node_pages[n] <= node_pages[d]
      BY <2>2, <3>1
    <3>3. \A n \in Nodes : Total(latest, n, Procs) <= Total(latest, d, Procs)
      BY <2>2, <3>1, <3>2
    <3>4. ASSUME last_dominant_mem_node \notin {None, d}, ~Tied PROVE a >= 1
      <4>1. PICK l : l = last_dominant_mem_node
        OBVIOUS
      <4>2. /\ l \in Nodes /\ l # d
            /\ Total(before, d, Procs) <= Total(before, l, Procs)
        BY <1>1, <3>1, <3>4, <4>1 DEF MemoryOK
      <4>3. PICK n \in Present : \A m \in Present \ {n} : ~(node_pages[m] >= node_pages[n])
        BY <3>1, <3>4 DEF Tied, Present
      <4>4. n = d
        BY <3>1, <3>2, <4>3 DEF Present
      <4>5. node_pages[l] < node_pages[d]
        BY <2>2, <3>1, <4>2, <4>3, <4>4 DEF Present
      <4>6. latest # before
        BY <2>2, <3>1, <4>2, <4>5
      <4>7. Differ(before, latest) # {}
        BY <1>1, <4>6 DEF Differ
      <4> QED BY <1>2, <1>3, <4>7, DifferFacts, FS_EmptySet
    <3>5. numa_mem_migrations' + 0 + b <= changes + turnover + ties'
      <4>1. CASE Tied
        <5>1. ties' = ties + 1
          BY <2>1, <4>1
        <5>2. numa_mem_migrations' \in Nat /\ numa_mem_migrations' <= numa_mem_migrations + 1
          BY <1>5, <2>5
        <5>3. numa_mem_migrations' + 0 + b <= changes + turnover + (ties + 1)
          <6>1. PICK m, z : m = numa_mem_migrations /\ z = numa_mem_migrations'
            OBVIOUS
          <6>2. m \in Nat /\ z \in Nat /\ z <= m + 1 /\ m + a + b <= changes + turnover + ties
            BY ONLY <1>4, <1>5, <5>2, <6>1
          <6>3. z + 0 + b <= changes + turnover + (ties + 1)
            BY ONLY <1>3, <1>5, <6>2
          <6> QED BY <6>1, <6>3
        <5> QED BY <5>1, <5>3
      <4>2. CASE ~Tied
        <5>1. ties' = ties
          BY <2>1, <4>2
        <5>2. numa_mem_migrations' \in Nat /\ numa_mem_migrations' <= numa_mem_migrations + a
          BY <1>3, <1>5, <2>5, <3>4, <4>2
        <5>3. numa_mem_migrations' + 0 + b <= changes + turnover + ties
          <6>1. PICK m, z : m = numa_mem_migrations /\ z = numa_mem_migrations'
            OBVIOUS
          <6>2. m \in Nat /\ z \in Nat /\ z <= m + a /\ m + a + b <= changes + turnover + ties
            BY ONLY <1>4, <1>5, <5>2, <6>1
          <6>3. z + 0 + b <= changes + turnover + ties
            BY ONLY <1>3, <1>5, <6>2
          <6> QED BY <6>1, <6>3
        <5> QED BY <5>1, <5>3
      <4> QED BY <4>1, <4>2
    <3>6. numa_mem_migrations' + 0 + Cardinality(Stale(latest, pages', counted'))
            <= changes' + turnover' + ties'
      BY <1>2, <2>1, <3>5
    <3> QED BY <1>1, <2>1, <2>3, <2>5, <3>1, <3>3, <3>6, MemoryAfter
  <2> QED BY <1>15, <2>4, <2>5 DEF EndMemory
<1> QED BY <1>7, <1>8, <1>9, <1>10, <1>11, <1>12, <1>13, <1>14, <1>15 DEF NumaNext

\* What is reported never runs ahead of what was counted.
ReportedInv ==
  /\ cpu_stats \in [Counts -> MonitoredValueType]
  /\ \A c \in Counts : cpu_stats[c].offset = 0
  /\ cpu_stats["numa_migrations"].value <= numa_migrations
  /\ cpu_stats["numa_nodes_used"].value <= Cardinality(nodes_seen)
  /\ cpu_stats["numa_mem_migrations"].value <= numa_mem_migrations

LEMMA SetOne ==
  ASSUME NEW values \in [Counts -> MonitoredValueType],
         \A e \in Counts : values[e].offset = 0,
         NEW c \in Counts, NEW x \in Nat, NEW new, new = Set(values, c, x)
  PROVE  /\ new \in [Counts -> MonitoredValueType]
         /\ \A e \in Counts : new[e].offset = 0
         /\ \A e \in Counts \ {c} : new[e] = values[e]
         /\ new[c].value = values[c].value \/ new[c].value = x
<1>1. PICK w : w = SetValue(values[c], x)
  OBVIOUS
<1>2. /\ w \in MonitoredValueType /\ w.offset = values[c].offset
      /\ w.value = values[c].value \/ w.value = x - values[c].offset
  BY <1>1, SetValueFacts
<1>3. new = [values EXCEPT ![c] = w]
  BY <1>1 DEF Set
<1>4. new[c] = w /\ \A e \in Counts \ {c} : new[e] = values[e]
  BY <1>3
<1>5. new \in [Counts -> MonitoredValueType]
  BY <1>2, <1>3
<1>6. w.offset = 0 /\ (w.value = values[c].value \/ w.value = x)
  BY <1>2
<1> QED BY <1>4, <1>5, <1>6

LEMMA ReportedInit == NumaInit => ReportedInv
<1> SUFFICES ASSUME NumaInit PROVE ReportedInv
  OBVIOUS
<1>1. PICK v : v = NewMonitoredValue(TRUE, 0)
  OBVIOUS
<1>2. v \in MonitoredValueType /\ v.offset = 0 /\ v.value = 0
  BY <1>1, NewValueType, TRUE \in BOOLEAN, 0 \in Nat
<1>3. cpu_stats = [c \in Counts |-> v]
  BY <1>1 DEF NumaInit
<1>4. \A c \in Counts : cpu_stats[c].offset = 0 /\ cpu_stats[c].value = 0
  BY <1>2, <1>3
<1>5. cpu_stats \in [Counts -> MonitoredValueType]
  BY <1>2, <1>3
<1>6. numa_migrations = 0 /\ numa_mem_migrations = 0 /\ Cardinality(nodes_seen) = 0
  BY FS_EmptySet DEF NumaInit
<1> QED BY <1>4, <1>5, <1>6 DEF ReportedInv, Counts

\* The values set twice, the counters possibly larger than before.
LEMMA ReportedStep ==
  NumaShape /\ ThreadInv /\ ReportedInv /\ [NumaNext]_numaVars => ReportedInv'
<1> SUFFICES ASSUME NumaShape, ThreadInv, ReportedInv, [NumaNext]_numaVars
             PROVE  ReportedInv'
  OBVIOUS
<1>0. NumaShape'
  BY NumaShapeStep
<1>1. PICK v : v = cpu_stats
  OBVIOUS
<1>2. /\ v \in [Counts -> MonitoredValueType] /\ \A c \in Counts : v[c].offset = 0
      /\ v["numa_migrations"].value <= numa_migrations
      /\ v["numa_nodes_used"].value <= Cardinality(nodes_seen)
      /\ v["numa_mem_migrations"].value <= numa_mem_migrations
  BY <1>1 DEF ReportedInv
<1>3. \A c \in Counts : v[c].value \in Nat
  BY <1>2 DEF MonitoredValueType
<1>4. /\ numa_migrations \in Nat /\ numa_mem_migrations \in Nat
      /\ numa_migrations' \in Nat /\ numa_mem_migrations' \in Nat
      /\ nodes_seen \in SUBSET Nodes /\ nodes_seen' \in SUBSET Nodes
      /\ mem_nodes_seen' \in SUBSET Nodes
  BY <1>0 DEF NumaShape
<1>5. /\ Cardinality(nodes_seen) \in Nat /\ Cardinality(nodes_seen') \in Nat
      /\ Cardinality(mem_nodes_seen') \in Nat
      /\ IsFiniteSet(nodes_seen')
  BY <1>4, NumaSets
<1>6. ASSUME cpu_stats' = cpu_stats, numa_migrations <= numa_migrations',
             nodes_seen \subseteq nodes_seen', numa_mem_migrations' = numa_mem_migrations
      PROVE  ReportedInv'
  <2>1. Cardinality(nodes_seen) <= Cardinality(nodes_seen')
    BY <1>5, <1>6, FS_Subset
  <2>2. v["numa_migrations"].value <= numa_migrations'
    <3>1. v["numa_migrations"].value \in Nat
      BY <1>3 DEF Counts
    <3> QED BY <1>2, <1>4, <1>6, <3>1
  <2>3. v["numa_nodes_used"].value <= Cardinality(nodes_seen')
    <3>1. v["numa_nodes_used"].value \in Nat
      BY <1>3 DEF Counts
    <3> QED BY <1>2, <1>5, <2>1, <3>1
  <2> QED BY <1>1, <1>2, <1>6, <2>2, <2>3 DEF ReportedInv, Counts
<1>7. CASE StartLocality \/ NumaTerminated \/ UNCHANGED numaVars
  <2>1. /\ cpu_stats' = cpu_stats /\ numa_migrations' = numa_migrations
        /\ nodes_seen' = nodes_seen /\ numa_mem_migrations' = numa_mem_migrations
    BY <1>7 DEF StartLocality, NumaTerminated, numaVars, memVars, threadVars
  <2> QED BY <1>4, <1>6, <2>1
<1>8. ASSUME NEW p \in Procs, NEW readable \in BOOLEAN,
             ListThreads(p) \/ ReadNumaMaps(p, readable)
      PROVE  ReportedInv'
  <2>1. /\ cpu_stats' = cpu_stats /\ numa_migrations' = numa_migrations
        /\ nodes_seen' = nodes_seen /\ numa_mem_migrations' = numa_mem_migrations
    BY <1>8 DEF ListThreads, ReadNumaMaps, memVars, threadVars
  <2> QED BY <1>4, <1>6, <2>1
<1>9. ASSUME Event PROVE ReportedInv'
  <2>1. /\ cpu_stats' = cpu_stats /\ numa_migrations' = numa_migrations
        /\ nodes_seen' = nodes_seen /\ numa_mem_migrations' = numa_mem_migrations
    BY <1>9 DEF Event, memVars, threadVars
  <2> QED BY <1>4, <1>6, <2>1
<1>10. ASSUME NEW t \in Tids, ReadThread(t) PROVE ReportedInv'
  <2>1. /\ cpu_stats' = cpu_stats /\ numa_mem_migrations' = numa_mem_migrations
        /\ nodes_seen \subseteq nodes_seen'
    BY <1>10 DEF ReadThread, memVars, threadVars
  <2>2. numa_migrations' = numa_migrations \/ numa_migrations' = numa_migrations + 1
    BY <1>10 DEF ReadThread, threadVars
  <2>3. numa_migrations <= numa_migrations'
    BY <1>4, <2>2
  <2> QED BY <1>6, <2>1, <2>3
<1>11. CASE EndThreads
  <2>1. PICK x, y, u, w : /\ x = Cardinality(nodes_seen) /\ y = numa_migrations
                          /\ u = Set(v, "numa_nodes_used", x)
                          /\ w = Set(u, "numa_migrations", y)
    OBVIOUS
  <2>2. /\ cpu_stats' = w /\ numa_migrations' = numa_migrations
        /\ nodes_seen' = nodes_seen /\ numa_mem_migrations' = numa_mem_migrations
    BY <1>1, <1>11, <2>1 DEF EndThreads, threadVars
  <2>3. "numa_nodes_used" \in Counts /\ "numa_migrations" \in Counts
        /\ "numa_mem_migrations" \in Counts /\ x \in Nat /\ y \in Nat
    BY <1>4, <1>5, <2>1 DEF Counts
  <2>4. /\ u \in [Counts -> MonitoredValueType] /\ \A e \in Counts : u[e].offset = 0
        /\ \A e \in Counts \ {"numa_nodes_used"} : u[e] = v[e]
        /\ u["numa_nodes_used"].value = v["numa_nodes_used"].value
           \/ u["numa_nodes_used"].value = x
    BY <1>2, <2>1, <2>3, SetOne
  <2>5. /\ w \in [Counts -> MonitoredValueType] /\ \A e \in Counts : w[e].offset = 0
        /\ \A e \in Counts \ {"numa_migrations"} : w[e] = u[e]
        /\ w["numa_migrations"].value = u["numa_migrations"].value
           \/ w["numa_migrations"].value = y
    BY <2>1, <2>3, <2>4, SetOne
  <2>6. /\ w["numa_nodes_used"] = u["numa_nodes_used"]
        /\ w["numa_mem_migrations"] = v["numa_mem_migrations"]
        /\ u["numa_migrations"] = v["numa_migrations"]
    BY <2>3, <2>4, <2>5
  <2>7. w["numa_migrations"].value <= numa_migrations
    BY <1>2, <1>4, <2>1, <2>5, <2>6
  <2>8. w["numa_nodes_used"].value <= Cardinality(nodes_seen)
    BY <1>2, <1>5, <2>1, <2>4, <2>6
  <2> QED BY <1>2, <2>2, <2>5, <2>6, <2>7, <2>8 DEF ReportedInv, Counts
<1>12. CASE EndMemory
  <2>1. PICK x, y, u, w : /\ x = Cardinality(mem_nodes_seen') /\ y = numa_mem_migrations'
                          /\ u = Set(v, "numa_mem_nodes_used", x)
                          /\ w = Set(u, "numa_mem_migrations", y)
    OBVIOUS
  <2>2. /\ cpu_stats' = w /\ numa_migrations' = numa_migrations
        /\ nodes_seen' = nodes_seen
    BY <1>1, <1>12, <2>1 DEF EndMemory, threadVars
  <2>3. "numa_mem_nodes_used" \in Counts /\ "numa_mem_migrations" \in Counts
        /\ "numa_nodes_used" \in Counts /\ "numa_migrations" \in Counts
        /\ x \in Nat /\ y \in Nat
    BY <1>4, <1>5, <2>1 DEF Counts
  <2>4. /\ u \in [Counts -> MonitoredValueType] /\ \A e \in Counts : u[e].offset = 0
        /\ \A e \in Counts \ {"numa_mem_nodes_used"} : u[e] = v[e]
    BY <1>2, <2>1, <2>3, SetOne
  <2>5. /\ w \in [Counts -> MonitoredValueType] /\ \A e \in Counts : w[e].offset = 0
        /\ \A e \in Counts \ {"numa_mem_migrations"} : w[e] = u[e]
        /\ w["numa_mem_migrations"].value = u["numa_mem_migrations"].value
           \/ w["numa_mem_migrations"].value = y
    BY <2>1, <2>3, <2>4, SetOne
  <2>6. /\ w["numa_nodes_used"] = v["numa_nodes_used"]
        /\ w["numa_migrations"] = v["numa_migrations"]
        /\ u["numa_mem_migrations"] = v["numa_mem_migrations"]
    BY <2>3, <2>4, <2>5
  <2>7. numa_mem_migrations <= y
    <3>1. y = numa_mem_migrations \/ y = numa_mem_migrations + 1
      BY <1>12, <2>1 DEF EndMemory
    <3> QED BY <1>4, <3>1
  <2>8. v["numa_mem_migrations"].value <= y
    <3>1. v["numa_mem_migrations"].value \in Nat
      BY <1>3, <2>3
    <3> QED BY <1>2, <1>4, <2>3, <2>7, <3>1
  <2>9. w["numa_mem_migrations"].value <= y
    BY <2>3, <2>5, <2>6, <2>8
  <2> QED BY <1>2, <2>1, <2>2, <2>5, <2>6, <2>9 DEF ReportedInv, Counts
<1> QED BY <1>7, <1>8, <1>9, <1>10, <1>11, <1>12
        DEF NumaNext, ThreadEnds, ThreadStarts, ThreadMoves, PagesChange

NumaInv == NumaShape /\ ThreadInv /\ MemoryInv /\ ReportedInv

LEMMA NumaInvariant == NumaSpec => []NumaInv
<1>1. NumaInit => NumaInv
  BY NumaShapeInit, ThreadInit, MemoryInit, ReportedInit DEF NumaInv
<1>2. NumaInv /\ [NumaNext]_numaVars => NumaInv'
  BY NumaShapeStep, ThreadStep, MemoryStep, ReportedStep DEF NumaInv
<1> QED BY <1>1, <1>2, PTL DEF NumaSpec

\* For any number of threads and nodes, however samples, moves, ends and new
\* uses of identifiers interleave, a migration is reported only for a move or
\* a new use, and no node is reported that no thread ran on
\* (cpumon.cpp:58-75).
THEOREM MigrationsCorrect == NumaSpec => []MigrationsExplained
<1>1. NumaInv => MigrationsExplained
  <2> SUFFICES ASSUME NumaInv PROVE MigrationsExplained
    OBVIOUS
  <2>1. PICK v, x, k, n, s : /\ v = cpu_stats["numa_migrations"].value
                             /\ x = cpu_stats["numa_nodes_used"].value
                             /\ k = Cardinality(Owed) /\ n = Cardinality(nodes_seen)
                             /\ s = Cardinality(visited)
    OBVIOUS
  <2>2. /\ numa_migrations \in Nat /\ moves \in Nat /\ reuses \in Nat
        /\ nodes_seen \in SUBSET visited /\ visited \in SUBSET Nodes
        /\ nodes_seen \in SUBSET Nodes
    BY DEF NumaInv, NumaShape
  <2>3. v \in Nat /\ x \in Nat
    BY <2>1 DEF NumaInv, ReportedInv, MonitoredValueType, Counts
  <2>4. Owed \in SUBSET Tids
    BY DEF Owed
  <2>5. k \in Nat /\ n \in Nat /\ s \in Nat /\ IsFiniteSet(visited)
    BY <2>1, <2>2, <2>4, NumaSets
  <2>6. n <= s
    BY <2>1, <2>2, <2>5, FS_Subset
  <2>7. v <= numa_migrations /\ x <= n /\ numa_migrations + k <= moves + reuses
    BY <2>1 DEF NumaInv, ReportedInv, ThreadInv
  <2>8. v <= moves + reuses /\ x <= s
    BY ONLY <2>2, <2>3, <2>5, <2>6, <2>7
  <2> QED BY <2>1, <2>8 DEF MigrationsExplained, get_text_stats
<1> QED BY <1>1, NumaInvariant, PTL

\* For any number of processes and nodes, and with another list of processes
\* in every sample, every memory migration reported is explained by a change
\* of the memory of its own, by a process of its own that came into what is
\* counted or dropped out of it, or by a sample in which no node was dominant
\* (prmon.cpp:149-156, cpumon.cpp:79-99).
THEOREM MemoryMigrationsCorrect == NumaSpec => []MemoryMigrationsExplained
<1>1. NumaInv => MemoryMigrationsExplained
  <2> SUFFICES ASSUME NumaInv PROVE MemoryMigrationsExplained
    OBVIOUS
  <2>1. PICK before, latest : MemoryOK(before, latest)
    BY DEF NumaInv, MemoryInv
  <2>2. PICK v, a, b : /\ v = cpu_stats["numa_mem_migrations"].value
                       /\ a = Cardinality(Differ(before, latest))
                       /\ b = Cardinality(Stale(latest, pages, counted))
    OBVIOUS
  <2>3. v \in Nat
    BY <2>2 DEF NumaInv, ReportedInv, MonitoredValueType, Counts
  <2>4. a \in Nat /\ b \in Nat
    BY <2>2, DifferFacts, StaleFacts DEF NumaInv, NumaShape
  <2>5. /\ numa_mem_migrations \in Nat /\ changes \in Nat /\ ties \in Nat
        /\ turnover \in Nat
    BY DEF NumaInv, NumaShape
  <2>6. /\ v <= numa_mem_migrations
        /\ numa_mem_migrations + a + b <= changes + turnover + ties
    BY <2>1, <2>2 DEF NumaInv, ReportedInv, MemoryOK
  <2>7. v <= changes + turnover + ties
    BY ONLY <2>3, <2>4, <2>5, <2>6
  <2> QED BY <2>2, <2>7 DEF MemoryMigrationsExplained, get_text_stats
<1> QED BY <1>1, NumaInvariant, PTL
=============================================================================
