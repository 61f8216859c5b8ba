-------------------------- MODULE NvidiaMonProofs --------------------------
(* nvidiamon for any number of GPUs, processes and samples: NVML is used and *)
(* shut down in balance, no utilisation sample is added up twice, and the    *)
(* values and maxima are those of the totals.                                *)
EXTENDS NvidiaMon, SumsProofs, SequenceTheorems

---------------------------------------------------------------------------
(* The library.                                                            *)

\* NVML is the method in use.
Using == active_method = "NVML" /\ pc # "destroyed"

Construction == {"load", "resolve", "load_error", "init", "count", "smi_test", "drop"}

\* LibraryBalanced looks at single moments; this says where in the life of
\* the monitor the library is open and NVML initialised.
LifeInv ==
  /\ pc \in Construction \cup {"idle", "nvml", "smi", "aborted", "destroyed"}
  /\ pc \in Construction => active_method = "NONE"
  /\ pc = "nvml" => active_method = "NVML"
  /\ pc \in {"smi", "aborted"} => active_method # "NVML"
  /\ nvml_handle => opened = 1
  /\ ~nvml_handle => opened = 0
  /\ initialised = IF pc = "count" \/ Using THEN 1 ELSE 0
  /\ (pc \in {"resolve", "load_error", "init", "count"} \/ Using) => nvml_handle
  /\ pc = "load" => ~nvml_handle
  /\ pc = "destroyed" => ~nvml_handle

LEMMA LifeInit == Init => LifeInv
  BY DEF Init, LifeInv, Using, Construction

\* Samples do not touch what construction has set up.
LEMMA SamplesKeepLife ==
  ASSUME LifeInv, UNCHANGED lifeVars,
         \/ UNCHANGED pc
         \/ pc = "idle" /\ pc' = "nvml" /\ active_method = "NVML"
         \/ pc = "idle" /\ pc' \in {"smi", "idle"} /\ active_method # "NVML"
         \/ pc = "smi" /\ pc' = "aborted"
         \/ pc \in {"nvml", "smi"} /\ pc' = "idle"
  PROVE  LifeInv'
  BY DEF LifeInv, Using, lifeVars, Construction

LEMMA LifeStep == LifeInv /\ [Next]_vars => LifeInv'
<1> SUFFICES ASSUME LifeInv, [Next]_vars
             PROVE  LifeInv'
  OBVIOUS
<1>1. CASE LoadNvmlLib
  BY <1>1 DEF LoadNvmlLib, Constructing, lifeVars, LifeInv, Using, Construction
<1>2. CASE NvmlInit
  BY <1>2 DEF NvmlInit, Constructing, lifeVars, LifeInv, Using, Construction
<1>3. CASE CountGpus
  BY <1>3 DEF CountGpus, Constructing, lifeVars, LifeInv, Using, Construction
<1>4. CASE TestNvidiaSmi
  BY <1>4 DEF TestNvidiaSmi, Constructing, lifeVars, LifeInv, Using, Construction
<1>5. CASE Destroy
  BY <1>5 DEF Destroy, LifeInv, Using, Construction
<1>6. CASE BeginNvml \/ BeginSmi \/ SmiFails
  BY <1>6, SamplesKeepLife DEF BeginNvml, BeginSmi, SmiFails, BeginUpdate
<1>7. CASE SkipDevice \/ SkipAfterSamples \/ QueryDevice
  BY <1>7, SamplesKeepLife DEF SkipDevice, SkipAfterSamples, QueryDevice, AtDevice
<1>8. CASE SkipLine \/ LineAborts \/ ReadLine
  BY <1>8, SamplesKeepLife DEF SkipLine, LineAborts, ReadLine, AtLine
<1>9. CASE EndNvml \/ EndSmi
  BY <1>9, SamplesKeepLife DEF EndNvml, EndSmi
<1>10. CASE \E g \in Gpus, p \in Pids : DriverSamples(g, p)
  BY <1>10, SamplesKeepLife DEF DriverSamples
<1>11. CASE Terminated \/ UNCHANGED vars
  BY <1>11, SamplesKeepLife DEF Terminated, vars
<1>12. CASE ResolveSymbols
  BY <1>12 DEF ResolveSymbols, Constructing, lifeVars, LifeInv, Using, Construction
<1>13. CASE LoadError
  BY <1>13 DEF LoadError, Constructing, lifeVars, LifeInv, Using, Construction
<1> QED
  BY <1>1, <1>2, <1>3, <1>4, <1>5, <1>6, <1>7, <1>8, <1>9, <1>10, <1>11, <1>12, <1>13
     DEF Next

\* Whichever way construction fails, NVML is used only while it is initialised
\* and is shut down, and its library closed, by the end.
THEOREM LibraryCorrect == Spec => []LibraryBalanced
<1>1. LifeInv => LibraryBalanced
  BY DEF LifeInv, LibraryBalanced, Using
<1> QED
  BY <1>1, LifeInit, LifeStep, PTL DEF Spec

---------------------------------------------------------------------------
(* The time stamps.                                                        *)

Stamps == 0..MaxTimeStamp

\* A non-empty set of time stamps has a largest one.
LEMMA MaxStamp ==
  ASSUME NEW S \in SUBSET Stamps, S # {}
  PROVE  Max(S) \in S /\ \A t \in S : t <= Max(S)
<1> DEFINE T == {MaxTimeStamp - t : t \in S}
<1>0. MaxTimeStamp \in Nat
  BY BoundsAssumption
<1>1. T \in SUBSET Nat /\ T # {}
  <2>1. \A t \in S : MaxTimeStamp - t \in Nat
    BY <1>0 DEF Stamps
  <2> QED BY <2>1
<1>2. PICK x \in T : \A y \in T : x <= y
  <2> HIDE DEF T
  <2> QED BY <1>1, LeastNat
<1>4. PICK m \in S : x = MaxTimeStamp - m
  OBVIOUS
<1>5. ASSUME NEW t \in S
      PROVE  m >= t
  <2>1. MaxTimeStamp - t \in T
    OBVIOUS
  <2>2. MaxTimeStamp - m <= MaxTimeStamp - t
    BY <1>2, <1>4, <2>1
  <2>3. t \in Int /\ m \in Int
    BY <1>0 DEF Stamps
  <2> QED BY <1>0, <2>2, <2>3
<1>6. Max(S) \in S /\ \A t \in S : Max(S) >= t
  BY <1>5 DEF Max
<1> QED
  BY <1>0, <1>6 DEF Stamps

\* Why no sample is counted twice: what was counted is no newer than
\* last_seen_timestamp, or was counted in this very pass, on a GPU that is
\* behind it.
StampInv ==
  /\ util \in [Gpus -> [Pids -> Stamps]]
  /\ gpu_idx \in 0..ngpus
  /\ last_seen_timestamp \in Stamps /\ current_max_timestamp \in Stamps
  /\ pc = "nvml" => last_seen_timestamp <= current_max_timestamp
  /\ \A c \in counted :
       /\ c[1] \in Gpus /\ c[3] \in Stamps
       /\ \/ c[3] <= last_seen_timestamp
          \/ pc = "nvml" /\ c[1] < gpu_idx /\ c[3] <= current_max_timestamp

stampVars == <<util, nvmlVars, counted>>

LEMMA StampInit == Init => StampInv
  BY GpusAssumption, BoundsAssumption DEF Init, StampInv, Stamps, Gpus

\* While a GPU is queried, the newest stamp covers all that is added up.
LEMMA NewestCovers ==
  ASSUME StampInv, gpu_idx \in Gpus
  PROVE  /\ NewestSample \in Stamps /\ current_max_timestamp <= NewestSample
         /\ \A p \in NewSamples(gpu_idx) : util[gpu_idx][p] <= NewestSample
<1> DEFINE S == {current_max_timestamp} \cup
                {util[gpu_idx][p] : p \in NewSamples(gpu_idx)}
<1>1. S \in SUBSET Stamps /\ S # {}
  BY DEF StampInv, NewSamples
<1>2. Max(S) \in S /\ \A t \in S : t <= Max(S)
  <2> HIDE DEF S
  <2> QED BY <1>1, MaxStamp
<1> QED
  BY <1>1, <1>2 DEF NewestSample

\* A step of the pass over the GPUs: the stamp may rise to the newest sample,
\* and samples newer than the last pass may be added.
LEMMA DeviceKeepsStamps ==
  ASSUME StampInv, AtDevice,
         current_max_timestamp' \in {current_max_timestamp, NewestSample},
         \A c \in counted' \ counted :
            /\ current_max_timestamp' = NewestSample
            /\ \E p \in NewSamples(gpu_idx) : c = <<gpu_idx, p, util[gpu_idx][p]>>
  PROVE  StampInv'
<1>1. gpu_idx \in Gpus /\ gpu_idx \in Int /\ gpu_idx' = gpu_idx + 1 /\ gpu_idx' \in 0..ngpus
  BY GpusAssumption DEF AtDevice, StampInv, Gpus
<1>2. UNCHANGED <<pc, last_seen_timestamp, util>> /\ pc = "nvml"
  BY DEF AtDevice
<1>3. /\ current_max_timestamp' \in Stamps
      /\ current_max_timestamp <= current_max_timestamp'
  BY <1>1, NewestCovers, BoundsAssumption DEF StampInv, Stamps
<1>4. last_seen_timestamp' <= current_max_timestamp'
  BY <1>2, <1>3, BoundsAssumption DEF StampInv, Stamps
<1>5. ASSUME NEW c \in counted'
      PROVE  /\ c[1] \in Gpus /\ c[3] \in Stamps
             /\ \/ c[3] <= last_seen_timestamp
                \/ c[1] < gpu_idx' /\ c[3] <= current_max_timestamp'
  <2>1. CASE c \in counted
    BY <1>1, <1>2, <1>3, <2>1, BoundsAssumption, GpusAssumption
       DEF StampInv, Stamps, Gpus
  <2>2. CASE c \notin counted
    <3>1. PICK p \in NewSamples(gpu_idx) : c = <<gpu_idx, p, util[gpu_idx][p]>>
      BY <2>2
    <3>2. c[1] = gpu_idx /\ c[3] = util[gpu_idx][p] /\ c[3] \in Stamps
      BY <1>1, <3>1 DEF StampInv, NewSamples
    <3>3. c[3] <= current_max_timestamp'
      BY <1>1, <2>2, <3>1, <3>2, NewestCovers
    <3> QED
      BY <1>1, <3>2, <3>3
  <2> QED
    BY <2>1, <2>2
<1> QED
  BY <1>1, <1>2, <1>3, <1>4, <1>5 DEF StampInv

LEMMA StampStep == StampInv /\ [Next]_vars => StampInv'
<1> SUFFICES ASSUME StampInv, [Next]_vars
             PROVE  StampInv'
  OBVIOUS
<1>1. CASE UNCHANGED stampVars /\ (UNCHANGED pc \/ (pc # "nvml" /\ pc' # "nvml"))
  BY <1>1 DEF stampVars, nvmlVars, StampInv
<1>2. CASE \/ LoadNvmlLib \/ ResolveSymbols \/ LoadError \/ NvmlInit \/ CountGpus
           \/ TestNvidiaSmi \/ Destroy
  <2>1. UNCHANGED stampVars /\ pc # "nvml" /\ pc' # "nvml"
    BY <1>2 DEF LoadNvmlLib, ResolveSymbols, LoadError, NvmlInit, CountGpus,
                TestNvidiaSmi, Destroy, Constructing, stampVars, histVars
  <2> QED BY <1>1, <2>1
<1>3. CASE BeginNvml
  BY <1>3, GpusAssumption, BoundsAssumption
     DEF BeginNvml, BeginUpdate, histVars, StampInv, Stamps
<1>4. CASE SkipDevice \/ SkipAfterSamples
  BY <1>4, DeviceKeepsStamps DEF SkipDevice, SkipAfterSamples
<1>5. CASE QueryDevice
  BY <1>5, DeviceKeepsStamps DEF QueryDevice
<1>6. CASE EndNvml
  BY <1>6, BoundsAssumption DEF EndNvml, StampInv, Stamps
<1>7. CASE BeginSmi \/ SmiFails \/ SkipLine \/ LineAborts \/ ReadLine \/ EndSmi
  <2>1. UNCHANGED stampVars /\ pc # "nvml" /\ pc' # "nvml"
    BY <1>7 DEF BeginSmi, SmiFails, SkipLine, LineAborts, ReadLine, EndSmi, AtLine,
                BeginUpdate, stampVars, histVars
  <2> QED BY <1>1, <2>1
<1>8. ASSUME NEW g \in Gpus, NEW p \in Pids, DriverSamples(g, p)
      PROVE  StampInv'
  <2> DEFINE S == {util[h][q] : h \in Gpus, q \in Pids}
  <2>1. S \in SUBSET Stamps /\ S # {}
    <3>1. \A h \in Gpus, q \in Pids : util[h][q] \in Stamps
      BY DEF StampInv
    <3>2. util[g][p] \in S
      OBVIOUS
    <3>3. ASSUME NEW t \in S
          PROVE  t \in Stamps
      <4>1. PICK h \in Gpus, q \in Pids : t = util[h][q]
        OBVIOUS
      <4> QED BY <3>1, <4>1
    <3> HIDE DEF S
    <3> QED BY <3>2, <3>3
  <2>2. Max(S) \in S
    <3> HIDE DEF S
    <3> QED BY <2>1, MaxStamp
  <2>3. Clock \in Stamps
    BY <2>1, <2>2 DEF Clock
  <2>4. Clock + 1 \in Stamps
    BY <1>8, <2>3, BoundsAssumption DEF DriverSamples, Stamps
  <2>5. util' \in [Gpus -> [Pids -> Stamps]]
    BY <1>8, <2>4 DEF DriverSamples, StampInv
  <2> QED
    BY <1>8, <2>5 DEF DriverSamples, nvmlVars, histVars, StampInv
<1>9. CASE Terminated \/ UNCHANGED vars
  BY <1>1, <1>9 DEF Terminated, vars, stampVars, histVars
<1> QED
  BY <1>2, <1>3, <1>4, <1>5, <1>6, <1>7, <1>8, <1>9 DEF Next

\* No utilisation sample of the driver is added up in two samples of prmon,
\* although one time stamp serves all GPUs and any of them may be skipped.
THEOREM OnceCorrect == Spec => EachSampleOnce
<1> DEFINE Once == QueryDevice =>
             \A p \in pids \cap NewSamples(gpu_idx) :
                <<gpu_idx, p, util[gpu_idx][p]>> \notin counted
<1>1. StampInv => Once
  <2> SUFFICES ASSUME StampInv, QueryDevice, NEW p \in pids \cap NewSamples(gpu_idx),
                      <<gpu_idx, p, util[gpu_idx][p]>> \in counted
               PROVE  FALSE
    OBVIOUS
  <2>1. gpu_idx \in Gpus /\ util[gpu_idx][p] \in Stamps
    BY GpusAssumption DEF QueryDevice, AtDevice, StampInv, Gpus, NewSamples
  <2>2. util[gpu_idx][p] <= last_seen_timestamp \/ gpu_idx < gpu_idx
    BY DEF StampInv
  <2> QED
    BY <2>1, <2>2, GpusAssumption, BoundsAssumption
       DEF StampInv, NewSamples, Stamps, Gpus
<1>2. StampInv /\ [Next]_vars => [Once]_vars
  BY <1>1
<1>3. Spec => []StampInv
  BY StampInit, StampStep, PTL DEF Spec
<1> QED
  BY <1>2, <1>3, PTL DEF Spec, EachSampleOnce
---------------------------------------------------------------------------
(* The totals.                                                             *)

\* One line off the front of what is still to be read.
LEMMA LineByLine ==
  ASSUME NEW out \in Seq(Lines), out # <<>>, NEW ps \in SUBSET Pids
  PROVE  LET l == Head(out)
         IN  /\ Tail(out) \in Seq(Lines)
             /\ SmOf(out, ps) \in Seq(Nat) /\ FbOf(out, ps) \in Seq(Nat)
             /\ SumOf(SmOf(out, ps))
                  = (IF Ours(l, ps) THEN l.sm ELSE 0) + SumOf(SmOf(Tail(out), ps))
             /\ SumOf(FbOf(out, ps))
                  = (IF Ours(l, ps) THEN l.fb * MB_to_KB ELSE 0)
                    + SumOf(FbOf(Tail(out), ps))
             /\ GpusOf(out, ps)
                  = (IF Ours(l, ps) THEN {l.gpu} ELSE {}) \cup GpusOf(Tail(out), ps)
<1> DEFINE t == Tail(out)
<1>1. /\ t \in Seq(Lines) /\ Len(out) \in Nat /\ Len(t) \in Nat
      /\ Len(out) = Len(t) + 1 /\ Head(out) = out[1]
      /\ \A i \in 1..Len(t) : t[i] = out[i + 1]
  OBVIOUS
<1>2. \A i \in 1..Len(out) : Ours(out[i], ps) => out[i] \in Readable
  <2>1. \A i \in 1..Len(out) : out[i] \in Readable \cup {Unreadable, Malformed}
    BY DEF Lines
  <2> QED BY <2>1 DEF Ours, IsReadable
<1>3. \A l \in Readable : l.sm \in Nat /\ l.fb * MB_to_KB \in Nat
  <2> TAKE l \in Readable
  <2>1. l.sm \in Nat /\ l.fb \in Nat
    BY ReadingsAssumption DEF Readable
  <2> QED BY <2>1 DEF MB_to_KB
<1> HIDE DEF t
<1>4. SmOf(out, ps) \in Seq(Nat) /\ FbOf(out, ps) \in Seq(Nat)
  BY <1>1, <1>2, <1>3 DEF SmOf, FbOf
<1>5. /\ SmOf(out, ps) # <<>> /\ FbOf(out, ps) # <<>>
      /\ Head(SmOf(out, ps)) = IF Ours(out[1], ps) THEN out[1].sm ELSE 0
      /\ Head(FbOf(out, ps)) = IF Ours(out[1], ps) THEN out[1].fb * MB_to_KB ELSE 0
  BY <1>1, <1>4 DEF SmOf, FbOf
<1>10. \A i \in 1..Len(t) : Ours(t[i], ps) => t[i] \in Readable
  BY <1>1, <1>2
<1>6. Tail(SmOf(out, ps)) = SmOf(t, ps)
  <2> DEFINE a == SmOf(out, ps)  b == SmOf(t, ps)
  <2>a. Len(a) = Len(t) + 1
    BY <1>1 DEF SmOf
  <2>b. \A i \in 1..Len(t) : a[i + 1] = b[i]
    <3> TAKE i \in 1..Len(t)
    <3>1. i + 1 \in 1..Len(out) /\ t[i] = out[i + 1]
      BY <1>1
    <3> QED BY <3>1 DEF SmOf
  <2>1. /\ a \in Seq(Nat) /\ Len(a) = Len(t) + 1
        /\ \A i \in 1..Len(t) : a[i + 1] = b[i]
    BY <1>4, <2>a, <2>b
  <2>2. b \in Seq(Nat) /\ Len(b) = Len(t)
    BY <1>1, <1>2, <1>3, <1>10 DEF SmOf
  <2> HIDE DEF a, b
  <2>3. /\ Tail(a) \in Seq(Nat) /\ Len(Tail(a)) = Len(t)
        /\ \A i \in 1..Len(t) : Tail(a)[i] = a[i + 1]
    BY <1>1, <2>1
  <2>4. \A i \in 1..Len(t) : Tail(a)[i] = b[i]
    BY <2>1, <2>3
  <2>5. Tail(a) = b
    BY <2>2, <2>3, <2>4, SeqEqual
  <2> QED BY <2>5 DEF a, b
<1>7. Tail(FbOf(out, ps)) = FbOf(t, ps)
  <2> DEFINE a == FbOf(out, ps)  b == FbOf(t, ps)
  <2>1. /\ a \in Seq(Nat) /\ Len(a) = Len(t) + 1
        /\ \A i \in 1..Len(t) : a[i + 1] = b[i]
    BY <1>1, <1>4 DEF FbOf
  <2>2. b \in Seq(Nat) /\ Len(b) = Len(t)
    BY <1>1, <1>2, <1>3, <1>10 DEF FbOf
  <2> HIDE DEF a, b
  <2>3. /\ Tail(a) \in Seq(Nat) /\ Len(Tail(a)) = Len(t)
        /\ \A i \in 1..Len(t) : Tail(a)[i] = a[i + 1]
    BY <1>1, <2>1
  <2>4. \A i \in 1..Len(t) : Tail(a)[i] = b[i]
    BY <2>1, <2>3
  <2>5. Tail(a) = b
    BY <2>2, <2>3, <2>4, SeqEqual
  <2> QED BY <2>5 DEF a, b
<1>8. GpusOf(out, ps) = (IF Ours(out[1], ps) THEN {out[1].gpu} ELSE {}) \cup GpusOf(t, ps)
  <2>1. ASSUME NEW g \in GpusOf(out, ps)
        PROVE  g \in (IF Ours(out[1], ps) THEN {out[1].gpu} ELSE {}) \cup GpusOf(t, ps)
    <3>1. PICK i \in 1..Len(out) : Ours(out[i], ps) /\ g = out[i].gpu
      BY DEF GpusOf
    <3>2. CASE i = 1
      BY <3>1, <3>2
    <3>3. CASE i # 1
      <4>1. i - 1 \in 1..Len(t) /\ t[i - 1] = out[i]
        BY <1>1, <3>3
      <4> QED BY <3>1, <4>1 DEF GpusOf
    <3> QED BY <3>2, <3>3
  <2>2. ASSUME NEW g \in GpusOf(t, ps) PROVE g \in GpusOf(out, ps)
    <3>1. PICK i \in 1..Len(t) : Ours(t[i], ps) /\ g = t[i].gpu
      BY DEF GpusOf
    <3>2. i + 1 \in 1..Len(out) /\ t[i] = out[i + 1]
      BY <1>1
    <3> QED BY <3>1, <3>2 DEF GpusOf
  <2>3. Ours(out[1], ps) => out[1].gpu \in GpusOf(out, ps)
    <3>1. 1 \in 1..Len(out)
      BY <1>1
    <3> QED BY <3>1 DEF GpusOf
  <2> QED BY <2>1, <2>2, <2>3
<1>9. /\ SumOf(SmOf(out, ps)) = Head(SmOf(out, ps)) + SumOf(SmOf(t, ps))
      /\ SumOf(FbOf(out, ps)) = Head(FbOf(out, ps)) + SumOf(FbOf(t, ps))
  BY <1>4, <1>5, <1>6, <1>7, SumHeadTail
<1> QED BY <1>1, <1>4, <1>5, <1>8, <1>9 DEF t

\* A non-monotonic value without offset.
Simple(w) ==
  /\ w \in MonitoredValueType /\ ~w.monotonic /\ w.offset = 0
  /\ w.value <= w.max

LEMMA SetSimple ==
  ASSUME NEW w, Simple(w), NEW v \in Nat
  PROVE  /\ Simple(SetValue(w, v)) /\ SetValue(w, v).value = v
         /\ SetValue(w, v).max = IF v > w.max THEN v ELSE w.max
<1> DEFINE p == IF v > w.max THEN v ELSE w.max
           r == SetValue(w, v)
<1>1. /\ w \in MonitoredValueType /\ w.max \in Nat /\ w.summed \in Nat
      /\ w.iterations \in Nat /\ w.offset = 0 /\ ~w.monotonic
  BY DEF Simple, MonitoredValueType
<1>2. r = [w EXCEPT !.value = v, !.max = p, !.summed = w.summed + v,
                    !.iterations = w.iterations + 1]
  <2>1. v - w.offset = v /\ Accepts(w, v)
    BY <1>1 DEF Accepts
  <2> QED BY <1>1, <2>1 DEF SetValue, Recorded, MonitoredValueType
<1>3. p \in Nat /\ v <= p /\ w.summed + v \in Nat /\ w.iterations + 1 \in Nat
  BY <1>1
<1> HIDE DEF p, r
<1>4. /\ r \in MonitoredValueType /\ r.value = v /\ r.max = p
      /\ r.monotonic = w.monotonic /\ r.offset = w.offset
  BY <1>1, <1>2, <1>3 DEF MonitoredValueType
<1> QED BY <1>1, <1>3, <1>4 DEF Simple, p, r

\* What has been added up, and what the lines still to be read will add, is
\* the total.
RestAdds ==
  /\ nvidia_stats_update["gpusmpct"] + SumOf(SmOf(lines, pids)) = current["gpusmpct"]
  /\ nvidia_stats_update["gpufbmem"] + SumOf(FbOf(lines, pids)) = current["gpufbmem"]
  /\ nvidia_stats_update["ngpus"] = Cardinality(activegpus)
  /\ current["ngpus"] = Cardinality(activegpus \cup GpusOf(lines, pids))

AnyReadable == \E i \in 1..Len(lines) : IsReadable(lines[i])

\* The values lag behind what has been added up only until the first readable
\* line; the maxima never exceed the peak, which the total at hand, not yet
\* reached, may still determine.
TotalInv ==
  /\ \A n \in Names : /\ Simple(nvidia_stats[n])
                       /\ current[n] \in Nat /\ peak[n] \in Nat
  /\ nvidia_stats_update \in [Names -> Nat]
  /\ lines \in Seq(Lines) /\ activegpus \in SUBSET Gpus /\ pids \in SUBSET Pids
  /\ TotalIfReported
  /\ pc \in Construction => ~reported
  /\ pc \notin {"smi", "aborted"} => \A n \in Names : nvidia_stats[n].max = peak[n]
  /\ pc = "smi" =>
       /\ RestAdds
       /\ \A n \in Names :
            peak[n] = IF current[n] > nvidia_stats[n].max
                      THEN current[n] ELSE nvidia_stats[n].max
       /\ reported => \/ AnyReadable
                      \/ \A n \in Names : nvidia_stats[n].value = nvidia_stats_update[n]
       /\ ~reported => /\ ~AnyReadable
                       /\ \A n \in Names : nvidia_stats_update[n] = 0

LEMMA TotalInit == Init => TotalInv
<1> SUFFICES ASSUME Init PROVE TotalInv
  OBVIOUS
<1>1. Simple(NewMonitoredValue(FALSE, 0)) /\ NewMonitoredValue(FALSE, 0).max = 0
  BY DEF Simple, NewMonitoredValue, MonitoredValueType
<1>2. \A n \in Names : Simple(nvidia_stats[n]) /\ nvidia_stats[n].max = 0
  BY <1>1 DEF Init
<1>3. \A n \in Names : current[n] = 0 /\ peak[n] = 0
  BY DEF Init, Zeros
<1>4. nvidia_stats_update \in [Names -> Nat]
  BY DEF Init, Zeros
<1>5. lines \in Seq(Lines) /\ activegpus \in SUBSET Gpus /\ pids \in SUBSET Pids
  BY DEF Init
<1>6. pc = "load" /\ ~reported
  BY DEF Init
<1> QED BY <1>2, <1>3, <1>4, <1>5, <1>6 DEF TotalInv, TotalIfReported

LEMMA GpusFinite ==
  ASSUME NEW A \in SUBSET Gpus
  PROVE  IsFiniteSet(A) /\ Cardinality(A) \in Nat
<1>1. IsFiniteSet(Gpus)
  BY GpusAssumption, FS_Interval DEF Gpus
<1> QED BY <1>1, FS_Subset, FS_CardinalityType

LEMMA GpusOfType ==
  ASSUME NEW out \in Seq(Lines), NEW ps
  PROVE  GpusOf(out, ps) \in SUBSET Gpus
<1>1. \A i \in 1..Len(out) : Ours(out[i], ps) => out[i] \in Readable
  <2>1. \A i \in 1..Len(out) : out[i] \in Readable \cup {Unreadable, Malformed}
    BY DEF Lines
  <2> QED BY <2>1 DEF Ours, IsReadable
<1> QED BY <1>1 DEF GpusOf, Readable

LEMMA SumsOfLines ==
  ASSUME NEW out \in Seq(Lines), NEW ps \in SUBSET Pids
  PROVE  SumOf(SmOf(out, ps)) \in Nat /\ SumOf(FbOf(out, ps)) \in Nat
<1>1. CASE out = <<>>
  <2>1. SmOf(out, ps) = <<>> /\ FbOf(out, ps) = <<>>
    BY <1>1 DEF SmOf, FbOf
  <2> QED BY <2>1, SumEmpty
<1>2. CASE out # <<>>
  BY <1>2, LineByLine, SumType
<1> QED BY <1>1, <1>2

\* A line that is read: what it adds to the sums it takes from the rest.
LEMMA LineAdds ==
  ASSUME TotalInv, pc = "smi", ReadLine, IsReadable(Head(lines))
  PROVE  /\ RestAdds' /\ nvidia_stats_update' \in [Names -> Nat]
         /\ activegpus' \in SUBSET Gpus
<1> DEFINE l == Head(lines)
<1>0. /\ lines # <<>> /\ lines' = Tail(lines) /\ UNCHANGED <<pids, current>>
      /\ IF l.pid \in pids
         THEN nvidia_stats_update' = Added(l) /\ activegpus' = activegpus \cup {l.gpu}
         ELSE UNCHANGED <<nvidia_stats_update, activegpus>>
  BY DEF ReadLine, AtLine, histVars
<1>1. /\ lines \in Seq(Lines) /\ pids \in SUBSET Pids /\ activegpus \in SUBSET Gpus
      /\ nvidia_stats_update \in [Names -> Nat] /\ RestAdds
  BY DEF TotalInv
<1>2. /\ Tail(lines) \in Seq(Lines)
      /\ SumOf(SmOf(lines, pids))
           = (IF Ours(l, pids) THEN l.sm ELSE 0) + SumOf(SmOf(Tail(lines), pids))
      /\ SumOf(FbOf(lines, pids))
           = (IF Ours(l, pids) THEN l.fb * MB_to_KB ELSE 0)
             + SumOf(FbOf(Tail(lines), pids))
      /\ GpusOf(lines, pids)
           = (IF Ours(l, pids) THEN {l.gpu} ELSE {}) \cup GpusOf(Tail(lines), pids)
  BY <1>0, <1>1, LineByLine
<1>3. l \in Readable /\ l.sm \in Nat /\ l.fb \in Nat /\ l.gpu \in Gpus
  <2>1. l \in Lines
    BY <1>0, <1>1
  <2>2. l \in Readable
    BY <2>1 DEF Lines, IsReadable
  <2> QED BY <2>2, ReadingsAssumption DEF Readable
<1> HIDE DEF l
<1>4. l.fb * MB_to_KB \in Nat
  BY <1>3 DEF MB_to_KB
<1>5. /\ SumOf(SmOf(Tail(lines), pids)) \in Nat
      /\ SumOf(FbOf(Tail(lines), pids)) \in Nat
  BY <1>1, <1>2, SumsOfLines
<1>6. Ours(l, pids) <=> l.pid \in pids
  BY DEF Ours, l
<1>7. CASE l.pid \notin pids
  <2>1. UNCHANGED <<nvidia_stats_update, activegpus, pids, current>>
    BY <1>0, <1>7
  <2>2. /\ SumOf(SmOf(lines, pids)) = SumOf(SmOf(Tail(lines), pids))
        /\ SumOf(FbOf(lines, pids)) = SumOf(FbOf(Tail(lines), pids))
        /\ GpusOf(lines, pids) = GpusOf(Tail(lines), pids)
    BY <1>2, <1>5, <1>6, <1>7
  <2>3. /\ SmOf(lines, pids)' = SmOf(Tail(lines), pids)
        /\ FbOf(lines, pids)' = FbOf(Tail(lines), pids)
        /\ GpusOf(lines, pids)' = GpusOf(Tail(lines), pids)
    BY <1>0 DEF SmOf, FbOf, GpusOf
  <2> QED BY <1>1, <2>1, <2>2, <2>3 DEF RestAdds
<1>8. CASE l.pid \in pids
  <2> DEFINE sm == nvidia_stats_update["gpusmpct"]
             fb == nvidia_stats_update["gpufbmem"]
             ng == nvidia_stats_update["ngpus"]
  <2>1. /\ nvidia_stats_update' = Added(l) /\ activegpus' = activegpus \cup {l.gpu}
        /\ UNCHANGED <<pids, current>>
    BY <1>0, <1>8
  <2>2. sm \in Nat /\ fb \in Nat /\ ng \in Nat /\ ActiveGpu(l.gpu) \in Nat
    BY <1>1 DEF Names, ActiveGpu
  <2>3. /\ nvidia_stats_update' \in [Names -> Nat]
        /\ nvidia_stats_update'["gpusmpct"] = sm + l.sm
        /\ nvidia_stats_update'["gpufbmem"] = fb + l.fb * MB_to_KB
        /\ nvidia_stats_update'["ngpus"] = ng + ActiveGpu(l.gpu)
    <3>1. PICK u : u = nvidia_stats_update
      OBVIOUS
    <3>2. PICK a \in Nat, b \in Nat, c \in Nat :
            /\ a = sm + l.sm /\ b = fb + l.fb * MB_to_KB
            /\ c = ng + ActiveGpu(l.gpu)
      BY <1>3, <1>4, <2>2
    <3>3. nvidia_stats_update' = [u EXCEPT !.gpusmpct = a, !.gpufbmem = b, !.ngpus = c]
      <4>1. /\ u \in [Names -> Nat] /\ u["gpusmpct"] = sm /\ u["gpufbmem"] = fb
            /\ u["ngpus"] = ng
        BY <1>1, <3>1
      <4> HIDE DEF sm, fb, ng
      <4>2. Added(l) = [u EXCEPT !.gpusmpct = sm + l.sm,
                                 !.gpufbmem = fb + l.fb * MB_to_KB,
                                 !.ngpus = ng + ActiveGpu(l.gpu)]
        BY <3>1, <4>1 DEF Added, Names
      <4> QED BY <2>1, <3>2, <4>2
    <3>4. u \in [Names -> Nat]
      BY <1>1, <3>1
    <3>5. PICK v : v = [u EXCEPT !.gpusmpct = a, !.gpufbmem = b, !.ngpus = c]
      OBVIOUS
    <3>6. /\ v \in [Names -> Nat]
          /\ v["gpusmpct"] = a /\ v["gpufbmem"] = b /\ v["ngpus"] = c
      BY <3>2, <3>4, <3>5 DEF Names
    <3> QED BY <3>2, <3>3, <3>5, <3>6
  <2>4. activegpus' \in SUBSET Gpus
    BY <1>1, <1>3, <2>1
  <2>5. Cardinality(activegpus \cup {l.gpu}) = ng + ActiveGpu(l.gpu)
    <3>1. IsFiniteSet(activegpus) /\ ng = Cardinality(activegpus)
      BY <1>1, GpusFinite DEF RestAdds
    <3>2. CASE l.gpu \in activegpus
      <4>1. activegpus \cup {l.gpu} = activegpus
        BY <3>2
      <4> QED BY <2>2, <3>1, <3>2, <4>1 DEF ActiveGpu
    <3>3. CASE l.gpu \notin activegpus
      BY <3>1, <3>3, FS_AddElement DEF ActiveGpu
    <3> QED BY <3>2, <3>3
  <2>6. (activegpus \cup {l.gpu}) \cup GpusOf(Tail(lines), pids)
          = activegpus \cup GpusOf(lines, pids)
    BY <1>2, <1>6, <1>8
  <2>7. /\ SumOf(SmOf(lines, pids)) = l.sm + SumOf(SmOf(Tail(lines), pids))
        /\ SumOf(FbOf(lines, pids)) = l.fb * MB_to_KB + SumOf(FbOf(Tail(lines), pids))
    BY <1>2, <1>6, <1>8
  <2>8. /\ SmOf(lines, pids)' = SmOf(Tail(lines), pids)
        /\ FbOf(lines, pids)' = FbOf(Tail(lines), pids)
        /\ GpusOf(lines, pids)' = GpusOf(Tail(lines), pids)
    BY <1>0 DEF SmOf, FbOf, GpusOf
  <2>9. (sm + l.sm) + SumOf(SmOf(Tail(lines), pids)) = current["gpusmpct"]
    BY <1>1, <1>3, <1>5, <2>2, <2>7 DEF RestAdds
  <2>10. (fb + l.fb * MB_to_KB) + SumOf(FbOf(Tail(lines), pids)) = current["gpufbmem"]
    BY <1>1, <1>4, <1>5, <2>2, <2>7 DEF RestAdds
  <2> HIDE DEF sm, fb, ng
  <2>11. RestAdds'
    BY <1>1, <2>1, <2>3, <2>5, <2>6, <2>8, <2>9, <2>10 DEF RestAdds
  <2> QED BY <2>3, <2>4, <2>11
<1> QED BY <1>7, <1>8

\* Steps that neither begin, end nor go on with a sample.
LEMMA TotalKept ==
  ASSUME TotalInv,
         UNCHANGED <<statVars, pids, lines, activegpus, current, reported, peak>>,
         \/ UNCHANGED pc
         \/ pc \in Construction /\ pc' \in Construction \cup {"idle"}
         \/ pc \in {"idle", "drop"} /\ pc' = "destroyed"
  PROVE  TotalInv'
<1>1. UNCHANGED <<nvidia_stats, nvidia_stats_update, pids, lines, activegpus,
                  current, reported, peak>>
  BY DEF statVars
<1>2. CASE UNCHANGED pc
  BY <1>1, <1>2 DEF TotalInv, TotalIfReported, get_text_stats, RestAdds, AnyReadable,
                    SmOf, FbOf, GpusOf, Ours
<1>3. CASE pc # "smi" /\ pc' # "smi" /\ (pc' = "idle" => ~reported)
           /\ (pc' \in Construction => ~reported) /\ pc # "aborted"
  BY <1>1, <1>3 DEF TotalInv, TotalIfReported, get_text_stats
<1> QED BY <1>2, <1>3 DEF TotalInv, Construction

\* Between the samples and during one of NVML only the maxima matter.
LEMMA TotalOutsideSmi ==
  ASSUME TotalInv, pc \in {"idle", "nvml"},
         UNCHANGED <<nvidia_stats, lines, current, peak>>,
         activegpus' \in SUBSET Gpus, pids' \in SUBSET Pids,
         nvidia_stats_update' \in [Names -> Nat],
         pc' = "nvml" \/ (pc' = "idle" /\ ~reported')
  PROVE  TotalInv'
<1>1. pc # "smi" /\ pc' # "smi"
      /\ pc \notin {"smi", "aborted"} /\ pc' \notin Construction
      /\ (pc' = "idle" => ~reported')
  BY DEF Construction
<1> QED BY <1>1 DEF TotalInv, TotalIfReported

LEMMA ZerosType == Zeros \in [Names -> Nat] /\ \A n \in Names : Zeros[n] = 0
  BY DEF Zeros

\* What a device adds is a number.
LEMMA DeviceType ==
  ASSUME QueryDevice, TotalInv
  PROVE  nvidia_stats_update' \in [Names -> Nat]
<1>1. PICK u \in [Pids -> Utils], m \in [Pids -> Bytes] :
        LET sampled == pids \cap NewSamples(gpu_idx)
            listed  == {p \in pids : m[p] > 0}
            add == [gpusmpct |-> SumOver(u, sampled),
                    gpufbmem |-> SumOver([p \in Pids |-> m[p] \div BYTES_PER_KB], listed),
                    ngpus    |-> IF sampled \cup listed # {} THEN 1 ELSE 0]
        IN  nvidia_stats_update' = [n \in Names |-> nvidia_stats_update[n] + add[n]]
  BY DEF QueryDevice
<1> DEFINE S == pids \cap NewSamples(gpu_idx)
           L == {p \in pids : m[p] > 0}
           k == [p \in Pids |-> m[p] \div BYTES_PER_KB]
           add == [gpusmpct |-> SumOver(u, S), gpufbmem |-> SumOver(k, L),
                   ngpus |-> IF S \cup L # {} THEN 1 ELSE 0]
<1>2. pids \in SUBSET Pids /\ nvidia_stats_update \in [Names -> Nat]
  BY DEF TotalInv
<1>3. S \in SUBSET Pids /\ L \in SUBSET Pids /\ IsFiniteSet(S) /\ IsFiniteSet(L)
  BY <1>2, PidsAssumption, FS_Subset
<1>4. u \in [Pids -> Nat] /\ k \in [Pids -> Nat]
  <2>1. \A b \in Nat : b \div BYTES_PER_KB \in Nat
    BY DEF BYTES_PER_KB
  <2>2. u \in [Pids -> Nat] /\ \A p \in Pids : m[p] \in Nat
    BY ReadingsAssumption
  <2> QED BY <2>1, <2>2
<1> HIDE DEF S, L, k
<1>5. SumOver(u, S) \in Nat /\ SumOver(k, L) \in Nat
  BY <1>3, <1>4, SumOverLaws
<1>6. add["gpusmpct"] \in Nat /\ add["gpufbmem"] \in Nat /\ add["ngpus"] \in Nat
  BY <1>5
<1>7. nvidia_stats_update' = [n \in Names |-> nvidia_stats_update[n] + add[n]]
  BY <1>1 DEF S, L, k
<1> HIDE DEF add
<1> QED BY <1>2, <1>6, <1>7 DEF Names

\* A sample of NVML is complete: value and maximum are set from the sums.
LEMMA EndNvmlTotal ==
  ASSUME TotalInv, EndNvml
  PROVE  TotalInv'
<1>1. PICK u \in [Names -> Nat] : u = nvidia_stats_update
  BY DEF TotalInv
<1>2. /\ pc = "nvml" /\ pc' = "idle" /\ current' = u /\ peak' = Larger(peak, u)
      /\ nvidia_stats_update' = u /\ UNCHANGED <<lines, activegpus, pids>>
      /\ nvidia_stats' = SetValues(nvidia_stats, u)
  BY <1>1 DEF EndNvml, smiVars
<1>3. ASSUME NEW n \in Names
      PROVE  /\ Simple(nvidia_stats'[n]) /\ nvidia_stats'[n].value = u[n]
             /\ nvidia_stats'[n].max = peak'[n] /\ peak'[n] \in Nat
  <2>1. Simple(nvidia_stats[n]) /\ nvidia_stats[n].max = peak[n] /\ peak[n] \in Nat
    BY <1>2 DEF TotalInv
  <2>2. nvidia_stats'[n] = SetValue(nvidia_stats[n], u[n])
    BY <1>2 DEF SetValues
  <2>3. /\ Simple(nvidia_stats'[n]) /\ nvidia_stats'[n].value = u[n]
        /\ nvidia_stats'[n].max
             = IF u[n] > nvidia_stats[n].max THEN u[n] ELSE nvidia_stats[n].max
    <3>1. PICK w : w = nvidia_stats[n]
      OBVIOUS
    <3>2. PICK v \in Nat : v = u[n]
      BY <1>1
    <3>3. Simple(w)
      BY <2>1, <3>1
    <3>4. /\ Simple(SetValue(w, v)) /\ SetValue(w, v).value = v
          /\ SetValue(w, v).max = IF v > w.max THEN v ELSE w.max
      BY <3>3, SetSimple
    <3> QED BY <2>2, <3>1, <3>2, <3>4
  <2>4. peak'[n] = IF peak[n] > u[n] THEN peak[n] ELSE u[n]
    BY <1>2 DEF Larger
  <2> QED BY <1>1, <2>1, <2>3, <2>4
<1>4. \A n \in Names : current'[n] = u[n] /\ u[n] \in Nat
  BY <1>1, <1>2
<1>5. TotalIfReported'
  BY <1>3, <1>4 DEF TotalIfReported, get_text_stats
<1>6. lines' \in Seq(Lines) /\ activegpus' \in SUBSET Gpus /\ pids' \in SUBSET Pids
  BY <1>2 DEF TotalInv
<1> QED BY <1>1, <1>2, <1>3, <1>4, <1>5, <1>6 DEF TotalInv, Construction

\* nvidia-smi has answered: all of the total is still to be read.
LEMMA BeginSmiTotal ==
  ASSUME TotalInv, BeginSmi
  PROVE  TotalInv'
<1>1. PICK out \in Outputs :
        /\ lines' = out /\ current' = TotalOf(out, pids')
        /\ peak' = Larger(peak, current')
        /\ reported' = \E i \in DOMAIN out : IsReadable(out[i])
  BY DEF BeginSmi
<1>2. /\ pc = "idle" /\ pc' = "smi" /\ pids' \in SUBSET Pids /\ activegpus' = {}
      /\ nvidia_stats_update' = Zeros /\ UNCHANGED nvidia_stats
  BY DEF BeginSmi, BeginUpdate
<1>3. out \in Seq(Lines) /\ DOMAIN out = 1..Len(out)
  <2>1. PICK n \in 0..MaxLines : out \in [1..n -> Lines]
    BY DEF Outputs, Lines
  <2> QED BY <2>1, BoundsAssumption
<1>4. /\ current'["gpusmpct"] = SumOf(SmOf(out, pids'))
      /\ current'["gpufbmem"] = SumOf(FbOf(out, pids'))
      /\ current'["ngpus"] = Cardinality(GpusOf(out, pids'))
  BY <1>1 DEF TotalOf
<1>5. /\ SumOf(SmOf(out, pids')) \in Nat /\ SumOf(FbOf(out, pids')) \in Nat
      /\ Cardinality(GpusOf(out, pids')) \in Nat
  BY <1>2, <1>3, SumsOfLines, GpusOfType, GpusFinite
<1>6. \A n \in Names : current'[n] \in Nat
  BY <1>4, <1>5 DEF Names
<1>7. nvidia_stats_update' \in [Names -> Nat] /\ \A n \in Names : nvidia_stats_update'[n] = 0
  BY <1>2, ZerosType
<1>8. RestAdds'
  <2>1. /\ nvidia_stats_update'["gpusmpct"] = 0 /\ nvidia_stats_update'["gpufbmem"] = 0
        /\ nvidia_stats_update'["ngpus"] = 0
    BY <1>7 DEF Names
  <2>2. Cardinality({}) = 0 /\ {} \cup GpusOf(out, pids') = GpusOf(out, pids')
    BY FS_EmptySet
  <2> QED BY <1>1, <1>2, <1>4, <1>5, <2>1, <2>2 DEF RestAdds
<1>9. ASSUME NEW n \in Names
      PROVE  /\ Simple(nvidia_stats'[n]) /\ peak'[n] \in Nat
             /\ peak'[n] = IF current'[n] > nvidia_stats'[n].max
                           THEN current'[n] ELSE nvidia_stats'[n].max
  <2>1. Simple(nvidia_stats[n]) /\ nvidia_stats[n].max = peak[n] /\ peak[n] \in Nat
    BY <1>2 DEF TotalInv
  <2>2. peak'[n] = IF peak[n] > current'[n] THEN peak[n] ELSE current'[n]
    BY <1>1 DEF Larger
  <2> QED BY <1>2, <1>6, <2>1, <2>2
<1>10. reported' <=> AnyReadable'
  BY <1>1, <1>3 DEF AnyReadable
<1>11. TotalIfReported'
  BY <1>2 DEF TotalIfReported
<1> QED BY <1>1, <1>2, <1>3, <1>6, <1>7, <1>8, <1>9, <1>10, <1>11
        DEF TotalInv, Construction

\* A line that cannot be read adds nothing.
LEMMA SkipLineTotal ==
  ASSUME TotalInv, SkipLine
  PROVE  TotalInv'
<1>1. /\ pc = "smi" /\ pc' = "smi" /\ lines # <<>> /\ lines' = Tail(lines)
      /\ Head(lines) = Unreadable /\ ~IsReadable(Head(lines))
      /\ UNCHANGED <<nvidia_stats, nvidia_stats_update, activegpus, pids, current,
                     reported, peak>>
  BY DEF SkipLine, AtLine, statVars, histVars, IsReadable
<1>2. lines \in Seq(Lines) /\ pids \in SUBSET Pids
  BY DEF TotalInv
<1>3. ~Ours(Head(lines), pids)
  BY <1>1 DEF Ours
<1>4. /\ Tail(lines) \in Seq(Lines)
      /\ SumOf(SmOf(lines, pids)) = SumOf(SmOf(Tail(lines), pids))
      /\ SumOf(FbOf(lines, pids)) = SumOf(FbOf(Tail(lines), pids))
      /\ GpusOf(lines, pids) = GpusOf(Tail(lines), pids)
  <2>1. /\ Tail(lines) \in Seq(Lines)
        /\ SumOf(SmOf(lines, pids)) = 0 + SumOf(SmOf(Tail(lines), pids))
        /\ SumOf(FbOf(lines, pids)) = 0 + SumOf(FbOf(Tail(lines), pids))
        /\ GpusOf(lines, pids) = {} \cup GpusOf(Tail(lines), pids)
    BY <1>1, <1>2, <1>3, LineByLine
  <2>2. /\ SumOf(SmOf(Tail(lines), pids)) \in Nat
        /\ SumOf(FbOf(Tail(lines), pids)) \in Nat
    BY <1>2, <2>1, SumsOfLines
  <2> QED BY <2>1, <2>2
<1>5. RestAdds'
  <2>1. /\ SmOf(lines, pids)' = SmOf(Tail(lines), pids)
        /\ FbOf(lines, pids)' = FbOf(Tail(lines), pids)
        /\ GpusOf(lines, pids)' = GpusOf(Tail(lines), pids)
    BY <1>1 DEF SmOf, FbOf, GpusOf
  <2>2. RestAdds
    BY <1>1 DEF TotalInv
  <2> QED BY <1>1, <1>4, <2>1, <2>2 DEF RestAdds
<1>6. AnyReadable' <=> AnyReadable
  <2>1. /\ Len(lines) \in Nat /\ Len(Tail(lines)) = Len(lines) - 1
        /\ lines[1] = Head(lines)
        /\ \A i \in 1..Len(Tail(lines)) : Tail(lines)[i] = lines[i + 1]
    BY <1>1, <1>2
  <2>2. ASSUME NEW i \in 1..Len(lines), IsReadable(lines[i]) PROVE AnyReadable'
    <3>1. i - 1 \in 1..Len(Tail(lines)) /\ Tail(lines)[i - 1] = lines[i]
      BY <1>1, <2>1, <2>2
    <3> QED BY <1>1, <2>2, <3>1 DEF AnyReadable
  <2>3. ASSUME NEW i \in 1..Len(Tail(lines)), IsReadable(Tail(lines)[i])
        PROVE  AnyReadable
    <3>1. i + 1 \in 1..Len(lines) /\ Tail(lines)[i] = lines[i + 1]
      BY <2>1
    <3> QED BY <2>3, <3>1 DEF AnyReadable
  <2> QED BY <1>1, <2>2, <2>3 DEF AnyReadable
<1>7. TotalIfReported'
  BY <1>1 DEF TotalIfReported
<1> QED BY <1>1, <1>4, <1>5, <1>6, <1>7 DEF TotalInv

\* After a readable line the values are the sums so far, which are not above
\* the total.
LEMMA ReadLineTotal ==
  ASSUME TotalInv, ReadLine
  PROVE  TotalInv'
<1>1. /\ pc = "smi" /\ pc' = "smi" /\ lines # <<>> /\ lines' = Tail(lines)
      /\ IsReadable(Head(lines)) /\ UNCHANGED <<pids, current, reported, peak>>
      /\ nvidia_stats' = SetValues(nvidia_stats, nvidia_stats_update')
  BY DEF ReadLine, AtLine, histVars
<1>2. /\ RestAdds' /\ nvidia_stats_update' \in [Names -> Nat]
      /\ activegpus' \in SUBSET Gpus
  BY <1>1, LineAdds
<1>3. lines \in Seq(Lines) /\ pids' \in SUBSET Pids /\ lines' \in Seq(Lines)
  BY <1>1 DEF TotalInv
<1>4. reported
  <2>1. AnyReadable
    <3>1. 1 \in 1..Len(lines) /\ lines[1] = Head(lines)
      BY <1>1, <1>3
    <3> QED BY <1>1, <3>1 DEF AnyReadable
  <2> QED BY <1>1, <2>1 DEF TotalInv
<1>5. \A n \in Names : nvidia_stats_update'[n] <= current'[n]
  <2>1. /\ SumOf(SmOf(lines', pids')) \in Nat /\ SumOf(FbOf(lines', pids')) \in Nat
        /\ GpusOf(lines', pids') \in SUBSET Gpus
    BY <1>3, SumsOfLines, GpusOfType
  <2>2. \A n \in Names : nvidia_stats_update'[n] \in Nat
    BY <1>2
  <2>3. Cardinality(activegpus') <= Cardinality(activegpus' \cup GpusOf(lines', pids'))
    <3>1. activegpus' \cup GpusOf(lines', pids') \in SUBSET Gpus
      BY <1>2, <2>1
    <3> QED BY <3>1, GpusFinite, FS_Subset
  <2>4. nvidia_stats_update'["ngpus"] <= current'["ngpus"]
    BY <1>2, <2>3 DEF RestAdds
  <2>5. /\ nvidia_stats_update'["gpusmpct"] <= current'["gpusmpct"]
        /\ nvidia_stats_update'["gpufbmem"] <= current'["gpufbmem"]
    BY <1>2, <2>1, <2>2 DEF RestAdds, Names
  <2> QED BY <2>4, <2>5 DEF Names
<1>6. ASSUME NEW n \in Names
      PROVE  /\ Simple(nvidia_stats'[n]) /\ nvidia_stats'[n].value = nvidia_stats_update'[n]
             /\ peak'[n] = IF current'[n] > nvidia_stats'[n].max
                           THEN current'[n] ELSE nvidia_stats'[n].max
  <2>1. /\ Simple(nvidia_stats[n]) /\ current[n] \in Nat
        /\ peak[n] = IF current[n] > nvidia_stats[n].max
                     THEN current[n] ELSE nvidia_stats[n].max
    BY <1>1 DEF TotalInv
  <2>2. PICK w : w = nvidia_stats[n]
    OBVIOUS
  <2>3. PICK v \in Nat : v = nvidia_stats_update'[n]
    BY <1>2
  <2>4. Simple(w) /\ w.max \in Nat
    BY <2>1, <2>2 DEF Simple, MonitoredValueType
  <2>5. nvidia_stats'[n] = SetValue(w, v)
    BY <1>1, <2>2, <2>3 DEF SetValues
  <2>6. /\ Simple(SetValue(w, v)) /\ SetValue(w, v).value = v
        /\ SetValue(w, v).max = IF v > w.max THEN v ELSE w.max
    BY <2>4, SetSimple
  <2>7. v <= current[n] /\ current'[n] = current[n] /\ peak'[n] = peak[n]
    BY <1>1, <1>5, <2>3
  <2> QED BY <2>1, <2>2, <2>3, <2>4, <2>5, <2>6, <2>7
<1>7. \A n \in Names : current'[n] \in Nat /\ peak'[n] \in Nat
  BY <1>1 DEF TotalInv
<1>8. TotalIfReported'
  BY <1>1 DEF TotalIfReported
<1> QED BY <1>1, <1>2, <1>3, <1>4, <1>6, <1>7, <1>8 DEF TotalInv

\* All lines have been read: the sums are the total.
LEMMA EndSmiTotal ==
  ASSUME TotalInv, EndSmi
  PROVE  TotalInv'
<1>1. /\ pc = "smi" /\ pc' = "idle" /\ lines = <<>>
      /\ UNCHANGED <<nvidia_stats, nvidia_stats_update, lines, activegpus, pids,
                     current, reported, peak>>
  BY DEF EndSmi, statVars, smiVars, histVars
<1>2. \A n \in Names : nvidia_stats_update[n] = current[n] /\ current[n] \in Nat
  <2>1. SmOf(lines, pids) = <<>> /\ FbOf(lines, pids) = <<>> /\ GpusOf(lines, pids) = {}
    BY <1>1 DEF SmOf, FbOf, GpusOf
  <2>2. /\ RestAdds /\ \A n \in Names : nvidia_stats_update[n] \in Nat
        /\ \A n \in Names : current[n] \in Nat
    BY <1>1 DEF TotalInv
  <2>3. activegpus \cup {} = activegpus /\ SumOf(<<>>) = 0
    BY SumEmpty
  <2>4. /\ nvidia_stats_update["gpusmpct"] + 0 = current["gpusmpct"]
        /\ nvidia_stats_update["gpufbmem"] + 0 = current["gpufbmem"]
        /\ nvidia_stats_update["ngpus"] = current["ngpus"]
    BY <2>1, <2>2, <2>3 DEF RestAdds
  <2> QED BY <2>2, <2>4 DEF Names
<1>3. ~AnyReadable
  BY <1>1 DEF AnyReadable
<1>4. ASSUME NEW n \in Names
      PROVE  /\ nvidia_stats[n].max = peak[n]
             /\ reported => nvidia_stats[n].value = current[n]
  <2>1. /\ Simple(nvidia_stats[n])
        /\ peak[n] = IF current[n] > nvidia_stats[n].max
                     THEN current[n] ELSE nvidia_stats[n].max
        /\ reported => nvidia_stats[n].value = nvidia_stats_update[n]
        /\ ~reported => nvidia_stats_update[n] = 0
    BY <1>1, <1>3 DEF TotalInv
  <2>2. /\ nvidia_stats[n].max \in Nat /\ nvidia_stats[n].value \in Nat
        /\ nvidia_stats[n].value <= nvidia_stats[n].max
    BY <2>1 DEF Simple, MonitoredValueType
  <2> QED BY <1>2, <2>1, <2>2
<1>5. TotalIfReported'
  BY <1>1, <1>4 DEF TotalIfReported, get_text_stats
<1> QED BY <1>1, <1>4, <1>5 DEF TotalInv, Construction

LEMMA TotalStep == TotalInv /\ [Next]_vars => TotalInv'
<1> SUFFICES ASSUME TotalInv, [Next]_vars
             PROVE  TotalInv'
  OBVIOUS
<1>1. CASE \/ LoadNvmlLib \/ ResolveSymbols \/ LoadError \/ NvmlInit \/ CountGpus
           \/ TestNvidiaSmi
  BY <1>1, TotalKept DEF LoadNvmlLib, ResolveSymbols, LoadError, NvmlInit, CountGpus,
                         TestNvidiaSmi, Constructing, Construction, smiVars, histVars
<1>2. CASE Destroy
  BY <1>2, TotalKept DEF Destroy, smiVars, histVars
<1>3. CASE BeginNvml
  <2>1. /\ pc = "idle" /\ pc' = "nvml" /\ pids' \in SUBSET Pids
        /\ nvidia_stats_update' = Zeros
        /\ UNCHANGED <<nvidia_stats, lines, activegpus, current, peak>>
    BY <1>3 DEF BeginNvml, BeginUpdate, smiVars, histVars
  <2>2. activegpus' \in SUBSET Gpus
    BY <2>1 DEF TotalInv
  <2> QED BY <2>1, <2>2, ZerosType, TotalOutsideSmi
<1>4. CASE SkipDevice \/ SkipAfterSamples \/ QueryDevice
  <2>1. /\ pc = "nvml" /\ UNCHANGED <<pc, pids, nvidia_stats, lines, activegpus,
                                       current, peak>>
    BY <1>4 DEF SkipDevice, SkipAfterSamples, QueryDevice, AtDevice, smiVars
  <2>2. nvidia_stats_update' \in [Names -> Nat]
    <3>1. CASE SkipDevice \/ SkipAfterSamples
      BY <3>1 DEF SkipDevice, SkipAfterSamples, TotalInv
    <3>2. CASE QueryDevice
      BY <3>2, DeviceType
    <3> QED BY <1>4, <3>1, <3>2
  <2>3. activegpus' \in SUBSET Gpus /\ pids' \in SUBSET Pids
    BY <2>1 DEF TotalInv
  <2> QED BY <2>1, <2>2, <2>3, TotalOutsideSmi
<1>5. CASE EndNvml
  BY <1>5, EndNvmlTotal
<1>6. CASE BeginSmi
  BY <1>6, BeginSmiTotal
<1>7. CASE SmiFails
  <2>1. /\ pc = "idle" /\ pc' = "idle" /\ pids' \in SUBSET Pids /\ ~reported'
        /\ nvidia_stats_update' = Zeros
        /\ UNCHANGED <<nvidia_stats, lines, activegpus, current, peak>>
    BY <1>7 DEF SmiFails, BeginUpdate, smiVars
  <2>2. activegpus' \in SUBSET Gpus
    BY <2>1 DEF TotalInv
  <2> QED BY <2>1, <2>2, ZerosType, TotalOutsideSmi
<1>8. CASE SkipLine
  BY <1>8, SkipLineTotal
<1>9. CASE ReadLine
  BY <1>9, ReadLineTotal
<1>10. CASE EndSmi
  BY <1>10, EndSmiTotal
<1>11. CASE \E g \in Gpus, p \in Pids : DriverSamples(g, p)
  BY <1>11, TotalKept DEF DriverSamples, smiVars, histVars
<1>12. CASE Terminated \/ UNCHANGED vars
  BY <1>12, TotalKept DEF Terminated, vars, smiVars, histVars
<1>13. CASE LineAborts
  <2>1. /\ pc' = "aborted" /\ lines # <<>> /\ lines' = Tail(lines)
        /\ UNCHANGED <<nvidia_stats, nvidia_stats_update, activegpus, pids, current,
                       reported, peak>>
    BY <1>13 DEF LineAborts, AtLine, statVars, histVars
  <2>2. lines' \in Seq(Lines)
    BY <2>1 DEF TotalInv
  <2> QED BY <2>1, <2>2 DEF TotalInv, TotalIfReported, Construction
<1> QED BY <1>1, <1>2, <1>3, <1>4, <1>5, <1>6, <1>7, <1>8, <1>9, <1>10, <1>11,
           <1>12, <1>13 DEF Next

\* After a sample with anything readable in it the value is the total over the
\* monitored processes, for any number of lines, GPUs and processes
\* (nvidiamon.cpp:301-336).
THEOREM TotalCorrect == Spec => []TotalIfReported
<1>1. TotalInv => TotalIfReported
  BY DEF TotalInv
<1> QED BY <1>1, TotalInit, TotalStep, PTL DEF Spec

\* The maximum is the largest total, never a partial sum
\* (nvidiamon.cpp:334-336).
THEOREM PeakCorrect == Spec => []PeakIsLargestTotal
<1>1. TotalInv => PeakIsLargestTotal
  BY DEF TotalInv, PeakIsLargestTotal, get_json_total_stats
<1> QED BY <1>1, TotalInit, TotalStep, PTL DEF Spec
============================================================================
