------------------------ MODULE MonitoredValueProofs ------------------------
(***************************************************************************)
(* What MonitoredValue guarantees for every set of readings and offsets    *)
(* and any number of calls.                                                *)
(***************************************************************************)
EXTENDS MonitoredValue, SumsProofs

\* MaxIsThePeak is not inductive alone: the first sample may be 0, which is
\* the peak only because the maximum starts at 0; and a monotonic value
\* overwrites its maximum, which keeps the peak only because the value it
\* was compared with is that maximum (the last part of AverageBelowMax).
IInv ==
  /\ TypeOK
  /\ MaxIsThePeak
  /\ AverageBelowMax
  /\ samples = <<>> => mv.max = 0

---------------------------------------------------------------------------
\* The only arithmetic fact behind "average <= maximum".
LEMMA ProductGrows ==
  ASSUME NEW n \in Nat, NEW m \in Nat, NEW p \in Nat, m <= p
  PROVE  n * m <= n * p
BY Z3

LEMMA ProductStep ==
  ASSUME NEW s \in Nat, NEW n \in Nat, NEW m \in Nat, NEW v \in Nat,
         NEW p \in Nat, s <= n * m, m <= p, v <= p
  PROVE  s + v <= (n + 1) * p
<1>1. n * m <= n * p
  BY ProductGrows
<1>2. (n + 1) * p = n * p + p
  BY Z3
<1> QED BY <1>1, <1>2, Z3

\* What set_value's assignments make of an accepted reading.
LEMMA RecordedFacts ==
  ASSUME NEW w \in MonitoredValueType, NEW new \in Nat, Accepts(w, new),
         w.summed <= w.iterations * w.max,
         w.value <= w.max,
         w.monotonic => w.value = w.max,
         NEW r, r = Recorded(w, new),
         NEW v, v = new - w.offset
  PROVE  /\ v \in Nat
         /\ r \in MonitoredValueType
         /\ r.monotonic = w.monotonic
         /\ r.value = v
         /\ v <= r.max /\ w.max <= r.max
         /\ r.max = v \/ r.max = w.max
         /\ r.monotonic => r.value >= w.value /\ r.value = r.max
         /\ r.summed <= r.iterations * r.max
<1>1. v \in Nat
  BY DEF Accepts, MonitoredValueType
<1>2. /\ w.iterations \in Nat /\ w.value \in Nat /\ w.max \in Nat
      /\ w.summed \in Nat /\ w.offset \in Nat /\ w.monotonic \in BOOLEAN
  BY DEF MonitoredValueType
<1>3. CASE w.monotonic
  <2>1. r = [w EXCEPT !.value = v, !.max = v]
    BY <1>3 DEF Recorded
  <2>2. v >= w.value /\ w.value = w.max
    BY <1>3 DEF Accepts
  <2>4. w.summed <= w.iterations * v
    <3>1. w.iterations * w.max <= w.iterations * v
      BY <1>1, <1>2, <2>2, ProductGrows
    <3>2. w.iterations * v \in Nat /\ w.iterations * w.max \in Nat
      BY <1>1, <1>2
    <3> QED BY <1>2, <3>1, <3>2
  <2>5. r \in MonitoredValueType
    BY <1>1, <2>1 DEF MonitoredValueType
  <2>6. /\ r.value = v /\ r.max = v /\ r.monotonic = w.monotonic
        /\ r.summed = w.summed /\ r.iterations = w.iterations
    BY <2>1 DEF MonitoredValueType
  <2> HIDE DEF MonitoredValueType
  <2> QED BY <1>1, <1>2, <2>2, <2>4, <2>5, <2>6
<1>4. CASE ~w.monotonic
  <2> DEFINE p == IF v > w.max THEN v ELSE w.max
  <2>1. r = [w EXCEPT !.value = v, !.max = p, !.summed = w.summed + v,
                      !.iterations = w.iterations + 1]
    BY <1>4 DEF Recorded, MonitoredValueType
  <2>2. p \in Nat /\ v <= p /\ w.max <= p /\ (p = v \/ p = w.max)
    BY <1>1, <1>2
  <2> HIDE DEF p
  <2>3. w.summed + v <= (w.iterations + 1) * p
    BY <1>1, <1>2, <2>2, ProductStep
  <2>4. r \in MonitoredValueType
    <3>1. w.summed + v \in Nat /\ w.iterations + 1 \in Nat
      BY <1>1, <1>2
    <3> QED BY <1>1, <2>1, <2>2, <3>1 DEF MonitoredValueType
  <2>5. /\ r.value = v /\ r.max = p /\ r.monotonic = w.monotonic
        /\ r.summed = w.summed + v /\ r.iterations = w.iterations + 1
    BY <2>1 DEF MonitoredValueType
  <2> QED BY <1>1, <1>4, <2>2, <2>3, <2>4, <2>5
<1> QED BY <1>2, <1>3, <1>4

---------------------------------------------------------------------------
LEMMA InitIInv == Init => IInv
<1> SUFFICES ASSUME Init PROVE IInv
  OBVIOUS
<1>1. PICK mono \in BOOLEAN, o \in Offsets : mv = NewMonitoredValue(mono, o)
  BY DEF Init
<1>2. o \in Nat
  BY OffsetsAssumption
<1> QED BY <1>1, <1>2
        DEF Init, IInv, TypeOK, MaxIsThePeak, AverageBelowMax,
            NewMonitoredValue, MonitoredValueType

LEMMA NextIInv == IInv /\ [Next]_vars => IInv'
<1> SUFFICES ASSUME IInv, [Next]_vars PROVE IInv'
  OBVIOUS
<1>1. ASSUME NEW new \in Readings, CallSetValue(new) PROVE IInv'
  <2>0. new \in Nat
    BY ReadingsAssumption
  <2>1. CASE ~Accepts(mv, new)
    BY <1>1, <2>1 DEF CallSetValue, SetValue, SetValueCode, IInv, TypeOK,
                      MaxIsThePeak, AverageBelowMax
  <2>2. CASE Accepts(mv, new)
    <3> DEFINE v == new - mv.offset
    <3>1. mv' = Recorded(mv, new) /\ samples' = Append(samples, v) /\ code' = 0
      BY <1>1, <2>2 DEF CallSetValue, SetValue, SetValueCode
    <3>2. /\ v \in Nat
          /\ mv' \in MonitoredValueType
          /\ mv'.value = v
          /\ v <= mv'.max /\ mv.max <= mv'.max
          /\ mv'.max = v \/ mv'.max = mv.max
          /\ mv'.monotonic => mv'.value = mv'.max
          /\ mv'.summed <= mv'.iterations * mv'.max
      BY <2>0, <2>2, <3>1, RecordedFacts DEF IInv, TypeOK, AverageBelowMax
    <3> HIDE DEF v
    <3>3. /\ samples' \in Seq(Nat) /\ samples' # <<>>
          /\ Len(samples') = Len(samples) + 1
          /\ samples'[Len(samples')] = v
          /\ \A i \in 1..Len(samples) : samples'[i] = samples[i]
      BY <3>1, <3>2 DEF IInv, TypeOK
    <3>4. TypeOK'
      BY <3>1, <3>2, <3>3 DEF TypeOK
    <3>5. AverageBelowMax'
      BY <3>2 DEF AverageBelowMax
    <3>6. \A i \in 1..Len(samples') : samples'[i] <= mv'.max
      <4> TAKE i \in 1..Len(samples')
      <4>1. CASE i = Len(samples')
        BY <4>1, <3>2, <3>3
      <4>2. CASE i \in 1..Len(samples)
        <5>1. samples[i] \in Nat /\ mv.max \in Nat /\ mv'.max \in Nat
          <6>1. samples \in Seq(Nat) /\ mv \in MonitoredValueType
            BY DEF IInv, TypeOK
          <6>2. mv.max \in Nat /\ mv'.max \in Nat
            BY <3>2, <6>1 DEF MonitoredValueType
          <6> QED BY <4>2, <6>1, <6>2
        <5>2. samples'[i] = samples[i] /\ samples[i] <= mv.max
          BY <4>2, <3>3 DEF IInv, MaxIsThePeak
        <5> QED BY <3>2, <5>1, <5>2
      <4> QED BY <4>1, <4>2, <3>3 DEF IInv, TypeOK
    <3>7. \E i \in 1..Len(samples') : samples'[i] = mv'.max
      <4>1. CASE mv'.max = v
        BY <4>1, <3>3 DEF IInv, TypeOK
      <4>2. CASE mv'.max = mv.max /\ samples # <<>>
        <5>1. PICK i \in 1..Len(samples) : samples[i] = mv.max
          BY <4>2 DEF IInv, MaxIsThePeak
        <5> QED BY <4>2, <5>1, <3>3 DEF IInv, TypeOK
      <4>3. CASE mv'.max = mv.max /\ samples = <<>>
        <5>1. mv'.max = v
          BY <4>3, <3>2 DEF IInv, TypeOK, MonitoredValueType
        <5> QED BY <5>1, <4>1
      <4> QED BY <4>1, <4>2, <4>3, <3>2
    <3> QED BY <3>3, <3>4, <3>5, <3>6, <3>7 DEF IInv, MaxIsThePeak
  <2> QED BY <2>1, <2>2
<1>2. ASSUME NEW o \in Offsets, CallSetOffset(o) PROVE IInv'
  <2>1. o \in Nat
    BY OffsetsAssumption
  <2>2. mv' = [mv EXCEPT !.offset = o] /\ samples' = samples /\ code' \in {0, 1}
    BY <1>2 DEF CallSetOffset, SetOffset, SetOffsetCode
  <2> QED BY <2>1, <2>2 DEF IInv, TypeOK, MaxIsThePeak, AverageBelowMax,
                            MonitoredValueType
<1>3. CASE UNCHANGED vars
  BY <1>3 DEF vars, IInv, TypeOK, MaxIsThePeak, AverageBelowMax
<1> QED BY <1>1, <1>2, <1>3 DEF Next

LEMMA IInvAlways == Spec => []IInv
BY InitIInv, NextIInv, PTL DEF Spec

---------------------------------------------------------------------------
\* The object stays well typed: in particular new_value - m_offset never
\* wraps below zero, whatever offset was set before (parameter.cpp:12-20).
THEOREM TypeCorrect == Spec => []TypeOK
<1>1. IInv => TypeOK
  BY DEF IInv
<1> QED BY <1>1, IInvAlways, PTL

\* The maximum prmon reports is the largest accepted reading and is one of
\* the accepted readings.
THEOREM PeakCorrect == Spec => []MaxIsThePeak
<1>1. IInv => MaxIsThePeak
  BY DEF IInv
<1> QED BY <1>1, IInvAlways, PTL

\* The average prmon reports never exceeds the maximum it reports.
THEOREM AverageCorrect == Spec => []AverageBelowMax
<1>1. IInv => AverageBelowMax
  BY DEF IInv
<1> QED BY <1>1, IInvAlways, PTL

\* No call lowers a monotonic value, and no call lowers the maximum.
THEOREM NeverLoweredCorrect == Spec => NeverLowered
<1> DEFINE Step == /\ mv.monotonic => mv'.value >= mv.value
                   /\ mv'.max >= mv.max
<1>1. ASSUME IInv, [Next]_vars PROVE [Step]_vars
  <2>1. ASSUME NEW new \in Readings, CallSetValue(new) PROVE Step
    <3>0. new \in Nat
      BY ReadingsAssumption
    <3>1. CASE Accepts(mv, new)
      <4>1. mv' = Recorded(mv, new)
        BY <2>1, <3>1 DEF CallSetValue, SetValue
      <4> QED BY <1>1, <3>0, <3>1, <4>1, RecordedFacts
              DEF IInv, TypeOK, AverageBelowMax, MonitoredValueType
    <3>2. CASE ~Accepts(mv, new)
      BY <1>1, <2>1, <3>2
      DEF CallSetValue, SetValue, IInv, TypeOK, MonitoredValueType
    <3> QED BY <3>1, <3>2
  <2>2. ASSUME NEW o \in Offsets, CallSetOffset(o) PROVE Step
    BY <1>1, <2>2 DEF CallSetOffset, SetOffset, IInv, TypeOK, MonitoredValueType
  <2> QED BY <1>1, <2>1, <2>2 DEF Next
<1> QED BY <1>1, IInvAlways, PTL DEF Spec, NeverLowered
---------------------------------------------------------------------------
(* The object implements SampleSummary.                                    *)

\* The refinement mapping reads four numbers off the object; for each of them
\* the object must hold what SampleSummary computes from the whole series.
\* An offset in use is always one of Offsets, so that samples are among
\* SampleValues.
StatInv ==
  /\ mv.offset \in Offsets
  /\ samples = <<>> => mv.value = 0
  /\ samples # <<>> => mv.value = samples[Len(samples)]
  /\ ~mv.monotonic => mv.summed = SumOf(samples) /\ mv.iterations = Len(samples)

LEMMA StatInit == Init => StatInv
<1> SUFFICES ASSUME Init PROVE StatInv
  OBVIOUS
<1>1. PICK mono \in BOOLEAN, o \in Offsets : mv = NewMonitoredValue(mono, o)
  BY DEF Init
<1>2. samples = <<>> /\ SumOf(samples) = 0 /\ Len(samples) = 0
  BY SumEmpty DEF Init
<1> QED BY <1>1, <1>2 DEF StatInv, NewMonitoredValue

LEMMA StatStep == IInv /\ StatInv /\ [Next]_vars => StatInv'
<1> SUFFICES ASSUME IInv, StatInv, [Next]_vars PROVE StatInv'
  OBVIOUS
<1>1. ASSUME NEW new \in Readings, CallSetValue(new) PROVE StatInv'
  <2>1. CASE ~Accepts(mv, new)
    BY <1>1, <2>1 DEF CallSetValue, SetValue, StatInv
  <2>2. CASE Accepts(mv, new)
    <3> DEFINE v == new - mv.offset
    <3>1. mv' = Recorded(mv, new) /\ samples' = Append(samples, v)
      BY <1>1, <2>2 DEF CallSetValue, SetValue
    <3>2. v \in Nat /\ samples \in Seq(Nat)
      BY <2>2, ReadingsAssumption DEF Accepts, IInv, TypeOK, MonitoredValueType
    <3>3. /\ mv'.value = v /\ mv'.offset = mv.offset
          /\ mv'.monotonic = mv.monotonic
          /\ ~mv.monotonic => /\ mv'.summed = mv.summed + v
                              /\ mv'.iterations = mv.iterations + 1
      BY <3>1 DEF Recorded, IInv, TypeOK, MonitoredValueType
    <3> HIDE DEF v
    <3>4. /\ samples' # <<>> /\ Len(samples') = Len(samples) + 1
          /\ samples'[Len(samples')] = v
      BY <3>1, <3>2
    <3>5. SumOf(samples') = SumOf(samples) + v
      BY <3>1, <3>2, SumAppend
    <3> QED BY <3>3, <3>4, <3>5 DEF StatInv
  <2> QED BY <2>1, <2>2
<1>2. ASSUME NEW o \in Offsets, CallSetOffset(o) PROVE StatInv'
  BY <1>2 DEF CallSetOffset, SetOffset, StatInv, IInv, TypeOK, MonitoredValueType
<1>3. CASE UNCHANGED vars
  BY <1>3 DEF vars, StatInv
<1> QED BY <1>1, <1>2, <1>3 DEF Next

\* The mapping of the variable reported.
Accessors == [value |-> mv.value, max |-> mv.max, summed |-> SummedValue(mv),
              average |-> AverageValue(mv)]

\* What the accessors return are the statistics of all samples.
LEMMA AccessorsRight == IInv /\ StatInv => Accessors = Summary!Statistics(samples)
<1> SUFFICES ASSUME IInv, StatInv PROVE Accessors = Summary!Statistics(samples)
  OBVIOUS
<1>0. /\ samples \in Seq(Nat) /\ mv.max \in Nat /\ mv.summed \in Nat
      /\ mv.iterations \in Nat /\ mv.monotonic \in BOOLEAN
  BY DEF IInv, TypeOK, MonitoredValueType
<1>1. mv.value = IF samples = <<>> THEN 0 ELSE Summary!Last(samples)
  BY DEF StatInv, Summary!Last
<1>2. mv.max = IF samples = <<>> THEN 0 ELSE Summary!Max(Summary!Range(samples))
  <2>1. CASE samples = <<>>
    BY <2>1 DEF IInv
  <2>2. CASE samples # <<>>
    <3> DEFINE S == Summary!Range(samples)
    <3>1. S = {samples[i] : i \in 1..Len(samples)}
      BY <1>0 DEF Summary!Range
    <3>2. mv.max \in S /\ S \subseteq Nat /\ \A y \in S : mv.max >= y
      BY <1>0, <2>2, <3>1 DEF IInv, MaxIsThePeak
    <3> HIDE DEF S
    <3>3. \A x \in S : (\A y \in S : x >= y) => x = mv.max
      BY <1>0, <3>2
    <3>4. Summary!Max(S) = mv.max
      BY <3>2, <3>3 DEF Summary!Max
    <3> QED BY <2>2, <3>4 DEF S
  <2> QED BY <2>1, <2>2
<1>3. Summary!SumOf(samples) = SumOf(samples)
  BY DEF Summary!SumOf, Summary!PartialSums, SumOf, PartialSums
<1>4. SummedValue(mv) = IF mv.monotonic THEN 0 ELSE Summary!SumOf(samples)
  BY <1>0, <1>3 DEF SummedValue, StatInv
<1>5. AverageValue(mv) = IF mv.monotonic \/ samples = <<>>
                         THEN [num |-> 0, den |-> 1]
                         ELSE [num |-> Summary!SumOf(samples), den |-> Len(samples)]
  <2>1. samples # <<>> => Len(samples) > 0
    BY <1>0
  <2>2. samples = <<>> => Len(samples) = 0
    BY <1>0
  <2> QED BY <1>0, <1>3, <2>1, <2>2 DEF AverageValue, StatInv
<1> QED BY <1>1, <1>2, <1>4, <1>5 DEF Accessors, Summary!Statistics

\* Every call either takes a sample or, refused or only moving the offset,
\* changes nothing that SampleSummary speaks of.
LEMMA SummaryStep ==
  IInv /\ StatInv /\ IInv' /\ StatInv' /\ [Next]_vars
    => [Summary!Next]_(Summary!vars)
<1> SUFFICES ASSUME IInv, StatInv, IInv', StatInv', [Next]_vars
             PROVE  [Summary!Next]_(Summary!vars)
  OBVIOUS
<1>1. /\ Accessors = Summary!Statistics(samples)
      /\ Accessors' = Summary!Statistics(samples)'
  <2>1. (IInv /\ StatInv => Accessors = Summary!Statistics(samples))'
    BY AccessorsRight, PTL
  <2> QED BY <2>1, AccessorsRight
<1>2. ASSUME mv' = mv \/ \E o : mv' = [mv EXCEPT !.offset = o], samples' = samples
      PROVE  UNCHANGED Summary!vars
  <2>1. /\ mv'.monotonic = mv.monotonic /\ mv'.value = mv.value
        /\ mv'.max = mv.max /\ mv'.summed = mv.summed
        /\ mv'.iterations = mv.iterations
    BY <1>2 DEF IInv, TypeOK, MonitoredValueType
  <2> QED BY <1>2, <2>1 DEF Summary!vars, SummedValue, AverageValue
<1>3. ASSUME NEW new \in Readings, CallSetValue(new), Accepts(mv, new)
      PROVE  Summary!Next
  <2> DEFINE v == new - mv.offset
  <2>1. mv' = Recorded(mv, new) /\ samples' = Append(samples, v)
    BY <1>3 DEF CallSetValue, SetValue
  <2>2. v \in SampleValues
    <3>1. <<new, mv.offset>> \in {x \in Readings \X Offsets : x[1] >= x[2]}
      BY <1>3 DEF StatInv, Accepts
    <3> QED BY <3>1 DEF SampleValues
  <2>3. mv'.monotonic = mv.monotonic
    BY <2>1 DEF Recorded, IInv, TypeOK, MonitoredValueType
  <2>4. (mv.monotonic /\ samples # <<>>) => v >= Summary!Last(samples)
    BY <1>3 DEF StatInv, Accepts, Summary!Last
  <2> HIDE DEF v
  <2>5. Summary!Statistics(samples)' = Summary!Statistics(samples')
    BY <2>3 DEF Summary!Statistics
  <2>6. Summary!Take(v)
    BY <1>1, <2>1, <2>3, <2>4, <2>5 DEF Summary!Take, Accessors
  <2> QED BY <2>2, <2>6 DEF Summary!Next
<1>4. ASSUME NEW new \in Readings, CallSetValue(new), ~Accepts(mv, new)
      PROVE  UNCHANGED Summary!vars
  BY <1>2, <1>4 DEF CallSetValue, SetValue
<1>5. ASSUME NEW o \in Offsets, CallSetOffset(o)
      PROVE  UNCHANGED Summary!vars
  BY <1>2, <1>5 DEF CallSetOffset, SetOffset
<1>6. CASE UNCHANGED vars
  BY <1>2, <1>6 DEF vars
<1> QED BY <1>3, <1>4, <1>5, <1>6 DEF Next

LEMMA SummaryInit == Init => Summary!Init
<1> SUFFICES ASSUME Init PROVE Summary!Init
  OBVIOUS
<1>1. Accessors = Summary!Statistics(samples)
  BY AccessorsRight, InitIInv, StatInit
<1>2. samples = <<>> /\ mv.monotonic \in BOOLEAN
  BY InitIInv DEF Init, IInv, TypeOK, MonitoredValueType
<1> QED BY <1>1, <1>2 DEF Summary!Init, Accessors

\* For all readings and offsets and any number of calls, a monitored_value
\* implements SampleSummary: its accessors return the last value, maximum,
\* sum and average of the whole series of accepted readings.
THEOREM SampleSummaryImplemented == Spec => ImplementsSampleSummary
BY SummaryInit, SummaryStep, StatInit, StatStep, IInvAlways, PTL
DEF Spec, ImplementsSampleSummary, Summary!Spec
============================================================================
