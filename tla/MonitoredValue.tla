--------------------------- MODULE MonitoredValue ---------------------------
(***************************************************************************)
(* The life of one monitored_value object: any sequence of set_value and   *)
(* set_offset calls.  set_offset is not restricted to the start, as the    *)
(* code does not restrict it either (wallmon calls it from update_stats).  *)
(***************************************************************************)
EXTENDS Parameter, Sequences, SequencesExt

CONSTANTS Readings,   \* raw values the monitors pass to set_value
          Offsets     \* offsets given to the constructor or to set_offset

ASSUME ReadingsAssumption == Readings \subseteq Nat
ASSUME OffsetsAssumption  == Offsets \subseteq Nat

VARIABLES mv,         \* the object
          code,       \* return code of the last call
          samples     \* history: accepted readings, offset removed

vars == <<mv, code, samples>>

Init ==
  /\ \E mono \in BOOLEAN, o \in Offsets : mv = NewMonitoredValue(mono, o)
  /\ code = 0
  /\ samples = <<>>

CallSetValue(new) ==
  /\ mv' = SetValue(mv, new)
  /\ code' = SetValueCode(mv, new)
  /\ samples' = IF Accepts(mv, new)
                THEN Append(samples, new - mv.offset) ELSE samples

CallSetOffset(o) ==
  /\ mv' = SetOffset(mv, o)
  /\ code' = SetOffsetCode(mv)
  /\ UNCHANGED samples

Next ==
  \/ \E new \in Readings : CallSetValue(new)
  \/ \E o \in Offsets : CallSetOffset(o)

Spec == Init /\ [][Next]_vars

---------------------------------------------------------------------------
\* Types of the object, the return code and the history.
TypeOK ==
  /\ mv \in MonitoredValueType
  /\ code \in {0, 1}
  /\ samples \in Seq(Nat)

\* The reported maximum is the true peak of the accepted readings: no sample
\* exceeds it, and when there is a sample the maximum is one of them
\* (set_value, parameter.cpp:33-40).
MaxIsThePeak ==
  /\ \A i \in 1..Len(samples) : samples[i] <= mv.max
  /\ samples # <<>> => \E i \in 1..Len(samples) : samples[i] = mv.max

\* The average written to the JSON summary never exceeds the maximum written
\* beside it: sum <= iterations * max, and the sum of a monotonic value,
\* which get_summed_value hides, is never accumulated (parameter.cpp:35-41).
AverageBelowMax ==
  /\ mv.summed <= mv.iterations * mv.max
  /\ mv.value <= mv.max
  /\ mv.monotonic => mv.value = mv.max

\* "the monotonic flag will prevent the measured value from being lowered"
\* (parameter.h:51-52): no call, not even a late set_offset, lowers a
\* monotonic value, and no call at all lowers the maximum.
NeverLowered ==
  [][/\ mv.monotonic => mv'.value >= mv.value
     /\ mv'.max >= mv.max]_vars

\* The values a sample can have once its offset is removed.
SampleValues == {ro[1] - ro[2] : ro \in {x \in Readings \X Offsets : x[1] >= x[2]}}

\* The accessors of the object report the statistics of all its samples.
Summary == INSTANCE SampleSummary WITH
  Samples   <- SampleValues,
  monotonic <- mv.monotonic,
  reported  <- [value   |-> mv.value,
                max     |-> mv.max,
                summed  |-> SummedValue(mv),
                average |-> AverageValue(mv)]

\* The object implements SampleSummary: whatever the order of accepted and
\* refused readings and offset changes, value, maximum, sum and average are
\* those of the whole series (get_* accessors, parameter.h:73-77).
ImplementsSampleSummary == Summary!Spec
============================================================================
