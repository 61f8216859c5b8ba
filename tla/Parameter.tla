----------------------------- MODULE Parameter -----------------------------
(***************************************************************************)
(* The class monitored_value of parameter.h / parameter.cpp as operators   *)
(* on a record: every number prmon reports goes through one such object.   *)
(* mon_value is an unsigned 64 bit integer; no counter prmon reads comes   *)
(* within reach of 2^64, so values are natural numbers.  avg_value, a      *)
(* double, is kept as an exact fraction [num, den].                        *)
(***************************************************************************)
EXTENDS Naturals

\* The private members of monitored_value that carry state.
MonitoredValueType ==
  [monotonic : BOOLEAN, iterations : Nat, value : Nat,
   max : Nat, summed : Nat, offset : Nat]

\* monitored_value(parameter p, bool mono, mon_value offset)
NewMonitoredValue(mono, offset) ==
  [monotonic |-> mono, iterations |-> 0, value |-> 0,
   max |-> 0, summed |-> 0, offset |-> offset]

---------------------------------------------------------------------------
\* Mutated forms of Accepts and Recorded, used only to test the properties.

\* the guard that protects monotonic values is forgotten
AcceptsDecrease(mv, new) == new >= mv.offset

\* the guard that keeps new_value - offset from wrapping is forgotten
AcceptsBelowOffset(mv, new) == mv.monotonic => new - mv.offset >= mv.value

\* the running maximum follows the value instead of keeping the peak
RecordedLosingPeak(mv, new) ==
  LET v == new - mv.offset IN
  IF mv.monotonic THEN [mv EXCEPT !.value = v, !.max = v]
  ELSE [mv EXCEPT !.value = v, !.max = v,
                  !.summed = @ + v, !.iterations = @ + 1]

\* the raw reading, offset included, is added to the sum
RecordedSummingRaw(mv, new) ==
  LET v == new - mv.offset IN
  IF mv.monotonic THEN [mv EXCEPT !.value = v, !.max = v]
  ELSE [mv EXCEPT !.value = v, !.max = IF v > @ THEN v ELSE @,
                  !.summed = @ + new, !.iterations = @ + 1]

\* a monotonic value is recorded without touching its maximum
RecordedWithoutMonoMax(mv, new) ==
  LET v == new - mv.offset IN
  IF mv.monotonic THEN [mv EXCEPT !.value = v]
  ELSE [mv EXCEPT !.value = v, !.max = IF v > @ THEN v ELSE @,
                  !.summed = @ + v, !.iterations = @ + 1]

---------------------------------------------------------------------------
\* The two error returns of set_value: a reading below the offset, and a
\* reading that would lower a monotonic value.
Accepts(mv, new) ==
  /\ new >= mv.offset
  /\ mv.monotonic => new - mv.offset >= mv.value

\* The assignments of set_value on a reading it accepts.
Recorded(mv, new) ==
  LET v == new - mv.offset IN
  IF mv.monotonic
  THEN [mv EXCEPT !.value = v, !.max = v]
  ELSE [mv EXCEPT !.value = v,
                  !.max = IF v > @ THEN v ELSE @,
                  !.summed = @ + v,
                  !.iterations = @ + 1]

\* int set_value(mon_value new_value): the object afterwards ...
SetValue(mv, new) == IF Accepts(mv, new) THEN Recorded(mv, new) ELSE mv

\* ... and its return code.
SetValueCode(mv, new) == IF Accepts(mv, new) THEN 0 ELSE 1

\* int set_offset(mon_value new_offset): the offset is assigned whatever the
\* return code, and iterations counts non-monotonic values only.
SetOffset(mv, new) == [mv EXCEPT !.offset = new]

SetOffsetCode(mv) == IF mv.iterations > 0 THEN 1 ELSE 0

\* get_summed_value
SummedValue(mv) == IF mv.monotonic THEN 0 ELSE mv.summed

\* get_average_value
AverageValue(mv) ==
  IF ~mv.monotonic /\ mv.iterations > 0
  THEN [num |-> mv.summed, den |-> mv.iterations]
  ELSE [num |-> 0, den |-> 1]
============================================================================
