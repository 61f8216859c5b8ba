--------------------------- MODULE SampleSummary ---------------------------
(***************************************************************************)
(* What a monitored value promises its readers, without saying how it      *)
(* keeps count: readings are refused or become samples, and the numbers    *)
(* reported are the statistics of ALL samples taken so far.  MonitoredValue *)
(* is shown to implement this.                                             *)
(***************************************************************************)
EXTENDS Sums, SequencesExt, FiniteSetsExt, Functions

CONSTANT Samples      \* the values a sample may have

VARIABLES monotonic,  \* whether samples may only increase; never changes
          samples,    \* every sample taken, oldest first
          reported    \* what the accessors return

vars == <<monotonic, samples, reported>>

\* The statistics of a sequence of samples; all zero before the first one.
\* Sums and averages of a monotonic series have no meaning and stay zero.
Statistics(s) ==
  [value   |-> IF s = <<>> THEN 0 ELSE Last(s),
   max     |-> IF s = <<>> THEN 0 ELSE Max(Range(s)),
   summed  |-> IF monotonic THEN 0 ELSE SumOf(s),
   average |-> IF monotonic \/ s = <<>>
               THEN [num |-> 0, den |-> 1]
               ELSE [num |-> SumOf(s), den |-> Len(s)]]

Init ==
  /\ monotonic \in BOOLEAN
  /\ samples = <<>>
  /\ reported = Statistics(<<>>)

\* A sample is taken; a monotonic series only ever grows.
Take(v) ==
  /\ (monotonic /\ samples # <<>>) => v >= Last(samples)
  /\ samples' = Append(samples, v)
  /\ reported' = Statistics(samples')
  /\ UNCHANGED monotonic

Next == \E v \in Samples : Take(v)

Spec == Init /\ [][Next]_vars
============================================================================
