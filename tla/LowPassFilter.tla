--------------------------- MODULE LowPassFilter -----------------------------
(***************************************************************************)
(* The low pass filter of bb_low_pass_filter/_src/low_pass_filter.c: a     *)
(* running sum that keeps what an integer division leaves.  The samples    *)
(* are small against the 32 bits of the sum, as the code presumes.         *)
(***************************************************************************)
EXTENDS CInt

CONSTANTS
  Samples,     \* the values that may be fed in
  Integrators  \* the values of integrator, at least 1

VARIABLE filter  \* [sum, integrator, lo, hi, value]

vars == filter

\* Low_Pass_Filter_Init; lo and hi are ghosts, the least and the greatest sample so far.
Init == filter \in {[sum |-> v * (n - 1), integrator |-> n, lo |-> v, hi |-> v, value |-> v] :
                       v \in Samples, n \in Integrators}

NewSum(total, value) == total - value

Filtered(sample) ==
  LET total == sample + filter.sum
      value == Quot(total, filter.integrator)
  IN  [filter EXCEPT !.sum = NewSum(total, value), !.value = value,
                     !.lo = IF sample < @ THEN sample ELSE @,
                     !.hi = IF sample > @ THEN sample ELSE @]

Low_Pass_Filter(sample) == filter' = Filtered(sample)

Next == \E sample \in Samples : Low_Pass_Filter(sample)

Spec == Init /\ [][Next]_vars

-----------------------------------------------------------------------------
(* StaysAmongSamples: no filtered value is outside of the samples that were *)
(* fed in, however long the sum has collected rests.                        *)
StaysAmongSamples == filter.value \in filter.lo .. filter.hi

(* Converges: a sample that the filtered value does not equal yet moves the *)
(* sum towards it, so that a constant input is reached.                     *)
Converges ==
  \A sample \in Samples :
    Filtered(sample).value # sample =>
      LET Away(f) == Magnitude(sample * (f.integrator - 1) - f.sum)
      IN  Away(Filtered(sample)) < Away(filter)
=============================================================================
