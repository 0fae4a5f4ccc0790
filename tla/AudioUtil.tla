------------------------------- MODULE AudioUtil -------------------------------
(***************************************************************************)
(* common_audio/audio_util: conversions of samples, of numbers (a NaN      *)
(* passes the limits, and its cast is undefined).                          *)
(*                                                                         *)
(* A Float is an integer in units of 1 / (65536 * HalfStep), a FloatS16    *)
(* one in units of 1 / (2 * HalfStep): so 0.5f of the latter is HalfStep,  *)
(* and scaling by 32768 changes the unit and not the integer.              *)
(*                                                                         *)
(* With the 24 bits of a float HalfStep is 2^24: then HalfStep - 1 is the  *)
(* last float before a half.  The floats that are no integers here are     *)
(* closer to 0 than a quarter, and as a sample 0.                          *)
(***************************************************************************)
EXTENDS Integers

CONSTANT HalfStep

ASSUME HalfStepAssumption == HalfStep \in Nat /\ HalfStep > 1

Step == 2 * HalfStep
MinS16 == -32768
MaxS16 == 32767
S16 == MinS16 .. MaxS16

Lowest == MinS16 * Step
Highest == MaxS16 * Step

Limited(v, low, high) == IF v > high THEN high ELSE IF v < low THEN low ELSE v

\* v + 0.5f, for a v that is not negative.  The last float before a half gives a sum
\* in the middle between 1 and the float before it, which is rounded to the even of
\* the two, 1.  Any other sum that is rounded stays between the same integers, and the
\* cast makes the same of it as of the exact one.
PlusHalf(v) == IF v = HalfStep - 1 THEN Step ELSE v + HalfStep

\* v + copysign(0.5f, v), cast to an integer: towards zero.
Rounded(v) == IF v >= 0 THEN PlusHalf(v) \div Step ELSE -(PlusHalf(-v) \div Step)

FloatS16ToS16(v) == Rounded(Limited(v, Lowest, Highest))

\* After the scaling; the limits are those of FloatS16ToS16.
FloatToS16(v) == Rounded(Limited(v, Lowest, Highest))

FloatToFloatS16(v) == Limited(v, Lowest, 32768 * Step)
FloatS16ToFloat(v) == Limited(v, Lowest, 32768 * Step)

S16ToFloatS16(v) == v * Step
S16ToFloat(v) == v * Step
================================================================================
