------------------------------ MODULE MovingMax ------------------------------
(***************************************************************************)
(* echo_detector/moving_max.{h,cc}: an estimate of the largest recent      *)
(* value.  A new maximum is held for window_size_ - 1 further updates and  *)
(* decays by kDecayFactor at every update after those.                     *)
(*                                                                         *)
(* Values are naturals, multiples of one quantum, and the decayed value is *)
(* rounded to the nearest quantum as a float product is: a maximum of few  *)
(* quanta no longer shrinks, as the smallest floats do not.                *)
(***************************************************************************)
EXTENDS Naturals

CONSTANTS
  Inputs,                 \* the values passed to Update
  window_size,            \* window_size_
  DecayNum, DecayDen      \* kDecayFactor = DecayNum / DecayDen

ASSUME InputsAssumption == Inputs \subseteq Nat
ASSUME WindowAssumption == window_size \in Nat \ {0}
ASSUME DecayAssumption ==
  DecayNum \in Nat /\ DecayDen \in Nat \ {0} /\ DecayNum < DecayDen

VARIABLES
  mm,       \* the object: max_value_ and counter_
  last,     \* history: the value of the latest update, 0 after a Clear
  largest   \* history: the largest value since the last Clear

vars == <<mm, last, largest>>

Objects == [max_value : Nat, counter : 0 .. window_size - 1]

Cleared == [max_value |-> 0, counter |-> 0]

Decayed(x) == (x * DecayNum + DecayDen \div 2) \div DecayDen

\* A mutant of the definition that follows: the window lasts one update less.
AgedEarly(m) == IF m.counter >= window_size - 2
                THEN [m EXCEPT !.max_value = Decayed(@)]
                ELSE [m EXCEPT !.counter = @ + 1]

\* What an update does before it looks at its value.
Aged(m) == IF m.counter >= window_size - 1
           THEN [m EXCEPT !.max_value = Decayed(@)]
           ELSE [m EXCEPT !.counter = @ + 1]

\* Mutants of the definition that follows: the value is compared before the
\* decay, every update restarts the window, a new maximum does not.
UpdatedThenAged(m, value) ==
  IF value > m.max_value THEN [max_value |-> value, counter |-> 0] ELSE Aged(m)
UpdatedRestarts(m, value) ==
  [max_value |-> IF value > Aged(m).max_value THEN value ELSE Aged(m).max_value,
   counter |-> 0]
UpdatedInOldWindow(m, value) ==
  IF value > Aged(m).max_value THEN [Aged(m) EXCEPT !.max_value = value] ELSE Aged(m)

Updated(m, value) ==
  IF value > Aged(m).max_value THEN [max_value |-> value, counter |-> 0]
                               ELSE Aged(m)

-------------------------------------------------------------------------------
Init == mm = Cleared /\ last = 0 /\ largest = 0

Update(value) ==
  /\ mm' = Updated(mm, value)
  /\ last' = value
  /\ largest' = IF value > largest THEN value ELSE largest

Clear == mm' = Cleared /\ last' = 0 /\ largest' = 0

Next == (\E value \in Inputs : Update(value)) \/ Clear

Spec == Init /\ [][Next]_vars

-------------------------------------------------------------------------------
TypeOK == mm \in Objects /\ last \in Nat /\ largest \in Nat

\* max() lies between the value just passed to Update and the largest value
\* seen since Clear, whatever the decay did in between.
BetweenLastAndLargest == last <= mm.max_value /\ mm.max_value <= largest

\* A maximum is forgotten unless the same value keeps arriving: max() cannot
\* stay for ever at a value the input has left (unless it is so small that the
\* decay rounds it to itself).
Forgets ==
  \A m \in Inputs :
    Decayed(m) < m => (<>[](mm.max_value = m) => []<>(last = m))
===============================================================================
