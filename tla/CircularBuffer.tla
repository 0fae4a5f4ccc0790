---------------------------- MODULE CircularBuffer ----------------------------
(***************************************************************************)
(* echo_detector/circular_buffer.{h,cc}: a fixed vector of floats written  *)
(* at next_insertion_index and read nr_elements_in_buffer slots behind it. *)
(*                                                                         *)
(* The state of one object is a record, and each method an operator on     *)
(* such records, so that a handler which calls several methods (the echo   *)
(* detector pops and pushes in one call) can compose them in one step.     *)
(* The variables make a state machine of the object on its own.            *)
(*                                                                         *)
(* size_t is modelled by integers: with at most Capacity elements every    *)
(* intermediate value lies in 0 .. 2 * Capacity, far below 2^64.           *)
(***************************************************************************)
EXTENDS Integers

CONSTANTS
  Values,     \* the floats a client pushes
  ZeroValue,  \* 0.f, what a fresh or cleared slot holds
  NoValue,    \* std::nullopt
  Capacity    \* buffer_.size()

ASSUME CapacityAssumption == Capacity \in Nat \ {0}
ASSUME ZeroAssumption == ZeroValue \in Values

VARIABLES
  cb,         \* the object
  popped      \* what the last Pop() returned

vars == <<cb, popped>>

Slots == 0 .. Capacity - 1

Buffers == [buffer : [Slots -> Values],
            next_insertion_index : Slots,
            nr_elements_in_buffer : 0 .. Capacity]

Empty == [buffer |-> [i \in Slots |-> ZeroValue],
          next_insertion_index |-> 0,
          nr_elements_in_buffer |-> 0]

Size(b) == b.nr_elements_in_buffer

Pushed(b, v) ==
  [buffer |-> [b.buffer EXCEPT ![b.next_insertion_index] = v],
   next_insertion_index |-> (b.next_insertion_index + 1) % Capacity,
   nr_elements_in_buffer |-> IF Size(b) + 1 < Capacity THEN Size(b) + 1
                                                       ELSE Capacity]

\* The slot k places behind the next insertion.
SlotBehind(b, k) == (Capacity + b.next_insertion_index - k) % Capacity

PopResult(b) == IF Size(b) = 0 THEN NoValue ELSE b.buffer[SlotBehind(b, Size(b))]

Popped(b) == IF Size(b) = 0 THEN b
             ELSE [b EXCEPT !.nr_elements_in_buffer = @ - 1]

\* The values an object holds, oldest first.
ContentsOf(b) ==
  [i \in 1 .. Size(b) |-> b.buffer[SlotBehind(b, Size(b) - (i - 1))]]

-------------------------------------------------------------------------------
Init == cb = Empty /\ popped = NoValue

Push(v) == cb' = Pushed(cb, v) /\ UNCHANGED popped

Pop == popped' = PopResult(cb) /\ cb' = Popped(cb)

Clear == cb' = Empty /\ UNCHANGED popped

Next == (\E v \in Values : Push(v)) \/ Pop \/ Clear

Spec == Init /\ [][Next]_vars

-------------------------------------------------------------------------------
\* The indices and the count stay in their ranges: the inline remarks
\* "index < buffer_.size()" and "nr_elements_in_buffer_ <= buffer_.size()".
TypeOK == cb \in Buffers /\ popped \in Values \cup {NoValue}

Fifo == INSTANCE BoundedFifo WITH queue <- ContentsOf(cb)

\* Through every wrap of either index, Push, Pop and Clear behave as a bounded
\* queue that drops its oldest value when full: no value is returned twice, out
\* of order, or after a Clear.
FifoSpec == Fifo!Spec
===============================================================================
