----------------------------- MODULE BoundedFifo -----------------------------
(***************************************************************************)
(* What a client of CircularBuffer may rely on: a first-in first-out queue *)
(* of at most Capacity values.  A push on a full queue drops the oldest    *)
(* value; a pop of an empty queue returns nothing and changes nothing.     *)
(***************************************************************************)
EXTENDS Naturals, Sequences

CONSTANTS
  Values,     \* what can be pushed
  NoValue,    \* the result of a pop that found nothing (std::nullopt)
  Capacity    \* the most values the queue holds

VARIABLES
  queue,      \* the values held, oldest first
  popped      \* the result of the last pop

vars == <<queue, popped>>

Init == queue = <<>> /\ popped = NoValue

Push(v) ==
  /\ queue' = IF Len(queue) < Capacity THEN Append(queue, v)
                                       ELSE Append(Tail(queue), v)
  /\ UNCHANGED popped

PopEmpty == queue = <<>> /\ popped' = NoValue /\ UNCHANGED queue

PopOldest ==
  /\ queue # <<>>
  /\ popped' = Head(queue)
  /\ queue' = Tail(queue)

Clear == queue' = <<>> /\ UNCHANGED popped

Next == (\E v \in Values : Push(v)) \/ PopEmpty \/ PopOldest \/ Clear

Spec == Init /\ [][Next]_vars
==============================================================================
