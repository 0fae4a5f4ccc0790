------------------------------ MODULE RenderQueue ------------------------------
(***************************************************************************)
(* What the render side of ResidualEchoDetector promises its capture side: *)
(* a queue of render values that absorbs jitter between the two calls and  *)
(* takes clock drift back out again.  Each capture takes the oldest value; *)
(* a render that finds the queue has not been empty for kRenderBufferSize  *)
(* renders discards the oldest value first, and then gives jitter the same *)
(* time again before it discards another.                                  *)
(***************************************************************************)
EXTENDS Naturals, Sequences

CONSTANTS
  Powers,              \* the powers of render frames
  NoValue,             \* what a capture takes from an empty queue
  kRenderBufferSize

ASSUME SizeAssumption == kRenderBufferSize \in Nat \ {0}

VARIABLES
  queue,                            \* oldest first
  frames_since_zero_buffer_size,
  first_process_call,
  taken                             \* what the last capture took

vars == <<queue, frames_since_zero_buffer_size, first_process_call, taken>>

Init ==
  /\ queue = <<>>
  /\ frames_since_zero_buffer_size = 0
  /\ first_process_call = TRUE
  /\ taken = NoValue

\* The oldest values go until there is room for another.
Enqueued(q, power) ==
  Append(IF Len(q) = kRenderBufferSize THEN Tail(q) ELSE q, power)

\* A mutant of the definition that follows: drift is recognised after twice the
\* time.
DriftedLate == queue # <<>> /\ frames_since_zero_buffer_size >= 2 * kRenderBufferSize

Drifted == queue # <<>> /\ frames_since_zero_buffer_size >= kRenderBufferSize

\* A mutant of the definition that follows: a discard does not restart the count.
RenderWithoutReset(power) ==
  /\ queue' = Enqueued(IF Drifted THEN Tail(queue) ELSE queue, power)
  /\ frames_since_zero_buffer_size' =
       IF queue = <<>> THEN 1
       ELSE IF Drifted THEN frames_since_zero_buffer_size
       ELSE frames_since_zero_buffer_size + 1
  /\ UNCHANGED <<first_process_call, taken>>

Render(power) ==
  /\ queue' = Enqueued(IF Drifted THEN Tail(queue) ELSE queue, power)
  /\ frames_since_zero_buffer_size' =
       IF queue = <<>> \/ Drifted THEN 1 ELSE frames_since_zero_buffer_size + 1
  /\ UNCHANGED <<first_process_call, taken>>

\* A mutant of the definition that follows: nothing is flushed.
CaptureNothingKeeping ==
  /\ first_process_call \/ queue = <<>>
  /\ taken' = NoValue
  /\ first_process_call' = FALSE
  /\ UNCHANGED <<queue, frames_since_zero_buffer_size>>

\* The first capture of all flushes the queue; a capture that finds the queue
\* empty is ignored.
CaptureNothing ==
  /\ first_process_call \/ queue = <<>>
  /\ queue' = <<>>
  /\ taken' = NoValue
  /\ first_process_call' = FALSE
  /\ UNCHANGED frames_since_zero_buffer_size

\* A mutant of the definition that follows: every capture restarts the count.
CaptureRestarting ==
  /\ ~ first_process_call /\ queue # <<>>
  /\ taken' = Head(queue)
  /\ queue' = Tail(queue)
  /\ frames_since_zero_buffer_size' = 0
  /\ UNCHANGED first_process_call

CaptureOldest ==
  /\ ~ first_process_call /\ queue # <<>>
  /\ taken' = Head(queue)
  /\ queue' = Tail(queue)
  /\ UNCHANGED <<frames_since_zero_buffer_size, first_process_call>>

Initialize ==
  /\ queue' = <<>>
  /\ UNCHANGED <<frames_since_zero_buffer_size, first_process_call, taken>>

Next ==
  \/ \E power \in Powers : Render(power)
  \/ CaptureNothing \/ CaptureOldest
  \/ Initialize

Spec == Init /\ [][Next]_vars
===============================================================================
