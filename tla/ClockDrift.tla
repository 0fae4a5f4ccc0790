------------------------------ MODULE ClockDrift ------------------------------
(***************************************************************************)
(* RenderQueue between two devices with clocks of their own, as in         *)
(* EchoWithRenderClockDrift of residual_echo_detector_unittest.cc: render  *)
(* and capture alternate, and now and then one of them delivers a frame    *)
(* too many.  Before that the calls may come in any order (jitter, a late  *)
(* start of capture), so that the queue starts with any backlog.           *)
(***************************************************************************)
EXTENDS RenderQueue

CONSTANT Period     \* alternate frames between two slips of the clocks

ASSUME PeriodAssumption == Period \in Nat

VARIABLES
  phase,            \* "jitter", then "drift", then "locked"
  turn,             \* whose call comes next, when they alternate
  patience,         \* frames until the clocks may slip again
  settled,          \* history: the backlog has been zero since the jitter
  steady, gap       \* history: renders since a value was discarded for drift or
                    \* the queue was found empty, and how many there had been
                    \* at the last discard; both up to kRenderBufferSize

environment == <<phase, turn, patience>>
driftVars == <<vars, environment, settled, steady, gap>>

-------------------------------------------------------------------------------
DriftInit ==
  /\ Init
  /\ phase = "jitter" /\ turn = "render" /\ patience = 0
  /\ settled = FALSE /\ steady = 0 /\ gap = kRenderBufferSize

\* After a capture the queue holds what the next captures will be late by.
Watch ==
  /\ settled' = (settled \/ (phase # "jitter" /\ turn' = "render" /\ queue' = <<>>))
  /\ UNCHANGED <<steady, gap>>

\* A render that does not lengthen a queue with room has discarded a value.
Discards == 0 < Len(queue) /\ Len(queue) < kRenderBufferSize /\ Len(queue') = Len(queue)

WatchRender ==
  /\ steady' = IF queue = <<>> \/ Discards THEN 1
               ELSE IF steady < kRenderBufferSize THEN steady + 1 ELSE steady
  /\ gap' = IF Discards THEN steady ELSE gap
  /\ UNCHANGED settled

RenderCall == (\E power \in Powers : Render(power)) /\ WatchRender
CaptureCall == (CaptureNothing \/ CaptureOldest) /\ Watch

Jitter == phase = "jitter" /\ (RenderCall \/ CaptureCall) /\ UNCHANGED environment

EndJitter ==
  /\ phase = "jitter" /\ phase' = "drift"
  /\ UNCHANGED <<vars, turn, patience, settled, steady, gap>>

RenderTurn ==
  /\ phase # "jitter" /\ turn = "render"
  /\ turn' = "capture"
  /\ patience' = IF patience > 0 THEN patience - 1 ELSE 0
  /\ UNCHANGED phase
  /\ RenderCall

CaptureTurn ==
  /\ phase # "jitter" /\ turn = "capture"
  /\ turn' = "render"
  /\ UNCHANGED <<phase, patience>>
  /\ CaptureCall

\* One of the clocks has gained a frame on the other.
Slip ==
  /\ phase = "drift" /\ turn = "render" /\ patience = 0
  /\ patience' = Period
  /\ UNCHANGED <<phase, turn>>
  /\ RenderCall \/ CaptureCall

Lock ==
  /\ phase = "drift" /\ phase' = "locked"
  /\ UNCHANGED <<vars, turn, patience, settled, steady, gap>>

DriftNext == Jitter \/ EndJitter \/ RenderTurn \/ CaptureTurn \/ Slip \/ Lock

\* Both devices keep calling, every 10 ms of their own clocks.  Nothing obliges
\* the jitter to end, a clock to slip or the drift to stop.
DriftSpec ==
  /\ DriftInit /\ [][DriftNext]_driftVars
  /\ WF_driftVars(RenderTurn) /\ WF_driftVars(CaptureTurn)

-------------------------------------------------------------------------------
\* A backlog left by jitter is worked off while the calls alternate, even while
\* one clock keeps gaining on the other by a frame every Period frames.
BacklogDrains == (phase # "jitter") ~> settled

\* Once it has, a drift of one frame in Period never makes a capture late by
\* more than one frame again, and never fills the buffer.
DriftAbsorbed == settled => Len(queue) <= IF turn = "render" THEN 1 ELSE 2

\* When the clocks no longer slip, every capture is eventually compared with the
\* render frame just before it.
AlignmentRecovered == (phase = "locked") ~> [](turn = "render" => queue = <<>>)

\* "To avoid repeatedly removing elements": between two discards for drift there
\* are kRenderBufferSize renders, during which jitter can empty the queue.
DiscardsAreRare == gap = kRenderBufferSize
===============================================================================
