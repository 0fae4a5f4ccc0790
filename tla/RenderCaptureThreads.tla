-------------------------- MODULE RenderCaptureThreads --------------------------
(***************************************************************************)
(* AnalyzeRenderAudio and AnalyzeCaptureAudio on two threads, as far as    *)
(* they share render_buffer_: a statement per step, but a load and a store *)
(* for each of ++, --, %= and the assignment of a minimum, so that what    *)
(* Push stores before it wraps or limits is seen by the other thread.      *)
(* Each method is to hold a lock, the render lock and the capture lock     *)
(* (residual_echo_detector.h): OneLock says whether these are the same.    *)
(*                                                                         *)
(* mem is the object in memory; cb and popped follow it when a method of   *)
(* the buffer returns.                                                     *)
(***************************************************************************)
EXTENDS CircularBuffer, Sequences

CONSTANTS
  OneLock,
  SizeT        \* the values of size_t are 0 .. SizeT - 1

ASSUME LockAssumption == OneLock \in BOOLEAN
ASSUME SizeTAssumption == SizeT \in Nat /\ SizeT > 2 * Capacity

VARIABLES
  mem,
  todo,                           \* the steps each thread still has to take
  loaded,                         \* the member each thread loaded last
  index,                          \* the local variable of Pop
  power,                          \* the power of the frame being rendered
  frames_since_zero_buffer_size,
  first_process_call

threads == <<todo, loaded, index>>
members == <<frames_since_zero_buffer_size, first_process_call>>
threadVars == <<vars, mem, threads, power, members>>

Threads == {"render", "capture"}

PushSteps == <<"insert", "load_next", "step_next", "load_next", "wrap_next",
               "load_nr", "step_nr", "load_nr", "limit_nr">>
PopSteps == <<"check", "index", "load_nr", "decrement", "return">>
ClearSteps == <<"fill", "next_zero", "nr_zero">>

-------------------------------------------------------------------------------
ThreadsInit ==
  /\ Init
  /\ mem = Empty
  /\ todo = [t \in Threads |-> <<>>]
  /\ loaded = [t \in Threads |-> 0] /\ index = [t \in Threads |-> 0]
  /\ power = ZeroValue
  /\ frames_since_zero_buffer_size = 0
  /\ first_process_call = TRUE

\* A mutant of the definition that follows: nothing is locked.
HoldsNoLock(t) == todo[t] = <<>>

\* t is in no method, and takes the lock for its next one.
TakesLock(t) == /\ todo[t] = <<>>
                /\ OneLock => \A u \in Threads : todo[u] = <<>>

Call(t, steps) == TakesLock(t) /\ todo' = [todo EXCEPT ![t] = steps]

At(t, step) == todo[t] # <<>> /\ Head(todo[t]) = step
Goto(t, steps) == todo' = [todo EXCEPT ![t] = steps]
Step(t) == Goto(t, Tail(todo[t]))

Store(member, value) == mem' = [mem EXCEPT ![member] = value]
Load(t, member) == loaded' = [loaded EXCEPT ![t] = mem[member]]

\* A method of the buffer returns.
Return(result) == cb' = mem' /\ popped' = result

-------------------------------------------------------------------------------
AnalyzeRenderAudio(v) ==
  /\ Call("render", <<"size">> \o PushSteps)
  /\ power' = v
  /\ UNCHANGED <<vars, mem, loaded, index, members>>

\* The counter is used on this thread only.
LookAtSize ==
  LET drifted == /\ Size(mem) # 0
                 /\ frames_since_zero_buffer_size >= Capacity
  IN  /\ At("render", "size")
      /\ frames_since_zero_buffer_size' =
           IF Size(mem) = 0 \/ drifted THEN 1 ELSE frames_since_zero_buffer_size + 1
      /\ Goto("render", (IF drifted THEN PopSteps ELSE <<>>) \o PushSteps)
      /\ UNCHANGED <<vars, mem, loaded, index, power, first_process_call>>

AnalyzeCaptureAudio ==
  /\ Call("capture", (IF first_process_call THEN ClearSteps ELSE <<>>) \o PopSteps)
  /\ first_process_call' = FALSE
  /\ UNCHANGED <<vars, mem, loaded, index, power, frames_since_zero_buffer_size>>

Initialize == Call("capture", ClearSteps)
              /\ UNCHANGED <<vars, mem, loaded, index, power, members>>

-------------------------------------------------------------------------------
LoadMember(t) ==
  /\ \/ At(t, "load_next") /\ Load(t, "next_insertion_index")
     \/ At(t, "load_nr") /\ Load(t, "nr_elements_in_buffer")
  /\ Step(t)
  /\ UNCHANGED <<vars, mem, index, power, members>>

Insert(t) ==
  /\ At(t, "insert") /\ Step(t)
  /\ mem' = [mem EXCEPT !.buffer[mem.next_insertion_index] = power]
  /\ UNCHANGED <<vars, loaded, index, power, members>>

\* "++" of the member loaded.
Increased(t) == (loaded[t] + 1) % SizeT

Advance(t) ==
  /\ \/ At(t, "step_next") /\ Store("next_insertion_index", Increased(t))
     \/ At(t, "wrap_next") /\ Store("next_insertion_index", loaded[t] % Capacity)
  /\ Step(t)
  /\ UNCHANGED <<vars, loaded, index, power, members>>

\* No more values than slots.
Limited(nr) == IF nr < Capacity THEN nr ELSE Capacity

Increment(t) ==
  /\ \/ At(t, "step_nr") /\ Store("nr_elements_in_buffer", Increased(t)) /\ UNCHANGED vars
     \/ At(t, "limit_nr") /\ Store("nr_elements_in_buffer", Limited(loaded[t]))
                          /\ Return(popped)
  /\ Step(t)
  /\ UNCHANGED <<loaded, index, power, members>>

CheckEmpty(t) ==
  /\ At(t, "check") /\ UNCHANGED mem
  /\ IF Size(mem) = 0
     THEN /\ Goto(t, SubSeq(todo[t], Len(PopSteps) + 1, Len(todo[t])))
          /\ Return(NoValue)
     ELSE Step(t) /\ UNCHANGED vars
  /\ UNCHANGED <<loaded, index, power, members>>

\* A mutant of the definition that follows: the slot of the second oldest value.
OldestSlotNext == (Capacity + mem.next_insertion_index - Size(mem) + 1) % Capacity

OldestSlot == ((Capacity + mem.next_insertion_index - Size(mem)) % SizeT) % Capacity

FindOldest(t) ==
  /\ At(t, "index") /\ Step(t)
  /\ index' = [index EXCEPT ![t] = OldestSlot]
  /\ UNCHANGED <<vars, mem, loaded, power, members>>

Decrement(t) ==
  /\ At(t, "decrement") /\ Step(t)
  /\ Store("nr_elements_in_buffer", (loaded[t] - 1) % SizeT)
  /\ UNCHANGED <<vars, loaded, index, power, members>>

ReturnOldest(t) ==
  /\ At(t, "return") /\ Step(t) /\ UNCHANGED mem
  /\ Return(mem.buffer[index[t]])
  /\ UNCHANGED <<loaded, index, power, members>>

ClearStep(t) ==
  /\ \/ At(t, "fill") /\ Store("buffer", Empty.buffer) /\ UNCHANGED vars
     \/ At(t, "next_zero") /\ Store("next_insertion_index", 0) /\ UNCHANGED vars
     \/ At(t, "nr_zero") /\ Store("nr_elements_in_buffer", 0) /\ Return(popped)
  /\ Step(t)
  /\ UNCHANGED <<loaded, index, power, members>>

MethodStep(t) ==
  \/ LoadMember(t) \/ Insert(t) \/ Advance(t) \/ Increment(t)
  \/ CheckEmpty(t) \/ FindOldest(t) \/ Decrement(t) \/ ReturnOldest(t) \/ ClearStep(t)

ThreadsNext ==
  \/ \E v \in Values : AnalyzeRenderAudio(v)
  \/ LookAtSize
  \/ AnalyzeCaptureAudio
  \/ Initialize
  \/ \E t \in Threads : MethodStep(t)

ThreadsSpec == ThreadsInit /\ [][ThreadsNext]_threadVars

-------------------------------------------------------------------------------
\* Whatever the two threads do, each method of the buffer is the atomic one that
\* every other module takes it for: what Pop checks still holds when it decrements,
\* and no method loses what another stored.  (FifoSpec is then about these threads.)
AtomicMethods == Spec

\* "nr_elements_in_buffer_ <= buffer_.size()", when no method is running.
CountWithinBuffer ==
  (\A t \in Threads : todo[t] = <<>>) => mem.nr_elements_in_buffer <= Capacity
===============================================================================
