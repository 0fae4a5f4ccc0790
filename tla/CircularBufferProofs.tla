------------------------- MODULE CircularBufferProofs -------------------------
(***************************************************************************)
(* CircularBuffer keeps its type and implements BoundedFifo, for every     *)
(* capacity and every set of values.                                       *)
(* Two threads that share one lock use it as it is meant.                  *)
(***************************************************************************)
EXTENDS RenderCaptureThreads, SequenceTheorems, TLAPS

-------------------------------------------------------------------------------
\* Arithmetic of the two wraps in the code: below 2 * Capacity, "% buffer_.size()"
\* subtracts the size at most once.
LEMMA WrapOnce ==
  ASSUME NEW n \in 0 .. 2 * Capacity - 1
  PROVE  n % Capacity = IF n < Capacity THEN n ELSE n - Capacity
BY CapacityAssumption

\* Where the slot k behind the next insertion is, without the modulus.
LEMMA SlotBehindIs ==
  ASSUME NEW b \in Buffers, NEW k \in 1 .. Capacity
  PROVE  /\ SlotBehind(b, k) = IF k <= b.next_insertion_index
                               THEN b.next_insertion_index - k
                               ELSE Capacity + b.next_insertion_index - k
         /\ SlotBehind(b, k) \in Slots
<1> DEFINE n == Capacity + b.next_insertion_index - k
<1>1. b.next_insertion_index \in Slots
  BY DEF Buffers
<1>2. n \in 0 .. 2 * Capacity - 1
  BY <1>1, CapacityAssumption DEF Slots
<1>3. SlotBehind(b, k) = IF n < Capacity THEN n ELSE n - Capacity
  BY <1>2, WrapOnce DEF SlotBehind
<1>. QED
  BY <1>1, <1>3, CapacityAssumption DEF Slots

\* The four methods keep an object well formed.
LEMMA MethodsKeepType ==
  ASSUME NEW b \in Buffers
  PROVE  /\ Empty \in Buffers
         /\ \A v \in Values : Pushed(b, v) \in Buffers
         /\ Popped(b) \in Buffers
         /\ PopResult(b) \in Values \cup {NoValue}
<1>1. Empty \in Buffers
  BY CapacityAssumption, ZeroAssumption DEF Empty, Buffers, Slots
<1>2. ASSUME NEW v \in Values PROVE Pushed(b, v) \in Buffers
  <2>1. b.next_insertion_index + 1 \in 0 .. 2 * Capacity - 1
    BY CapacityAssumption DEF Buffers, Slots
  <2>2. (b.next_insertion_index + 1) % Capacity \in Slots
    BY <2>1, CapacityAssumption DEF Slots
  <2>. QED
    BY <2>2, CapacityAssumption DEF Pushed, Buffers, Slots, Size
<1>3. Popped(b) \in Buffers
  BY CapacityAssumption DEF Popped, Buffers, Slots, Size
<1>4. PopResult(b) \in Values \cup {NoValue}
  <2>1. CASE Size(b) = 0
    BY <2>1 DEF PopResult
  <2>2. CASE Size(b) # 0
    <3>1. Size(b) \in 1 .. Capacity
      BY <2>2, CapacityAssumption DEF Size, Buffers
    <3>2. SlotBehind(b, Size(b)) \in Slots
      BY <3>1, SlotBehindIs
    <3>. QED
      BY <2>2, <3>2 DEF PopResult, Buffers
  <2>. QED
    BY <2>1, <2>2
<1>. QED
  BY <1>1, <1>2, <1>3, <1>4

\* Every reachable object is well formed: both indices stay inside the vector
\* and the count never exceeds its size, whatever the capacity.
THEOREM TypeCorrect == Spec => []TypeOK
<1>1. Init => TypeOK
  <2> SUFFICES ASSUME Init PROVE TypeOK
    OBVIOUS
  <2>1. Empty \in Buffers
    BY CapacityAssumption, ZeroAssumption DEF Empty, Buffers, Slots
  <2>. QED
    BY <2>1 DEF Init, TypeOK
<1>2. TypeOK /\ [Next]_vars => TypeOK'
  <2> SUFFICES ASSUME TypeOK, [Next]_vars PROVE TypeOK'
    OBVIOUS
  <2>0. cb \in Buffers
    BY DEF TypeOK
  <2>1. ASSUME NEW v \in Values, Push(v) PROVE TypeOK'
    BY <2>0, <2>1, MethodsKeepType DEF Push, TypeOK
  <2>2. CASE Pop
    BY <2>0, <2>2, MethodsKeepType DEF Pop, TypeOK
  <2>3. CASE Clear
    BY <2>0, <2>3, MethodsKeepType DEF Clear, TypeOK
  <2>4. CASE UNCHANGED vars
    BY <2>4 DEF vars, TypeOK
  <2>. QED
    BY <2>1, <2>2, <2>3, <2>4 DEF Next
<1>. QED
  BY <1>1, <1>2, PTL DEF Spec

-------------------------------------------------------------------------------
\* The contents are a sequence of values, one per element counted.
LEMMA ContentsAreValues ==
  ASSUME NEW b \in Buffers
  PROVE  /\ ContentsOf(b) \in Seq(Values)
         /\ Len(ContentsOf(b)) = Size(b)
         /\ Size(b) \in 0 .. Capacity
         /\ \A i \in 1 .. Size(b) :
              ContentsOf(b)[i] = b.buffer[SlotBehind(b, Size(b) - (i - 1))]
<1>1. Size(b) \in 0 .. Capacity
  BY DEF Buffers, Size
<1>2. ASSUME NEW i \in 1 .. Size(b)
      PROVE  b.buffer[SlotBehind(b, Size(b) - (i - 1))] \in Values
  <2>1. Size(b) - (i - 1) \in 1 .. Capacity
    BY <1>1, CapacityAssumption
  <2>. QED
    BY <2>1, SlotBehindIs DEF Buffers
<1>3. ContentsOf(b) \in [1 .. Size(b) -> Values]
  BY <1>2 DEF ContentsOf
<1>4. ContentsOf(b) \in Seq(Values) /\ Len(ContentsOf(b)) = Size(b)
  BY <1>1, <1>3
<1>. QED
  BY <1>1, <1>4 DEF ContentsOf

\* Pop removes the head of the contents and returns it.
LEMMA PopTakesOldest ==
  ASSUME NEW b \in Buffers, Size(b) # 0
  PROVE  /\ ContentsOf(b) # <<>>
         /\ PopResult(b) = Head(ContentsOf(b))
         /\ ContentsOf(Popped(b)) = Tail(ContentsOf(b))
<1> DEFINE c == Popped(b)
<1>1. /\ c \in Buffers
      /\ c.buffer = b.buffer
      /\ c.next_insertion_index = b.next_insertion_index
      /\ Size(c) = Size(b) - 1
  BY MethodsKeepType DEF Popped, Size, Buffers
<1>2. ContentsOf(b) # <<>>
  BY ContentsAreValues
<1>3. PopResult(b) = Head(ContentsOf(b))
  <2>1. ContentsOf(b)[1] = b.buffer[SlotBehind(b, Size(b))]
    BY ContentsAreValues
  <2>2. Head(ContentsOf(b)) = ContentsOf(b)[1]
    BY <1>2, ContentsAreValues
  <2>. QED
    BY <2>1, <2>2 DEF PopResult
<1>4. ContentsOf(c) = Tail(ContentsOf(b))
  <2>1. ContentsOf(c) \in Seq(Values) /\ Len(ContentsOf(c)) = Size(b) - 1
    BY <1>1, ContentsAreValues
  <2>2. /\ Tail(ContentsOf(b)) \in Seq(Values)
        /\ Len(Tail(ContentsOf(b))) = Size(b) - 1
        /\ \A i \in 1 .. Size(b) - 1 : Tail(ContentsOf(b))[i] = ContentsOf(b)[i + 1]
    BY <1>2, ContentsAreValues, HeadTailProperties
  <2>3. ASSUME NEW i \in 1 .. Size(b) - 1
        PROVE  ContentsOf(c)[i] = Tail(ContentsOf(b))[i]
    <3>1. ContentsOf(c)[i] = c.buffer[SlotBehind(c, Size(c) - (i - 1))]
      BY <1>1, ContentsAreValues
    <3>2. ContentsOf(b)[i + 1] = b.buffer[SlotBehind(b, Size(b) - ((i + 1) - 1))]
      BY ContentsAreValues
    <3>3. Size(c) - (i - 1) = Size(b) - ((i + 1) - 1)
      BY <1>1, ContentsAreValues
    <3>4. SlotBehind(c, Size(c) - (i - 1)) = SlotBehind(b, Size(b) - ((i + 1) - 1))
      BY <1>1, <3>3 DEF SlotBehind
    <3>. QED
      BY <1>1, <2>2, <3>1, <3>2, <3>4
  <2>. QED
    BY <2>1, <2>2, <2>3, SeqEqual
<1>. QED
  BY <1>2, <1>3, <1>4

\* A push moves every slot one place further behind the insertion point and puts
\* the value one place behind it; only the slot Capacity places behind is lost.
LEMMA PushShifts ==
  ASSUME NEW b \in Buffers, NEW v \in Values
  PROVE  LET c == Pushed(b, v) IN
         /\ c.buffer[SlotBehind(c, 1)] = v
         /\ \A k \in 1 .. Capacity - 1 :
              c.buffer[SlotBehind(c, k + 1)] = b.buffer[SlotBehind(b, k)]
<1> DEFINE c == Pushed(b, v)
           n == b.next_insertion_index
<1>1. n \in Slots /\ c \in Buffers
  BY MethodsKeepType DEF Buffers
<1>2. /\ c.buffer = [b.buffer EXCEPT ![n] = v]
      /\ c.next_insertion_index = (n + 1) % Capacity
  BY DEF Pushed
<1>3. c.next_insertion_index = IF n + 1 < Capacity THEN n + 1 ELSE 0
  <2> DEFINE p == n + 1
  <2>1. p \in 0 .. 2 * Capacity - 1
    BY <1>1, CapacityAssumption DEF Slots
  <2>2. p % Capacity = IF p < Capacity THEN p ELSE p - Capacity
    <3>. HIDE DEF p
    <3>. QED
      BY <2>1, WrapOnce
  <2>. QED
    BY <1>1, <1>2, <2>2, CapacityAssumption DEF Slots
<1>4. SlotBehind(c, 1) = n
  <2>1. 1 \in 1 .. Capacity
    BY CapacityAssumption
  <2>2. SlotBehind(c, 1) = IF 1 <= c.next_insertion_index
                           THEN c.next_insertion_index - 1
                           ELSE Capacity + c.next_insertion_index - 1
    BY <1>1, <2>1, SlotBehindIs
  <2>. HIDE DEF c
  <2>. QED
    BY <1>1, <1>3, <2>2, CapacityAssumption DEF Slots
<1>5. ASSUME NEW k \in 1 .. Capacity - 1
      PROVE  c.buffer[SlotBehind(c, k + 1)] = b.buffer[SlotBehind(b, k)]
  <2>1. k \in 1 .. Capacity /\ k + 1 \in 1 .. Capacity
    BY CapacityAssumption
  <2>2. /\ SlotBehind(b, k) = IF k <= n THEN n - k ELSE Capacity + n - k
        /\ SlotBehind(b, k) \in Slots
    BY <2>1, SlotBehindIs
  <2>3. SlotBehind(c, k + 1) = IF k + 1 <= c.next_insertion_index
                               THEN c.next_insertion_index - (k + 1)
                               ELSE Capacity + c.next_insertion_index - (k + 1)
    BY <1>1, <2>1, SlotBehindIs
  <2>4. SlotBehind(c, k + 1) = SlotBehind(b, k) /\ SlotBehind(b, k) # n
    <3>. HIDE DEF c
    <3>. QED
      BY <1>1, <1>3, <2>2, <2>3, CapacityAssumption DEF Slots
  <2>. QED
    BY <1>1, <1>2, <2>2, <2>4 DEF Buffers
<1>6. c.buffer[SlotBehind(c, 1)] = v
  BY <1>1, <1>2, <1>4 DEF Buffers
<1>. QED
  BY <1>5, <1>6

\* Push appends to the contents, after dropping the oldest value of a full buffer.
LEMMA PushAppends ==
  ASSUME NEW b \in Buffers, NEW v \in Values
  PROVE  ContentsOf(Pushed(b, v)) =
           IF Len(ContentsOf(b)) < Capacity
           THEN Append(ContentsOf(b), v)
           ELSE Append(Tail(ContentsOf(b)), v)
<1> DEFINE c == Pushed(b, v)
           s == ContentsOf(b)
           m == Size(b)
<1>1. /\ c \in Buffers
      /\ Size(c) = IF m + 1 < Capacity THEN m + 1 ELSE Capacity
  BY MethodsKeepType DEF Pushed, Size
<1>2. /\ s \in Seq(Values) /\ Len(s) = m /\ m \in 0 .. Capacity
      /\ \A i \in 1 .. m : s[i] = b.buffer[SlotBehind(b, m - (i - 1))]
  BY ContentsAreValues
<1>3. /\ ContentsOf(c) \in Seq(Values) /\ Len(ContentsOf(c)) = Size(c)
      /\ \A i \in 1 .. Size(c) :
           ContentsOf(c)[i] = c.buffer[SlotBehind(c, Size(c) - (i - 1))]
  BY <1>1, ContentsAreValues
<1>4. /\ c.buffer[SlotBehind(c, 1)] = v
      /\ \A k \in 1 .. Capacity - 1 :
           c.buffer[SlotBehind(c, k + 1)] = b.buffer[SlotBehind(b, k)]
  BY PushShifts
<1>. HIDE DEF c, s
<1>5. CASE m < Capacity
  <2>1. Size(c) = m + 1
    BY <1>1, <1>2, <1>5, CapacityAssumption
  <2>2. /\ Append(s, v) \in Seq(Values) /\ Len(Append(s, v)) = m + 1
        /\ Append(s, v)[m + 1] = v
        /\ \A i \in 1 .. m : Append(s, v)[i] = s[i]
    BY <1>2, AppendProperties
  <2>3. ASSUME NEW i \in 1 .. m + 1
        PROVE  ContentsOf(c)[i] = Append(s, v)[i]
    <3>1. ContentsOf(c)[i] = c.buffer[SlotBehind(c, (m + 1) - (i - 1))]
      BY <1>3, <2>1
    <3>2. CASE i = m + 1
      <4>1. (m + 1) - (i - 1) = 1
        BY <1>2, <3>2
      <4>. QED
        BY <1>4, <2>2, <3>1, <3>2, <4>1
    <3>3. CASE i \in 1 .. m
      <4> DEFINE k == m - (i - 1)
      <4>1. k \in 1 .. Capacity - 1 /\ (m + 1) - (i - 1) = k + 1
        BY <1>2, <1>5, <3>3, CapacityAssumption
      <4>2. ContentsOf(c)[i] = b.buffer[SlotBehind(b, k)]
        BY <1>4, <3>1, <4>1
      <4>. QED
        BY <1>2, <2>2, <3>3, <4>2
    <3>. QED
      BY <1>2, <3>2, <3>3
  <2>4. ContentsOf(c) = Append(s, v)
    BY <1>3, <2>1, <2>2, <2>3, SeqEqual
  <2>. QED
    BY <1>2, <1>5, <2>4 DEF c, s
<1>6. CASE m = Capacity
  <2>1. Size(c) = m
    BY <1>1, <1>6, CapacityAssumption
  <2>2. s # <<>>
    BY <1>2, <1>6, CapacityAssumption
  <2>3. /\ Tail(s) \in Seq(Values) /\ Len(Tail(s)) = m - 1
        /\ \A i \in 1 .. m - 1 : Tail(s)[i] = s[i + 1]
    BY <1>2, <2>2, HeadTailProperties
  <2>4. /\ Append(Tail(s), v) \in Seq(Values) /\ Len(Append(Tail(s), v)) = m
        /\ Append(Tail(s), v)[m] = v
        /\ \A i \in 1 .. m - 1 : Append(Tail(s), v)[i] = Tail(s)[i]
    <3>1. (m - 1) + 1 = m
      BY <1>2
    <3>. QED
      BY <2>3, <3>1, AppendProperties
  <2>5. ASSUME NEW i \in 1 .. m
        PROVE  ContentsOf(c)[i] = Append(Tail(s), v)[i]
    <3>1. ContentsOf(c)[i] = c.buffer[SlotBehind(c, m - (i - 1))]
      BY <1>3, <2>1
    <3>2. CASE i = m
      <4>1. m - (i - 1) = 1
        BY <1>2, <3>2
      <4>. QED
        BY <1>4, <2>4, <3>1, <3>2, <4>1
    <3>3. CASE i \in 1 .. m - 1
      <4> DEFINE k == m - ((i + 1) - 1)
      <4>1. k \in 1 .. Capacity - 1 /\ m - (i - 1) = k + 1
        BY <1>2, <1>6, <3>3, CapacityAssumption
      <4>2. ContentsOf(c)[i] = b.buffer[SlotBehind(b, k)]
        BY <1>4, <3>1, <4>1
      <4>3. i + 1 \in 1 .. m
        BY <1>2, <3>3
      <4>4. s[i + 1] = b.buffer[SlotBehind(b, k)]
        BY <1>2, <4>3
      <4>. QED
        BY <2>3, <2>4, <3>3, <4>2, <4>4
    <3>. QED
      BY <1>2, <3>2, <3>3
  <2>6. ContentsOf(c) = Append(Tail(s), v)
    BY <1>3, <2>1, <2>4, <2>5, SeqEqual
  <2>. QED
    BY <1>2, <1>6, <2>6, CapacityAssumption DEF c, s
<1>. QED
  BY <1>2, <1>5, <1>6, CapacityAssumption DEF s

\* A fresh or cleared buffer holds nothing.
LEMMA EmptyHoldsNothing == ContentsOf(Empty) = <<>>
<1>1. Size(Empty) = 0
  BY DEF Size, Empty
<1>2. Empty \in Buffers
  BY CapacityAssumption, ZeroAssumption DEF Empty, Buffers, Slots
<1>3. ContentsOf(Empty) \in Seq(Values) /\ Len(ContentsOf(Empty)) = 0
  BY <1>1, <1>2, ContentsAreValues
<1>. QED
  BY <1>3, EmptySeq

-------------------------------------------------------------------------------
\* CircularBuffer implements the bounded FIFO: every method maps to the queue
\* operation of the same name.
THEOREM ImplementsFifo == Spec => FifoSpec
<1>1. Init => Fifo!Init
  BY EmptyHoldsNothing DEF Init, Fifo!Init
<1>2. TypeOK /\ [Next]_vars => [Fifo!Next]_(Fifo!vars)
  <2> SUFFICES ASSUME TypeOK, [Next]_vars PROVE [Fifo!Next]_(Fifo!vars)
    OBVIOUS
  <2>0. cb \in Buffers
    BY DEF TypeOK
  <2>1. ASSUME NEW v \in Values, Push(v) PROVE Fifo!Push(v)
    <3>1. cb' = Pushed(cb, v) /\ popped' = popped
      BY <2>1 DEF Push
    <3>2. ContentsOf(cb)' = ContentsOf(Pushed(cb, v))
      BY <3>1 DEF ContentsOf, Size, SlotBehind
    <3>. QED
      BY <2>0, <3>1, <3>2, PushAppends DEF Fifo!Push
  <2>2. CASE Pop
    <3>1. cb' = Popped(cb) /\ popped' = PopResult(cb)
      BY <2>2 DEF Pop
    <3>2. ContentsOf(cb)' = ContentsOf(Popped(cb))
      BY <3>1 DEF ContentsOf, Size, SlotBehind
    <3>3. CASE Size(cb) = 0
      <4>1. ContentsOf(cb) = <<>>
        BY <2>0, <3>3, ContentsAreValues, EmptySeq
      <4>2. Fifo!PopEmpty
        BY <3>1, <3>2, <3>3, <4>1 DEF Popped, PopResult, Fifo!PopEmpty
      <4>. QED
        BY <4>2 DEF Fifo!Next
    <3>4. CASE Size(cb) # 0
      <4>1. Fifo!PopOldest
        BY <2>0, <3>1, <3>2, <3>4, PopTakesOldest DEF Fifo!PopOldest
      <4>. QED
        BY <4>1 DEF Fifo!Next
    <3>. QED
      BY <3>3, <3>4
  <2>3. CASE Clear
    <3>1. cb' = Empty /\ popped' = popped
      BY <2>3 DEF Clear
    <3>2. ContentsOf(cb)' = ContentsOf(Empty)
      BY <3>1 DEF ContentsOf, Size, SlotBehind
    <3>3. Fifo!Clear
      BY <3>1, <3>2, EmptyHoldsNothing DEF Fifo!Clear
    <3>. QED
      BY <3>3 DEF Fifo!Next
  <2>4. CASE UNCHANGED vars
    BY <2>4 DEF vars, Fifo!vars, ContentsOf, Size, SlotBehind
  <2>. QED
    BY <2>1, <2>2, <2>3, <2>4 DEF Next, Fifo!Next
<1>. QED
  BY <1>1, <1>2, TypeCorrect, PTL DEF Spec, FifoSpec, Fifo!Spec

-------------------------------------------------------------------------------
(* Two threads under one lock.  Between two steps of a method the object in   *)
(* memory is the one the method found, with the stores made so far; k is the  *)
(* next step of the method, and rest what its caller still has to do.         *)

Steps == {"size", "insert", "load_next", "step_next", "wrap_next", "load_nr", "step_nr",
          "limit_nr", "check", "index", "decrement", "return", "fill", "next_zero", "nr_zero"}

From(steps, k, rest) == SubSeq(steps, k, Len(steps)) \o rest

PushedUpTo(t, k) ==
  /\ mem = [buffer |-> IF k = 1 THEN cb.buffer
                       ELSE [cb.buffer EXCEPT ![cb.next_insertion_index] = power],
            next_insertion_index |->
              IF k < 4 THEN cb.next_insertion_index
              ELSE IF k < 6 THEN cb.next_insertion_index + 1
              ELSE (cb.next_insertion_index + 1) % Capacity,
            nr_elements_in_buffer |-> IF k < 8 THEN Size(cb) ELSE Size(cb) + 1]
  /\ k \in {3, 5} => loaded[t] = mem.next_insertion_index
  /\ k \in {7, 9} => loaded[t] = mem.nr_elements_in_buffer

PoppedUpTo(t, k) ==
  /\ k > 1 => Size(cb) # 0
  /\ k > 2 => index[t] = SlotBehind(cb, Size(cb))
  /\ k = 4 => loaded[t] = Size(cb)
  /\ mem = IF k = 5 THEN Popped(cb) ELSE cb

ClearedUpTo(k) ==
  mem = [buffer |-> IF k = 1 THEN cb.buffer ELSE Empty.buffer,
         next_insertion_index |-> IF k < 3 THEN cb.next_insertion_index ELSE 0,
         nr_elements_in_buffer |-> Size(cb)]

Sizing(t) == todo[t] = <<"size">> \o PushSteps /\ mem = cb
Pushing(t) == \E k \in 1 .. 9 : todo[t] = From(PushSteps, k, <<>>) /\ PushedUpTo(t, k)
Popping(t) == \E k \in 1 .. 5, rest \in {<<>>, PushSteps} :
                todo[t] = From(PopSteps, k, rest) /\ PoppedUpTo(t, k)
Clearing(t) == \E k \in 1 .. 3, rest \in {<<>>, PopSteps} :
                 todo[t] = From(ClearSteps, k, rest) /\ ClearedUpTo(k)

InMethod(t) == Sizing(t) \/ Pushing(t) \/ Popping(t) \/ Clearing(t)
Idle(t) == todo[t] = <<>>

ThreadTypes ==
  /\ cb \in Buffers /\ popped \in Values \cup {NoValue} /\ power \in Values
  /\ todo \in [Threads -> Seq(Steps)]
  /\ loaded \in [Threads -> Int] /\ index \in [Threads -> Int]

\* One thread at most is in a method.
LockInv ==
  \/ (\A t \in Threads : Idle(t)) /\ mem = cb
  \/ \E t \in Threads : InMethod(t) /\ \A u \in Threads \ {t} : Idle(u)

ThreadsInv == ThreadTypes /\ LockInv

\* A step of the thread in a method: the buffer takes one of its steps, or none.
Moved(t) == /\ ThreadTypes' /\ [Next]_vars
            /\ InMethod(t)' \/ (Idle(t)' /\ mem' = cb')

-------------------------------------------------------------------------------
LEMMA Methods ==
  /\ PushSteps \in Seq(Steps) /\ Len(PushSteps) = 9
  /\ PopSteps \in Seq(Steps) /\ Len(PopSteps) = 5
  /\ ClearSteps \in Seq(Steps) /\ Len(ClearSteps) = 3
  /\ <<>> \in Seq(Steps)
BY DEF PushSteps, PopSteps, ClearSteps, Steps

LEMMA FirstStep ==
  ASSUME NEW S, NEW s \in Seq(S), NEW e \in S
  PROVE  /\ <<e>> \o s \in Seq(S) /\ <<e>> \o s # <<>>
         /\ Head(<<e>> \o s) = e /\ Tail(<<e>> \o s) = s
<1> DEFINE r == <<e>> \o s
<1>1. <<e>> \in Seq(S) /\ Len(<<e>>) = 1 /\ <<e>>[1] = e
  OBVIOUS
<1>2. /\ r \in Seq(S) /\ Len(r) = 1 + Len(s)
      /\ \A i \in 1 .. 1 + Len(s) : r[i] = IF i <= 1 THEN <<e>>[i] ELSE s[i - 1]
  BY <1>1, ConcatProperties
<1>. HIDE DEF r
<1>3. Len(s) \in Nat
  OBVIOUS
<1>4. r # <<>> /\ r[1] = e
  <2>1. 1 \in 1 .. 1 + Len(s) /\ Len(r) # 0
    BY <1>2, <1>3
  <2>. QED
    BY <1>1, <1>2, <2>1, EmptySeq
<1>5. Head(r) = e
  BY <1>2, <1>4
<1>6. Tail(r) \in Seq(S) /\ Len(Tail(r)) = Len(s)
      /\ \A i \in 1 .. Len(s) : Tail(r)[i] = r[i + 1]
  BY <1>2, <1>3, <1>4, HeadTailProperties
<1>7. ASSUME NEW i \in 1 .. Len(s) PROVE Tail(r)[i] = s[i]
  <2>1. i + 1 \in 1 .. 1 + Len(s) /\ ~ (i + 1 <= 1) /\ (i + 1) - 1 = i
    BY <1>3
  <2>. QED
    BY <1>2, <1>6, <2>1
<1>8. Tail(r) = s
  BY <1>6, <1>7, SeqEqual
<1>. QED
  BY <1>2, <1>4, <1>5, <1>8 DEF r

\* The next step of a method, and what is left after it.
LEMMA StepsFrom ==
  ASSUME NEW S, NEW steps \in Seq(S), NEW k \in 1 .. Len(steps), NEW rest \in Seq(S)
  PROVE  /\ From(steps, k, rest) \in Seq(S)
         /\ From(steps, k, rest) # <<>>
         /\ Head(From(steps, k, rest)) = steps[k]
         /\ Tail(From(steps, k, rest)) = From(steps, k + 1, rest)
<1> DEFINE n == Len(steps)
           b == SubSeq(steps, k + 1, n)
<1>1. n \in k .. n /\ k \in Nat /\ n \in Nat /\ steps[k] \in S
  OBVIOUS
<1>2. SubSeq(steps, k, n) = <<steps[k]>> \o b
  BY <1>1, SubSeqRecursiveFirst
<1>3. b \in Seq(S)
  <2>1. \A i \in k + 1 .. n : steps[i] \in S
    BY <1>1
  <2>. QED
    BY <1>1, <2>1, SubSeqProperties
<1>4. <<steps[k]>> \in Seq(S)
  BY <1>1
<1> DEFINE r == b \o rest
<1>5. (<<steps[k]>> \o b) \o rest = <<steps[k]>> \o r
  <2> DEFINE one == <<steps[k]>>
  <2>1. one \in Seq(S)
    BY <1>4
  <2>. HIDE DEF one, b, r, n
  <2>2. (one \o b) \o rest = one \o (b \o rest)
    BY <1>3, <2>1
  <2>. QED
    BY <2>2 DEF one, r
<1>6. r \in Seq(S)
  BY <1>3, ConcatProperties
<1>7. From(steps, k, rest) = <<steps[k]>> \o r /\ From(steps, k + 1, rest) = r
  BY <1>2, <1>5 DEF From
<1>. HIDE DEF r
<1>8. /\ <<steps[k]>> \o r \in Seq(S) /\ <<steps[k]>> \o r # <<>>
      /\ Head(<<steps[k]>> \o r) = steps[k] /\ Tail(<<steps[k]>> \o r) = r
  BY <1>1, <1>6, FirstStep
<1>. QED
  BY <1>7, <1>8

\* All of a method is before its first step, and nothing of it after its last.
LEMMA AllFrom ==
  ASSUME NEW S, NEW steps \in Seq(S), NEW rest \in Seq(S)
  PROVE  /\ From(steps, 1, rest) = steps \o rest
         /\ From(steps, Len(steps) + 1, rest) = rest
         /\ From(steps, 1, <<>>) = steps
<1>1. Len(steps) \in Nat
  OBVIOUS
<1>2. SubSeq(steps, 1, Len(steps)) = steps
  BY SubSeqFull
<1>3. SubSeq(steps, Len(steps) + 1, Len(steps)) = <<>>
  BY <1>1, SubSeqEmpty
<1>. QED
  BY <1>2, <1>3, ConcatEmptySeq DEF From

LEMMA Names ==
  /\ PushSteps[1] = "insert"
  /\ PushSteps[2] = "load_next" /\ PushSteps[3] = "step_next"
  /\ PushSteps[4] = "load_next" /\ PushSteps[5] = "wrap_next"
  /\ PushSteps[6] = "load_nr" /\ PushSteps[7] = "step_nr"
  /\ PushSteps[8] = "load_nr" /\ PushSteps[9] = "limit_nr"
  /\ PopSteps[1] = "check" /\ PopSteps[2] = "index" /\ PopSteps[3] = "load_nr"
  /\ PopSteps[4] = "decrement" /\ PopSteps[5] = "return"
  /\ ClearSteps[1] = "fill" /\ ClearSteps[2] = "next_zero" /\ ClearSteps[3] = "nr_zero"
BY DEF PushSteps, PopSteps, ClearSteps

LEMMA MethodSteps ==
  ASSUME NEW steps \in {PushSteps, PopSteps, ClearSteps}, NEW k \in 1 .. Len(steps),
         NEW rest \in {<<>>, PushSteps, PopSteps}
  PROVE  /\ From(steps, k, rest) # <<>> /\ Head(From(steps, k, rest)) = steps[k]
         /\ Tail(From(steps, k, rest)) = From(steps, k + 1, rest)
<1>1. steps \in Seq(Steps) /\ rest \in Seq(Steps)
  BY Methods
<1>. QED
  BY <1>1, StepsFrom, ZenonT(30)

\* Where a thread in a method is.
LEMMA NextSteps ==
  ASSUME NEW t \in Threads, InMethod(t)
  PROVE  /\ todo[t] # <<>>
         /\ \/ Head(todo[t]) = "size" /\ Sizing(t)
            \/ \E k \in 1 .. 9 :
                 /\ Head(todo[t]) = PushSteps[k]
                 /\ Tail(todo[t]) = From(PushSteps, k + 1, <<>>) /\ PushedUpTo(t, k)
            \/ \E k \in 1 .. 5, rest \in {<<>>, PushSteps} :
                 /\ Head(todo[t]) = PopSteps[k] /\ todo[t] = From(PopSteps, k, rest)
                 /\ Tail(todo[t]) = From(PopSteps, k + 1, rest) /\ PoppedUpTo(t, k)
            \/ \E k \in 1 .. 3, rest \in {<<>>, PopSteps} :
                 /\ Head(todo[t]) = ClearSteps[k]
                 /\ Tail(todo[t]) = From(ClearSteps, k + 1, rest) /\ ClearedUpTo(k)
<1>1. CASE Sizing(t)
  <2>1. "size" \in Steps
    BY DEF Steps
  <2>2. Head(todo[t]) = "size" /\ todo[t] # <<>>
    BY <1>1, <2>1, Methods, FirstStep DEF Sizing
  <2>. QED
    BY <1>1, <2>2
<1>2. CASE Pushing(t)
  <2>1. PICK k \in 1 .. 9 : todo[t] = From(PushSteps, k, <<>>) /\ PushedUpTo(t, k)
    BY <1>2 DEF Pushing
  <2>2. k \in 1 .. Len(PushSteps)
    BY Methods
  <2>3. /\ todo[t] # <<>> /\ Head(todo[t]) = PushSteps[k]
        /\ Tail(todo[t]) = From(PushSteps, k + 1, <<>>)
    BY <2>1, <2>2, MethodSteps
  <2>. QED
    BY <2>1, <2>3
<1>3. CASE Popping(t)
  <2>1. PICK k \in 1 .. 5, rest \in {<<>>, PushSteps} :
          todo[t] = From(PopSteps, k, rest) /\ PoppedUpTo(t, k)
    BY <1>3 DEF Popping
  <2>2. k \in 1 .. Len(PopSteps)
    BY Methods
  <2>3. /\ todo[t] # <<>> /\ Head(todo[t]) = PopSteps[k]
        /\ Tail(todo[t]) = From(PopSteps, k + 1, rest)
    BY <2>1, <2>2, MethodSteps
  <2>. QED
    BY <2>1, <2>3
<1>4. CASE Clearing(t)
  <2>1. PICK k \in 1 .. 3, rest \in {<<>>, PopSteps} :
          todo[t] = From(ClearSteps, k, rest) /\ ClearedUpTo(k)
    BY <1>4 DEF Clearing
  <2>2. k \in 1 .. Len(ClearSteps)
    BY Methods
  <2>3. /\ todo[t] # <<>> /\ Head(todo[t]) = ClearSteps[k]
        /\ Tail(todo[t]) = From(ClearSteps, k + 1, rest)
    BY <2>1, <2>2, MethodSteps
  <2>. QED
    BY <2>1, <2>3
<1>. QED
  BY <1>1, <1>2, <1>3, <1>4 DEF InMethod

\* The same by the names of the steps.
PushingAt(t, k) == Tail(todo[t]) = From(PushSteps, k + 1, <<>>) /\ PushedUpTo(t, k)
PoppingAt(t, k) == \E rest \in {<<>>, PushSteps} :
                     /\ todo[t] = From(PopSteps, k, rest)
                     /\ Tail(todo[t]) = From(PopSteps, k + 1, rest) /\ PoppedUpTo(t, k)
ClearingAt(t, k) == \E rest \in {<<>>, PopSteps} :
                      Tail(todo[t]) = From(ClearSteps, k + 1, rest) /\ ClearedUpTo(k)

Stands(t) ==
  LET step == Head(todo[t])
  IN  /\ todo[t] # <<>>
      /\ step = "size" => Sizing(t)
      /\ step = "insert" => PushingAt(t, 1)
      /\ step = "load_next" => PushingAt(t, 2) \/ PushingAt(t, 4)
      /\ step = "step_next" => PushingAt(t, 3)
      /\ step = "wrap_next" => PushingAt(t, 5)
      /\ step = "load_nr" => PushingAt(t, 6) \/ PushingAt(t, 8) \/ PoppingAt(t, 3)
      /\ step = "step_nr" => PushingAt(t, 7)
      /\ step = "limit_nr" => PushingAt(t, 9)
      /\ step = "check" => PoppingAt(t, 1)
      /\ step = "index" => PoppingAt(t, 2)
      /\ step = "decrement" => PoppingAt(t, 4)
      /\ step = "return" => PoppingAt(t, 5)
      /\ step = "fill" => ClearingAt(t, 1)
      /\ step = "next_zero" => ClearingAt(t, 2)
      /\ step = "nr_zero" => ClearingAt(t, 3)

LEMMA ThreadStands ==
  ASSUME NEW t \in Threads, InMethod(t)
  PROVE  Stands(t)
<1>1. todo[t] # <<>>
  BY NextSteps
<1>2. CASE Head(todo[t]) = "size" /\ Sizing(t)
  BY <1>1, <1>2 DEF Stands
<1>3. ASSUME NEW k \in 1 .. 9, Head(todo[t]) = PushSteps[k], PushingAt(t, k)
      PROVE  Stands(t)
  <2>1. \/ k = 1 \/ k = 2 \/ k = 3 \/ k = 4 \/ k = 5
        \/ k = 6 \/ k = 7 \/ k = 8 \/ k = 9
    OBVIOUS
  <2>2. CASE k = 1
    BY <1>1, <1>3, <2>2, Names DEF Stands
  <2>3. CASE k = 2
    BY <1>1, <1>3, <2>3, Names DEF Stands
  <2>4. CASE k = 3
    BY <1>1, <1>3, <2>4, Names DEF Stands
  <2>5. CASE k = 4
    BY <1>1, <1>3, <2>5, Names DEF Stands
  <2>6. CASE k = 5
    BY <1>1, <1>3, <2>6, Names DEF Stands
  <2>7. CASE k = 6
    BY <1>1, <1>3, <2>7, Names DEF Stands
  <2>8. CASE k = 7
    BY <1>1, <1>3, <2>8, Names DEF Stands
  <2>9. CASE k = 8
    BY <1>1, <1>3, <2>9, Names DEF Stands
  <2>10. CASE k = 9
    BY <1>1, <1>3, <2>10, Names DEF Stands
  <2>. QED
    BY <2>1, <2>2, <2>3, <2>4, <2>5, <2>6, <2>7, <2>8, <2>9, <2>10
<1>4. ASSUME NEW k \in 1 .. 5, Head(todo[t]) = PopSteps[k], PoppingAt(t, k)
      PROVE  Stands(t)
  <2>1. k = 1 \/ k = 2 \/ k = 3 \/ k = 4 \/ k = 5
    OBVIOUS
  <2>2. CASE k = 1
    BY <1>1, <1>4, <2>2, Names DEF Stands
  <2>3. CASE k = 2
    BY <1>1, <1>4, <2>3, Names DEF Stands
  <2>4. CASE k = 3
    BY <1>1, <1>4, <2>4, Names DEF Stands
  <2>5. CASE k = 4
    BY <1>1, <1>4, <2>5, Names DEF Stands
  <2>6. CASE k = 5
    BY <1>1, <1>4, <2>6, Names DEF Stands
  <2>. QED
    BY <2>1, <2>2, <2>3, <2>4, <2>5, <2>6
<1>5. ASSUME NEW k \in 1 .. 3, Head(todo[t]) = ClearSteps[k], ClearingAt(t, k)
      PROVE  Stands(t)
  <2>1. k = 1 \/ k = 2 \/ k = 3
    OBVIOUS
  <2>2. CASE k = 1
    BY <1>1, <1>5, <2>2, Names DEF Stands
  <2>3. CASE k = 2
    BY <1>1, <1>5, <2>3, Names DEF Stands
  <2>4. CASE k = 3
    BY <1>1, <1>5, <2>4, Names DEF Stands
  <2>. QED
    BY <2>1, <2>2, <2>3, <2>4
<1>6. \/ Head(todo[t]) = "size" /\ Sizing(t)
      \/ \E k \in 1 .. 9 : Head(todo[t]) = PushSteps[k] /\ PushingAt(t, k)
      \/ \E k \in 1 .. 5 : Head(todo[t]) = PopSteps[k] /\ PoppingAt(t, k)
      \/ \E k \in 1 .. 3 : Head(todo[t]) = ClearSteps[k] /\ ClearingAt(t, k)
  BY NextSteps DEF PushingAt, PoppingAt, ClearingAt
<1>. QED
  BY <1>2, <1>3, <1>4, <1>5, <1>6

\* A method is about to begin.
LEMMA Begins ==
  ASSUME NEW t \in Threads, cb' \in Buffers, mem' = cb',
         todo'[t] \in {<<>>, PushSteps, PopSteps, PopSteps \o PushSteps, ClearSteps,
                       ClearSteps \o PopSteps, <<"size">> \o PushSteps}
  PROVE  InMethod(t)' \/ (Idle(t)' /\ mem' = cb')
<1>1. mem' = [buffer |-> cb'.buffer, next_insertion_index |-> cb'.next_insertion_index,
              nr_elements_in_buffer |-> cb'.nr_elements_in_buffer]
  BY DEF Buffers
<1>2. /\ From(PushSteps, 1, <<>>) = PushSteps /\ From(PopSteps, 1, <<>>) = PopSteps
      /\ From(PopSteps, 1, PushSteps) = PopSteps \o PushSteps
      /\ From(ClearSteps, 1, <<>>) = ClearSteps
      /\ From(ClearSteps, 1, PopSteps) = ClearSteps \o PopSteps
  BY Methods, AllFrom, ZenonT(60)
<1>3. PushedUpTo(t, 1)' /\ PoppedUpTo(t, 1)' /\ ClearedUpTo(1)'
  BY <1>1 DEF PushedUpTo, PoppedUpTo, ClearedUpTo, Size
<1>4. todo'[t] = PushSteps => Pushing(t)'
  BY <1>2, <1>3 DEF Pushing
<1>5. todo'[t] \in {PopSteps, PopSteps \o PushSteps} => Popping(t)'
  <2> SUFFICES ASSUME todo'[t] \in {PopSteps, PopSteps \o PushSteps} PROVE Popping(t)'
    OBVIOUS
  <2>1. PICK rest \in {<<>>, PushSteps} : todo'[t] = From(PopSteps, 1, rest)
    BY <1>2
  <2>2. 1 \in 1 .. 5
    OBVIOUS
  <2>. QED
    BY <1>3, <2>1, <2>2 DEF Popping
<1>6. todo'[t] \in {ClearSteps, ClearSteps \o PopSteps} => Clearing(t)'
  <2> SUFFICES ASSUME todo'[t] \in {ClearSteps, ClearSteps \o PopSteps} PROVE Clearing(t)'
    OBVIOUS
  <2>1. PICK rest \in {<<>>, PopSteps} : todo'[t] = From(ClearSteps, 1, rest)
    BY <1>2
  <2>2. 1 \in 1 .. 3
    OBVIOUS
  <2>. QED
    BY <1>3, <2>1, <2>2 DEF Clearing
<1>. QED
  BY <1>4, <1>5, <1>6 DEF InMethod, Idle, Sizing

LEMMA SmallModulus ==
  ASSUME NEW n \in 0 .. 2 * Capacity
  PROVE  n % SizeT = n
BY SizeTAssumption, CapacityAssumption

\* A step that leaves the object of the other modules alone.
LEMMA InnerStep ==
  ASSUME ThreadTypes, NEW t \in Threads, todo[t] # <<>>, Step(t), UNCHANGED <<vars, power>>,
         loaded' \in [Threads -> Int], index' \in [Threads -> Int]
  PROVE  /\ ThreadTypes' /\ [Next]_vars
         /\ todo'[t] = Tail(todo[t]) /\ cb' = cb
<1>1. todo \in [Threads -> Seq(Steps)] /\ todo' = [todo EXCEPT ![t] = Tail(todo[t])]
  BY DEF ThreadTypes, Step, Goto
<1>2. todo[t] \in Seq(Steps)
  BY <1>1
<1>3. Tail(todo[t]) \in Seq(Steps)
  BY <1>2, HeadTailProperties
<1>4. todo' \in [Threads -> Seq(Steps)] /\ todo'[t] = Tail(todo[t])
  BY <1>1, <1>3
<1>. QED
  BY <1>4 DEF ThreadTypes, vars

LEMMA InsertMoves ==
  ASSUME ThreadTypes, NEW t \in Threads, InMethod(t), Insert(t)
  PROVE  Moved(t)
<1>1. /\ Head(todo[t]) = "insert" /\ Step(t) /\ UNCHANGED <<vars, loaded, index, power>>
      /\ mem' = [mem EXCEPT !.buffer = [mem.buffer EXCEPT ![mem.next_insertion_index] = power]]
  BY DEF Insert, At
<1>2. /\ todo[t] # <<>> /\ Tail(todo[t]) = From(PushSteps, 2, <<>>) /\ PushedUpTo(t, 1)
  BY <1>1, ThreadStands DEF Stands, PushingAt
<1>3. ThreadTypes' /\ [Next]_vars /\ todo'[t] = Tail(todo[t]) /\ cb' = cb
  BY <1>1, <1>2, InnerStep DEF ThreadTypes
<1>4. PushedUpTo(t, 2)'
  BY <1>1, <1>2, <1>3 DEF PushedUpTo, Size, vars
<1>. QED
  BY <1>2, <1>3, <1>4 DEF Moved, InMethod, Pushing

\* What "++" makes of an index or a count is no value that a size_t lacks.
LEMMA NextFits ==
  ASSUME ThreadTypes
  PROVE  /\ cb.next_insertion_index \in Slots /\ Size(cb) \in 0 .. Capacity
         /\ (cb.next_insertion_index + 1) % SizeT = cb.next_insertion_index + 1
         /\ (Size(cb) + 1) % SizeT = Size(cb) + 1
<1>1. cb.next_insertion_index \in Slots /\ Size(cb) \in 0 .. Capacity
  BY DEF ThreadTypes, Buffers, Size
<1>2. /\ cb.next_insertion_index + 1 \in 0 .. 2 * Capacity
      /\ Size(cb) + 1 \in 0 .. 2 * Capacity
  BY <1>1, CapacityAssumption DEF Slots
<1>. QED
  BY <1>1, <1>2, SmallModulus

LEMMA AdvanceMoves ==
  ASSUME ThreadTypes, NEW t \in Threads, InMethod(t), Advance(t)
  PROVE  Moved(t)
<1>1. /\ Step(t) /\ UNCHANGED <<vars, loaded, index, power>>
      /\ \/ /\ Head(todo[t]) = "step_next"
            /\ mem' = [mem EXCEPT !.next_insertion_index = Increased(t)]
         \/ /\ Head(todo[t]) = "wrap_next"
            /\ mem' = [mem EXCEPT !.next_insertion_index = loaded[t] % Capacity]
  BY DEF Advance, At, Store
<1>2. todo[t] # <<>>
  BY ThreadStands DEF Stands
<1>3. ThreadTypes' /\ [Next]_vars /\ todo'[t] = Tail(todo[t]) /\ cb' = cb
  BY <1>1, <1>2, InnerStep DEF ThreadTypes
<1>4. CASE /\ Head(todo[t]) = "step_next"
           /\ mem' = [mem EXCEPT !.next_insertion_index = Increased(t)]
  <2>1. Tail(todo[t]) = From(PushSteps, 4, <<>>) /\ PushedUpTo(t, 3)
    BY <1>4, ThreadStands DEF Stands, PushingAt
  <2>2. Increased(t) = cb.next_insertion_index + 1
    BY <2>1, NextFits DEF PushedUpTo, Increased
  <2>3. PushedUpTo(t, 4)'
    BY <1>1, <1>3, <1>4, <2>1, <2>2 DEF PushedUpTo, Size
  <2>. QED
    BY <1>3, <2>1, <2>3 DEF Moved, InMethod, Pushing
<1>5. CASE /\ Head(todo[t]) = "wrap_next"
           /\ mem' = [mem EXCEPT !.next_insertion_index = loaded[t] % Capacity]
  <2>1. Tail(todo[t]) = From(PushSteps, 6, <<>>) /\ PushedUpTo(t, 5)
    BY <1>5, ThreadStands DEF Stands, PushingAt
  <2>2. loaded[t] = cb.next_insertion_index + 1
    BY <2>1 DEF PushedUpTo
  <2>3. PushedUpTo(t, 6)'
    BY <1>1, <1>3, <1>5, <2>1, <2>2 DEF PushedUpTo, Size
  <2>. QED
    BY <1>3, <2>1, <2>3 DEF Moved, InMethod, Pushing
<1>. QED
  BY <1>1, <1>4, <1>5

\* The index and the count in memory are numbers, also in the middle of a push.
LEMMA LoadedIsInt ==
  ASSUME ThreadTypes, NEW t \in Threads, InMethod(t),
         Head(todo[t]) = "load_next" \/ Head(todo[t]) = "load_nr"
  PROVE  mem.next_insertion_index \in Int /\ mem.nr_elements_in_buffer \in Int
<1>1. /\ cb.next_insertion_index \in Int /\ Size(cb) \in Int
      /\ (cb.next_insertion_index + 1) % Capacity \in Int
  BY NextFits, CapacityAssumption DEF Slots
<1>2. (\E k \in 1 .. 9 : PushedUpTo(t, k)) \/ PoppedUpTo(t, 3)
  BY ThreadStands, SMTT(30) DEF Stands, PushingAt, PoppingAt
<1>3. ASSUME NEW k \in 1 .. 9, PushedUpTo(t, k)
      PROVE  mem.next_insertion_index \in Int /\ mem.nr_elements_in_buffer \in Int
  BY <1>1, <1>3 DEF PushedUpTo
<1>4. CASE PoppedUpTo(t, 3)
  BY <1>1, <1>4 DEF PoppedUpTo, Size
<1>. QED
  BY <1>2, <1>3, <1>4

LEMMA LoadMoves ==
  ASSUME ThreadTypes, NEW t \in Threads, InMethod(t), LoadMember(t)
  PROVE  Moved(t)
<1>1. /\ Step(t) /\ UNCHANGED <<vars, mem, index, power>>
      /\ \/ /\ Head(todo[t]) = "load_next"
            /\ loaded' = [loaded EXCEPT ![t] = mem.next_insertion_index]
         \/ /\ Head(todo[t]) = "load_nr"
            /\ loaded' = [loaded EXCEPT ![t] = mem.nr_elements_in_buffer]
  BY DEF LoadMember, At, Load
<1>2. todo[t] # <<>>
  BY ThreadStands DEF Stands
<1>3. /\ mem.next_insertion_index \in Int /\ mem.nr_elements_in_buffer \in Int
      /\ loaded \in [Threads -> Int] /\ index \in [Threads -> Int]
  BY <1>1, LoadedIsInt DEF ThreadTypes
<1>4. loaded' \in [Threads -> Int]
  BY <1>1, <1>3
<1>5. ThreadTypes' /\ [Next]_vars /\ todo'[t] = Tail(todo[t]) /\ cb' = cb
  BY <1>1, <1>2, <1>3, <1>4, InnerStep DEF ThreadTypes
<1>6. ASSUME NEW k \in {2, 4, 6, 8}, PushingAt(t, k),
             loaded'[t] = IF k < 6 THEN mem.next_insertion_index
                                   ELSE mem.nr_elements_in_buffer
      PROVE  Moved(t)
  <2>1. PushedUpTo(t, k + 1)'
    BY <1>1, <1>5, <1>6 DEF PushedUpTo, PushingAt, Size
  <2>2. todo'[t] = From(PushSteps, k + 1, <<>>) /\ k + 1 \in 1 .. 9
    BY <1>5, <1>6 DEF PushingAt
  <2>. QED
    BY <1>5, <2>1, <2>2 DEF Moved, InMethod, Pushing
<1>7. CASE /\ Head(todo[t]) = "load_next"
           /\ loaded' = [loaded EXCEPT ![t] = mem.next_insertion_index]
  <2>1. loaded'[t] = mem.next_insertion_index
    BY <1>3, <1>7
  <2>2. PushingAt(t, 2) \/ PushingAt(t, 4)
    BY <1>7, ThreadStands DEF Stands
  <2>. QED
    BY <1>6, <2>1, <2>2
<1>8. CASE /\ Head(todo[t]) = "load_nr"
           /\ loaded' = [loaded EXCEPT ![t] = mem.nr_elements_in_buffer]
  <2>1. loaded'[t] = mem.nr_elements_in_buffer
    BY <1>3, <1>8
  <2>2. CASE PushingAt(t, 6) \/ PushingAt(t, 8)
    BY <1>6, <2>1, <2>2
  <2>3. CASE PoppingAt(t, 3)
    <3>1. PICK rest \in {<<>>, PushSteps} :
            Tail(todo[t]) = From(PopSteps, 4, rest) /\ PoppedUpTo(t, 3)
      BY <2>3 DEF PoppingAt
    <3>2. PoppedUpTo(t, 4)'
      BY <1>1, <1>5, <2>1, <3>1 DEF PoppedUpTo, Size, SlotBehind
    <3>3. Popping(t)'
      BY <1>5, <3>1, <3>2 DEF Popping
    <3>. QED
      BY <1>5, <3>3 DEF Moved, InMethod
  <2>4. PushingAt(t, 6) \/ PushingAt(t, 8) \/ PoppingAt(t, 3)
    BY <1>8, ThreadStands DEF Stands
  <2>. QED
    BY <2>2, <2>3, <2>4
<1>. QED
  BY <1>1, <1>7, <1>8

LEMMA NothingLeft ==
  ASSUME NEW rest \in {<<>>, PushSteps, PopSteps}
  PROVE  /\ From(PushSteps, 10, rest) = rest /\ From(PopSteps, 6, rest) = rest
         /\ From(ClearSteps, 4, rest) = rest
<1>1. rest \in Seq(Steps)
  BY Methods
<1>2. ASSUME NEW steps \in Seq(Steps) PROVE From(steps, Len(steps) + 1, rest) = rest
  BY <1>1, AllFrom
<1>3. From(PushSteps, Len(PushSteps) + 1, rest) = rest
  BY <1>2, Methods
<1>4. From(PopSteps, Len(PopSteps) + 1, rest) = rest
  BY <1>2, Methods
<1>5. From(ClearSteps, Len(ClearSteps) + 1, rest) = rest
  BY <1>2, Methods
<1>6. Len(PushSteps) + 1 = 10 /\ Len(PopSteps) + 1 = 6 /\ Len(ClearSteps) + 1 = 4
  BY Methods
<1>. QED
  BY <1>3, <1>4, <1>5, <1>6

\* A step with which a method of the buffer returns.
LEMMA LastStep ==
  ASSUME ThreadTypes, NEW t \in Threads, NEW rest \in {<<>>, PushSteps, PopSteps},
         Goto(t, rest), mem' = cb', Next, UNCHANGED <<loaded, index, power>>
  PROVE  Moved(t)
<1>1. cb' \in Buffers /\ popped' \in Values \cup {NoValue}
  BY MethodsKeepType DEF ThreadTypes, Next, Push, Pop, Clear
<1>2. todo \in [Threads -> Seq(Steps)] /\ todo' = [todo EXCEPT ![t] = rest]
  BY DEF ThreadTypes, Goto
<1>3. rest \in Seq(Steps)
  BY Methods
<1>4. todo' \in [Threads -> Seq(Steps)] /\ todo'[t] = rest
  BY <1>2, <1>3
<1>5. ThreadTypes'
  BY <1>1, <1>4 DEF ThreadTypes
<1>6. InMethod(t)' \/ (Idle(t)' /\ mem' = cb')
  BY <1>1, <1>4, Begins
<1>. QED
  BY <1>5, <1>6 DEF Moved

LEMMA IncrementMoves ==
  ASSUME ThreadTypes, NEW t \in Threads, InMethod(t), Increment(t)
  PROVE  Moved(t)
<1>1. Step(t) /\ UNCHANGED <<loaded, index, power>> /\ todo[t] # <<>>
  BY ThreadStands DEF Increment, Stands
<1>2. CASE At(t, "step_nr") /\ Store("nr_elements_in_buffer", Increased(t)) /\ UNCHANGED vars
  <2>1. /\ Head(todo[t]) = "step_nr"
        /\ mem' = [mem EXCEPT !.nr_elements_in_buffer = Increased(t)]
    BY <1>2 DEF At, Store
  <2>2. Tail(todo[t]) = From(PushSteps, 8, <<>>) /\ PushedUpTo(t, 7)
    BY <2>1, ThreadStands DEF Stands, PushingAt
  <2>3. ThreadTypes' /\ [Next]_vars /\ todo'[t] = Tail(todo[t]) /\ cb' = cb
    BY <1>1, <1>2, InnerStep DEF ThreadTypes
  <2>4. Increased(t) = Size(cb) + 1
    BY <2>2, NextFits DEF PushedUpTo, Increased
  <2>5. PushedUpTo(t, 8)'
    BY <1>1, <2>1, <2>2, <2>3, <2>4 DEF PushedUpTo, Size
  <2>. QED
    BY <2>2, <2>3, <2>5 DEF Moved, InMethod, Pushing
<1>3. CASE /\ At(t, "limit_nr") /\ Store("nr_elements_in_buffer", Limited(loaded[t]))
           /\ Return(popped)
  <2>1. /\ Head(todo[t]) = "limit_nr"
        /\ mem' = [mem EXCEPT !.nr_elements_in_buffer = Limited(loaded[t])]
        /\ cb' = mem' /\ popped' = popped
    BY <1>3 DEF At, Store, Return
  <2>2. Tail(todo[t]) = From(PushSteps, 10, <<>>) /\ PushedUpTo(t, 9)
    BY <2>1, ThreadStands DEF Stands, PushingAt
  <2>3. loaded[t] = Size(cb) + 1
    BY <2>2 DEF PushedUpTo
  <2>4. mem' = Pushed(cb, power)
    BY <2>1, <2>2, <2>3 DEF PushedUpTo, Pushed, Limited
  <2>5. Push(power) /\ power \in Values
    BY <2>1, <2>4 DEF Push, ThreadTypes
  <2>6. Goto(t, <<>>)
    BY <1>1, <2>2, NothingLeft DEF Step
  <2>. QED
    BY <1>1, <2>1, <2>5, <2>6, LastStep DEF Next
<1>. QED
  BY <1>2, <1>3 DEF Increment

\* What is left of a pop of an empty buffer.
LEMMA AfterPop ==
  ASSUME NEW rest \in {<<>>, PushSteps}
  PROVE  LET s == From(PopSteps, 1, rest)
         IN  SubSeq(s, Len(PopSteps) + 1, Len(s)) = rest
<1>1. rest \in Seq(Steps) /\ PopSteps \in Seq(Steps) /\ Len(PopSteps) = 5
  BY Methods
<1> DEFINE s == PopSteps \o rest
           n == Len(rest)
<1>2. From(PopSteps, 1, rest) = s
  BY <1>1, AllFrom, ZenonT(60)
<1>3. /\ s \in Seq(Steps) /\ Len(s) = 5 + n /\ n \in Nat
      /\ \A i \in 1 .. 5 + n : s[i] = IF i <= 5 THEN PopSteps[i] ELSE rest[i - 5]
  <2>1. n \in Nat
    BY <1>1
  <2>2. ASSUME NEW steps \in Seq(Steps), Len(steps) = 5
        PROVE  /\ steps \o rest \in Seq(Steps) /\ Len(steps \o rest) = 5 + n
               /\ \A i \in 1 .. 5 + n :
                    (steps \o rest)[i] = IF i <= 5 THEN steps[i] ELSE rest[i - 5]
    <3> DEFINE u == steps \o rest
    <3>1. /\ u \in Seq(Steps) /\ Len(u) = Len(steps) + Len(rest)
          /\ \A i \in 1 .. Len(steps) + Len(rest) :
               u[i] = IF i <= Len(steps) THEN steps[i] ELSE rest[i - Len(steps)]
      BY <1>1, ConcatProperties
    <3>. HIDE DEF u
    <3>2. /\ u \in Seq(Steps) /\ Len(u) = 5 + n
          /\ \A i \in 1 .. 5 + n : u[i] = IF i <= 5 THEN steps[i] ELSE rest[i - 5]
      BY <2>2, <3>1
    <3>. QED
      BY <3>2 DEF u
  <2>. QED
    BY <1>1, <2>1, <2>2
<1>. HIDE DEF s
<1> DEFINE r == SubSeq(s, 6, 5 + n)
<1>4. r \in Seq(Steps) /\ Len(r) = n /\ \A i \in 1 .. n : r[i] = s[i + 5]
  <2>1. \A i \in 6 .. 5 + n : s[i] \in Steps
    BY <1>3
  <2>. HIDE DEF n
  <2>2. /\ r \in Seq(Steps) /\ Len(r) = IF 6 <= 5 + n THEN (5 + n) - 6 + 1 ELSE 0
        /\ \A i \in 1 .. (5 + n) - 6 + 1 : r[i] = s[6 + i - 1]
    BY <1>3, <2>1, SubSeqProperties
  <2>. HIDE DEF r
  <2>3. Len(r) = n
    BY <1>3, <2>2
  <2>4. ASSUME NEW i \in 1 .. n PROVE r[i] = s[i + 5]
    <3>1. i \in 1 .. (5 + n) - 6 + 1 /\ 6 + i - 1 = i + 5
      BY <1>3
    <3>. QED
      BY <2>2, <3>1
  <2>. QED
    BY <2>2, <2>3, <2>4
<1>. HIDE DEF r
<1>5. ASSUME NEW i \in 1 .. n PROVE r[i] = rest[i]
  <2>1. i + 5 \in 1 .. 5 + n /\ ~ (i + 5 <= 5) /\ (i + 5) - 5 = i
    BY <1>3
  <2>. QED
    BY <1>3, <1>4, <2>1
<1>6. r = rest
  BY <1>1, <1>4, <1>5, SeqEqual
<1>7. SubSeq(s, 6, 5 + n) = rest
  BY <1>6 DEF r
<1>. QED
  BY <1>1, <1>2, <1>3, <1>7

LEMMA CheckMoves ==
  ASSUME ThreadTypes, NEW t \in Threads, InMethod(t), CheckEmpty(t)
  PROVE  Moved(t)
<1>1. Head(todo[t]) = "check" /\ UNCHANGED <<mem, loaded, index, power>>
  BY DEF CheckEmpty, At
<1>4. PICK rest \in {<<>>, PushSteps} :
        /\ todo[t] = From(PopSteps, 1, rest)
        /\ Tail(todo[t]) = From(PopSteps, 2, rest) /\ PoppedUpTo(t, 1)
  BY <1>1, ThreadStands DEF Stands, PoppingAt
<1>5. mem = cb /\ todo[t] # <<>>
  BY <1>4, NextSteps DEF PoppedUpTo
<1>6. CASE Size(cb) = 0
  <2>1. Goto(t, rest) /\ cb' = mem' /\ popped' = NoValue
    BY <1>4, <1>5, <1>6, AfterPop DEF CheckEmpty, Return
  <2>2. Pop
    BY <1>1, <1>5, <1>6, <2>1 DEF Pop, PopResult, Popped
  <2>. QED
    BY <1>1, <2>1, <2>2, LastStep DEF Next
<1>7. CASE Size(cb) # 0
  <2>1. Step(t) /\ UNCHANGED vars
    BY <1>5, <1>7 DEF CheckEmpty
  <2>2. ThreadTypes' /\ [Next]_vars /\ todo'[t] = Tail(todo[t]) /\ cb' = cb
    BY <1>1, <1>5, <2>1, InnerStep DEF ThreadTypes
  <2>3. PoppedUpTo(t, 2)'
    BY <1>1, <1>5, <1>7, <2>2 DEF PoppedUpTo, Size
  <2>4. Popping(t)'
    BY <1>4, <2>2, <2>3 DEF Popping
  <2>. QED
    BY <2>2, <2>4 DEF Moved, InMethod
<1>. QED
  BY <1>6, <1>7

LEMMA FindMoves ==
  ASSUME ThreadTypes, NEW t \in Threads, InMethod(t), FindOldest(t)
  PROVE  Moved(t)
<1>1. /\ Head(todo[t]) = "index" /\ Step(t) /\ UNCHANGED <<vars, mem, loaded, power>>
      /\ index' = [index EXCEPT ![t] = OldestSlot]
  BY DEF FindOldest, At
<1>2. PICK rest \in {<<>>, PushSteps} :
        Tail(todo[t]) = From(PopSteps, 3, rest) /\ PoppedUpTo(t, 2)
  BY <1>1, ThreadStands DEF Stands, PoppingAt
<1>3. todo[t] # <<>> /\ mem = cb /\ Size(cb) \in 1 .. Capacity
  BY <1>1, <1>2, ThreadStands, CapacityAssumption
  DEF Stands, PoppedUpTo, ThreadTypes, Buffers, Size
<1>4. OldestSlot = SlotBehind(cb, Size(cb)) /\ OldestSlot \in Int
  <2> DEFINE n == Capacity + cb.next_insertion_index - Size(cb)
  <2>1. n \in 0 .. 2 * Capacity
    BY <1>3, CapacityAssumption DEF ThreadTypes, Buffers, Slots
  <2>2. n % SizeT = n
    <3>. HIDE DEF n
    <3>. QED
      BY <2>1, SmallModulus
  <2>3. OldestSlot = SlotBehind(cb, Size(cb))
    BY <1>3, <2>2 DEF OldestSlot, SlotBehind
  <2>4. SlotBehind(cb, Size(cb)) \in Slots
    BY <1>3, SlotBehindIs DEF ThreadTypes
  <2>. QED
    BY <2>3, <2>4, CapacityAssumption DEF Slots
<1>5. index' \in [Threads -> Int] /\ index'[t] = SlotBehind(cb, Size(cb))
  BY <1>1, <1>4 DEF ThreadTypes
<1>6. ThreadTypes' /\ [Next]_vars /\ todo'[t] = Tail(todo[t]) /\ cb' = cb
  BY <1>1, <1>3, <1>5, InnerStep DEF ThreadTypes
<1>7. PoppedUpTo(t, 3)'
  BY <1>1, <1>3, <1>5, <1>6, CapacityAssumption DEF PoppedUpTo, Size, SlotBehind
<1>8. Popping(t)'
  BY <1>2, <1>6, <1>7 DEF Popping
<1>. QED
  BY <1>6, <1>8 DEF Moved, InMethod

LEMMA DecrementMoves ==
  ASSUME ThreadTypes, NEW t \in Threads, InMethod(t), Decrement(t)
  PROVE  Moved(t)
<1>1. /\ Head(todo[t]) = "decrement" /\ Step(t) /\ UNCHANGED <<vars, loaded, index, power>>
      /\ mem' = [mem EXCEPT !.nr_elements_in_buffer = (loaded[t] - 1) % SizeT]
  BY DEF Decrement, At, Store
<1>2. PICK rest \in {<<>>, PushSteps} :
        Tail(todo[t]) = From(PopSteps, 5, rest) /\ PoppedUpTo(t, 4)
  BY <1>1, ThreadStands DEF Stands, PoppingAt
<1>3. /\ todo[t] # <<>> /\ mem = cb /\ Size(cb) \in 1 .. Capacity /\ loaded[t] = Size(cb)
      /\ index[t] = SlotBehind(cb, Size(cb))
  BY <1>1, <1>2, ThreadStands, CapacityAssumption
  DEF Stands, PoppedUpTo, ThreadTypes, Buffers, Size
<1>4. (Size(cb) - 1) % SizeT = Size(cb) - 1
  <2>1. Size(cb) - 1 \in 0 .. 2 * Capacity
    BY <1>3, CapacityAssumption
  <2>. QED
    BY <2>1, SmallModulus
<1>5. mem' = Popped(cb)
  BY <1>1, <1>3, <1>4 DEF Popped, Size
<1>6. ThreadTypes' /\ [Next]_vars /\ todo'[t] = Tail(todo[t]) /\ cb' = cb
  BY <1>1, <1>3, InnerStep DEF ThreadTypes
<1>7. PoppedUpTo(t, 5)'
  BY <1>1, <1>3, <1>5, <1>6, CapacityAssumption DEF PoppedUpTo, Popped, Size, SlotBehind
<1>8. Popping(t)'
  BY <1>2, <1>6, <1>7 DEF Popping
<1>. QED
  BY <1>6, <1>8 DEF Moved, InMethod

LEMMA ReturnMoves ==
  ASSUME ThreadTypes, NEW t \in Threads, InMethod(t), ReturnOldest(t)
  PROVE  Moved(t)
<1>1. /\ Head(todo[t]) = "return" /\ Step(t) /\ UNCHANGED <<mem, loaded, index, power>>
      /\ cb' = mem' /\ popped' = mem.buffer[index[t]]
  BY DEF ReturnOldest, At, Return
<1>2. PICK rest \in {<<>>, PushSteps} :
        Tail(todo[t]) = From(PopSteps, 6, rest) /\ PoppedUpTo(t, 5)
  BY <1>1, ThreadStands DEF Stands, PoppingAt
<1>3. mem = Popped(cb) /\ index[t] = SlotBehind(cb, Size(cb)) /\ Size(cb) # 0
  BY <1>2 DEF PoppedUpTo
<1>4. Pop
  BY <1>1, <1>3 DEF Pop, Popped, PopResult
<1>5. Goto(t, rest)
  BY <1>1, <1>2, NothingLeft DEF Step
<1>. QED
  BY <1>1, <1>4, <1>5, LastStep DEF Next

LEMMA ClearMoves ==
  ASSUME ThreadTypes, NEW t \in Threads, InMethod(t), ClearStep(t)
  PROVE  Moved(t)
<1>1. /\ Step(t) /\ UNCHANGED <<loaded, index, power>> /\ todo[t] # <<>>
  BY ThreadStands DEF ClearStep, Stands
<1>2. CASE At(t, "fill") /\ Store("buffer", Empty.buffer) /\ UNCHANGED vars
  <2>1. mem' = [mem EXCEPT !.buffer = Empty.buffer] /\ Head(todo[t]) = "fill"
    BY <1>2 DEF At, Store
  <2>2. PICK rest \in {<<>>, PopSteps} :
          Tail(todo[t]) = From(ClearSteps, 2, rest) /\ ClearedUpTo(1)
    BY <2>1, ThreadStands DEF Stands, ClearingAt
  <2>3. ThreadTypes' /\ [Next]_vars /\ todo'[t] = Tail(todo[t]) /\ cb' = cb
    BY <1>1, <1>2, InnerStep DEF ThreadTypes
  <2>4. ClearedUpTo(2)'
    BY <2>1, <2>2, <2>3 DEF ClearedUpTo, Size, Empty
  <2>5. Clearing(t)'
    BY <2>2, <2>3, <2>4 DEF Clearing
  <2>. QED
    BY <2>3, <2>5 DEF Moved, InMethod
<1>3. CASE At(t, "next_zero") /\ Store("next_insertion_index", 0) /\ UNCHANGED vars
  <2>1. mem' = [mem EXCEPT !.next_insertion_index = 0] /\ Head(todo[t]) = "next_zero"
    BY <1>3 DEF At, Store
  <2>2. PICK rest \in {<<>>, PopSteps} :
          Tail(todo[t]) = From(ClearSteps, 3, rest) /\ ClearedUpTo(2)
    BY <2>1, ThreadStands DEF Stands, ClearingAt
  <2>3. ThreadTypes' /\ [Next]_vars /\ todo'[t] = Tail(todo[t]) /\ cb' = cb
    BY <1>1, <1>3, InnerStep DEF ThreadTypes
  <2>4. ClearedUpTo(3)'
    BY <2>1, <2>2, <2>3 DEF ClearedUpTo, Size, Empty
  <2>5. Clearing(t)'
    BY <2>2, <2>3, <2>4 DEF Clearing
  <2>. QED
    BY <2>3, <2>5 DEF Moved, InMethod
<1>4. CASE At(t, "nr_zero") /\ Store("nr_elements_in_buffer", 0) /\ Return(popped)
  <2>1. /\ mem' = [mem EXCEPT !.nr_elements_in_buffer = 0] /\ Head(todo[t]) = "nr_zero"
        /\ cb' = mem' /\ popped' = popped
    BY <1>4 DEF At, Store, Return
  <2>2. PICK rest \in {<<>>, PopSteps} :
          Tail(todo[t]) = From(ClearSteps, 4, rest) /\ ClearedUpTo(3)
    BY <2>1, ThreadStands DEF Stands, ClearingAt
  <2>3. Clear
    BY <2>1, <2>2 DEF Clear, ClearedUpTo, Empty
  <2>4. Goto(t, rest)
    BY <1>1, <2>2, NothingLeft DEF Step
  <2>. QED
    BY <1>1, <2>1, <2>3, <2>4, LastStep DEF Next
<1>. QED
  BY <1>2, <1>3, <1>4 DEF ClearStep

\* The render thread looks at the size, and discards a frame before it pushes or not.
LEMMA SizeMoves ==
  ASSUME ThreadTypes, InMethod("render"), LookAtSize
  PROVE  Moved("render")
<1>1. "render" \in Threads
  BY DEF Threads
<1>2. PICK r \in {<<>>, PopSteps} : Goto("render", r \o PushSteps)
  BY DEF LookAtSize
<1>3. Head(todo["render"]) = "size" /\ UNCHANGED <<vars, mem, loaded, index, power>>
  BY DEF LookAtSize, At
<1>4. mem = cb
  BY <1>1, <1>3, ThreadStands DEF Stands, Sizing
<1>5. r \o PushSteps \in Seq(Steps) /\ <<>> \o PushSteps = PushSteps
  BY Methods, ConcatProperties, ConcatEmptySeq
<1>6. /\ todo' \in [Threads -> Seq(Steps)]
      /\ todo'["render"] \in {PushSteps, PopSteps \o PushSteps}
  BY <1>1, <1>2, <1>5 DEF ThreadTypes, Goto
<1>7. ThreadTypes' /\ cb' = cb
  BY <1>3, <1>6 DEF ThreadTypes, vars
<1>8. InMethod("render")' \/ (Idle("render")' /\ mem' = cb')
  BY <1>1, <1>3, <1>4, <1>6, <1>7, Begins DEF ThreadTypes
<1>. QED
  BY <1>3, <1>7, <1>8 DEF Moved

LEMMA MethodMoves ==
  ASSUME ThreadTypes, NEW t \in Threads, InMethod(t), MethodStep(t)
  PROVE  Moved(t)
BY LoadMoves, InsertMoves, AdvanceMoves, IncrementMoves, CheckMoves, FindMoves,
   DecrementMoves, ReturnMoves, ClearMoves DEF MethodStep

\* A method is called when no thread is in one.
LEMMA CallBegins ==
  ASSUME OneLock, ThreadsInv, NEW t \in Threads, NEW steps, Call(t, steps),
         steps \in {<<"size">> \o PushSteps, ClearSteps \o PopSteps, PopSteps, ClearSteps},
         UNCHANGED <<vars, mem, loaded, index>>, power' \in Values
  PROVE  ThreadsInv' /\ [Next]_vars
<1>1. /\ \A u \in Threads : Idle(u)
      /\ todo' = [todo EXCEPT ![t] = steps]
  BY DEF Call, TakesLock, Idle
<1>2. mem = cb
  BY <1>1, NextSteps DEF ThreadsInv, LockInv, Idle
<1>3. steps \in Seq(Steps)
  <2>1. "size" \in Steps
    BY DEF Steps
  <2>2. <<"size">> \o PushSteps \in Seq(Steps)
    BY <2>1, Methods, FirstStep
  <2>3. ClearSteps \o PopSteps \in Seq(Steps)
    BY Methods, ConcatProperties
  <2>. QED
    BY <2>2, <2>3, Methods
<1>4. todo' \in [Threads -> Seq(Steps)] /\ todo'[t] = steps
      /\ \A u \in Threads \ {t} : todo'[u] = <<>>
  BY <1>1, <1>3 DEF ThreadsInv, ThreadTypes, Idle
<1>5. ThreadTypes' /\ cb' = cb
  BY <1>4 DEF ThreadsInv, ThreadTypes, vars
<1>6. InMethod(t)' \/ (Idle(t)' /\ mem' = cb')
  BY <1>2, <1>4, <1>5, Begins DEF ThreadsInv, ThreadTypes
<1>7. LockInv'
  BY <1>4, <1>6 DEF LockInv, Idle
<1>. QED
  BY <1>5, <1>7 DEF ThreadsInv

\* A step of a thread in a method leaves the other one idle.
LEMMA OthersIdle ==
  ASSUME ThreadsInv, NEW t \in Threads, NEW steps, Goto(t, steps), todo[t] # <<>>,
         InMethod(t) => Moved(t)
  PROVE  ThreadsInv' /\ [Next]_vars
<1>1. InMethod(t) /\ \A u \in Threads \ {t} : Idle(u)
  BY DEF ThreadsInv, LockInv, Idle
<1>2. \A u \in Threads \ {t} : todo'[u] = <<>>
  BY <1>1 DEF ThreadsInv, ThreadTypes, Goto, Idle
<1>3. Moved(t)
  BY <1>1
<1>4. LockInv'
  BY <1>2, <1>3 DEF LockInv, Moved, Idle
<1>. QED
  BY <1>3, <1>4 DEF ThreadsInv, Moved

LEMMA ThreadsStep ==
  ASSUME OneLock, ThreadsInv, [ThreadsNext]_threadVars
  PROVE  ThreadsInv' /\ [Next]_vars
<1>0. "render" \in Threads /\ "capture" \in Threads
  BY DEF Threads
<1>1. ASSUME NEW v \in Values, AnalyzeRenderAudio(v) PROVE ThreadsInv' /\ [Next]_vars
  BY <1>0, <1>1, CallBegins DEF AnalyzeRenderAudio
<1>2. CASE LookAtSize
  <2>1. \E steps : Goto("render", steps)
    BY <1>2 DEF LookAtSize
  <2>2. todo["render"] # <<>>
    BY <1>2 DEF LookAtSize, At
  <2>. QED
    BY <1>0, <1>2, <2>1, <2>2, SizeMoves, OthersIdle DEF ThreadsInv
<1>3. CASE AnalyzeCaptureAudio
  <2>1. <<>> \o PopSteps = PopSteps
    BY Methods, ConcatEmptySeq
  <2>2. PICK steps \in {PopSteps, ClearSteps \o PopSteps} : Call("capture", steps)
    BY <1>3, <2>1 DEF AnalyzeCaptureAudio
  <2>. QED
    BY <1>0, <1>3, <2>2, CallBegins DEF AnalyzeCaptureAudio, ThreadsInv, ThreadTypes
<1>4. CASE Initialize
  BY <1>0, <1>4, CallBegins DEF Initialize, ThreadsInv, ThreadTypes
<1>5. ASSUME NEW t \in Threads, MethodStep(t) PROVE ThreadsInv' /\ [Next]_vars
  <2>1. (\E steps : Goto(t, steps)) /\ todo[t] # <<>>
    BY <1>5 DEF MethodStep, LoadMember, Insert, Advance, Increment, CheckEmpty, FindOldest,
                Decrement, ReturnOldest, ClearStep, Step, At
  <2>. QED
    BY <1>5, <2>1, MethodMoves, OthersIdle DEF ThreadsInv
<1>6. CASE UNCHANGED threadVars
  <2>1. UNCHANGED <<cb, popped, mem, todo, loaded, index, power>>
    BY <1>6 DEF threadVars, vars, threads
  <2>2. ThreadTypes'
    BY <2>1, SMTT(30) DEF ThreadsInv, ThreadTypes
  <2>3. ASSUME NEW t \in Threads, InMethod(t) PROVE InMethod(t)'
    <3>1. ASSUME NEW k \in 1 .. 9, PushedUpTo(t, k) PROVE PushedUpTo(t, k)'
      BY <2>1, <3>1 DEF PushedUpTo, Size
    <3>2. ASSUME NEW k \in 1 .. 5, PoppedUpTo(t, k) PROVE PoppedUpTo(t, k)'
      BY <2>1, <3>2 DEF PoppedUpTo, Size, SlotBehind, Popped
    <3>3. ASSUME NEW k \in 1 .. 3, ClearedUpTo(k) PROVE ClearedUpTo(k)'
      BY <2>1, <3>3 DEF ClearedUpTo, Size
    <3>4. Sizing(t) => Sizing(t)'
      BY <2>1 DEF Sizing
    <3>5. Pushing(t) => Pushing(t)'
      BY <2>1, <3>1 DEF Pushing
    <3>6. Popping(t) => Popping(t)'
      BY <2>1, <3>2 DEF Popping
    <3>7. Clearing(t) => Clearing(t)'
      BY <2>1, <3>3 DEF Clearing
    <3>. QED
      BY <2>3, <3>4, <3>5, <3>6, <3>7 DEF InMethod
  <2>4. LockInv'
    <3>1. CASE (\A t \in Threads : Idle(t)) /\ mem = cb
      BY <2>1, <3>1 DEF LockInv, Idle
    <3>2. CASE \E t \in Threads : InMethod(t) /\ \A u \in Threads \ {t} : Idle(u)
      BY <2>1, <2>3, <3>2 DEF LockInv, Idle
    <3>. QED
      BY <3>1, <3>2 DEF ThreadsInv, LockInv
  <2>. QED
    BY <2>1, <2>2, <2>4 DEF ThreadsInv, vars
<1>. QED
  BY <1>1, <1>2, <1>3, <1>4, <1>5, <1>6 DEF ThreadsNext

\* Under one lock, whatever the order of the calls and of the single steps of the two
\* threads, each method of the buffer takes effect at once and as a whole, for every
\* capacity: what Pop has checked holds when it decrements, no store is lost, and no
\* size_t wraps.
THEOREM MethodsAreAtomic == OneLock /\ ThreadsSpec => AtomicMethods
<1>. SUFFICES ASSUME OneLock PROVE ThreadsSpec => AtomicMethods
  OBVIOUS
<1>1. ThreadsInit => ThreadsInv /\ Init
  <2> SUFFICES ASSUME ThreadsInit PROVE ThreadsInv /\ Init
    OBVIOUS
  <2>1. Init /\ cb = Empty /\ popped = NoValue
    BY DEF ThreadsInit, Init
  <2>2. Empty \in Buffers
    BY CapacityAssumption, ZeroAssumption DEF Empty, Buffers, Slots
  <2>3. todo \in [Threads -> Seq(Steps)]
    BY Methods DEF ThreadsInit
  <2>4. ThreadTypes
    BY <2>1, <2>2, <2>3, ZeroAssumption DEF ThreadTypes, ThreadsInit
  <2>5. LockInv
    BY <2>1 DEF LockInv, Idle, ThreadsInit
  <2>. QED
    BY <2>1, <2>4, <2>5 DEF ThreadsInv
<1>2. ThreadsInv /\ [ThreadsNext]_threadVars => ThreadsInv' /\ [Next]_vars
  BY ThreadsStep
<1>. QED
  BY <1>1, <1>2, PTL DEF ThreadsSpec, AtomicMethods, Spec

\* What the two threads do to the buffer is what they would do to a bounded queue.
THEOREM ThreadsShareAFifo == OneLock /\ ThreadsSpec => FifoSpec
BY MethodsAreAtomic, ImplementsFifo, PTL DEF AtomicMethods
===============================================================================
