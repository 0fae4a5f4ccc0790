--------------------------- MODULE EchoSessionProofs ---------------------------
(***************************************************************************)
(* Where the frames of a session go, for every number of delays, size of   *)
(* the render buffer and length of the session, and what its metrics are.  *)
(***************************************************************************)
EXTENDS EchoSession, SequenceTheorems, FiniteSetTheorems, TLAPS

K == kRenderBufferSize
L == kLookbackFrames

\* The values in the render buffer, oldest first.
held == RenderBuffer!ContentsOf(render_buffer)

-------------------------------------------------------------------------------
\* The lemmas about CircularBuffer, MovingMax and RtcHistogram, for the objects of
\* the detector.
BufferLemmas == INSTANCE CircularBufferProofs
  WITH Values <- Powers, ZeroValue <- 0, Capacity <- kRenderBufferSize,
       cb <- render_buffer, popped <- buffered_render_power,
       OneLock <- TRUE, SizeT <- 2 * kRenderBufferSize + 1,
       mem <- render_buffer, todo <- <<>>, loaded <- <<>>, index <- <<>>, power <- 0

MaxLemmas == INSTANCE MovingMaxProofs
  WITH Inputs <- 0 .. One, window_size <- kAggregationBufferSize, MaxUpdates <- 0,
       mm <- recent_likelihood_max, last <- echo_likelihood, largest <- loudest,
       samples <- <<>>, complete <- TRUE

HistogramLemmas == INSTANCE RtcHistogramProofs
  WITH Inputs <- 0 .. 100, min <- 0, max <- 100,
       samples <- echo_likelihood_histogram, handed_out <- NoInfo, offered <- <<>>

LEMMA Sizes ==
  /\ K \in Nat /\ K >= 1 /\ L \in Nat /\ L >= 1
  /\ Powers \subseteq Nat /\ 0 \in Powers
  /\ \A n \in 0 .. MaxRenders : n \in Powers
  /\ \A n \in 0 .. MaxCaptures : n \in Powers
BY SizesAssumption, LookbackAssumption, BoundsAssumption, PowersAssumption DEF K, L

LEMMA BufferAssumptions ==
  /\ kRenderBufferSize \in Nat \ {0} /\ 0 \in Powers
  /\ TRUE \in BOOLEAN /\ 2 * kRenderBufferSize + 1 \in Nat
  /\ 2 * kRenderBufferSize + 1 > 2 * kRenderBufferSize
BY Sizes, SizesAssumption

LEMMA MaxAssumptions ==
  /\ 0 .. One \subseteq Nat /\ kAggregationBufferSize \in Nat \ {0}
  /\ DecayNum \in Nat /\ DecayDen \in Nat \ {0} /\ DecayNum < DecayDen
  /\ 0 \in Nat
BY ScaleAssumption, SizesAssumption, DecayAssumption

LEMMA HistogramAssumptions ==
  /\ 0 \in Int /\ 100 \in Int /\ 0 <= 100 /\ 0 .. 100 \subseteq Int
  /\ kMaxSampleMapSize \in Nat \ {0} /\ MaxCount \in Nat \ {0}
BY MapSizeAssumption

\* Both instances define the same operators.
LEMMA SameBuffer ==
  /\ RenderBuffer!Buffers = BufferLemmas!Buffers
  /\ RenderBuffer!Empty = BufferLemmas!Empty
  /\ \A b : /\ RenderBuffer!Size(b) = BufferLemmas!Size(b)
            /\ RenderBuffer!PopResult(b) = BufferLemmas!PopResult(b)
            /\ RenderBuffer!Popped(b) = BufferLemmas!Popped(b)
            /\ RenderBuffer!ContentsOf(b) = BufferLemmas!ContentsOf(b)
            /\ \A v : RenderBuffer!Pushed(b, v) = BufferLemmas!Pushed(b, v)
BY DEF RenderBuffer!Buffers, RenderBuffer!Slots, RenderBuffer!Empty, RenderBuffer!Size,
       RenderBuffer!PopResult, RenderBuffer!Popped, RenderBuffer!ContentsOf,
       RenderBuffer!Pushed, RenderBuffer!SlotBehind,
       BufferLemmas!Buffers, BufferLemmas!Slots, BufferLemmas!Empty, BufferLemmas!Size,
       BufferLemmas!PopResult, BufferLemmas!Popped, BufferLemmas!ContentsOf,
       BufferLemmas!Pushed, BufferLemmas!SlotBehind

\* The render buffer as a queue.
LEMMA EmptyBuffer ==
  RenderBuffer!Empty \in RenderBuffer!Buffers /\ RenderBuffer!Size(RenderBuffer!Empty) = 0
  /\ RenderBuffer!ContentsOf(RenderBuffer!Empty) = <<>>
<1>1. BufferLemmas!ContentsOf(BufferLemmas!Empty) = <<>>
  BY BufferAssumptions, BufferLemmas!EmptyHoldsNothing
<1>2. RenderBuffer!Empty \in RenderBuffer!Buffers
  BY BufferAssumptions DEF RenderBuffer!Empty, RenderBuffer!Buffers, RenderBuffer!Slots
<1>3. RenderBuffer!Size(RenderBuffer!Empty) = 0
  BY DEF RenderBuffer!Size, RenderBuffer!Empty
<1>. QED
  BY <1>1, <1>2, <1>3, SameBuffer

LEMMA BufferContents ==
  ASSUME NEW b \in RenderBuffer!Buffers
  PROVE  /\ RenderBuffer!ContentsOf(b) \in Seq(Powers)
         /\ Len(RenderBuffer!ContentsOf(b)) = RenderBuffer!Size(b)
         /\ RenderBuffer!Size(b) \in 0 .. K
         /\ RenderBuffer!Size(b) = 0 <=> RenderBuffer!ContentsOf(b) = <<>>
<1>1. b \in BufferLemmas!Buffers
  BY SameBuffer
<1>2. /\ BufferLemmas!ContentsOf(b) \in Seq(Powers)
      /\ Len(BufferLemmas!ContentsOf(b)) = BufferLemmas!Size(b)
      /\ BufferLemmas!Size(b) \in 0 .. K
  BY <1>1, BufferAssumptions, BufferLemmas!ContentsAreValues DEF K
<1>3. /\ RenderBuffer!ContentsOf(b) \in Seq(Powers)
      /\ Len(RenderBuffer!ContentsOf(b)) = RenderBuffer!Size(b)
      /\ RenderBuffer!Size(b) \in 0 .. K
  BY <1>2, SameBuffer
<1>. QED
  BY <1>3, EmptySeq

LEMMA BufferPop ==
  ASSUME NEW b \in RenderBuffer!Buffers
  PROVE  /\ RenderBuffer!Popped(b) \in RenderBuffer!Buffers
         /\ RenderBuffer!Size(b) = 0 => /\ RenderBuffer!PopResult(b) = NoValue
                                        /\ RenderBuffer!Popped(b) = b
         /\ RenderBuffer!Size(b) # 0 =>
              /\ RenderBuffer!ContentsOf(b) # <<>>
              /\ RenderBuffer!PopResult(b) = Head(RenderBuffer!ContentsOf(b))
              /\ RenderBuffer!ContentsOf(RenderBuffer!Popped(b))
                   = Tail(RenderBuffer!ContentsOf(b))
<1>1. b \in BufferLemmas!Buffers
  BY SameBuffer
<1>2. BufferLemmas!Popped(b) \in BufferLemmas!Buffers
  BY <1>1, BufferAssumptions, BufferLemmas!MethodsKeepType
<1>3. BufferLemmas!Size(b) # 0 =>
        /\ BufferLemmas!ContentsOf(b) # <<>>
        /\ BufferLemmas!PopResult(b) = Head(BufferLemmas!ContentsOf(b))
        /\ BufferLemmas!ContentsOf(BufferLemmas!Popped(b)) = Tail(BufferLemmas!ContentsOf(b))
  BY <1>1, BufferAssumptions, BufferLemmas!PopTakesOldest
<1>4. RenderBuffer!Size(b) = 0 => /\ RenderBuffer!PopResult(b) = NoValue
                                  /\ RenderBuffer!Popped(b) = b
  BY DEF RenderBuffer!PopResult, RenderBuffer!Popped
<1>. QED
  BY <1>2, <1>3, <1>4, SameBuffer

LEMMA BufferPush ==
  ASSUME NEW b \in RenderBuffer!Buffers, NEW v \in Powers
  PROVE  /\ RenderBuffer!Pushed(b, v) \in RenderBuffer!Buffers
         /\ RenderBuffer!ContentsOf(RenderBuffer!Pushed(b, v)) =
              IF Len(RenderBuffer!ContentsOf(b)) < K
              THEN Append(RenderBuffer!ContentsOf(b), v)
              ELSE Append(Tail(RenderBuffer!ContentsOf(b)), v)
<1>1. b \in BufferLemmas!Buffers
  BY SameBuffer
<1>2. BufferLemmas!Pushed(b, v) \in BufferLemmas!Buffers
  BY <1>1, BufferAssumptions, BufferLemmas!MethodsKeepType
<1>3. BufferLemmas!ContentsOf(BufferLemmas!Pushed(b, v)) =
        IF Len(BufferLemmas!ContentsOf(b)) < K
        THEN Append(BufferLemmas!ContentsOf(b), v)
        ELSE Append(Tail(BufferLemmas!ContentsOf(b)), v)
  BY <1>1, BufferAssumptions, BufferLemmas!PushAppends DEF K
<1>. QED
  BY <1>2, <1>3, SameBuffer

\* What is held after a step is what its new buffer holds.
LEMMA NewlyHeld ==
  ASSUME NEW b, render_buffer' = b
  PROVE  held' = RenderBuffer!ContentsOf(b)
BY DEF held, RenderBuffer!ContentsOf, RenderBuffer!Size, RenderBuffer!SlotBehind

-------------------------------------------------------------------------------
\* Queues of the newest frames: the numbers up to r, oldest first.
Newest(q, r) ==
  /\ q \in Seq(Powers) /\ Len(q) <= r
  /\ \A i \in 1 .. Len(q) : q[i] = r - Len(q) + i

LEMMA NewestEmpty == ASSUME NEW r \in Nat PROVE Newest(<<>>, r) /\ Len(<<>>) = 0
BY DEF Newest

LEMMA NewestTail ==
  ASSUME NEW r \in Nat, NEW q, Newest(q, r), q # <<>>
  PROVE  /\ Newest(Tail(q), r) /\ Len(q) \in Nat /\ Len(Tail(q)) = Len(q) - 1
         /\ Len(Tail(q)) \in Nat
         /\ Head(q) = r - Len(Tail(q)) /\ Head(q) \in Powers
<1>1. q \in Seq(Powers) /\ Len(q) \in Nat /\ Len(q) <= r
      /\ \A i \in 1 .. Len(q) : q[i] = r - Len(q) + i
  BY DEF Newest
<1>2. /\ Tail(q) \in Seq(Powers) /\ Len(Tail(q)) = Len(q) - 1
      /\ \A i \in 1 .. Len(q) - 1 : Tail(q)[i] = q[i + 1]
  BY <1>1, HeadTailProperties
<1>3. Len(q) >= 1 /\ Head(q) = q[1] /\ Head(q) \in Powers
  BY <1>1, EmptySeq, HeadTailProperties
<1> DEFINE n == Len(q)
           t == Tail(q)
<1>. HIDE DEF n, t
<1>4. t \in Seq(Powers) /\ Len(t) = n - 1 /\ n \in Nat /\ n >= 1 /\ n <= r
      /\ (\A i \in 1 .. n - 1 : t[i] = q[i + 1]) /\ \A i \in 1 .. n : q[i] = r - n + i
  BY <1>1, <1>2, <1>3 DEF n, t
<1>5. \A i \in 1 .. n - 1 : t[i] = r - (n - 1) + i
  BY <1>4
<1>6. q[1] = r - (n - 1)
  BY <1>4
<1>7. Newest(t, r)
  BY <1>4, <1>5 DEF Newest
<1>. QED
  BY <1>1, <1>2, <1>3, <1>6, <1>7 DEF n, t

LEMMA NewestAppend ==
  ASSUME NEW r \in Nat, NEW q, Newest(q, r), r + 1 \in Powers
  PROVE  Newest(Append(q, r + 1), r + 1) /\ Len(q) \in Nat
         /\ Len(Append(q, r + 1)) = Len(q) + 1
<1> DEFINE n == Len(q)
           a == Append(q, r + 1)
<1>1. q \in Seq(Powers) /\ n \in Nat /\ n <= r /\ \A i \in 1 .. n : q[i] = r - n + i
  BY DEF Newest
<1>2. /\ a \in Seq(Powers) /\ Len(a) = n + 1 /\ a[n + 1] = r + 1
      /\ \A i \in 1 .. n : a[i] = q[i]
  BY <1>1, AppendProperties
<1>. HIDE DEF n, a
<1>3. \A i \in 1 .. n + 1 : a[i] = (r + 1) - (n + 1) + i
  <2> SUFFICES ASSUME NEW i \in 1 .. n + 1 PROVE a[i] = (r + 1) - (n + 1) + i
    OBVIOUS
  <2>1. CASE i = n + 1
    BY <2>1, <1>1, <1>2
  <2>2. CASE i \in 1 .. n
    BY <2>2, <1>1, <1>2
  <2>. QED
    BY <1>1, <2>1, <2>2
<1>4. Newest(a, r + 1)
  BY <1>1, <1>2, <1>3 DEF Newest
<1>. QED
  BY <1>1, <1>2, <1>4 DEF n, a

-------------------------------------------------------------------------------
\* The render side: what waits in the buffer and what has been taken from it.
PairRecords == [render : Powers, capture : Powers]

QueueTypes ==
  /\ render_buffer \in RenderBuffer!Buffers
  /\ buffered_render_power \in Powers \cup {NoValue}
  /\ frames_since_zero_buffer_size \in 0 .. K
  /\ first_process_call \in BOOLEAN
  /\ rendered \in 0 .. MaxRenders /\ captured \in 0 .. MaxCaptures
  /\ pairs \in Seq(PairRecords) /\ start \in 0 .. Len(pairs)

\* Every frame in a pair is older than those still held and those still to come.
PairsAreOlder ==
  \A i \in 1 .. Len(pairs) :
    pairs[i].render <= rendered - Len(held) /\ pairs[i].capture <= captured

\* Initialize leaves nothing held, and what is held later is newer.
HeldAreNew == outdated \in Nat /\ outdated <= rendered - Len(held)

QueueInv ==
  /\ QueueTypes
  /\ HeldAreNew
  /\ Newest(held, rendered)
  /\ PairsAreOlder
  /\ EachFrameOnce

\* What QueueInv says in numbers.
LEMMA QueueNumbers ==
  ASSUME QueueInv
  PROVE  /\ rendered \in Nat /\ captured \in Nat /\ Len(held) \in 0 .. K
         /\ Len(held) = RenderBuffer!Size(render_buffer) /\ Len(held) <= rendered
         /\ RenderBuffer!Size(render_buffer) = 0 <=> held = <<>>
         /\ Len(pairs) \in Nat
         /\ \A i \in 1 .. Len(pairs) : /\ pairs[i] \in PairRecords
                                       /\ pairs[i].render \in Nat
                                       /\ pairs[i].capture \in Nat
<1>1. /\ rendered \in Nat /\ captured \in Nat
      /\ pairs \in Seq(PairRecords) /\ Len(pairs) \in Nat
  BY BoundsAssumption DEF QueueInv, QueueTypes
<1>2. /\ held \in Seq(Powers) /\ Len(held) = RenderBuffer!Size(render_buffer)
      /\ Len(held) \in 0 .. K
      /\ RenderBuffer!Size(render_buffer) = 0 <=> held = <<>>
  BY BufferContents DEF QueueInv, QueueTypes, held
<1>3. \A i \in 1 .. Len(pairs) : pairs[i] \in PairRecords
  BY <1>1
<1>4. \A p \in PairRecords : p.render \in Nat /\ p.capture \in Nat
  BY Sizes DEF PairRecords
<1>. QED
  BY <1>1, <1>2, <1>3, <1>4 DEF QueueInv, Newest

\* A step that makes no pair and holds frames that are no older keeps the pairs.
LEMMA PairsStayOlder ==
  ASSUME QueueInv, UNCHANGED pairs, captured <= captured', captured' \in Nat,
         Newest(held', rendered'), rendered' \in Nat,
         rendered - Len(held) <= rendered' - Len(held')
  PROVE  PairsAreOlder' /\ EachFrameOnce'
<1>1. Len(held') \in Nat
  BY DEF Newest
<1>2. EachFrameOnce'
  BY DEF QueueInv, EachFrameOnce
<1>3. ASSUME NEW i \in 1 .. Len(pairs)
      PROVE  pairs[i].render <= rendered' - Len(held') /\ pairs[i].capture <= captured'
  <2> DEFINE l == Len(held)
             m == Len(held')
  <2>1. /\ pairs[i].render \in Nat /\ pairs[i].capture \in Nat
        /\ pairs[i].render <= rendered - l /\ pairs[i].capture <= captured
        /\ l \in Nat /\ m \in Nat /\ rendered \in Nat /\ captured \in Nat
        /\ rendered - l <= rendered' - m /\ rendered' \in Nat /\ captured <= captured'
        /\ captured' \in Nat
    BY <1>1, QueueNumbers, SMTT(30) DEF QueueInv, PairsAreOlder
  <2>2. \A x, y, z \in Int : x <= y /\ y <= z => x <= z
    OBVIOUS
  <2>3. rendered - l \in Int /\ rendered' - m \in Int
    BY <2>1
  <2>. QED
    BY <2>1, <2>2, <2>3, SMTT(30)
<1>. QED
  BY <1>2, <1>3 DEF PairsAreOlder

LEMMA HeldStayNew ==
  ASSUME QueueInv, UNCHANGED outdated, Len(held') \in Nat, rendered' \in Nat,
         rendered - Len(held) <= rendered' - Len(held')
  PROVE  HeldAreNew'
<1> DEFINE l == Len(held)
           m == Len(held')
<1>1. /\ outdated \in Nat /\ outdated <= rendered - l
      /\ rendered \in Nat /\ l \in Nat /\ m \in Nat
  BY QueueNumbers DEF QueueInv, HeldAreNew
<1>2. rendered - l <= rendered' - m
  OBVIOUS
<1>. HIDE DEF l, m
<1>3. \A x, y, z \in Int : x <= y /\ y <= z => x <= z
  OBVIOUS
<1>4. outdated \in Int /\ rendered - l \in Int /\ rendered' - m \in Int
  BY <1>1
<1>5. outdated <= rendered' - m
  BY <1>1, <1>2, <1>3, <1>4
<1>. QED
  BY <1>1, <1>5 DEF HeldAreNew, m

LEMMA RenderKeepsQueue ==
  ASSUME QueueInv, RenderNext
  PROVE  QueueInv'
<1> DEFINE b == IF Drifted THEN RenderBuffer!Popped(render_buffer) ELSE render_buffer
           q == RenderBuffer!ContentsOf(b)
<1>0. /\ rendered \in Nat /\ rendered' = rendered + 1 /\ rendered' \in 0 .. MaxRenders
      /\ rendered' \in Powers /\ UNCHANGED <<captured, pairs, start, outdated>>
      /\ render_buffer' = RenderBuffer!Pushed(b, rendered')
      /\ UNCHANGED <<first_process_call, buffered_render_power>>
  BY QueueNumbers, Sizes, BoundsAssumption DEF RenderNext, AnalyzeRenderAudio
<1>1. /\ render_buffer \in RenderBuffer!Buffers /\ Newest(held, rendered)
      /\ frames_since_zero_buffer_size \in 0 .. K
  BY DEF QueueInv, QueueTypes
<1>2. /\ b \in RenderBuffer!Buffers /\ Newest(q, rendered) /\ Len(q) \in Nat
      /\ Len(q) <= Len(held) /\ Len(held) \in Nat
  <2>1. CASE Drifted
    <3>1. RenderBuffer!Size(render_buffer) # 0
      BY <2>1 DEF Drifted
    <3>2. /\ held # <<>> /\ b \in RenderBuffer!Buffers /\ q = Tail(held)
      BY <2>1, <3>1, <1>1, BufferPop DEF held
    <3>3. /\ Newest(Tail(held), rendered) /\ Len(held) \in Nat
          /\ Len(Tail(held)) \in Nat /\ Len(Tail(held)) <= Len(held)
      BY <3>2, <1>0, <1>1, NewestTail
    <3>. QED
      BY <3>2, <3>3
  <2>2. CASE ~ Drifted
    <3>1. b = render_buffer /\ q = held
      BY <2>2 DEF held
    <3>. QED
      BY <3>1, <1>1, QueueNumbers
  <2>. QED
    BY <2>1, <2>2
<1>3. /\ render_buffer' \in RenderBuffer!Buffers
      /\ held' = IF Len(q) < K THEN Append(q, rendered') ELSE Append(Tail(q), rendered')
  <2>. HIDE DEF b
  <2>. QED
    BY <1>0, <1>2, BufferPush, NewlyHeld
<1>. HIDE DEF b, q
<1>4. Newest(held', rendered') /\ rendered - Len(held) <= rendered' - Len(held')
  <2>1. CASE Len(q) < K
    <3>1. /\ Newest(Append(q, rendered + 1), rendered + 1)
          /\ Len(Append(q, rendered + 1)) = Len(q) + 1
      BY <1>0, <1>2, NewestAppend
    <3>. QED
      BY <2>1, <3>1, <1>0, <1>2, <1>3
  <2>2. CASE ~ (Len(q) < K)
    <3>1. q # <<>>
      BY <2>2, <1>2, Sizes
    <3>2. Newest(Tail(q), rendered) /\ Len(Tail(q)) = Len(q) - 1
      BY <3>1, <1>0, <1>2, NewestTail
    <3>3. /\ Newest(Append(Tail(q), rendered + 1), rendered + 1)
          /\ Len(Append(Tail(q), rendered + 1)) = Len(Tail(q)) + 1
      BY <3>2, <1>0, NewestAppend
    <3>4. held' = Append(Tail(q), rendered + 1) /\ Len(held') = Len(q)
      BY <2>2, <3>2, <3>3, <1>0, <1>2, <1>3
    <3>. QED
      BY <3>3, <3>4, <1>0, <1>2
  <2>. QED
    BY <2>1, <2>2
<1>5. PairsAreOlder' /\ EachFrameOnce'
  BY <1>0, <1>4, PairsStayOlder, QueueNumbers
<1>6. frames_since_zero_buffer_size' \in 0 .. K
  BY <1>1, Sizes DEF RenderNext, AnalyzeRenderAudio, Drifted, K
<1>7. HeldAreNew'
  <2>1. Len(held') \in Nat /\ rendered' \in Nat
    BY <1>0, <1>4 DEF Newest
  <2>. QED
    BY <1>0, <1>4, <2>1, HeldStayNew
<1>. QED
  BY <1>0, <1>3, <1>4, <1>5, <1>6, <1>7 DEF QueueInv, QueueTypes

\* A capture that is not ignored takes the oldest frame held.
LEMMA CaptureTakesOldest ==
  ASSUME QueueInv, RenderBuffer!Size(Flushed) # 0, TakeRenderPower
  PROVE  /\ ~ first_process_call /\ first_process_call' = FALSE
         /\ held # <<>> /\ held' = Tail(held)
         /\ buffered_render_power' = Head(held)
         /\ buffered_render_power' = rendered - Len(held')
         /\ buffered_render_power' \in Powers
         /\ Newest(held', rendered) /\ Len(held) \in Nat /\ Len(held') = Len(held) - 1
         /\ render_buffer' \in RenderBuffer!Buffers
         /\ UNCHANGED frames_since_zero_buffer_size
<1>1. ~ first_process_call /\ Flushed = render_buffer
  BY EmptyBuffer DEF Flushed, QueueInv, QueueTypes
<1>2. /\ first_process_call' = FALSE /\ UNCHANGED frames_since_zero_buffer_size
      /\ buffered_render_power' = RenderBuffer!PopResult(render_buffer)
      /\ render_buffer' = RenderBuffer!Popped(render_buffer)
  BY <1>1 DEF TakeRenderPower
<1>3. /\ held # <<>>
      /\ RenderBuffer!PopResult(render_buffer) = Head(held)
      /\ RenderBuffer!ContentsOf(RenderBuffer!Popped(render_buffer)) = Tail(held)
      /\ RenderBuffer!Popped(render_buffer) \in RenderBuffer!Buffers
  BY <1>1, BufferPop DEF QueueInv, QueueTypes, held
<1>4. held' = Tail(held)
  BY <1>2, <1>3, NewlyHeld
<1>5. Newest(held, rendered) /\ rendered \in Nat
  BY QueueNumbers DEF QueueInv
<1>6. /\ Newest(Tail(held), rendered) /\ Len(held) \in Nat
      /\ Len(Tail(held)) = Len(held) - 1
      /\ Head(held) = rendered - Len(Tail(held)) /\ Head(held) \in Powers
  BY <1>3, <1>5, NewestTail
<1>. QED
  BY <1>1, <1>2, <1>3, <1>4, <1>6

\* The step of a capture that is ignored and that of Initialize leave nothing held.
LEMMA NothingHeldKeepsQueue ==
  ASSUME QueueInv, render_buffer' \in RenderBuffer!Buffers, held' = <<>>,
         buffered_render_power' \in Powers \cup {NoValue},
         first_process_call' \in BOOLEAN, captured' \in 0 .. MaxCaptures,
         captured <= captured', start' \in 0 .. Len(pairs),
         outdated' = outdated \/ outdated' = rendered,
         UNCHANGED <<frames_since_zero_buffer_size, rendered, pairs>>
  PROVE  QueueInv'
<1>1. /\ rendered \in Nat /\ Len(held) \in Nat /\ captured' \in Nat
  BY QueueNumbers, BoundsAssumption
<1>2. Newest(held', rendered') /\ rendered - Len(held) <= rendered' - Len(held')
  BY <1>1, NewestEmpty
<1>3. PairsAreOlder' /\ EachFrameOnce'
  BY <1>1, <1>2, PairsStayOlder
<1>4. HeldAreNew'
  <2>1. Len(held') = 0 /\ rendered' = rendered
    OBVIOUS
  <2>2. CASE outdated' = outdated
    BY <1>1, <1>2, <2>1, <2>2, HeldStayNew
  <2>3. CASE outdated' = rendered
    BY <1>1, <2>1, <2>3 DEF HeldAreNew
  <2>. QED
    BY <2>2, <2>3
<1>. QED
  BY <1>2, <1>3, <1>4 DEF QueueInv, QueueTypes

LEMMA IgnoredKeepsQueue ==
  ASSUME QueueInv, CaptureIgnored
  PROVE  QueueInv'
<1>1. Flushed \in RenderBuffer!Buffers /\ RenderBuffer!Size(Flushed) = 0
  BY EmptyBuffer DEF Flushed, QueueInv, QueueTypes, CaptureIgnored, IgnoreCapture
<1>2. /\ RenderBuffer!PopResult(Flushed) = NoValue
      /\ RenderBuffer!Popped(Flushed) = Flushed
      /\ RenderBuffer!ContentsOf(Flushed) = <<>>
  BY <1>1, BufferPop, BufferContents
<1>3. /\ render_buffer' = Flushed /\ buffered_render_power' = NoValue
      /\ first_process_call' = FALSE
      /\ captured' = captured + 1 /\ captured < MaxCaptures
      /\ UNCHANGED <<frames_since_zero_buffer_size, rendered, pairs, start, outdated>>
  BY <1>2 DEF CaptureIgnored, IgnoreCapture, TakeRenderPower
<1>4. held' = <<>>
  BY <1>2, <1>3, NewlyHeld
<1>5. captured' \in 0 .. MaxCaptures /\ captured <= captured' /\ start' \in 0 .. Len(pairs)
  BY <1>3, BoundsAssumption DEF QueueInv, QueueTypes
<1>. QED
  BY <1>1, <1>3, <1>4, <1>5, NothingHeldKeepsQueue

LEMMA ReinitializeKeepsQueue ==
  ASSUME QueueInv, Reinitialize
  PROVE  QueueInv'
<1>1. /\ render_buffer' = RenderBuffer!Empty /\ start' = Len(pairs) /\ outdated' = rendered
      /\ UNCHANGED <<first_process_call, frames_since_zero_buffer_size,
                     buffered_render_power, rendered, captured, pairs>>
  BY DEF Reinitialize, Initialize
<1>2. held' = <<>>
  BY <1>1, NewlyHeld, EmptyBuffer
<1>3. start' \in 0 .. Len(pairs) /\ captured <= captured'
  BY <1>1, QueueNumbers
<1>4. /\ buffered_render_power' \in Powers \cup {NoValue} /\ first_process_call' \in BOOLEAN
      /\ captured' \in 0 .. MaxCaptures
  BY <1>1 DEF QueueInv, QueueTypes
<1>. QED
  BY <1>1, <1>2, <1>3, <1>4, EmptyBuffer, NothingHeldKeepsQueue

\* The new pair is newer on both sides than all there were.
LEMMA CaptureKeepsQueue ==
  ASSUME QueueInv, NEW correlation, CaptureNext(correlation)
  PROVE  QueueInv'
<1> DEFINE p == [render |-> buffered_render_power', capture |-> captured']
           n == Len(pairs)
<1>1. /\ captured' = captured + 1 /\ captured < MaxCaptures
      /\ RenderBuffer!Size(Flushed) # 0 /\ TakeRenderPower
      /\ pairs' = Append(pairs, p)
      /\ UNCHANGED <<rendered, start, outdated>>
  BY DEF CaptureNext, AnalyzeCaptureAudio
<1>2. /\ first_process_call' = FALSE
      /\ buffered_render_power' = rendered - Len(held')
      /\ buffered_render_power' \in Powers /\ buffered_render_power' \in Nat
      /\ Newest(held', rendered) /\ Len(held) \in Nat /\ Len(held') = Len(held) - 1
      /\ render_buffer' \in RenderBuffer!Buffers
      /\ UNCHANGED frames_since_zero_buffer_size
  BY <1>1, CaptureTakesOldest, Sizes
<1>3. captured \in Nat /\ captured' \in 0 .. MaxCaptures /\ captured' \in Powers
      /\ rendered \in Nat /\ start \in 0 .. n /\ n \in Nat /\ pairs \in Seq(PairRecords)
  BY <1>1, QueueNumbers, BoundsAssumption, Sizes DEF QueueInv, QueueTypes
<1>4. p \in PairRecords
  BY <1>2, <1>3 DEF PairRecords
<1>5. /\ pairs' \in Seq(PairRecords) /\ Len(pairs') = n + 1
      /\ pairs'[n + 1] = p /\ \A i \in 1 .. n : pairs'[i] = pairs[i]
  BY <1>1, <1>3, <1>4, AppendProperties
<1>6. ASSUME NEW i \in 1 .. n
      PROVE  /\ pairs[i].render < p.render /\ pairs[i].capture < p.capture
             /\ pairs[i].render <= rendered - Len(held') /\ pairs[i].capture <= captured'
  <2> DEFINE x == pairs[i].render
             y == pairs[i].capture
             l == Len(held)
             m == Len(held')
  <2>1. x \in Nat /\ y \in Nat /\ x <= rendered - l /\ y <= captured
    BY QueueNumbers DEF QueueInv, PairsAreOlder
  <2>2. rendered \in Nat /\ l \in Nat /\ m = l - 1 /\ p.render = rendered - m
        /\ p.capture = captured + 1 /\ captured' = captured + 1 /\ captured \in Nat
    BY <1>1, <1>2, <1>3
  <2>. HIDE DEF x, y, l, m, p
  <2>3. x < p.render /\ y < p.capture /\ x <= rendered - m /\ y <= captured'
    BY <2>1, <2>2
  <2>. QED
    BY <2>3 DEF x, y, m
<1>7. /\ p.render = rendered - Len(held') /\ p.capture = captured'
      /\ p.render \in Nat /\ p.capture \in Nat
  BY <1>2, <1>3
<1>. HIDE DEF p, n
<1>8. PairsAreOlder'
  <2> SUFFICES ASSUME NEW i \in 1 .. n + 1
               PROVE  /\ pairs'[i].render <= rendered - Len(held')
                      /\ pairs'[i].capture <= captured'
    BY <1>1, <1>5 DEF PairsAreOlder
  <2>1. CASE i = n + 1
    BY <2>1, <1>5, <1>7
  <2>2. CASE i \in 1 .. n
    BY <2>2, <1>5, <1>6
  <2>. QED
    BY <1>3, <2>1, <2>2
<1>9. EachFrameOnce'
  <2> SUFFICES ASSUME NEW i \in 1 .. n + 1, NEW j \in 1 .. n + 1, i < j
               PROVE  /\ pairs'[i].render < pairs'[j].render
                      /\ pairs'[i].capture < pairs'[j].capture
    BY <1>5 DEF EachFrameOnce
  <2>1. i \in 1 .. n
    BY <1>3
  <2>2. CASE j = n + 1
    BY <2>1, <2>2, <1>5, <1>6
  <2>3. CASE j \in 1 .. n
    BY <2>1, <2>3, <1>5 DEF QueueInv, EachFrameOnce, n
  <2>. QED
    BY <1>3, <2>2, <2>3
<1>10. start' \in 0 .. Len(pairs')
  BY <1>1, <1>3, <1>5
<1>11. HeldAreNew'
  <2>1. /\ Len(held') \in Nat /\ rendered' = rendered
        /\ rendered - Len(held) <= rendered - Len(held')
    BY <1>1, <1>2, <1>3 DEF Newest
  <2>. QED
    BY <1>1, <1>3, <2>1, HeldStayNew
<1>. QED
  BY <1>1, <1>2, <1>3, <1>5, <1>8, <1>9, <1>10, <1>11 DEF QueueInv, QueueTypes

LEMMA UntouchedQueue ==
  ASSUME QueueInv, SetReliability \/ UNCHANGED sessionVars
  PROVE  QueueInv'
<1>1. UNCHANGED <<render_buffer, buffered_render_power, frames_since_zero_buffer_size,
                  first_process_call, rendered, captured, pairs, start, outdated>>
  BY DEF SetReliability, SetReliabilityForTest, sessionVars, vars, renderSide, history
<1>2. held' = held
  BY <1>1, NewlyHeld DEF held
<1>. QED
  BY <1>1, <1>2 DEF QueueInv, QueueTypes, HeldAreNew, PairsAreOlder, EachFrameOnce, Newest

LEMMA QueueInvHolds == SessionSpec => []QueueInv
<1>1. SessionInit => QueueInv
  <2> SUFFICES ASSUME SessionInit PROVE QueueInv
    OBVIOUS
  <2>1. /\ render_buffer = RenderBuffer!Empty /\ rendered = 0 /\ captured = 0
        /\ pairs = <<>> /\ start = 0 /\ outdated = 0 /\ buffered_render_power = NoValue
        /\ frames_since_zero_buffer_size = 0 /\ first_process_call = TRUE
    BY DEF SessionInit, Init
  <2>2. held = <<>> /\ render_buffer \in RenderBuffer!Buffers
    BY <2>1, EmptyBuffer DEF held
  <2>3. Newest(held, rendered)
    BY <2>1, <2>2, NewestEmpty
  <2>4. pairs \in Seq(PairRecords) /\ Len(pairs) = 0
    BY <2>1
  <2>5. QueueTypes
    BY <2>1, <2>2, <2>4, Sizes, BoundsAssumption DEF QueueTypes
  <2>6. PairsAreOlder /\ EachFrameOnce
    BY <2>4 DEF PairsAreOlder, EachFrameOnce
  <2>7. HeldAreNew
    BY <2>1, <2>2 DEF HeldAreNew
  <2>. QED
    BY <2>3, <2>5, <2>6, <2>7 DEF QueueInv
<1>2. QueueInv /\ [SessionNext]_sessionVars => QueueInv'
  <2> SUFFICES ASSUME QueueInv, [SessionNext]_sessionVars PROVE QueueInv'
    OBVIOUS
  <2>1. CASE RenderNext
    BY <2>1, RenderKeepsQueue
  <2>2. CASE CaptureIgnored
    BY <2>2, IgnoredKeepsQueue
  <2>3. ASSUME NEW correlation \in Measured, CaptureNext(correlation) PROVE QueueInv'
    BY <2>3, CaptureKeepsQueue
  <2>4. CASE Reinitialize
    BY <2>4, ReinitializeKeepsQueue
  <2>5. CASE SetReliability \/ UNCHANGED sessionVars
    BY <2>5, UntouchedQueue
  <2>. QED
    BY <2>1, <2>2, <2>3, <2>4, <2>5 DEF SessionNext
<1>. QED
  BY <1>1, <1>2, PTL DEF SessionSpec

\* Through overflows, discards for drift, flushes and Initialize, the buffer holds an
\* unbroken run of frames that ends with the newest and begins after the last
\* Initialize, for every size of the buffer.
THEOREM NewestFramesHeld == SessionSpec => []HoldsNewestFrames
<1>1. QueueInv => HoldsNewestFrames
  <2> SUFFICES ASSUME QueueInv PROVE HoldsNewestFrames
    OBVIOUS
  <2> DEFINE n == Len(held)
  <2>1. held \in Seq(Powers) /\ n \in Nat /\ \A i \in 1 .. n : held[i] = rendered - n + i
    BY DEF QueueInv, Newest
  <2>2. held = [i \in 1 .. n |-> held[i]]
    BY <2>1
  <2>3. held = [i \in 1 .. n |-> rendered - n + i]
    BY <2>1, <2>2
  <2>4. n <= rendered - outdated
    BY <2>1, QueueNumbers DEF QueueInv, HeldAreNew
  <2>. QED
    BY <2>3, <2>4 DEF HoldsNewestFrames, held
<1>. QED
  BY <1>1, QueueInvHolds, PTL

\* No render frame is compared twice or after a newer one, and no capture frame
\* either, in sessions of any length.
THEOREM FramesComparedOnce == SessionSpec => []EachFrameOnce
<1>1. QueueInv => EachFrameOnce
  BY DEF QueueInv
<1>. QED
  BY <1>1, QueueInvHolds, PTL

-------------------------------------------------------------------------------
\* The refinement of RenderQueue: each method of the detector is the operation of
\* the queue of the same name, or two of them, or a stutter.
LEMMA RenderIsQueued ==
  ASSUME QueueInv, NEW power \in Powers, AnalyzeRenderAudio(power)
  PROVE  Queue!Render(power)
<1> DEFINE b == IF Drifted THEN RenderBuffer!Popped(render_buffer) ELSE render_buffer
           q == IF Queue!Drifted THEN Tail(held) ELSE held
<1>1. /\ render_buffer' = RenderBuffer!Pushed(b, power)
      /\ frames_since_zero_buffer_size' =
           IF RenderBuffer!Size(render_buffer) = 0 \/ Drifted THEN 1
           ELSE frames_since_zero_buffer_size + 1
      /\ UNCHANGED <<first_process_call, buffered_render_power>>
  BY DEF AnalyzeRenderAudio
<1>2. render_buffer \in RenderBuffer!Buffers
      /\ (RenderBuffer!Size(render_buffer) = 0 <=> held = <<>>)
  BY QueueNumbers DEF QueueInv, QueueTypes
<1>3. Drifted <=> Queue!Drifted
  BY <1>2 DEF Drifted, Queue!Drifted, held
<1>4. b \in RenderBuffer!Buffers /\ RenderBuffer!ContentsOf(b) = q
  <2>1. CASE Drifted
    <3>1. RenderBuffer!Size(render_buffer) # 0
      BY <2>1 DEF Drifted
    <3>. QED
      BY <2>1, <3>1, <1>2, <1>3, BufferPop DEF held
  <2>2. CASE ~ Drifted
    BY <2>2, <1>2, <1>3 DEF held
  <2>. QED
    BY <2>1, <2>2
<1>. HIDE DEF b
<1>5. Len(q) \in 0 .. K
  BY <1>4, BufferContents
<1>6. held' = IF Len(q) < K THEN Append(q, power) ELSE Append(Tail(q), power)
  <2>. HIDE DEF q
  <2>1. RenderBuffer!ContentsOf(RenderBuffer!Pushed(b, power)) =
          IF Len(q) < K THEN Append(q, power) ELSE Append(Tail(q), power)
    BY <1>4, BufferPush
  <2>. QED
    BY <1>1, <2>1, NewlyHeld
<1>. HIDE DEF q
<1>7. held' = Append(IF Len(q) = K THEN Tail(q) ELSE q, power)
  <2>1. CASE Len(q) = K
    BY <1>6, <2>1, Sizes
  <2>2. CASE Len(q) # K
    <3>1. Len(q) < K
      BY <1>5, <2>2, Sizes
    <3>. QED
      BY <1>6, <2>2, <3>1
  <2>. QED
    BY <2>1, <2>2
<1>8. held' = Queue!Enqueued(q, power)
  BY <1>7 DEF Queue!Enqueued, K
<1>. QED
  BY <1>1, <1>2, <1>3, <1>8 DEF Queue!Render, held, q

LEMMA IgnoredIsNothing ==
  ASSUME QueueInv, IgnoreCapture
  PROVE  Queue!CaptureNothing
<1>1. Flushed \in RenderBuffer!Buffers /\ RenderBuffer!Size(Flushed) = 0
  BY EmptyBuffer DEF Flushed, QueueInv, QueueTypes, IgnoreCapture
<1>2. /\ RenderBuffer!PopResult(Flushed) = NoValue
      /\ RenderBuffer!Popped(Flushed) = Flushed
      /\ RenderBuffer!ContentsOf(Flushed) = <<>>
  BY <1>1, BufferPop, BufferContents
<1>3. /\ render_buffer' = Flushed /\ buffered_render_power' = NoValue
      /\ first_process_call' = FALSE
      /\ UNCHANGED frames_since_zero_buffer_size
  BY <1>2 DEF IgnoreCapture, TakeRenderPower
<1>4. held' = <<>>
  BY <1>2, <1>3, NewlyHeld
<1>5. first_process_call \/ held = <<>>
  BY <1>2 DEF Flushed, held
<1>. QED
  BY <1>3, <1>4, <1>5 DEF Queue!CaptureNothing, held

LEMMA CaptureIsOldest ==
  ASSUME QueueInv, RenderBuffer!Size(Flushed) # 0, TakeRenderPower
  PROVE  Queue!CaptureOldest
BY CaptureTakesOldest, Zenon DEF Queue!CaptureOldest, held, QueueInv, QueueTypes

\* The render side promises its capture side a RenderQueue, for every size of the
\* buffer and in every order of the calls.
THEOREM ImplementsRenderQueue == SessionSpec => QueueSpec
<1>1. SessionInit => Queue!Init
  BY EmptyBuffer DEF SessionInit, Init, Queue!Init
<1>2. QueueInv /\ [SessionNext]_sessionVars => [Queue!Next]_(Queue!vars)
  <2> SUFFICES ASSUME QueueInv, [SessionNext]_sessionVars
               PROVE  Queue!Next \/ UNCHANGED Queue!vars
    OBVIOUS
  <2>1. CASE RenderNext
    <3>1. rendered' \in Powers /\ AnalyzeRenderAudio(rendered')
      BY <2>1, Sizes, BoundsAssumption DEF RenderNext, QueueInv, QueueTypes
    <3>. QED
      BY <3>1, RenderIsQueued DEF Queue!Next
  <2>2. CASE CaptureIgnored
    <3>1. Queue!CaptureNothing
      BY <2>2, IgnoredIsNothing DEF CaptureIgnored
    <3>. QED
      BY <3>1 DEF Queue!Next
  <2>3. ASSUME NEW correlation \in Measured, CaptureNext(correlation)
        PROVE  Queue!Next
    <3>1. Queue!CaptureOldest
      BY <2>3, CaptureIsOldest DEF CaptureNext, AnalyzeCaptureAudio
    <3>. QED
      BY <3>1 DEF Queue!Next
  <2>4. CASE Reinitialize
    <3>1. /\ render_buffer' = RenderBuffer!Empty
          /\ UNCHANGED <<first_process_call, frames_since_zero_buffer_size,
                         buffered_render_power>>
      BY <2>4 DEF Reinitialize, Initialize
    <3>2. held' = <<>>
      BY <3>1, NewlyHeld, EmptyBuffer
    <3>3. Queue!Initialize
      BY <3>1, <3>2 DEF Queue!Initialize, held
    <3>. QED
      BY <3>3 DEF Queue!Next
  <2>5. CASE SetReliability \/ UNCHANGED sessionVars
    <3>1. UNCHANGED <<render_buffer, frames_since_zero_buffer_size, first_process_call,
                      buffered_render_power>>
      BY <2>5 DEF SetReliability, SetReliabilityForTest, sessionVars, vars, renderSide
    <3>2. held' = held
      BY <3>1, NewlyHeld DEF held
    <3>. QED
      BY <3>1, <3>2 DEF Queue!vars, held
  <2>. QED
    BY <2>1, <2>2, <2>3, <2>4, <2>5 DEF SessionNext
<1>. QED
  BY <1>1, <1>2, QueueInvHolds, PTL DEF SessionSpec, QueueSpec, Queue!Spec

-------------------------------------------------------------------------------
\* Slots behind the insertion index, through its wrap.
LEMMA SlotAtIs ==
  ASSUME NEW i \in Delays, NEW d \in 0 .. L
  PROVE  SlotAt(i, d) = IF d <= i THEN i - d ELSE L + i - d
<1> DEFINE n == L + i - d
<1>1. n \in 0 .. 2 * L - 1
  BY Sizes DEF Delays, L
<1>2. n % L = IF n < L THEN n ELSE n - L
  <2> HIDE DEF n
  <2>. QED
    BY <1>1, Sizes
<1>. QED
  BY <1>2, Sizes DEF SlotAt, Delays, L

LEMMA SlotsAge ==
  ASSUME NEW i \in Delays, NEW d \in Delays
  PROVE  /\ SlotAt(i, d) \in Delays /\ SlotAt(i, d + 1) \in Delays
         /\ SlotAt(i, 0) = i
         /\ d # 0 => SlotAt(i, d) # i
         /\ NextSlot(i) \in Delays
         /\ SlotAt(NextSlot(i), d + 1) = SlotAt(i, d)
<1> DEFINE j == NextSlot(i)
           D == 0 .. L - 1
<1>1. d \in 0 .. L /\ d + 1 \in 0 .. L /\ 0 \in 0 .. L /\ i \in D /\ d \in D /\ Delays = D
  BY Sizes DEF Delays, L
<1>2. j = (IF i < L - 1 THEN i + 1 ELSE 0) /\ j \in D
  BY Sizes DEF NextSlot, Delays, L
<1>. HIDE DEF j
<1>3. /\ SlotAt(i, 0) = IF 0 <= i THEN i - 0 ELSE L + i - 0
      /\ SlotAt(i, d) = IF d <= i THEN i - d ELSE L + i - d
      /\ SlotAt(i, d + 1) = IF d + 1 <= i THEN i - (d + 1) ELSE L + i - (d + 1)
      /\ SlotAt(j, d + 1) = IF d + 1 <= j THEN j - (d + 1) ELSE L + j - (d + 1)
  BY <1>1, <1>2, SlotAtIs
<1>4. SlotAt(i, d) \in D /\ SlotAt(i, d + 1) \in D /\ SlotAt(i, 0) = i
  BY <1>1, <1>3, Sizes
<1>5. d # 0 => SlotAt(i, d) # i
  BY <1>1, <1>3, Sizes
<1>6. SlotAt(j, d + 1) = SlotAt(i, d)
  BY <1>1, <1>2, <1>3, Sizes
<1>. QED
  BY <1>1, <1>2, <1>4, <1>5, <1>6 DEF j

-------------------------------------------------------------------------------
\* The capture side: the slots hold the frames of the latest pairs since Initialize.
CovarianceArguments ==
  [capture : Powers, capture_statistic : Nat, render : SlotsOfFrames]

SlotTypes ==
  /\ next_insertion_index \in Delays
  /\ slots \in [Delays -> SlotsOfFrames]
  /\ covariances \in [Delays -> CovarianceArguments]
  /\ render_statistics = Len(pairs) - start
  /\ capture_statistics = Len(pairs) - start

SlotsAreHistory ==
  \A d \in Delays : slots[SlotAt(next_insertion_index, d + 1)] = FrameBefore(d)

SlotInv == SlotTypes /\ SlotsAreHistory /\ LagAlignment

\* One more pair since Initialize.
LEMMA FramesMoveBack ==
  ASSUME QueueInv, NEW p \in PairRecords, pairs' = Append(pairs, p), UNCHANGED start
  PROVE  /\ FrameBefore(0)' = [power |-> p.render, statistic |-> Len(pairs) + 1 - start]
         /\ \A k \in Delays : k # 0 => FrameBefore(k)' = FrameBefore(k - 1)
<1> DEFINE n == Len(pairs)
           after == pairs'
<1>1. n \in Nat /\ start \in 0 .. n /\ start' = start
  BY DEF QueueInv, QueueTypes
<1>2. /\ Len(after) = n + 1 /\ after[n + 1] = p
      /\ \A i \in 1 .. n : after[i] = pairs[i]
  BY <1>1, AppendProperties DEF QueueInv, QueueTypes
<1>3. ASSUME NEW k \in Nat
      PROVE  /\ FrameBefore(k)' =
                  IF start + k < n + 1
                  THEN [power |-> after[n + 1 - k].render, statistic |-> n + 1 - k - start]
                  ELSE ZeroSlot
             /\ FrameBefore(k) =
                  IF start + k < n
                  THEN [power |-> pairs[n - k].render, statistic |-> n - k - start]
                  ELSE ZeroSlot
  <2>1. FrameBefore(k)' =
          IF start' + k < Len(after)
          THEN [power |-> after[Len(after) - k].render, statistic |-> Len(after) - k - start']
          ELSE ZeroSlot
    BY DEF FrameBefore, ZeroSlot
  <2>. HIDE DEF after
  <2>2. FrameBefore(k)' =
          IF start + k < n + 1
          THEN [power |-> after[n + 1 - k].render, statistic |-> n + 1 - k - start]
          ELSE ZeroSlot
    BY <1>1, <1>2, <2>1
  <2>. QED
    BY <2>2 DEF FrameBefore
<1>. HIDE DEF n, after
<1>4. FrameBefore(0)' = [power |-> p.render, statistic |-> n + 1 - start]
  <2>1. start + 0 < n + 1 /\ n + 1 - 0 = n + 1
    BY <1>1
  <2>. QED
    BY <1>2, <1>3, <2>1
<1>5. ASSUME NEW k \in Delays, k # 0
      PROVE  FrameBefore(k)' = FrameBefore(k - 1)
  <2>1. k \in Nat /\ k - 1 \in Nat
    BY <1>5, Sizes DEF Delays
  <2>2. start + k < n + 1 <=> start + (k - 1) < n
    BY <1>1, <2>1
  <2>3. n + 1 - k = n - (k - 1)
    BY <1>1, <2>1
  <2>4. CASE start + k < n + 1
    <3>1. n - (k - 1) \in 1 .. n
      BY <1>1, <2>1, <2>4, <1>5
    <3>2. after[n + 1 - k] = pairs[n - (k - 1)]
      BY <1>2, <2>3, <3>1
    <3>3. /\ FrameBefore(k)' = [power |-> after[n + 1 - k].render,
                                statistic |-> n + 1 - k - start]
          /\ FrameBefore(k - 1) = [power |-> pairs[n - (k - 1)].render,
                                   statistic |-> n - (k - 1) - start]
      BY <1>3, <2>1, <2>2, <2>4
    <3>4. n + 1 - k - start = n - (k - 1) - start
      BY <1>1, <2>1
    <3>. QED
      BY <3>2, <3>3, <3>4
  <2>5. CASE ~ (start + k < n + 1)
    BY <1>3, <2>1, <2>2, <2>5
  <2>. QED
    BY <2>4, <2>5
<1>. QED
  BY <1>4, <1>5 DEF n

LEMMA CaptureKeepsSlots ==
  ASSUME QueueInv, SlotInv, NEW correlation, CaptureNext(correlation)
  PROVE  SlotInv'
<1> DEFINE p == [render |-> buffered_render_power', capture |-> captured']
           i == next_insertion_index
           n == Len(pairs)
           new == [power |-> buffered_render_power', statistic |-> render_statistics']
<1>1. /\ captured' = captured + 1 /\ captured < MaxCaptures
      /\ RenderBuffer!Size(Flushed) # 0 /\ TakeRenderPower
      /\ UpdateStatistics(captured')
      /\ pairs' = Append(pairs, p)
      /\ UNCHANGED start
  BY DEF CaptureNext, AnalyzeCaptureAudio
<1>2. buffered_render_power' \in Powers /\ captured' \in Powers /\ p \in PairRecords
  <2>1. buffered_render_power' \in Powers
    BY <1>1, CaptureTakesOldest
  <2>2. captured' \in Powers
    BY <1>1, QueueNumbers, BoundsAssumption, Sizes
  <2>. QED
    BY <2>1, <2>2 DEF PairRecords
<1>3. /\ n \in Nat /\ start \in 0 .. n /\ i \in Delays
      /\ slots \in [Delays -> SlotsOfFrames]
      /\ render_statistics = n - start /\ capture_statistics = n - start
      /\ pairs \in Seq(PairRecords)
  BY QueueNumbers DEF QueueInv, QueueTypes, SlotInv, SlotTypes
<1>4. Len(pairs') = n + 1 /\ pairs'[n + 1] = p /\ start' = start
  BY <1>1, <1>2, <1>3, AppendProperties
<1>5. /\ render_statistics' = n + 1 - start /\ capture_statistics' = n + 1 - start
      /\ n + 1 - start \in Nat
      /\ slots' = [slots EXCEPT ![i] = new]
      /\ covariances' = [d \in Delays |->
           [capture |-> captured', capture_statistic |-> capture_statistics',
            render |-> slots'[SlotAt(i, d)]]]
      /\ next_insertion_index' = NextSlot(i)
  BY <1>1, <1>3 DEF UpdateStatistics
<1>6. new \in SlotsOfFrames /\ slots' \in [Delays -> SlotsOfFrames]
  BY <1>2, <1>3, <1>5 DEF SlotsOfFrames
<1>7. ASSUME NEW d \in Delays
      PROVE  slots'[SlotAt(i, d)] = FrameBefore(d)' /\ SlotAt(i, d) \in Delays
  <2>0. SlotAt(i, d) \in Delays
    BY <1>3, SlotsAge
  <2>1. CASE d = 0
    <3>1. SlotAt(i, d) = i
      BY <2>1, <1>3, SlotsAge
    <3>2. FrameBefore(0)' = [power |-> buffered_render_power', statistic |-> n + 1 - start]
      BY <1>1, <1>2, FramesMoveBack
    <3>. QED
      BY <1>3, <1>5, <2>0, <2>1, <3>1, <3>2
  <2>2. CASE d # 0
    <3>1. d - 1 \in Delays /\ (d - 1) + 1 = d
      BY <2>2, Sizes DEF Delays, L
    <3>2. SlotAt(i, d) # i
      BY <2>2, <1>3, SlotsAge
    <3>3. slots'[SlotAt(i, d)] = slots[SlotAt(i, d)]
      <4>. HIDE DEF new
      <4>. QED
        BY <1>3, <1>5, <2>0, <3>2
    <3>4. slots[SlotAt(i, (d - 1) + 1)] = FrameBefore(d - 1)
      BY <3>1 DEF SlotInv, SlotsAreHistory
    <3>5. FrameBefore(d)' = FrameBefore(d - 1)
      BY <1>1, <1>2, <2>2, FramesMoveBack
    <3>. QED
      BY <2>0, <3>1, <3>3, <3>4, <3>5
  <2>. QED
    BY <2>1, <2>2
<1>. HIDE DEF new
<1>8. SlotsAreHistory'
  <2>1. ASSUME NEW d \in Delays
        PROVE  slots'[SlotAt(next_insertion_index', d + 1)] = FrameBefore(d)'
    BY <1>3, <1>5, <1>7, SlotsAge
  <2>. QED
    BY <2>1 DEF SlotsAreHistory, SlotAt
<1>9. LagAlignment'
  <2>1. ASSUME NEW d \in Delays
        PROVE  covariances'[d] =
                 [capture |-> pairs'[Len(pairs')].capture,
                  capture_statistic |-> Len(pairs') - start', render |-> FrameBefore(d)']
    <3>1. /\ covariances'[d] = [capture |-> captured', capture_statistic |-> capture_statistics',
                                render |-> slots'[SlotAt(i, d)]]
          /\ slots'[SlotAt(i, d)] = FrameBefore(d)'
      BY <1>5, <1>7
    <3>2. pairs'[Len(pairs')].capture = captured' /\ start' = start
          /\ capture_statistics' = Len(pairs') - start'
      BY <1>3, <1>4, <1>5
    <3>. QED
      BY <3>1, <3>2, Zenon
  <2>. QED
    BY <2>1 DEF LagAlignment
<1>10. covariances' \in [Delays -> CovarianceArguments]
  <2>1. ASSUME NEW d \in Delays
        PROVE  [capture |-> captured', capture_statistic |-> capture_statistics',
                render |-> slots'[SlotAt(i, d)]] \in CovarianceArguments
    <3>1. slots'[SlotAt(i, d)] \in SlotsOfFrames
      BY <1>6, <1>7
    <3>. QED
      BY <1>2, <1>5, <3>1 DEF CovarianceArguments
  <2>. QED
    BY <1>5, <2>1
<1>11. SlotTypes'
  <2>1. next_insertion_index' \in Delays
    BY <1>3, <1>5, SlotsAge
  <2>2. /\ render_statistics' = Len(pairs') - start'
        /\ capture_statistics' = Len(pairs') - start'
    BY <1>3, <1>4, <1>5
  <2>. QED
    BY <1>6, <1>10, <2>1, <2>2 DEF SlotTypes
<1>. QED
  BY <1>8, <1>9, <1>11 DEF SlotInv

\* The steps that make no pair.
LEMMA UntouchedSlots ==
  ASSUME SlotInv, UNCHANGED <<statistics, pairs, start>>
  PROVE  SlotInv'
<1>1. UNCHANGED <<slots, next_insertion_index, render_statistics, capture_statistics,
                  covariances, pairs, start>>
  BY DEF statistics
<1>2. \A k : FrameBefore(k)' = FrameBefore(k)
  BY <1>1 DEF FrameBefore, ZeroSlot
<1>3. SlotTypes'
  BY <1>1 DEF SlotInv, SlotTypes
<1>4. SlotsAreHistory'
  BY <1>1, <1>2 DEF SlotInv, SlotsAreHistory, SlotAt
<1>5. LagAlignment'
  BY <1>1, <1>2 DEF SlotInv, LagAlignment
<1>. QED
  BY <1>3, <1>4, <1>5 DEF SlotInv

\* Nothing is in the slots before the first pair.
LEMMA NothingBefore ==
  ASSUME Len(pairs) \in Nat, start = Len(pairs), NEW k \in Nat
  PROVE  FrameBefore(k) = ZeroSlot
BY DEF FrameBefore

LEMMA ReinitializeKeepsSlots ==
  ASSUME QueueInv, Reinitialize
  PROVE  SlotInv'
<1>1. /\ slots' = [i \in Delays |-> ZeroSlot] /\ next_insertion_index' = 0
      /\ render_statistics' = 0 /\ capture_statistics' = 0
      /\ covariances' = [d \in Delays |-> ClearedCovariance]
      /\ start' = Len(pairs) /\ pairs' = pairs /\ Len(pairs) \in Nat
  BY QueueNumbers DEF Reinitialize, Initialize, ClearStatistics
<1>2. 0 \in Delays
  BY Sizes DEF Delays, L
<1>3. ZeroSlot \in SlotsOfFrames /\ ClearedCovariance \in CovarianceArguments
  BY Sizes DEF ZeroSlot, SlotsOfFrames, ClearedCovariance, CovarianceArguments
<1>4. SlotTypes'
  BY <1>1, <1>2, <1>3 DEF SlotTypes
<1>5. ASSUME NEW d \in Delays PROVE FrameBefore(d)' = ZeroSlot
  <2>1. FrameBefore(d)' = IF start' + d < Len(pairs')
                          THEN [power |-> pairs'[Len(pairs') - d].render,
                                statistic |-> Len(pairs') - d - start']
                          ELSE ZeroSlot
    BY DEF FrameBefore, ZeroSlot
  <2>2. ~ (start' + d < Len(pairs'))
    BY <1>1 DEF Delays
  <2>. QED
    BY <2>1, <2>2
<1>6. SlotsAreHistory'
  <2>1. ASSUME NEW d \in Delays
        PROVE  slots'[SlotAt(next_insertion_index', d + 1)] = FrameBefore(d)'
    BY <1>1, <1>2, <1>5, SlotsAge
  <2>. QED
    BY <2>1 DEF SlotsAreHistory, SlotAt
<1>7. LagAlignment'
  BY <1>1 DEF LagAlignment
<1>. QED
  BY <1>4, <1>6, <1>7 DEF SlotInv

LEMMA SlotInvHolds == SessionSpec => []SlotInv
<1>1. SessionInit => SlotInv
  <2> SUFFICES ASSUME SessionInit PROVE SlotInv
    OBVIOUS
  <2>1. /\ slots = [i \in Delays |-> ZeroSlot] /\ next_insertion_index = 0
        /\ render_statistics = 0 /\ capture_statistics = 0
        /\ covariances = [d \in Delays |-> ClearedCovariance]
        /\ start = 0 /\ pairs = <<>> /\ Len(pairs) = 0
    BY DEF SessionInit, Init
  <2>2. 0 \in Delays
    BY Sizes DEF Delays, L
  <2>3. ZeroSlot \in SlotsOfFrames /\ ClearedCovariance \in CovarianceArguments
    BY Sizes DEF ZeroSlot, SlotsOfFrames, ClearedCovariance, CovarianceArguments
  <2>4. SlotTypes
    BY <2>1, <2>2, <2>3 DEF SlotTypes
  <2>5. \A d \in Delays : FrameBefore(d) = ZeroSlot
    BY <2>1, NothingBefore DEF Delays
  <2>6. SlotsAreHistory
    BY <2>1, <2>2, <2>5, SlotsAge DEF SlotsAreHistory
  <2>7. LagAlignment
    BY <2>1 DEF LagAlignment
  <2>. QED
    BY <2>4, <2>6, <2>7 DEF SlotInv
<1>2. QueueInv /\ SlotInv /\ [SessionNext]_sessionVars => SlotInv'
  <2> SUFFICES ASSUME QueueInv, SlotInv, [SessionNext]_sessionVars PROVE SlotInv'
    OBVIOUS
  <2>1. CASE RenderNext
    BY <2>1, UntouchedSlots DEF RenderNext, AnalyzeRenderAudio
  <2>2. CASE CaptureIgnored
    BY <2>2, UntouchedSlots DEF CaptureIgnored, IgnoreCapture
  <2>3. ASSUME NEW correlation \in Measured, CaptureNext(correlation) PROVE SlotInv'
    BY <2>3, CaptureKeepsSlots
  <2>4. CASE Reinitialize
    BY <2>4, ReinitializeKeepsSlots
  <2>5. CASE SetReliability
    BY <2>5, UntouchedSlots DEF SetReliability, SetReliabilityForTest, history
  <2>6. CASE UNCHANGED sessionVars
    BY <2>6, UntouchedSlots DEF sessionVars, vars, history
  <2>. QED
    BY <2>1, <2>2, <2>3, <2>4, <2>5, <2>6 DEF SessionNext
<1>. QED
  BY <1>1, <1>2, QueueInvHolds, PTL DEF SessionSpec

\* Whatever has been dropped, ignored or initialised, and however often the insertion
\* index has wrapped, delay d compares frames d processed frames apart.
THEOREM DelaysAreAligned == SessionSpec => []LagAlignment
<1>1. SlotInv => LagAlignment
  BY DEF SlotInv
<1>. QED
  BY <1>1, SlotInvHolds, PTL

-------------------------------------------------------------------------------
\* The metrics.
MetricsInv ==
  /\ recent_likelihood_max \in RecentMax!Objects
  /\ loudest \in Nat
  /\ echo_likelihood \in 0 .. One
  /\ reliability \in 0 .. One
  /\ log_counter \in 0 .. MaxLogs
  /\ MetricsConsistent

\* The moving average of one does not leave 0 .. One.
LEMMA ReliabilityBounded ==
  ASSUME NEW r \in 0 .. One
  PROVE  ((AlphaDen - 1) * r + One) \div AlphaDen \in 0 .. One
<1> DEFINE a == AlphaDen - 1
           n == a * r + One
           q == n \div AlphaDen
<1>1. a \in Nat /\ AlphaDen = a + 1 /\ One \in Nat /\ r \in Nat /\ One - r \in Nat
  BY ScaleAssumption
<1>. HIDE DEF a
<1>2. a * r \in Nat /\ a * One \in Nat /\ a * r <= a * One
  <2>1. a * (One - r) \in Nat /\ a * (One - r) = a * One - a * r
    BY <1>1
  <2>2. a * r \in Nat /\ a * One \in Nat
    BY <1>1
  <2>. QED
    BY <2>1, <2>2
<1>3. n \in Nat /\ n <= AlphaDen * One
  <2>1. AlphaDen * One = a * One + One
    BY <1>1
  <2>. QED
    BY <1>1, <1>2, <2>1
<1>. HIDE DEF n
<1>4. q \in Nat /\ q * AlphaDen <= n
  BY <1>3, ScaleAssumption
<1>. HIDE DEF q
<1>5. q <= One
  <2> SUFFICES ASSUME q >= One + 1 PROVE FALSE
    BY <1>1, <1>4
  <2>1. (q - (One + 1)) * AlphaDen \in Nat
    BY <1>1, <1>4, ScaleAssumption
  <2>2. (q - (One + 1)) * AlphaDen = q * AlphaDen - (AlphaDen * One + AlphaDen)
    BY <1>1, <1>4, ScaleAssumption
  <2>3. q * AlphaDen \in Nat /\ AlphaDen * One \in Nat
    BY <1>1, <1>4, ScaleAssumption
  <2>. QED
    BY <1>3, <1>4, <2>1, <2>2, <2>3, ScaleAssumption
<1>. QED
  BY <1>1, <1>4, <1>5 DEF q, n, a

LEMMA PeakIsNatural ==
  ASSUME NEW c \in CorrelationVectors, NEW d \in Delays \cup {-1}, IsPeak(c, d)
  PROVE  PeakValue(c, d) \in Nat
<1>1. CASE d = -1
  BY <1>1 DEF PeakValue
<1>2. CASE d # -1
  <2>1. d \in Delays /\ c[d] \in Correlations \cup {NaN} /\ Exceeds(c[d], 0)
    BY <1>2 DEF IsPeak, CorrelationVectors
  <2>2. c[d] \in Int /\ c[d] > 0
    BY <2>1, CorrelationsAssumption DEF Exceeds
  <2>. QED
    BY <1>2, <2>2 DEF PeakValue
<1>. QED
  BY <1>1, <1>2

\* The limited likelihood is what the recent maximum is updated with.
LEMMA ReportKeepsMetrics ==
  ASSUME MetricsInv, NEW likelihood \in Nat, Reported(likelihood)
  PROVE  /\ echo_likelihood' \in 0 .. One
         /\ recent_likelihood_max' \in RecentMax!Objects
         /\ loudest' \in Nat
         /\ MetricsConsistent'
         /\ RecentMax!Update(echo_likelihood')
<1> DEFINE e == echo_likelihood'
           m == recent_likelihood_max
<1>1. /\ e = (IF likelihood < One THEN likelihood ELSE One)
      /\ recent_likelihood_max' = RecentMax!Updated(m, e)
      /\ loudest' = IF e > loudest THEN e ELSE loudest
  BY DEF Reported
<1>2. e \in 0 .. One /\ e \in Nat /\ One \in Nat
  BY <1>1, ScaleAssumption
<1>3. m \in MaxLemmas!Objects /\ m.max_value <= One
  BY DEF MetricsInv, MetricsConsistent, GetMetrics, RecentMax!Objects, MaxLemmas!Objects
<1>. HIDE DEF e
<1>4. /\ MaxLemmas!Updated(m, e) \in MaxLemmas!Objects
      /\ e <= MaxLemmas!Updated(m, e).max_value
      /\ \/ MaxLemmas!Updated(m, e).max_value <= m.max_value
         \/ MaxLemmas!Updated(m, e).max_value = e
  BY <1>2, <1>3, MaxAssumptions, MaxLemmas!UpdateBounds
<1>5. MaxLemmas!Updated(m, e) = RecentMax!Updated(m, e)
  BY DEF MaxLemmas!Updated, MaxLemmas!Aged, MaxLemmas!Decayed,
         RecentMax!Updated, RecentMax!Aged, RecentMax!Decayed
<1>6. recent_likelihood_max' \in RecentMax!Objects
  BY <1>1, <1>4, <1>5 DEF RecentMax!Objects, MaxLemmas!Objects
<1>7. e <= recent_likelihood_max'.max_value /\ recent_likelihood_max'.max_value <= One
  <2>1. m.max_value \in Nat /\ recent_likelihood_max'.max_value \in Nat
    BY <1>3, <1>6 DEF RecentMax!Objects, MaxLemmas!Objects
  <2>. QED
    BY <1>1, <1>2, <1>3, <1>4, <1>5, <2>1
<1>8. loudest' \in Nat
  BY <1>1, <1>2 DEF MetricsInv
<1>9. MetricsConsistent'
  BY <1>7 DEF MetricsConsistent, GetMetrics, e
<1>. QED
  BY <1>1, <1>2, <1>6, <1>8, <1>9 DEF RecentMax!Update, e

LEMMA CaptureKeepsMetrics ==
  ASSUME MetricsInv, NEW correlation \in CorrelationVectors, CaptureNext(correlation)
  PROVE  MetricsInv' /\ RecentMax!Update(echo_likelihood') /\ echo_likelihood' \in 0 .. One
<1>1. PICK d \in Delays \cup {-1} :
        /\ IsPeak(correlation, d)
        /\ LogIfTooLarge(PeakValue(correlation, d), d)
        /\ Reported(Likelihood(PeakValue(correlation, d)))
  BY DEF CaptureNext, AnalyzeCaptureAudio
<1>2. reliability' \in 0 .. One
  <2>1. reliability' = ((AlphaDen - 1) * reliability + One) \div AlphaDen
    BY DEF CaptureNext, AnalyzeCaptureAudio
  <2>2. reliability \in 0 .. One
    BY DEF MetricsInv
  <2>. QED
    BY <2>1, <2>2, ReliabilityBounded
<1> DEFINE peak == PeakValue(correlation, d)
<1>3. peak \in Nat
  BY <1>1, PeakIsNatural
<1>4. Likelihood(peak) \in Nat
  <2>. HIDE DEF peak
  <2>1. \A x, y \in Nat : x * y \in Nat
    OBVIOUS
  <2>2. reliability' \in Nat
    BY <1>2, ScaleAssumption
  <2>3. peak * reliability' \in Nat
    BY <1>3, <2>1, <2>2
  <2>. QED
    BY <2>3, ScaleAssumption DEF Likelihood
<1>5. log_counter' \in 0 .. MaxLogs
  BY <1>1, ScaleAssumption DEF LogIfTooLarge, MetricsInv
<1>. HIDE DEF peak
<1>6. Reported(Likelihood(peak))
  BY <1>1 DEF peak
<1>7. /\ echo_likelihood' \in 0 .. One
      /\ recent_likelihood_max' \in RecentMax!Objects
      /\ loudest' \in Nat /\ MetricsConsistent'
      /\ RecentMax!Update(echo_likelihood')
  BY <1>4, <1>6, ReportKeepsMetrics
<1>. QED
  BY <1>2, <1>5, <1>7 DEF MetricsInv, RecentMax!Objects

LEMMA UntouchedMetrics ==
  ASSUME MetricsInv, reliability' \in 0 .. One,
         UNCHANGED <<recent_likelihood_max, loudest, echo_likelihood, log_counter>>
  PROVE  MetricsInv' /\ UNCHANGED RecentMax!vars
BY DEF MetricsInv, MetricsConsistent, GetMetrics, RecentMax!Objects, RecentMax!vars

LEMMA ReinitializeKeepsMetrics ==
  ASSUME MetricsInv, Reinitialize
  PROVE  MetricsInv' /\ RecentMax!Clear
<1>1. /\ recent_likelihood_max' = RecentMax!Cleared /\ loudest' = 0
      /\ echo_likelihood' = 0 /\ reliability' = 0 /\ UNCHANGED log_counter
  BY DEF Reinitialize, Initialize, output
<1>2. RecentMax!Cleared \in RecentMax!Objects /\ RecentMax!Cleared.max_value = 0
  BY SizesAssumption DEF RecentMax!Cleared, RecentMax!Objects
<1>3. MetricsConsistent'
  BY <1>1, <1>2, ScaleAssumption DEF MetricsConsistent, GetMetrics
<1>4. recent_likelihood_max' \in RecentMax!Objects
  BY <1>1, <1>2
<1>. QED
  BY <1>1, <1>3, <1>4, ScaleAssumption DEF MetricsInv, RecentMax!Objects, RecentMax!Clear

\* Every step of the session, for the metrics and for their recent maximum.
LEMMA MetricsStep ==
  ASSUME MetricsInv, [SessionNext]_sessionVars
  PROVE  MetricsInv' /\ (RecentMax!Next \/ UNCHANGED RecentMax!vars)
<1>0. reliability \in 0 .. One /\ One \in 0 .. One
  BY ScaleAssumption DEF MetricsInv
<1>1. CASE RenderNext
  BY <1>0, <1>1, UntouchedMetrics DEF RenderNext, AnalyzeRenderAudio, metrics, output
<1>2. CASE CaptureIgnored
  BY <1>0, <1>2, UntouchedMetrics DEF CaptureIgnored, IgnoreCapture, metrics, output
<1>3. ASSUME NEW correlation \in Measured, CaptureNext(correlation)
      PROVE  MetricsInv' /\ RecentMax!Next
  <2>1. correlation \in CorrelationVectors
    BY MeasuredAssumption
  <2>. QED
    BY <1>3, <2>1, CaptureKeepsMetrics DEF RecentMax!Next
<1>4. CASE Reinitialize
  BY <1>4, ReinitializeKeepsMetrics DEF RecentMax!Next
<1>5. CASE SetReliability
  BY <1>0, <1>5, UntouchedMetrics DEF SetReliability, SetReliabilityForTest, output
<1>6. CASE UNCHANGED sessionVars
  BY <1>0, <1>6, UntouchedMetrics DEF sessionVars, vars, metrics, output
<1>. QED
  BY <1>1, <1>2, <1>3, <1>4, <1>5, <1>6 DEF SessionNext

LEMMA MetricsBegin == SessionInit => MetricsInv /\ RecentMax!Init
<1> SUFFICES ASSUME SessionInit PROVE MetricsInv /\ RecentMax!Init
  OBVIOUS
<1>1. /\ recent_likelihood_max = RecentMax!Cleared /\ loudest = 0
      /\ echo_likelihood = 0 /\ reliability = 0 /\ log_counter = 0
  BY DEF SessionInit, Init
<1>2. RecentMax!Cleared \in RecentMax!Objects /\ RecentMax!Cleared.max_value = 0
  BY SizesAssumption DEF RecentMax!Cleared, RecentMax!Objects
<1>3. MetricsConsistent
  BY <1>1, <1>2, ScaleAssumption DEF MetricsConsistent, GetMetrics
<1>. QED
  BY <1>1, <1>2, <1>3, ScaleAssumption DEF MetricsInv, RecentMax!Init

LEMMA MetricsInvHolds == SessionSpec => []MetricsInv
BY MetricsBegin, MetricsStep, PTL DEF SessionSpec

\* The likelihood is at most its recent maximum and that at most one, in any unit, for
\* every decay and window and every vector of correlations, NaN among them.
THEOREM MetricsAreConsistent == SessionSpec => []MetricsConsistent
<1>1. MetricsInv => MetricsConsistent
  BY DEF MetricsInv
<1>. QED
  BY <1>1, MetricsInvHolds, PTL

\* The recent maximum is a MovingMax of the reported likelihoods: one update for each
\* processed capture, one Clear for each Initialize, and nothing else.
THEOREM ImplementsMovingMax == SessionSpec => RecentMaxSpec
<1>1. MetricsInv /\ [SessionNext]_sessionVars => [RecentMax!Next]_(RecentMax!vars)
  BY MetricsStep
<1>. QED
  BY <1>1, MetricsBegin, MetricsInvHolds, PTL DEF SessionSpec, RecentMaxSpec, RecentMax!Spec

-------------------------------------------------------------------------------
\* The histogram, which outlives Initialize.  That it never refuses a bucket needs the
\* range of the percentages.
IsHistogram(h) == DOMAIN h \subseteq 0 .. 100 /\ h \in [DOMAIN h -> Nat]

HistogramInv ==
  IsHistogram(echo_likelihood_histogram) /\ HistogramCountsCaptures

LEMMA SameHistogram ==
  ASSUME NEW h
  PROVE  /\ Histogram!NumSamples(h) = HistogramLemmas!NumSamples(h)
         /\ \A b : Histogram!Counted(h, b) = HistogramLemmas!Counted(h, b)
<1>1. Histogram!NumSamples(h) = HistogramLemmas!NumSamples(h)
  BY DEF Histogram!NumSamples, Histogram!SumFunction, Histogram!SumFunctionOnSet,
         Histogram!FoldFunctionOnSet, Histogram!MapThenFoldSet,
         HistogramLemmas!NumSamples, HistogramLemmas!SumFunction,
         HistogramLemmas!SumFunctionOnSet, HistogramLemmas!FoldFunctionOnSet,
         HistogramLemmas!MapThenFoldSet
<1>2. \A b : Histogram!Counted(h, b) = HistogramLemmas!Counted(h, b)
  BY DEF Histogram!Counted, Histogram!NumEvents,
         HistogramLemmas!Counted, HistogramLemmas!NumEvents
<1>. QED
  BY <1>1, <1>2

LEMMA PercentageInRange ==
  ASSUME NEW e \in 0 .. One
  PROVE  Percentage(e) \in 0 .. 100
<1> DEFINE n == e * 100
           q == n \div One
<1>1. One \in Nat /\ One > 0 /\ n \in Nat /\ n <= One * 100
  BY ScaleAssumption
<1>. HIDE DEF n
<1>2. q \in Nat /\ q * One <= n
  BY <1>1
<1>. HIDE DEF q
<1>3. q <= 100
  <2> SUFFICES ASSUME q >= 101 PROVE FALSE
    BY <1>2
  <2>1. (q - 101) * One \in Nat /\ (q - 101) * One = q * One - 101 * One
    BY <1>1, <1>2
  <2>2. q * One \in Nat
    BY <1>1, <1>2
  <2>. QED
    BY <1>1, <1>2, <2>1, <2>2
<1>. QED
  BY <1>2, <1>3 DEF Percentage, q, n

LEMMA HundredAndOne == IsFiniteSet(0 .. 100) /\ Cardinality(0 .. 100) = 101
<1>1. 0 \in Int /\ 100 \in Int
  OBVIOUS
<1>2. IsFiniteSet(0 .. 100) /\ Cardinality(0 .. 100) = IF 0 > 100 THEN 0 ELSE 100 - 0 + 1
  BY <1>1, FS_Interval, Zenon
<1>. QED
  <2> DEFINE c == Cardinality(0 .. 100)
  <2>. HIDE DEF c
  <2>1. c = IF 0 > 100 THEN 0 ELSE 100 - 0 + 1
    BY <1>2 DEF c
  <2>2. c = 101
    BY <2>1
  <2>. QED
    BY <1>2, <2>2 DEF c

LEMMA Percentages ==
  ASSUME NEW D, D \in SUBSET (0 .. 100)
  PROVE  /\ IsFiniteSet(D) /\ Cardinality(D) \in Nat /\ Cardinality(D) <= 101
         /\ Cardinality(D) = 101 => D = 0 .. 100
<1> DEFINE B == 0 .. 100
<1>1. IsFiniteSet(B) /\ Cardinality(B) = 101 /\ D \in SUBSET B
  BY HundredAndOne
<1>. HIDE DEF B
<1>2. /\ IsFiniteSet(D) /\ Cardinality(D) <= Cardinality(B)
      /\ Cardinality(B) = Cardinality(D) => B = D
  BY <1>1, FS_Subset
<1>3. Cardinality(D) \in Nat
  BY <1>2, FS_CardinalityType
<1>. QED
  BY <1>1, <1>2, <1>3 DEF B

\* There is always room for another percentage.
LEMMA NeverRefused ==
  ASSUME NEW h, IsHistogram(h), NEW b \in 0 .. 100
  PROVE  ~ Histogram!Refuses(h, b)
<1> DEFINE D == DOMAIN h
<1>1. Histogram!Cardinality(D) = Cardinality(D)
  BY DEF Histogram!Cardinality, Cardinality
<1>2. D \in SUBSET (0 .. 100)
  BY DEF IsHistogram
<1>. HIDE DEF D
<1>3. /\ Cardinality(D) \in Nat /\ Cardinality(D) <= 101
      /\ Cardinality(D) = 101 => D = 0 .. 100
  BY <1>2, Percentages
<1>4. b \notin D => Cardinality(D) <= 100
  BY <1>3
<1>. QED
  BY <1>1, <1>3, <1>4, MapSizeAssumption DEF Histogram!Refuses, D

\* A processed capture is one sample more.
LEMMA CaptureKeepsHistogram ==
  ASSUME HistogramInv, QueueInv, echo_likelihood' \in 0 .. One,
         NEW correlation \in Measured, CaptureNext(correlation)
  PROVE  HistogramInv'
<1> DEFINE h == echo_likelihood_histogram
           b == Percentage(echo_likelihood')
<1>1. /\ h' = Histogram!AfterAdd(h, b)
      /\ \E p : pairs' = Append(pairs, p)
  BY DEF CaptureNext, AnalyzeCaptureAudio, Reported
<1>2. Len(pairs') = Len(pairs) + 1
  BY <1>1, QueueInv DEF QueueInv, QueueTypes
<1>3. b \in 0 .. 100
  BY PercentageInRange
<1>. HIDE DEF b
<1>4. IsHistogram(h) /\ Histogram!NumSamples(h) = Len(pairs)
  BY DEF HistogramInv, HistogramCountsCaptures
<1>5. h' = Histogram!Counted(h, b)
  <2>1. Histogram!Clamped(b) = b
    BY <1>3 DEF Histogram!Clamped
  <2>2. ~ Histogram!Refuses(h, b)
    BY <1>3, <1>4, NeverRefused
  <2>. QED
    BY <1>1, <2>1, <2>2 DEF Histogram!AfterAdd
<1> DEFINE D == DOMAIN h
<1>6. D \subseteq 0 .. 100 /\ IsFiniteSet(D) /\ h \in [D -> Nat]
  <2>1. D \in SUBSET (0 .. 100) /\ h \in [D -> Nat]
    BY <1>4 DEF IsHistogram
  <2>. HIDE DEF D, h
  <2>. QED
    BY <2>1, Percentages
<1>. HIDE DEF D, h
<1>7. /\ HistogramLemmas!Counted(h, b) \in [D \cup {b} -> Nat]
      /\ HistogramLemmas!NumSamples(HistogramLemmas!Counted(h, b))
           = HistogramLemmas!NumSamples(h) + 1
  <2>1. HistogramLemmas!IsFiniteSet(D)
    BY <1>6 DEF HistogramLemmas!IsFiniteSet, IsFiniteSet
  <2>. QED
    BY <1>6, <2>1, HistogramAssumptions, HistogramLemmas!OneMore
<1>8. /\ Histogram!Counted(h, b) \in [D \cup {b} -> Nat]
      /\ Histogram!NumSamples(Histogram!Counted(h, b)) = Histogram!NumSamples(h) + 1
  <2>1. Histogram!Counted(h, b) = HistogramLemmas!Counted(h, b)
    BY SameHistogram
  <2>. QED
    BY <1>7, <2>1, SameHistogram
<1>9. DOMAIN h' = D \cup {b} /\ h' \in [DOMAIN h' -> Nat]
      /\ Histogram!NumSamples(h') = Len(pairs')
  BY <1>2, <1>4, <1>5, <1>8
<1>. QED
  BY <1>3, <1>6, <1>9 DEF HistogramInv, IsHistogram, HistogramCountsCaptures, h

LEMMA HistogramInvHolds == SessionSpec => []HistogramInv
<1>1. SessionInit => HistogramInv
  <2> SUFFICES ASSUME SessionInit PROVE HistogramInv
    OBVIOUS
  <2>1. echo_likelihood_histogram = HistogramLemmas!NoSamples /\ pairs = <<>>
    BY DEF SessionInit, Init, Histogram!NoSamples, HistogramLemmas!NoSamples
  <2>2. HistogramLemmas!NumSamples(HistogramLemmas!NoSamples) = 0
    BY HistogramAssumptions, HistogramLemmas!NoneYet
  <2>3. Histogram!NumSamples(echo_likelihood_histogram) = 0
    BY <2>1, <2>2, SameHistogram
  <2>4. IsHistogram(echo_likelihood_histogram)
    BY <2>1 DEF IsHistogram, HistogramLemmas!NoSamples
  <2>. QED
    BY <2>1, <2>3, <2>4 DEF HistogramInv, HistogramCountsCaptures, IsHistogram
<1>2. HistogramInv /\ QueueInv /\ MetricsInv' /\ [SessionNext]_sessionVars => HistogramInv'
  <2> SUFFICES ASSUME HistogramInv, QueueInv, MetricsInv', [SessionNext]_sessionVars
               PROVE  HistogramInv'
    OBVIOUS
  <2>1. ASSUME UNCHANGED <<echo_likelihood_histogram, pairs>> PROVE HistogramInv'
    BY <2>1 DEF HistogramInv, IsHistogram, HistogramCountsCaptures
  <2>2. CASE RenderNext
    BY <2>1, <2>2 DEF RenderNext, AnalyzeRenderAudio, output
  <2>3. CASE CaptureIgnored
    BY <2>1, <2>3 DEF CaptureIgnored, IgnoreCapture, output
  <2>4. ASSUME NEW correlation \in Measured, CaptureNext(correlation)
        PROVE  HistogramInv'
    BY <2>4, CaptureKeepsHistogram DEF MetricsInv
  <2>5. CASE Reinitialize
    BY <2>1, <2>5 DEF Reinitialize, Initialize, output
  <2>6. CASE SetReliability
    BY <2>1, <2>6 DEF SetReliability, SetReliabilityForTest, output, history
  <2>7. CASE UNCHANGED sessionVars
    BY <2>1, <2>7 DEF sessionVars, vars, output, history
  <2>. QED
    BY <2>2, <2>3, <2>4, <2>5, <2>6, <2>7 DEF SessionNext
<1>. QED
  BY <1>1, <1>2, QueueInvHolds, MetricsInvHolds, PTL DEF SessionSpec

\* The histogram written at the end has one sample for each processed capture, whatever
\* the calls of Initialize in between, each at a percentage and none refused.
THEOREM CapturesAreCounted == SessionSpec => []HistogramCountsCaptures
<1>1. HistogramInv => HistogramCountsCaptures
  BY DEF HistogramInv
<1>. QED
  BY <1>1, HistogramInvHolds, PTL

-------------------------------------------------------------------------------
\* No index leaves its vector, no counter its range, and no statistic goes negative.
THEOREM TypeCorrect == SessionSpec => []TypeOK
<1>1. QueueInv /\ SlotInv /\ MetricsInv => TypeOK
  <2> SUFFICES ASSUME QueueInv, SlotInv, MetricsInv PROVE TypeOK
    OBVIOUS
  <2>1. RenderBuffer!TypeOK /\ first_process_call \in BOOLEAN
        /\ frames_since_zero_buffer_size \in 0 .. kRenderBufferSize
    BY DEF QueueInv, QueueTypes, RenderBuffer!TypeOK, K
  <2>2. RecentMax!TypeOK /\ reliability \in 0 .. One /\ log_counter \in 0 .. MaxLogs
    BY DEF MetricsInv, RecentMax!TypeOK
  <2>3. render_statistics \in Nat /\ capture_statistics \in Nat
    BY QueueNumbers DEF QueueInv, QueueTypes, SlotInv, SlotTypes
  <2>. QED
    BY <2>1, <2>2, <2>3 DEF TypeOK, SlotInv, SlotTypes, CovarianceArguments
<1>. QED
  BY <1>1, QueueInvHolds, SlotInvHolds, MetricsInvHolds, PTL
===============================================================================
