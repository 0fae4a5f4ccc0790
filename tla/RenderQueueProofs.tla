---------------------------- MODULE RenderQueueProofs ----------------------------
(***************************************************************************)
(* What becomes of a RenderQueue between two clients: devices whose clocks *)
(* drift (ClockDrift), and main, which calls render and capture in turn    *)
(* (EchoApp) and converts the samples of its files (AudioUtil).            *)
(***************************************************************************)
EXTENDS ClockDrift, EchoApp, SequenceTheorems, TLAPS

K == kRenderBufferSize
age == frames_since_zero_buffer_size

-------------------------------------------------------------------------------
\* Two clocks.
\* The invariant.  The history counts renders at least as far as the member does,
\* and no further than the buffer's size.
Counts ==
  /\ queue \in Seq(Powers) /\ Len(queue) <= K
  /\ age \in 0 .. K /\ steady \in 0 .. K /\ age <= steady
  /\ patience \in Nat

\* While a capture is late by a frame, the renders counted since the buffer was empty
\* and those before the next slip together last for more than one discard.
Late == age + patience >= Period + 1

LateByOne ==
  settled =>
    /\ phase # "jitter"
    /\ turn = "render" => Len(queue) <= 1 /\ (Len(queue) = 1 => Late)
    /\ turn # "render" => Len(queue) <= 2 /\ (Len(queue) = 2 => Late)

LEMMA Sizes == K \in Nat /\ K >= 1 /\ Period \in Nat
BY SizeAssumption, PeriodAssumption DEF K

\* What a render does to the length of the queue and to the counter.
Lengthened(before, after) ==
  /\ before = 0 => after = 1 /\ age' = 1
  /\ before > 0 /\ age >= K => after = before /\ age' = 1
  /\ before > 0 /\ age < K  => /\ age' = age + 1
                                  /\ after = IF before = K THEN K ELSE before + 1

LEMMA RenderLengthens ==
  ASSUME Counts, NEW power \in Powers, Render(power)
  PROVE  /\ queue' \in Seq(Powers)
         /\ Lengthened(Len(queue), Len(queue'))
<1> DEFINE q == IF Drifted THEN Tail(queue) ELSE queue
           r == IF Len(q) = K THEN Tail(q) ELSE q
<1>1. queue \in Seq(Powers) /\ Len(queue) \in Nat /\ Len(queue) <= K /\ age \in Nat
  BY DEF Counts
<1>2. queue # <<>> => Tail(queue) \in Seq(Powers) /\ Len(Tail(queue)) = Len(queue) - 1
  BY <1>1
<1>3. queue = <<>> <=> Len(queue) = 0
  BY <1>1, EmptySeq
<1>4. q \in Seq(Powers) /\ Len(q) = IF Drifted THEN Len(queue) - 1 ELSE Len(queue)
  BY <1>1, <1>2 DEF Drifted
<1>5. Len(q) = K => q # <<>>
  BY <1>4, Sizes, EmptySeq
<1>. HIDE DEF q
<1>6. r \in Seq(Powers) /\ Len(r) = IF Len(q) = K THEN K - 1 ELSE Len(q)
  BY <1>4, <1>5, Sizes
<1>7. queue' = Append(r, power)
  BY DEF Render, Enqueued, q, K
<1>. HIDE DEF r
<1>8. queue' \in Seq(Powers) /\ Len(queue') = Len(r) + 1
  BY <1>6, <1>7
<1>9. age' = IF queue = <<>> \/ Drifted THEN 1 ELSE age + 1
  BY DEF Render, age
<1>10. Drifted <=> queue # <<>> /\ age >= K
  BY DEF Drifted, age, K
<1>11. Lengthened(Len(queue), Len(queue'))
  <2> DEFINE l == Len(queue)
             m == Len(queue')
             n == Len(q)
             k == Len(r)
  <2>1. /\ l \in Nat /\ l <= K /\ age \in Nat
        /\ n = (IF l > 0 /\ age >= K THEN l - 1 ELSE l)
        /\ k = (IF n = K THEN K - 1 ELSE n) /\ m = k + 1
        /\ age' = IF l = 0 \/ age >= K THEN 1 ELSE age + 1
    BY <1>1, <1>3, <1>4, <1>6, <1>8, <1>9, <1>10
  <2>. HIDE DEF l, m, n, k
  <2>2. Lengthened(l, m)
    BY <2>1, Sizes DEF Lengthened
  <2>. QED
    BY <2>2 DEF l, m
<1>. QED
  BY <1>8, <1>11

\* A capture takes one value, or finds none, or flushes them all.
LEMMA CaptureShortens ==
  ASSUME Counts, CaptureNothing \/ CaptureOldest
  PROVE  /\ queue' \in Seq(Powers) /\ Len(queue') <= Len(queue) /\ age' = age
         /\ Len(queue) > 0 => Len(queue') <= Len(queue) - 1
         /\ Len(queue') \in Nat
         /\ queue' = <<>> <=> Len(queue') = 0
<1>1. queue \in Seq(Powers) /\ Len(queue) \in Nat
  BY DEF Counts
<1>2. CASE CaptureNothing
  <2>1. queue' = <<>> /\ age' = age
    BY <1>2 DEF CaptureNothing, age
  <2>. QED
    BY <1>1, <2>1
<1>3. CASE CaptureOldest
  <2>1. queue # <<>> /\ queue' = Tail(queue) /\ age' = age
    BY <1>3 DEF CaptureOldest, age
  <2>2. Tail(queue) \in Seq(Powers) /\ Len(Tail(queue)) = Len(queue) - 1
    BY <1>1, <2>1
  <2>3. Tail(queue) = <<>> <=> Len(Tail(queue)) = 0
    BY <2>2, EmptySeq
  <2>. QED
    BY <1>1, <2>1, <2>2, <2>3
<1>. QED
  BY <1>2, <1>3

\* A discard for drift comes after as many renders as the buffer has places.
LEMMA RenderCallCounts ==
  ASSUME Counts, RenderCall, patience' \in Nat
  PROVE  Counts' /\ (gap = K => gap' = K)
<1> DEFINE l == Len(queue)
           m == Len(queue')
<1>1. PICK power \in Powers : Render(power)
  BY DEF RenderCall
<1>2. queue' \in Seq(Powers) /\ Lengthened(l, m)
  BY <1>1, RenderLengthens
<1>3. /\ l \in Nat /\ l <= K /\ (queue = <<>> <=> l = 0) /\ m \in Nat
      /\ age \in 0 .. K /\ steady \in 0 .. K /\ age <= steady
  BY <1>2, EmptySeq DEF Counts
<1>4. Discards <=> 0 < l /\ l < K /\ m = l
  BY DEF Discards, K
<1>5. /\ steady' = IF l = 0 \/ Discards THEN 1
                   ELSE IF steady < K THEN steady + 1 ELSE steady
      /\ gap' = IF Discards THEN steady ELSE gap
  BY <1>3 DEF RenderCall, WatchRender, K
<1>6. /\ m <= K /\ age' \in 0 .. K /\ steady' \in 0 .. K /\ age' <= steady'
      /\ gap = K => gap' = K
  <2>. HIDE DEF l, m
  <2>1. CASE l = 0
    BY <1>2, <1>3, <1>4, <1>5, <2>1, Sizes DEF Lengthened
  <2>2. CASE l > 0 /\ age >= K
    BY <1>2, <1>3, <1>4, <1>5, <2>2, Sizes DEF Lengthened
  <2>3. CASE l > 0 /\ age < K
    BY <1>2, <1>3, <1>4, <1>5, <2>3, Sizes DEF Lengthened
  <2>. QED
    BY <1>3, <2>1, <2>2, <2>3, Sizes
<1>. QED
  BY <1>2, <1>6 DEF Counts

LEMMA CaptureCallCounts ==
  ASSUME Counts, CaptureCall, patience' \in Nat
  PROVE  Counts' /\ gap' = gap
<1>1. /\ queue' \in Seq(Powers) /\ Len(queue') <= Len(queue) /\ age' = age
      /\ Len(queue') \in Nat
  BY CaptureShortens DEF CaptureCall
<1>2. steady' = steady /\ gap' = gap
  BY DEF CaptureCall, Watch
<1>3. Len(queue) \in Nat /\ Len(queue) <= K /\ K \in Nat
  BY Sizes DEF Counts
<1>. QED
  BY <1>1, <1>2, <1>3 DEF Counts

DriftInv == Counts /\ gap = K

LEMMA CountsKept == DriftInv /\ [DriftNext]_driftVars => DriftInv'
<1> SUFFICES ASSUME DriftInv, [DriftNext]_driftVars PROVE DriftInv'
  OBVIOUS
<1>0. Counts /\ gap = K /\ patience \in Nat /\ Period \in Nat
  BY Sizes DEF DriftInv, Counts
<1>1. ASSUME RenderCall \/ CaptureCall, patience' \in Nat PROVE DriftInv'
  BY <1>0, <1>1, RenderCallCounts, CaptureCallCounts DEF DriftInv, K
<1>2. CASE Jitter
  BY <1>0, <1>1, <1>2 DEF Jitter, environment
<1>3. CASE RenderTurn
  BY <1>0, <1>1, <1>3 DEF RenderTurn
<1>4. CASE CaptureTurn
  BY <1>0, <1>1, <1>4 DEF CaptureTurn
<1>5. CASE Slip
  BY <1>0, <1>1, <1>5 DEF Slip
<1>6. CASE EndJitter \/ Lock \/ UNCHANGED driftVars
  BY <1>0, <1>6 DEF EndJitter, Lock, driftVars, environment, vars, DriftInv, Counts, age, K
<1>. QED
  BY <1>2, <1>3, <1>4, <1>5, <1>6 DEF DriftNext

LEMMA CountsBegin == DriftInit => DriftInv
<1> SUFFICES ASSUME DriftInit PROVE DriftInv
  OBVIOUS
<1>1. <<>> \in Seq(Powers) /\ Len(<<>>) = 0
  OBVIOUS
<1>. QED
  BY <1>1, Sizes DEF DriftInit, Init, DriftInv, Counts, age, K

\* Between two discards for drift there are kRenderBufferSize renders, for every size
\* of the buffer and every drift.
THEOREM RareDiscards == DriftSpec => []DiscardsAreRare
<1>1. DriftInv => DiscardsAreRare
  BY DEF DriftInv, DiscardsAreRare, K
<1>. QED
  BY <1>1, CountsBegin, CountsKept, PTL DEF DriftSpec

-------------------------------------------------------------------------------
\* A late frame is discarded before the clocks slip again.
LEMMA LateKept ==
  ASSUME Period >= K, DriftInv, LateByOne, [DriftNext]_driftVars
  PROVE  LateByOne'
<1> DEFINE l == Len(queue)
           m == Len(queue')
<1>0. Counts /\ l \in Nat /\ age \in 0 .. K /\ patience \in Nat
  BY DEF DriftInv, Counts
<1>1. CASE Jitter
  BY <1>1 DEF Jitter, environment, RenderCall, WatchRender, CaptureCall, Watch, LateByOne
<1>2. CASE RenderTurn
  <2>1. PICK power \in Powers : Render(power)
    BY <1>2 DEF RenderTurn, RenderCall
  <2>2. Lengthened(l, m)
    BY <1>0, <2>1, RenderLengthens
  <2>3. /\ settled' = settled /\ phase' = phase /\ turn = "render" /\ turn' = "capture"
        /\ patience' = IF patience > 0 THEN patience - 1 ELSE 0
    BY <1>2 DEF RenderTurn, RenderCall, WatchRender
  <2>4. ASSUME settled PROVE m <= 2 /\ (m = 2 => age' + patience' >= Period + 1)
    <3>1. l <= 1 /\ (l = 1 => age + patience >= Period + 1)
      BY <2>3, <2>4 DEF LateByOne, Late
    <3>. HIDE DEF l, m
    <3>. QED
      BY <1>0, <2>2, <2>3, <3>1, Sizes DEF Lengthened
  <2>. QED
    BY <2>3, <2>4 DEF LateByOne, Late
<1>3. CASE CaptureTurn
  <2>1. /\ m \in Nat /\ m <= l /\ age' = age /\ (l > 0 => m <= l - 1)
        /\ queue' = <<>> <=> m = 0
    BY <1>0, <1>3, CaptureShortens DEF CaptureTurn, CaptureCall
  <2>2. /\ turn = "capture" /\ turn' = "render" /\ phase' = phase /\ phase # "jitter"
        /\ patience' = patience /\ (settled' => settled \/ queue' = <<>>)
    BY <1>3 DEF CaptureTurn, CaptureCall, Watch
  <2>3. ASSUME settled PROVE m <= 1 /\ (m = 1 => age' + patience' >= Period + 1)
    <3>1. l <= 2 /\ (l = 2 => age + patience >= Period + 1)
      BY <2>2, <2>3 DEF LateByOne, Late
    <3>. HIDE DEF l, m
    <3>. QED
      BY <1>0, <2>1, <2>2, <3>1
  <2>4. ASSUME queue' = <<>> PROVE m <= 1 /\ m # 1
    BY <2>1, <2>4
  <2>. HIDE DEF l
  <2>. QED
    BY <2>2, <2>3, <2>4 DEF LateByOne, Late
<1>4. CASE Slip
  <2>1. /\ phase = "drift" /\ phase' = phase /\ turn = "render" /\ turn' = turn
        /\ patience = 0 /\ patience' = Period
    BY <1>4 DEF Slip
  <2>2. ASSUME settled PROVE l = 0
    <3>1. l <= 1 /\ (l = 1 => age + patience >= Period + 1)
      BY <2>1, <2>2 DEF LateByOne, Late
    <3>. HIDE DEF l, m
    <3>. QED
      BY <1>0, <2>1, <3>1, Sizes
  <2>3. CASE RenderCall
    <3>1. PICK power \in Powers : Render(power)
      BY <2>3 DEF RenderCall
    <3>2. Lengthened(l, m)
      BY <1>0, <3>1, RenderLengthens
    <3>3. settled' = settled
      BY <2>3 DEF RenderCall, WatchRender
    <3>4. ASSUME settled PROVE m = 1 /\ age' + patience' >= Period + 1
      <4>. HIDE DEF l, m
      <4>. QED
        BY <2>1, <2>2, <3>2, <3>4, Sizes DEF Lengthened
    <3>5. settled => m <= 1 /\ (m = 1 => age' + patience' >= Period + 1)
      <4>. HIDE DEF l, m
      <4>. QED
        BY <3>4
    <3>. QED
      BY <2>1, <3>3, <3>5 DEF LateByOne, Late
  <2>4. CASE CaptureCall
    <3>1. m \in Nat /\ m <= l /\ (queue' = <<>> <=> m = 0)
      BY <1>0, <2>4, CaptureShortens DEF CaptureCall
    <3>2. settled' => settled \/ queue' = <<>>
      BY <2>1, <2>4 DEF CaptureCall, Watch
    <3>3. ASSUME settled PROVE m = 0
      <4>. HIDE DEF l, m
      <4>. QED
        BY <1>0, <2>2, <3>1, <3>3
    <3>4. settled' => m = 0
      BY <3>1, <3>2, <3>3
    <3>. QED
      BY <2>1, <3>4 DEF LateByOne
  <2>. QED
    BY <1>4, <2>3, <2>4 DEF Slip
<1>5. CASE EndJitter \/ Lock \/ UNCHANGED driftVars
  BY <1>5 DEF EndJitter, Lock, driftVars, environment, vars, LateByOne, Late, age
<1>. QED
  BY <1>1, <1>2, <1>3, <1>4, <1>5 DEF DriftNext

\* Once a backlog has been worked off, a drift of at most one frame in
\* kRenderBufferSize never makes a capture late by more than one frame, for every size
\* of the buffer, whenever and on whichever side the clocks slip.
THEOREM DriftIsAbsorbed ==
  ASSUME Period >= kRenderBufferSize
  PROVE  DriftSpec => []DriftAbsorbed
<1>1. DriftInit => LateByOne
  BY DEF DriftInit, LateByOne
<1>2. DriftInv /\ LateByOne /\ [DriftNext]_driftVars => LateByOne'
  BY LateKept DEF K
<1>3. DriftInv /\ LateByOne => DriftAbsorbed
  BY DEF LateByOne, DriftAbsorbed
<1>. QED
  BY <1>1, <1>2, <1>3, CountsBegin, CountsKept, PTL DEF DriftSpec

-------------------------------------------------------------------------------
\* The conversions of samples.
LEMMA Limits16 == MinS16 \in Int /\ MaxS16 \in Int /\ MinS16 < 0 /\ MaxS16 > 0
BY DEF MinS16, MaxS16

\* Division by the step, from its characteristic inequalities.
LEMMA StepsIn ==
  ASSUME NEW n \in Nat
  PROVE  /\ n \div Step \in Nat
         /\ Step * (n \div Step) <= n /\ n < Step * (n \div Step) + Step
<1> DEFINE m == Step
<1>1. m \in Nat /\ m > 0
  BY HalfStepAssumption DEF Step
<1>2. /\ n \div m \in Nat
      /\ m * (n \div m) <= n /\ n < m * (n \div m) + m
  <2>. HIDE DEF m
  <2>. QED
    BY <1>1
<1>. QED
  BY <1>2

\* The sum is exact or one too much, and one too much in a single case.
LEMMA SumWithHalf ==
  ASSUME NEW n \in Nat
  PROVE  /\ PlusHalf(n) \in Nat
         /\ n + HalfStep <= PlusHalf(n) /\ PlusHalf(n) <= n + HalfStep + 1
         /\ n # HalfStep - 1 => PlusHalf(n) = n + HalfStep
BY HalfStepAssumption DEF PlusHalf, Step

\* Rounding is to the nearest integer, ties away from zero, but for the two numbers
\* next to a tie on the side of zero, which go away from zero too.
LEMMA RoundedIsNear ==
  ASSUME NEW v \in Int
  PROVE  /\ Rounded(v) \in Int
         /\ v >= 0 => /\ Step * Rounded(v) - HalfStep <= v + 1
                      /\ v # HalfStep - 1 => Step * Rounded(v) - HalfStep <= v
                      /\ v < Step * Rounded(v) + HalfStep
         /\ v < 0  => /\ Step * Rounded(v) - HalfStep < v
                      /\ v # 1 - HalfStep => v <= Step * Rounded(v) + HalfStep
                      /\ v <= Step * Rounded(v) + HalfStep + 1
<1>1. CASE v >= 0
  <2> DEFINE s == PlusHalf(v)
             r == s \div Step
  <2>1. /\ s \in Nat /\ v + HalfStep <= s /\ s <= v + HalfStep + 1
        /\ v # HalfStep - 1 => s = v + HalfStep
    BY <1>1, SumWithHalf
  <2>. HIDE DEF s
  <2>2. r \in Nat /\ Step * r <= s /\ s < Step * r + Step
    BY <2>1, StepsIn
  <2>3. Rounded(v) = r
    BY <1>1 DEF Rounded, s
  <2>. HIDE DEF r
  <2>4. Step * r \in Int /\ Step = 2 * HalfStep
    BY <2>2, HalfStepAssumption DEF Step
  <2>. QED
    BY <1>1, <2>1, <2>2, <2>3, <2>4, HalfStepAssumption
<1>2. CASE v < 0
  <2> DEFINE s == PlusHalf(-v)
             r == s \div Step
  <2>1. /\ s \in Nat /\ -v + HalfStep <= s /\ s <= -v + HalfStep + 1
        /\ v # 1 - HalfStep => s = -v + HalfStep
    BY <1>2, SumWithHalf, HalfStepAssumption
  <2>. HIDE DEF s
  <2>2. r \in Nat /\ Step * r <= s /\ s < Step * r + Step
    BY <2>1, StepsIn
  <2>3. Rounded(v) = -r
    BY <1>2 DEF Rounded, s
  <2>. HIDE DEF r
  <2>4. Step * r \in Int /\ Step = 2 * HalfStep /\ Step * (-r) = -(Step * r)
    BY <2>2, HalfStepAssumption DEF Step
  <2>. QED
    BY <1>2, <2>1, <2>2, <2>3, <2>4, HalfStepAssumption
<1>. QED
  BY <1>1, <1>2

\* Rounding recovers a whole number of steps.
LEMMA RoundedOfWhole ==
  ASSUME NEW k \in Int
  PROVE  Rounded(k * Step) = k
<1> DEFINE v == k * Step
           r == Rounded(v)
<1>1. v \in Int
  BY HalfStepAssumption DEF Step
<1>2. /\ r \in Int /\ HalfStep \in Int /\ HalfStep > 1
      /\ Step * r - HalfStep <= v + 1 /\ v <= Step * r + HalfStep + 1
  <2>. HIDE DEF v
  <2>1. /\ Rounded(v) \in Int
        /\ v >= 0 => /\ Step * Rounded(v) - HalfStep <= v + 1
                     /\ v < Step * Rounded(v) + HalfStep
        /\ v < 0  => /\ Step * Rounded(v) - HalfStep < v
                     /\ v <= Step * Rounded(v) + HalfStep + 1
    BY <1>1, RoundedIsNear
  <2>2. Step * r \in Int /\ HalfStep \in Int
    BY <2>1, HalfStepAssumption DEF Step
  <2>. QED
    BY <1>1, <2>1, <2>2, HalfStepAssumption
<1>. HIDE DEF r
<1>3. Step * (r - k) <= HalfStep + 1 /\ Step * (k - r) <= HalfStep + 1
  <2>1. Step * (r - k) = Step * r - k * Step /\ Step * (k - r) = k * Step - Step * r
    BY <1>2, HalfStepAssumption DEF Step
  <2>2. Step * r \in Int /\ k * Step \in Int
    BY <1>2, HalfStepAssumption DEF Step
  <2>. QED
    BY <1>2, <2>1, <2>2, HalfStepAssumption
<1>4. \A d \in Int : d >= 1 => Step * d > HalfStep + 1
  <2>1. \A d \in Int : d >= 1 => Step * d >= Step
    BY HalfStepAssumption DEF Step
  <2>2. Step > HalfStep + 1 /\ Step \in Int
    BY HalfStepAssumption DEF Step
  <2>. QED
    BY <1>2, <2>1, <2>2
<1>5. ~ (r - k >= 1) /\ ~ (k - r >= 1)
  <2>1. r - k \in Int /\ k - r \in Int
    BY <1>2
  <2>2. \A d \in Int : Step * d <= HalfStep + 1 => ~ (d >= 1)
    BY <1>4, HalfStepAssumption DEF Step
  <2>. QED
    BY <1>3, <2>1, <2>2
<1>. QED
  BY <1>2, <1>5 DEF r

\* The limits are whole numbers of steps, and what is limited lies between them.
LEMMA LimitedToS16 ==
  ASSUME NEW v \in Int
  PROVE  LET u == Limited(v, Lowest, Highest) IN
         /\ u \in Int
         /\ Lowest <= u /\ u <= Highest
         /\ Lowest <= v /\ v <= Highest => u = v
BY Limits16, HalfStepAssumption DEF Limited, Step, Lowest, Highest

\* A larger number is never rounded to a smaller integer.
LEMMA RoundedMonotone ==
  ASSUME NEW v \in Int, NEW w \in Int, v <= w
  PROVE  Rounded(v) <= Rounded(w)
<1> DEFINE r == Rounded(v)
           t == Rounded(w)
<1>1. CASE v = w
  BY <1>1, RoundedIsNear
<1>2. CASE v < w
  <2>1. /\ r \in Int
        /\ v >= 0 => Step * r - HalfStep <= v + 1
        /\ v < 0  => Step * r - HalfStep < v
    BY RoundedIsNear
  <2>2. /\ t \in Int
        /\ w >= 0 => w < Step * t + HalfStep
        /\ w < 0  => w <= Step * t + HalfStep + 1
    BY RoundedIsNear
  <2>. HIDE DEF r, t
  <2>3. Step * r \in Int /\ Step * t \in Int
    BY <2>1, <2>2, HalfStepAssumption DEF Step
  <2>4. Step * r - HalfStep < Step * t + HalfStep
    BY <1>2, <2>1, <2>2, <2>3, HalfStepAssumption
  <2>5. Step * (r - t) < Step
    <3>1. Step * (r - t) = Step * r - Step * t
      BY <2>1, <2>2, HalfStepAssumption DEF Step
    <3>. QED
      BY <2>3, <2>4, <3>1, HalfStepAssumption DEF Step
  <2>6. \A d \in Int : d >= 1 => Step * d >= Step
    BY HalfStepAssumption DEF Step
  <2>. QED
    BY <2>1, <2>2, <2>5, <2>6, HalfStepAssumption DEF r, t, Step
<1>. QED
  BY <1>1, <1>2

-------------------------------------------------------------------------------
\* A sample survives the conversion to either kind of float and back: no sample of
\* the files that main converts is changed or limited.
THEOREM SamplesRoundTrip ==
  ASSUME NEW v \in S16
  PROVE  FloatToS16(S16ToFloat(v)) = v /\ FloatS16ToS16(S16ToFloatS16(v)) = v
<1>1. v \in Int /\ v * Step \in Int
  BY Limits16, HalfStepAssumption DEF S16, Step
<1>2. Lowest <= v * Step /\ v * Step <= Highest
  BY Limits16, HalfStepAssumption DEF S16, Step, Lowest, Highest
<1>3. Limited(v * Step, Lowest, Highest) = v * Step
  BY <1>1, <1>2, LimitedToS16
<1>. QED
  BY <1>1, <1>3, RoundedOfWhole DEF FloatToS16, FloatS16ToS16, S16ToFloat, S16ToFloatS16

\* The cast never leaves int16_t, also at the limits, where the half is added to
\* the largest and the smallest number, and louder never becomes softer.  A number
\* within the limits goes to the nearest sample, but for one of either sign: the last
\* float before a half, nearer to 0, is made 1 by a sum that the float rounds, and its
\* opposite -1.
THEOREM ConversionToS16 ==
  ASSUME NEW v \in Int
  PROVE  /\ FloatToS16(v) \in S16
         /\ Lowest <= v /\ v <= Highest /\ v \notin {HalfStep - 1, 1 - HalfStep} =>
              /\ Step * FloatToS16(v) - HalfStep <= v
              /\ v <= Step * FloatToS16(v) + HalfStep
         /\ FloatToS16(HalfStep - 1) = 1 /\ FloatToS16(1 - HalfStep) = -1
         /\ \A w \in Int : v <= w => FloatToS16(v) <= FloatToS16(w)
<1> DEFINE u == Limited(v, Lowest, Highest)
<1>1. /\ u \in Int /\ Lowest <= u /\ u <= Highest
      /\ Lowest <= v /\ v <= Highest => u = v
  BY LimitedToS16
<1>2. Lowest \in Int /\ Highest \in Int /\ Lowest <= Highest
  BY Limits16, HalfStepAssumption DEF Step, Lowest, Highest
<1>3. FloatToS16(v) \in S16
  <2>. HIDE DEF u
  <2>1. Rounded(Lowest) = MinS16 /\ Rounded(Highest) = MaxS16
    BY Limits16, RoundedOfWhole DEF Lowest, Highest
  <2>2. Rounded(Lowest) <= Rounded(u) /\ Rounded(u) <= Rounded(Highest)
    BY <1>1, <1>2, RoundedMonotone
  <2>3. Rounded(u) \in Int
    BY <1>1, RoundedIsNear
  <2>. QED
    <3>1. FloatToS16(v) = Rounded(u)
      BY DEF FloatToS16, u
    <3>2. MinS16 <= Rounded(u) /\ Rounded(u) <= MaxS16
      BY <2>1, <2>2
    <3>. QED
      BY <2>3, <3>1, <3>2, Limits16 DEF S16
<1>4. ASSUME Lowest <= v, v <= Highest, v \notin {HalfStep - 1, 1 - HalfStep}
      PROVE  Step * FloatToS16(v) - HalfStep <= v /\ v <= Step * FloatToS16(v) + HalfStep
  <2>1. FloatToS16(v) = Rounded(v)
    BY <1>1, <1>4 DEF FloatToS16
  <2>2. Step * Rounded(v) \in Int
    BY RoundedIsNear, HalfStepAssumption DEF Step
  <2>. QED
    <3>1. /\ Rounded(v) \in Int
          /\ v >= 0 => /\ v # HalfStep - 1 => Step * Rounded(v) - HalfStep <= v
                       /\ v < Step * Rounded(v) + HalfStep
          /\ v < 0  => /\ Step * Rounded(v) - HalfStep < v
                       /\ v # 1 - HalfStep => v <= Step * Rounded(v) + HalfStep
      BY RoundedIsNear
    <3>2. v # HalfStep - 1 /\ v # 1 - HalfStep
      BY <1>4
    <3>. HIDE DEF u
    <3>. QED
      BY <2>1, <2>2, <3>1, <3>2, HalfStepAssumption
<1>5. ASSUME NEW w \in Int, v <= w PROVE FloatToS16(v) <= FloatToS16(w)
  <2> DEFINE x == Limited(w, Lowest, Highest)
  <2>1. x \in Int /\ u <= x
    BY <1>2, <1>5 DEF Limited
  <2>. HIDE DEF u, x
  <2>2. Rounded(u) <= Rounded(x)
    BY <1>1, <2>1, RoundedMonotone
  <2>. QED
    BY <2>2 DEF FloatToS16, u, x
<1>6. FloatToS16(HalfStep - 1) = 1 /\ FloatToS16(1 - HalfStep) = -1
  <2>1. PlusHalf(HalfStep - 1) = Step /\ -(1 - HalfStep) = HalfStep - 1
    BY HalfStepAssumption DEF PlusHalf
  <2>2. Step \in Nat /\ Step > 0 /\ Step \div Step = 1
    BY HalfStepAssumption DEF Step
  <2>3. Rounded(HalfStep - 1) = 1 /\ Rounded(1 - HalfStep) = -1
    BY <2>1, <2>2, HalfStepAssumption DEF Rounded
  <2>4. /\ Limited(HalfStep - 1, Lowest, Highest) = HalfStep - 1
        /\ Limited(1 - HalfStep, Lowest, Highest) = 1 - HalfStep
    BY HalfStepAssumption DEF Limited, Lowest, Highest, Step, MinS16, MaxS16
  <2>. QED
    BY <2>3, <2>4 DEF FloatToS16
<1>. QED
  BY <1>3, <1>4, <1>5, <1>6

\* Between the two kinds of float nothing is lost but what is outside the limits, and
\* a second conversion limits nothing more.
THEOREM FloatsRoundTrip ==
  ASSUME NEW v \in Int
  PROVE  /\ FloatToFloatS16(FloatS16ToFloat(v)) = FloatS16ToFloat(v)
         /\ Lowest <= v /\ v <= 32768 * Step => FloatS16ToFloat(v) = v
BY Limits16, HalfStepAssumption DEF FloatToFloatS16, FloatS16ToFloat, Limited, Step, Lowest

-------------------------------------------------------------------------------
\* The loop of main.  Frames of both files before the statement that comes next, and
\* captures before it.
MicFrames == mic_read \div input_size
RefFrames == ref_read \div input_size
Captures == IF pc \in {"read_ref", "capture"} THEN MicFrames - 1 ELSE MicFrames

AtMost(n, limit) == IF n < limit THEN n ELSE limit

AppTypes ==
  /\ mic \in MicFiles /\ ref \in RefFiles
  /\ mic_read \in 0 .. mic.length /\ ref_read \in 0 .. ref.length
  /\ pc \in {"open", "read_mic", "read_ref", "capture", "exit"}
  /\ raw_files \in [DOMAIN raw_files -> Nat \ {0}]

\* Nothing waits in the queue but the frame of this iteration.
OneAtATime ==
  /\ pc # "capture" => queue = <<>>
  /\ queue \in {<<>>, <<farend_float>>}

\* What is read of the files are whole frames, until their end is met.
Positions ==
  /\ pc # "exit" => mic_read = input_size * MicFrames
  /\ pc = "open" => mic_read = 0
  /\ pc = "exit" /\ exit_code = 0 => MicFrames = FramesOf(mic)
  /\ MicFrames <= FramesOf(mic)
  /\ pc \in {"read_ref", "capture"} => MicFrames > 0
  /\ ref_read = input_size * RefFrames \/ ref_read = ref.length
  /\ RefFrames =
       AtMost(IF pc = "read_ref" THEN MicFrames - 1 ELSE MicFrames, FramesOf(ref))

\* The first capture is ignored, and those after the end of the reference.
Processed(captures, limit) ==
  IF AtMost(captures, limit) = 0 THEN 0 ELSE AtMost(captures, limit) - 1

Outcomes ==
  /\ first_process_call <=> Captures = 0
  /\ pc = "capture" => (queue = <<>> <=> MicFrames > FramesOf(ref))
  /\ processed = Processed(Captures, FramesOf(ref))

Dumps ==
  /\ \A name \in RenderDumps : GetRawFile(name) = RefFrames
  /\ \A name \in CaptureDumps : GetRawFile(name) = Captures
  /\ \A name \in PairDumps : GetRawFile(name) = processed
  /\ pc \in {"read_mic", "read_ref", "capture"} => likelihood_csv = 0
  /\ pc = "exit" /\ exit_code = 0 => likelihood_csv = processed

AppInv == AppTypes /\ OneAtATime /\ (input_size > 0 => Positions /\ Outcomes /\ Dumps)

\* Division by the length of a frame.
LEMMA Quotient ==
  ASSUME NEW c \in Nat \ {0}, NEW n \in Nat
  PROVE  /\ n \div c \in Nat /\ n \div c <= n
         /\ c * (n \div c) <= n /\ n < c * (n \div c) + c
OBVIOUS

LEMMA QuotientIs ==
  ASSUME NEW c \in Nat \ {0}, NEW n \in Nat, NEW q \in Nat, c * q <= n, n < c * q + c
  PROVE  n \div c = q
<1> DEFINE d == n \div c
<1>1. d \in Nat /\ c * d <= n /\ n < c * d + c
  BY Quotient
<1>. HIDE DEF d
<1>2. c * d \in Nat /\ c * q \in Nat
  BY <1>1
<1>3. c * (d - q) = c * d - c * q /\ c * (q - d) = c * q - c * d
  BY <1>1
<1>4. c * (d - q) < c /\ c * (q - d) < c
  BY <1>1, <1>2, <1>3
<1>5. \A e \in Int : e >= 1 => c * e >= c
  OBVIOUS
<1>6. ~ (d - q >= 1) /\ ~ (q - d >= 1)
  <2>1. d - q \in Int /\ q - d \in Int
    BY <1>1
  <2>2. \A e \in Int : c * e < c => ~ (e >= 1)
    BY <1>5
  <2>. QED
    BY <1>4, <2>1, <2>2
<1>. QED
  BY <1>1, <1>6 DEF d

\* A whole frame more, or the end of the file after the last one.
LEMMA FrameRead ==
  ASSUME NEW c \in Nat \ {0}, NEW n \in Nat, NEW length \in Nat
  PROVE  /\ n = c * (n \div c) =>
              (n + c) \div c = n \div c + 1 /\ n + c = c * ((n + c) \div c)
         /\ n = c * (n \div c) /\ n + c <= length => (n + c) \div c <= length \div c
         /\ n <= length /\ n + c > length /\ n = c * (n \div c) => n \div c = length \div c
<1> DEFINE q == n \div c
           p == length \div c
<1>1. q \in Nat /\ c * q \in Nat /\ c * (q + 1) = c * q + c
  <2>1. q \in Nat
    BY Quotient
  <2>. HIDE DEF q
  <2>. QED
    BY <2>1
<1>2. p \in Nat /\ c * p \in Nat /\ c * p <= length /\ length < c * p + c
  <2>1. p \in Nat /\ c * p <= length /\ length < c * p + c
    BY Quotient
  <2>. HIDE DEF p
  <2>. QED
    BY <2>1
<1>. HIDE DEF q, p
<1>3. ASSUME n = c * q PROVE (n + c) \div c = q + 1 /\ n + c = c * ((n + c) \div c)
  BY <1>1, <1>3, QuotientIs
<1>4. ASSUME n = c * q, n + c <= length PROVE (n + c) \div c <= p
  <2>1. c * (q + 1) < c * p + c
    BY <1>1, <1>2, <1>4
  <2>2. c * (q - p) < c
    <3>1. c * (q - p) = c * q - c * p
      BY <1>1, <1>2
    <3>. QED
      BY <1>1, <1>2, <2>1, <3>1
  <2>3. \A e \in Int : e >= 1 => c * e >= c
    OBVIOUS
  <2>4. ~ (q - p >= 1)
    BY <1>1, <1>2, <2>2, <2>3
  <2>5. q # p
    BY <1>1, <1>2, <1>4
  <2>. QED
    BY <1>1, <1>2, <1>3, <1>4, <2>4, <2>5
<1>5. ASSUME n <= length, n + c > length, n = c * q PROVE q = p
  BY <1>1, <1>5, QuotientIs DEF p
<1>. QED
  BY <1>3, <1>4, <1>5 DEF q, p

\* A dump adds a record to each file it is for, and leaves none empty.
LEMMA DumpCounts ==
  ASSUME raw_files \in [DOMAIN raw_files -> Nat \ {0}], NEW names, DumpRaw(names)
  PROVE  /\ raw_files' \in [DOMAIN raw_files' -> Nat \ {0}]
         /\ \A name : GetRawFile(name)' =
              IF name \in names /\ GetRawFile(name) < MaxRecords
              THEN GetRawFile(name) + 1 ELSE GetRawFile(name)
<1>1. DOMAIN raw_files' = names \cup DOMAIN raw_files
  BY DEF DumpRaw
<1>2. ASSUME NEW name PROVE GetRawFile(name) \in Nat /\ (Opened(name) => GetRawFile(name) # 0)
  BY DEF GetRawFile, Opened
<1>3. ASSUME NEW name \in names \cup DOMAIN raw_files
      PROVE  /\ raw_files'[name] = IF name \in names /\ GetRawFile(name) < MaxRecords
                                   THEN GetRawFile(name) + 1 ELSE GetRawFile(name)
             /\ raw_files'[name] \in Nat \ {0}
  <2>1. raw_files'[name] = IF name \in names /\ GetRawFile(name) < MaxRecords
                           THEN GetRawFile(name) + 1 ELSE GetRawFile(name)
    BY DEF DumpRaw
  <2>2. GetRawFile(name) = 0 => name \in names /\ GetRawFile(name) < MaxRecords
    BY <1>2, FilesAssumption DEF Opened
  <2>3. GetRawFile(name) \in Nat
    BY <1>2
  <2>. QED
    BY <2>1, <2>2, <2>3
<1>4. ASSUME NEW name
      PROVE  GetRawFile(name)' = IF name \in names /\ GetRawFile(name) < MaxRecords
                                 THEN GetRawFile(name) + 1 ELSE GetRawFile(name)
  <2>1. CASE name \in names \cup DOMAIN raw_files
    BY <1>1, <1>3, <2>1 DEF GetRawFile, Opened
  <2>2. CASE name \notin names \cup DOMAIN raw_files
    BY <1>1, <2>2 DEF GetRawFile, Opened
  <2>. QED
    BY <2>1, <2>2
<1>5. raw_files' \in [DOMAIN raw_files' -> Nat \ {0}]
  <2>1. raw_files' = [name \in names \cup DOMAIN raw_files |-> raw_files'[name]]
    BY DEF DumpRaw
  <2>. QED
    BY <1>1, <1>3, <2>1
<1>. QED
  BY <1>4, <1>5

LEMMA FilesRead ==
  ASSUME AppTypes
  PROVE  /\ input_size \in Nat
         /\ mic.length \in 0 .. MaxUnits /\ ref.length \in 0 .. MaxUnits
         /\ AfterRead(mic, mic_read) \in 0 .. mic.length
         /\ AfterRead(ref, ref_read) \in 0 .. ref.length
BY FilesAssumption DEF AppTypes, MicFiles, RefFiles, input_size, AfterRead

LEMMA OneAtATimeKept ==
  ASSUME AppTypes, OneAtATime, [AppNext]_appVars
  PROVE  AppTypes' /\ OneAtATime'
<1>. USE FilesRead
<1>1. CASE Reject \/ Accept
  <2>1. /\ pc = "open" /\ pc' \in {"exit", "read_mic"} /\ queue' = queue
        /\ UNCHANGED <<mic, ref, mic_read, ref_read, raw_files>>
    BY <1>1 DEF Reject, Accept, vars, files, outputs
  <2>. QED
    BY <2>1 DEF AppTypes, OneAtATime
<1>2. CASE ReadMic \/ EndOfMic \/ EndOfRef
  <2>1. /\ pc # "capture" /\ pc' \in {"read_ref", "exit", "capture"}
        /\ UNCHANGED <<queue, farend_float, mic, ref, raw_files>>
        /\ \/ mic_read' = AfterRead(mic, mic_read) /\ ref_read' = ref_read
           \/ ref_read' = AfterRead(ref, ref_read) /\ mic_read' = mic_read
    BY <1>2 DEF ReadMic, EndOfMic, DestroyDetector, EndOfRef, vars, files, outputs, vectors
  <2>. QED
    BY <2>1 DEF AppTypes, OneAtATime
<1>3. CASE RenderRef
  <2>1. /\ pc # "capture" /\ pc' = "capture" /\ Render(farend_float)
        /\ UNCHANGED <<farend_float, mic, ref, mic_read>>
        /\ DumpRaw(RenderDumps) /\ ref_read' = AfterRead(ref, ref_read)
    BY <1>3 DEF RenderRef, files, vectors
  <2>2. queue = <<>>
    BY <2>1 DEF OneAtATime
  <2>3. queue' = <<farend_float>>
    BY <2>1, <2>2, SizeAssumption DEF Render, Enqueued, Drifted
  <2>4. raw_files' \in [DOMAIN raw_files' -> Nat \ {0}]
    BY <2>1, DumpCounts DEF AppTypes
  <2>. QED
    BY <2>1, <2>3, <2>4 DEF AppTypes, OneAtATime
<1>4. CASE Capture
  <2>1. /\ pc' = "read_mic"
        /\ CaptureNothing \/ CaptureOldest
        /\ UNCHANGED <<farend_float, mic, ref, mic_read, ref_read>>
        /\ DumpRaw(CaptureDumps) \/ DumpRaw(CaptureDumps \cup PairDumps)
    BY <1>4 DEF Capture, files, vectors
  <2>2. queue' = <<>>
    BY <2>1, SMTT(30) DEF OneAtATime, CaptureNothing, CaptureOldest
  <2>3. raw_files' \in [DOMAIN raw_files' -> Nat \ {0}]
    BY <2>1, DumpCounts DEF AppTypes
  <2>. QED
    BY <2>1, <2>2, <2>3 DEF AppTypes, OneAtATime
<1>5. CASE Ended \/ UNCHANGED appVars
  BY <1>5 DEF Ended, appVars, vars, files, vectors, outputs, AppTypes, OneAtATime
<1>. QED
  BY <1>1, <1>2, <1>3, <1>4, <1>5 DEF AppNext

\* The numbers in Positions, Outcomes and Dumps.
LEMMA FrameNumbers ==
  ASSUME AppTypes, input_size > 0
  PROVE  /\ input_size \in Nat \ {0}
         /\ mic_read \in Nat /\ ref_read \in Nat
         /\ MicFrames \in Nat /\ MicFrames <= mic_read
         /\ RefFrames \in Nat
         /\ FramesOf(mic) \in Nat /\ FramesOf(mic) <= MaxUnits
         /\ FramesOf(ref) \in Nat /\ FramesOf(ref) <= MaxUnits
         /\ MaxUnits \in Nat /\ MaxRecords \in Nat /\ MaxUnits <= MaxRecords
<1> DEFINE c == input_size
<1>1. /\ c \in Nat \ {0} /\ mic_read \in Nat /\ ref_read \in Nat
      /\ mic.length \in 0 .. MaxUnits /\ ref.length \in 0 .. MaxUnits
  BY FilesRead, FilesAssumption DEF AppTypes
<1>2. \A n \in Nat : n \div c \in Nat /\ n \div c <= n
  BY <1>1, Quotient
<1>. HIDE DEF c
<1>3. /\ mic_read \div c \in Nat /\ mic_read \div c <= mic_read
      /\ ref_read \div c \in Nat
  BY <1>1, <1>2
<1>4. /\ mic.length \div c \in Nat /\ mic.length \div c <= mic.length
      /\ ref.length \div c \in Nat /\ ref.length \div c <= ref.length
  BY <1>1, <1>2, FilesAssumption
<1>. QED
  BY <1>1, <1>3, <1>4, FilesAssumption DEF MicFrames, RefFrames, FramesOf, c

\* Main's loop, statement by statement.
Progress == Positions /\ Outcomes /\ Dumps

LEMMA StartKeepsProgress ==
  ASSUME AppTypes, OneAtATime, input_size > 0, Progress, Reject \/ Accept
  PROVE  Progress'
<1>1. /\ pc = "open"
      /\ \/ pc' = "exit" /\ exit_code' = 1
         \/ pc' = "read_mic" /\ likelihood_csv' = 0
      /\ UNCHANGED <<mic, ref, mic_read, ref_read, first_process_call, processed, raw_files>>
  BY DEF Reject, Accept, vars, files, outputs
<1>2. /\ MicFrames' = MicFrames /\ RefFrames' = RefFrames /\ input_size' = input_size
      /\ FramesOf(mic)' = FramesOf(mic) /\ FramesOf(ref)' = FramesOf(ref)
      /\ Captures' = Captures
  BY <1>1 DEF MicFrames, RefFrames, input_size, FramesOf, Captures
<1>3. Positions'
  BY <1>1, <1>2 DEF Progress, Positions
<1>4. Outcomes'
  BY <1>1, <1>2 DEF Progress, Outcomes
<1>5. Dumps'
  <2>1. \A name : GetRawFile(name)' = GetRawFile(name)
    BY <1>1 DEF GetRawFile, Opened
  <2>. QED
    BY <1>1, <1>2, <2>1 DEF Progress, Dumps
<1>. QED
  BY <1>3, <1>4, <1>5 DEF Progress

LEMMA ReadMicKeepsProgress ==
  ASSUME AppTypes, OneAtATime, input_size > 0, Progress, ReadMic
  PROVE  Progress'
<1>1. /\ pc = "read_mic" /\ pc' = "read_ref" /\ mic_read + input_size <= mic.length
      /\ mic_read' = mic_read + input_size
      /\ UNCHANGED <<mic, ref, ref_read, first_process_call, processed, raw_files,
                     likelihood_csv, exit_code>>
  BY DEF ReadMic, WholeFrame, AfterRead, vars, files, outputs
<1>2. /\ RefFrames' = RefFrames /\ input_size' = input_size
      /\ FramesOf(mic)' = FramesOf(mic) /\ FramesOf(ref)' = FramesOf(ref)
  BY <1>1 DEF RefFrames, input_size, FramesOf
<1>3. /\ MicFrames' = MicFrames + 1 /\ MicFrames' <= FramesOf(mic)
      /\ mic_read' = input_size' * MicFrames'
  <2>1. /\ input_size \in Nat \ {0} /\ mic_read \in Nat /\ mic.length \in Nat
        /\ mic_read = input_size * (mic_read \div input_size)
    BY <1>1, FrameNumbers, FilesRead, FilesAssumption DEF Progress, Positions, MicFrames
  <2>2. /\ (mic_read + input_size) \div input_size = mic_read \div input_size + 1
        /\ (mic_read + input_size) \div input_size <= mic.length \div input_size
        /\ mic_read + input_size = input_size * ((mic_read + input_size) \div input_size)
    BY <1>1, <2>1, FrameRead
  <2>. QED
    BY <1>1, <1>2, <2>2 DEF MicFrames, FramesOf
<1>4. Captures' = Captures /\ Captures = MicFrames /\ MicFrames \in Nat
  BY <1>1, <1>3, FrameNumbers DEF Captures
<1>5. Positions'
  BY <1>1, <1>2, <1>3, <1>4 DEF Progress, Positions
<1>6. Outcomes'
  BY <1>1, <1>2, <1>4 DEF Progress, Outcomes
<1>7. Dumps'
  <2>1. \A name : GetRawFile(name)' = GetRawFile(name)
    BY <1>1 DEF GetRawFile, Opened
  <2>. QED
    BY <1>1, <1>2, <1>4, <2>1 DEF Progress, Dumps
<1>. QED
  BY <1>5, <1>6, <1>7 DEF Progress

LEMMA EndOfMicKeepsProgress ==
  ASSUME AppTypes, OneAtATime, input_size > 0, Progress, EndOfMic
  PROVE  Progress'
<1>1. /\ pc = "read_mic" /\ pc' = "exit" /\ exit_code' = 0
      /\ ~ (mic_read + input_size <= mic.length) /\ mic_read' = mic.length
      /\ likelihood_csv' = likelihood_csv + processed
      /\ UNCHANGED <<mic, ref, ref_read, first_process_call, processed, raw_files>>
  BY DEF EndOfMic, DestroyDetector, WholeFrame, AfterRead, vars, files, outputs
<1>2. /\ RefFrames' = RefFrames /\ input_size' = input_size
      /\ FramesOf(mic)' = FramesOf(mic) /\ FramesOf(ref)' = FramesOf(ref)
  BY <1>1 DEF RefFrames, input_size, FramesOf
<1>3. MicFrames = FramesOf(mic) /\ MicFrames' = MicFrames
  <2>1. /\ input_size \in Nat \ {0} /\ mic_read \in Nat /\ mic.length \in Nat
        /\ mic_read <= mic.length
        /\ mic_read = input_size * (mic_read \div input_size)
    BY <1>1, FrameNumbers, FilesRead, FilesAssumption
       DEF Progress, Positions, MicFrames, AppTypes
  <2>2. mic_read + input_size > mic.length
    BY <1>1, <2>1
  <2>3. mic_read \div input_size = mic.length \div input_size
    BY <2>1, <2>2, FrameRead
  <2>. QED
    BY <1>1, <1>2, <2>3 DEF MicFrames, FramesOf
<1>4. Captures' = Captures
  BY <1>1, <1>3 DEF Captures
<1>5. Positions'
  BY <1>1, <1>2, <1>3, FrameNumbers DEF Progress, Positions
<1>6. Outcomes'
  BY <1>1, <1>2, <1>4 DEF Progress, Outcomes
<1>7. Dumps'
  <2>1. \A name : GetRawFile(name)' = GetRawFile(name)
    BY <1>1 DEF GetRawFile, Opened
  <2>2. processed \in Nat
    BY <1>1, FrameNumbers DEF Progress, Outcomes, Processed, AtMost, Captures
  <2>3. likelihood_csv' = processed'
    BY <1>1, <2>2 DEF Progress, Dumps
  <2>. QED
    BY <1>1, <1>2, <1>4, <2>1, <2>3 DEF Progress, Dumps
<1>. QED
  BY <1>5, <1>6, <1>7 DEF Progress

LEMMA RenderRefKeepsProgress ==
  ASSUME AppTypes, OneAtATime, input_size > 0, Progress, RenderRef
  PROVE  Progress'
<1>1. /\ pc = "read_ref" /\ pc' = "capture" /\ ref_read + input_size <= ref.length
      /\ ref_read' = ref_read + input_size
      /\ Render(farend_float) /\ DumpRaw(RenderDumps)
      /\ UNCHANGED <<mic, ref, mic_read, first_process_call, processed, likelihood_csv,
                     exit_code>>
  BY DEF RenderRef, WholeFrame, AfterRead, files, Render
<1>2. /\ MicFrames' = MicFrames /\ input_size' = input_size
      /\ FramesOf(mic)' = FramesOf(mic) /\ FramesOf(ref)' = FramesOf(ref)
  BY <1>1 DEF MicFrames, input_size, FramesOf
<1>3. ref_read = input_size * RefFrames
  BY <1>1, FrameNumbers, FilesRead, FilesAssumption DEF Progress, Positions
<1>4. /\ RefFrames' = RefFrames + 1 /\ RefFrames' <= FramesOf(ref)
      /\ ref_read' = input_size' * RefFrames'
  <2>1. /\ input_size \in Nat \ {0} /\ ref_read \in Nat /\ ref.length \in Nat
        /\ ref_read = input_size * (ref_read \div input_size)
    BY <1>3, FrameNumbers, FilesRead, FilesAssumption DEF RefFrames
  <2>2. /\ (ref_read + input_size) \div input_size = ref_read \div input_size + 1
        /\ (ref_read + input_size) \div input_size <= ref.length \div input_size
        /\ ref_read + input_size = input_size * ((ref_read + input_size) \div input_size)
    BY <1>1, <2>1, FrameRead
  <2>. QED
    BY <1>1, <1>2, <2>2 DEF RefFrames, FramesOf
<1>5. /\ Captures' = Captures /\ Captures = MicFrames - 1
      /\ MicFrames \in Nat /\ MicFrames > 0 /\ RefFrames \in Nat
      /\ FramesOf(ref) \in Nat /\ FramesOf(ref) <= MaxUnits
      /\ MaxUnits \in Nat /\ MaxRecords \in Nat /\ MaxUnits <= MaxRecords
  BY <1>1, <1>2, FrameNumbers DEF Captures, Progress, Positions
<1>6. RefFrames = MicFrames - 1 /\ MicFrames <= FramesOf(ref)
  <2>1. RefFrames = AtMost(MicFrames - 1, FramesOf(ref))
    BY <1>1 DEF Progress, Positions
  <2>2. RefFrames < FramesOf(ref)
    BY <1>4, <1>5
  <2>. QED
    BY <1>5, <2>1, <2>2 DEF AtMost
<1>7. Positions'
  <2>1. RefFrames' = AtMost(MicFrames', FramesOf(ref)')
    BY <1>2, <1>4, <1>5, <1>6 DEF AtMost
  <2>. QED
    BY <1>1, <1>2, <1>4, <1>5, <2>1 DEF Progress, Positions
<1>8. Outcomes'
  <2>1. queue' # <<>>
    <3>1. queue = <<>>
      BY <1>1 DEF OneAtATime
    <3>. QED
      BY <1>1, <3>1, SizeAssumption DEF Render, Enqueued, Drifted
  <2>2. queue' = <<>> <=> MicFrames' > FramesOf(ref)'
    BY <1>2, <1>5, <1>6, <2>1
  <2>. QED
    BY <1>1, <1>2, <1>5, <2>2 DEF Progress, Outcomes
<1>9. Dumps'
  <2>1. \A name : GetRawFile(name)' =
          IF name \in RenderDumps /\ GetRawFile(name) < MaxRecords
          THEN GetRawFile(name) + 1 ELSE GetRawFile(name)
    BY <1>1, DumpCounts DEF AppTypes
  <2>2. ASSUME NEW name \in RenderDumps PROVE GetRawFile(name)' = RefFrames'
    <3>1. GetRawFile(name) = RefFrames
      BY DEF Progress, Dumps
    <3>2. RefFrames < MaxRecords
      BY <1>5, <1>6
    <3>. QED
      BY <1>4, <2>1, <3>1, <3>2
  <2>3. ASSUME NEW name \in CaptureDumps \cup PairDumps
        PROVE  GetRawFile(name)' = GetRawFile(name)
    <3>1. name \notin RenderDumps
      BY DEF CaptureDumps, PairDumps, RenderDumps
    <3>. QED
      BY <2>1, <3>1
  <2>. QED
    BY <1>1, <1>5, <2>2, <2>3 DEF Progress, Dumps
<1>. QED
  BY <1>7, <1>8, <1>9 DEF Progress

LEMMA EndOfRefKeepsProgress ==
  ASSUME AppTypes, OneAtATime, input_size > 0, Progress, EndOfRef
  PROVE  Progress'
<1>1. /\ pc = "read_ref" /\ pc' = "capture" /\ ~ (ref_read + input_size <= ref.length)
      /\ ref_read' = ref.length
      /\ UNCHANGED <<mic, ref, mic_read, first_process_call, queue, processed, raw_files,
                     likelihood_csv, exit_code>>
  BY DEF EndOfRef, WholeFrame, AfterRead, files, vars, outputs
<1>2. /\ MicFrames' = MicFrames /\ input_size' = input_size
      /\ FramesOf(mic)' = FramesOf(mic) /\ FramesOf(ref)' = FramesOf(ref)
  BY <1>1 DEF MicFrames, input_size, FramesOf
<1>3. RefFrames = FramesOf(ref) /\ RefFrames' = RefFrames
  <2>1. /\ input_size \in Nat \ {0} /\ ref_read \in Nat /\ ref.length \in Nat
        /\ ref_read <= ref.length
        /\ ref_read = input_size * (ref_read \div input_size) \/ ref_read = ref.length
    BY FrameNumbers, FilesRead, FilesAssumption
       DEF Progress, Positions, RefFrames, AppTypes
  <2>2. ref_read + input_size > ref.length
    BY <1>1, <2>1
  <2>3. ref_read \div input_size = ref.length \div input_size
    BY <2>1, <2>2, FrameRead
  <2>. QED
    BY <1>1, <1>2, <2>3 DEF RefFrames, FramesOf
<1>4. /\ Captures' = Captures
      /\ MicFrames \in Nat /\ MicFrames > 0 /\ FramesOf(ref) \in Nat
  BY <1>1, <1>2, FrameNumbers DEF Captures, Progress, Positions
<1>5. MicFrames > FramesOf(ref)
  <2>1. FramesOf(ref) = AtMost(MicFrames - 1, FramesOf(ref))
    BY <1>1, <1>3 DEF Progress, Positions
  <2>. QED
    BY <1>4, <2>1 DEF AtMost
<1>6. Positions'
  <2>1. RefFrames' = AtMost(MicFrames', FramesOf(ref)')
    BY <1>2, <1>3, <1>4, <1>5 DEF AtMost
  <2>. QED
    BY <1>1, <1>2, <1>4, <2>1 DEF Progress, Positions
<1>7. Outcomes'
  <2>1. queue' = <<>>
    BY <1>1 DEF OneAtATime
  <2>. QED
    BY <1>1, <1>2, <1>4, <1>5, <2>1 DEF Progress, Outcomes
<1>8. Dumps'
  <2>1. \A name : GetRawFile(name)' = GetRawFile(name)
    BY <1>1 DEF GetRawFile, Opened
  <2>. QED
    BY <1>1, <1>3, <1>4, <2>1 DEF Progress, Dumps
<1>. QED
  BY <1>6, <1>7, <1>8 DEF Progress

LEMMA CaptureKeepsProgress ==
  ASSUME AppTypes, OneAtATime, input_size > 0, Progress, Capture
  PROVE  Progress'
<1>1. /\ pc = "capture" /\ pc' = "read_mic"
      /\ UNCHANGED <<mic, ref, mic_read, ref_read, likelihood_csv, exit_code>>
  BY DEF Capture, files
<1>2. /\ MicFrames' = MicFrames /\ RefFrames' = RefFrames /\ input_size' = input_size
      /\ FramesOf(mic)' = FramesOf(mic) /\ FramesOf(ref)' = FramesOf(ref)
  BY <1>1 DEF MicFrames, RefFrames, input_size, FramesOf
<1>3. /\ MicFrames \in Nat /\ MicFrames > 0 /\ FramesOf(ref) \in Nat
      /\ MicFrames <= FramesOf(mic) /\ FramesOf(mic) \in Nat /\ FramesOf(mic) <= MaxUnits
      /\ MaxUnits \in Nat /\ MaxRecords \in Nat /\ MaxUnits <= MaxRecords
  BY <1>1, FrameNumbers DEF Progress, Positions
<1>4. Captures = MicFrames - 1 /\ Captures' = Captures + 1 /\ Captures \in Nat
  BY <1>1, <1>2, <1>3 DEF Captures
<1>5. Positions'
  BY <1>1, <1>2 DEF Progress, Positions
<1>6. /\ first_process_call <=> Captures = 0
      /\ queue = <<>> <=> Captures >= FramesOf(ref)
      /\ processed = Processed(Captures, FramesOf(ref))
  BY <1>1, <1>3, <1>4 DEF Progress, Outcomes
<1>7. ~ first_process_call'
  BY DEF Capture, CaptureNothing, CaptureOldest
<1>8. /\ \/ processed' = processed /\ DumpRaw(CaptureDumps)
         \/ processed' = processed + 1 /\ DumpRaw(CaptureDumps \cup PairDumps)
      /\ processed' = Processed(Captures + 1, FramesOf(ref))
  <2>1. CASE CaptureNothing /\ DumpRaw(CaptureDumps) /\ UNCHANGED processed
    <3>1. Captures = 0 \/ Captures >= FramesOf(ref)
      BY <1>6, <2>1 DEF CaptureNothing
    <3>. QED
      BY <1>3, <1>4, <1>6, <2>1, <3>1 DEF Processed, AtMost
  <2>2. CASE /\ CaptureOldest /\ DumpRaw(CaptureDumps \cup PairDumps)
             /\ processed' = IF processed < MaxUnits THEN processed + 1 ELSE processed
    <3>1. Captures > 0 /\ Captures < FramesOf(ref)
      BY <1>3, <1>4, <1>6, <2>2 DEF CaptureOldest
    <3>2. processed = Captures - 1 /\ Processed(Captures + 1, FramesOf(ref)) = Captures
      BY <1>3, <1>4, <1>6, <3>1 DEF Processed, AtMost
    <3>. QED
      BY <1>3, <1>4, <2>2, <3>1, <3>2
  <2>. QED
    BY <2>1, <2>2 DEF Capture
<1>9. Outcomes'
  <2>1. Captures' # 0
    BY <1>4
  <2>. QED
    BY <1>1, <1>2, <1>4, <1>7, <1>8, <2>1 DEF Outcomes
<1>10. Dumps'
  <2>1. PICK names \in {CaptureDumps, CaptureDumps \cup PairDumps} :
          /\ DumpRaw(names)
          /\ processed' = IF names = CaptureDumps THEN processed ELSE processed + 1
    BY <1>8 DEF CaptureDumps, PairDumps
  <2>2. \A name : GetRawFile(name)' =
          IF name \in names /\ GetRawFile(name) < MaxRecords
          THEN GetRawFile(name) + 1 ELSE GetRawFile(name)
    BY <2>1, DumpCounts DEF AppTypes
  <2>3. processed \in Nat /\ processed < MaxRecords /\ Captures < MaxRecords
    BY <1>3, <1>4, <1>6 DEF Processed, AtMost
  <2>4. ASSUME NEW name \in RenderDumps PROVE GetRawFile(name)' = RefFrames'
    <3>1. name \notin names
      BY DEF CaptureDumps, PairDumps, RenderDumps
    <3>. QED
      BY <1>2, <2>2, <3>1 DEF Progress, Dumps
  <2>5. ASSUME NEW name \in CaptureDumps PROVE GetRawFile(name)' = Captures'
    <3>1. name \in names /\ GetRawFile(name) = Captures
      BY DEF Progress, Dumps
    <3>. QED
      BY <1>4, <2>2, <2>3, <3>1
  <2>6. ASSUME NEW name \in PairDumps PROVE GetRawFile(name)' = processed'
    <3>1. GetRawFile(name) = processed
      BY DEF Progress, Dumps
    <3>2. CASE names = CaptureDumps
      <4>1. name \notin names
        BY <3>2 DEF CaptureDumps, PairDumps
      <4>2. GetRawFile(name)' = GetRawFile(name) /\ processed' = processed
        BY <2>1, <2>2, <3>2, <4>1
      <4>. QED
        BY <3>1, <4>2
    <3>3. CASE names # CaptureDumps
      <4>1. name \in names /\ processed' = processed + 1
        BY <2>1, <3>3
      <4>2. GetRawFile(name)' = GetRawFile(name) + 1
        BY <2>2, <2>3, <3>1, <4>1
      <4>. QED
        BY <3>1, <4>1, <4>2
    <3>. QED
      BY <3>2, <3>3
  <2>. QED
    BY <1>1, <2>4, <2>5, <2>6 DEF Progress, Dumps
<1>. QED
  BY <1>5, <1>9, <1>10 DEF Progress

LEMMA AppInvBegins == AppInit => AppInv
<1> SUFFICES ASSUME AppInit PROVE AppInv
  OBVIOUS
<1>1. /\ mic_read = 0 /\ ref_read = 0 /\ pc = "open" /\ exit_code = -1 /\ queue = <<>>
      /\ processed = 0 /\ first_process_call = TRUE /\ DOMAIN raw_files = {}
      /\ mic \in MicFiles /\ ref \in RefFiles
  BY DEF AppInit, Init, DumperInit
<1>2. AppTypes
  <2>1. mic.length \in Nat /\ ref.length \in Nat
    BY <1>1, FilesAssumption DEF MicFiles, RefFiles
  <2>2. raw_files \in [DOMAIN raw_files -> Nat \ {0}]
    BY DEF AppInit, DumperInit
  <2>. QED
    BY <1>1, <2>1, <2>2 DEF AppTypes
<1>3. OneAtATime
  BY <1>1 DEF OneAtATime
<1>4. ASSUME input_size > 0 PROVE Positions /\ Outcomes /\ Dumps
  <2>1. /\ input_size \in Nat \ {0} /\ FramesOf(mic) \in Nat /\ FramesOf(ref) \in Nat
    BY <1>2, <1>4, FrameNumbers
  <2>2. MicFrames = 0 /\ RefFrames = 0 /\ Captures = 0
    <3>1. 0 \div input_size \in Nat /\ 0 \div input_size <= 0
      BY <2>1, Quotient
    <3>. QED
      BY <1>1, <3>1 DEF MicFrames, RefFrames, Captures
  <2>3. Positions
    BY <1>1, <2>1, <2>2 DEF Positions, AtMost
  <2>4. Outcomes
    BY <1>1, <2>1, <2>2 DEF Outcomes, Processed, AtMost
  <2>5. Dumps
    BY <1>1, <2>2 DEF Dumps, GetRawFile, Opened
  <2>. QED
    BY <2>3, <2>4, <2>5
<1>. QED
  BY <1>2, <1>3, <1>4 DEF AppInv

LEMMA AppInvKept == AppInv /\ [AppNext]_appVars => AppInv'
<1> SUFFICES ASSUME AppInv, [AppNext]_appVars PROVE AppInv'
  OBVIOUS
<1>1. AppTypes' /\ OneAtATime'
  BY OneAtATimeKept DEF AppInv
<1>2. input_size' = input_size
  BY DEF AppNext, Reject, Accept, ReadMic, EndOfMic, RenderRef, EndOfRef, Capture, Ended,
         appVars, files, input_size
<1>3. ASSUME input_size > 0 PROVE Progress'
  <2>. AppTypes /\ OneAtATime /\ Progress
    BY <1>3 DEF AppInv, Progress
  <2>1. CASE Reject \/ Accept
    BY <1>3, <2>1, StartKeepsProgress
  <2>2. CASE ReadMic
    BY <1>3, <2>2, ReadMicKeepsProgress
  <2>3. CASE EndOfMic
    BY <1>3, <2>3, EndOfMicKeepsProgress
  <2>4. CASE RenderRef
    BY <1>3, <2>4, RenderRefKeepsProgress
  <2>5. CASE EndOfRef
    BY <1>3, <2>5, EndOfRefKeepsProgress
  <2>6. CASE Capture
    BY <1>3, <2>6, CaptureKeepsProgress
  <2>7. CASE Ended \/ UNCHANGED appVars
    BY <2>7 DEF Ended, appVars, vars, files, outputs, Progress, Positions, Outcomes, Dumps,
                MicFrames, RefFrames, Captures, FramesOf, input_size, GetRawFile, Opened
  <2>. QED
    BY <2>1, <2>2, <2>3, <2>4, <2>5, <2>6, <2>7 DEF AppNext
<1>. QED
  BY <1>1, <1>2, <1>3 DEF AppInv, Progress

LEMMA AppInvHolds == AppSpec => []AppInv
BY AppInvBegins, AppInvKept, PTL DEF AppSpec

\* Each capture of main is compared with the reference frame of its own iteration, for
\* files of every length and a buffer of every size, also after the reference has ended.
THEOREM CapturesAreInStep == AppSpec => []InStep
<1>1. AppInv => InStep
  <2> SUFFICES ASSUME OneAtATime PROVE InStep
    BY DEF AppInv
  <2>1. Len(queue) <= 1
    <3>1. CASE queue = <<>>
      BY <3>1
    <3>2. CASE queue = <<farend_float>>
      BY <3>2
    <3>. QED
      BY <3>1, <3>2 DEF OneAtATime
  <2>. QED
    BY <2>1 DEF OneAtATime, InStep
<1>. QED
  BY <1>1, AppInvHolds, PTL

\* Main processes as many captures as both files have whole frames, less the first, for
\* files of every length.
THEOREM AllPairsButTheFirst == AppSpec => []EveryPairButTheFirst
<1>1. AppInv => EveryPairButTheFirst
  <2> SUFFICES ASSUME AppInv, pc = "exit", exit_code = 0, input_size > 0
               PROVE  processed = IF Pairs = 0 THEN 0 ELSE Pairs - 1
    BY DEF EveryPairButTheFirst
  <2>1. Captures = FramesOf(mic) /\ processed = Processed(Captures, FramesOf(ref))
    BY DEF AppInv, Positions, Outcomes, Captures
  <2>. QED
    BY <2>1 DEF Processed, AtMost, Pairs
<1>. QED
  BY <1>1, AppInvHolds, PTL

\* The debug files account for the frames of both files and for the captures processed,
\* and none is left empty, for files of every length.
THEOREM DumpsAreComplete == AppSpec => []DumpsMatchTheFiles
<1>1. AppInv => DumpsMatchTheFiles
  <2> SUFFICES ASSUME AppInv, pc = "exit", exit_code = 0, input_size > 0
               PROVE  /\ \A name \in RenderDumps : GetRawFile(name) = Pairs
                      /\ \A name \in CaptureDumps : GetRawFile(name) = FramesOf(mic)
                      /\ \A name \in PairDumps : GetRawFile(name) = likelihood_csv
                      /\ \A name \in DOMAIN raw_files : raw_files[name] > 0
    BY DEF DumpsMatchTheFiles
  <2>1. Captures = FramesOf(mic) /\ RefFrames = Pairs
    BY DEF AppInv, Positions, Captures, AtMost, Pairs
  <2>2. likelihood_csv = processed
    BY DEF AppInv, Dumps
  <2>3. \A name \in DOMAIN raw_files : raw_files[name] > 0
    BY DEF AppInv, AppTypes
  <2>. QED
    BY <2>1, <2>2, <2>3 DEF AppInv, Dumps
<1>. QED
  BY <1>1, AppInvHolds, PTL
==================================================================================
