---------------------------- MODULE V4l2SinkProofs ----------------------------
(****************************************************************************)
(* Proofs about the v4l2 sink, for any number of frames, any dates and any  *)
(* range of the clock: the frames are handed over once and in order, no     *)
(* thread of it outlives its closing, and the clock that delays its frames  *)
(* is exact when all of them are late by the same time.                     *)
(****************************************************************************)
EXTENDS V4l2Sink, VideoBufferProofs, FiniteSetTheorems, WellFoundedInduction

\* A pending frame has exactly one claim, and there is none without.
ClaimInv ==
  \/ consumed /\ ~has_frame /\ sink # "consume" /\ \A t \in Producers : ~Telling(t)
  \/ ~consumed /\ has_frame /\ sink # "consume" /\ \A t \in Producers : ~Telling(t)
  \/ ~consumed /\ ~has_frame /\ sink = "consume" /\ \A t \in Producers : ~Telling(t)
  \/ /\ ~consumed /\ ~has_frame /\ sink # "consume"
     /\ \E t \in Producers : Telling(t) /\ \A u \in Producers \ {t} : ~Telling(u)

\* Which thread has ended when the decoder goes through the closing.
ClosingInv ==
  /\ at \in {"opening", "undo", "abandoned"} => sink = "none"
  /\ at = "joinBuffer" => sink = "done"
  /\ at = "closed" => pc["buffering"] = "done" /\ sink \in {"none", "done"}

\* The last frame taken is older than all those on their way.
TakenInv == taken \in 0..newest /\ \A f \in InFlight : taken < f

\* A point of the clock, and how many it keeps.
Points == [system : Int, stream : Int]
Size == SC_CLOCK_RANGE

\* Where the j-th of the last points is, the first being the newest.
Place(head, j) == IF j <= head THEN head - j ELSE head - j + Size

\* The ring and the sums, when n points were given.
Kept(c, n) ==
  LET half == c.count \div 2
      first == n - c.count + 1
  IN /\ c.points \in [0..Size - 1 -> Points]
     /\ c.count = (IF n < Size THEN n ELSE Size)
     /\ c.head \in 0..Size - 1 /\ (n < Size => c.head = n)
     /\ \A j \in 1..c.count : c.points[Place(c.head, j)] = Point(n + 1 - j)
     /\ c.left_sum = SumOf(first, first + half - 1)
     /\ c.right_sum = SumOf(first + half, n)

\* The clock of a buffered sink.
ClockInv == buffered => Kept(clock, newest)

IInv == TypeOK /\ VideoBufferInv /\ ClaimInv /\ ClosingInv /\ TakenInv /\ ClockInv

-------------------------------------------------------------------------------
(* The steps. *)

\* Every step but the one of the consumer is one of the video buffer or leaves it alone.
LEMMA Steps ==
  ASSUME [Next]_vars
  PROVE  VideoBufferNext \/ Consume
<1>1. CASE Opening
  BY <1>1 DEF Opening, Open, OpenFails, OpenFailsAtOnce, VideoBufferNext
<1>2. CASE Push \/ Close
  BY <1>2 DEF Push, Close, VideoBufferNext
<1>3. CASE ClosingStep
  BY <1>3 DEF ClosingStep, Undone, StopBuffer, JoinSink, Closed, VideoBufferNext
<1>4. CASE Buffering
  BY <1>4 DEF Buffering, VideoBufferNext
<1>5. ASSUME NEW t \in Producers, ProducerStep(t) PROVE VideoBufferNext
  BY <1>5 DEF ProducerStep, OfferFrame, OnNewFrame, VideoBufferNext
<1>6. CASE SinkStep
  BY <1>6 DEF SinkStep, Wait, Ready, Told, Encode, EncodeFails, VideoBufferNext
<1>7. CASE UNCHANGED vars
  BY <1>7 DEF vars, VideoBufferNext
<1> QED BY <1>1, <1>2, <1>3, <1>4, <1>5, <1>6, <1>7 DEF Next

\* So every step keeps the frames in order.
LEMMA VideoBufferKept ==
  ASSUME VideoBufferInv, [Next]_vars
  PROVE  VideoBufferInv' /\ Accepts
<1>1. CASE Consume
  BY <1>1, ConsumeOldest DEF Consume
<1>2. CASE VideoBufferNext
  BY <1>2, VideoBufferStep
<1> QED BY <1>1, <1>2, Steps

\* Every step keeps the types.
LEMMA TypeNext == IInv /\ [Next]_vars => TypeOK'
<1> SUFFICES ASSUME TypeOK, VideoBufferInv, [Next]_vars PROVE TypeOK'
  BY DEF IInv
<1>v. VideoBufferTypeOK' /\ VideoBufferTypeOK
  BY VideoBufferKept DEF VideoBufferInv
<1> USE DEF TypeOK, v4l2
<1>1. CASE Opening
  BY <1>1, <1>v DEF Opening, Open, OpenFails, OpenFailsAtOnce
<1>2. CASE Push \/ Close
  BY <1>2, <1>v DEF Push, Close, Signal
<1>3. CASE ClosingStep
  BY <1>3, <1>v DEF ClosingStep, Undone, StopBuffer, JoinSink, Closed
<1>4. CASE Buffering
  BY <1>4, <1>v DEF Buffering
<1>5. ASSUME NEW t \in Producers, ProducerStep(t) PROVE TypeOK'
  BY <1>5, <1>v DEF ProducerStep, OfferFrame, OnNewFrame, Signal
<1>6. CASE SinkStep
  BY <1>6, <1>v DEF SinkStep, Wait, Ready, Told, Consume, Encode, EncodeFails, VideoBufferTypeOK
<1>7. CASE UNCHANGED vars
  BY <1>7, <1>v DEF vars
<1> QED BY <1>1, <1>2, <1>3, <1>4, <1>5, <1>6, <1>7 DEF Next

\* Every step keeps one claim on a pending frame.
LEMMA ClaimNext == IInv /\ [Next]_vars => ClaimInv'
<1> SUFFICES ASSUME TypeOK, VideoBufferInv, ClaimInv, ClosingInv, [Next]_vars PROVE ClaimInv'
  BY DEF IInv
<1>t. /\ pc \in [Producers -> Labels] /\ skipped \in [Producers -> BOOLEAN]
      /\ consumed \in BOOLEAN /\ has_frame \in BOOLEAN
  BY DEF TypeOK, VideoBufferInv, VideoBufferTypeOK, PlacesInv
<1>1. CASE Untelling /\ has_frame' = has_frame /\ (sink' = "consume" <=> sink = "consume")
  <2>1. consumed' = consumed /\ \A t \in Producers : Telling(t)' <=> Telling(t)
    BY <1>1, UntellingEffect
  <2> QED BY <1>1, <2>1 DEF ClaimInv
<1>2. ASSUME NEW t \in Producers, Offer(t), UNCHANGED <<has_frame, sink>>
      PROVE  ClaimInv'
  <2>1. /\ consumed' = FALSE /\ ~Telling(t) /\ (Telling(t)' <=> consumed)
        /\ \A u \in Producers \ {t} : Telling(u)' <=> Telling(u)
    BY <1>2, <1>t DEF Offer, FramePush, Goto, Telling
  <2>2. CASE consumed
    BY <1>2, <2>1, <2>2 DEF ClaimInv
  <2>3. CASE ~consumed
    BY <1>2, <2>1, <2>3 DEF ClaimInv
  <2> QED BY <2>2, <2>3
<1>3. ASSUME NEW t \in Producers, OfferFails(t), UNCHANGED <<has_frame, sink>>
      PROVE  ClaimInv'
  <2>1. consumed' = consumed /\ \A u \in Producers : Telling(u)' <=> Telling(u)
    BY <1>3, <1>t DEF OfferFails, FramePushFails, Resume, Goto, Telling
  <2> QED BY <1>3, <2>1 DEF ClaimInv
<1>4. ASSUME NEW t \in Producers, OnNewFrame(t)
      PROVE  ClaimInv'
  <2>1. /\ consumed' = consumed /\ ~Telling(t)' /\ (Telling(t) <=> ~skipped[t])
        /\ \A u \in Producers \ {t} : Telling(u)' <=> Telling(u)
    BY <1>4, <1>t DEF OnNewFrame, Notify, Resume, Goto, Telling, frameBuffer
  <2>2. CASE skipped[t]
    BY <1>4, <2>1, <2>2 DEF ClaimInv, OnNewFrame
  <2>3. CASE ~skipped[t]
    <3>1. /\ ~consumed /\ ~has_frame /\ sink # "consume" /\ \A u \in Producers \ {t} : ~Telling(u)
      BY <2>1, <2>3 DEF ClaimInv
    <3>2. has_frame' = TRUE /\ sink' # "consume"
      BY <1>4, <2>3, <3>1 DEF OnNewFrame, Signal
    <3> QED BY <2>1, <3>1, <3>2 DEF ClaimInv
  <2> QED BY <2>2, <2>3
<1>5. CASE Ready
  <2>1. /\ has_frame /\ sink # "consume" /\ has_frame' = FALSE /\ sink' = "consume"
        /\ consumed' = consumed /\ \A t \in Producers : Telling(t)' <=> Telling(t)
    BY <1>5 DEF Ready, Telling, frameBuffer, videoBuffer
  <2> QED BY <2>1 DEF ClaimInv
<1>6. CASE Consume
  <2>1. /\ sink = "consume" /\ sink' = "encode" /\ has_frame' = has_frame /\ consumed' = TRUE
        /\ \A t \in Producers : Telling(t)' <=> Telling(t)
    BY <1>6 DEF Consume, FrameConsume, Telling, videoBuffer
  <2> QED BY <2>1 DEF ClaimInv
<1>7. ASSUME Opening \/ Push \/ Close \/ ClosingStep \/ Buffering \/ Wait \/ Told
               \/ Encode \/ EncodeFails \/ UNCHANGED vars
      PROVE  Untelling /\ has_frame' = has_frame /\ (sink' = "consume" <=> sink = "consume")
  <2>1. CASE Opening
    BY <2>1 DEF Opening, Open, OpenFails, OpenFailsAtOnce, Untelling, ClosingInv
  <2>2. CASE Push \/ Close
    BY <2>2 DEF Push, Close, Signal, v4l2, Untelling
  <2>3. CASE ClosingStep
    BY <2>3 DEF ClosingStep, Undone, StopBuffer, JoinSink, Closed, Untelling
  <2>4. CASE Buffering \/ UNCHANGED vars
    BY <2>4 DEF Buffering, v4l2, vars, Untelling
  <2>5. CASE Wait \/ Told \/ Encode \/ EncodeFails
    BY <2>5 DEF Wait, Told, Encode, EncodeFails, Untelling
  <2> QED BY <1>7, <2>1, <2>2, <2>3, <2>4, <2>5
<1>8. ASSUME NEW t \in Producers, ProducerStep(t)
      PROVE  OnNewFrame(t) \/ ((Offer(t) \/ OfferFails(t)) /\ UNCHANGED <<has_frame, sink>>)
  BY <1>8 DEF ProducerStep, OfferFrame, v4l2
<1> QED BY <1>1, <1>2, <1>3, <1>4, <1>5, <1>6, <1>7, <1>8 DEF Next, SinkStep

\* Every step keeps which threads have ended.
LEMMA ClosingNext == IInv /\ [Next]_vars => ClosingInv'
<1> SUFFICES ASSUME TypeOK, VideoBufferInv, ClosingInv, [Next]_vars PROVE ClosingInv'
  BY DEF IInv
<1>d. pc["buffering"] = "done" => pc'["buffering"] = "done"
  <2>1. Consume => pc' = pc
    BY DEF Consume, videoBuffer
  <2> QED BY <2>1, Steps, ThreadsStayDone
<1> USE DEF ClosingInv, v4l2
<1>1. CASE Opening
  BY <1>1, <1>d DEF Opening, Open, OpenFails, OpenFailsAtOnce
<1>2. CASE Push \/ Close
  BY <1>2, <1>d DEF Push, Close, Signal
<1>3. CASE ClosingStep
  BY <1>3, <1>d DEF ClosingStep, Undone, StopBuffer, JoinSink, Closed
<1>4. CASE Buffering
  BY <1>4, <1>d DEF Buffering
<1>5. ASSUME NEW t \in Producers, ProducerStep(t) PROVE ClosingInv'
  BY <1>5, <1>d DEF ProducerStep, OfferFrame, OnNewFrame, Signal
<1>6. CASE SinkStep
  BY <1>6, <1>d DEF SinkStep, Wait, Ready, Told, Consume, Encode, EncodeFails
<1>7. CASE UNCHANGED vars
  BY <1>7, <1>d DEF vars
<1> QED BY <1>1, <1>2, <1>3, <1>4, <1>5, <1>6, <1>7 DEF Next

\* Only one step takes a frame, and it takes the oldest.
LEMMA TakenStep ==
  ASSUME IInv, [Next]_vars
  PROVE  \/ taken' = taken
         \/ Consume /\ taken' = pending /\ pending \in InFlight
              /\ \A f \in InFlight' : pending < f
<1>1. CASE Consume
  <2>1. ~consumed
    BY <1>1 DEF IInv, ClaimInv, Consume
  <2>2. VideoBufferInv /\ FrameConsume("v4l2") /\ UNCHANGED videoBuffer /\ taken' = pending
    BY <1>1 DEF IInv, Consume
  <2> QED BY <1>1, <2>1, <2>2, ConsumeOldest
<1>2. CASE ~Consume
  BY <1>2 DEF Next, Opening, Open, OpenFails, OpenFailsAtOnce, Push, Close, ClosingStep, Undone,
       StopBuffer, JoinSink, Closed, Buffering, ProducerStep, OfferFrame, OnNewFrame, SinkStep,
       Wait, Ready, Told, Encode, EncodeFails, vars, v4l2
<1> QED BY <1>1, <1>2

\* Every step keeps the frame taken older than those on their way.
LEMMA TakenNext == IInv /\ [Next]_vars => TakenInv'
<1> SUFFICES ASSUME IInv, [Next]_vars PROVE TakenInv'
  OBVIOUS
<1>1. VideoBufferInv' /\ Accepts /\ newest \in Nat /\ MaxFrames \in Nat
        /\ taken \in 0..newest /\ (\A f \in InFlight : taken < f) /\ pending \in 0..newest
  BY VideoBufferKept, FrameBufferAssumption
  DEF IInv, TakenInv, VideoBufferInv, VideoBufferTypeOK, ChainInv
<1>2. CASE taken' = taken
  BY <1>1, <1>2 DEF TakenInv, Accepts
<1>3. CASE taken' = pending /\ \A f \in InFlight' : pending < f
  BY <1>1, <1>3 DEF TakenInv, Accepts
<1> QED BY <1>2, <1>3, TakenStep

-------------------------------------------------------------------------------
(* The clock. *)

\* A set of naturals that is not empty has a least element.
LEMMA Least ==
  ASSUME NEW T, T \subseteq Nat, T # {}
  PROVE  \E n \in T : \A m \in T : n <= m
<1>1. PICK n \in T : \A m \in T : ~(<<m, n>> \in OpToRel(<, Nat))
  BY WFMin, NatLessThanWellFounded
<1>2. \A m \in T : ~(m < n)
  BY <1>1 DEF OpToRel
<1> QED BY <1>2

\* The sum and the difference of two points.
LEMMA SumOfPoints ==
  ASSUME NEW p \in Points, NEW q \in Points
  PROVE  /\ Add(p, q) \in Points /\ Sub(p, q) \in Points /\ Zero \in Points
         /\ Add(p, q).system = p.system + q.system /\ Add(p, q).stream = p.stream + q.stream
         /\ Sub(p, q).system = p.system - q.system /\ Sub(p, q).stream = p.stream - q.stream
         /\ p.system = q.system /\ p.stream = q.stream => p = q
BY DEF Points, Add, Sub, Zero

\* A point, its parts, and where they come from.
LEMMA PointType ==
  ASSUME NEW n \in Frame
  PROVE  /\ Point(n) \in Points /\ Point(n).system = Date(n) + Delay(n) /\ Point(n).stream = Date(n)
         /\ Date(n) \in Nat /\ Delay(n) \in Nat
BY DatesAssumption DEF Point, Points

\* A function of the sums of the first points, up to the n-th.
IsTotal(g, n) ==
  /\ g \in [0..n -> Points] /\ g[0] = Zero
  /\ \A k \in 1..n : g[k] = Add(g[k - 1], Point(k))

\* There is one, whatever n.
LEMMA Partial == \A n \in 0..MaxFrames : \E g : IsTotal(g, n)
<1> DEFINE T == {n \in 0..MaxFrames : ~\E g : IsTotal(g, n)}
<1> SUFFICES ASSUME T # {} PROVE FALSE
  OBVIOUS
<1>1. PICK n \in T : \A m \in T : n <= m
  <2>1. T \subseteq Nat
    OBVIOUS
  <2> QED BY <2>1, Least
<1>2. n \in 0..MaxFrames /\ ~\E g : IsTotal(g, n)
  OBVIOUS
<1>3. CASE n = 0
  <2>1. Zero \in Points
    BY DEF Zero, Points
  <2>2. IsTotal([k \in 0..0 |-> Zero], 0)
    BY <2>1 DEF IsTotal
  <2> QED BY <1>2, <1>3, <2>2
<1>4. CASE n # 0
  <2>1. n - 1 \in 0..MaxFrames /\ n - 1 \notin T /\ n \in Nat /\ n \in Frame
    BY <1>1, <1>2, <1>4, FrameBufferAssumption DEF Frame
  <2>2. PICK g : IsTotal(g, n - 1)
    BY <2>1
  <2> DEFINE next == [k \in 0..n |-> IF k = n THEN Add(g[n - 1], Point(n)) ELSE g[k]]
  <2>3. g[n - 1] \in Points /\ Add(g[n - 1], Point(n)) \in Points
    BY <2>1, <2>2, PointType, SumOfPoints DEF IsTotal
  <2>4. next \in [0..n -> Points] /\ next[n] = Add(g[n - 1], Point(n))
        /\ \A k \in 0..n - 1 : next[k] = g[k]
    BY <2>1, <2>2, <2>3 DEF IsTotal
  <2> HIDE DEF next
  <2>5. next[0] = Zero
    BY <1>4, <2>1, <2>2, <2>4 DEF IsTotal
  <2>6. ASSUME NEW k \in 1..n PROVE next[k] = Add(next[k - 1], Point(k))
    <3>1. k - 1 \in 0..n - 1 /\ next[k - 1] = g[k - 1]
      BY <2>1, <2>4
    <3>2. CASE k = n
      BY <2>4, <3>1, <3>2
    <3>3. CASE k # n
      <4>1. k \in 1..n - 1 /\ k \in 0..n - 1
        BY <2>1, <3>3
      <4> QED BY <2>2, <2>4, <3>1, <4>1 DEF IsTotal
    <3> QED BY <3>2, <3>3
  <2>7. IsTotal(next, n)
    BY <2>4, <2>5, <2>6 DEF IsTotal
  <2> QED BY <1>2, <2>7
<1> QED BY <1>3, <1>4

\* Total is such a function.
LEMMA Totals == IsTotal(Total, MaxFrames)
<1>1. PICK g : IsTotal(g, MaxFrames)
  BY Partial, FrameBufferAssumption
<1>2. g = [n \in 0..MaxFrames |-> IF n = 0 THEN Zero ELSE Add(g[n - 1], Point(n))]
  <2>1. g = [n \in 0..MaxFrames |-> g[n]]
    BY <1>1 DEF IsTotal
  <2>2. \A n \in 0..MaxFrames : g[n] = IF n = 0 THEN Zero ELSE Add(g[n - 1], Point(n))
    BY <1>1, FrameBufferAssumption DEF IsTotal
  <2> QED BY <2>1, <2>2
<1>3. Total = [n \in 0..MaxFrames |-> IF n = 0 THEN Zero ELSE Add(Total[n - 1], Point(n))]
  BY <1>2 DEF Total
<1> HIDE DEF Total
<1>4. /\ Total[0] = Zero
      /\ \A k \in 1..MaxFrames : k - 1 \in 0..MaxFrames /\ Total[k] = Add(Total[k - 1], Point(k))
  <2>1. 0 \in 0..MaxFrames /\ MaxFrames \in Nat
    BY FrameBufferAssumption
  <2>2. Total[0] = Zero
    BY <1>3, <2>1
  <2>3. ASSUME NEW k \in 1..MaxFrames
        PROVE  k - 1 \in 0..MaxFrames /\ Total[k] = Add(Total[k - 1], Point(k))
    <3>1. k \in 0..MaxFrames /\ k # 0 /\ k - 1 \in 0..MaxFrames
      BY <2>1
    <3>2. \A n \in 0..MaxFrames : Total[n] = IF n = 0 THEN Zero ELSE Add(Total[n - 1], Point(n))
      BY ZenonT(20), <1>3
    <3> QED BY <3>1, <3>2
  <2> QED BY <2>2, <2>3
<1> DEFINE T == {n \in 0..MaxFrames : Total[n] \notin Points}
<1>5. ASSUME T # {} PROVE FALSE
  <2>1. PICK n \in T : \A m \in T : n <= m
    <3>1. T \subseteq Nat
      OBVIOUS
    <3> QED BY <1>5, <3>1, Least
  <2>2. n \in 0..MaxFrames /\ Total[n] \notin Points
    OBVIOUS
  <2>3. n # 0
    BY <1>4, <2>2 DEF Zero, Points
  <2>4. n \in 1..MaxFrames /\ n - 1 \in 0..MaxFrames /\ n - 1 \notin T
    BY <2>1, <2>2, <2>3, FrameBufferAssumption
  <2>5. Total[n - 1] \in Points /\ Point(n) \in Points
    BY <2>4, PointType DEF Frame
  <2> QED BY <1>4, <2>2, <2>4, <2>5, SumOfPoints
<1>6. \A n \in 0..MaxFrames : Total[n] \in Points
  BY <1>5
<1>7. Total \in [0..MaxFrames -> Points]
  BY <1>3, <1>6
<1> QED BY <1>4, <1>7 DEF IsTotal

\* The parts of the sums.
LEMMA SumParts ==
  ASSUME NEW a \in 1..MaxFrames + 1, NEW b \in a - 1..MaxFrames
  PROVE  /\ SumOf(a, b) \in Points
         /\ SumOf(a, a - 1).stream = 0 /\ SumOf(a, a - 1).system = 0
         /\ b >= a => /\ SumOf(a, b).stream = SumOf(a, b - 1).stream + Date(b)
                     /\ SumOf(a, b).system = SumOf(a, b - 1).system + Date(b) + Delay(b)
<1>1. a - 1 \in 0..MaxFrames /\ b \in 0..MaxFrames /\ MaxFrames \in Nat
  BY FrameBufferAssumption
<1>2. Total[a - 1] \in Points /\ Total[b] \in Points
  BY <1>1, Totals DEF IsTotal
<1>3. SumOf(a, a - 1).stream = 0 /\ SumOf(a, a - 1).system = 0
  <2>1. \A p \in Points : Sub(p, p).stream = 0 /\ Sub(p, p).system = 0
    BY DEF Sub, Points
  <2> QED BY <1>2, <2>1 DEF SumOf
<1>4. ASSUME b >= a
      PROVE  /\ SumOf(a, b).stream = SumOf(a, b - 1).stream + Date(b)
             /\ SumOf(a, b).system = SumOf(a, b - 1).system + Date(b) + Delay(b)
  <2>1. b \in 1..MaxFrames /\ b - 1 \in 0..MaxFrames /\ b \in Frame
    BY <1>1, <1>4 DEF Frame
  <2>2. Total[b] = Add(Total[b - 1], Point(b)) /\ Total[b - 1] \in Points
    BY <2>1, Totals DEF IsTotal
  <2>3. /\ Point(b) \in Points /\ Point(b).stream = Date(b)
        /\ Point(b).system = Date(b) + Delay(b) /\ Date(b) \in Nat /\ Delay(b) \in Nat
    BY <2>1, PointType
  <2>4. /\ Total[b].stream = Total[b - 1].stream + Date(b)
        /\ Total[b].system = Total[b - 1].system + (Date(b) + Delay(b))
    BY <2>2, <2>3, SumOfPoints
  <2>5. /\ SumOf(a, b).stream = Total[b].stream - Total[a - 1].stream
        /\ SumOf(a, b).system = Total[b].system - Total[a - 1].system
        /\ SumOf(a, b - 1).stream = Total[b - 1].stream - Total[a - 1].stream
        /\ SumOf(a, b - 1).system = Total[b - 1].system - Total[a - 1].system
    BY <1>2, <2>2, SumOfPoints DEF SumOf
  <2>6. /\ Total[b - 1].stream \in Int /\ Total[b - 1].system \in Int
        /\ Total[a - 1].stream \in Int /\ Total[a - 1].system \in Int
    BY <1>2, <2>2 DEF Points
  <2> QED BY <2>3, <2>4, <2>5, <2>6
<1> QED BY <1>2, <1>3, <1>4, SumOfPoints DEF SumOf

\* The sums of points that all have the same delay.
LEMMA SameDelay ==
  ASSUME NEW a \in 1..MaxFrames, NEW c \in a - 1..MaxFrames, NEW d \in Nat,
         \A n \in a..c : Delay(n) = d
  PROVE  SumOf(a, c).system = SumOf(a, c).stream + (c - a + 1) * d
<1> DEFINE P(b) == SumOf(a, b).system = SumOf(a, b).stream + (b - a + 1) * d
           T == {b \in a - 1..c : ~P(b)}
<1>0. MaxFrames \in Nat /\ a \in Nat /\ c \in Int /\ a - 1 <= c /\ c <= MaxFrames /\ a >= 1
  BY FrameBufferAssumption
<1> SUFFICES ASSUME T # {} PROVE FALSE
  <2>1. c \in a - 1..c
    BY <1>0
  <2> QED BY <2>1
<1>1. PICK b \in T : \A m \in T : b <= m
  <2>1. T \subseteq Nat
    BY <1>0
  <2> QED BY <2>1, Least
<1>2. b \in a - 1..c /\ ~P(b) /\ b \in Nat
  BY <1>0
<1>3. b # a - 1
  <2>1. (a - 1) - a + 1 = 0 /\ 0 * d = 0
    BY <1>0
  <2>2. SumOf(a, a - 1).stream = 0 /\ SumOf(a, a - 1).system = 0
    BY <1>0, SumParts
  <2> QED BY <1>2, <2>1, <2>2
<1>4. b \in a..c /\ b \in Frame /\ b \in a - 1..MaxFrames /\ b - 1 \in a - 1..MaxFrames
      /\ b - 1 \in a - 1..c /\ a \in 1..MaxFrames + 1
  BY <1>0, <1>2, <1>3 DEF Frame
<1>5. P(b - 1)
  <2>1. b - 1 \notin T
    BY <1>1, <1>4
  <2> QED BY <1>4, <2>1
<1>6. /\ SumOf(a, b).stream = SumOf(a, b - 1).stream + Date(b)
      /\ SumOf(a, b).system = SumOf(a, b - 1).system + Date(b) + d
      /\ SumOf(a, b - 1).stream \in Int /\ Date(b) \in Nat
  <2>1. Delay(b) = d /\ Date(b) \in Nat
    BY <1>4, PointType
  <2>2. SumOf(a, b - 1) \in Points
    BY <1>4, SumParts
  <2>3. b >= a
    BY <1>4
  <2> QED BY <1>4, <2>1, <2>2, <2>3, SumParts DEF Points
<1> DEFINE k == b - a
<1>7. k \in Nat /\ b - a + 1 = k + 1 /\ (b - 1) - a + 1 = k
  BY <1>0, <1>4
<1> HIDE DEF k
<1>8. SumOf(a, b - 1).system = SumOf(a, b - 1).stream + k * d
  BY <1>5, <1>7
<1>9. k * d \in Nat /\ (k + 1) * d = k * d + d
  BY <1>7
<1> HIDE DEF T
<1>10. SumOf(a, b).system = SumOf(a, b).stream + (k + 1) * d
  BY <1>6, <1>8, <1>9
<1> QED BY <1>2, <1>7, <1>10

\* The sums of points at increasing dates.
LEMMA IncreasingDates ==
  ASSUME NEW a \in 1..MaxFrames, NEW c \in a..MaxFrames,
         \A n \in a..c - 1 : Date(n) < Date(n + 1)
  PROVE  /\ SumOf(a, c).stream \in Nat /\ Date(a) \in Nat /\ Date(c) \in Nat
         /\ SumOf(a, c).stream <= Date(c) * (c - a + 1)
         /\ Date(a) * (c - a + 1) <= SumOf(a, c).stream
<1> DEFINE P(b) == /\ SumOf(a, b).stream \in Nat /\ Date(a) <= Date(b)
                   /\ SumOf(a, b).stream <= Date(b) * (b - a + 1)
                   /\ Date(a) * (b - a + 1) <= SumOf(a, b).stream
           T == {b \in a..c : ~P(b)}
<1>0. /\ MaxFrames \in Nat /\ a \in Nat /\ c \in Nat /\ a <= c /\ c <= MaxFrames /\ a >= 1
      /\ a \in Frame /\ c \in Frame /\ a \in 1..MaxFrames + 1
  BY FrameBufferAssumption DEF Frame
<1>d. Date(a) \in Nat /\ Date(c) \in Nat
  BY <1>0, PointType
<1> SUFFICES ASSUME T # {} PROVE FALSE
  <2>1. c \in a..c
    BY <1>0
  <2> QED BY <1>d, <2>1
<1>1. PICK b \in T : \A m \in T : b <= m
  <2>1. T \subseteq Nat
    BY <1>0
  <2> QED BY <2>1, Least
<1>2. b \in a..c /\ ~P(b) /\ b \in Nat /\ b \in Frame
  BY <1>0 DEF Frame
<1>3. /\ SumOf(a, b).stream = SumOf(a, b - 1).stream + Date(b)
      /\ SumOf(a, a - 1).stream = 0 /\ Date(b) \in Nat
  <2>1. b \in a - 1..MaxFrames /\ b >= a
    BY <1>0, <1>2
  <2> QED BY <1>0, <1>2, <2>1, SumParts, PointType
<1>4. CASE b = a
  <2>1. SumOf(a, a).stream = Date(a)
    BY <1>3, <1>4, <1>d
  <2>2. a - a + 1 = 1 /\ Date(a) * 1 = Date(a)
    BY <1>0, <1>d
  <2> HIDE DEF T
  <2> QED BY <1>2, <1>4, <1>d, <2>1, <2>2
<1>5. CASE b # a
  <2>1. b - 1 \in a..c /\ b - 1 \in a..c - 1 /\ b - 1 \in Frame /\ (b - 1) + 1 = b
    BY <1>0, <1>2, <1>5 DEF Frame
  <2>2. P(b - 1)
    <3>1. b - 1 \notin T
      BY <1>1, <1>2
    <3> QED BY <2>1, <3>1
  <2>3. Date(b - 1) < Date(b) /\ Date(b - 1) \in Nat
    BY <2>1, PointType
  <2> DEFINE k == b - a
             x == Date(a)
             y == Date(b - 1)
             z == Date(b)
             s == SumOf(a, b - 1).stream
  <2>4. k \in Nat /\ b - a + 1 = k + 1 /\ (b - 1) - a + 1 = k
    BY <1>0, <1>2
  <2>5. /\ x \in Nat /\ y \in Nat /\ z \in Nat /\ s \in Nat /\ y < z /\ x <= y
        /\ SumOf(a, b).stream = s + z
    BY <1>3, <1>d, <2>2, <2>3
  <2> HIDE DEF k, T, x, y, z, s
  <2>6. s <= y * k /\ x * k <= s
    BY <2>2, <2>4 DEF s, x, y
  <2>7. y * k <= z * k /\ z * (k + 1) = z * k + z /\ x * (k + 1) = x * k + x
        /\ y * k \in Nat /\ z * k \in Nat /\ x * k \in Nat
    BY <2>4, <2>5
  <2>8. /\ s + z \in Nat /\ s + z <= z * (k + 1) /\ x * (k + 1) <= s + z /\ x <= z
    BY <2>5, <2>6, <2>7
  <2> QED BY <1>2, <2>4, <2>5, <2>8 DEF x, z
<1> QED BY <1>4, <1>5

\* A quotient is bounded as what is divided is.
LEMMA Bounded ==
  ASSUME NEW k \in Nat \ {0}, NEW l \in Nat, NEW x \in Nat
  PROVE  /\ l \div k \in Nat
         /\ l <= x * k => l \div k <= x
         /\ x * k <= l => x <= l \div k
         /\ (x * k) \div k = x
<1> DEFINE q == l \div k
           r == l % k
<1>1. q \in Nat /\ r \in 0..k - 1 /\ l = k * q + r
  OBVIOUS
<1> HIDE DEF q, r
<1>2. ASSUME l <= x * k PROVE q <= x
  <2> SUFFICES ASSUME x + 1 <= q PROVE FALSE
    BY <1>1
  <2>1. (x + 1) * k <= q * k
    BY <1>1
  <2>2. (x + 1) * k = x * k + k /\ q * k = k * q
    BY <1>1
  <2> QED BY <1>1, <1>2, <2>1, <2>2
<1>3. ASSUME x * k <= l PROVE x <= q
  <2> SUFFICES ASSUME q + 1 <= x PROVE FALSE
    BY <1>1
  <2>1. (q + 1) * k <= x * k
    BY <1>1
  <2>2. (q + 1) * k = k * q + k
    BY <1>1
  <2> QED BY <1>1, <1>3, <2>1, <2>2
<1>4. (x * k) \div k = x
  OBVIOUS
<1> QED BY <1>1, <1>2, <1>3, <1>4 DEF q

\* A multiple of the divisor is added to the quotient.
LEMMA Added ==
  ASSUME NEW k \in Nat \ {0}, NEW l \in Nat, NEW d \in Nat
  PROVE  (l + k * d) \div k = l \div k + d
<1> DEFINE q == l \div k
           r == l % k
<1>1. q \in Nat /\ r \in 0..k - 1 /\ l = k * q + r
  OBVIOUS
<1> HIDE DEF q, r
<1>2. l + k * d = k * (q + d) + r /\ q + d \in Nat
  BY <1>1
<1>3. (k * (q + d) + r) \div k = q + d
  BY <1>1, <1>2
<1> QED BY <1>2, <1>3 DEF q

\* The sums of a clock whose points all have the same delay, and whose dates increase
\* from the older half to the newer.
Delayed(c, d) ==
  LET h == c.count \div 2
      k == (c.count + 1) \div 2
      l == c.left_sum.stream
      r == c.right_sum.stream
  IN /\ c.count \in 2..Size
     /\ l \in Nat /\ r \in Nat /\ l \div h < r \div k
     /\ c.left_sum.system = l + h * d /\ c.right_sum.system = r + k * d

\* Its slope is 1 and its offset is the delay, so that every date is exact.
LEMMA Exact ==
  ASSUME NEW c, NEW d \in Nat, Delayed(c, d), NEW date \in Nat
  PROVE  ToSystemTime(c, date) = date + d
<1> DEFINE n == c.count
           h == n \div 2
           k == (n + 1) \div 2
           l == c.left_sum.stream
           r == c.right_sum.stream
           run == r \div k - l \div h
           g == (l + r) \div n
<1>0. l \div h < r \div k
  BY DEF Delayed
<1>1. /\ n \in 2..Size /\ l \in Nat /\ r \in Nat
      /\ c.left_sum.system = l + h * d /\ c.right_sum.system = r + k * d
  BY DEF Delayed
<1>2. /\ h \in Nat \ {0} /\ k \in Nat \ {0} /\ h + k = n
      /\ Size \in Nat \ {0} /\ n \in Nat \ {0} /\ l + r \in Nat /\ n <= Size
      /\ l \in Nat /\ r \in Nat
  <2>1. Size \in Nat \ {0}
    BY ClockAssumption DEF Size
  <2> HIDE DEF l, r, n
  <2> QED BY <1>1, <2>1
<1>3. /\ LeftAvg(c) = [system |-> (l + h * d) \div h, stream |-> l \div h]
      /\ RightAvg(c) = [system |-> (r + k * d) \div k, stream |-> r \div k]
  <2>1. /\ LeftAvg(c) = [system |-> c.left_sum.system \div h, stream |-> l \div h]
        /\ RightAvg(c) = [system |-> c.right_sum.system \div k, stream |-> r \div k]
    BY DEF LeftAvg, RightAvg, Avg
  <2> HIDE DEF l, r, n, h, k
  <2> QED BY <1>1, <2>1
<1>4. GlobalAvg(c) = [system |-> ((l + h * d) + (r + k * d)) \div n, stream |-> (l + r) \div n]
  <2>1. GlobalAvg(c) = [system |-> (c.left_sum.system + c.right_sum.system) \div n,
                        stream |-> (l + r) \div n]
    BY DEF GlobalAvg, Avg, Add
  <2> HIDE DEF l, r, n, h, k
  <2> QED BY <1>1, <2>1
<1> HIDE DEF h, k, l, r
<1>5. l \div h \in Nat /\ r \div k \in Nat
  BY <1>2
<1>6. run \in Nat \ {0}
  BY <1>0, <1>5
<1>7. /\ LeftAvg(c).system = l \div h + d /\ LeftAvg(c).stream = l \div h
      /\ RightAvg(c).system = r \div k + d /\ RightAvg(c).stream = r \div k
  <2>1. (l + h * d) \div h = l \div h + d /\ (r + k * d) \div k = r \div k + d
    BY <1>2, Added
  <2> QED BY <1>3, <2>1
<1>8. /\ RightAvg(c).system - LeftAvg(c).system = run
      /\ RightAvg(c).stream - LeftAvg(c).stream = run
  <2>1. (r \div k + d) - (l \div h + d) = r \div k - l \div h
    BY <1>5
  <2> QED BY <1>7, <2>1
<1>9. GlobalAvg(c).system = g + d /\ GlobalAvg(c).stream = g /\ g \in Nat
  <2>1. (l + h * d) + (r + k * d) = (l + r) + n * d
    <3> DEFINE x == h * d
               y == k * d
               z == n * d
    <3>1. z = x + y /\ x \in Nat /\ y \in Nat /\ l \in Nat /\ r \in Nat
      BY <1>2
    <3> HIDE DEF x, y, z
    <3>2. (l + x) + (r + y) = (l + r) + z
      BY <3>1
    <3> QED BY <3>2 DEF x, y, z
  <2>2. ((l + r) + n * d) \div n = (l + r) \div n + d /\ (l + r) \div n \in Nat
    <3> DEFINE s == l + r
    <3>1. s \in Nat /\ n \in Nat \ {0}
      BY <1>2
    <3> HIDE DEF s
    <3>2. (s + n * d) \div n = s \div n + d
      BY <3>1, Added
    <3>3. s \div n \in Nat
      BY <3>1
    <3> QED BY <3>2, <3>3 DEF s
  <2> QED BY <1>4, <2>1, <2>2
<1> HIDE DEF run, g
<1> DEFINE den == Size * run
<1>10. den \in Nat \ {0}
  BY <1>2, <1>6
<1>11. Slope(c).den = den /\ Slope(c).num = den
  <2> DEFINE o == Size - n
  <2>1. o \in Nat /\ Size = n + o
    BY <1>2
  <2> HIDE DEF o
  <2>2. n * run + o * run = (n + o) * run
    BY <1>2, <1>6, <2>1
  <2>3. n * run + (Size - n) * run = Size * run
    BY <2>1, <2>2 DEF o
  <2> QED BY <1>8, <2>3 DEF Slope, Size
<1> HIDE DEF den
<1>12. (g * den) \div den = g /\ (date * den) \div den = date
  BY <1>9, <1>10, Bounded
<1>13. Offset(c) = d
  <2>1. Offset(c) = (g + d) - g
    BY <1>9, <1>11, <1>12 DEF Offset
  <2> QED BY <1>9, <2>1
<1> QED BY <1>11, <1>12, <1>13 DEF ToSystemTime

-------------------------------------------------------------------------------
(* The ring of the clock. *)

\* The ring starts empty, with sums of nothing.
LEMMA RingStarts == Kept(ClockInit, 0)
<1> DEFINE c == ClockInit
<1>1. Size \in Nat \ {0} /\ MaxFrames \in Nat
  BY ClockAssumption, FrameBufferAssumption DEF Size
<1>2. /\ c.points \in [0..Size - 1 -> Points] /\ c.count = 0 /\ c.head = 0
      /\ c.left_sum = Zero /\ c.right_sum = Zero
  BY DEF ClockInit, Size, Zero, Points
<1> HIDE DEF c
<1>3. SumOf(1, 0) = Zero
  <2>1. SumOf(1, 0) \in Points /\ SumOf(1, 0).stream = 0 /\ SumOf(1, 0).system = 0
    BY <1>1, SumParts
  <2> QED BY <2>1 DEF Points, Zero
<1>4. 0 \div 2 = 0 /\ 0 - 0 + 1 = 1 /\ 1 + 0 - 1 = 0 /\ 1 + 0 = 1
  OBVIOUS
<1>5. /\ c.count = (IF 0 < Size THEN 0 ELSE Size)
      /\ c.head \in 0..Size - 1 /\ (0 < Size => c.head = 0)
      /\ \A j \in 1..c.count : c.points[Place(c.head, j)] = Point(0 + 1 - j)
  BY <1>1, <1>2
<1>6. Kept(c, 0)
  BY <1>2, <1>3, <1>4, <1>5 DEF Kept
<1> QED BY <1>6 DEF c

\* The next head, and the places seen from it: each point is one place further.
LEMMA NextHead ==
  ASSUME NEW h \in 0..Size - 1
  PROVE  /\ (h + 1) % Size = (IF h + 1 = Size THEN 0 ELSE h + 1)
         /\ (h + 1) % Size \in 0..Size - 1
         /\ Place((h + 1) % Size, 1) = h
         /\ \A j \in 1..Size - 1 : /\ Place((h + 1) % Size, j + 1) = Place(h, j)
                                    /\ Place(h, j) # h /\ Place(h, j) \in 0..Size - 1
         /\ Place(h, Size) = h
<1>1. Size \in Nat \ {0} /\ h \in Nat /\ h < Size
  BY ClockAssumption DEF Size
<1>2. (h + 1) % Size = (IF h + 1 = Size THEN 0 ELSE h + 1)
  <2>1. CASE h + 1 = Size
    BY <1>1, <2>1
  <2>2. CASE h + 1 # Size
    <3>1. h + 1 \in 0..Size - 1
      BY <1>1, <2>2
    <3> QED BY <1>1, <2>2, <3>1
  <2> QED BY <2>1, <2>2
<1> DEFINE next == (h + 1) % Size
<1>3. next = (IF h + 1 = Size THEN 0 ELSE h + 1)
  BY <1>2
<1> HIDE DEF next
<1>4. next \in 0..Size - 1 /\ Place(next, 1) = h /\ Place(h, Size) = h
  BY <1>1, <1>3 DEF Place
<1>5. ASSUME NEW j \in 1..Size - 1
      PROVE  Place(next, j + 1) = Place(h, j) /\ Place(h, j) # h /\ Place(h, j) \in 0..Size - 1
  BY <1>1, <1>3 DEF Place
<1> QED BY <1>2, <1>4, <1>5 DEF next

\* The point that is in the middle of the ring: the one after the older half.
LEMMA MiddlePoint ==
  ASSUME NEW c, NEW n \in Nat, Kept(c, n), Full(c) \/ c.count % 2 = 1
  PROVE  /\ Mid(c) = Point(n - c.count + 1 + c.count \div 2)
<1> DEFINE half == Size \div 2
<1>1. /\ Size \in Nat \ {0} /\ half \in Nat /\ Size = 2 * half /\ half > 0
  BY ClockAssumption DEF Size
<1>2. /\ c.count = (IF n < Size THEN n ELSE Size) /\ c.count \in 0..Size
      /\ c.head \in 0..Size - 1 /\ (n < Size => c.head = n)
      /\ \A j \in 1..c.count : c.points[Place(c.head, j)] = Point(n + 1 - j)
  BY <1>1 DEF Kept
<1>3. Full(c) <=> c.count = Size
  BY DEF Full, Size
<1>4. CASE c.count = Size
  <2>1. Mid(c) = c.points[(c.head + half) % Size]
    BY <1>3, <1>4 DEF Mid, Size
  <2> HIDE DEF half
  <2>2. (c.head + half) % Size = Place(c.head, half)
    <3>1. CASE half <= c.head
      <4> DEFINE a == c.head + half
      <4>1. a \in Size..2 * Size - 1
        BY <1>1, <1>2, <3>1
      <4> HIDE DEF a
      <4>2. a % Size = a - Size
        BY <1>1, <4>1, Wraps
      <4>3. a - Size = Place(c.head, half)
        BY <1>1, <1>2, <3>1 DEF Place, a
      <4> QED BY <4>2, <4>3 DEF a
    <3>2. CASE half > c.head
      <4>1. c.head + half \in 0..Size - 1
        BY <1>1, <1>2, <3>2
      <4>2. (c.head + half) % Size = c.head + half
        BY <1>1, <4>1
      <4> QED BY <1>1, <1>2, <3>2, <4>2 DEF Place
    <3> QED BY <1>1, <1>2, <3>1, <3>2
  <2>3. half \in 1..c.count
    BY <1>1, <1>4
  <2>4. Mid(c) = Point(n + 1 - half)
    BY <1>2, <2>1, <2>2, <2>3
  <2>5. c.count \div 2 = half /\ n - c.count + 1 + half = n + 1 - half
    BY <1>1, <1>4 DEF half
  <2> QED BY <2>4, <2>5
<1>5. CASE c.count # Size
  <2> HIDE DEF half
  <2>1. c.count = n /\ c.head = n /\ n < Size
    BY <1>1, <1>2, <1>5
  <2> DEFINE k == n \div 2
  <2>2. n % 2 = 1 /\ k \in Nat /\ n = 2 * k + 1
    BY <1>3, <1>5, <2>1
  <2>3. Mid(c) = c.points[k]
    BY <1>3, <1>5, <2>1 DEF Mid
  <2> HIDE DEF k
  <2>4. /\ k + 1 \in 1..c.count /\ Place(n, k + 1) = k
        /\ n + 1 - (k + 1) = k + 1 /\ n - n + 1 + k = k + 1
    BY <2>1, <2>2 DEF Place
  <2>5. Mid(c) = Point(k + 1)
    BY <1>2, <2>1, <2>3, <2>4
  <2> QED BY <2>1, <2>4, <2>5 DEF k
<1> QED BY <1>4, <1>5

\* The oldest point of a full ring.
LEMMA OldestPoint ==
  ASSUME NEW c, NEW n \in Nat, Kept(c, n), Full(c)
  PROVE  c.points[c.head] = Point(n - c.count + 1)
<1>1. Size \in Nat \ {0} /\ c.count = Size /\ c.head \in 0..Size - 1
  BY ClockAssumption DEF Full, Kept, Size
<1>2. Size \in 1..c.count /\ Place(c.head, Size) = c.head /\ n + 1 - Size = n - c.count + 1
  BY <1>1, NextHead
<1> QED BY <1>2 DEF Kept

\* How the sum of the points between a and b changes when p comes or not, and q leaves
\* or not.
LEMMA LeftSum ==
  ASSUME NEW a \in Points, NEW b \in Points
  PROVE  /\ \A p, q \in Points : Sub(Add(Sub(b, a), p), q) = Sub(Add(b, p), Add(a, q))
         /\ \A p \in Points : Sub(Add(Sub(b, a), p), Zero) = Sub(Add(b, p), a)
         /\ Sub(Add(Sub(b, a), Zero), Zero) = Sub(b, a)
BY DEF Add, Sub, Zero, Points

\* How the sum of those between b and e changes when p leaves or not, and r comes.
LEMMA RightSum ==
  ASSUME NEW b \in Points, NEW e \in Points, NEW r \in Points
  PROVE  /\ \A p \in Points : Add(Sub(Sub(e, b), p), r) = Sub(Add(e, r), Add(b, p))
         /\ Add(Sub(Sub(e, b), Zero), r) = Sub(Add(e, r), b)
BY DEF Add, Sub, Zero, Points

\* An update keeps the ring: the point that comes takes the place of the oldest one.
LEMMA RingPoints ==
  ASSUME NEW c, NEW n \in Nat, Kept(c, n), NEW p \in Points, p = Point(n + 1),
         NEW u, u = Updated(c, p)
  PROVE  /\ u.points \in [0..Size - 1 -> Points]
         /\ u.count = (IF n + 1 < Size THEN n + 1 ELSE Size)
         /\ u.head \in 0..Size - 1 /\ (n + 1 < Size => u.head = n + 1)
         /\ \A j \in 1..u.count : u.points[Place(u.head, j)] = Point(n + 1 + 1 - j)
<1>1. /\ Size \in Nat \ {0} /\ c.points \in [0..Size - 1 -> Points]
      /\ c.count = (IF n < Size THEN n ELSE Size)
      /\ c.head \in 0..Size - 1 /\ (n < Size => c.head = n)
      /\ \A j \in 1..c.count : c.points[Place(c.head, j)] = Point(n + 1 - j)
  BY ClockAssumption DEF Kept, Size
<1>2. /\ u.points = [c.points EXCEPT ![c.head] = p]
      /\ u.count = (IF c.count = Size THEN c.count ELSE c.count + 1)
      /\ u.head = (c.head + 1) % Size
  BY DEF Updated, Full, Size
<1>3. /\ u.points \in [0..Size - 1 -> Points] /\ u.points[c.head] = p
      /\ \A k \in 0..Size - 1 : k # c.head => u.points[k] = c.points[k]
  BY <1>1, <1>2
<1>4. u.count = (IF n + 1 < Size THEN n + 1 ELSE Size)
  BY <1>1, <1>2
<1>5. /\ u.head \in 0..Size - 1 /\ (n + 1 < Size => u.head = n + 1)
      /\ Place(u.head, 1) = c.head
  <2>1. c.head \in 0..Size - 1 /\ (n < Size => c.head = n) /\ Size \in Nat
    BY <1>1
  <2>2. /\ u.head \in 0..Size - 1 /\ Place(u.head, 1) = c.head
        /\ u.head = (IF c.head + 1 = Size THEN 0 ELSE c.head + 1)
    BY <1>2, <2>1, NextHead
  <2> QED BY <2>1, <2>2
<1>6. ASSUME NEW j \in 1..u.count PROVE u.points[Place(u.head, j)] = Point(n + 1 + 1 - j)
  <2>1. CASE j = 1
    <3>1. n + 1 + 1 - 1 = n + 1
      OBVIOUS
    <3> QED BY <1>3, <1>5, <2>1, <3>1
  <2>2. CASE j # 1
    <3> DEFINE i == j - 1
    <3>0. u.count \in Nat /\ u.count <= Size /\ u.count <= c.count + 1 /\ c.count \in Nat
      BY <1>1, <1>4
    <3> DEFINE l == c.count
               k == u.count
    <3>2. k \in Nat /\ k <= Size /\ k <= l + 1 /\ l \in Nat /\ Size \in Nat /\ j \in 1..k
      BY <1>1, <3>0
    <3> HIDE DEF k, l
    <3>1. j = i + 1 /\ i \in 1..Size - 1 /\ i \in 1..l /\ n + 1 + 1 - j = n + 1 - i
      BY <2>2, <3>2
    <3>h. c.head \in 0..Size - 1 /\ u.head = (c.head + 1) % Size
      BY <1>1, <1>2
    <3> HIDE DEF i
    <3>3. /\ Place(u.head, i + 1) = Place(c.head, i) /\ Place(c.head, i) # c.head
          /\ Place(c.head, i) \in 0..Size - 1
      BY <3>1, <3>h, NextHead
    <3> QED BY <1>1, <1>3, <3>1, <3>3 DEF l
  <2> QED BY <2>1, <2>2
<1> QED BY <1>3, <1>4, <1>5, <1>6

\* An update keeps the ring and the sums.
LEMMA RingStep ==
  ASSUME NEW c, NEW n \in 0..MaxFrames - 1, Kept(c, n)
  PROVE  Kept(Updated(c, Point(n + 1)), n + 1)
<1> DEFINE half == c.count \div 2
           i == n - c.count
           j == i + half
           p == Point(n + 1)
           u == Updated(c, p)
<1>1. /\ Size \in Nat \ {0} /\ MaxFrames \in Nat /\ n \in Nat /\ n + 1 \in Frame
      /\ c.count = (IF n < Size THEN n ELSE Size) /\ c.count \in 0..Size /\ c.count <= n
  <2>1. Size \in Nat \ {0} /\ MaxFrames \in Nat
    BY ClockAssumption, FrameBufferAssumption DEF Size
  <2>2. c.count = (IF n < Size THEN n ELSE Size)
    BY DEF Kept
  <2> QED BY <2>1, <2>2 DEF Frame
<1>2. /\ half \in Nat /\ i \in 0..n /\ j \in 0..n
      /\ i + 1 \in Frame /\ j + 1 \in Frame
      /\ i \in 0..MaxFrames /\ j \in 0..MaxFrames /\ n \in 0..MaxFrames
  <2>1. c.count \in Nat /\ c.count <= n
    BY <1>1
  <2>2. half \in Nat /\ half <= c.count
    BY <2>1
  <2> HIDE DEF half
  <2>3. i \in 0..n /\ j \in 0..n
    BY <1>1, <2>1, <2>2
  <2> HIDE DEF i, j
  <2>4. \A k \in 0..n : k \in 0..MaxFrames /\ k + 1 \in Frame
    BY <1>1 DEF Frame
  <2> QED BY <1>1, <2>2, <2>3, <2>4
<1>3. p \in Points /\ Point(i + 1) \in Points /\ Point(j + 1) \in Points
  BY <1>1, <1>2, PointType
<1>4. /\ Total[i] \in Points /\ Total[j] \in Points /\ Total[n] \in Points
      /\ Total[i + 1] = Add(Total[i], Point(i + 1))
      /\ Total[j + 1] = Add(Total[j], Point(j + 1))
      /\ Total[n + 1] = Add(Total[n], p)
  <2>1. ASSUME NEW k \in 0..MaxFrames, k + 1 \in Frame
        PROVE  Total[k] \in Points /\ Total[k + 1] = Add(Total[k], Point(k + 1))
    <3>1. k + 1 \in 1..MaxFrames /\ k + 1 - 1 = k
      BY <2>1 DEF Frame
    <3> QED BY <3>1, Totals DEF IsTotal
  <2> QED BY <1>1, <1>2, <2>1
<1>5. c.left_sum = Sub(Total[j], Total[i]) /\ c.right_sum = Sub(Total[n], Total[j])
  <2> DEFINE first == n - c.count + 1
  <2>1. /\ c.left_sum = SumOf(first, first + half - 1)
        /\ c.right_sum = SumOf(first + half, n)
    BY DEF Kept
  <2>2. first - 1 = i /\ first + half - 1 = j /\ first \in Int /\ half \in Int
    BY <1>1, <1>2
  <2> HIDE DEF first, i, j, half
  <2> QED BY <2>1, <2>2 DEF SumOf
<1> DEFINE passes == IF Full(c) \/ c.count % 2 = 1 THEN Mid(c) ELSE Zero
           leaves == IF Full(c) THEN c.points[c.head] ELSE Zero
<1>6. /\ u.left_sum = Sub(Add(c.left_sum, passes), leaves)
      /\ u.right_sum = Add(Sub(c.right_sum, passes), p)
  BY DEF Updated
<1>7. /\ Full(c) \/ c.count % 2 = 1 => passes = Point(j + 1)
      /\ Full(c) => leaves = Point(i + 1)
  <2>1. n - c.count + 1 + half = j + 1 /\ n - c.count + 1 = i + 1
    BY <1>1, <1>2
  <2> QED BY <1>1, <2>1, MiddlePoint, OldestPoint
<1>8. /\ ~(Full(c) \/ c.count % 2 = 1) => passes = Zero
      /\ ~Full(c) => leaves = Zero
  OBVIOUS
<1> DEFINE m == n + 1
<1>9. /\ u.points \in [0..Size - 1 -> Points]
      /\ u.count = (IF m < Size THEN m ELSE Size)
      /\ u.head \in 0..Size - 1 /\ (m < Size => u.head = m)
      /\ \A k \in 1..u.count : u.points[Place(u.head, k)] = Point(m + 1 - k)
  BY <1>1, <1>3, RingPoints
<1>10. m \in Nat /\ m = n + 1 /\ u.count \in Nat /\ u.count \div 2 \in Nat
  BY <1>1, <1>9
<1> HIDE DEF u, p, passes, leaves, m
<1> DEFINE next == m - u.count
           newHalf == u.count \div 2
<1>11. \/ passes = Point(j + 1) /\ leaves = Point(i + 1) /\ next = i + 1 /\ next + newHalf = j + 1
       \/ passes = Point(j + 1) /\ leaves = Zero /\ next = i /\ next + newHalf = j + 1
       \/ passes = Zero /\ leaves = Zero /\ next = i /\ next + newHalf = j
  <2>0. Full(c) <=> c.count = Size
    BY DEF Full, Size
  <2>1. CASE c.count = Size
    <3>1. u.count = c.count /\ newHalf = half
      BY <1>1, <1>9, <1>10, <2>1
    <3>2. next = i + 1 /\ next + newHalf = j + 1
      BY <1>1, <1>2, <1>10, <3>1
    <3> QED BY <1>7, <2>0, <2>1, <3>2
  <2>2. CASE c.count # Size /\ c.count % 2 = 1
    <3>1. u.count = c.count + 1 /\ newHalf = half + 1
      <4>1. c.count \in Nat /\ u.count = c.count + 1
        BY <1>1, <1>9, <1>10, <2>2
      <4> QED BY <2>2, <4>1
    <3>2. next = i /\ next + newHalf = j + 1
      BY <1>1, <1>2, <1>10, <3>1
    <3> QED BY <1>7, <1>8, <2>0, <2>2, <3>2
  <2>3. CASE c.count # Size /\ c.count % 2 # 1
    <3>1. u.count = c.count + 1 /\ newHalf = half
      <4>1. c.count \in Nat /\ u.count = c.count + 1
        BY <1>1, <1>9, <1>10, <2>3
      <4> QED BY <2>3, <4>1
    <3>2. next = i /\ next + newHalf = j
      BY <1>1, <1>2, <1>10, <3>1
    <3> QED BY <1>8, <2>0, <2>3, <3>2
  <2> QED BY <2>1, <2>2, <2>3
<1> HIDE DEF i, j, next, newHalf, half
<1>12. /\ u.left_sum = Sub(Total[next + newHalf], Total[next])
       /\ u.right_sum = Sub(Total[m], Total[next + newHalf])
  <2>1. /\ u.left_sum = Sub(Add(Sub(Total[j], Total[i]), passes), leaves)
        /\ u.right_sum = Add(Sub(Sub(Total[n], Total[j]), passes), p)
        /\ Total[m] = Add(Total[n], p)
    BY <1>4, <1>5, <1>6, <1>10
  <2>2. CASE /\ passes = Point(j + 1) /\ leaves = Point(i + 1)
             /\ next = i + 1 /\ next + newHalf = j + 1
    BY <1>3, <1>4, <2>1, <2>2, LeftSum, RightSum
  <2>3. CASE passes = Point(j + 1) /\ leaves = Zero /\ next = i /\ next + newHalf = j + 1
    BY <1>3, <1>4, <2>1, <2>3, LeftSum, RightSum
  <2>4. CASE passes = Zero /\ leaves = Zero /\ next = i /\ next + newHalf = j
    BY <1>3, <1>4, <2>1, <2>4, LeftSum, RightSum
  <2> QED BY <1>11, <2>2, <2>3, <2>4
<1> DEFINE first == m - u.count + 1
<1>13. /\ first - 1 = next /\ first + newHalf - 1 = next + newHalf
       /\ first \in Int /\ newHalf \in Int /\ next \in Int /\ m \in Int
  BY <1>10 DEF next, newHalf
<1> HIDE DEF first
<1>14. /\ u.left_sum = SumOf(first, first + newHalf - 1)
       /\ u.right_sum = SumOf(first + newHalf, m)
  BY <1>12, <1>13 DEF SumOf
<1>15. Kept(u, m)
  BY <1>9, <1>14 DEF Kept, first, newHalf
<1> QED BY <1>15 DEF u, p, m

\* With the sums of the ring, and frames at increasing dates that all came with the same
\* delay, the dates are exact.
LEMMA ExactDates ==
  ASSUME NEW c, NEW n \in 0..MaxFrames, Kept(c, n), c.count > 1,
         \A k \in n - c.count + 1..n : Delay(k) = Delay(n),
         \A k \in n - c.count + 1..n - 1 : Date(k) < Date(k + 1)
  PROVE  \A f \in Frame : ToSystemTime(c, Date(f)) = Date(f) + Delay(n)
<1> DEFINE m == c.count
           h == m \div 2
           k == (m + 1) \div 2
           a == n - m + 1
           b == a + h
           d == Delay(n)
           l == SumOf(a, b - 1).stream
           r == SumOf(b, n).stream
<1>1. /\ m \in Nat /\ m > 1 /\ m <= Size /\ m <= n /\ n \in Nat /\ n \in Frame /\ n <= MaxFrames
      /\ MaxFrames \in Nat
  <2>1. /\ Size \in Nat \ {0} /\ MaxFrames \in Nat /\ m = (IF n < Size THEN n ELSE Size)
    BY ClockAssumption, FrameBufferAssumption DEF Size, Kept
  <2> HIDE DEF m
  <2>2. m > 1
    BY DEF m
  <2> QED BY <2>1, <2>2 DEF Frame
<1>2. /\ c.left_sum = SumOf(a, b - 1) /\ c.right_sum = SumOf(b, n)
  <2>1. /\ c.left_sum = SumOf(a, a + h - 1)
        /\ c.right_sum = SumOf(a + h, n)
    BY DEF Kept
  <2>2. b = a + h /\ b - 1 = a + h - 1
    BY <1>1
  <2> HIDE DEF a, b, h, m
  <2>3. c.left_sum = SumOf(a, b - 1)
    BY <2>1, <2>2
  <2>4. c.right_sum = SumOf(b, n)
    BY <2>1, <2>2
  <2> QED BY <2>3, <2>4
<1>3. /\ \A i \in a..n : Delay(i) = d
      /\ \A i \in a..n - 1 : Date(i) < Date(i + 1)
      /\ d \in Nat
  BY <1>1, PointType
<1>4. h \in Nat /\ k \in Nat /\ h > 0 /\ k > 0 /\ h + k = m
  BY <1>1
<1> HIDE DEF h, k, m
<1>5. /\ a \in 1..MaxFrames /\ b \in 1..MaxFrames /\ b - 1 \in 1..MaxFrames
      /\ b - 1 \in a..MaxFrames /\ n \in b..MaxFrames /\ b - 1 \in a - 1..MaxFrames
      /\ n \in b - 1..MaxFrames
      /\ (b - 1) - a + 1 = h /\ n - b + 1 = k /\ b - 1 < n /\ a <= b - 1 /\ b <= n
  BY <1>1, <1>4
<1>6. SumOf(a, b - 1) \in Points /\ SumOf(b, n) \in Points
  <2> HIDE DEF a, b
  <2>1. a \in 1..MaxFrames + 1 /\ b \in 1..MaxFrames + 1
    BY <1>1, <1>5
  <2> QED BY <1>5, <2>1, SumParts
<1>7. /\ SumOf(a, b - 1).system = l + h * d
      /\ SumOf(b, n).system = r + k * d
  <2> HIDE DEF a, b, d
  <2>1. /\ \A i \in a..b - 1 : Delay(i) = d
        /\ \A i \in b..n : Delay(i) = d
    BY <1>1, <1>3, <1>5
  <2>2. SumOf(a, b - 1).system = SumOf(a, b - 1).stream + ((b - 1) - a + 1) * d
    BY <1>3, <1>5, <2>1, SameDelay
  <2>3. SumOf(b, n).system = SumOf(b, n).stream + (n - b + 1) * d
    BY <1>3, <1>5, <2>1, SameDelay
  <2> QED BY <1>5, <2>2, <2>3
<1>8. /\ l \in Nat /\ r \in Nat /\ Date(b - 1) \in Nat /\ Date(b) \in Nat
      /\ l <= Date(b - 1) * h /\ Date(b) * k <= r
  <2> HIDE DEF a, b, d
  <2>1. /\ \A i \in a..(b - 1) - 1 : Date(i) < Date(i + 1)
        /\ \A i \in b..n - 1 : Date(i) < Date(i + 1)
    BY <1>1, <1>3, <1>5
  <2>2. /\ SumOf(a, b - 1).stream \in Nat /\ Date(b - 1) \in Nat
        /\ SumOf(a, b - 1).stream <= Date(b - 1) * ((b - 1) - a + 1)
    BY <1>5, <2>1, IncreasingDates
  <2>3. /\ SumOf(b, n).stream \in Nat /\ Date(b) \in Nat
        /\ Date(b) * (n - b + 1) <= SumOf(b, n).stream
    BY <1>5, <2>1, IncreasingDates
  <2> QED BY <1>5, <2>2, <2>3
<1>9. Date(b - 1) < Date(b)
  <2> HIDE DEF a, b
  <2>1. b - 1 \in a..n - 1 /\ (b - 1) + 1 = b
    BY <1>1, <1>5
  <2> QED BY <1>3, <2>1
<1>10. /\ c.left_sum.stream = l /\ c.left_sum.system = l + h * d
       /\ c.right_sum.stream = r /\ c.right_sum.system = r + k * d
  BY <1>2, <1>7
<1> DEFINE x == Date(b - 1)
           y == Date(b)
<1> SUFFICES ASSUME NEW f \in Frame PROVE ToSystemTime(c, Date(f)) = Date(f) + d
  OBVIOUS
<1>11. Date(f) \in Nat
  BY PointType
<1> HIDE DEF a, b, d, l, r, x, y
<1>12. /\ c.count = m /\ h = m \div 2 /\ k = (m + 1) \div 2
  BY DEF h, k, m
<1>13. l \div h < r \div k
  <2>1. x \in Nat /\ y \in Nat /\ x < y /\ l <= x * h /\ y * k <= r
    BY <1>8, <1>9 DEF x, y
  <2>2. h \in Nat \ {0} /\ k \in Nat \ {0} /\ l \in Nat /\ r \in Nat
    BY <1>4, <1>8
  <2>3. l \div h \in Nat /\ l \div h <= x
    BY <2>1, <2>2, Bounded
  <2>4. r \div k \in Nat /\ y <= r \div k
    BY <2>1, <2>2, Bounded
  <2> QED BY <2>1, <2>3, <2>4
<1>14. c.count \in 2..Size
  BY <1>1, <1>12
<1>15. Delayed(c, d)
  BY <1>8, <1>10, <1>12, <1>13, <1>14 DEF Delayed
<1> QED BY <1>3, <1>11, <1>15, Exact

\* Every step keeps the ring and the sums.
LEMMA ClockNext ==
  ASSUME VideoBufferTypeOK, ClockInv, [Next]_vars
  PROVE  ClockInv'
<1>1. CASE UNCHANGED <<clock, buffered, newest>>
  BY <1>1 DEF ClockInv
<1>2. CASE Push
  <2> SUFFICES ASSUME buffered' PROVE Kept(clock, newest)'
    BY DEF ClockInv
  <2>1. newest' = newest + 1 /\ newest < MaxFrames /\ buffered' = buffered
    BY <1>2 DEF Push, DecoderStep, PushDirectly, PushLater, PushFails
  <2>2. newest \in 0..MaxFrames - 1
    BY <2>1, FrameBufferAssumption DEF VideoBufferTypeOK
  <2>3. clock' = Updated(clock, Point(newest + 1)) /\ Kept(clock, newest)
    BY <1>2, <2>1 DEF Push, ClockInv
  <2>4. Kept(clock', newest')
    BY <2>1, <2>2, <2>3, RingStep
  <2> QED BY <2>4 DEF Kept
<1>3. CASE ~Push
  <2>1. UNCHANGED <<clock, buffered, newest>>
    BY <1>3 DEF Next, Opening, Open, OpenFails, OpenFailsAtOnce, Close, ClosingStep, Undone,
       StopBuffer, JoinSink, Closed, Buffering, ProducerStep, OfferFrame, OnNewFrame, SinkStep,
       Wait, Ready, Told, Consume, Encode, EncodeFails, vars, v4l2, videoBuffer,
       DecoderClose, VideoBufferStop, Offer, OfferFails, Notify, BufferingStep, WaitQueue,
       TakeFrame, DeadlinePassed, BufferingStops, FlushFrame, FlushEnds
  <2> QED BY <1>1, <2>1
<1> QED BY <1>2, <1>3

\* The invariant gives the property.
LEMMA ClockExact ==
  ASSUME VideoBufferTypeOK, ClockInv
  PROVE  ClockIsExact
<1> SUFFICES ASSUME buffered PROVE ClockIsExact
  BY DEF ClockIsExact
<1>1. Kept(clock, newest) /\ newest \in 0..MaxFrames
  BY DEF ClockInv, VideoBufferTypeOK
<1>2. /\ clock.count = (IF newest < SC_CLOCK_RANGE THEN newest ELSE SC_CLOCK_RANGE)
      /\ clock.left_sum = SumOf(newest - clock.count + 1,
                                newest - clock.count + 1 + clock.count \div 2 - 1)
      /\ clock.right_sum = SumOf(newest - clock.count + 1 + clock.count \div 2, newest)
  BY <1>1 DEF Kept, Size
<1>3. ASSUME clock.count > 1,
             \A n \in newest - clock.count + 1..newest : Delay(n) = Delay(newest),
             \A n \in newest - clock.count + 1..newest - 1 : Date(n) < Date(n + 1)
      PROVE  \A f \in Frame : ToSystemTime(clock, Date(f)) = Date(f) + Delay(newest)
  BY <1>1, <1>3, ExactDates
<1> QED BY <1>2, <1>3 DEF ClockIsExact

-------------------------------------------------------------------------------
(* The theorems. *)

\* The sink starts with no frame, no claim and no thread of its own.
LEMMA Initial == Init => IInv
<1> SUFFICES ASSUME Init PROVE IInv
  OBVIOUS
<1>1. VideoBufferInv /\ InFlight = {}
  BY VideoBufferInitial DEF Init
<1>2. TypeOK
  BY <1>1 DEF Init, TypeOK, VideoBufferInv
<1>3. ClaimInv
  <2>1. \A t \in Producers : pc[t] # "notify"
    BY DEF Init, VideoBufferInit, Producers
  <2>2. consumed = TRUE /\ has_frame = FALSE /\ sink = "none"
    BY DEF Init, VideoBufferInit, FrameBufferInit
  <2> QED BY <2>1, <2>2 DEF ClaimInv, Telling
<1>4. TakenInv
  BY <1>1 DEF Init, VideoBufferInit, TakenInv, NoFrame
<1>5. ClockInv
  BY RingStarts DEF Init, VideoBufferInit, NoFrame, ClockInv, Kept
<1> QED BY <1>1, <1>2, <1>3, <1>4, <1>5 DEF Init, IInv, ClosingInv

\* The inductive invariant holds, for any number of frames.
THEOREM Invariance == Spec => []IInv
<1>1. IInv /\ [Next]_vars => IInv'
  BY TypeNext, VideoBufferKept, ClaimNext, ClosingNext, TakenNext, ClockNext
  DEF IInv, TypeOK
<1> QED BY <1>1, Initial, PTL DEF Spec

\* One claim is a set of one claim.
LEMMA OneClaim == ClaimInv => Cardinality(Claims) = (IF consumed THEN 0 ELSE 1)
<1> SUFFICES ASSUME ClaimInv PROVE Cardinality(Claims) = (IF consumed THEN 0 ELSE 1)
  OBVIOUS
<1>1. CASE consumed
  <2>1. Claims = {}
    BY <1>1 DEF ClaimInv, Claims, Telling, Producers
  <2> QED BY <1>1, <2>1, FS_EmptySet
<1>2. CASE ~consumed
  <2>1. CASE has_frame
    <3>1. Claims = {"flag"}
      BY <1>2, <2>1 DEF ClaimInv, Claims, Telling, Producers
    <3> QED BY <1>2, <3>1, FS_Singleton
  <2>2. CASE sink = "consume"
    <3>1. Claims = {"thread"}
      BY <1>2, <2>2 DEF ClaimInv, Claims, Telling, Producers
    <3> QED BY <1>2, <3>1, FS_Singleton
  <2>3. CASE ~has_frame /\ sink # "consume"
    <3>1. PICK t \in Producers : Telling(t) /\ \A u \in Producers \ {t} : ~Telling(u)
      BY <1>2, <2>3 DEF ClaimInv
    <3>2. Claims = {t}
      BY <2>3, <3>1 DEF Claims, Telling, Producers
    <3> QED BY <1>2, <3>2, FS_Singleton
  <2> QED BY <2>1, <2>2, <2>3
<1> QED BY <1>1, <1>2

\* A pending frame is claimed once, although has_frame is one flag for all frames, and
\* no thread runs once the sink is closed (v4l2_sink.c, run_v4l2_sink).
THEOREM ClaimedFrames == Spec => []FramesAreClaimed
<1>1. IInv => FramesAreClaimed
  BY OneClaim DEF IInv, ClosingInv, FramesAreClaimed, OneClaimPerPendingFrame,
     NothingRunsAfterClose
<1> QED BY <1>1, Invariance, PTL

\* The device gets the frames in the order they were decoded, none twice.
THEOREM OrderedFrames == Spec => FramesInOrder
<1>1. IInv /\ [Next]_vars
        => [/\ taken' # taken => taken' > taken
            /\ written' # written => header_written /\ written' = taken]_vars
  <2> SUFFICES ASSUME IInv, [Next]_vars
               PROVE  /\ taken' # taken => taken' > taken
                      /\ written' # written => header_written /\ written' = taken
    OBVIOUS
  <2>1. taken' # taken => taken' > taken
    <3>1. \A f \in InFlight : taken < f
      BY DEF IInv, TakenInv
    <3>2. taken \in Nat /\ pending \in Nat
      BY FrameBufferAssumption DEF IInv, TakenInv, VideoBufferInv, VideoBufferTypeOK, ChainInv
    <3> QED BY <3>1, <3>2, TakenStep
  <2>2. written' # written => header_written /\ written' = taken
    BY DEF Next, Opening, Open, OpenFails, OpenFailsAtOnce, Push, Close, ClosingStep, Undone,
         StopBuffer, JoinSink, Closed, Buffering, ProducerStep, OfferFrame, OnNewFrame, SinkStep,
         Wait, Ready, Told, Consume, Encode, EncodeFails, vars, v4l2
  <2> QED BY <2>1, <2>2
<1> QED BY <1>1, Invariance, PTL DEF Spec, FramesInOrder

\* However many points have passed, the rolling sums of the clock are those of the older
\* and of the newer half of the last ones; and if these came at increasing dates, all with
\* the same delay, the deadline of every frame is its date and that delay (clock.c,
\* sc_clock_update and sc_clock_estimate).
THEOREM ExactClock == Spec => []ClockIsExact
<1>1. IInv => ClockIsExact
  BY ClockExact DEF IInv, TypeOK
<1> QED BY <1>1, Invariance, PTL
===============================================================================
