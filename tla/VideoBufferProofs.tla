-------------------------- MODULE VideoBufferProofs --------------------------
(****************************************************************************)
(* Lemmas about the video buffer, for any number of frames and whoever      *)
(* consumes them: its two producers never offer frames at the same time,    *)
(* and the frames on their way stay in the order they were decoded.         *)
(****************************************************************************)
EXTENDS VideoBuffer, QueueProofs

Labels == {"idle", "offer", "notify", "closed", "lock", "waitQueue", "waitDeadline",
           "flush", "done"}

\* Where the producers may be together: the decoder offers the first frame, and no
\* other one if there is a buffering thread.
PlacesInv ==
  /\ pc \in [Producers -> Labels]
  /\ ~buffered => queue = <<>> /\ pc["buffering"] = "done"
  /\ pc["buffering"] = "notify" => newest > 0
  /\ buffered /\ pc["decoder"] \in {"offer", "notify"} =>
       newest = 1 /\ queue = <<>> /\ pc["buffering"] \notin {"waitDeadline", "offer", "notify"}

\* The producers that have a frame to offer.
Busy == {t \in Producers : pc[t] \in {"waitDeadline", "offer"}}

\* The pending frame is older than the one to offer, and that one than the queued.
ChainInv ==
  /\ consumed <=> pending = NoFrame
  /\ pending \in 0..newest
  /\ Ordered(queue, newest) /\ Behind(pending, queue)
  /\ \A t \in Busy : frame[t] \in 1..newest /\ pending < frame[t] /\ Behind(frame[t], queue)

VideoBufferInv == VideoBufferTypeOK /\ PlacesInv /\ ChainInv

\* The frames accepted and not yet consumed.
InFlight ==
  Elements(queue) \cup {frame[t] : t \in Busy} \cup ({pending} \ {NoFrame})

\* What the threads of the video buffer do, and the consumer that stops it.
VideoBufferNext ==
  \/ DecoderStep \/ DecoderClose \/ BufferingStep \/ VideoBufferStop
  \/ \E t \in Producers : Offer(t) \/ OfferFails(t) \/ Notify(t)
  \/ UNCHANGED <<frameBuffer, videoBuffer>>

\* It starts with no frame.
LEMMA VideoBufferInitial == VideoBufferInit => VideoBufferInv /\ InFlight = {}
<1> SUFFICES ASSUME VideoBufferInit PROVE VideoBufferInv /\ InFlight = {}
  OBVIOUS
<1> USE DEF VideoBufferInit, FrameBufferInit, Producers
<1>1. queue \in Seq(Frame) /\ Elements(queue) = {} /\ Ordered(queue, newest)
        /\ Behind(pending, queue)
  BY EmptySeq DEF Elements, Ordered, Behind
<1>2. pc["decoder"] = "idle" /\ pc["buffering"] \in {"lock", "done"}
        /\ (~buffered => pc["buffering"] = "done") /\ pc \in [Producers -> Labels]
  BY DEF Labels
<1>3. Busy = {}
  BY <1>2 DEF Busy
<1>4. VideoBufferTypeOK
  <2>1. stopped \in BOOLEAN /\ skipped \in [Producers -> BOOLEAN]
    OBVIOUS
  <2>2. newest \in 0..MaxFrames /\ frame \in [Producers -> Frame \cup {NoFrame}]
    BY FrameBufferAssumption
  <2> QED BY <1>1, <1>2, <2>1, <2>2 DEF VideoBufferTypeOK
<1>5. PlacesInv
  BY <1>2 DEF PlacesInv
<1>6. ChainInv
  BY <1>1, <1>3 DEF ChainInv, NoFrame
<1> QED BY <1>1, <1>3, <1>4, <1>5, <1>6 DEF VideoBufferInv, InFlight, NoFrame

\* A queue is the frames that come after the one at its head, and has the type of its
\* tail.
LEMMA QueueHead ==
  ASSUME VideoBufferInv, queue # <<>>
  PROVE  /\ Tail(queue) \in Seq(Frame) /\ Head(queue) \in 1..newest
         /\ Elements(queue) = {Head(queue)} \cup Elements(Tail(queue))
         /\ Behind(Head(queue), Tail(queue)) /\ Ordered(Tail(queue), newest)
         /\ \A e : Behind(e, queue) => e < Head(queue) /\ Behind(e, Tail(queue))
<1>1. queue \in Seq(Frame) /\ newest \in Nat /\ Ordered(queue, newest)
  BY FrameBufferAssumption DEF VideoBufferInv, VideoBufferTypeOK, ChainInv
<1> QED BY <1>1, HeadNumber

\* A queued frame is the newest of all.
LEMMA QueueNewest ==
  ASSUME VideoBufferInv, newest < MaxFrames
  PROVE  /\ newest + 1 \in Frame
         /\ Append(queue, newest + 1) \in Seq(Frame)
         /\ Elements(Append(queue, newest + 1)) = Elements(queue) \cup {newest + 1}
         /\ Ordered(Append(queue, newest + 1), newest + 1)
         /\ Ordered(queue, newest + 1)
         /\ \A e \in 0..newest : Behind(e, queue) => Behind(e, Append(queue, newest + 1))
<1>1. queue \in Seq(Frame) /\ newest \in Nat /\ Ordered(queue, newest) /\ newest + 1 \in Frame
  BY FrameBufferAssumption DEF VideoBufferInv, VideoBufferTypeOK, ChainInv, Frame
<1>2. Append(queue, newest + 1) \in Seq(Frame)
  BY <1>1, AppendProperties
<1>3. Ordered(queue, newest + 1)
  BY <1>1, OrderedUpTo
<1> QED BY <1>1, <1>2, <1>3, AppendNumber

\* Every step keeps the types.
LEMMA VideoBufferType ==
  ASSUME VideoBufferInv, VideoBufferNext
  PROVE  VideoBufferTypeOK'
<1> USE DEF VideoBufferInv, VideoBufferTypeOK, PlacesInv, Labels, Producers, frameBuffer,
            videoBuffer, Goto, Holds, NoFrame, NoThread
<1>1. CASE PushDirectly
  <2>1. newest' \in Frame /\ newest' \in 0..MaxFrames
    BY <1>1, QueueNewest, FrameBufferAssumption DEF PushDirectly, Frame
  <2> QED BY <1>1, <2>1 DEF PushDirectly
<1>2. CASE PushLater
  <2>1. newest' \in 0..MaxFrames /\ queue' \in Seq(Frame)
    BY <1>2, QueueNewest, FrameBufferAssumption DEF PushLater, Frame
  <2> QED BY <1>2, <2>1 DEF PushLater, SignalQueue
<1>3. CASE PushFails
  BY <1>3, FrameBufferAssumption DEF PushFails
<1>4. CASE DecoderClose \/ WaitQueue \/ DeadlinePassed \/ BufferingStops \/ FlushEnds
             \/ VideoBufferStop
  BY <1>4 DEF DecoderClose, WaitQueue, DeadlinePassed, BufferingStops, FlushEnds,
       VideoBufferStop, SignalQueue
<1>5. CASE TakeFrame
  <2>1. Tail(queue) \in Seq(Frame) /\ Head(queue) \in Frame
    BY <1>5, QueueHead, HeadTailProperties DEF TakeFrame
  <2> QED BY <1>5, <2>1 DEF TakeFrame
<1>6. CASE FlushFrame
  <2>1. Tail(queue) \in Seq(Frame)
    BY <1>6, QueueHead DEF FlushFrame
  <2> QED BY <1>6, <2>1 DEF FlushFrame
<1>7. ASSUME NEW t \in Producers, Offer(t) \/ OfferFails(t) \/ Notify(t)
      PROVE  VideoBufferTypeOK'
  <2>1. skipped' \in [Producers -> BOOLEAN]
    BY <1>7 DEF Offer, OfferFails, Notify
  <2>2. CASE Offer(t)
    BY <2>1, <2>2 DEF Offer, FramePush
  <2>3. CASE OfferFails(t) \/ Notify(t)
    BY <2>1, <2>3 DEF OfferFails, Notify, Resume, FramePushFails
  <2> QED BY <1>7, <2>2, <2>3
<1>8. CASE UNCHANGED <<frameBuffer, videoBuffer>>
  BY <1>8
<1> QED BY <1>1, <1>2, <1>3, <1>4, <1>5, <1>6, <1>7, <1>8
        DEF VideoBufferNext, DecoderStep, BufferingStep

\* Every step keeps where the producers may be together.
LEMMA PlacesNext ==
  ASSUME VideoBufferInv, VideoBufferNext
  PROVE  PlacesInv'
<1>t. pc \in [Producers -> Labels] /\ newest \in Nat
  BY FrameBufferAssumption DEF VideoBufferInv, VideoBufferTypeOK, PlacesInv
<1> USE DEF PlacesInv, Labels, Producers, frameBuffer, videoBuffer, Goto, Holds
<1>1. CASE PushDirectly
  <2>1. pc["buffering"] \in {"waitDeadline", "offer", "notify"} => newest > 0
    BY <1>t DEF VideoBufferInv, ChainInv, Busy
  <2>2. newest = 0 => queue = <<>>
    <3> SUFFICES ASSUME newest = 0, queue # <<>> PROVE FALSE
      OBVIOUS
    <3>1. Head(queue) \in 1..0
      BY QueueHead
    <3> QED BY <3>1
  <2> QED BY <1>1, <1>t, <2>1, <2>2 DEF PushDirectly, VideoBufferInv
<1>2. CASE PushLater
  BY <1>2, <1>t DEF PushLater, SignalQueue, VideoBufferInv
<1>3. CASE PushFails
  BY <1>3, <1>t DEF PushFails, VideoBufferInv
<1>4. CASE DecoderClose \/ WaitQueue \/ DeadlinePassed \/ BufferingStops \/ FlushEnds
             \/ VideoBufferStop \/ TakeFrame \/ FlushFrame
  BY <1>4, <1>t DEF DecoderClose, WaitQueue, DeadlinePassed, BufferingStops, FlushEnds,
       VideoBufferStop, SignalQueue, TakeFrame, FlushFrame, VideoBufferInv
<1>5. ASSUME NEW t \in Producers, Offer(t)
      PROVE  PlacesInv'
  <2>1. pc["buffering"] = "offer" => newest > 0
    BY <1>t DEF VideoBufferInv, ChainInv, Busy
  <2> QED BY <1>5, <1>t, <2>1 DEF Offer, VideoBufferInv
<1>6. ASSUME NEW t \in Producers, OfferFails(t) \/ Notify(t)
      PROVE  PlacesInv'
  BY <1>6, <1>t DEF OfferFails, Notify, Resume, VideoBufferInv
<1>7. CASE UNCHANGED <<frameBuffer, videoBuffer>>
  BY <1>7 DEF VideoBufferInv
<1> QED BY <1>1, <1>2, <1>3, <1>4, <1>5, <1>6, <1>7
        DEF VideoBufferNext, DecoderStep, BufferingStep

\* What a step accepts is newer than all the frames on their way.
Accepts == newest' \in newest..MaxFrames /\ InFlight' \subseteq InFlight \cup (newest + 1)..newest'

\* Every step keeps the frames in order.
LEMMA ChainNext ==
  ASSUME VideoBufferInv, VideoBufferNext
  PROVE  ChainInv' /\ Accepts
<1>t. /\ pc \in [Producers -> Labels] /\ frame \in [Producers -> Frame \cup {NoFrame}]
      /\ newest \in Nat /\ MaxFrames \in Nat /\ newest <= MaxFrames
      /\ pending \in 0..newest
  BY FrameBufferAssumption DEF VideoBufferInv, VideoBufferTypeOK, PlacesInv, ChainInv
<1>p. PlacesInv /\ ChainInv
  BY DEF VideoBufferInv
<1>1. CASE PushDirectly
  <2>1. /\ pc["decoder"] = "idle" /\ Busy' = Busy \cup {"decoder"} /\ "decoder" \notin Busy
        /\ frame' = [frame EXCEPT !["decoder"] = newest + 1]
        /\ newest' = newest + 1 /\ newest < MaxFrames
        /\ UNCHANGED <<pending, consumed, queue>>
    BY <1>1, <1>t DEF PushDirectly, Goto, Holds, Busy, Producers, frameBuffer
  <2>2. queue = <<>>
    <3> SUFFICES ASSUME buffered, newest = 0, queue # <<>> PROVE FALSE
      BY <1>1, <1>p DEF PushDirectly, PlacesInv
    <3>1. Head(queue) \in 1..0
      BY QueueHead
    <3> QED BY <3>1
  <2>3. \A e : Behind(e, queue)
    BY <2>2 DEF Behind
  <2>4. Ordered(queue, newest + 1)
    BY <2>2 DEF Ordered
  <2>5. ASSUME NEW t \in Busy'
        PROVE  frame'[t] \in 1..newest' /\ pending' < frame'[t]
    <3>1. CASE t = "decoder"
      BY <1>t, <2>1, <3>1 DEF Producers
    <3>2. CASE t # "decoder"
      BY <1>t, <1>p, <2>1, <3>2 DEF Producers, ChainInv, Busy
    <3> QED BY <3>1, <3>2
  <2>6. ChainInv'
    BY <1>t, <1>p, <2>1, <2>3, <2>4, <2>5 DEF ChainInv
  <2>7. InFlight' \subseteq InFlight \cup {newest + 1}
    BY <1>t, <2>1 DEF InFlight, Producers, Busy
  <2> QED BY <1>t, <2>1, <2>6, <2>7 DEF Accepts
<1>2. CASE PushLater \/ PushFails
  <2>1. /\ Busy' = Busy /\ newest' = newest + 1 /\ newest < MaxFrames
        /\ UNCHANGED <<pending, consumed, frame>>
        /\ queue' = queue \/ queue' = Append(queue, newest + 1)
    BY <1>2, <1>t DEF PushLater, PushFails, SignalQueue, Busy, Producers, frameBuffer
  <2>2. /\ Ordered(queue', newest + 1) /\ Elements(queue') \subseteq Elements(queue) \cup {newest + 1}
        /\ \A e \in 0..newest : Behind(e, queue) => Behind(e, queue')
    BY <2>1, QueueNewest
  <2>3. ChainInv'
    BY <1>t, <1>p, <2>1, <2>2 DEF ChainInv
  <2>4. InFlight' \subseteq InFlight \cup {newest + 1}
    BY <2>1, <2>2 DEF InFlight
  <2> QED BY <1>t, <2>1, <2>3, <2>4 DEF Accepts
<1>3. CASE DecoderClose \/ WaitQueue \/ FlushEnds \/ VideoBufferStop
             \/ (\E t \in Producers : Notify(t))
  <2>1. Busy' = Busy /\ UNCHANGED <<pending, consumed, queue, newest>>
    BY <1>3, <1>t DEF DecoderClose, WaitQueue, FlushEnds, VideoBufferStop, SignalQueue,
         Notify, Resume, Goto, Busy, Producers, frameBuffer
  <2>2. \A t \in Busy : frame'[t] = frame[t]
    BY <1>3, <1>t DEF DecoderClose, WaitQueue, FlushEnds, VideoBufferStop,
         Notify, Resume, Holds, Busy
  <2> QED BY <1>t, <1>p, <2>1, <2>2 DEF ChainInv, Accepts, InFlight
<1>4. CASE DeadlinePassed \/ (UNCHANGED <<frameBuffer, videoBuffer>>)
  <2>1. Busy' = Busy /\ UNCHANGED <<pending, consumed, queue, newest, frame>>
    BY <1>4, <1>t DEF DeadlinePassed, Goto, Busy, Producers, frameBuffer, videoBuffer
  <2> QED BY <1>t, <1>p, <2>1 DEF ChainInv, Accepts, InFlight
<1>5. CASE TakeFrame
  <2>1. /\ Busy' = Busy \cup {"buffering"} /\ "buffering" \notin Busy
        /\ queue # <<>> /\ queue' = Tail(queue)
        /\ frame' = [frame EXCEPT !["buffering"] = Head(queue)]
        /\ UNCHANGED <<pending, consumed, newest>>
    BY <1>5, <1>t DEF TakeFrame, Goto, Holds, Busy, Producers, frameBuffer
  <2>2. Head(queue) \in 1..newest /\ Behind(Head(queue), queue') /\ Ordered(queue', newest)
          /\ Elements(queue) = {Head(queue)} \cup Elements(queue')
    BY <2>1, QueueHead
  <2>3. \A e : Behind(e, queue) => e < Head(queue) /\ Behind(e, queue')
    BY <2>1, QueueHead
  <2>4. ASSUME NEW t \in Busy'
        PROVE  frame'[t] \in 1..newest /\ pending < frame'[t] /\ Behind(frame'[t], queue')
    <3>1. CASE t = "buffering"
      BY <1>t, <1>p, <2>1, <2>2, <2>3, <3>1 DEF Producers, ChainInv
    <3>2. CASE t # "buffering"
      BY <1>t, <1>p, <2>1, <2>3, <3>2 DEF Producers, ChainInv, Busy
    <3> QED BY <3>1, <3>2
  <2>5. ChainInv'
    BY <1>p, <2>1, <2>2, <2>3, <2>4 DEF ChainInv
  <2>6. InFlight' \subseteq InFlight
    BY <1>t, <2>1, <2>2 DEF InFlight, Producers, Busy
  <2> QED BY <1>t, <2>1, <2>5, <2>6 DEF Accepts
<1>6. CASE FlushFrame
  <2>1. /\ Busy' = Busy /\ queue # <<>> /\ queue' = Tail(queue)
        /\ UNCHANGED <<pending, consumed, newest, frame>>
    BY <1>6 DEF FlushFrame, Busy, frameBuffer
  <2>2. Ordered(queue', newest) /\ Elements(queue') \subseteq Elements(queue)
          /\ \A e : Behind(e, queue) => Behind(e, queue')
    BY <2>1, QueueHead
  <2> QED BY <1>t, <1>p, <2>1, <2>2 DEF ChainInv, Accepts, InFlight
<1>7. CASE BufferingStops \/ (\E t \in Producers : OfferFails(t))
  <2>1. Busy' \subseteq Busy /\ UNCHANGED <<pending, consumed, queue, newest>>
    BY <1>7, <1>t DEF BufferingStops, OfferFails, FramePushFails, Resume, Goto, Busy,
         Producers, frameBuffer
  <2>2. \A t \in Busy' : frame'[t] = frame[t]
    BY <1>7, <1>t DEF BufferingStops, OfferFails, Resume, Goto, Holds, Busy, Producers
  <2> QED BY <1>t, <1>p, <2>1, <2>2 DEF ChainInv, Accepts, InFlight
<1>8. ASSUME NEW t \in Producers, Offer(t)
      PROVE  ChainInv' /\ Accepts
  <2>1. /\ t \in Busy /\ pending' = frame[t] /\ consumed' = FALSE
        /\ UNCHANGED <<queue, newest, frame>>
    BY <1>8 DEF Offer, FramePush, Busy
  <2>2. Busy' = {}
    BY <1>8, <1>t, <1>p, FrameBufferAssumption
    DEF Offer, Goto, Busy, Producers, PlacesInv, VideoBufferInv, VideoBufferTypeOK
  <2>3. frame[t] \in 1..newest /\ Behind(frame[t], queue)
    BY <1>p, <2>1 DEF ChainInv
  <2> QED BY <1>t, <1>p, <2>1, <2>2, <2>3 DEF ChainInv, Accepts, InFlight, NoFrame
<1> QED BY <1>1, <1>2, <1>3, <1>4, <1>5, <1>6, <1>7, <1>8
        DEF VideoBufferNext, DecoderStep, BufferingStep

\* The video buffer keeps its invariant, and what it accepts is newer than all the
\* frames on their way.
LEMMA VideoBufferStep ==
  ASSUME VideoBufferInv, VideoBufferNext
  PROVE  VideoBufferInv' /\ Accepts
BY VideoBufferType, PlacesNext, ChainNext DEF VideoBufferInv

\* The consumer takes the oldest of the frames on their way, if one is pending.
LEMMA ConsumeOldest ==
  ASSUME VideoBufferInv, NEW thread, FrameConsume(thread), UNCHANGED videoBuffer
  PROVE  /\ VideoBufferInv' /\ Accepts
         /\ ~consumed => pending \in InFlight /\ \A f \in InFlight' : pending < f
<1>1. /\ pending' = NoFrame /\ consumed' = TRUE /\ Busy' = Busy
      /\ UNCHANGED <<owner, buffered, newest, queue, stopped, pc, frame, skipped>>
  BY DEF FrameConsume, videoBuffer, Busy
<1>2. newest \in Nat /\ MaxFrames \in Nat /\ newest <= MaxFrames
  BY FrameBufferAssumption DEF VideoBufferInv, VideoBufferTypeOK
<1>3. VideoBufferTypeOK' /\ PlacesInv'
  BY <1>1 DEF VideoBufferInv, VideoBufferTypeOK, PlacesInv
<1>4. \A i \in DOMAIN queue : queue[i] \in 1..newest
  BY DEF VideoBufferInv, ChainInv, Ordered
<1>5. ChainInv'
  BY <1>1, <1>2, <1>4 DEF VideoBufferInv, ChainInv, Behind, NoFrame
<1>6. InFlight' = Elements(queue) \cup {frame[t] : t \in Busy}
  BY <1>1 DEF InFlight
<1>7. \A f \in InFlight' : pending < f
  BY <1>6 DEF VideoBufferInv, ChainInv, Behind, Elements
<1>8. ~consumed => pending \in InFlight
  BY DEF VideoBufferInv, ChainInv, InFlight
<1> QED BY <1>1, <1>2, <1>3, <1>5, <1>6, <1>7, <1>8 DEF VideoBufferInv, Accepts, InFlight

\* The decoder and the buffering thread are never offering frames at the same time.
LEMMA OneOffers ==
  ASSUME VideoBufferInv
  PROVE  ~(pc["decoder"] \in {"offer", "notify"} /\ pc["buffering"] \in {"offer", "notify"})
BY DEF VideoBufferInv, PlacesInv

\* A producer that is about to tell the consumer of a frame.
Telling(t) == pc[t] = "notify" /\ ~skipped[t]

\* The steps of the video buffer that tell the consumer nothing.
Untelling ==
  DecoderStep \/ DecoderClose \/ BufferingStep \/ VideoBufferStop
    \/ (UNCHANGED <<frameBuffer, videoBuffer>>)

\* They make no producer tell the consumer of a frame, nor forget to.
LEMMA UntellingEffect ==
  ASSUME VideoBufferInv, Untelling
  PROVE  consumed' = consumed /\ \A t \in Producers : Telling(t)' <=> Telling(t)
<1>1. pc \in [Producers -> Labels]
  BY DEF VideoBufferInv, PlacesInv
<1> USE <1>1 DEF Telling, Goto, Holds, Producers, frameBuffer
<1>2. CASE DecoderStep
  BY <1>2 DEF DecoderStep, PushDirectly, PushLater, PushFails, SignalQueue
<1>3. CASE DecoderClose \/ VideoBufferStop
  BY <1>3 DEF DecoderClose, VideoBufferStop, SignalQueue
<1>4. CASE BufferingStep
  BY <1>4 DEF BufferingStep, WaitQueue, TakeFrame, DeadlinePassed, BufferingStops, FlushFrame,
       FlushEnds
<1>5. CASE UNCHANGED <<frameBuffer, videoBuffer>>
  BY <1>5 DEF videoBuffer
<1> QED BY <1>2, <1>3, <1>4, <1>5 DEF Untelling

\* A thread that has ended stays so.
LEMMA ThreadsStayDone ==
  ASSUME VideoBufferInv, VideoBufferNext
  PROVE  /\ pc["buffering"] = "done" => pc'["buffering"] = "done"
         /\ pc["decoder"] = "closed" => pc'["decoder"] = "closed"
<1>1. pc \in [Producers -> Labels]
  BY DEF VideoBufferInv, PlacesInv
<1> USE <1>1 DEF Goto, Holds, Producers
<1>2. CASE DecoderStep \/ DecoderClose \/ VideoBufferStop
  BY <1>2 DEF DecoderStep, PushDirectly, PushLater, PushFails, SignalQueue, DecoderClose,
       VideoBufferStop
<1>3. CASE BufferingStep
  BY <1>3 DEF BufferingStep, WaitQueue, TakeFrame, DeadlinePassed, BufferingStops, FlushFrame,
       FlushEnds
<1>4. ASSUME NEW t \in Producers, Offer(t) \/ OfferFails(t) \/ Notify(t)
      PROVE  /\ pc["buffering"] = "done" => pc'["buffering"] = "done"
             /\ pc["decoder"] = "closed" => pc'["decoder"] = "closed"
  BY <1>4 DEF Offer, OfferFails, Notify, Resume
<1>5. CASE UNCHANGED <<frameBuffer, videoBuffer>>
  BY <1>5 DEF videoBuffer
<1> QED BY <1>2, <1>3, <1>4, <1>5 DEF VideoBufferNext
===============================================================================
