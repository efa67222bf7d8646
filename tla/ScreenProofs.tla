----------------------------- MODULE ScreenProofs -----------------------------
(****************************************************************************)
(* Proofs about the way of a frame to the screen, for any number of frames: *)
(* no event is missing or in excess, frames are shown in order, the order   *)
(* of the teardown is safe, and the FPS counter never sleeps through its    *)
(* interruption.                                                            *)
(****************************************************************************)
EXTENDS Screen, VideoBufferProofs

\* A pending frame has exactly one event, and there is none without.
ClaimInv ==
  \/ consumed /\ events = 0 /\ ui # "consume" /\ \A t \in Producers : ~Telling(t)
  \/ ~consumed /\ events = 1 /\ ui # "consume" /\ \A t \in Producers : ~Telling(t)
  \/ ~consumed /\ events = 0 /\ ui = "consume" /\ \A t \in Producers : ~Telling(t)
  \/ /\ ~consumed /\ events = 0 /\ ui # "consume"
     /\ \E t \in Producers : Telling(t) /\ \A u \in Producers \ {t} : ~Telling(u)

\* The last frame shown is older than all those on their way.
ShownInv == shown \in 0..newest /\ \A f \in InFlight : shown < f

\* Which threads have ended when scrcpy_stop goes through the teardown.
TeardownInv ==
  /\ ui \in {"joinScreen", "destroyed"} => pc["decoder"] = "closed"
  /\ ui = "destroyed" => pc["buffering"] = "done" /\ fps \in {"none", "done"}
  /\ fps = "none" \/ thread_started

\* Between its test and its wait the thread of the FPS counter is not interrupted, but
\* it may be started: then the signal is to come, or it was missed.
FpsInv ==
  /\ fps = "toWait" => ~interrupted
  /\ fps = "wait" /\ interrupted => ui = "signalInterrupt"
  /\ fps \in {"toWait", "wait"} /\ started => missed \/ ui = "signalStart"
  /\ ui = "signalStop" => ~started

\* The frames that may still be counted, as skipped or as rendered.
Held == [t \in Producers |-> IF t \in Busy THEN 1 ELSE 0]
Pending == IF consumed THEN 0 ELSE 1
Queuing == Len(queue) + Held["decoder"] + Held["buffering"] + Pending
Skipping == [t \in Producers |-> IF pc[t] = "notify" /\ skipped[t] THEN 1 ELSE 0]
Rendering == IF ui = "count" THEN 1 ELSE 0
Uncounted == Queuing + Skipping["decoder"] + Skipping["buffering"] + Rendering

\* Those and the frames counted since the counter was started are different frames.
Counted == nr_rendered + nr_skipped
CountInv == Counted + Uncounted <= newest

IInv == /\ TypeOK /\ VideoBufferInv /\ ClaimInv /\ ShownInv
        /\ TeardownInv /\ FpsInv /\ CountInv

-------------------------------------------------------------------------------
(* The steps. *)

\* Every step but the one of the consumer is one of the video buffer or leaves it alone.
LEMMA Steps ==
  ASSUME [Next]_vars
  PROVE  VideoBufferNext \/ UpdateFrame
<1>1. CASE Push \/ StreamEnds \/ Buffering \/ CountFps
  BY <1>1 DEF Push, StreamEnds, Buffering, CountFps, VideoBufferNext
<1>2. ASSUME NEW t \in Producers, ProducerStep(t) PROVE VideoBufferNext
  BY <1>2 DEF ProducerStep, OfferFrame, OnNewFrame, VideoBufferNext
<1>3. CASE UiStep
  BY <1>3 DEF UiStep, HandleNewFrame, CountFrame, SignalFpsCounter, InterruptBuffer,
       InterruptFps, JoinStream, Destroy, VideoBufferNext
<1>4. CASE SwitchFpsCounter \/ Quit \/ Terminated \/ UNCHANGED vars
  BY <1>4 DEF SwitchFpsCounter, Quit, Terminated, vars, VideoBufferNext
<1> QED BY <1>1, <1>2, <1>3, <1>4 DEF Next

\* So every step keeps the frames in order.
LEMMA VideoBufferKept ==
  ASSUME VideoBufferInv, [Next]_vars
  PROVE  VideoBufferInv' /\ Accepts
<1>1. CASE UpdateFrame
  BY <1>1, ConsumeOldest DEF UpdateFrame
<1>2. CASE VideoBufferNext
  BY <1>2, VideoBufferStep
<1> QED BY <1>1, <1>2, Steps

\* The screen starts with no frame, no event and no thread of the FPS counter.
LEMMA Initial == Init => IInv
<1> SUFFICES ASSUME Init PROVE IInv
  OBVIOUS
<1>1. VideoBufferInv /\ InFlight = {}
  BY VideoBufferInitial DEF Init
<1>2. TypeOK
  <2>1. FpsTypeOK
    BY DEF Init, FpsInit, FpsTypeOK
  <2>2. events \in 0..MaxFrames
    BY FrameBufferAssumption DEF Init
  <2> QED BY <1>1, <2>1, <2>2 DEF Init, TypeOK, VideoBufferInv, UiLabels
<1>3. \A t \in Producers : pc[t] \in {"idle", "lock", "done"}
  BY DEF Init, VideoBufferInit, Producers
<1>4. queue = <<>> /\ consumed = TRUE /\ newest = 0 /\ shown = 0
  BY DEF Init, VideoBufferInit, FrameBufferInit, NoFrame
<1>5. ClaimInv
  BY <1>3, <1>4 DEF Init, ClaimInv, Telling
<1>6. ShownInv
  BY <1>1, <1>4 DEF ShownInv
<1>7. TeardownInv /\ FpsInv
  BY DEF Init, FpsInit, TeardownInv, FpsInv
<1>8. CountInv
  <2>1. Queuing = 0
    BY <1>3, <1>4 DEF Queuing, Held, Pending, Busy, Producers
  <2>2. Skipping["decoder"] = 0 /\ Skipping["buffering"] = 0
    BY <1>3 DEF Skipping, Producers
  <2> QED BY <1>4, <2>1, <2>2 DEF Init, FpsInit, CountInv, Counted, Uncounted, Rendering
<1> QED BY <1>1, <1>2, <1>5, <1>6, <1>7, <1>8 DEF IInv

\* What happens to the FPS counter in a step of the system.
FpsOperation ==
  \/ FpsStep \/ FpsStop \/ FpsStart \/ FpsSetStarted \/ FpsStartSignal \/ FpsStopSignal
  \/ FpsInterrupt \/ FpsInterruptSignal \/ FpsAddFrame(0, 1) \/ FpsAddFrame(1, 0)
  \/ UNCHANGED fpsCounter

\* The steps of the FPS counter and of those who use it keep its types.
LEMMA FpsType ==
  ASSUME FpsTypeOK, FpsOperation
  PROVE  FpsTypeOK'
<1> USE DEF FpsTypeOK, counts, CheckInterval
<1>1. CASE FpsStep
  <2>1. CASE FpsInterrupted \/ FpsNotStarted
    BY <2>1 DEF FpsInterrupted, FpsNotStarted
  <2>2. CASE FpsStarted
    BY <2>2 DEF FpsStarted
  <2>3. CASE FpsWait \/ FpsTimeout
    BY <2>3 DEF FpsWait, FpsTimeout
  <2> QED BY <1>1, <2>1, <2>2, <2>3 DEF FpsStep
<1>2. CASE FpsStop
  BY <1>2 DEF FpsStop
<1>8. CASE FpsStart
  BY <1>8 DEF FpsStart
<1>9. CASE FpsSetStarted
  BY <1>9 DEF FpsSetStarted
<1>3. CASE FpsStartSignal
  <2>1. missed' \in BOOLEAN /\ thread_started' \in BOOLEAN
    BY <1>3 DEF FpsStartSignal
  <2>2. fps' \in {"none", "lock", "toWait", "wait", "toTimedWait", "timedWait", "done"}
    BY <1>3 DEF FpsStartSignal, FpsSignal
  <2> QED BY <1>3, <2>1, <2>2 DEF FpsStartSignal
<1>7. CASE FpsStopSignal
  BY <1>7 DEF FpsStopSignal, FpsSignal
<1>4. CASE FpsInterrupt \/ FpsInterruptSignal
  BY <1>4 DEF FpsInterrupt, FpsInterruptSignal, FpsSignal
<1>5. CASE FpsAddFrame(0, 1) \/ FpsAddFrame(1, 0)
  BY <1>5 DEF FpsAddFrame
<1>6. CASE UNCHANGED fpsCounter
  BY <1>6 DEF fpsCounter
<1> QED BY <1>1, <1>2, <1>3, <1>4, <1>5, <1>6, <1>7, <1>8, <1>9 DEF FpsOperation

\* Every step of the system does one of those to the FPS counter.
LEMMA FpsSteps ==
  ASSUME [Next]_vars
  PROVE  FpsOperation
<1>1. CASE Push \/ StreamEnds \/ Buffering \/ CountFps
  BY <1>1 DEF Push, StreamEnds, Buffering, CountFps, FpsOperation
<1>2. ASSUME NEW t \in Producers, ProducerStep(t) PROVE FpsOperation
  BY <1>2 DEF ProducerStep, OfferFrame, OnNewFrame, FpsOperation
<1>3. CASE UiStep
  BY <1>3 DEF UiStep, HandleNewFrame, UpdateFrame, CountFrame, SignalFpsCounter,
       InterruptBuffer, InterruptFps, JoinStream, Destroy, FpsOperation
<1>4. CASE SwitchFpsCounter \/ Quit \/ Terminated \/ UNCHANGED vars
  BY <1>4 DEF SwitchFpsCounter, Quit, Terminated, vars, FpsOperation
<1> QED BY <1>1, <1>2, <1>3, <1>4 DEF Next

\* The effect of a step of the UI thread on the labels.
LEMMA UiType ==
  ASSUME TypeOK, VideoBufferInv, [Next]_vars
  PROVE  ui' \in UiLabels /\ shown' \in Frame \cup {NoFrame}
<1>1. VideoBufferTypeOK
  BY DEF VideoBufferInv
<1> USE DEF TypeOK, UiLabels
<1>2. CASE Push \/ StreamEnds \/ Buffering \/ CountFps
  BY <1>2 DEF Push, StreamEnds, Buffering, CountFps
<1>3. ASSUME NEW t \in Producers, ProducerStep(t)
      PROVE  ui' \in UiLabels /\ shown' \in Frame \cup {NoFrame}
  BY <1>3 DEF ProducerStep, OfferFrame, OnNewFrame
<1>4. CASE UiStep
  BY <1>1, <1>4 DEF UiStep, HandleNewFrame, UpdateFrame, CountFrame, SignalFpsCounter,
       InterruptBuffer, InterruptFps, JoinStream, Destroy, VideoBufferTypeOK
<1>5. CASE SwitchFpsCounter \/ Quit \/ Terminated \/ UNCHANGED vars
  BY <1>5 DEF SwitchFpsCounter, Quit, Terminated, vars
<1> QED BY <1>2, <1>3, <1>4, <1>5 DEF Next

-------------------------------------------------------------------------------
(* The frames. *)

\* Every step keeps one event for a pending frame.
LEMMA ClaimNext == IInv /\ [Next]_vars => ClaimInv'
<1> SUFFICES ASSUME TypeOK, VideoBufferInv, ClaimInv, [Next]_vars PROVE ClaimInv'
  BY DEF IInv
<1>t. /\ pc \in [Producers -> Labels] /\ skipped \in [Producers -> BOOLEAN]
      /\ consumed \in BOOLEAN /\ events \in Int
  BY DEF TypeOK, VideoBufferInv, VideoBufferTypeOK, PlacesInv
<1>1. CASE Untelling /\ events' = events /\ (ui' = "consume" <=> ui = "consume")
  <2>1. consumed' = consumed /\ \A t \in Producers : Telling(t)' <=> Telling(t)
    BY <1>1, UntellingEffect
  <2> QED BY <1>1, <2>1 DEF ClaimInv
<1>2. ASSUME NEW t \in Producers, Offer(t), UNCHANGED <<events, ui>>
      PROVE  ClaimInv'
  <2>1. /\ consumed' = FALSE /\ ~Telling(t) /\ (Telling(t)' <=> consumed)
        /\ \A u \in Producers \ {t} : Telling(u)' <=> Telling(u)
    BY <1>2, <1>t DEF Offer, FramePush, Goto, Telling
  <2>2. CASE consumed
    BY <1>2, <2>1, <2>2 DEF ClaimInv
  <2>3. CASE ~consumed
    BY <1>2, <2>1, <2>3 DEF ClaimInv
  <2> QED BY <2>2, <2>3
<1>3. ASSUME NEW t \in Producers, OfferFails(t), UNCHANGED <<events, ui>>
      PROVE  ClaimInv'
  <2>1. consumed' = consumed /\ \A u \in Producers : Telling(u)' <=> Telling(u)
    BY <1>3, <1>t DEF OfferFails, FramePushFails, Resume, Goto, Telling
  <2> QED BY <1>3, <2>1 DEF ClaimInv
<1>4. ASSUME NEW t \in Producers, OnNewFrame(t)
      PROVE  ClaimInv'
  <2>1. /\ consumed' = consumed /\ ~Telling(t)' /\ (Telling(t) <=> ~skipped[t]) /\ ui' = ui
        /\ \A u \in Producers \ {t} : Telling(u)' <=> Telling(u)
    BY <1>4, <1>t DEF OnNewFrame, Notify, Resume, Goto, Telling, frameBuffer
  <2>2. CASE skipped[t]
    BY <1>4, <2>1, <2>2 DEF ClaimInv, OnNewFrame
  <2>3. CASE ~skipped[t]
    <3>1. /\ ~consumed /\ events = 0 /\ ui # "consume" /\ \A u \in Producers \ {t} : ~Telling(u)
      BY <2>1, <2>3 DEF ClaimInv
    <3>2. events' = 1
      BY <1>4, <2>3, <3>1 DEF OnNewFrame
    <3> QED BY <2>1, <3>1, <3>2 DEF ClaimInv
  <2> QED BY <2>2, <2>3
<1>5. CASE HandleNewFrame
  <2>1. /\ events > 0 /\ events' = events - 1 /\ ui # "consume" /\ ui' = "consume"
        /\ consumed' = consumed /\ \A t \in Producers : Telling(t)' <=> Telling(t)
    BY <1>5 DEF HandleNewFrame, Telling, frameBuffer, videoBuffer
  <2> QED BY <2>1 DEF ClaimInv
<1>6. CASE UpdateFrame
  <2>1. /\ ui = "consume" /\ ui' = "count" /\ events' = events /\ consumed' = TRUE
        /\ \A t \in Producers : Telling(t)' <=> Telling(t)
    BY <1>6 DEF UpdateFrame, FrameConsume, Telling, videoBuffer
  <2> QED BY <2>1 DEF ClaimInv
<1>7. ASSUME Push \/ StreamEnds \/ Buffering \/ CountFps \/ CountFrame \/ SignalFpsCounter
               \/ InterruptBuffer \/ InterruptFps \/ JoinStream \/ Destroy
               \/ SwitchFpsCounter \/ Quit \/ Terminated \/ UNCHANGED vars
      PROVE  Untelling /\ events' = events /\ (ui' = "consume" <=> ui = "consume")
  <2>1. CASE Push \/ StreamEnds \/ Buffering \/ CountFps
    BY <2>1 DEF Push, StreamEnds, Buffering, CountFps, Untelling
  <2>2. CASE CountFrame \/ SignalFpsCounter \/ SwitchFpsCounter \/ InterruptFps
    BY <2>2 DEF CountFrame, SignalFpsCounter, SwitchFpsCounter, InterruptFps, Untelling
  <2>3. CASE InterruptBuffer \/ JoinStream \/ Destroy
    BY <2>3 DEF InterruptBuffer, JoinStream, Destroy, Untelling
  <2>4. CASE Quit \/ Terminated \/ UNCHANGED vars
    BY <2>4 DEF Quit, Terminated, vars, Untelling
  <2> QED BY <1>7, <2>1, <2>2, <2>3, <2>4
<1>8. ASSUME NEW t \in Producers, ProducerStep(t)
      PROVE  OnNewFrame(t) \/ ((Offer(t) \/ OfferFails(t)) /\ UNCHANGED <<events, ui>>)
  BY <1>8 DEF ProducerStep, OfferFrame
<1> QED BY <1>1, <1>2, <1>3, <1>4, <1>5, <1>6, <1>7, <1>8 DEF Next, UiStep

\* Only one step shows a frame, and it shows the oldest.
LEMMA ShownStep ==
  ASSUME IInv, [Next]_vars
  PROVE  \/ shown' = shown
         \/ shown' = pending /\ pending \in InFlight /\ \A f \in InFlight' : pending < f
<1>1. CASE UpdateFrame
  <2>1. ~consumed
    BY <1>1 DEF IInv, ClaimInv, UpdateFrame
  <2>2. VideoBufferInv /\ FrameConsume("ui") /\ UNCHANGED videoBuffer /\ shown' = pending
    BY <1>1 DEF IInv, UpdateFrame
  <2> QED BY <2>1, <2>2, ConsumeOldest
<1>2. CASE Push \/ StreamEnds \/ Buffering \/ CountFps
  BY <1>2 DEF Push, StreamEnds, Buffering, CountFps
<1>3. ASSUME NEW t \in Producers, ProducerStep(t) PROVE shown' = shown
  BY <1>3 DEF ProducerStep, OfferFrame, OnNewFrame
<1>4. CASE UiStep /\ ~UpdateFrame
  BY <1>4 DEF UiStep, HandleNewFrame, CountFrame, SignalFpsCounter, InterruptBuffer,
       InterruptFps, JoinStream, Destroy
<1>5. CASE SwitchFpsCounter \/ Quit \/ Terminated \/ UNCHANGED vars
  BY <1>5 DEF SwitchFpsCounter, Quit, Terminated, vars
<1> QED BY <1>1, <1>2, <1>3, <1>4, <1>5 DEF Next

\* Every step keeps the frame shown older than those on their way.
LEMMA ShownNext == IInv /\ [Next]_vars => ShownInv'
<1> SUFFICES ASSUME IInv, [Next]_vars PROVE ShownInv'
  OBVIOUS
<1>1. VideoBufferInv' /\ Accepts /\ newest \in Nat /\ MaxFrames \in Nat
        /\ shown \in 0..newest /\ (\A f \in InFlight : shown < f) /\ pending \in 0..newest
  BY VideoBufferKept, FrameBufferAssumption
  DEF IInv, ShownInv, VideoBufferInv, VideoBufferTypeOK, ChainInv
<1>2. CASE shown' = shown
  BY <1>1, <1>2 DEF ShownInv, Accepts
<1>3. CASE shown' = pending /\ \A f \in InFlight' : pending < f
  BY <1>1, <1>3 DEF ShownInv, Accepts
<1> QED BY <1>2, <1>3, ShownStep

\* Every step keeps the types.
LEMMA TypeNext == IInv /\ [Next]_vars => TypeOK'
<1> SUFFICES ASSUME IInv, [Next]_vars PROVE TypeOK'
  OBVIOUS
<1>1. VideoBufferTypeOK' /\ ui' \in UiLabels /\ shown' \in Frame \cup {NoFrame}
  BY VideoBufferKept, UiType DEF IInv, VideoBufferInv
<1>2. FpsTypeOK'
  BY FpsSteps, FpsType DEF IInv, TypeOK
<1>3. events' \in 0..MaxFrames
  BY ClaimNext, FrameBufferAssumption DEF ClaimInv
<1> QED BY <1>1, <1>2, <1>3 DEF TypeOK

-------------------------------------------------------------------------------
(* The teardown and the FPS counter. *)

\* Every step keeps which threads have ended.
LEMMA TeardownNext == IInv /\ [Next]_vars => TeardownInv'
<1> SUFFICES ASSUME TypeOK, VideoBufferInv, TeardownInv, [Next]_vars PROVE TeardownInv'
  BY DEF IInv
<1>d. /\ pc["buffering"] = "done" => pc'["buffering"] = "done"
      /\ pc["decoder"] = "closed" => pc'["decoder"] = "closed"
  <2>1. UpdateFrame => pc' = pc
    BY DEF UpdateFrame, videoBuffer
  <2> QED BY <2>1, Steps, ThreadsStayDone
<1>f. fpsCounter' = fpsCounter => UNCHANGED <<fps, thread_started>>
  BY DEF fpsCounter
<1> USE DEF TeardownInv
<1>1. CASE Push \/ StreamEnds \/ Buffering
  BY <1>1, <1>d, <1>f DEF Push, StreamEnds, Buffering
<1>2. CASE CountFps
  BY <1>2, <1>d DEF CountFps, FpsStep, FpsInterrupted, FpsNotStarted, FpsStarted, FpsWait,
       FpsTimeout
<1>3. ASSUME NEW t \in Producers, ProducerStep(t) PROVE TeardownInv'
  BY <1>3, <1>d, <1>f DEF ProducerStep, OfferFrame, OnNewFrame, FpsAddFrame
<1>4. CASE HandleNewFrame \/ UpdateFrame \/ CountFrame \/ InterruptBuffer \/ JoinStream \/ Quit
  BY <1>4, <1>d, <1>f DEF HandleNewFrame, UpdateFrame, CountFrame, FpsAddFrame, InterruptBuffer,
       JoinStream, Quit
<1>5. CASE Destroy
  BY <1>5, <1>d, <1>f DEF Destroy, FpsJoined
<1>6. CASE SwitchFpsCounter
  BY <1>6, <1>d DEF SwitchFpsCounter, FpsStop, FpsStart
<1>7. CASE SignalFpsCounter
  BY <1>7, <1>d DEF SignalFpsCounter, FpsSetStarted, FpsStartSignal, FpsStopSignal, FpsSignal
<1>8. CASE InterruptFps
  BY <1>8, <1>d DEF InterruptFps, FpsInterrupt, FpsInterruptSignal, FpsSignal
<1>9. CASE Terminated \/ UNCHANGED vars
  BY <1>9, <1>d, <1>f DEF Terminated, vars
<1> QED BY <1>1, <1>2, <1>3, <1>4, <1>5, <1>6, <1>7, <1>8, <1>9 DEF Next, UiStep

\* Every step keeps the thread of the FPS counter awake when it has something to do.
LEMMA FpsNext == IInv /\ [Next]_vars => FpsInv'
<1> SUFFICES ASSUME TypeOK, TeardownInv, FpsInv, [Next]_vars PROVE FpsInv'
  BY DEF IInv
<1>t. {started, interrupted, thread_started, missed} \subseteq BOOLEAN
  BY DEF TypeOK, FpsTypeOK
<1>f. fpsCounter' = fpsCounter => UNCHANGED <<started, interrupted, fps, missed>>
  BY DEF fpsCounter
<1> USE <1>t DEF FpsInv
<1>1. CASE Push \/ StreamEnds \/ Buffering
  BY <1>1, <1>f DEF Push, StreamEnds, Buffering
<1>2. CASE CountFps
  <2>1. ui' = ui
    BY <1>2 DEF CountFps
  <2>2. CASE FpsInterrupted
    BY <2>1, <2>2 DEF FpsInterrupted
  <2>3. CASE FpsNotStarted
    BY <2>1, <2>3 DEF FpsNotStarted
  <2>4. CASE FpsStarted
    BY <2>1, <2>4 DEF FpsStarted
  <2>5. CASE FpsWait
    BY <2>1, <2>5 DEF FpsWait
  <2>6. CASE FpsTimeout
    BY <2>1, <2>6 DEF FpsTimeout
  <2> QED BY <1>2, <2>2, <2>3, <2>4, <2>5, <2>6 DEF CountFps, FpsStep
<1>3. ASSUME NEW t \in Producers, ProducerStep(t) PROVE FpsInv'
  BY <1>3, <1>f DEF ProducerStep, OfferFrame, OnNewFrame, FpsAddFrame
<1>4. CASE HandleNewFrame \/ UpdateFrame \/ CountFrame \/ InterruptBuffer \/ JoinStream \/ Quit
             \/ Destroy
  BY <1>4, <1>f DEF HandleNewFrame, UpdateFrame, CountFrame, FpsAddFrame, InterruptBuffer,
       JoinStream, Quit, Destroy
<1>5. CASE SwitchFpsCounter
  BY <1>5 DEF SwitchFpsCounter, FpsStop, FpsStart, FpsUnlocked
<1>6. CASE SignalFpsCounter
  <2>1. CASE ui = "setStarted"
    BY <1>6, <2>1 DEF SignalFpsCounter, FpsSetStarted
  <2>2. CASE ui = "signalStart"
    <3>1. /\ ui' = "loop" /\ interrupted' = interrupted /\ missed' = (fps = "toWait")
          /\ fps' \in {"wait", "toWait"} => fps = "toWait"
          /\ fps' = "toWait" => fps = "toWait"
          /\ fps' # "wait"
      BY <1>6, <2>2 DEF SignalFpsCounter, FpsStartSignal, FpsSignal, TeardownInv
    <3> QED BY <3>1
  <2>3. CASE ui = "signalStop"
    BY <1>6, <2>3 DEF SignalFpsCounter, FpsStopSignal, FpsSignal
  <2> QED BY <1>6, <2>1, <2>2, <2>3 DEF SignalFpsCounter
<1>7. CASE InterruptFps
  BY <1>7 DEF InterruptFps, FpsInterrupt, FpsInterruptSignal, FpsSignal, FpsUnlocked, TeardownInv
<1>8. CASE Terminated \/ UNCHANGED vars
  BY <1>8, <1>f DEF Terminated, vars
<1> QED BY <1>1, <1>2, <1>3, <1>4, <1>5, <1>6, <1>7, <1>8 DEF Next, UiStep

-------------------------------------------------------------------------------
(* The count of the frames. *)

\* The numbers below are counts.
CountTypeOK ==
  /\ Queuing \in Nat /\ newest \in Nat /\ Len(queue) \in Nat /\ Pending \in {0, 1}
  /\ Held \in [Producers -> {0, 1}] /\ Skipping \in [Producers -> {0, 1}]
  /\ Rendering \in {0, 1}

\* What the count is made of.
LEMMA CountTypes == VideoBufferInv => CountTypeOK
<1> SUFFICES ASSUME VideoBufferInv PROVE CountTypeOK
  OBVIOUS
<1>1. queue \in Seq(Frame) /\ newest \in 0..MaxFrames /\ MaxFrames \in Nat
  BY FrameBufferAssumption DEF VideoBufferInv, VideoBufferTypeOK
<1>2. Pending \in {0, 1} /\ Rendering \in {0, 1}
  BY DEF Pending, Rendering
<1>3. Held \in [Producers -> {0, 1}] /\ Skipping \in [Producers -> {0, 1}]
  BY DEF Held, Skipping
<1>4. Held["decoder"] \in {0, 1} /\ Held["buffering"] \in {0, 1}
  BY <1>3 DEF Producers
<1>5. Len(queue) \in Nat
  BY <1>1
<1> QED BY <1>1, <1>2, <1>3, <1>4, <1>5 DEF Queuing, CountTypeOK

\* What the steps of the decoder, of the buffering thread and of sc_video_buffer_stop
\* do to the frames still to be counted.
LEMMA QueuingNext ==
  ASSUME VideoBufferInv, VideoBufferInv', Untelling
  PROVE  /\ \/ newest' = newest /\ Queuing' <= Queuing
            \/ newest' = newest + 1 /\ Queuing' <= Queuing + 1
         /\ Skipping' = Skipping
<1>t. /\ pc \in [Producers -> Labels] /\ skipped \in [Producers -> BOOLEAN]
      /\ queue \in Seq(Frame) /\ newest \in Nat
  BY FrameBufferAssumption DEF VideoBufferInv, VideoBufferTypeOK, PlacesInv
<1>d. "decoder" \in Producers /\ "buffering" \in Producers
  BY DEF Producers
<1>c. /\ Len(queue) \in Nat /\ Len(queue') \in Nat /\ newest \in Nat /\ newest' \in Nat
      /\ Pending \in {0, 1} /\ Pending' \in {0, 1}
      /\ \A t \in Producers : Held[t] \in {0, 1} /\ Held'[t] \in {0, 1}
  <2>1. CountTypeOK /\ CountTypeOK'
    BY CountTypes, PTL
  <2> QED BY <2>1 DEF CountTypeOK
<1>1. CASE PushDirectly
  <2>1. queue' = queue /\ newest' = newest + 1 /\ Pending' = Pending
    BY <1>1, <1>t DEF PushDirectly, Pending, frameBuffer
  <2>2. Held'["buffering"] = Held["buffering"] /\ Held["decoder"] = 0
    BY <1>1, <1>t, <1>d DEF PushDirectly, Goto, Held, Busy
  <2>3. Skipping' = Skipping
    BY <1>1, <1>t DEF PushDirectly, Goto, Skipping, Producers
  <2> QED BY <1>c, <1>d, <2>1, <2>2, <2>3 DEF Queuing
<1>2. CASE PushLater \/ PushFails
  <2>1. newest' = newest + 1 /\ Pending' = Pending
    BY <1>2 DEF PushLater, PushFails, Pending, frameBuffer
  <2>2. Held' = Held /\ Skipping' = Skipping
    BY <1>2, <1>t DEF PushLater, PushFails, SignalQueue, Skipping, Held, Busy, Producers
  <2>3. Len(queue') <= Len(queue) + 1
    BY <1>2, <1>t, QueueNewest DEF PushLater, PushFails
  <2> QED BY <1>c, <1>d, <2>1, <2>2, <2>3 DEF Queuing
<1>3. CASE DecoderClose \/ WaitQueue \/ FlushEnds \/ VideoBufferStop \/ DeadlinePassed
             \/ BufferingStops \/ (UNCHANGED <<frameBuffer, videoBuffer>>)
  <2> USE <1>t DEF Goto, Holds, Producers, Busy
  <2>1. newest' = newest /\ Pending' = Pending /\ queue' = queue
    BY <1>3 DEF DecoderClose, WaitQueue, FlushEnds, VideoBufferStop, DeadlinePassed,
       BufferingStops, Pending, frameBuffer, videoBuffer
  <2>2. CASE DecoderClose \/ WaitQueue \/ FlushEnds \/ DeadlinePassed
    <3>1. Held' = Held /\ Skipping' = Skipping
      BY <2>2 DEF DecoderClose, WaitQueue, FlushEnds, DeadlinePassed, Held, Skipping
    <3> QED BY <1>c, <1>d, <2>1, <3>1 DEF Queuing
  <2>3. CASE VideoBufferStop \/ BufferingStops
    <3>1. (\A t \in Producers : Held'[t] <= Held[t]) /\ Skipping' = Skipping
      BY <2>3 DEF VideoBufferStop, SignalQueue, BufferingStops, Held, Skipping
    <3> QED BY <1>c, <1>d, <2>1, <3>1 DEF Queuing
  <2>4. CASE UNCHANGED <<frameBuffer, videoBuffer>>
    <3>1. Held' = Held /\ Skipping' = Skipping
      BY <2>4 DEF videoBuffer, Held, Skipping
    <3> QED BY <1>c, <1>d, <2>1, <3>1 DEF Queuing
  <2> QED BY <1>3, <2>2, <2>3, <2>4
<1>4. CASE TakeFrame \/ FlushFrame
  <2>1. newest' = newest /\ Pending' = Pending /\ queue # <<>> /\ queue' = Tail(queue)
    BY <1>4 DEF TakeFrame, FlushFrame, Pending, frameBuffer
  <2>2. /\ Held'["decoder"] = Held["decoder"] /\ Held'["buffering"] <= Held["buffering"] + 1
        /\ Skipping' = Skipping
    BY <1>4, <1>t DEF TakeFrame, FlushFrame, Goto, Held, Busy, Skipping, Producers
  <2>3. Len(queue') = Len(queue) - 1
    BY <1>t, <2>1, HeadTailProperties
  <2> QED BY <1>c, <1>d, <2>1, <2>2, <2>3 DEF Queuing
<1> QED BY <1>1, <1>2, <1>3, <1>4 DEF Untelling, DecoderStep, BufferingStep

\* An offer, whether it succeeds or not, and the notification that follows it count
\* the frame at most once.
LEMMA OfferNext ==
  ASSUME VideoBufferInv, VideoBufferInv', NEW t \in Producers,
         Offer(t) \/ OfferFails(t) \/ Notify(t)
  PROVE  /\ newest' = newest
         /\ \A u \in Producers \ {t} : Skipping'[u] = Skipping[u]
         /\ Queuing' <= Queuing
         /\ Notify(t) => Skipping'[t] = 0
         /\ ~Notify(t) => Skipping[t] = 0 /\ Queuing' + Skipping'[t] <= Queuing
<1>t. pc \in [Producers -> Labels] /\ skipped \in [Producers -> BOOLEAN]
  BY DEF VideoBufferInv, VideoBufferTypeOK, PlacesInv
<1>d. "decoder" \in Producers /\ "buffering" \in Producers
        /\ (t = "decoder" \/ t = "buffering")
  BY DEF Producers
<1>c. /\ Len(queue) \in Nat /\ Pending \in {0, 1} /\ Pending' \in {0, 1}
      /\ \A u \in Producers : Held[u] \in {0, 1} /\ Held'[u] \in {0, 1}
                                /\ Skipping[u] \in {0, 1} /\ Skipping'[u] \in {0, 1}
  <2>1. CountTypeOK /\ CountTypeOK'
    BY CountTypes, PTL
  <2> QED BY <2>1 DEF CountTypeOK
<1>1. newest' = newest /\ queue' = queue
  BY DEF Offer, OfferFails, Notify
<1>2. \A u \in Producers \ {t} : Skipping'[u] = Skipping[u] /\ Held'[u] = Held[u]
  BY <1>t DEF Offer, OfferFails, Notify, Resume, Goto, Holds, Skipping, Held, Busy, Producers
<1>3. CASE Offer(t)
  <2>1. /\ Held[t] = 1 /\ Held'[t] = 0 /\ Pending' = 1 /\ Skipping[t] = 0
        /\ Skipping'[t] = Pending
    BY <1>3, <1>t DEF Offer, FramePush, Goto, Held, Busy, Skipping, Pending
  <2>2. ~Notify(t)
    BY <1>3 DEF Offer, Notify
  <2> QED BY <1>c, <1>d, <1>1, <1>2, <2>1, <2>2 DEF Queuing
<1>4. CASE OfferFails(t)
  <2>1. Held[t] = 1 /\ Held'[t] = 0 /\ Pending' = Pending /\ Skipping[t] = 0 /\ Skipping'[t] = 0
    BY <1>4, <1>t DEF OfferFails, FramePushFails, Resume, Goto, Held, Busy, Skipping, Pending
  <2>2. ~Notify(t)
    BY <1>4 DEF OfferFails, Notify
  <2> QED BY <1>c, <1>d, <1>1, <1>2, <2>1, <2>2 DEF Queuing
<1>5. CASE Notify(t)
  <2>1. Held[t] = 0 /\ Held'[t] = 0 /\ Pending' = Pending /\ Skipping'[t] = 0
    BY <1>5, <1>t DEF Notify, Resume, Goto, Held, Busy, Skipping, Pending, frameBuffer
  <2> QED BY <1>5, <1>c, <1>d, <1>1, <1>2, <2>1 DEF Queuing
<1> QED BY <1>3, <1>4, <1>5

\* No step counts a frame twice.
LEMMA CountNext == IInv /\ [Next]_vars => CountInv'
<1> SUFFICES ASSUME IInv, [Next]_vars PROVE CountInv'
  OBVIOUS
<1>t. /\ VideoBufferInv /\ VideoBufferInv' /\ nr_rendered \in Nat /\ nr_skipped \in Nat
      /\ Counted + Uncounted <= newest /\ Counted \in Nat
  BY VideoBufferKept DEF IInv, TypeOK, FpsTypeOK, CountInv, Counted
<1>d. "decoder" \in Producers /\ "buffering" \in Producers
  BY DEF Producers
<1>c. /\ Queuing \in Nat /\ newest \in Nat /\ Rendering \in {0, 1}
      /\ Queuing' \in Nat /\ newest' \in Nat /\ Rendering' \in {0, 1}
      /\ \A t \in Producers : Skipping[t] \in {0, 1} /\ Skipping'[t] \in {0, 1}
  <2>1. CountTypeOK /\ CountTypeOK'
    BY <1>t, CountTypes, PTL
  <2> QED BY <2>1 DEF CountTypeOK
<1>s. Skipping["decoder"] \in {0, 1} /\ Skipping["buffering"] \in {0, 1}
  BY <1>d, <1>c
<1>1. ASSUME Untelling, Counted' <= Counted,
             Counted' \in Nat, Rendering' <= Rendering
      PROVE  CountInv'
  <2>1. /\ \/ newest' = newest /\ Queuing' <= Queuing
           \/ newest' = newest + 1 /\ Queuing' <= Queuing + 1
        /\ Skipping' = Skipping
    BY <1>1, <1>t, QueuingNext
  <2>2. UNCHANGED <<Skipping["decoder"], Skipping["buffering"]>>
    BY <1>d, <2>1
  <2> QED BY <1>1, <1>t, <1>s, <1>c, <2>1, <2>2 DEF CountInv, Uncounted
<1>2. ASSUME NEW t \in Producers, Offer(t) \/ OfferFails(t), UNCHANGED <<fpsCounter, ui>>
      PROVE  CountInv'
  <2>1. /\ newest' = newest /\ Queuing' + Skipping'[t] <= Queuing /\ Skipping[t] = 0
        /\ \A u \in Producers \ {t} : Skipping'[u] = Skipping[u]
    <3>1. ~Notify(t)
      BY <1>2 DEF Offer, OfferFails, Notify
    <3> QED BY <1>2, <1>t, <3>1, OfferNext
  <2>2. Counted' = Counted /\ Rendering' = Rendering
    BY <1>2 DEF fpsCounter, Rendering, Counted
  <2>3. t = "decoder" \/ t = "buffering"
    BY DEF Producers
  <2> QED BY <1>t, <1>d, <1>c, <2>1, <2>2, <2>3 DEF CountInv, Uncounted
<1>3. ASSUME NEW t \in Producers, OnNewFrame(t)
      PROVE  CountInv'
  <2>1. /\ newest' = newest /\ Queuing' <= Queuing /\ Skipping'[t] = 0
        /\ \A u \in Producers \ {t} : Skipping'[u] = Skipping[u]
    BY <1>3, <1>t, OfferNext DEF OnNewFrame
  <2>2. /\ Rendering' = Rendering /\ Counted' \in Nat
        /\ Counted' <= Counted + Skipping[t]
    <3>1. CASE skipped[t] /\ FpsAddFrame(0, 1)
      <4>1. Skipping[t] = 1 /\ Rendering' = Rendering
        BY <1>3, <3>1 DEF OnNewFrame, Notify, Skipping, Rendering
      <4>2. /\ Counted' \in Nat
            /\ Counted' <= Counted + 1
        BY <1>t, <3>1 DEF FpsAddFrame, CheckInterval, counts, Counted
      <4> QED BY <4>1, <4>2
    <3>2. CASE ~skipped[t] /\ UNCHANGED fpsCounter
      <4>1. Rendering' = Rendering /\ Counted' = Counted
        BY <1>3, <3>2 DEF OnNewFrame, fpsCounter, Rendering, Counted
      <4> QED BY <1>t, <1>c, <4>1
    <3> QED BY <1>3, <3>1, <3>2 DEF OnNewFrame
  <2>3. t = "decoder" \/ t = "buffering"
    BY DEF Producers
  <2> QED BY <1>t, <1>d, <1>c, <2>1, <2>2, <2>3 DEF CountInv, Uncounted
<1>4. CASE UpdateFrame
  <2>1. ~consumed
    BY <1>4 DEF IInv, ClaimInv, UpdateFrame
  <2>2. Counted' = Counted /\ newest' = newest
    BY <1>4 DEF UpdateFrame, videoBuffer, fpsCounter, Counted
  <2>3. Rendering = 0 /\ Rendering' = 1 /\ Pending = 1 /\ Pending' = 0
    BY <1>4, <2>1 DEF UpdateFrame, FrameConsume, Rendering, Pending
  <2>4. /\ queue' = queue
        /\ Held' = Held /\ Skipping' = Skipping
    BY <1>4 DEF UpdateFrame, videoBuffer, Busy, Held, Skipping
  <2>5. Queuing' = Queuing - 1
    <3>1. Len(queue) \in Nat /\ \A t \in Producers : Held[t] \in {0, 1}
      BY <1>t, CountTypes DEF CountTypeOK
    <3> QED BY <1>d, <2>3, <2>4, <3>1 DEF Queuing
  <2>6. UNCHANGED <<Skipping["decoder"], Skipping["buffering"]>>
    BY <1>d, <2>4
  <2> QED BY <1>t, <1>s, <1>c, <2>2, <2>3, <2>5, <2>6 DEF CountInv, Uncounted
<1>5. CASE CountFrame
  <2>1. Rendering = 1 /\ Rendering' = 0
    BY <1>5 DEF CountFrame, Rendering
  <2>2. /\ Counted' \in Nat
        /\ Counted' <= Counted + 1
    BY <1>5, <1>t DEF CountFrame, FpsAddFrame, CheckInterval, counts, Counted
  <2>3. newest' = newest /\ Queuing' <= Queuing
          /\ Skipping' = Skipping
    <3>1. Untelling /\ newest' = newest
      BY <1>5 DEF CountFrame, Untelling, videoBuffer
    <3>2. /\ \/ newest' = newest /\ Queuing' <= Queuing
             \/ newest' = newest + 1 /\ Queuing' <= Queuing + 1
          /\ Skipping' = Skipping
      BY <1>t, <3>1, QueuingNext
    <3> QED BY <1>c, <3>1, <3>2
  <2>4. UNCHANGED <<Skipping["decoder"], Skipping["buffering"]>>
    BY <1>d, <2>3
  <2> QED BY <1>t, <1>s, <1>c, <2>1, <2>2, <2>3, <2>4 DEF CountInv, Uncounted
<1>6. ASSUME Push \/ StreamEnds \/ Buffering \/ CountFps \/ HandleNewFrame \/ SignalFpsCounter
               \/ InterruptBuffer \/ InterruptFps \/ JoinStream \/ Destroy
               \/ SwitchFpsCounter \/ Quit \/ Terminated \/ UNCHANGED vars
      PROVE  /\ Untelling /\ Rendering' <= Rendering
             /\ Counted' <= Counted
             /\ Counted' \in Nat
  <2> USE <1>t DEF Untelling, Rendering
  <2>f. UNCHANGED counts \/ fpsCounter' = fpsCounter
          => Counted' = Counted
    BY DEF counts, fpsCounter, Counted
  <2>1. CASE Push \/ StreamEnds \/ Buffering
    BY <2>1, <2>f DEF Push, StreamEnds, Buffering
  <2>2. CASE CountFps
    <3>1. ui' = ui /\ UNCHANGED <<frameBuffer, videoBuffer>> /\ FpsStep
      BY <2>2 DEF CountFps
    <3>2. CASE FpsStarted
      BY <3>1, <3>2 DEF FpsStarted, CheckInterval, Counted
    <3>3. CASE ~FpsStarted
      BY <3>1, <3>3, <2>f DEF FpsStep, FpsInterrupted, FpsNotStarted, FpsWait, FpsTimeout
    <3> QED BY <3>2, <3>3
  <2>3. CASE HandleNewFrame \/ InterruptBuffer \/ JoinStream \/ Destroy \/ Quit
    BY <2>3, <2>f DEF HandleNewFrame, InterruptBuffer, JoinStream, Destroy, Quit
  <2>4. CASE SignalFpsCounter
    BY <2>4, <2>f DEF SignalFpsCounter, FpsSetStarted, FpsStartSignal, FpsStopSignal
  <2>5. CASE SwitchFpsCounter
    BY <2>5, <2>f DEF SwitchFpsCounter, FpsStop, FpsStart, Counted
  <2>6. CASE InterruptFps
    BY <2>6, <2>f DEF InterruptFps, FpsInterrupt, FpsInterruptSignal
  <2>7. CASE Terminated \/ UNCHANGED vars
    BY <2>7, <2>f DEF Terminated, vars
  <2> QED BY <1>6, <2>1, <2>2, <2>3, <2>4, <2>5, <2>6, <2>7
<1>7. ASSUME NEW t \in Producers, ProducerStep(t)
      PROVE  OnNewFrame(t) \/ ((Offer(t) \/ OfferFails(t)) /\ UNCHANGED <<fpsCounter, ui>>)
  BY <1>7 DEF ProducerStep, OfferFrame
<1> QED BY <1>1, <1>2, <1>3, <1>4, <1>5, <1>6, <1>7 DEF Next, UiStep

-------------------------------------------------------------------------------
(* The theorems. *)

\* The inductive invariant holds, for any number of frames.
THEOREM Invariance == Spec => []IInv
<1>1. IInv /\ [Next]_vars => IInv'
  BY TypeNext, VideoBufferKept, ClaimNext, ShownNext, TeardownNext, FpsNext, CountNext DEF IInv
<1> QED BY <1>1, Initial, PTL DEF Spec

\* A pending frame has one event, posted, about to be posted or being handled, and an
\* event finds its frame: the assertion of sc_frame_buffer_consume never fails.
THEOREM OneEvent == Spec => []OneEventPerPendingFrame
<1>1. IInv => OneEventPerPendingFrame
  <2> SUFFICES ASSUME TypeOK, ClaimInv PROVE Claims = (IF consumed THEN 0 ELSE 1)
    BY DEF IInv, OneEventPerPendingFrame
  <2>1. \A t \in Producers : t \in Notifying <=> Telling(t)
    BY DEF Notifying, Telling
  <2>2. CASE \A t \in Producers : ~Telling(t)
    BY <2>1, <2>2 DEF ClaimInv, Claims, Producers
  <2>3. CASE \E t \in Producers : Telling(t) /\ \A u \in Producers \ {t} : ~Telling(u)
    <3>1. ~consumed /\ events = 0 /\ ui # "consume"
      BY <2>3 DEF ClaimInv
    <3>2. \/ "decoder" \in Notifying /\ "buffering" \notin Notifying
          \/ "decoder" \notin Notifying /\ "buffering" \in Notifying
      BY <2>1, <2>3 DEF Producers
    <3> QED BY <3>1, <3>2 DEF Claims
  <2> QED BY <2>2, <2>3 DEF ClaimInv
<1> QED BY <1>1, Invariance, PTL

\* One thread at a time offers frames, and none once scrcpy_stop has destroyed the screen.
THEOREM SafeProducers == Spec => []ProducersAreSafe
<1>1. IInv => ProducersAreSafe
  BY OneOffers DEF IInv, TeardownInv, ProducersAreSafe, OneProducer, NoFrameAfterDestroy
<1> QED BY <1>1, Invariance, PTL

\* Frames are shown in the order they were decoded, none twice (screen_update_frame).
THEOREM OrderedFrames == Spec => FramesInOrder
<1>1. IInv /\ [Next]_vars => [shown' # shown => shown' > shown]_vars
  <2> SUFFICES ASSUME IInv, [Next]_vars, shown' # shown PROVE shown' > shown
    OBVIOUS
  <2>1. shown' = pending /\ pending \in InFlight
    BY ShownStep
  <2>2. shown \in Nat /\ pending \in Nat /\ \A f \in InFlight : shown < f
    BY FrameBufferAssumption
    DEF IInv, ShownInv, VideoBufferInv, VideoBufferTypeOK, ChainInv
  <2> QED BY <2>1, <2>2
<1> QED BY <1>1, Invariance, PTL DEF Spec, FramesInOrder

\* The thread of the FPS counter is never asleep when it is interrupted, nor started
\* unless the signal was missed, and counts no frame twice (run_fps_counter).
THEOREM AwakeFpsCounter == Spec => []FpsCounterIsAwake
<1>1. IInv => FpsCounterIsAwake
  <2> SUFFICES ASSUME IInv PROVE nr_rendered + nr_skipped <= newest
    BY DEF IInv, FpsInv, FpsCounterIsAwake
  <2>1. VideoBufferTypeOK /\ nr_rendered \in Nat /\ nr_skipped \in Nat
    BY DEF IInv, TypeOK, FpsTypeOK
  <2>2. Uncounted \in Nat /\ newest \in Nat
    BY CountTypes DEF IInv, CountTypeOK, Uncounted, Producers
  <2> QED BY <2>1, <2>2 DEF IInv, CountInv, Counted
<1> QED BY <1>1, Invariance, PTL
===============================================================================
