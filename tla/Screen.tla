-------------------------------- MODULE Screen --------------------------------
(****************************************************************************)
(* The way of a frame to the screen (screen.c, with the event loop and the  *)
(* teardown of scrcpy.c): the producers of VideoBuffer.tla post an event to *)
(* the UI thread, which consumes the frame when it handles the event.  Both *)
(* count the frames (FpsCounter.tla), when the user asked for it.           *)
(****************************************************************************)
EXTENDS VideoBuffer, FpsCounter

VARIABLES
  ui,       \* where the UI thread is
  events,   \* how many EVENT_NEW_FRAME are in the queue of SDL
  shown     \* the last frame the UI thread consumed

vars == <<frameBuffer, videoBuffer, fpsCounter, ui, events, shown>>

Init ==
  /\ VideoBufferInit /\ FpsInit
  /\ ui = "loop" /\ events = 0 /\ shown = NoFrame

-------------------------------------------------------------------------------
(* The producers. *)

Push ==
  /\ DecoderStep
  /\ UNCHANGED <<fpsCounter, ui, events, shown>>

StreamEnds ==
  /\ DecoderClose
  /\ UNCHANGED <<fpsCounter, ui, events, shown>>

\* The video buffer offers a frame, that may be lost.
OfferFrame(thread) ==
  /\ Offer(thread) \/ OfferFails(thread)
  /\ UNCHANGED <<fpsCounter, ui, events, shown>>

\* sc_video_buffer_on_new_frame: an event is posted, unless the one of the
\* frame that was skipped, which is counted, is still to be handled.
OnNewFrame(thread) ==
  /\ Notify(thread)
  /\ \/ skipped[thread] /\ FpsAddFrame(0, 1) /\ UNCHANGED events
     \/ ~skipped[thread] /\ events' = events + 1 /\ UNCHANGED fpsCounter
  /\ UNCHANGED <<ui, shown>>

Buffering ==
  /\ BufferingStep
  /\ UNCHANGED <<fpsCounter, ui, events, shown>>

CountFps ==
  /\ FpsStep
  /\ UNCHANGED <<frameBuffer, videoBuffer, ui, events, shown>>

-------------------------------------------------------------------------------
(* The UI thread. *)

\* Faulty: an event is handled that nobody posted.
HandleNoFrame ==
  /\ ui = "loop"
  /\ events' = events - 1
  /\ ui' = "consume"
  /\ UNCHANGED <<frameBuffer, videoBuffer, fpsCounter, shown>>

\* The event loop takes an EVENT_NEW_FRAME.
HandleNewFrame ==
  /\ ui = "loop" /\ events > 0
  /\ events' = events - 1
  /\ ui' = "consume"
  /\ UNCHANGED <<frameBuffer, videoBuffer, fpsCounter, shown>>

\* screen_update_frame: the frame is moved out, then counted; a texture that
\* cannot be created is only logged.
UpdateFrame ==
  /\ ui = "consume"
  /\ FrameConsume("ui")
  /\ shown' = pending
  /\ ui' = "count"
  /\ UNCHANGED <<videoBuffer, fpsCounter, events>>

CountFrame ==
  /\ ui = "count"
  /\ FpsAddFrame(1, 0)
  /\ ui' = "loop"
  /\ UNCHANGED <<frameBuffer, videoBuffer, events, shown>>

\* switch_fps_counter_state, at any time, in two or three steps.
SwitchFpsCounter ==
  /\ ui = "loop"
  /\ \/ FpsStop /\ ui' = "signalStop"
     \/ FpsStart /\ ui' = "setStarted"
  /\ UNCHANGED <<frameBuffer, videoBuffer, events, shown>>

SignalFpsCounter ==
  /\ \/ ui = "setStarted" /\ FpsSetStarted /\ ui' = "signalStart"
     \/ ui = "signalStart" /\ FpsStartSignal /\ ui' = "loop"
     \/ ui = "signalStop" /\ FpsStopSignal /\ ui' = "loop"
  /\ UNCHANGED <<frameBuffer, videoBuffer, events, shown>>

\* The event loop ends, for any reason: scrcpy_stop.
Quit ==
  /\ ui = "loop"
  /\ ui' = "stop"
  /\ UNCHANGED <<frameBuffer, videoBuffer, fpsCounter, events, shown>>

\* screen_interrupt, before the sockets are shut down: the video buffer, then
\* the FPS counter.
InterruptBuffer ==
  /\ ui = "stop"
  /\ VideoBufferStop
  /\ ui' = "interruptFps"
  /\ UNCHANGED <<fpsCounter, events, shown>>

InterruptFps ==
  /\ \/ ui = "interruptFps" /\ FpsInterrupt /\ ui' = "signalInterrupt"
     \/ ui = "signalInterrupt" /\ FpsInterruptSignal /\ ui' = "joinStream"
  /\ UNCHANGED <<frameBuffer, videoBuffer, events, shown>>

JoinStream ==
  /\ ui = "joinStream" /\ pc["decoder"] = "closed"
  /\ ui' = "joinScreen"
  /\ UNCHANGED <<frameBuffer, videoBuffer, fpsCounter, events, shown>>

\* Faulty: screen_join is not called.
DestroyUnjoined ==
  /\ ui = "joinScreen"
  /\ ui' = "destroyed"
  /\ UNCHANGED <<frameBuffer, videoBuffer, fpsCounter, events, shown>>

\* screen_join and screen_destroy.
Destroy ==
  /\ ui = "joinScreen" /\ pc["buffering"] = "done" /\ FpsJoined
  /\ ui' = "destroyed"
  /\ UNCHANGED <<frameBuffer, videoBuffer, fpsCounter, events, shown>>

Terminated == ui = "destroyed" /\ UNCHANGED vars

ProducerStep(thread) == OfferFrame(thread) \/ OnNewFrame(thread)

UiStep ==
  \/ HandleNewFrame \/ UpdateFrame \/ CountFrame \/ SignalFpsCounter
  \/ InterruptBuffer \/ InterruptFps \/ JoinStream \/ Destroy

Next ==
  \/ Push \/ StreamEnds \/ Buffering \/ CountFps
  \/ \E thread \in Producers : ProducerStep(thread)
  \/ UiStep \/ SwitchFpsCounter \/ Quit \/ Terminated

\* Every thread runs.  A delayed frame has its deadline; the decoder closes its
\* sinks once the sockets are shut down; nothing makes the device send frames or
\* the user quit.  The mutex of the FPS counter is free most of the time, not all
\* the time: who wants it gets it.  The event loop handles every event in its turn.
Fairness ==
  /\ WF_vars(Buffering) /\ WF_vars(CountFps) /\ SF_vars(UiStep) /\ SF_vars(HandleNewFrame)
  /\ \A thread \in Producers : SF_vars(ProducerStep(thread))
  /\ WF_vars(StreamEnds /\ ui = "joinStream")

Spec == Init /\ [][Next]_vars /\ Fairness

-------------------------------------------------------------------------------
(* Properties. *)

UiLabels == {"loop", "consume", "count", "setStarted", "signalStart", "signalStop",
             "stop", "interruptFps", "signalInterrupt", "joinStream", "joinScreen", "destroyed"}

TypeOK ==
  /\ VideoBufferTypeOK /\ FpsTypeOK
  /\ ui \in UiLabels
  /\ events \in 0..MaxFrames
  /\ shown \in Frame \cup {NoFrame}

\* The claims on the pending frame: an event posted, about to be posted or being
\* handled.
Notifying == {t \in Producers : pc[t] = "notify" /\ ~skipped[t]}
Claims == events + (IF ui = "consume" THEN 1 ELSE 0)
                 + (IF "decoder" \in Notifying THEN 1 ELSE 0)
                 + (IF "buffering" \in Notifying THEN 1 ELSE 0)

\* A frame that is pending has exactly one event that will consume it, and no
\* event finds the frame already consumed: the assertion of
\* sc_frame_buffer_consume holds, and a frame that replaces a skipped one is
\* consumed by the event of that one.
OneEventPerPendingFrame == TypeOK /\ Claims = (IF consumed THEN 0 ELSE 1)

\* The two producers of a frame buffer never offer frames at the same time: the
\* first frame is offered before another one can be queued.
OneProducer ==
  ~(pc["decoder"] \in {"offer", "notify"} /\ pc["buffering"] \in {"offer", "notify"})

\* Frames are shown in the order they were decoded, with none shown twice.
FramesInOrder == [][shown' # shown => shown' > shown]_vars

\* The screen is destroyed only when no thread can offer it a frame any more, and
\* the thread of its FPS counter has ended.
NoFrameAfterDestroy ==
  ui = "destroyed" => /\ pc["decoder"] = "closed" /\ pc["buffering"] = "done"
                      /\ fps \in {"none", "done"}

\* Whatever the order of the teardown, only one thread at a time offers a frame,
\* and none once the screen is destroyed (scrcpy.c:466-488).
ProducersAreSafe == OneProducer /\ NoFrameAfterDestroy

\* The FPS counter.  Its thread sleeps only when there is nothing to do: once it
\* is interrupted it never sleeps without a signal to come, and a counter that is
\* started sleeps only if the start was signalled, without the mutex, just before
\* it slept (fps_counter.c:104).  A frame is counted at most once, as rendered or
\* as skipped.
FpsCounterIsAwake ==
  /\ fps = "wait" /\ interrupted => ui = "signalInterrupt"
  /\ fps = "wait" /\ started => missed \/ ui = "signalStart"
  /\ nr_rendered + nr_skipped <= newest

\* A push that failed left the mutex of the frame buffer locked.
MutexLeaked == owner # NoThread

\* A frame that was accepted is shown, or a later one is, while the event loop
\* runs and the buffer is not stopped: the screen never freezes on an old frame,
\* unless the mutex of the frame buffer is left locked.
Accepted(f) == \/ f \in {pending, frame["decoder"], frame["buffering"]}
               \/ \E i \in 1..Len(queue) : queue[i] = f
Looping == ui \in {"loop", "consume", "count", "setStarted", "signalStart", "signalStop"}
FramesAreShown ==
  \A f \in Frame :
    Accepted(f) ~> shown >= f \/ stopped \/ ~Looping \/ MutexLeaked

\* The teardown joins every thread and ends, unless a thread is blocked by that
\* mutex.
TeardownEnds == ui = "stop" ~> (ui = "destroyed" \/ MutexLeaked)

\* No thread locks a mutex it already holds (the assertion of sc_mutex_lock).
NoRecursiveLock ==
  \A t \in Producers : pc[t] = "offer" => owner # t
===============================================================================
