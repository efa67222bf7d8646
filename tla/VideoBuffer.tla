----------------------------- MODULE VideoBuffer -----------------------------
(****************************************************************************)
(* The video buffer (video_buffer.c): the decoder thread pushes frames, and *)
(* they reach the frame buffer at once or, if there is a buffering time,    *)
(* through a queue and a thread that delays them.  Both threads end an      *)
(* offer by calling on_new_frame, which belongs to the consumer: the        *)
(* modules that extend this one give it.                                    *)
(*                                                                          *)
(* Time is left out: a delayed frame is offered at some point after it is   *)
(* taken, at the latest when its deadline comes.                            *)
(****************************************************************************)
EXTENDS FrameBuffer

VARIABLES
  buffered,  \* whether there is a buffering time
  newest,    \* how many frames the decoder pushed: the clock has min(newest, 32)
             \* points
  queue,     \* the frames that wait for the buffering thread
  stopped,   \* b.stopped
  pc,        \* where the decoder and the buffering threads are
  frame,     \* the frame each of them is busy with
  skipped    \* what on_new_frame is told: the previous frame was not consumed

videoBuffer == <<buffered, newest, queue, stopped, pc, frame, skipped>>

Producers == {"decoder", "buffering"}

\* sc_video_buffer_init and sc_video_buffer_start; b.stopped is not initialised.
VideoBufferInit ==
  /\ FrameBufferInit
  /\ buffered \in BOOLEAN
  /\ newest = 0
  /\ queue = <<>>
  /\ stopped \in (IF buffered THEN BOOLEAN ELSE {FALSE})
  /\ pc = [decoder |-> "idle", buffering |-> IF buffered THEN "lock" ELSE "done"]
  /\ frame = [t \in Producers |-> NoFrame]
  /\ skipped = [t \in Producers |-> FALSE]

Goto(thread, label) == pc' = [pc EXCEPT ![thread] = label]
Holds(thread, f) == frame' = [frame EXCEPT ![thread] = f]

-------------------------------------------------------------------------------
(* sc_video_buffer_push and sc_video_buffer_offer *)

\* Faulty: a frame is offered directly whenever no frame is queued.
PushDirectlyIfEmpty ==
  /\ pc["decoder"] = "idle" /\ newest < MaxFrames
  /\ ~buffered \/ queue = <<>>
  /\ newest' = newest + 1
  /\ Goto("decoder", "offer") /\ Holds("decoder", newest')
  /\ UNCHANGED <<frameBuffer, buffered, queue, stopped, skipped>>

\* Without buffering, and for the first frame, the decoder thread offers it.
PushDirectly ==
  /\ pc["decoder"] = "idle" /\ newest < MaxFrames
  /\ ~buffered \/ newest = 0
  /\ newest' = newest + 1
  /\ Goto("decoder", "offer") /\ Holds("decoder", newest')
  /\ UNCHANGED <<frameBuffer, buffered, queue, stopped, skipped>>

\* Faulty: the condition is not signalled.
SignalQueueForgotten == UNCHANGED pc

\* sc_cond_signal on queue_cond; a signal on wait_cond only makes the deadline
\* be computed again.
SignalQueue ==
  pc' = [pc EXCEPT !["buffering"] = IF @ = "waitQueue" THEN "lock" ELSE @]

\* Later frames are queued.  The flush of the queue does not lock the mutex: a
\* frame pushed meanwhile may be linked behind one that is being removed.
PushLater ==
  /\ pc["decoder"] = "idle" /\ newest < MaxFrames
  /\ buffered /\ newest > 0
  /\ newest' = newest + 1
  /\ \/ queue' = Append(queue, newest')
     \/ pc["buffering"] = "flush" /\ UNCHANGED queue
  /\ SignalQueue
  /\ UNCHANGED <<frameBuffer, buffered, stopped, frame, skipped>>

\* The frame could not be allocated: it is lost.
PushFails ==
  /\ pc["decoder"] = "idle" /\ newest < MaxFrames
  /\ buffered /\ newest > 0
  /\ newest' = newest + 1
  /\ UNCHANGED <<frameBuffer, buffered, queue, stopped, pc, frame, skipped>>

\* The stream ended: the decoder closes its sinks.
DecoderClose ==
  /\ pc["decoder"] = "idle"
  /\ Goto("decoder", "closed")
  /\ UNCHANGED <<frameBuffer, buffered, newest, queue, stopped, frame, skipped>>

Offer(thread) ==
  /\ pc[thread] = "offer"
  /\ FramePush(thread, frame[thread])
  /\ skipped' = [skipped EXCEPT ![thread] = ~consumed]
  /\ Goto(thread, "notify")
  /\ UNCHANGED <<buffered, newest, queue, stopped, frame>>

\* Where the thread goes after an offer.
Resume(thread) ==
  /\ Goto(thread, IF thread = "decoder" THEN "idle" ELSE "lock")
  /\ Holds(thread, NoFrame)

OfferFails(thread) ==
  /\ pc[thread] = "offer"
  /\ FramePushFails(thread)
  /\ Resume(thread)
  /\ UNCHANGED <<buffered, newest, queue, stopped, skipped>>

\* on_new_frame returns; the consumer says what it does.
Notify(thread) ==
  /\ pc[thread] = "notify"
  /\ Resume(thread)
  /\ UNCHANGED <<frameBuffer, buffered, newest, queue, stopped, skipped>>

-------------------------------------------------------------------------------
(* run_buffering *)

WaitQueue ==
  /\ pc["buffering"] = "lock" /\ ~stopped /\ queue = <<>>
  /\ Goto("buffering", "waitQueue")
  /\ UNCHANGED <<frameBuffer, buffered, newest, queue, stopped, frame, skipped>>

\* Faulty: the newest frame is taken.
TakeNewestFrame ==
  /\ pc["buffering"] = "lock" /\ ~stopped /\ queue # <<>>
  /\ Holds("buffering", queue[Len(queue)])
  /\ queue' = SubSeq(queue, 1, Len(queue) - 1)
  /\ Goto("buffering", "waitDeadline")
  /\ UNCHANGED <<frameBuffer, buffered, newest, stopped, skipped>>

TakeFrame ==
  /\ pc["buffering"] = "lock" /\ ~stopped /\ queue # <<>>
  /\ Holds("buffering", Head(queue)) /\ queue' = Tail(queue)
  /\ Goto("buffering", "waitDeadline")
  /\ UNCHANGED <<frameBuffer, buffered, newest, stopped, skipped>>

\* The deadline comes.
DeadlinePassed ==
  /\ pc["buffering"] = "waitDeadline" /\ ~stopped
  /\ Goto("buffering", "offer")
  /\ UNCHANGED <<frameBuffer, buffered, newest, queue, stopped, frame, skipped>>

\* Stopped, waiting or not: the frame held, if any, is deleted.
BufferingStops ==
  /\ pc["buffering"] \in {"lock", "waitDeadline"} /\ stopped
  /\ Goto("buffering", "flush") /\ Holds("buffering", NoFrame)
  /\ UNCHANGED <<frameBuffer, buffered, newest, queue, stopped, skipped>>

\* The queue is flushed, without the mutex.
FlushFrame ==
  /\ pc["buffering"] = "flush" /\ queue # <<>>
  /\ queue' = Tail(queue)
  /\ UNCHANGED <<frameBuffer, buffered, newest, stopped, pc, frame, skipped>>

FlushEnds ==
  /\ pc["buffering"] = "flush" /\ queue = <<>>
  /\ Goto("buffering", "done")
  /\ UNCHANGED <<frameBuffer, buffered, newest, queue, stopped, frame, skipped>>

\* sc_video_buffer_stop, called by the consumer.
VideoBufferStop ==
  /\ stopped' = (buffered \/ stopped)
  /\ IF buffered THEN SignalQueue ELSE UNCHANGED pc
  /\ UNCHANGED <<frameBuffer, buffered, newest, queue, frame, skipped>>

BufferingStep ==
  WaitQueue \/ TakeFrame \/ DeadlinePassed \/ BufferingStops \/ FlushFrame \/ FlushEnds

DecoderStep == PushDirectly \/ PushLater \/ PushFails

VideoBufferTypeOK ==
  /\ pending \in Frame \cup {NoFrame} /\ consumed \in BOOLEAN
  /\ owner \in Producers \cup {NoThread}
  /\ buffered \in BOOLEAN /\ stopped \in BOOLEAN
  /\ newest \in 0..MaxFrames /\ queue \in Seq(Frame)
  /\ pc["decoder"] \in {"idle", "offer", "notify", "closed"}
  /\ pc["buffering"] \in {"lock", "waitQueue", "waitDeadline", "offer", "notify",
                          "flush", "done"}
  /\ frame \in [Producers -> Frame \cup {NoFrame}]
  /\ skipped \in [Producers -> BOOLEAN]
===============================================================================
