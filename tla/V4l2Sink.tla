------------------------------- MODULE V4l2Sink -------------------------------
(****************************************************************************)
(* The v4l2 sink (v4l2_sink.c): a thread of its own takes the frames of a   *)
(* video buffer, encodes them and writes them to a device.  The decoder     *)
(* opens the sink, pushes to it and closes it; the clock of the video       *)
(* buffer is fed with the dates of the frames.                              *)
(****************************************************************************)
EXTENDS VideoBuffer, Clock, FiniteSets

CONSTANTS Date(_),   \* the date of a frame, in the time of the stream
          Delay(_)   \* how late it is pushed, in the time of the system

ASSUME DatesAssumption == \A n \in Frame : Date(n) \in Nat /\ Delay(n) \in Nat

VARIABLES
  at,              \* where the decoder is in the opening and the closing
  sink,            \* where the v4l2 thread is
  has_frame,       \* vs->has_frame
  told,            \* vs->stopped
  header_written,
  taken,           \* the last frame the v4l2 thread consumed
  written,         \* the last frame that was written to the device
  clock            \* vb->b.clock

v4l2 == <<at, sink, has_frame, told, header_written, taken, written>>
vars == <<frameBuffer, videoBuffer, v4l2, clock>>

\* The opening starts the video buffer first.
Init ==
  /\ VideoBufferInit
  /\ at = "opening" /\ sink = "none"
  /\ has_frame = FALSE /\ told = FALSE /\ header_written = FALSE
  /\ taken = NoFrame /\ written = NoFrame
  /\ clock = ClockInit

-------------------------------------------------------------------------------
(* The decoder opens the sink. *)

\* sc_v4l2_sink_open succeeds: the thread is created.
Open ==
  /\ at = "opening"
  /\ at' = "open" /\ sink' = "lock"
  /\ UNCHANGED <<frameBuffer, videoBuffer, has_frame, told, header_written, taken,
                 written, clock>>

\* It fails and undoes what it has done: the video buffer is stopped.
OpenFails ==
  /\ at = "opening"
  /\ VideoBufferStop
  /\ at' = "undo"
  /\ UNCHANGED <<sink, has_frame, told, header_written, taken, written, clock>>

\* There is no encoder or no context: it returns at once and undoes nothing.
OpenFailsAtOnce ==
  /\ at = "opening"
  /\ at' = "abandoned"
  /\ UNCHANGED <<frameBuffer, videoBuffer, sink, has_frame, told, header_written,
                 taken, written, clock>>

\* sc_video_buffer_join and sc_video_buffer_destroy.
Undone ==
  /\ at = "undo" /\ pc["buffering"] = "done"
  /\ at' = "closed"
  /\ UNCHANGED <<frameBuffer, videoBuffer, sink, has_frame, told, header_written,
                 taken, written, clock>>

-------------------------------------------------------------------------------
(* The decoder pushes frames, and the buffering thread delays them. *)

Point(n) == [system |-> Date(n) + Delay(n), stream |-> Date(n)]

Push ==
  /\ at = "open"
  /\ DecoderStep
  /\ clock' = (IF buffered THEN Updated(clock, Point(newest')) ELSE clock)
  /\ UNCHANGED v4l2

OfferFrame(thread) ==
  /\ Offer(thread) \/ OfferFails(thread)
  /\ UNCHANGED <<v4l2, clock>>

Buffering ==
  /\ BufferingStep
  /\ UNCHANGED <<v4l2, clock>>

\* Faulty: the flag is set without a signal.
SignalForgotten == UNCHANGED sink

Signal == sink' = IF sink = "wait" THEN "lock" ELSE sink

\* sc_video_buffer_on_new_frame
OnNewFrame(thread) ==
  /\ Notify(thread)
  /\ IF skipped[thread] THEN UNCHANGED <<has_frame, sink>> ELSE has_frame' = TRUE /\ Signal
  /\ UNCHANGED <<at, told, header_written, taken, written, clock>>

-------------------------------------------------------------------------------
(* run_v4l2_sink *)

Wait ==
  /\ sink = "lock" /\ ~told /\ ~has_frame
  /\ sink' = "wait"
  /\ UNCHANGED <<frameBuffer, videoBuffer, at, has_frame, told, header_written, taken,
                 written, clock>>

\* Faulty: the flag is cleared only when the frame has been taken.
ReadyKeepingFlag ==
  /\ sink = "lock" /\ ~told /\ has_frame
  /\ sink' = "consume"
  /\ UNCHANGED <<frameBuffer, videoBuffer, at, has_frame, told, header_written, taken,
                 written, clock>>

Ready ==
  /\ sink = "lock" /\ ~told /\ has_frame
  /\ has_frame' = FALSE
  /\ sink' = "consume"
  /\ UNCHANGED <<frameBuffer, videoBuffer, at, told, header_written, taken, written,
                 clock>>

Told ==
  /\ sink = "lock" /\ told
  /\ sink' = "done"
  /\ UNCHANGED <<frameBuffer, videoBuffer, at, has_frame, told, header_written, taken,
                 written, clock>>

Consume ==
  /\ sink = "consume"
  /\ FrameConsume("v4l2")
  /\ taken' = pending
  /\ sink' = "encode"
  /\ UNCHANGED <<videoBuffer, at, has_frame, told, header_written, written, clock>>

\* encode_and_write_frame: the first packet is the header, the encoder may have no
\* packet yet, a failure to write a frame is ignored.
Encode ==
  /\ sink = "encode"
  /\ \/ ~header_written /\ header_written' = TRUE /\ UNCHANGED written
     \/ header_written /\ written' = taken /\ UNCHANGED header_written
     \/ UNCHANGED <<header_written, written>>
  /\ sink' = "lock"
  /\ UNCHANGED <<frameBuffer, videoBuffer, at, has_frame, told, taken, clock>>

\* The encoder or the header fails: the thread ends.
EncodeFails ==
  /\ sink = "encode"
  /\ sink' = "done"
  /\ UNCHANGED <<frameBuffer, videoBuffer, at, has_frame, told, header_written, taken,
                 written, clock>>

-------------------------------------------------------------------------------
(* The decoder closes the sink. *)

\* The v4l2 thread is told to stop.
Close ==
  /\ at = "open" /\ DecoderClose
  /\ told' = TRUE /\ Signal
  /\ at' = "stop"
  /\ UNCHANGED <<has_frame, header_written, taken, written, clock>>

StopBuffer ==
  /\ at = "stop"
  /\ VideoBufferStop
  /\ at' = "join"
  /\ UNCHANGED <<sink, has_frame, told, header_written, taken, written, clock>>

JoinSink ==
  /\ at = "join" /\ sink = "done"
  /\ at' = "joinBuffer"
  /\ UNCHANGED <<frameBuffer, videoBuffer, sink, has_frame, told, header_written, taken,
                 written, clock>>

\* Faulty: the buffering thread is not joined.
CloseUnjoined ==
  /\ at = "joinBuffer"
  /\ at' = "closed"
  /\ UNCHANGED <<frameBuffer, videoBuffer, sink, has_frame, told, header_written, taken,
                 written, clock>>

\* sc_video_buffer_join, and everything is destroyed.
Closed ==
  /\ at = "joinBuffer" /\ pc["buffering"] = "done"
  /\ at' = "closed"
  /\ UNCHANGED <<frameBuffer, videoBuffer, sink, has_frame, told, header_written, taken,
                 written, clock>>

-------------------------------------------------------------------------------
SinkStep == Wait \/ Ready \/ Told \/ Consume \/ Encode \/ EncodeFails
ClosingStep == Undone \/ StopBuffer \/ JoinSink \/ Closed
Opening == Open \/ OpenFails \/ OpenFailsAtOnce
ProducerStep(thread) == OfferFrame(thread) \/ OnNewFrame(thread)

Next ==
  \/ Opening \/ Push \/ Close \/ ClosingStep
  \/ Buffering \/ \E thread \in Producers : ProducerStep(thread)
  \/ SinkStep

\* Every thread runs and every delay passes; nothing makes the device send frames
\* or the stream end.
Fairness ==
  /\ WF_vars(Opening) /\ WF_vars(ClosingStep) /\ WF_vars(Buffering) /\ WF_vars(SinkStep)
  /\ \A thread \in Producers : WF_vars(ProducerStep(thread))

Spec == Init /\ [][Next]_vars /\ Fairness

-------------------------------------------------------------------------------
(* Properties. *)

TypeOK ==
  /\ VideoBufferTypeOK
  /\ at \in {"opening", "open", "undo", "abandoned", "stop", "join", "joinBuffer", "closed"}
  /\ sink \in {"none", "lock", "wait", "consume", "encode", "done"}
  /\ {has_frame, told, header_written} \subseteq BOOLEAN
  /\ {taken, written} \subseteq Frame \cup {NoFrame}

\* The claims on the pending frame: a flag that is set or about to be set, or the
\* thread that will consume it.
Claims == {c \in {"flag", "thread", "decoder", "buffering"} :
             \/ c = "flag" /\ has_frame
             \/ c = "thread" /\ sink = "consume"
             \/ c \in Producers /\ pc[c] = "notify" /\ ~skipped[c]}

\* has_frame is one flag for all frames, and yet a frame that is pending has
\* exactly one claim: none is forgotten, and the thread never consumes a frame
\* that was already consumed (the assertion of sc_frame_buffer_consume).
OneClaimPerPendingFrame ==
  /\ TypeOK
  /\ Cardinality(Claims) = (IF consumed THEN 0 ELSE 1)

\* The sum of the first n points, and of those from the a-th to the b-th.
Total[n \in 0..MaxFrames] == IF n = 0 THEN Zero ELSE Add(Total[n - 1], Point(n))
SumOf(a, b) == Sub(Total[b], Total[a - 1])

\* The rolling sums of the clock are those of the older and of the newer half of
\* the last points, however many have passed; and if the frames of these points,
\* at increasing dates, all came with the same delay, every deadline is exact.
ClockIsExact ==
  LET first == newest - clock.count + 1
      half == clock.count \div 2
  IN buffered =>
       /\ clock.count = (IF newest < SC_CLOCK_RANGE THEN newest ELSE SC_CLOCK_RANGE)
       /\ clock.left_sum = SumOf(first, first + half - 1)
       /\ clock.right_sum = SumOf(first + half, newest)
       /\ /\ clock.count > 1
          /\ \A n \in first..newest : Delay(n) = Delay(newest)
          /\ \A n \in first..newest - 1 : Date(n) < Date(n + 1)
          => \A f \in Frame : ToSystemTime(clock, Date(f)) = Date(f) + Delay(newest)

\* When the sink is closed, or its opening has failed, no thread uses it any more
\* and no frame of it is left; unless the opening returned at once.
NothingRunsAfterClose ==
  at = "closed" => pc["buffering"] = "done" /\ sink \in {"none", "done"}

\* The handover of the frames and the end of the threads are safe, whatever fails
\* and whenever the sink is closed (v4l2_sink.c, run_v4l2_sink and its callers).
FramesAreClaimed == OneClaimPerPendingFrame /\ NothingRunsAfterClose

\* Frames are taken in the order they were decoded, none twice, and what is written
\* to the device is the frame that was taken last.
FramesInOrder ==
  [][/\ taken' # taken => taken' > taken
     /\ written' # written => header_written /\ written' = taken]_vars

\* A push that failed left the mutex of the frame buffer locked.
MutexLeaked == owner # NoThread

\* A frame that was accepted is taken by the v4l2 thread, or a later one is, as
\* long as nothing stops it; and an opening that fails and a close end.
Accepted(f) == \/ f \in {pending, frame["decoder"], frame["buffering"]}
               \/ \E n \in 1..Len(queue) : queue[n] = f
FramesReachTheDevice ==
  /\ \A f \in Frame : Accepted(f) ~> \/ taken >= f
                                     \/ stopped \/ told \/ sink = "done"
                                     \/ MutexLeaked
  /\ at \in {"undo", "stop"} ~> at = "closed" \/ MutexLeaked
===============================================================================
