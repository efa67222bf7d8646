----------------------------- MODULE FrameBuffer -----------------------------
(****************************************************************************)
(* The frame buffer (frame_buffer.c): one pending frame, the last one that  *)
(* was pushed, handed over from the thread that produces frames to the one  *)
(* that consumes them.  Frames are numbered in the order they are produced. *)
(*                                                                          *)
(* Each operation locks the mutex and never blocks while it holds it: it is *)
(* one step.  The mutex is a variable all the same, for a push that fails   *)
(* returns without unlocking it.                                            *)
(****************************************************************************)
EXTENDS Integers, Sequences

CONSTANT MaxFrames   \* bound: how many frames are produced

ASSUME FrameBufferAssumption == MaxFrames \in Nat \ {0}

VARIABLES pending,     \* the pending frame, NoFrame if it was moved out
          consumed,    \* pending_frame_consumed
          owner        \* the thread that keeps the mutex locked, or NoThread

frameBuffer == <<pending, consumed, owner>>

NoFrame == 0
NoThread == "none"
Frame == 1..MaxFrames

FrameBufferInit == pending = NoFrame /\ consumed = TRUE /\ owner = NoThread

\* SDL mutexes are recursive: a thread may lock again the one it has locked.
CanLock(thread) == owner \in {NoThread, thread}

\* sc_frame_buffer_push replaces the pending frame, consumed or not.
FramePush(thread, frame) ==
  /\ CanLock(thread)
  /\ pending' = frame /\ consumed' = FALSE
  /\ UNCHANGED owner

\* av_frame_ref fails: the pending frame is preserved, the mutex stays locked.
FramePushFails(thread) ==
  /\ CanLock(thread)
  /\ owner' = thread
  /\ UNCHANGED <<pending, consumed>>

\* Faulty: the frame is not marked as consumed.
FrameConsumeUnmarked(thread) ==
  /\ CanLock(thread)
  /\ pending' = NoFrame
  /\ UNCHANGED <<consumed, owner>>

\* sc_frame_buffer_consume moves the pending frame out.
FrameConsume(thread) ==
  /\ CanLock(thread)
  /\ pending' = NoFrame /\ consumed' = TRUE
  /\ UNCHANGED owner
==============================================================================
