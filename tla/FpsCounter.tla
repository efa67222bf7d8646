------------------------------ MODULE FpsCounter ------------------------------
(****************************************************************************)
(* The FPS counter (fps_counter.c): a thread, created when the counter is   *)
(* started for the first time, that displays the frame rate every second    *)
(* while the counter is started.  The UI thread starts, stops, interrupts   *)
(* and joins it, and frames are counted by the threads that handle them.    *)
(*                                                                          *)
(* The thread holds the mutex from the test of its condition to its wait;   *)
(* but started is set, and the condition signalled, without the mutex.      *)
(* Time is left out: the interval may have expired whenever it is checked.  *)
(****************************************************************************)
EXTENDS Naturals

VARIABLES
  started,         \* counter->started
  interrupted,     \* counter->interrupted
  thread_started,  \* counter->thread_started
  fps,             \* where the thread of the counter is
  nr_rendered, nr_skipped,
  missed           \* whether a start was signalled while the thread, having seen
                   \* that it was not started, was about to wait

fpsCounter == <<started, interrupted, thread_started, fps, nr_rendered, nr_skipped,
                missed>>
counts == <<nr_rendered, nr_skipped>>

\* fps_counter_init: interrupted is not initialised.
FpsInit ==
  /\ started = FALSE /\ interrupted \in BOOLEAN /\ thread_started = FALSE
  /\ fps = "none" /\ nr_rendered = 0 /\ nr_skipped = 0 /\ missed = FALSE

\* The thread does not hold the mutex.
FpsUnlocked == fps \notin {"toWait", "toTimedWait"}

\* check_interval_expired: the frames are displayed and counted anew, or not yet.
CheckInterval(rendered, skipped) ==
  \/ nr_rendered' = nr_rendered + rendered /\ nr_skipped' = nr_skipped + skipped
  \/ nr_rendered' = rendered /\ nr_skipped' = skipped

-------------------------------------------------------------------------------
(* run_fps_counter *)

\* The thread has the mutex and tests what it is to do.
FpsInterrupted ==
  /\ fps = "lock" /\ interrupted
  /\ fps' = "done"
  /\ UNCHANGED <<started, interrupted, thread_started, counts, missed>>

FpsNotStarted ==
  /\ fps = "lock" /\ ~interrupted /\ ~started
  /\ fps' = "toWait"
  /\ UNCHANGED <<started, interrupted, thread_started, counts, missed>>

FpsStarted ==
  /\ fps = "lock" /\ ~interrupted /\ started
  /\ CheckInterval(0, 0)
  /\ fps' = "toTimedWait"
  /\ UNCHANGED <<started, interrupted, thread_started, missed>>

\* The wait releases the mutex.
FpsWait ==
  /\ fps \in {"toWait", "toTimedWait"}
  /\ fps' = (IF fps = "toWait" THEN "wait" ELSE "timedWait")
  /\ UNCHANGED <<started, interrupted, thread_started, counts, missed>>

FpsTimeout ==
  /\ fps = "timedWait"
  /\ fps' = "lock"
  /\ UNCHANGED <<started, interrupted, thread_started, counts, missed>>

-------------------------------------------------------------------------------
(* The UI thread. *)

FpsSignal == fps' = IF fps \in {"wait", "timedWait"} THEN "lock" ELSE fps

\* fps_counter_start: the counts are reset, with the mutex.
FpsStart ==
  /\ ~started /\ FpsUnlocked
  /\ nr_rendered' = 0 /\ nr_skipped' = 0
  /\ UNCHANGED <<started, interrupted, thread_started, fps, missed>>

\* started is set, without it: the thread may be about to wait.
FpsSetStarted ==
  /\ started' = TRUE
  /\ UNCHANGED <<interrupted, thread_started, fps, counts, missed>>

\* The signal, and the thread if there is none; if it cannot be created, the
\* counter stays started without a thread.
FpsStartSignal ==
  /\ missed' = (fps = "toWait")
  /\ \/ thread_started /\ FpsSignal /\ UNCHANGED thread_started
     \/ ~thread_started /\ fps' = "lock" /\ thread_started' = TRUE
     \/ ~thread_started /\ UNCHANGED <<fps, thread_started>>
  /\ UNCHANGED <<started, interrupted, counts>>

\* fps_counter_stop
FpsStop ==
  /\ started
  /\ started' = FALSE
  /\ UNCHANGED <<interrupted, thread_started, fps, counts, missed>>

FpsStopSignal ==
  /\ FpsSignal /\ missed' = FALSE
  /\ UNCHANGED <<started, interrupted, thread_started, counts>>

\* Faulty: interrupted is set without the mutex.
FpsInterruptUnlocked ==
  /\ interrupted' = (thread_started \/ interrupted)
  /\ UNCHANGED <<started, thread_started, fps, counts, missed>>

\* fps_counter_interrupt: interrupted is set with the mutex, then signalled.
FpsInterrupt ==
  /\ FpsUnlocked \/ ~thread_started
  /\ interrupted' = (thread_started \/ interrupted)
  /\ UNCHANGED <<started, thread_started, fps, counts, missed>>

FpsInterruptSignal ==
  /\ IF thread_started THEN FpsSignal ELSE UNCHANGED fps
  /\ UNCHANGED <<started, interrupted, thread_started, counts, missed>>

\* fps_counter_join returns.
FpsJoined == thread_started => fps = "done"

\* fps_counter_add_rendered_frame, fps_counter_add_skipped_frame: started is tested
\* without the mutex, which is taken only then.  A switch between the two makes no
\* difference: it would only have the frame counted in the interval that follows.
FpsAddFrame(rendered, skipped) ==
  /\ IF started THEN FpsUnlocked /\ CheckInterval(rendered, skipped) ELSE UNCHANGED counts
  /\ UNCHANGED <<started, interrupted, thread_started, fps, missed>>

FpsStep == FpsInterrupted \/ FpsNotStarted \/ FpsStarted \/ FpsWait \/ FpsTimeout

FpsTypeOK ==
  /\ {started, interrupted, thread_started, missed} \subseteq BOOLEAN
  /\ fps \in {"none", "lock", "toWait", "wait", "toTimedWait", "timedWait", "done"}
  /\ nr_rendered \in Nat /\ nr_skipped \in Nat
===============================================================================
