------------------------------ MODULE WorkQueue ------------------------------
(****************************************************************************)
(* What a thread fed through a bounded queue promises to those who feed it: *)
(* jobs are handled one at a time in the order they were submitted, one is  *)
(* refused only if the queue is full or the thread was never started, and   *)
(* none is begun once the thread was told to stop.  The controller and the  *)
(* file handler implement it.                                               *)
(****************************************************************************)
EXTENDS Integers, Sequences

CONSTANTS Capacity,   \* how many jobs may wait
          NoJob

VARIABLES started,    \* the thread was started
          submitted,  \* how many jobs were submitted, the refused ones included
          waiting,    \* the jobs that wait
          current,    \* the job begun, or NoJob
          handled,    \* the jobs done, in order
          stopped,    \* the thread was told to stop
          over        \* the thread has ended, or is about to

vars == <<started, submitted, waiting, current, handled, stopped, over>>

Init ==
  /\ submitted = 0 /\ waiting = <<>> /\ current = NoJob /\ handled = <<>>
  /\ started = FALSE /\ stopped = FALSE /\ over = FALSE

Start ==
  /\ started' = TRUE
  /\ UNCHANGED <<submitted, waiting, current, handled, stopped, over>>

Submit ==
  /\ started /\ Len(waiting) < Capacity
  /\ submitted' = submitted + 1
  /\ waiting' = Append(waiting, submitted')
  /\ UNCHANGED <<started, current, handled, stopped, over>>

Refuse ==
  /\ started => Len(waiting) = Capacity
  /\ submitted' = submitted + 1
  /\ UNCHANGED <<started, waiting, current, handled, stopped, over>>

Begin ==
  /\ ~stopped /\ ~over /\ current = NoJob /\ waiting # <<>>
  /\ current' = Head(waiting) /\ waiting' = Tail(waiting)
  /\ UNCHANGED <<started, submitted, handled, stopped, over>>

Finish ==
  /\ current # NoJob
  /\ handled' = Append(handled, current) /\ current' = NoJob
  /\ UNCHANGED <<started, submitted, waiting, stopped, over>>

\* A job fails, and the thread ends.
Abandon ==
  /\ current # NoJob
  /\ current' = NoJob /\ over' = TRUE
  /\ UNCHANGED <<started, submitted, waiting, handled, stopped>>

Stop ==
  /\ stopped' = TRUE
  /\ UNCHANGED <<started, submitted, waiting, current, handled, over>>

\* The thread obeys.
End ==
  /\ stopped /\ current = NoJob
  /\ over' = TRUE
  /\ UNCHANGED <<started, submitted, waiting, current, handled, stopped>>

\* What still waits is discarded.
Discard ==
  /\ over
  /\ waiting' = <<>>
  /\ UNCHANGED <<started, submitted, current, handled, stopped, over>>

Next ==
  \/ Start \/ Submit \/ Refuse \/ Begin \/ Finish \/ Abandon
  \/ Stop \/ End \/ Discard

Spec == Init /\ [][Next]_vars
===============================================================================
