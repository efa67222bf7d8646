------------------------------ MODULE MCV4l2Sink ------------------------------
(* The v4l2 sink with a clock of four points.  The first frames come with more *)
(* delay than the others; the dates of the frames are powers of two, so that   *)
(* two sums are equal only if they are those of the same points.               *)
EXTENDS V4l2Sink

MCDate(n) == 2 ^ n
MCDelay(n) == IF n = 1 THEN 5 ELSE 3
===============================================================================
