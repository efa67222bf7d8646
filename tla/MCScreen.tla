------------------------------- MODULE MCScreen -------------------------------
(* The screen with a few frames, with and without a buffering time. *)
EXTENDS Screen
===============================================================================
