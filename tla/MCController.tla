----------------------------- MODULE MCController -----------------------------
(* A controller whose queue holds few messages, so that it fills and wraps. *)
EXTENDS Controller
===============================================================================
