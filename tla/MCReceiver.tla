------------------------------ MODULE MCReceiver ------------------------------
(* The receiver with a buffer of a few bytes. *)
EXTENDS Receiver
===============================================================================
