------------------------------- MODULE MCServer -------------------------------
(* The server with two ports to try. *)
EXTENDS Server
===============================================================================
