------------------------------ MODULE MCSession ------------------------------
(* Every set of options, with three packets and a sink that the client adds.  *)
EXTENDS Session
==============================================================================
