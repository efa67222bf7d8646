------------------------------ MODULE MCRecorder ------------------------------
(* The recorder on a small stream: timestamps that grow, repeat and go back. *)
EXTENDS Recorder

MCPts == {0, 1, 3}
===============================================================================
