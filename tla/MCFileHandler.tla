---------------------------- MODULE MCFileHandler ----------------------------
(* A file handler whose queue holds few requests, so that it fills and wraps. *)
EXTENDS FileHandler
===============================================================================
