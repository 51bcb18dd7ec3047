---------------------------- MODULE MCSessionLog ----------------------------
(* Model-checking instance of SessionLog. *)
EXTENDS SessionLog
=============================================================================
