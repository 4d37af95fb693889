-------------------------- MODULE MCSessionManager --------------------------
(* Small instances of SessionManager. *)
EXTENDS SessionManager
=============================================================================
