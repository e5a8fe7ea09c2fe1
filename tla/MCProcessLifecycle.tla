-------------------------- MODULE MCProcessLifecycle --------------------------
(***************************************************************************)
(* ProcessLifecycle for TLC: both processes, two uploads, so that one may  *)
(* come in over a connection that another keeps open, and one request.     *)
(***************************************************************************)
EXTENDS ProcessLifecycle
=============================================================================
