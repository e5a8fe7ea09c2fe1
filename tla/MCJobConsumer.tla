---------------------------- MODULE MCJobConsumer ----------------------------
(***************************************************************************)
(* JobConsumer for TLC: two messages, one of whose handlers may fail, and  *)
(* two disruptions, so that a recovery may itself be disrupted.            *)
(***************************************************************************)
EXTENDS JobConsumer
=============================================================================
