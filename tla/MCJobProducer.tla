---------------------------- MODULE MCJobProducer ----------------------------
(***************************************************************************)
(* JobProducer for TLC.  Two events, so that an event may be published     *)
(* twice beside another one.                                               *)
(***************************************************************************)
EXTENDS JobProducer
=============================================================================
