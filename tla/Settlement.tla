------------------------------ MODULE Settlement ------------------------------
(***************************************************************************)
(* What processing promises of an ingestion (CONTEXT.md, "Ingestion"): it  *)
(* is pending until processing records an outcome, which is final.  It is  *)
(* completed together with the one plan that is written for it, and a      *)
(* failed ingestion has written nothing.                                   *)
(***************************************************************************)
EXTENDS Naturals

CONSTANT Ingestions

VARIABLES
  status,  \* status of each ingestion
  plans    \* how many plans were written for it

vars == <<status, plans>>

Init ==
  /\ status = [i \in Ingestions |-> "pending"]
  /\ plans = [i \in Ingestions |-> 0]

Complete(i) ==
  /\ status[i] = "pending"
  /\ status' = [status EXCEPT ![i] = "completed"]
  /\ plans' = [plans EXCEPT ![i] = 1]

Fail(i) ==
  /\ status[i] = "pending"
  /\ status' = [status EXCEPT ![i] = "failed"]
  /\ UNCHANGED plans

Next == \E i \in Ingestions : Complete(i) \/ Fail(i)

Spec == Init /\ [][Next]_vars

=============================================================================
