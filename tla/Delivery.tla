------------------------------- MODULE Delivery -------------------------------
(***************************************************************************)
(* What the job consumer promises (docs/job-queue.md, "Processing          *)
(* Semantics"): a message is in the queue, in somebody's hands or done;    *)
(* it is done only after the handler of that same delivery succeeded, and  *)
(* a delivery that ends in any other way returns it to the queue.          *)
(***************************************************************************)
CONSTANT Messages

VARIABLES
  queued,    \* messages in the queue
  held,      \* messages delivered and not settled
  finished,  \* held messages whose handler succeeded for this delivery
  done       \* messages that are acknowledged

vars == <<queued, held, finished, done>>

Init ==
  /\ queued = Messages
  /\ held = {}
  /\ finished = {}
  /\ done = {}

Take(m) ==
  /\ m \in queued
  /\ queued' = queued \ {m}
  /\ held' = held \cup {m}
  /\ UNCHANGED <<finished, done>>

Finish(m) ==
  /\ m \in held
  /\ finished' = finished \cup {m}
  /\ UNCHANGED <<queued, held, done>>

Settle(m) ==
  /\ m \in held \cap finished
  /\ held' = held \ {m}
  /\ finished' = finished \ {m}
  /\ done' = done \cup {m}
  /\ UNCHANGED queued

\* A rejection, or the loss of everything a channel or connection held.
Return(S) ==
  /\ S \subseteq held
  /\ queued' = queued \cup S
  /\ held' = held \ S
  /\ finished' = finished \ S
  /\ UNCHANGED done

Next ==
  \/ \E m \in Messages : Take(m) \/ Finish(m) \/ Settle(m)
  \/ \E S \in SUBSET held : Return(S)

Spec == Init /\ [][Next]_vars

=============================================================================
