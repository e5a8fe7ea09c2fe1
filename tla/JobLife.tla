------------------------------- MODULE JobLife -------------------------------
(***************************************************************************)
(* The life of a job as the job table reports it (docs/job-queue.md,       *)
(* "Transactional Outbox"): it is published only once its message can be   *)
(* received, its execution starts at most once, however often the message  *)
(* is sent, a job that could not be published waits for the operator, and  *)
(* it is removed when it has been executed or abandoned.  Retries, clocks, *)
(* connections and the process that relays the jobs are not visible here.  *)
(***************************************************************************)
CONSTANT Jobs

VARIABLES
  stage,     \* how far each job has come
  delivered  \* the jobs whose message the broker has enqueued

vars == <<stage, delivered>>

Init ==
  /\ stage = [j \in Jobs |-> "unborn"]
  /\ delivered = {}

\* Job j moves on from one of the stages in "from" to the stage "to".
Advance(j, from, to) ==
  /\ stage[j] \in from
  /\ stage' = [stage EXCEPT ![j] = to]
  /\ UNCHANGED delivered

Submit(j) == Advance(j, {"unborn"}, "pending")

\* A message may arrive at any time after that, also a late second one.
Arrive(j) ==
  /\ stage[j] # "unborn"
  /\ delivered' = delivered \cup {j}
  /\ UNCHANGED stage

Confirm(j) == j \in delivered /\ Advance(j, {"pending"}, "published")
GiveUp(j) == Advance(j, {"pending"}, "failed")
Rearm(j) == Advance(j, {"failed"}, "pending")
Abandon(j) == Advance(j, {"failed"}, "abandoned")

\* Whoever holds the message may start the job, whatever its publisher believes.
Run(j) ==
  /\ j \in delivered
  /\ Advance(j, {"pending", "failed", "abandoned", "published"}, "running")

Finish(j) == Advance(j, {"running"}, "executed")
Remove(j) == Advance(j, {"abandoned", "executed"}, "removed")

Next == \E j \in Jobs :
  \/ Submit(j) \/ Arrive(j) \/ Confirm(j) \/ GiveUp(j) \/ Rearm(j)
  \/ Abandon(j) \/ Run(j) \/ Finish(j) \/ Remove(j)

Spec == Init /\ [][Next]_vars

=============================================================================
