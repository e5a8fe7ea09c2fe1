------------------------------ MODULE JobOutbox ------------------------------
(***************************************************************************)
(* The transactional outbox of packages/jobs: the "job" table and its      *)
(* conditional updates (postgres.ts, service.ts), the one relay that polls *)
(* it (relay.ts), what the relay sees of the confirm-channel producer      *)
(* (producer.ts), the executor and the operator who call JobService, and   *)
(* the crash, stop and restart of the API process that hosts the relay.    *)
(*                                                                         *)
(* Data that is abstracted: an event is the job it belongs to, a timestamp *)
(* is null, due or later, an error text is present or absent.  A job's     *)
(* number is its rank in ("createdAt", "id"), the order the relay polls in;*)
(* rows may be committed in any order.                                     *)
(*                                                                         *)
(* A definition whose name ends in Slip is the one after it with a mistake *)
(* somebody could make in that code.  Nothing in the specification uses    *)
(* it: it shows which property would notice the mistake.                   *)
(***************************************************************************)
EXTENDS Naturals

CONSTANTS
  Jobs,            \* the jobs the application may create, ranked by age
  MaxAttempts,     \* the relay's maximumAttempts
  MaxDisruptions,  \* bound: crashes, stops and broker disconnections
  MaxDbErrors,     \* bound: failed or unanswered outcome writes
  MaxRearms        \* bound: operator retries of each job

ASSUME JobsAssumption == Jobs \subseteq Nat \ {0}
ASSUME MaxAttemptsAssumption == MaxAttempts \in Nat \ {0}
ASSUME BoundsAssumption ==
  /\ MaxDisruptions \in Nat
  /\ MaxDbErrors \in Nat
  /\ MaxRearms \in Nat

VARIABLES
  job,          \* the "job" table
  state,        \* the relay's state
  pc,           \* where the relay's loop is
  target,       \* the job the relay holds a copy of
  expected,     \* publicationAttempts of that copy
  outcome,      \* what the producer reported for it
  producer,     \* whether the producer is ready to publish
  copies,       \* messages of each job the broker has enqueued
  orphans,      \* messages on a connection nobody listens to any more
  disruptions,  \* crashes, stops and disconnections so far
  dbErrors,     \* failed or unanswered outcome writes so far
  rearms,       \* operator retries of each job so far
  settled       \* publish calls settled since the job was last armed

relayVars == <<state, pc, target, expected, outcome>>
brokerVars == <<producer, copies, orphans>>
historyVars == <<disruptions, dbErrors, rearms, settled>>
vars == <<job, relayVars, brokerVars, historyVars>>

NoJob == 0

Row == [life : {"unborn", "stored", "deleted"},
        publicationState : {"pending", "published", "failed", "abandoned"},
        publicationAttempts : Nat,
        nextPublicationAttemptAt : {"null", "due", "later"},
        lastPublicationError : {"null", "set"},
        publishedAt : {"null", "set"},
        abandonedAt : {"null", "set"},
        executionState : {"pending", "running", "succeeded", "failed"}]

\* The row JobService.create inserts.
NewRow == [life |-> "stored",
           publicationState |-> "pending",
           publicationAttempts |-> 0,
           nextPublicationAttemptAt |-> "due",
           lastPublicationError |-> "null",
           publishedAt |-> "null",
           abandonedAt |-> "null",
           executionState |-> "pending"]

Init ==
  /\ job = [j \in Jobs |-> [NewRow EXCEPT !.life = "unborn"]]
  /\ state = "stopped"
  /\ pc = "off"
  /\ target = NoJob
  /\ expected = 0
  /\ outcome = "none"
  /\ producer = "recovering"
  /\ copies = [j \in Jobs |-> 0]
  /\ orphans = [j \in Jobs |-> 0]
  /\ disruptions = 0
  /\ dbErrors = 0
  /\ rearms = [j \in Jobs |-> 0]
  /\ settled = [j \in Jobs |-> 0]

Stored(j) == job[j].life = "stored"

-----------------------------------------------------------------------------
(***************************************************************************)
(* JobService.  Each operation is one conditional UPDATE or DELETE; when   *)
(* its WHERE clause matches nothing the caller gets null, the unchanged    *)
(* row or a JobStateConflictError, and nothing is written.                 *)
(***************************************************************************)

\* JobService.create inside the caller's transaction.
Create(j) ==
  /\ job[j].life = "unborn"
  /\ job' = [job EXCEPT ![j] = NewRow]
  /\ UNCHANGED <<relayVars, brokerVars, historyVars>>

\* Time passes: the fixed retry delay of a failed attempt is over.
DelayElapses(j) ==
  /\ Stored(j)
  /\ job[j].nextPublicationAttemptAt = "later"
  /\ job' = [job EXCEPT ![j].nextPublicationAttemptAt = "due"]
  /\ UNCHANGED <<relayVars, brokerVars, historyVars>>

(***************************************************************************)
(* The executor calls the next three for a delivery it holds, so only for  *)
(* a job the broker has a copy of.                                         *)
(***************************************************************************)
Runnable(row) ==
  /\ row.executionState \in {"pending", "running"}
  /\ row.executionState = "pending" \/ row.publicationState # "published"

AfterRunning(row) ==
  [row EXCEPT !.publicationState = "published",
              !.nextPublicationAttemptAt = "null",
              !.lastPublicationError = "null",
              !.publishedAt = "set",
              !.executionState = "running"]

MarkRunning(j) ==
  /\ Stored(j)
  /\ copies[j] > 0
  /\ Runnable(job[j])
  /\ job' = [job EXCEPT ![j] = AfterRunning(@)]
  /\ UNCHANGED <<relayVars, brokerVars, historyVars>>

MarkSucceeded(j) ==
  /\ Stored(j)
  /\ copies[j] > 0
  /\ job[j].executionState = "running"
  /\ job' = [job EXCEPT ![j].executionState = "succeeded"]
  /\ UNCHANGED <<relayVars, brokerVars, historyVars>>

MarkFailed(j) ==
  /\ Stored(j)
  /\ copies[j] > 0
  /\ job[j].executionState = "running"
  /\ job' = [job EXCEPT ![j].executionState = "failed"]
  /\ UNCHANGED <<relayVars, brokerVars, historyVars>>

AfterRetry(row) ==
  [row EXCEPT !.publicationState = "pending",
              !.publicationAttempts = 0,
              !.nextPublicationAttemptAt = "due",
              !.lastPublicationError = "null"]

RetryPublication(j) ==
  /\ Stored(j)
  /\ job[j].publicationState = "failed"
  /\ rearms[j] < MaxRearms
  /\ job' = [job EXCEPT ![j] = AfterRetry(@)]
  /\ rearms' = [rearms EXCEPT ![j] = @ + 1]
  /\ settled' = [settled EXCEPT ![j] = 0]
  /\ UNCHANGED <<relayVars, brokerVars, disruptions, dbErrors>>

AbandonableSlip(row) == row.publicationState \in {"failed", "pending"}
Abandonable(row) == row.publicationState = "failed"

AbandonPublication(j) ==
  /\ Stored(j)
  /\ Abandonable(job[j])
  /\ job' = [job EXCEPT ![j] = [@ EXCEPT !.publicationState = "abandoned",
                                        !.abandonedAt = "set"]]
  /\ UNCHANGED <<relayVars, brokerVars, historyVars>>

DeletableSlip(row) == row.publicationState \in {"failed", "abandoned", "published"}
Deletable(row) ==
  \/ row.publicationState = "abandoned"
  \/ /\ row.publicationState = "published"
     /\ row.executionState \in {"succeeded", "failed"}

DeleteByID(j) ==
  /\ Stored(j)
  /\ Deletable(job[j])
  /\ job' = [job EXCEPT ![j].life = "deleted"]
  /\ UNCHANGED <<relayVars, brokerVars, historyVars>>

-----------------------------------------------------------------------------
(***************************************************************************)
(* The relay's two outcome writes, compare-and-set on publicationAttempts. *)
(***************************************************************************)
SuccessApplies(row) ==
  /\ row.life = "stored"
  /\ row.publicationAttempts = expected

AfterSuccess(row) ==
  [row EXCEPT !.publicationState = "published",
              !.publicationAttempts = @ + 1,
              !.nextPublicationAttemptAt = "null",
              !.lastPublicationError = "null",
              !.publishedAt = "set"]

FailureAppliesSlip(row) ==
  /\ row.life = "stored"
  /\ row.publicationState \in {"pending", "published"}
FailureApplies(row) ==
  /\ row.life = "stored"
  /\ row.publicationAttempts = expected
  /\ row.publicationState \in {"pending", "published"}

Exhausted(row) == row.publicationAttempts + 1 >= MaxAttempts

AfterPendingFailureSlip(row) ==
  [row EXCEPT !.publicationState = IF Exhausted(row) THEN "failed" ELSE "pending",
              !.publicationAttempts = @ + 1,
              !.nextPublicationAttemptAt = "null",
              !.lastPublicationError = "set"]
AfterPendingFailure(row) ==
  [row EXCEPT !.publicationState = IF Exhausted(row) THEN "failed" ELSE "pending",
              !.publicationAttempts = @ + 1,
              !.nextPublicationAttemptAt = IF Exhausted(row) THEN "null" ELSE "later",
              !.lastPublicationError = "set"]

AfterFailure(row) ==
  IF row.publicationState = "published"
  THEN [row EXCEPT !.publicationAttempts = @ + 1,
                   !.nextPublicationAttemptAt = "null",
                   !.lastPublicationError = "null"]
  ELSE AfterPendingFailure(row)

RecordPublicationSuccess ==
  job' = IF SuccessApplies(job[target])
         THEN [job EXCEPT ![target] = AfterSuccess(@)] ELSE job

RecordPublicationFailure ==
  job' = IF FailureApplies(job[target])
         THEN [job EXCEPT ![target] = AfterFailure(@)] ELSE job

RecordOutcome ==
  \/ outcome = "success" /\ RecordPublicationSuccess
  \/ outcome = "failure" /\ RecordPublicationFailure

-----------------------------------------------------------------------------
(***************************************************************************)
(* The relay's loop.  pc says what it waits for:                           *)
(*   off      the loop has ended, or no API process is up                  *)
(*   poll     idle or retry wait, or the poll is about to be sent          *)
(*   polled   the poll has read a row, the answer is not in yet            *)
(*   sent     the message is on the wire                                   *)
(*   taken    the broker has enqueued it, the confirm is on its way        *)
(*   refused  the broker returned or nacked it, the answer is on its way   *)
(*   writing  the outcome write is in flight                               *)
(*   backoff  the outcome write failed, its retry delay is running         *)
(***************************************************************************)

\* The loop holds no job: it is between two iterations or it has ended.
Release(where) ==
  /\ pc' = where
  /\ target' = NoJob
  /\ expected' = 0
  /\ outcome' = "none"

\* The loop condition: the next iteration, or the end once stop() was called.
NextIteration == Release(IF state = "running" THEN "poll" ELSE "off")

\* A new API process: its producer connects, then its relay starts.
Start ==
  /\ pc = "off"
  /\ state' = "running"
  /\ pc' = "poll"
  /\ producer' = "ready"
  /\ UNCHANGED <<job, target, expected, outcome, copies, orphans, historyVars>>

\* stop() aborts the waits and lets what is in flight settle.
Stop ==
  /\ state = "running"
  /\ disruptions < MaxDisruptions
  /\ state' = "stopped"
  /\ disruptions' = disruptions + 1
  /\ UNCHANGED <<job, pc, target, expected, outcome, brokerVars,
                 dbErrors, rearms, settled>>

\* The loop leaves a wait, or drops a polled row, because of stop().
InterruptibleSlip == pc \in {"poll", "polled"}
Interruptible == pc \in {"poll", "polled", "backoff"}

LoopEnds ==
  /\ state = "stopped"
  /\ Interruptible
  /\ Release("off")
  /\ UNCHANGED <<job, state, brokerVars, historyVars>>

Crash ==
  /\ pc # "off"
  /\ disruptions < MaxDisruptions
  /\ state' = "stopped"
  /\ Release("off")
  /\ producer' = "recovering"
  /\ orphans' = IF pc = "sent" THEN [orphans EXCEPT ![target] = @ + 1] ELSE orphans
  /\ disruptions' = disruptions + 1
  /\ UNCHANGED <<job, copies, dbErrors, rearms, settled>>

EligibleSlip(j) == Stored(j) /\ job[j].nextPublicationAttemptAt # "later"
Eligible(j) ==
  /\ Stored(j)
  /\ job[j].publicationState = "pending"
  /\ job[j].nextPublicationAttemptAt = "due"

GetNextEligiblePublication(j) ==
  /\ Eligible(j)
  /\ \A k \in Jobs : Eligible(k) => j <= k

Poll(j) ==
  /\ state = "running"
  /\ pc = "poll"
  /\ GetNextEligiblePublication(j)
  /\ pc' = "polled"
  /\ target' = j
  /\ expected' = job[j].publicationAttempts
  /\ UNCHANGED <<job, state, outcome, brokerVars, historyVars>>

\* publish() settles: the loop records the outcome unless it was stopped.
Settle(result) ==
  /\ settled' = [settled EXCEPT ![target] = @ + 1]
  /\ IF state = "running"
     THEN /\ pc' = "writing"
          /\ outcome' = result
          /\ UNCHANGED <<target, expected>>
     ELSE Release("off")

Publish ==
  /\ state = "running"
  /\ pc = "polled"
  /\ producer = "ready"
  /\ pc' = "sent"
  /\ UNCHANGED <<job, state, target, expected, outcome, brokerVars, historyVars>>

\* publish() on a producer that is not ready.
PublishRejected ==
  /\ state = "running"
  /\ pc = "polled"
  /\ producer = "recovering"
  /\ Settle("failure")
  /\ UNCHANGED <<job, state, brokerVars, disruptions, dbErrors, rearms>>

\* A positive confirmation settles the pending publish.
ConfirmArrives ==
  /\ pc = "taken"
  /\ Settle("success")
  /\ UNCHANGED <<job, state, brokerVars, disruptions, dbErrors, rearms>>

\* A mandatory return or a negative confirmation settles it.
RefusalArrivesSlip ==
  /\ pc = "refused"
  /\ Settle("success")
  /\ UNCHANGED <<job, state, brokerVars, disruptions, dbErrors, rearms>>
RefusalArrives ==
  /\ pc = "refused"
  /\ Settle("failure")
  /\ UNCHANGED <<job, state, brokerVars, disruptions, dbErrors, rearms>>

\* The connection or channel closes and rejects the pending publish, whose
\* message the broker may have taken, may still take, or may never see.
ConnectionLost ==
  /\ producer = "ready"
  /\ disruptions < MaxDisruptions
  /\ producer' = "recovering"
  /\ disruptions' = disruptions + 1
  /\ orphans' = IF pc = "sent" THEN [orphans EXCEPT ![target] = @ + 1] ELSE orphans
  /\ IF pc \in {"sent", "taken", "refused"}
     THEN Settle("failure")
     ELSE UNCHANGED <<pc, target, expected, outcome, settled>>
  /\ UNCHANGED <<job, state, copies, dbErrors, rearms>>

Reconnect ==
  /\ pc # "off"
  /\ producer = "recovering"
  /\ producer' = "ready"
  /\ UNCHANGED <<job, relayVars, copies, orphans, historyVars>>

\* The outcome write commits and its answer arrives.
WriteOutcome ==
  /\ pc = "writing"
  /\ RecordOutcome
  /\ NextIteration
  /\ UNCHANGED <<state, brokerVars, historyVars>>

\* The write commits but its answer is lost, or it never reaches the database.
WriteErrs ==
  /\ pc = "writing"
  /\ dbErrors < MaxDbErrors
  /\ RecordOutcome \/ UNCHANGED job
  /\ dbErrors' = dbErrors + 1
  /\ IF state = "running"
     THEN pc' = "backoff" /\ UNCHANGED <<target, expected, outcome>>
     ELSE Release("off")
  /\ UNCHANGED <<state, brokerVars, disruptions, rearms, settled>>

\* persistOutcome tries the same write again after the retry delay.
RetryWrite ==
  /\ state = "running"
  /\ pc = "backoff"
  /\ pc' = "writing"
  /\ UNCHANGED <<job, state, target, expected, outcome, brokerVars, historyVars>>

-----------------------------------------------------------------------------
(***************************************************************************)
(* The broker.  An orphan is a message whose connection is gone: it may    *)
(* still have been received, and then it is enqueued without anyone        *)
(* hearing of it.                                                          *)
(***************************************************************************)
BrokerTakes ==
  /\ pc = "sent"
  /\ pc' = "taken"
  /\ copies' = [copies EXCEPT ![target] = @ + 1]
  /\ UNCHANGED <<job, state, target, expected, outcome, producer, orphans, historyVars>>

BrokerRefuses ==
  /\ pc = "sent"
  /\ pc' = "refused"
  /\ UNCHANGED <<job, state, target, expected, outcome, brokerVars, historyVars>>

OrphanTaken(j) ==
  /\ orphans[j] > 0
  /\ orphans' = [orphans EXCEPT ![j] = @ - 1]
  /\ copies' = [copies EXCEPT ![j] = @ + 1]
  /\ UNCHANGED <<job, relayVars, producer, historyVars>>

OrphanLost(j) ==
  /\ orphans[j] > 0
  /\ orphans' = [orphans EXCEPT ![j] = @ - 1]
  /\ UNCHANGED <<job, relayVars, producer, copies, historyVars>>

-----------------------------------------------------------------------------
Next ==
  \/ \E j \in Jobs :
       \/ Create(j) \/ DelayElapses(j)
       \/ MarkRunning(j) \/ MarkSucceeded(j) \/ MarkFailed(j)
       \/ RetryPublication(j) \/ AbandonPublication(j) \/ DeleteByID(j)
       \/ Poll(j) \/ OrphanTaken(j) \/ OrphanLost(j)
  \/ Start \/ Stop \/ LoopEnds \/ Crash
  \/ Publish \/ PublishRejected
  \/ ConfirmArrives \/ RefusalArrives \/ ConnectionLost \/ Reconnect
  \/ WriteOutcome \/ WriteErrs \/ RetryWrite
  \/ BrokerTakes \/ BrokerRefuses

Spec == Init /\ [][Next]_vars

(***************************************************************************)
(* Fairness.  The relay's loop is one asynchronous function: whatever it   *)
(* awaits settles, so its next step is taken.  The broker answers what it  *)
(* receives, timers fire, and a supervisor restarts an API process that    *)
(* has ended.  Neither the operator nor the executor is fair, and errors   *)
(* are bounded in number, never forced to happen.                          *)
(***************************************************************************)
RelayStep ==
  \/ LoopEnds \/ (\E j \in Jobs : Poll(j))
  \/ Publish \/ PublishRejected \/ ConfirmArrives \/ RefusalArrives
  \/ WriteOutcome \/ RetryWrite

Fairness ==
  /\ WF_vars(RelayStep)
  /\ WF_vars(Start)
  /\ WF_vars(BrokerTakes \/ BrokerRefuses)
  /\ \A j \in Jobs : WF_vars(DelayElapses(j))

FairSpec == Spec /\ Fairness

-----------------------------------------------------------------------------
TypeOK ==
  /\ job \in [Jobs -> Row]
  /\ state \in {"running", "stopped"}
  /\ pc \in {"off", "poll", "polled", "sent", "taken", "refused", "writing", "backoff"}
  /\ target \in Jobs \cup {NoJob}
  /\ pc \notin {"off", "poll"} => target \in Jobs
  /\ expected \in Nat
  /\ outcome \in {"none", "success", "failure"}
  /\ pc \in {"writing", "backoff"} => outcome # "none"
  /\ producer \in {"ready", "recovering"}
  /\ copies \in [Jobs -> Nat]
  /\ orphans \in [Jobs -> Nat]
  /\ disruptions \in Nat
  /\ dbErrors \in Nat
  /\ rearms \in [Jobs -> Nat]
  /\ settled \in [Jobs -> Nat]

\* A row says "published" only when the broker has enqueued its message, even
\* after lost answers, crashes and restarts: no job is given up as delivered
\* that nobody can receive (recordPublicationSuccess, markRunning).
PublishedWasAccepted ==
  \A j \in Jobs :
    Stored(j) /\ job[j].publicationState = "published" => copies[j] > 0

\* While the relay publishes a job from its copy of the row, the row is still
\* as it was polled, or the executor has started it, or it was executed and
\* deleted.  No operator call can fail, abandon or re-arm it meanwhile, which
\* is what lets recordPublicationSuccess do without a guard on the state.
InFlightIsLive ==
  pc \in {"polled", "sent", "taken", "refused"} =>
    \/ job[target].life = "deleted"
    \/ /\ Stored(target)
       /\ job[target].publicationAttempts = expected
       /\ \/ job[target].publicationState = "pending"
          \/ /\ job[target].publicationState = "published"
             /\ job[target].executionState # "pending"

\* The attempt counter and the state agree: a pending row has attempts left,
\* a failed or abandoned one has used them all, none has more than the maximum.
AttemptsMatchState ==
  \A j \in Jobs : Stored(j) =>
    /\ job[j].publicationState = "pending" => job[j].publicationAttempts < MaxAttempts
    /\ job[j].publicationState \in {"failed", "abandoned"} =>
         job[j].publicationAttempts = MaxAttempts
    /\ job[j].publicationAttempts <= MaxAttempts

\* No publish call is counted twice: since the job was last armed the counter
\* has not passed the number of publish calls that settled, though a write
\* whose answer was lost is repeated ("retries a failed-outcome write without
\* counting a new outcome", relay.test.ts).
AttemptsWereMade ==
  \A j \in Jobs : Stored(j) => job[j].publicationAttempts <= settled[j]

\* Publication is at least once, and every further copy of a job has a crash,
\* a stop or a disconnection of its own to answer for it.
DuplicatesAreExplained ==
  \A j \in Jobs : copies[j] + orphans[j] <= 1 + disruptions

\* A job leaves the table only when the broker has its message or when an
\* operator abandoned it.
DeletedWasSettled ==
  \A j \in Jobs : job[j].life = "deleted" => copies[j] > 0 \/ job[j].abandonedAt = "set"

\* A published row stays published until it is deleted: a publish failure
\* recorded after the executor has started the job does not downgrade it.
PublishedSticks ==
  [][\A j \in Jobs :
       Stored(j) /\ job[j].publicationState = "published" =>
         job'[j].life = "deleted" \/ job'[j].publicationState = "published"]_vars

\* Only the start of its execution turns an exhausted or abandoned job into a
\* published one; a late outcome write of the relay never does.
OnlyExecutionRevives ==
  [][\A j \in Jobs :
       /\ Stored(j)
       /\ job[j].publicationState \in {"failed", "abandoned"}
       /\ job'[j].publicationState = "published"
       => job[j].executionState = "pending" /\ job'[j].executionState = "running"]_vars

\* How far a row says its job has come.  A started job is "running" whatever
\* the relay still records about its publication.
Stage(row) ==
  CASE row.life = "unborn" -> "unborn"
    [] row.life = "deleted" -> "removed"
    [] row.life = "stored" /\ row.executionState = "running" -> "running"
    [] row.life = "stored" /\ row.executionState \in {"succeeded", "failed"} -> "executed"
    [] OTHER -> row.publicationState

\* The life of a job (module JobLife): lost answers, late outcome writes,
\* duplicates and restarts included, a row is published only when its message
\* can be received, is started at most once and only then, comes back from
\* "failed" only by the operator or its execution, and is removed only
\* executed or abandoned.
Life == INSTANCE JobLife WITH
          stage <- [j \in Jobs |-> Stage(job[j])],
          delivered <- {j \in Jobs : copies[j] > 0}
ImplementsJobLife == Life!Spec

-----------------------------------------------------------------------------
(***************************************************************************)
(* The inductive invariant: what the relay knows about the job it holds.   *)
(***************************************************************************)
Recording == pc \in {"writing", "backoff"}

\* A confirm on its way, or remembered as the outcome, stands for a message
\* that the broker has.
EvidenceInv ==
  /\ pc = "taken" => copies[target] > 0
  /\ Recording /\ outcome = "success" => copies[target] > 0
  /\ PublishedWasAccepted

\* A success that is being recorded meets a row that is still as it was
\* polled, or one that is published already, or none.
SuccessIsLive ==
  Recording /\ outcome = "success" =>
    \/ job[target].life = "deleted"
    \/ /\ Stored(target)
       /\ job[target].publicationState = "pending"
       /\ job[target].publicationAttempts = expected
    \/ /\ Stored(target)
       /\ job[target].publicationState = "published"

\* The relay only ever holds a job that had attempts left.
AttemptsInv ==
  /\ AttemptsMatchState
  /\ pc \notin {"off", "poll"} => expected < MaxAttempts

\* A job whose publication is not recorded, so that it may be sent again.
Unsent(row) ==
  \/ row.life = "unborn"
  \/ row.life = "stored" /\ row.publicationState # "published"

\* A job the broker may hear of again has a disruption to spare.
DuplicatesInv ==
  /\ DuplicatesAreExplained
  /\ pc \in {"polled", "sent"} => copies[target] + orphans[target] <= disruptions
  /\ pc = "sent" /\ state = "stopped" => copies[target] + orphans[target] < disruptions
  /\ pc = "taken" /\ state = "stopped" => copies[target] + orphans[target] <= disruptions
  /\ \A j \in Jobs :
       /\ Unsent(job[j])
       /\ ~ /\ j = target
            /\ state = "running"
            /\ pc = "taken" \/ (Recording /\ outcome = "success")
       => copies[j] + orphans[j] <= disruptions

\* A counter the relay's next write would match has that publish call still to
\* count.  Only with maximumAttempts = 1 can a re-armed job defeat this.
CountInv ==
  /\ AttemptsWereMade
  /\ Recording =>
       \/ job[target].life = "deleted"
       \/ /\ Stored(target)
          /\ \/ /\ job[target].publicationAttempts = expected
                /\ settled[target] > expected
             \/ job[target].publicationAttempts = expected + 1
             \/ /\ job[target].publicationAttempts = 0
                /\ expected = MaxAttempts - 1

\* What the deletion of a job relies on: an abandoned row says so for good.
DeletedInv ==
  /\ DeletedWasSettled
  /\ \A j \in Jobs : job[j].publicationState = "abandoned" => job[j].abandonedAt = "set"

\* The executor's start is recorded together with the publication it proves.
StartedIsPublished ==
  \A j \in Jobs :
    job[j].executionState # "pending" => job[j].publicationState = "published"

\* The relay polls and the broker hears of jobs that were submitted only.
BornInv ==
  /\ pc \notin {"off", "poll"} => job[target].life # "unborn"
  /\ \A j \in Jobs :
       job[j].life = "unborn" => copies[j] = 0 /\ orphans[j] = 0

IndInv ==
  /\ TypeOK
  /\ EvidenceInv
  /\ StartedIsPublished
  /\ InFlightIsLive
  /\ SuccessIsLive
  /\ AttemptsInv
  /\ DuplicatesInv

-----------------------------------------------------------------------------
\* Every job that is pending is published, or exhausted and left to the
\* operator, whatever crashes, stops and errors happen on the way.
EveryJobSettles ==
  \A j \in Jobs :
    (Stored(j) /\ job[j].publicationState = "pending") ~>
      (job[j].publicationState # "pending")

\* stop() resolves: the loop it waits for ends.
StopDrains == state = "stopped" ~> pc = "off"

=============================================================================
