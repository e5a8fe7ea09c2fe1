-------------------------- MODULE IngestionDelivery --------------------------
(***************************************************************************)
(* The processing of ingestions: worker replicas run the pipeline of       *)
(* apps/worker/src/ingestion for the jobs of the queue, against a database *)
(* that other workers and users change between its awaits.                 *)
(*                                                                         *)
(* A job may be in the queue more than once and may be redelivered while   *)
(* the worker that lost it still runs.  A transaction is one step: record  *)
(* and fail hold the row lock of the ingestion, and record holds locks on  *)
(* the assets and findings it checks until it commits.                     *)
(*                                                                         *)
(* A candidate of a report is its identity, that is, its weakness and its  *)
(* resource; partial identity, fingerprints and candidates that stay       *)
(* unresolved for lack of evidence are left out.  Findings are numbered in *)
(* the order of their creation.                                            *)
(*                                                                         *)
(* A definition whose name ends in Slip is the one after it with a mistake;*)
(* the specification does not use it.                                      *)
(***************************************************************************)
EXTENDS Naturals, FiniteSets, FiniteSetsExt, Functions

CONSTANTS
  Ingestions,
  Messages,       \* jobs in the queue
  JobOf,          \* [Messages -> Ingestions], data.ingestionId
  Identities,
  Assets,
  AssetFor,       \* [Identities -> Assets], the asset an identity resolves to
  Report,         \* [Ingestions -> SUBSET Identities], the candidates
  Known,          \* identities of the findings there are at first
  Unparsable,     \* ingestions whose source file cannot be normalized
  Workers,
  Idle,           \* the message of a worker that has none
  DeliveryLimit,  \* failed deliveries after which the broker gives up
  MaxFaults,      \* bound: failing calls, crashed workers, lost channels
  MaxEdits        \* bound: changes of findings, assets and sources by users

ASSUME JobsAssumption ==
  /\ JobOf \in [Messages -> Ingestions]
  /\ AssetFor \in [Identities -> Assets]
  /\ Report \in [Ingestions -> SUBSET Identities]
  /\ Known \subseteq Identities
  /\ Unparsable \subseteq Ingestions
  /\ Idle \notin Messages

ASSUME NamesAssumption == Workers \cap {"queue", "acked", "dead"} = {}

ASSUME LimitsAssumption ==
  {DeliveryLimit, MaxFaults, MaxEdits} \subseteq Nat

VARIABLES
  status,   \* ingestion.status
  plans,    \* plans ever written for an ingestion
  sources,  \* ingestions whose source can be read
  assets,   \* rows of asset
  finding,  \* rows of finding: a function of their numbers
  created,  \* findings ever created
  message,  \* where each job is, and its failed deliveries
  task,     \* the message a worker runs the pipeline for
  pc,       \* the await it is at
  todo,     \* candidates whose finding is still to be matched
  plan,     \* its IngestionPlan
  faults, edits

dataVars == <<status, plans, sources, assets, finding, created>>
workerVars == <<task, pc, todo, plan>>
countVars == <<faults, edits>>
vars == <<dataVars, message, workerVars, countVars>>

\* "inactive" stands for the two reopenedStatuses, "active" for every other
\* status but "duplicate".
States == {"active", "inactive", "duplicate"}
NoPlan == [newFindings |-> {}, attachments |-> {}]

Init ==
  /\ status = [i \in Ingestions |-> "pending"]
  /\ plans = [i \in Ingestions |-> 0]
  /\ sources = Ingestions
  /\ assets = Assets
  /\ created = Cardinality(Known)
  /\ \E ids \in Bijection(1 .. created, Known) :
       finding = [f \in 1 .. created |->
         [state |-> "active", asset |-> AssetFor[ids[f]], identity |-> ids[f]]]
  /\ message = [m \in Messages |-> [at |-> "queue", failed |-> 0]]
  /\ task = [w \in Workers |-> Idle]
  /\ pc = [w \in Workers |-> "idle"]
  /\ todo = [w \in Workers |-> {}]
  /\ plan = [w \in Workers |-> NoPlan]
  /\ faults = 0
  /\ edits = 0

Job(w) == JobOf[task[w]]
Fault == faults < MaxFaults /\ faults' = faults + 1

-----------------------------------------------------------------------------
(***************************************************************************)
(* The broker and the consumer (see JobConsumer).                          *)
(***************************************************************************)

\* A delivery that was not acknowledged goes back to the queue, or to the
\* dead-letter queue when it has failed too often.
Returned(m) ==
  [at |-> IF message[m].failed >= DeliveryLimit THEN "dead" ELSE "queue",
   failed |-> message[m].failed + 1]

Take(w, m) ==
  /\ pc[w] = "idle"
  /\ message[m].at = "queue"
  /\ message' = [message EXCEPT ![m].at = w]
  /\ task' = [task EXCEPT ![w] = m]
  /\ pc' = [pc EXCEPT ![w] = "reading"]
  /\ UNCHANGED <<dataVars, todo, plan, countVars>>

Reset(w) ==
  /\ task' = [task EXCEPT ![w] = Idle]
  /\ pc' = [pc EXCEPT ![w] = "idle"]
  /\ todo' = [todo EXCEPT ![w] = {}]
  /\ plan' = [plan EXCEPT ![w] = NoPlan]

\* The handler ends.  The answer counts only on the channel of the delivery.
HandlerEnds(w, ok) ==
  /\ Reset(w)
  /\ message' = IF message[task[w]].at # w THEN message
                ELSE [message EXCEPT ![task[w]] =
                        IF ok THEN [@ EXCEPT !.at = "acked"] ELSE Returned(task[w])]

\* The channel is lost and the worker, if it lives, runs on without it.
ChannelLost(w) ==
  /\ Fault
  /\ task[w] # Idle
  /\ message[task[w]].at = w
  /\ message' = [message EXCEPT ![task[w]] = Returned(task[w])]
  /\ UNCHANGED <<dataVars, workerVars, edits>>

Crash(w) ==
  /\ Fault
  /\ task[w] # Idle
  /\ HandlerEnds(w, FALSE)
  /\ UNCHANGED <<dataVars, edits>>

-----------------------------------------------------------------------------
(***************************************************************************)
(* The pipeline.                                                           *)
(***************************************************************************)

\* process() and normalize(): the status is read before the source.
Read(w) ==
  /\ pc[w] = "reading"
  /\ Job(w) \in sources
  /\ IF status[Job(w)] # "pending"
     THEN HandlerEnds(w, TRUE)
     ELSE /\ pc' = [pc EXCEPT ![w] =
               IF Job(w) \in Unparsable THEN "failing" ELSE "matchingAssets"]
          /\ UNCHANGED <<message, task, todo, plan>>
  /\ UNCHANGED <<dataVars, countVars>>

SourceMissing(w) ==
  /\ pc[w] = "reading"
  /\ Job(w) \notin sources
  /\ HandlerEnds(w, FALSE)
  /\ UNCHANGED <<dataVars, countVars>>

\* The asset matcher decides from one read of the inventory.
MatchAssets(w) ==
  /\ pc[w] = "matchingAssets"
  /\ todo' = [todo EXCEPT ![w] = {x \in Report[Job(w)] : AssetFor[x] \in assets}]
  /\ pc' = [pc EXCEPT ![w] = "matchingFindings"]
  /\ UNCHANGED <<dataVars, message, task, plan, countVars>>

Equal(x) ==
  {f \in DOMAIN finding : finding[f].asset = AssetFor[x] /\ finding[f].identity = x}

\* The finding matcher prefers a finding that is no duplicate, then the oldest.
Preferred(x) ==
  LET Originals == {f \in Equal(x) : finding[f].state # "duplicate"}
  IN  Min(IF Originals # {} THEN Originals ELSE Equal(x))

\* The candidates of one asset, compared with one read of its findings.
MatchFindings(w) ==
  /\ pc[w] = "matchingFindings"
  /\ \E x \in todo[w] :
       LET batch == {y \in todo[w] : AssetFor[y] = AssetFor[x]}
           known == {y \in batch : Equal(y) # {}}
       IN
         /\ todo' = [todo EXCEPT ![w] = @ \ batch]
         /\ plan' = [plan EXCEPT ![w] =
              [newFindings |-> @.newFindings \cup (batch \ known),
               attachments |-> @.attachments \cup
                 {[finding |-> Preferred(y), identity |-> y] : y \in known}]]
  /\ UNCHANGED <<dataVars, message, task, pc, countVars>>

Matched(w) ==
  /\ pc[w] = "matchingFindings"
  /\ todo[w] = {}
  /\ pc' = [pc EXCEPT ![w] = "recording"]
  /\ UNCHANGED <<dataVars, message, task, todo, plan, countVars>>

\* What recordIngestionPlan() compares after it has taken its locks.
Fresh(p) ==
  /\ \A x \in p.newFindings \cup {a.identity : a \in p.attachments} :
       AssetFor[x] \in assets
  /\ \A a \in p.attachments :
       a.finding \in DOMAIN finding /\ finding[a.finding].asset = AssetFor[a.identity]

Reopened(p) ==
  {f \in DOMAIN finding :
     finding[f].state = "inactive" /\ f \in {a.finding : a \in p.attachments}}

WritePlan(i, p) ==
  \E ids \in Bijection(p.newFindings, created + 1 .. created + Cardinality(p.newFindings)) :
    /\ finding' = [f \in DOMAIN finding \cup Range(ids) |->
         IF f \in DOMAIN finding
         THEN IF f \in Reopened(p) THEN [finding[f] EXCEPT !.state = "active"] ELSE finding[f]
         ELSE LET x == CHOOSE y \in p.newFindings : ids[y] = f
              IN  [state |-> "active", asset |-> AssetFor[x], identity |-> x]]
    /\ created' = created + Cardinality(p.newFindings)
    /\ status' = [status EXCEPT ![i] = "completed"]
    /\ plans' = [plans EXCEPT ![i] = @ + 1]
    /\ UNCHANGED <<sources, assets>>

RecordableSlip(i) == TRUE
\* Under the row lock, only a pending ingestion is processed.
Recordable(i) == status[i] = "pending"

\* record() is answered.
Record(w) ==
  /\ pc[w] = "recording"
  /\ \/ /\ ~Recordable(Job(w))
        /\ UNCHANGED dataVars
        /\ HandlerEnds(w, TRUE)
     \/ /\ Recordable(Job(w))
        /\ Fresh(plan[w])
        /\ WritePlan(Job(w), plan[w])
        /\ HandlerEnds(w, TRUE)
  /\ UNCHANGED countVars

RecordStaleSlip(w) ==
  /\ pc[w] = "recording"
  /\ Recordable(Job(w))
  /\ ~Fresh(plan[w])
  /\ UNCHANGED vars
\* A stale plan is not repaired; the next delivery matches again.
RecordStale(w) ==
  /\ pc[w] = "recording"
  /\ Recordable(Job(w))
  /\ ~Fresh(plan[w])
  /\ HandlerEnds(w, FALSE)
  /\ UNCHANGED <<dataVars, countVars>>

\* record() fails, although its transaction may have been committed.
RecordErrs(w) ==
  /\ pc[w] = "recording"
  /\ Fault
  /\ \/ UNCHANGED dataVars
     \/ Recordable(Job(w)) /\ Fresh(plan[w]) /\ WritePlan(Job(w), plan[w])
  /\ HandlerEnds(w, FALSE)
  /\ UNCHANGED edits

WriteFailure(i) ==
  /\ status' = [status EXCEPT ![i] = IF Recordable(i) THEN "failed" ELSE @]
  /\ UNCHANGED <<plans, sources, assets, finding, created>>

Fail(w) ==
  /\ pc[w] = "failing"
  /\ WriteFailure(Job(w))
  /\ HandlerEnds(w, TRUE)
  /\ UNCHANGED countVars

FailErrsSlip(w) ==
  /\ pc[w] = "failing"
  /\ Fault
  /\ UNCHANGED dataVars \/ WriteFailure(Job(w))
  /\ HandlerEnds(w, TRUE)
  /\ UNCHANGED edits
FailErrs(w) ==
  /\ pc[w] = "failing"
  /\ Fault
  /\ UNCHANGED dataVars \/ WriteFailure(Job(w))
  /\ HandlerEnds(w, FALSE)
  /\ UNCHANGED edits

CallErrsSlip(w) ==
  /\ pc[w] \in {"reading", "matchingAssets", "matchingFindings"}
  /\ Fault
  /\ pc' = [pc EXCEPT ![w] = "failing"]
  /\ UNCHANGED <<dataVars, message, task, todo, plan, edits>>
\* Any other call to storage or database fails.
CallErrs(w) ==
  /\ pc[w] \in {"reading", "matchingAssets", "matchingFindings"}
  /\ Fault
  /\ HandlerEnds(w, FALSE)
  /\ UNCHANGED <<dataVars, edits>>

-----------------------------------------------------------------------------
(***************************************************************************)
(* Users of the API.                                                       *)
(***************************************************************************)
Edited == edits < MaxEdits /\ edits' = edits + 1

UpdateFinding(f) ==
  /\ Edited
  /\ \E s \in States, x \in Identities :
       finding' = [finding EXCEPT ![f].state = s, ![f].identity = x]
  /\ UNCHANGED <<status, plans, sources, assets, created, message, workerVars,
                 faults>>

DeleteFinding(f) ==
  /\ Edited
  /\ finding' = Restrict(finding, DOMAIN finding \ {f})
  /\ UNCHANGED <<status, plans, sources, assets, created, message, workerVars,
                 faults>>

\* Findings keep their asset from being deleted.
DeleteAsset(a) ==
  /\ Edited
  /\ \A f \in DOMAIN finding : finding[f].asset # a
  /\ assets' = assets \ {a}
  /\ UNCHANGED <<status, plans, sources, finding, created, message, workerVars,
                 faults>>

DeleteSource(i) ==
  /\ Edited
  /\ sources' = sources \ {i}
  /\ UNCHANGED <<status, plans, assets, finding, created, message, workerVars,
                 faults>>

-----------------------------------------------------------------------------
Step(w) ==
  \/ \E m \in Messages : Take(w, m)
  \/ Read(w) \/ SourceMissing(w)
  \/ MatchAssets(w) \/ MatchFindings(w) \/ Matched(w)
  \/ Record(w) \/ RecordStale(w) \/ RecordErrs(w)
  \/ Fail(w) \/ FailErrs(w) \/ CallErrs(w)

Users ==
  \/ \E f \in DOMAIN finding : UpdateFinding(f) \/ DeleteFinding(f)
  \/ \E a \in assets : DeleteAsset(a)
  \/ \E i \in sources : DeleteSource(i)

Next ==
  \/ \E w \in Workers : Step(w) \/ ChannelLost(w) \/ Crash(w)
  \/ Users

Spec == Init /\ [][Next]_vars

\* Every worker takes jobs and goes on: it is one asynchronous function whose
\* calls settle, and a supervisor restarts a worker that has ended.
FairSpec == Spec /\ \A w \in Workers : WF_vars(Step(w))

-----------------------------------------------------------------------------
(***************************************************************************)
(* Properties.                                                             *)
(***************************************************************************)

\* Every variable has its type.
TypeOK ==
  /\ status \in [Ingestions -> {"pending", "completed", "failed"}]
  /\ plans \in [Ingestions -> Nat]
  /\ sources \subseteq Ingestions
  /\ assets \subseteq Assets
  /\ created \in Nat
  /\ DOMAIN finding \subseteq 1 .. created
  /\ \A f \in DOMAIN finding :
       finding[f] \in [state : States, asset : assets, identity : Identities]
  /\ message \in [Messages -> [at : {"queue", "acked", "dead"} \cup Workers,
                               failed : 0 .. DeliveryLimit + 1]]
  /\ task \in [Workers -> Messages \cup {Idle}]
  /\ pc \in [Workers -> {"idle", "reading", "matchingAssets", "matchingFindings",
                         "recording", "failing"}]
  /\ \A w \in Workers : task[w] = Idle <=> pc[w] = "idle"
  /\ todo \in [Workers -> SUBSET Identities]
  /\ \A w \in Workers :
       /\ plan[w].newFindings \subseteq Identities
       /\ plan[w].attachments \subseteq [finding : 1 .. created, identity : Identities]
  /\ faults \in 0 .. MaxFaults /\ edits \in 0 .. MaxEdits

\* Duplicate jobs, redelivery to a second worker while the first still runs,
\* crashes and lost answers: an ingestion gets one final outcome, and its plan
\* is written once, together with that outcome (module Settlement).
ImplementsSettlement == INSTANCE Settlement
SettledOnce == ImplementsSettlement!Spec

\* A job leaves the queue as done only when its ingestion has its outcome: no
\* error and no stale plan may be acknowledged away.
AckedIsSettled ==
  \A m \in Messages : message[m].at = "acked" => status[JobOf[m]] # "pending"

\* Only a file that cannot be parsed fails its ingestion; operational errors
\* never do, and nothing of such a file is recorded.
OnlyParsingFails ==
  \A i \in Ingestions :
    /\ status[i] = "failed" => i \in Unparsable
    /\ status[i] = "completed" => i \notin Unparsable

\* An ingestion does not stay pending while a job for it is left: it gets its
\* outcome, or the broker gives up on all its jobs.
EveryIngestionEnds ==
  \A i \in Ingestions :
    <>(\/ status[i] # "pending"
       \/ \A m \in Messages : JobOf[m] = i => message[m].at = "dead")

\* What CONTEXT.md says of a plan: if a finding changed after matching, nothing
\* is written.  A finding that a plan attaches to still is what was matched.
PlansAreFresh ==
  [][\A w \in Workers :
       pc[w] = "recording" /\ plans'[Job(w)] # plans[Job(w)] =>
         \A a \in plan[w].attachments : finding[a.finding].identity = a.identity]_vars

=============================================================================
