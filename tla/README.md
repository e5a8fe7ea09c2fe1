# A formal model of exposurenexus

TLA+ specifications of the parts of exposurenexus whose correctness depends on
the order in which things happen: the durable job queue between API and worker,
the upload and processing of import sources, the start and end of the two
processes, the records that concurrent calls change, and the matching of
findings over repeated imports. TLC checks the properties below on small
instances; TLAPS proves the safety of the outbox, of the import sources, of the
processing of ingestions, of the job consumer, of the job producer, of the
processes and of the records, the three refinements, and of the matching the
order of moved code and that no import creates twins, for every value of the
constants.

## 1. The system

exposurenexus keeps an inventory of assets and the findings scanners report for
them. A user registers and uploads a scanner report; the API stores the bytes in
an object store, creates an *ingestion* and a *job* in one PostgreSQL
transaction; a relay publishes the job to RabbitMQ; a worker consumes it, reads
the bytes, translates them, matches assets and findings and records the result.

| Component | Where | State it keeps | Operations | Talks to |
| --- | --- | --- | --- | --- |
| Job outbox | `packages/jobs` `postgres.ts`, `service.ts`, `relay.ts` | table `job`; the relay's loop | `create`, `markRunning/Succeeded/Failed`, `retryPublication`, `abandonPublication`, `deleteByID`; relay `start`, `stop`, poll, publish, record | PostgreSQL, producer |
| Job producer | `packages/jobs` `producer.ts` | connection, confirm channel, pending publishes, recovery timer | `publish`, recovery, `close` | RabbitMQ |
| Job consumer | `packages/jobs` `consumer.ts` | connection, channel, subscription, recovery, queue of deliveries in process | `start`, delivery, recovery, `stop` | RabbitMQ, handlers |
| Import sources | `packages/backend` `features/import-sources`, `object-storage` | table `import_source`, object in the bucket | `register`, `create`, `upload`, `deleteByID` | PostgreSQL, S3 |
| Ingestions | `packages/backend` `features/ingestions`, `apps/worker` `ingestion/` | table `ingestion`, findings, observations | `submit`, `process`, `record`, `fail` | import sources, findings, jobs |
| Matching | `apps/worker` `classification/` | none (pure) | asset and finding matching, drift pairing | snapshot of the database |
| Findings | `packages/backend` `features/findings`, `vulnerabilities` | `finding`, `observation`, links, catalog | create, update, delete, link, move | events |
| Assets, custom fields | `packages/backend` `features/assets` | `asset`, identifiers, definitions, assignments, values | create, update, delete, replace | events |
| Identity, authentication | `packages/backend` `features/identity`, `authentication` | users, roles, sessions | login, assignment, deletion | events |
| API process | `apps/api` `lifecycle.ts`, `middleware` | resources, uploads in progress | start, drain, deadline | all above |
| Worker process | `apps/worker` `worker.ts` | resources, consumer | start, drain, deadline | consumer |
| Event bus | `apps/api` `lib/eventbus` | listeners | `on`, `once`, `emit` | event handlers |
| User interface | `apps/ui` | client caches | | HTTP API |

### What is hard, and what makes each part correct

* **Job outbox.** The relay publishes from a copy of a row, over a broker whose
  answer can be lost, while an executor and an operator update the row; the
  process may die at any await. Correct means: at least once, with every
  duplicate explained; `published` only if the broker has the message; attempts
  counted once; a settled row not resurrected or downgraded; no job stranded.
* **Job producer and consumer.** Callbacks of two objects (connection, channel)
  arrive between the awaits of a recovery that itself replaces them. Correct
  means: recovery never gets lost, an answer settles the publish it belongs to,
  a delivery is acknowledged only after its handler and on its own channel, a
  stop waits for the handler and leaves nothing.
* **Import sources.** PostgreSQL and S3 share no transaction; concurrent PUTs,
  cancellation, process death, lost answers and late effects. Correct means: one
  writer, no availability without bytes, nothing confirmed is lost, leftovers
  can be found.
* **Ingestions.** Redelivered jobs and stale snapshots. Correct means: one plan
  per ingestion, acknowledged only when settled.
* **Processes.** Signals, timeouts and failures race a start-up that is still
  acquiring resources and a drain others are still using. Correct means: nothing
  is released in use, the exit code is true, and both end in time.
* **Records.** Checks whose subject changes before the write that relies on them;
  locks taken row by row in several statements. Correct means: moves keep both
  parents' data, replaced sets are one call's, reported histories chain, and the
  locks are ordered.
* **Matching.** What an import adds changes what the next one matches. Correct
  means: no finding twice, no reassignment, moved code keeps its order.

## 2. The plan

The order is by importance: what loses or duplicates work first.

| # | Module | Models | Composes / refines | Status |
| --- | --- | --- | --- | --- |
| 1 | `JobOutbox` | job table, relay, the broker as the relay sees it | refines `JobLife` | done, proved with the refinement |
| 2 | `ImportSources` | one source, its row and its object, submission | | done, proved |
| 3 | `JobConsumer` | connection, channel, subscription, recovery, deliveries, stop | refines `Delivery` | done, proved with the refinement |
| 4 | `IngestionDelivery` | worker pipeline over redelivered jobs, failing calls and changing findings | refines `Settlement` | done, proved with the refinement |
| 5 | `JobProducer` | recovery, pending publishes, returns, backpressure, close | | done, proved |
| 6 | `ProcessLifecycle` | API and worker start-up, drain, deadlines | | done, proved |
| 7 | `RowStore`, `FindingRecords`, `AssetRecords`, `RoleRecords` | transactions with row locks; findings, assets, roles | composed by `Records` | done, proved |
| 8 | `DriftPairing`, `FindingMatcher` | pairing of moved code, the decisions on a batch | composed by `Matching` over imports | done, proved but for `NeverReassigned` |

What else the system has is listed in section 7 with the reason it has no
module.

Abstract specifications: the life of a job as its row reports it (`JobLife`,
implemented by `JobOutbox`); a delivery is done only after its handler succeeded
(`Delivery`, implemented by `JobConsumer`); an ingestion is settled exactly once
(`Settlement`, implemented by `IngestionDelivery`).

What is left to prove: `NeverReassigned`, under an assumption on the reports
that says what the worlds of `MCMatching` say.

## 3. The modules

A definition whose name ends in `Slip` is the definition of the same name with a
mistake somebody could make. Specifications do not use them; replacing the
definition by its slip must break the property it is listed with, which shows
that the property depends on that line of the code.

### JobOutbox (`MCJobOutbox`, `JobOutboxProofs`), JobLife

*State.* `job` is the table: the columns that conditions read, timestamps as
`null`/`due`/`later` or `null`/`set`. `state` is the relay's own variable, `pc`
the await its loop is at, `target` and `expected` the local copy of the polled
row (`expectedPublicationAttempts`), `outcome` the local variable of that name.
`producer` is `ready` of `producer.ts`; `copies` are the messages RabbitMQ has
enqueued, `orphans` those sent on a connection that is gone and that may still
arrive. `disruptions`, `dbErrors` and `rearms` bound failures; `settled` counts
the publish calls that settled since the job was last armed.

*Actions.* One per statement of `postgres.ts` (`Create`, `MarkRunning`,
`MarkSucceeded`, `MarkFailed`, `RetryPublication`, `AbandonPublication`,
`DeleteByID`), one per step of the loop between awaits (`Poll`, `Publish`,
`PublishRejected`, `ConfirmArrives`, `RefusalArrives`, `WriteOutcome`,
`WriteErrs`, `RetryWrite`, `LoopEnds`), `Start`, `Stop` and `Crash` of the API
process, and the broker's side (`BrokerTakes`, `BrokerRefuses`, `OrphanTaken`,
`OrphanLost`, `ConnectionLost`, `Reconnect`).

*Assumptions.* One relay runs (the deployment runs one API process). `mark*`,
`retryPublication` and `abandonPublication` have no production caller yet: the
model lets an executor call the first three for a job RabbitMQ has a copy of,
and an operator the others at any time. An errored outcome write has committed
by the time its error is seen, or never commits. A poll that fails is a poll
that is repeated: it changes nothing and has no step. A producer whose buffer is
full rejects like one that is not ready.

*Refinement.* `JobLife` knows of each job only the stage it has reached and
whether RabbitMQ has its message. `ImplementsJobLife` reads the stage off the row
(`Stage`): the execution state once execution has started, else the publication
state. What the outbox adds, attempt counters, retry times, the relay with its
stale copy, crashes, duplicates and late outcome writes, must then be invisible:
a row is published only when its message can be received, its start is recorded
at most once, also when a second copy arrives after the first has been executed,
a failed or abandoned job comes back only by the operator or its execution, and
a row goes only executed or abandoned.

### ImportSources (`MCImportSources`, `ImportSourcesProofs`)

*State.* `row` is one row of `import_source`, `object` its object. `pc` is the
await each request is at: a request is one PUT (`upload` then `submit`) or one
call of `create`. `deleting` is the same for calls of `deleteByID`. `late` holds
the calls whose caller saw an error, or died, and which may still take effect.
`confirmed`, `writers`, `removed`, `strayed` and `early` are history the
properties speak of.

*Actions.* Each await of `upload`, `transfer`, `submit` and `deleteByID` has an
action for its success and one for its error; `Crash` ends a request anywhere;
`LateLands` lets a forgotten call take effect. `RowAfter` holds the five UPDATE
statements and the table's CHECK, which is what refuses a finalization that
lands after a failure or a deletion.

*Assumptions.* The documentation of `deleteByID` asks callers to wait until
creation has finished or been abandoned; nothing in the code enforces it, and the
model does not either. `early` remembers that a deletion did not wait, and only
`LeftoversAreMarked` excepts that case; all other properties hold in it too. The
submitting transaction holds the row lock until its commit, so a commit that
lands late is one that happened at once. Sources share nothing, so one is enough.

### JobProducer (`MCJobProducer`, `JobProducerProofs`)

*State.* The variables of `createJobProducer` by their names (`pending` is
`pendingPublishes`). `step` is the await the setup or `recover()` is at, `own`
its locals, `reply` whether the call it awaits has been answered: the answer and
the code behind it are two steps, with events in between. `stopping` and
`active` are the same for `close()`. `sent`, `returns`, `confirms`, `full`,
`open` and `lost` are the two ends of the AMQP connection; `routed`, `nacked`
and `resolved` are history. An attempt is a call of `publish()`: a number, the
event and the channel.

*Actions.* `Publish`; the broker (`BrokerTakes`, losses of channels and
connections) and its events (`ReturnNoticed`, `ConfirmNoticed`, `Drained`,
`CloseNoticed`); the timer, each await of the setup and of `recover()` with its
failure, and those of `close()`.

*Assumptions.* The growing delay of the recovery is left out: the timer fires at
some time. A refused `publish()` changes nothing and is no action. A
`waitForConfirms()` whose channel is lost rejects. `LateChannelLoss` says whether
a channel alone may be seen to close between the answer to its exchange check and
the code that goes on with it, both in one turn of the socket; the code does not
survive that (section 5), so the `producer` run and the theorem about recovery
assume it away and everything else is proved with it. `ResolvedWasRouted` has an
exception: a return carries the event only, so of two concurrent attempts with
one event, the first nacked, the second returned, the return rejects the first
and the second resolves. `docs/job-queue.md:199-203` does not mention this;
the relay publishes one job at a time, so the system cannot meet it.

### JobConsumer (`MCJobConsumer`, `JobConsumerProofs`), Delivery

*State.* The variables of `createJobConsumer` by their names. `step` is the
await `recover()` is at and `own` its locals; `reply` says whether the call it
awaits has been answered, because an answered call and the code behind it are
two turns of the event loop: a close or cancel event may come between them.
`tail` is `processingTail` with the accepted deliveries, the first one being
handled. `open`, `lost`, `consumers`, `notices`, `unacked`, `wire` and `answers`
are the two ends of the AMQP connection: what is lost is lost at the broker
first and noticed later, deliveries, acks and cancel notices travel.

*Actions.* Each await of `recover`, `createCheckedChannel` and `subscribe` has an
action for the code behind it (`Connect`, `CreateChannel`, `Checked`, `GoOn`,
`Subscribed`), `CallFails` enters the catch blocks, whose own awaits end with
`ChannelClosed`, `ConnectionClosed` and `SubscriptionClosed`. `CloseNoticed` and
`CancelNoticed` are the event handlers, `Receive`, `HandlerSucceeds` and
`HandlerFails` the deliveries, `Stop`, `StopCancels` and `StopCloses` the awaits
of `stop()`. The broker is `Answer`, `Drop`, `CancelConsumer`, `Deliver` and
`BrokerSettles`.

*Refinement.* `Delivery` says what the queue is promised: a message is queued,
held or done; done only if the handler of this very delivery succeeded.
`ImplementsDelivery` maps `held` to the unacknowledged deliveries and `finished`
to the acks under way.

*Assumptions.* Recovery delays and the broker's delivery limit are left out (the
bound on failing handlers is below it). A malformed message is rejected like one
whose handler fails. A close that the client asks for succeeds at once, after
the acks that were sent before it on that channel. Connections and channels are
numbered in the order of their creation; `None` is `undefined`.

### ProcessLifecycle (`MCProcessLifecycle`, `ProcessLifecycleProofs`)

*State.* `runApi` and `runWorker` have the same shape and are one module;
`role` says which process this is and what it acquires. `stage` is the await of
the start-up, `drain` where the asynchronous part of `shutdown()` is, `state`
what became of each resource, `drained` and `broken` which of them have stopped
or failed to, `work` the uploads and requests of the API, `awaited` the uploads
`closeUploads()` waits for.

*Actions.* One per await of the start-up, with its failure; the signals, the two
timers, lifetimes that end by themselves; each part of the drain with its
failure; uploads and requests that come, lose their client and end.

*Assumptions.* Time is left out: a timer that runs may expire at any moment, or
after everything else. A call that never answers is one whose step is never
taken. Ordinary requests are modelled while their client is connected; only
uploads are tracked beyond that (`import-upload.ts:16-21`). The worker's idle
mode without handlers, which bootstrap never composes, is left out.

### IngestionDelivery (`MCIngestionDelivery`, `IngestionDeliveryProofs`), Settlement

*State.* `status` of the rows of `ingestion`, `finding` and `assets` as far as
matching and recording look at them, `sources` whose bytes can be read, and
`message` for each job in the queue (`JobOf` maps two messages to one ingestion:
the relay may publish a job twice). A worker has `task`, the await `pc` its
pipeline is at, and the `plan` it has built so far. `plans` counts what was ever
written; it is there for the properties.

*Actions.* `Read` is `process()` and the decision behind it, `MatchAssets` the
one inventory read, `MatchFindings` one asset's batch, `Record`, `RecordStale`
and `RecordErrs` the outcomes of `record()`, `Fail` and `FailErrs` those of
`fail()`, `CallErrs` any other failing call. A handler's end acknowledges or
rejects only while the delivery is the worker's own: after `ChannelLost` it runs
on and its answer counts for nothing. `UpdateFinding`, `DeleteFinding`,
`DeleteAsset` and `DeleteSource` are users of the API.

*Refinement.* `Settlement` has two actions, `Complete` and `Fail`, each once per
ingestion. `SettledOnce` says that the pipeline with all its duplicates, retries
and lost answers implements it.

*Assumptions.* Matching is reduced to equal identity with the matcher's
preference (no duplicate, then the oldest); `Matching` has the real rules. A
transaction is one step, because it keeps the locks it needs until it commits;
`Records` has its statements. A job redelivered to the worker that
still runs its first delivery waits for it (`processingTail`). Users cannot move
a finding to another asset (`updateFindingSchema` has no `assetId`), so the
corresponding comparison in `record()` never fails here.

### Records: RowStore, FindingRecords, AssetRecords, RoleRecords (`MCRecords`, `RecordsInvariants`, `RecordsProofs`)

*State.* `db` maps row names to contents, or `Absent`, a row without columns;
an entry of a unique index (a role's name, a user's e-mail and user name, the key
of an identifier, of a vulnerability or of a definition) is a row of its own,
which a new key inserts and a changed one gives up. `txn` is each transaction: the call it serves, the locks
it holds, those its statements still want (`todo`, sets of locks under numbers,
which are taken in the order of the numbers), what it read. An id that a call
generates is made of the transaction.

*Actions.* A call begins with its first statements (`StartFindingCall`,
`StartAssetCall`, `StartRoleCall`: together every call of these features that
writes, 44 with their arguments in the run), takes its locks one statement after
the other (`Lock`), goes on with what it reads under them (`FindingStep`,
`AssetStep`, `RoleStep`) and writes at its commit. Nobody can see a write
earlier and its lock keeps others off the row, so writing at the commit loses
nothing. `Fail` is any error, at any statement: like every refusal of the code
it is a rollback.

*Assumptions.* PostgreSQL is modelled as the code uses it: row locks of
foreign keys (`share`), of updates (`nokey`), of deletions and `FOR UPDATE`
(`all`) and of inserted keys (`new`), blocking by conflict, read committed for findings and roles, repeatable read for assets, where a row changed
since the first statement cannot be written (a share lock on such a row may pass).
The rows of one statement are locked in any order where the SQL names none.
Users are never deleted, so checks of actors are left out, and with them the share
locks that audit columns take on the actor's profile: only an update of that
user conflicts with them. The columns no
property tells apart are the mark of the transaction that wrote them. A
transaction makes one call. A deadlock is a state in which transactions wait for
one another until `Fail` breaks it up, and `OrderedLocks` speaks of that state.
It excepts three kinds of call that can deadlock in the code too: deletions,
which take a parent before the rows they cascade to; inserts of several keys in
the order of the request (`create`, `replaceAssignments`, `replaceValues`); and
updates that may change a unique key (`Renaming`: of identifiers, roles, users,
vulnerabilities and definitions), as two calls may each give a record the key of
the other's: each then has its row, has given up its entry and waits for the
other's. Updates of roles and users also delete the sessions they end, in any
order. Whether such an update locks its row as a change of a key or not is left
open until it has the row (`UpdateModes`). Signing in and out is left out: it
inserts and deletes sessions alone and waits at most for a profile.

`OutcomesChain` is about all that an event of a finding or asset says: its own
rows, and the entries of the catalogs that the projections embed
(`finding-projection.ts:55-80`, `asset-projection.ts:72-114`), which an edit
reads with them (`ReadEdit`, `Snapshot`). Calls on a catalog take no lock on what
refers to an entry, so they may come between two events, and even between the
two reads of one edit: what `ByCatalog` excepts is the content of an entry, the
links to a deleted vulnerability and the uses of a deleted definition, and
nothing else. The options that a definition's row has in a table of their own are
not told apart from its row. `ChangesAreTouched` compares observations, links and
identifiers with the mark of their writer, so that one written again without its
parent breaks it, and custom fields without, as a replacement that stores what
was there rightly touches nothing.

Two assumptions are about the constants: `WorldsAreConsistent`, that the tables start
as earlier calls leave them (names, references, nothing of a transaction yet to
come), and `FindingsAreNumbered`, that the ids of findings have an order, which
the code uses (`ORDER BY id`) and 0 is not one of them.

### Matching: DriftPairing, FindingMatcher (`MCMatching`, `MatchingProofs`)

*State.* `DriftPairing` and `FindingMatcher` are operators: the decisions on one
batch of candidates against the findings of one asset. `Matching` lives in what
they cause: `known`, the findings; `report`, the last batch, its `results` and
`target`, the finding each candidate came to.

*Actions.* `Import` matches, plans and records a report; `Rescan` imports the
same report again; `MarkDuplicate` and `Correct` are users who mark a finding or
change its weakness or its resource and place. New findings of one plan are
created at one time and listed by random identifiers: any order.

*Assumptions.* Values are compared in their canonical form; canonicalisation,
explanations and the validation of the findings read are left out. Reports are
such as the normalizers produce: only Semgrep gives fingerprints, to all results
or none. A report that mixed the two at one place would be reassigned by a
rescan. `ItemsAssumption` is what the schemas of findings and results ensure:
spans are numbers, and a weakness names finitely many identifiers, of namespaces
that have an order.

*What the properties except.* `MovesKeepOrder` compares two candidates that share
the bucket of the same candidates. To share a bucket is not transitive: a
candidate with identifiers of several namespaces may share one with two that do
not share one with each other. A bucket is matched for its first candidate alone,
so two candidates that share some bucket may have been paired in different ones,
against different findings. `NeverReassigned` excepts candidates that were
attached on partial evidence: one such candidate may be attached to a finding by
hand that knows only a CWE while another of its batch seeds a finding that fits
exactly, and the next import takes that one. `groupNew` compares a candidate
with the groups so far, and `identityClasses` only with the first member of a
class, so for chains of compatible identities the outcome depends on the order
of the report; no document promises otherwise and no property speaks of it.

## 4. The runs

| Run | Instance | Shows |
| --- | --- | --- |
| `outbox` | 2 jobs, 2 attempts, 2 disruptions, 1 failed write, 1 operator retry; 2.9 million states | the safety properties of the outbox |
| `outbox_live` | the same with 1 disruption, under `FairSpec`; 0.4 million states | the refinement of `JobLife`; every pending job is settled, every stop resolves |
| `outbox_single` | 1 job, `maximumAttempts` = 1 | the first finding below (a violation) |
| `import_sources` | 3 requests, 2 deletions that may be early, 2 late calls | the safety properties of the upload |
| `producer` | 2 events, 2 publishes, 2 returns or nacks, 3 disruptions, under `FairSpec`; 0.24 million states | recovery, evidence for resolved publishes, no forgotten attempt; an open producer becomes usable, `close()` resolves and leaves nothing |
| `producer_late` | the same with `LateChannelLoss` | the second finding below (a violation) |
| `lifecycle` | both processes, 2 uploads, 1 request, 2 failures, under `FairSpec` | nothing released in use, true exit codes, both processes end in time |
| `consumer` | 2 messages, 2 disruptions, 1 failing handler, under `FairSpec` | the safety properties, the refinement of `Delivery`; a started consumer subscribes again and gets its jobs done, activation and `stop()` settle |
| `ingestion` | 2 workers, 3 jobs of 2 ingestions, 1 failing call, crash or lost channel, 1 change by users, delivery limit 1, under `FairSpec`; 0.14 million states | the safety properties, the refinement of `Settlement`, and that every ingestion ends |
| `ingestion_stale` | the same with 2 faults | the divergence below (a violation) |
| `records` | 3 transactions; worlds of findings, of assets and of roles, each with two records of every kind that has a unique key; 0.4 million states up to renaming of transactions | consistency of the records and the order of the locks |
| `matching` | 1 import, 1 rescan, 1 edit; worlds of packages, images and code, reports of up to 3 results; 43 thousand states | no twins, no reassignment, order of moved code |

*Bounds.* Two jobs are enough because the relay holds one job at a time and rows
do not share a column: the second job is there to be polled instead of, or
before, the first. Two attempts are the least where "retry later" and
"exhausted" differ. Two disruptions allow a duplicate and a duplicate of the
duplicate. Three requests let one win a claim, one lose it and one come late;
two late calls let a lost write and a lost compensation overlap. Two disruptions
of the consumer let a recovery be disrupted itself, three of the producer do so
while an earlier attempt is still pending or `close()` runs. Two uploads let one
hold a connection that another has left; two failures break a resource and the
start-up or another one. Three transactions let two wait for a third, or wait in
a circle that two cannot form; the calls of a world are on two findings of one
asset, on one asset with two fields, on two users of a role. A report of three
results is the least in which a moved result has a neighbour on both sides; one
import before the rescan creates what the rescan must find again. What the
bounds cannot show, the theorems do: none of them restricts a constant, except
as listed in section 6.

`CHECK_DEADLOCK FALSE` everywhere: each instance ends in states where the
bounded failures are used up, all jobs or requests are done and nothing is left
to happen; in `Records` a deadlock of transactions is a state that `OrderedLocks`
judges.

*Fairness* (`FairSpec` of `JobOutbox`). Weak fairness of the relay's next step:
it is one asynchronous function and everything it awaits settles. Weak fairness
of the broker's answer, of each retry timer, and of `Start`: a supervisor
restarts an API process that has ended. Operators, executors and errors are not
fair; errors are bounded in number.

`FairSpec` of `JobConsumer`: weak fairness of the awaits of `recover` and of
`stop`, of the timer and of the events, since the event loop runs what is ready;
of the broker's deliveries and settlements; and of the end of a handler, which
is the assumption `docs/job-queue.md` states when it leaves deadlines to the
application. Disruptions and failures are bounded in number and not fair.

`FairSpec` of `JobProducer`: weak fairness of the timer, of the awaits of
`recover()` and `close()`, whose calls are answered or fail, of the events, of
the broker's answer to a publish, and of the drain of a live channel's buffer.

`FairSpec` of `ProcessLifecycle`: weak fairness of the two timers and of nothing
else. That no call needs to answer is the point of `EndsInTime`.

`FairSpec` of `IngestionDelivery`: weak fairness of each worker, whose calls
settle and which a supervisor restarts. The delivery limit is 1 instead of 5: it
only has to be reached and not reached. With the job that was published twice,
one fault already makes three deliveries of one ingestion.

## 5. Findings

`outbox_single`: `recordPublicationFailure` (`postgres.ts:239-265`) recognises
that it already committed only by `publicationAttempts = expected`.
`relay.test.ts:354` promises that a failed-outcome write is retried "without
counting a new outcome". With `maximumAttempts: 1`, which `relay.ts:57` accepts
(the default is 5), the counter an operator's `retryPublication` resets to is
the one the repeated write expects: write commits and exhausts the job, answer
is lost, operator re-arms, the repeat fails the re-armed job with an attempt
that was never made. With two or more attempts it cannot happen; that is
theorem `CountedOnce`.

`producer_late`: `recover()` (`producer.ts:299-304`) and the setup
(`producer.ts:361`) install a channel after its exchange check was answered and
compare only the connection. If the channel's close event comes between the
answer and the continuation, `handleChannelClose` (`producer.ts:170`) ignores it,
as the channel is not yet the producer's, and the closed channel is installed
with `ready = true`. Nothing replaces it until the connection closes;
`docs/job-queue.md:204-206` says the producer reconnects and checks the exchange
again. The window is small: both frames must be read before the continuation
runs. The consumer, which compares its channel, does not have it.

`ingestion_stale`: `CONTEXT.md:450` says that a plan is stale and writes nothing
"if an asset or finding changed after matching", and `apps/worker/README.md:50`
repeats it. `record()` compares existence and the finding's asset only
(`ingestion-record.ts:83-104`). A user who corrects the weakness or resource of a
finding between matching and recording gets the observation attached to a
finding it no longer matches.

## 6. The proofs

`JobOutboxProofs`. `IndInv` says what the relay knows about the job it holds:
while it publishes, the row is as it was polled, or started by the executor, or
executed and deleted (`InFlightIsLive`); a success it is about to record meets a
row that can take it (`SuccessIsLive`) and a message the broker has
(`EvidenceInv`); a job that may be sent again has a disruption to spare
(`DuplicatesInv`). None of the listed invariants is inductive alone: the
duplicates, for instance, need to know that a confirmed message is not sent again
unless a stop or crash intervened. `CountInv` is kept apart because it needs
`MaxAttempts > 1`; so is `DeletedInv`, by which a row that is gone had been
executed or given up and no later call brings it back. Each conjunct has a
`...Step` lemma with a case per action. `ImplementsLife` is the refinement: each
operation of `JobService` is one step of `JobLife` (`ServiceMoves`); an outcome
write is a confirmation, a failure or invisible, and never the revival of a row
that failed meanwhile, by `SuccessIsLive` (`OutcomeMoves`); a message the broker
enqueues is one of a job that was submitted, by `BornInv` (`ArrivalMoves`); no
other step shows (`VisibleSteps`). Assumptions: `JobsAssumption`,
`MaxAttemptsAssumption`, `BoundsAssumption`.

`ImportSourcesProofs`. The argument is that a source is either still on its way
to being finalized by its one writer, or *failing*: then no request can finalize
it, and one finalization may at most land late, before the failure is recorded
(`Compensating`). `RemovalInv` says that an object is removed only in the second
case or by `deleteByID`. All listed properties follow, `LeftoversAreMarked` with
the exception it states itself.

`JobProducerProofs`. Three invariants, one on the other. `Links`: the producer's
channel always belongs to its connection (`OneConnection`), a recovery works on
a connection and channel of its own (`RecoveryOwns`), and what each await of it
may assume (`Phases`). From it follow `NoAttemptForgotten` and, where a channel
is not lost at the one await of section 5, `RecoveryIsOwed`; `ProducerRecovers`
has that condition, `~LateChannelLoss`, in its statement. `OrderInv` is the
argument that a return comes before the confirmation it belongs to: attempts are
numbered (`Numbered`), what travels belongs to an attempt that is sent or
pending (`SentIsLive`, `StillUnderWay`), returns precede (`ReturnsInOrder`), a
confirmation that is seen meets an attempt rejected before
(`ConfirmedIsRejected`) or one with evidence on its channel
(`ResolvedHasEvidence`). `ProducerClosesClean` says that a `close()`
leaves nothing open, pending or to be recovered.

`ProcessLifecycleProofs`. `Order`: only what a stage acquires is there
(`Acquired`), and the drain closes users before what they use (`DrainFollows`,
`DrainedIsClosed`). `Quiet`: a process that has drained serves nothing
(`WorkIsServed`, `UploadsAwaited`, `DrainedIsQuiet`), which gives
`ReleasedIsUnused`; `Truth` is what the exit code knows, which gives
`ExitIsHonest`. No bound is used.

`JobConsumerProofs`. `RecoveryInv`: a recovery works on a connection and channel
of its own, and while it runs the consumer has either that channel or none
(`RecoveryOwns`); the consumer's channel always belongs to its connection
(`OneConnection`); only an awaited call has a reply (`RepliesAwaited`). So the
comparison behind each await is enough to know that the channel is current, and
the end of every attempt sees what was lost meanwhile. `Owed` and `Accepted`
follow. `DeliveryInv` adds the messages: deliveries and subscriptions are on the
current or a closing channel (`Placed`), of which only the newest subscription
counts (`Newest`, `Cancelled`), and what the consumer holds it handles or its
channel is lost (`OneAtATime`, `Attempt`, `Held`); so no delivery is stranded,
none is accepted once `stop()` was called (`NoneAfterStop`), and a consumer that
has stopped holds nothing (`CleanWhenStopped`). `Traced` adds that a message is
in one place (`OneHolder`), and a delivery is accepted and answered once
(`OnePlace`), so that every step is one of `Delivery` or a stutter. No bound on
disruptions or failing handlers is used.

`IngestionDeliveryProofs`. `IndInv`: a worker past normalization holds a job
whose file can be parsed, one that reports a failure holds one that cannot
(`StageInv`), and an ingestion has a plan exactly when it is completed
(`OutcomeInv`). Each step does nothing to an ingestion or one of the two
outcomes (`Outcome`), which gives the refinement; the end of a handler
acknowledges nothing but its own message (`HandlerEndsEffect`), which gives
`Acked`. Assumptions: `JobsAssumption`, and `NamesAssumption`, by which a worker
is none of the places a message can be.

`RecordsProofs`, with its invariants in `RecordsInvariants`. `IInv` is what every transaction may rely on while others run
between its statements, for any set of transactions and calls. `Base`: no two transactions hold
conflicting locks (`Exclusive`), a locked row is there and a taken name is free
(`HeldThere`), a row locked for writing at repeatable read is as it was seen
(`HeldAsSeen`), and nothing is of a transaction that has not ended (`Fresh`). `Plans`: the locks held and still to take
are the ones the call and its snapshot ask for, kind by kind of call. `References`:
permissions have their role, assigned roles their user. `Chained`,
`SeenAssigned` and `Marked` relate a snapshot of an asset to the rows of now: as
long as the audit columns of the asset are what was seen, so are its fields and
values, but for a deleted definition, and within the snapshot a value is of an
assigned field. So of a detachment and a new value, each of which locks the
asset's row in the end, the second is refused as outdated. `CustomWhole` and
`WholeTable` say that the rows of one owner carry one mark. Nothing weaker is
inductive: that a stored value stays assigned needs to know who may delete the
assignment, which needs that the locks of a cascade cover all rows its snapshot
had. The steps are sorted by what they do (`StepKinds`: give up, lock, move on,
commit), and each conjunct is kept by each kind, so that the some thirty calls
are looked at once each. Assumption: `WorldsAreConsistent`.

The end of `RecordsProofs` has two invariants on top of `IInv`. `FInv` is about
findings: no row has or refers to an id that a transaction may still generate
(`Unborn`), findings have their columns (`Shaped`), a locked finding or
vulnerability is there (`Standing`), each call claims what it will write, and what
an edit has read of its findings is still there, but for the catalog
(`FindingPlan`). From both follow that events chain, for edits of findings at read committed as for changes
of assets at repeatable read (`OutcomesStayChained`), and that every commit that
changes a part of a finding or asset changes its mark (`ChangesStayTouched`).
`Ordered` is the order of the locks. Each lock has a stage at which a call waits
for it (`WaitStage`) and one which a call that holds it has passed (`HoldStage`),
from the order of the statements: keys before assets, the names of a user before
its roles and the name of a role after it, vulnerabilities after
findings that are shared, findings that are touched last; findings of one stage by
their ids. `Orderly` says that every call outside the exceptions takes its locks
at later stages than those it holds, that permissions are only given to a
role that the call creates, so that nobody waits for them, and
that a call touches a finding only after it has shared it, so that it waits for
no one who merely shares it. A call that waits for another then waits at an
earlier stage than that one does (`Ascends`), and among the finitely many that are
under way one waits last (`Ascent`, `NoCircle`). Assumptions: `WorldsAreConsistent`
and `FindingsAreNumbered`; the number of transactions is not bounded.

`MatchingProofs`. The matching is made of functions of a report, so most of these
lemmas are about operators. Two devices stand in for induction over data. What
fails for some number fails for a least one (`LeastOne`): a fold, a sorted list or
a first-fit grouping is then looked at where it goes wrong first. And a recursive
function exists because the longest part of its domain on which it can be solved
is all of it (`RecursionEnds`, with `Descends` and `Solves` for what the recursion
asks of its argument).

*Order of moved code.* File order sorts (`InOrderIsSorted`); the anchors are a
chain, positions that rise on both sides (`WalkIsChain`), and the pairs added
between two of them keep it one (`AlignedIsChain`). `PairingKeepsOrder` states
it for the two lists of locations: of two pairs of one pairing, the one whose
result is further down has the finding that is not further up. In a report the
candidates of one bucket are paired at once; two candidates with the same mates
are paired by the same of them (`MatesShareABucket`), so both pairs are of one
pairing (`PlacedInOrder`), and what recording does to the findings leaves their
place as it was. That the anchors are as many as they can be, as the
comment of `alignShifted` says, is `AnchorsAreLongest`: no chain of pairs of
equal shape has more.

*No twins.* A candidate becomes new only if no finding fits it; the index through
which the code looks for one is complete (`SharingIsListed`), the grouping of new
candidates puts those with one identity into one class (`GroupsByFirst`), joining
classes into groups splits none of them (`FoldIsWhole`), so no two groups are
seeded with one identity (`SeedsDiffer`), and what an import merges into a finding
leaves its identity as it was (`FingerprintsApart`).

The inductive invariant is `WellFormed`: the findings and the report keep the
shape `ItemsAssumption` gives them. Without it a line need not be a number, and a
least candidate of a group need not exist. The size of reports, the number of
findings, of identifiers and of imports are not bounded.

Only model-checked: all liveness properties (`EveryJobSettles`, `StopDrains`,
`UsableAgain`, `CloseResolves`, `EndsInTime`, `SubscribesAgain`, `EveryJobDone`,
`ActivationSettles`, `StopResolves`, `EveryIngestionEnds`), which are out of the
prover's reach together with `ENABLED`; and `NeverReassigned` of `Matching`: it
compares the decisions of two imports case by case, and it depends on what
reports look like, of which only the worlds of the run, and no assumption, say
that fingerprints come with all results or none. Whether it holds of all such
reports, chains of compatible identities among them, is open. Every other property of a passing run is stated by a
theorem. Stated or proved without being in a configuration: the type invariants,
`AttemptsMatchState`, `DeletedWasSettled`, `PublishedSticks` and
`OnlyExecutionRevives` of `JobOutbox`,
`AcceptedIsCurrent` and `StoppedIsClean` of `JobConsumer`, `ClosedIsClean` of
`JobProducer` (which `CloseResolves` implies).

## 7. Not modelled

* **Scanner normalizers and SARIF reading** translate formats without state; a
  model would be the translation again. Their effect on matching is the shape of
  the reports in `MCMatching`.
* **Asset matching** (`identifier-matcher.ts`) decides on each candidate alone,
  on one read of the inventory; it has no state and no order, and example-based
  tests reach its cases. `IngestionDelivery` gives each candidate its asset.
* **Authentication and sessions**: single statements, one per request. Of
  sessions, `RoleRecords` has their deletion with a change of a user or role.
* **Event bus**: a list of listeners in one process whose only listener is the
  audit log; nothing waits for it. `once()` removes its listener when it is
  invoked, so overlapping emits may call it twice (`eventbus.ts:158`), but
  no code outside the tests registers one.
* **HTTP routes, CSRF, error mapping, statistics**: validation, response mapping
  and read-only counts. **User interface**: no state other components depend on.
* **Migrations**: one-time scripts; the constraints they leave are part of the
  modules. **Broker provisioning**: declarations, whose effect is what the models
  assume of the broker.

Hazards listed in `PROJECT.json` without a property: a put that is carried out
after its cleanup (`import-sources.ts:170`), which the code cannot prevent and
`docs/import-sources.md` says so; ordinary requests whose client has left
(`lifecycle.ts:94`); two ingestions that create the same finding because
decisions reserve nothing (`identity-matcher.ts:134`), which `CONTEXT.md`
allows; a role deleted while it is being assigned (`roles.ts:309`) and a lost
update of a profile (`users.ts:258`), about which no document promises anything
and which leave the state consistent.

Not covered and not listed: an outcome write that errors and commits still later
than its error (`relay.ts:131`, an assumption of `JobOutbox`); a source deleted
between an upload and its submission (`ingestions.ts:180`), which
`IngestionDelivery` starts from as a source that cannot be read.

Of the modelled components, log output, error texts, timestamps beyond null, due
and later, and payloads are left out. Most of the repository by lines is not of
the kind a model can say more about than the code does: the user interface,
normalizers, routes and schemas, and the evaluation scenarios of the matchers.
