--------------------------- MODULE ProcessLifecycle ---------------------------
(***************************************************************************)
(* Start-up and shutdown of the two processes: runApi of                   *)
(* apps/api/src/lifecycle.ts and runWorker of apps/worker/src/worker.ts,   *)
(* with the uploads that middleware/import-upload.ts tracks.               *)
(*                                                                         *)
(* The code between two awaits is one step; opening a resource that needs  *)
(* no await belongs to the step before.  A call that never answers is one  *)
(* whose step is never taken.  Time is left out: a timer that runs may     *)
(* expire at any moment, or after everything else.                         *)
(*                                                                         *)
(* A definition whose name ends in Slip is the one after it with a mistake;*)
(* the specification does not use it.                                      *)
(***************************************************************************)
EXTENDS Naturals, FiniteSets

CONSTANTS
  Uploads,      \* content uploads that reach the API
  Requests,     \* its ordinary requests, while their client is connected
  MaxFailures   \* bound: failing calls, servers and lifetimes

ASSUME RequestsAssumption == Uploads \cap Requests = {}
ASSUME MaxFailuresAssumption == MaxFailures \in Nat

VARIABLES
  role,          \* which of the two processes this is
  stage,         \* the await of the start-up; "ended": it has returned
  ready,         \* ready was resolved with true
  stopping,      \* shutdown() was called
  exitCode,
  startupTimer,
  shutdownTimer,
  drain,         \* where the asynchronous part of shutdown() is
  state,         \* what became of each resource; "held": a consumer that was
                 \* never started
  drained,       \* what has stopped using the others
  broken,        \* what failed to stop
  work,          \* what became of each upload and request
  awaited,       \* uploads that closeUploads() waits for
  busy,          \* the relay or a job is using the resources
  exit,          \* what the process ended with; "no": it runs
  failures

lifeVars == <<ready, stopping, exitCode, startupTimer, shutdownTimer, exit>>
drainVars == <<drain, drained, broken, awaited>>
workVars == <<work, busy>>
vars == <<role, stage, lifeVars, drainVars, state, workVars, failures>>

\* Those that use the others, and those that are used.
Users(r) == IF r = "api" THEN {"http", "uploads", "relay"} ELSE {"consumer"}
Used(r) == IF r = "api" THEN {"producer", "database", "storage"}
                        ELSE {"storage", "database"}
Resources == {"http", "uploads", "relay", "consumer", "producer", "database", "storage"}
Active == {"connected", "disconnected"}

Init ==
  /\ role \in {"api", "worker"}
  /\ stage = "deferred"
  /\ ready = FALSE
  /\ stopping = FALSE
  /\ exitCode = 0
  /\ startupTimer = TRUE
  /\ shutdownTimer = FALSE
  /\ drain = "none"
  /\ state = [x \in Resources |-> "none"]
  /\ drained = {}
  /\ broken = {}
  /\ work = [w \in Uploads \cup Requests |-> "none"]
  /\ awaited = {}
  /\ busy = FALSE
  /\ exit = "no"
  /\ failures = 0

Opened(S) == state' = [x \in Resources |-> IF x \in S THEN "open" ELSE state[x]]

-----------------------------------------------------------------------------
(***************************************************************************)
(* shutdown() up to its first await, and who calls it.                     *)
(***************************************************************************)
ShutdownSlip(code) ==
  /\ exitCode' = IF stopping THEN exitCode ELSE code
  /\ stopping' = TRUE
  /\ startupTimer' = FALSE
  /\ shutdownTimer' = TRUE
  /\ drain' = IF stopping THEN drain ELSE "starting"
  /\ UNCHANGED <<ready, exit>>
ShutdownLateSlip(code) ==
  /\ exitCode' = IF code > exitCode THEN code ELSE exitCode
  /\ stopping' = TRUE
  /\ startupTimer' = FALSE
  /\ shutdownTimer' = (shutdownTimer \/ stage = "ended")
  /\ drain' = IF stopping THEN drain ELSE "starting"
  /\ UNCHANGED <<ready, exit>>
Shutdown(code) ==
  /\ exitCode' = IF code > exitCode THEN code ELSE exitCode
  /\ stopping' = TRUE
  /\ startupTimer' = FALSE
  /\ shutdownTimer' = TRUE
  /\ drain' = IF stopping THEN drain ELSE "starting"
  /\ UNCHANGED <<ready, exit>>

Running == exit = "no"

Fault ==
  /\ Running
  /\ failures < MaxFailures
  /\ failures' = failures + 1

Signal ==
  /\ Running
  /\ Shutdown(0)
  /\ UNCHANGED <<role, stage, drained, broken, awaited, state, workVars, failures>>

StartupTimeout ==
  /\ Running
  /\ startupTimer
  /\ Shutdown(1)
  /\ UNCHANGED <<role, stage, drained, broken, awaited, state, workVars, failures>>

\* The error event of the HTTP server.
HttpFails ==
  /\ Fault
  /\ state["http"] = "open"
  /\ Shutdown(1)
  /\ UNCHANGED <<role, stage, drained, broken, awaited, state, workVars>>

\* consumer.start() rejects, or resolves although nobody stopped the consumer.
LifetimeEnds ==
  /\ Fault
  /\ state["consumer"] = "open"
  /\ Shutdown(1)
  /\ UNCHANGED <<role, stage, drained, broken, awaited, state, workVars>>

-----------------------------------------------------------------------------
(***************************************************************************)
(* The start-up.  It waits for                                             *)
(*   deferred      its first step                                          *)
(*   initializing  initializeApplication (API), check (worker)             *)
(*   connecting    openProducer (API), openConsumer (worker)               *)
(*   activating    relay.start() (API), waitForInitialActivation (worker)  *)
(*   binding       http.ready (API)                                        *)
(***************************************************************************)
StartupEnds == stage' = "ended" /\ UNCHANGED <<role, state, lifeVars, drainVars>>

Begin ==
  /\ Running
  /\ stage = "deferred"
  /\ IF stopping
     THEN StartupEnds
     ELSE /\ stage' = "initializing"
          /\ Opened(IF role = "api" THEN {"database", "storage"} ELSE {"database"})
          /\ UNCHANGED <<role, lifeVars, drainVars>>
  /\ UNCHANGED <<workVars, failures>>

\* The application with its upload middleware; the worker opens its storage.
Initialized ==
  /\ Running
  /\ stage = "initializing"
  /\ stage' = IF stopping THEN "ended" ELSE "connecting"
  /\ Opened(IF role = "api" THEN {"uploads"} ELSE IF stopping THEN {} ELSE {"storage"})
  /\ UNCHANGED <<role, lifeVars, drainVars, workVars, failures>>

\* The relay, or the consumer's lifetime, starts; a producer or consumer that
\* arrives after a signal is kept, to be closed.
Connected ==
  /\ Running
  /\ stage = "connecting"
  /\ stage' = IF stopping THEN "ended" ELSE "activating"
  /\ IF stopping
     THEN state' = IF role = "api" THEN [state EXCEPT !["producer"] = "open"]
                                   ELSE [state EXCEPT !["consumer"] = "held"]
     ELSE Opened(IF role = "api" THEN {"producer", "relay"} ELSE {"consumer"})
  /\ UNCHANGED <<role, lifeVars, drainVars, workVars, failures>>

Report == ready' = TRUE /\ startupTimer' = FALSE

\* Both races with shutdownRequested.
Activated ==
  /\ Running
  /\ stage = "activating"
  /\ CASE stopping -> StartupEnds
       [] ~stopping /\ role = "api" ->
            /\ stage' = "binding"
            /\ Opened({"http"})
            /\ UNCHANGED <<role, lifeVars, drainVars>>
       [] ~stopping /\ role = "worker" ->
            /\ stage' = "ended"
            /\ Report
            /\ UNCHANGED <<role, state, stopping, exitCode, shutdownTimer, exit,
                           drainVars>>
  /\ UNCHANGED <<workVars, failures>>

Bound ==
  /\ Running
  /\ stage = "binding"
  /\ IF stopping
     THEN StartupEnds
     ELSE /\ stage' = "ended"
          /\ Report
          /\ UNCHANGED <<role, state, stopping, exitCode, shutdownTimer, exit,
                         drainVars>>
  /\ UNCHANGED <<workVars, failures>>

\* What a step may have acquired before a later call of it throws.
AcquiredFirst ==
  CASE stage = "deferred" /\ role = "api" -> {"database"}
    [] stage = "initializing" /\ role = "worker" -> {"storage"}
    [] stage = "connecting" /\ role = "api" -> {"producer"}
    [] stage = "connecting" /\ role = "worker" -> {"consumer"}
    [] OTHER -> {}

\* A stage throws or rejects; after a signal it no longer acquires anything.
StageFails ==
  /\ Fault
  /\ stage # "ended"
  /\ stage = "deferred" => ~stopping
  /\ stage' = "ended"
  /\ Shutdown(1)
  /\ \E S \in {{}, IF stopping THEN {} ELSE AcquiredFirst} : Opened(S)
  /\ UNCHANGED <<role, drained, broken, awaited, workVars>>

-----------------------------------------------------------------------------
(***************************************************************************)
(* The rest of shutdown().                                                 *)
(***************************************************************************)
\* The start-up has returned: HTTP, uploads and relay, or the consumer, stop.
\* closeUploads() cancels the uploads and waits for those there are.
DrainBegins ==
  /\ Running
  /\ drain = "starting"
  /\ stage = "ended"
  /\ drain' = "draining"
  /\ awaited' = {u \in Uploads : work[u] \in Active}
  /\ UNCHANGED <<role, stage, lifeVars, drained, broken, state, workVars, failures>>

\* When a user of the resources has stopped: the server when its connections
\* are closed, the uploads when those it waits for are settled, the relay and
\* the consumer when what they do is done.
Stopped(x) ==
  CASE state[x] = "none" -> TRUE
    [] x = "http" -> \A w \in Uploads \cup Requests : work[w] # "connected"
    [] x = "uploads" -> \A u \in awaited : work[u] \notin Active
    [] OTHER -> ~busy

DrainEnds(x) ==
  /\ Running
  /\ drain = "draining"
  /\ x \in Users(role) \ drained
  /\ Stopped(x)
  /\ drained' = drained \cup {x}
  /\ state' = IF state[x] = "none" THEN state ELSE [state EXCEPT ![x] = "closed"]
  /\ UNCHANGED <<role, stage, lifeVars, drain, broken, awaited, workVars, failures>>

\* The API notes a failure and goes on; the worker waits for its deadline.
DrainFails(x) ==
  /\ Fault
  /\ drain = "draining"
  /\ x \in Users(role) \ drained
  /\ state[x] # "none"
  /\ exitCode' = 1
  /\ broken' = broken \cup {x}
  /\ IF role = "api"
     THEN drained' = drained \cup {x} /\ UNCHANGED drain
     ELSE drain' = "stuck" /\ UNCHANGED drained
  /\ UNCHANGED <<role, stage, ready, stopping, startupTimer, shutdownTimer, exit,
                 awaited, state, workVars>>

\* producer, database and storage in any order; the worker's storage first.
ReleaseOf(x) ==
  /\ Running
  /\ drain = "draining"
  /\ Users(role) \subseteq drained
  /\ x \in Used(role) \ drained
  /\ role = "worker" /\ x = "database" => "storage" \in drained
  /\ drained' = drained \cup {x}

Release(x) ==
  /\ ReleaseOf(x)
  /\ state' = IF state[x] = "none" THEN state ELSE [state EXCEPT ![x] = "closed"]
  /\ UNCHANGED <<role, stage, lifeVars, drain, broken, awaited, workVars, failures>>

ReleaseFails(x) ==
  /\ Fault
  /\ ReleaseOf(x)
  /\ state[x] = "open"
  /\ exitCode' = 1
  /\ broken' = broken \cup {x}
  /\ UNCHANGED <<role, stage, ready, stopping, startupTimer, shutdownTimer, exit,
                 drain, awaited, state, workVars>>

Finish(how) ==
  /\ exit' = how
  /\ startupTimer' = FALSE
  /\ shutdownTimer' = FALSE
  /\ UNCHANGED <<role, stage, ready, stopping, drainVars, state, workVars, failures>>

\* finish(exitCode), and finish(1) of the deadline.
Completed ==
  /\ Running
  /\ drain = "draining"
  /\ Users(role) \cup Used(role) \subseteq drained
  /\ Finish("completed")
  /\ UNCHANGED exitCode

Deadline ==
  /\ Running
  /\ shutdownTimer
  /\ Finish("forced")
  /\ exitCode' = 1

-----------------------------------------------------------------------------
(***************************************************************************)
(* What the processes do meanwhile.                                        *)
(***************************************************************************)
Draining == drain \in {"draining", "stuck"}

\* A connection is new, or one that was open when the server began to close.
Reachable ==
  /\ state["http"] = "open"
  /\ Draining => \E w \in Uploads \cup Requests : work[w] = "connected"

AdmitsSlip(w) == TRUE
\* The upload middleware refuses what comes after closeUploads().
Admits(w) == w \in Uploads => ~Draining

Arrives(w) ==
  /\ Running
  /\ work[w] = "none"
  /\ Reachable
  /\ Admits(w)
  /\ work' = [work EXCEPT ![w] = "connected"]
  /\ UNCHANGED <<role, stage, lifeVars, drainVars, state, busy, failures>>

\* The client of an upload goes away; its transfer is aborted but goes on
\* until it has settled.
Disconnects(u) ==
  /\ Running
  /\ work[u] = "connected"
  /\ work' = [work EXCEPT ![u] = "disconnected"]
  /\ UNCHANGED <<role, stage, lifeVars, drainVars, state, busy, failures>>

Settles(w) ==
  /\ Running
  /\ work[w] \in Active
  /\ work' = [work EXCEPT ![w] = "done"]
  /\ UNCHANGED <<role, stage, lifeVars, drainVars, state, busy, failures>>

\* The relay takes up a job, the consumer a delivery; neither once told to stop.
TakesUp ==
  /\ Running
  /\ ~busy
  /\ ~Draining
  /\ state[IF role = "api" THEN "relay" ELSE "consumer"] = "open"
  /\ busy' = TRUE
  /\ UNCHANGED <<role, stage, lifeVars, drainVars, state, work, failures>>

IsDone ==
  /\ Running
  /\ busy
  /\ busy' = FALSE
  /\ UNCHANGED <<role, stage, lifeVars, drainVars, state, work, failures>>

-----------------------------------------------------------------------------
Next ==
  \/ Signal \/ StartupTimeout \/ HttpFails \/ LifetimeEnds
  \/ Begin \/ Initialized \/ Connected \/ Activated \/ Bound \/ StageFails
  \/ DrainBegins
  \/ \E x \in Users(role) : DrainEnds(x) \/ DrainFails(x)
  \/ \E x \in Used(role) : Release(x) \/ ReleaseFails(x)
  \/ Completed \/ Deadline
  \/ \E w \in Uploads \cup Requests : Arrives(w) \/ Settles(w)
  \/ \E u \in Uploads : Disconnects(u)
  \/ TakesUp \/ IsDone

Spec == Init /\ [][Next]_vars

\* The timers expire and the event loop runs; no call needs to answer.
Fairness ==
  /\ WF_vars(StartupTimeout)
  /\ WF_vars(Deadline)

FairSpec == Spec /\ Fairness

-----------------------------------------------------------------------------
(***************************************************************************)
(* Properties.                                                             *)
(***************************************************************************)

\* Every variable has its type.
TypeOK ==
  /\ role \in {"api", "worker"}
  /\ stage \in {"deferred", "initializing", "connecting", "activating", "binding",
                "ended"}
  /\ {ready, stopping, startupTimer, shutdownTimer, busy} \subseteq BOOLEAN
  /\ exitCode \in {0, 1}
  /\ drain \in {"none", "starting", "draining", "stuck"}
  /\ state \in [Resources -> {"none", "open", "held", "closed"}]
  /\ drained \subseteq Resources
  /\ broken \subseteq Resources
  /\ work \in [Uploads \cup Requests -> {"none", "connected", "disconnected", "done"}]
  /\ awaited \subseteq Uploads
  /\ exit \in {"no", "completed", "forced"}
  /\ failures \in Nat

\* Producer, database and storage are released only when nothing uses them any
\* more: not the start-up, which may still acquire them, no request, no upload,
\* be its client gone, not the relay and no job.  Only a failed drain of the API
\* excuses it; the worker keeps them until its deadline (docs/deployment.md).
ReleasedIsUnused ==
  Running /\ (\E x \in Used(role) : x \in drained) =>
    /\ stage = "ended"
    /\ "http" \notin broken => \A w \in Uploads \cup Requests : work[w] # "connected"
    /\ "uploads" \notin broken => \A u \in Uploads : work[u] \notin Active
    /\ "relay" \notin broken => ~busy

\* The exit tells the truth: a shutdown that completed has closed all that was
\* acquired, and only one in which nothing failed exits with 0.
ExitIsHonest ==
  /\ exit = "completed" =>
       /\ \A x \in Resources \ broken : state[x] \in {"none", "closed"}
       /\ exitCode = 0 => broken = {} /\ failures = 0
  /\ exit = "forced" => exitCode = 1

\* Whatever hangs, a process is ready or exits, and one that was told to stop
\* exits: both deadlines run on their own.
EndsInTime == <>(ready \/ ~Running) /\ [](stopping => <>~Running)

=============================================================================
