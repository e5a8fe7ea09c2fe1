----------------------- MODULE ProcessLifecycleProofs -----------------------
(***************************************************************************)
(* Start-up and shutdown for any set of uploads and requests: resources    *)
(* are released only when nothing uses them, and the exit is honest.       *)
(***************************************************************************)
EXTENDS ProcessLifecycle, TLAPS

States == {"none", "open", "held", "closed"}
Progress == {"none", "connected", "disconnected", "done"}
Work == Uploads \cup Requests

USE DEF Running, Fault

-----------------------------------------------------------------------------
(***************************************************************************)
(* Types                                                                   *)
(***************************************************************************)
LEMMA RoleTypes ==
  ASSUME NEW r
  PROVE  Users(r) \subseteq Resources /\ Used(r) \subseteq Resources
BY DEF Users, Used, Resources

LEMMA StateUpdate ==
  ASSUME NEW f \in [Resources -> States], NEW x, NEW s \in States
  PROVE  [f EXCEPT ![x] = s] \in [Resources -> States]
OBVIOUS

LEMMA OpenedType ==
  ASSUME TypeOK, NEW S, Opened(S)
  PROVE  /\ state' \in [Resources -> States]
         /\ \A x \in Resources : state'[x] = IF x \in S THEN "open" ELSE state[x]
BY DEF TypeOK, Opened, States

LEMMA ShutdownType ==
  ASSUME TypeOK, NEW code \in {0, 1}, Shutdown(code)
  PROVE  /\ exitCode' \in {0, 1} /\ stopping' \in BOOLEAN /\ startupTimer' \in BOOLEAN
         /\ shutdownTimer' \in BOOLEAN /\ drain' \in {drain, "starting"}
         /\ code = 1 \/ exitCode = 1 => exitCode' = 1
         /\ drain' # drain => ~stopping
         /\ UNCHANGED <<ready, exit>>
<1>1. exitCode \in {0, 1} /\ stopping \in BOOLEAN /\ drain' \in {drain, "starting"}
  BY DEF TypeOK, Shutdown
<1>2. exitCode' \in {0, 1} /\ (code = 1 \/ exitCode = 1 => exitCode' = 1)
  BY <1>1 DEF Shutdown
<1> QED
  BY <1>1, <1>2 DEF Shutdown

LEMMA WorkUpdate ==
  ASSUME NEW f \in [Work -> Progress], NEW w, NEW p \in Progress
  PROVE  [f EXCEPT ![w] = p] \in [Work -> Progress]
OBVIOUS

\* A step that changes nothing but what is listed here.
LEMMA TypeKept ==
  ASSUME TypeOK,
         role' = role /\ failures' \in Nat /\ work' = work /\ busy' = busy,
         stage' \in {"deferred", "initializing", "connecting", "activating", "binding", "ended"},
         {ready', stopping', startupTimer', shutdownTimer'} \subseteq BOOLEAN,
         exitCode' \in {0, 1},
         drain' \in {"none", "starting", "draining", "stuck"},
         state' \in [Resources -> States],
         drained' \subseteq Resources /\ broken' \subseteq Resources,
         awaited' \subseteq Uploads,
         exit' \in {"no", "completed", "forced"}
  PROVE  TypeOK'
BY DEF TypeOK, States

LEMMA TypeInit == Init => TypeOK
<1> SUFFICES ASSUME Init PROVE TypeOK
  OBVIOUS
<1>1. /\ state \in [Resources -> {"none", "open", "held", "closed"}]
      /\ work \in [Uploads \cup Requests -> {"none", "connected", "disconnected", "done"}]
  BY DEF Init
<1>2. {ready, stopping, startupTimer, shutdownTimer, busy} \subseteq BOOLEAN
  BY DEF Init
<1> QED
  BY <1>1, <1>2 DEF Init, TypeOK

Starts == Begin \/ Initialized \/ Connected \/ Activated \/ Bound

LEMMA StartsType ==
  ASSUME TypeOK, Starts
  PROVE  /\ state' \in [Resources -> States]
         /\ stage' \in {"initializing", "connecting", "activating", "binding", "ended"}
         /\ {ready', startupTimer'} \subseteq BOOLEAN
         /\ UNCHANGED <<role, stopping, exitCode, shutdownTimer, exit, drainVars, workVars, failures>>
<1>0. state \in [Resources -> States]
  BY DEF TypeOK, States
<1>1. CASE Begin
  BY <1>0, <1>1, OpenedType DEF Begin, StartupEnds, lifeVars, TypeOK
<1>2. CASE Initialized
  BY <1>2, OpenedType DEF Initialized, lifeVars, TypeOK
<1>3. CASE Connected
  <2>1. state' \in [Resources -> States]
    <3>1. CASE ~stopping
      BY <1>3, <3>1, OpenedType DEF Connected
    <3>2. CASE stopping
      BY <1>0, <1>3, <3>2, StateUpdate DEF Connected, States
    <3> QED
      BY <3>1, <3>2
  <2> QED
    BY <1>3, <2>1 DEF Connected, lifeVars, TypeOK
<1>4. CASE Activated
  <2>1. CASE stopping
    BY <1>0, <1>4, <2>1 DEF Activated, StartupEnds, lifeVars, TypeOK
  <2>2. CASE ~stopping /\ role = "api"
    BY <1>4, <2>2, OpenedType DEF Activated, lifeVars, TypeOK
  <2>3. CASE ~stopping /\ role = "worker"
    BY <1>0, <1>4, <2>3 DEF Activated, Report, TypeOK
  <2> QED
    BY <2>1, <2>2, <2>3 DEF TypeOK
<1>5. CASE Bound
  BY <1>0, <1>5 DEF Bound, StartupEnds, Report, lifeVars, TypeOK
<1> QED
  BY <1>1, <1>2, <1>3, <1>4, <1>5 DEF Starts

LEMMA StageFailsType ==
  ASSUME TypeOK, StageFails
  PROVE  /\ state' \in [Resources -> States]
         /\ \A x \in Resources : state'[x] # state[x] => state'[x] = "open" /\ x \in AcquiredFirst
         /\ stage # "ended" /\ stage' = "ended" /\ Shutdown(1)
         /\ UNCHANGED <<role, drained, broken, awaited, workVars>>
<1>1. PICK S \in {{}, IF stopping THEN {} ELSE AcquiredFirst} : Opened(S)
  BY DEF StageFails
<1> QED
  BY <1>1, OpenedType DEF StageFails

LEMMA TypeStep == TypeOK /\ [Next]_vars => TypeOK'
<1> SUFFICES ASSUME TypeOK, [Next]_vars PROVE TypeOK'
  OBVIOUS
<1>0. /\ state \in [Resources -> States] /\ work \in [Work -> Progress]
      /\ failures + 1 \in Nat
  BY DEF TypeOK, States, Work, Progress
<1>a. /\ {ready, stopping, startupTimer, shutdownTimer} \subseteq BOOLEAN
      /\ exitCode \in {0, 1} /\ failures \in Nat
  BY DEF TypeOK
<1>1. CASE Signal \/ StartupTimeout \/ HttpFails \/ LifetimeEnds
  <2>1. Shutdown(0) \/ Shutdown(1)
    BY <1>1 DEF Signal, StartupTimeout, HttpFails, LifetimeEnds
  <2>2. /\ UNCHANGED <<role, stage, drained, broken, awaited, state, workVars>>
        /\ failures' \in {failures, failures + 1}
    BY <1>1 DEF Signal, StartupTimeout, HttpFails, LifetimeEnds
  <2>3. /\ exitCode' \in {0, 1} /\ stopping' \in BOOLEAN /\ startupTimer' \in BOOLEAN
        /\ shutdownTimer' \in BOOLEAN /\ drain' \in {drain, "starting"}
        /\ UNCHANGED <<ready, exit>>
    BY <2>1, ShutdownType
  <2> QED
    BY <1>0, <1>a, <2>2, <2>3 DEF TypeOK, workVars, States
<1>2. CASE Starts
  BY <1>2, StartsType DEF TypeOK, drainVars, workVars, States
<1>3. CASE StageFails
  <2>1. /\ exitCode' \in {0, 1} /\ stopping' \in BOOLEAN /\ startupTimer' \in BOOLEAN
        /\ shutdownTimer' \in BOOLEAN /\ drain' \in {drain, "starting"}
        /\ UNCHANGED <<ready, exit>>
    BY <1>3, StageFailsType, ShutdownType
  <2>2. failures' = failures + 1
    BY <1>3 DEF StageFails
  <2> QED
    BY <1>0, <1>3, <2>1, <2>2, StageFailsType DEF TypeOK, workVars, States
<1>4. CASE DrainBegins
  BY <1>4 DEF DrainBegins, TypeOK, lifeVars, workVars
<1>5. ASSUME NEW x \in Users(role), DrainEnds(x) \/ DrainFails(x)
      PROVE  TypeOK'
  <2>1. CASE DrainEnds(x)
    <3>1. state' \in [Resources -> States]
      BY <1>0, <2>1, StateUpdate DEF DrainEnds, States
    <3> QED
      BY <2>1, <3>1, RoleTypes DEF DrainEnds, TypeOK, lifeVars, workVars, States
  <2>2. CASE DrainFails(x)
    BY <1>0, <2>2, RoleTypes DEF DrainFails, TypeOK, workVars
  <2> QED
    BY <1>5, <2>1, <2>2
<1>6. ASSUME NEW x \in Used(role), Release(x) \/ ReleaseFails(x)
      PROVE  TypeOK'
  <2>1. CASE Release(x)
    <3>1. state' \in [Resources -> States]
      BY <1>0, <2>1, StateUpdate DEF Release, States
    <3> QED
      BY <2>1, <3>1, RoleTypes DEF Release, ReleaseOf, TypeOK, lifeVars, workVars, States
  <2>2. CASE ReleaseFails(x)
    BY <1>0, <2>2, RoleTypes DEF ReleaseFails, ReleaseOf, TypeOK, workVars
  <2> QED
    BY <1>6, <2>1, <2>2
<1>7. CASE Completed \/ Deadline
  BY <1>7 DEF Completed, Deadline, Finish, TypeOK, drainVars, workVars
<1>8. ASSUME NEW w, Arrives(w) \/ Settles(w) \/ Disconnects(w)
      PROVE  TypeOK'
  <2>1. work' \in [Work -> Progress]
    BY <1>0, <1>8, WorkUpdate DEF Arrives, Settles, Disconnects, Progress
  <2> QED
    BY <1>8, <2>1 DEF Arrives, Settles, Disconnects, TypeOK, lifeVars, drainVars, Work, Progress
<1>9. CASE TakesUp \/ IsDone
  BY <1>9 DEF TakesUp, IsDone, TypeOK, lifeVars, drainVars
<1>10. CASE UNCHANGED vars
  BY <1>10 DEF TypeOK, vars, lifeVars, drainVars, workVars
<1> QED
  BY <1>1, <1>2, <1>3, <1>4, <1>5, <1>6, <1>7, <1>8, <1>9, <1>10 DEF Next, Starts

\* Every variable of the two processes keeps its type.
THEOREM LifecycleTypes == Spec => []TypeOK
BY TypeInit, TypeStep, PTL DEF Spec

-----------------------------------------------------------------------------
(***************************************************************************)
(* Where start-up and drain are                                            *)
(***************************************************************************)
\* Each process has resources of its own only, and its start-up opens them in order.
Acquired ==
  /\ role = "worker" => \A x \in {"http", "uploads", "relay", "producer"} : state[x] = "none"
  /\ role = "api" => state["consumer"] = "none"
  /\ role = "api" /\ stage \in {"connecting", "activating", "binding"} => state["uploads"] # "none"
  /\ state["uploads"] = "none" => state["http"] = "none"

\* The drain comes after the start-up, and the release after the drain.
DrainFollows ==
  /\ Draining => stage = "ended"
  /\ stage # "ended" => drain \in {"none", "starting"}
  /\ drained # {} \/ broken # {} => Draining
  /\ Used(role) \cap drained # {} => Users(role) \subseteq drained
  /\ drained \subseteq Users(role) \cup Used(role)
  /\ role = "worker" /\ "consumer" \in broken => drain = "stuck" /\ "consumer" \notin drained
  /\ drain # "none" => stopping

\* What has drained without a failure is closed.
DrainedIsClosed == \A x \in drained \ broken : state[x] \in {"none", "closed"}

Order == Acquired /\ DrainFollows /\ DrainedIsClosed

LEMMA OrderInit == Init => Order
BY DEF Init, Order, Acquired, DrainFollows, DrainedIsClosed, Draining, Resources

LEMMA OrderKept ==
  ASSUME Order, UNCHANGED <<role, stage, drain, drained, broken, state>>,
         stopping' \in {stopping, TRUE}
  PROVE  Order'
BY DEF Order, Acquired, DrainFollows, DrainedIsClosed, Draining

\* A start-up that goes on, or fails, changes nothing of a drain.
LEMMA OpeningOrder ==
  ASSUME TypeOK, Order, stage # "ended", UNCHANGED <<role, drained, broken>>,
         drain' \in {drain, "starting"}, drain' # drain => stopping', stopping' \in {stopping, TRUE},
         Acquired'
  PROVE  Order'
<1>1. drained = {} /\ broken = {} /\ drain \in {"none", "starting"}
  BY DEF Order, DrainFollows, Draining
<1> QED
  BY <1>1 DEF Order, DrainFollows, DrainedIsClosed, Draining, TypeOK

LEMMA StartsOrder ==
  ASSUME TypeOK, Order, Starts
  PROVE  Order'
<1>0. state \in [Resources -> States] /\ role \in {"api", "worker"}
  BY DEF TypeOK, States
<1>1. stage # "ended"
  BY DEF Starts, Begin, Initialized, Connected, Activated, Bound
<1>2. UNCHANGED <<role, stopping, drain, drained, broken>>
  BY StartsType DEF drainVars
<1>3. CASE Begin
  <2>1. \A x \in Resources \ {"database", "storage"} : state'[x] = state[x]
    BY <1>3, OpenedType DEF Begin, StartupEnds
  <2>2. stage' \in {"ended", "initializing"}
    BY <1>3 DEF Begin, StartupEnds
  <2>3. Acquired'
    BY <1>2, <2>1, <2>2 DEF Order, Acquired, Resources
  <2> QED
    BY <1>1, <1>2, <2>3, OpeningOrder
<1>4. CASE Initialized
  <2>1. \A x \in Resources : state'[x] = IF x \in (IF role = "api" THEN {"uploads"}
                               ELSE IF stopping THEN {} ELSE {"storage"}) THEN "open" ELSE state[x]
    BY <1>4, OpenedType DEF Initialized
  <2>2. Acquired'
    BY <1>0, <1>2, <2>1 DEF Order, Acquired, Resources
  <2> QED
    BY <1>1, <1>2, <2>2, OpeningOrder
<1>5. CASE Connected
  <2>1. \A x \in Resources \ (IF role = "api" THEN {"producer", "relay"} ELSE {"consumer"}) :
          state'[x] = state[x]
    BY <1>0, <1>5, OpenedType DEF Connected
  <2>2. stage' \in {"ended", "activating"} /\ stage = "connecting"
    BY <1>5 DEF Connected
  <2>3. Acquired'
    BY <1>0, <1>2, <2>1, <2>2 DEF Order, Acquired, Resources
  <2> QED
    BY <1>1, <1>2, <2>3, OpeningOrder
<1>6. CASE Activated
  <2>1. CASE ~stopping /\ role = "api"
    <3>1. \A x \in Resources \ {"http"} : state'[x] = state[x]
      BY <1>6, <2>1, OpenedType DEF Activated
    <3>2. stage' = "binding" /\ stage = "activating"
      BY <1>6, <2>1 DEF Activated
    <3>3. Acquired'
      BY <1>2, <2>1, <3>1, <3>2 DEF Order, Acquired, Resources
    <3> QED
      BY <1>1, <1>2, <3>3, OpeningOrder
  <2>2. CASE ~(~stopping /\ role = "api")
    <3>1. state' = state /\ stage' = "ended"
      BY <1>0, <1>6, <2>2 DEF Activated, StartupEnds
    <3>2. Acquired'
      BY <1>2, <3>1 DEF Order, Acquired
    <3> QED
      BY <1>1, <1>2, <3>2, OpeningOrder
  <2> QED
    BY <2>1, <2>2
<1>7. CASE Bound
  <2>1. state' = state /\ stage' = "ended"
    BY <1>7 DEF Bound, StartupEnds
  <2>2. Acquired'
    BY <1>2, <2>1 DEF Order, Acquired
  <2> QED
    BY <1>1, <1>2, <2>2, OpeningOrder
<1> QED
  BY <1>3, <1>4, <1>5, <1>6, <1>7 DEF Starts

LEMMA OrderStep == TypeOK /\ Order /\ [Next]_vars => Order'
<1> SUFFICES ASSUME TypeOK, Order, [Next]_vars PROVE Order'
  OBVIOUS
<1>0. state \in [Resources -> States] /\ role \in {"api", "worker"} /\ drained \subseteq Resources
      /\ broken \subseteq Resources /\ stopping \in BOOLEAN
  BY DEF TypeOK, States
<1>1. CASE Signal \/ StartupTimeout \/ HttpFails \/ LifetimeEnds
  <2>1. /\ drain' = IF stopping THEN drain ELSE "starting"
        /\ stopping' = TRUE
        /\ UNCHANGED <<role, stage, drained, broken, state>>
    BY <1>1 DEF Signal, StartupTimeout, HttpFails, LifetimeEnds, Shutdown
  <2>2. ~stopping => drain = "none" /\ drained = {} /\ broken = {}
    BY DEF Order, DrainFollows, Draining
  <2> QED
    BY <1>0, <2>1, <2>2 DEF Order, Acquired, DrainFollows, DrainedIsClosed, Draining
<1>2. CASE Starts
  BY <1>2, StartsOrder
<1>3. CASE StageFails
  <2>1. /\ state' \in [Resources -> States]
        /\ \A x \in Resources : state'[x] # state[x] => state'[x] = "open" /\ x \in AcquiredFirst
        /\ stage # "ended" /\ stage' = "ended" /\ stopping' = TRUE
        /\ drain' \in {drain, "starting"}
        /\ UNCHANGED <<role, drained, broken>>
    BY <1>3, StageFailsType DEF Shutdown
  <2>2. /\ AcquiredFirst \subseteq {"database", "storage", "producer", "consumer"}
        /\ "producer" \in AcquiredFirst => role = "api"
        /\ "consumer" \in AcquiredFirst => role = "worker"
    BY DEF AcquiredFirst
  <2>3. Acquired'
    BY <2>1, <2>2 DEF Order, Acquired, Resources
  <2> QED
    BY <2>1, <2>3, OpeningOrder
<1>4. CASE DrainBegins
  BY <1>4 DEF DrainBegins, lifeVars, Order, Acquired, DrainFollows, DrainedIsClosed, Draining
<1>5. ASSUME NEW x \in Users(role), DrainEnds(x)
      PROVE  Order'
  <2>1. /\ drain = "draining" /\ x \notin drained /\ drained' = drained \cup {x}
        /\ UNCHANGED <<role, stage, stopping, drain, broken>>
    BY <1>5 DEF DrainEnds, lifeVars
  <2>2. \A y \in Resources : state'[y] = IF y = x /\ state[x] # "none" THEN "closed" ELSE state[y]
    BY <1>0, <1>5, RoleTypes DEF DrainEnds
  <2>3. Acquired'
    BY <2>1, <2>2 DEF Order, Acquired, Resources
  <2>4. DrainedIsClosed'
    BY <1>0, <2>1, <2>2, RoleTypes DEF Order, DrainedIsClosed
  <2>5. Used(role) \cap Users(role) = {}
    BY DEF Used, Users
  <2>6. DrainFollows'
    BY <2>1, <2>5 DEF Order, DrainFollows, Draining
  <2> QED
    BY <2>3, <2>4, <2>6 DEF Order
<1>6. ASSUME NEW x \in Users(role), DrainFails(x)
      PROVE  Order'
  <2>1. /\ drain = "draining" /\ x \notin drained /\ broken' = broken \cup {x}
        /\ IF role = "api" THEN drained' = drained \cup {x} /\ drain' = drain
                           ELSE drain' = "stuck" /\ drained' = drained
        /\ UNCHANGED <<role, stage, stopping, state>>
    BY <1>6 DEF DrainFails
  <2>2. Acquired' /\ DrainedIsClosed'
    BY <2>1 DEF Order, Acquired, DrainedIsClosed
  <2>3. Used(role) \cap Users(role) = {}
    BY DEF Used, Users
  <2>4. DrainFollows'
    BY <1>0, <2>1, <2>3 DEF Order, DrainFollows, Draining
  <2> QED
    BY <2>2, <2>4 DEF Order
<1>7. ASSUME NEW x \in Used(role), Release(x) \/ ReleaseFails(x)
      PROVE  Order'
  <2>1. /\ drain = "draining" /\ Users(role) \subseteq drained /\ drained' = drained \cup {x}
        /\ UNCHANGED <<role, stage, stopping, drain>>
    BY <1>7 DEF Release, ReleaseFails, ReleaseOf, lifeVars
  <2>2. \/ broken' = broken /\ \A y \in Resources :
                state'[y] = IF y = x /\ state[x] # "none" THEN "closed" ELSE state[y]
        \/ broken' = broken \cup {x} /\ state' = state
    BY <1>0, <1>7 DEF Release, ReleaseFails, ReleaseOf
  <2>3. x \in {"producer", "database", "storage"} /\ (role = "worker" => x # "producer")
    BY DEF Used
  <2>4. Acquired'
    BY <2>1, <2>2, <2>3 DEF Order, Acquired, Resources
  <2>5. DrainedIsClosed'
    BY <1>0, <2>1, <2>2, RoleTypes DEF Order, DrainedIsClosed
  <2>6. DrainFollows'
    BY <2>1, <2>2, <2>3 DEF Order, DrainFollows, Draining
  <2> QED
    BY <2>4, <2>5, <2>6 DEF Order
<1>8. CASE Completed \/ Deadline \/ TakesUp \/ IsDone \/ UNCHANGED vars
  BY <1>8, OrderKept DEF Completed, Deadline, Finish, TakesUp, IsDone, vars, lifeVars, drainVars
<1>9. ASSUME NEW w, Arrives(w) \/ Settles(w) \/ Disconnects(w)
      PROVE  Order'
  BY <1>9, OrderKept DEF Arrives, Settles, Disconnects, lifeVars, drainVars
<1> QED
  BY <1>1, <1>2, <1>3, <1>4, <1>5, <1>6, <1>7, <1>8, <1>9 DEF Next, Starts

-----------------------------------------------------------------------------
(***************************************************************************)
(* What is released is unused                                              *)
(***************************************************************************)
Loop == IF role = "api" THEN "relay" ELSE "consumer"

\* Work needs a server, and a loop that is busy its relay or consumer.
WorkIsServed ==
  /\ state["http"] = "none" => \A w \in Work : work[w] = "none"
  /\ state[Loop] = "none" => ~busy

\* The uploads under way during a drain are those it waits for.
UploadsAwaited == Draining => \A u \in Uploads : work[u] \in Active => u \in awaited

\* What has drained without a failure does nothing any more.
DrainedIsQuiet ==
  /\ "http" \in drained \ broken => \A w \in Work : work[w] # "connected"
  /\ "uploads" \in drained \ broken => \A u \in Uploads : work[u] \notin Active
  /\ Loop \in drained \ broken => ~busy

Quiet == WorkIsServed /\ UploadsAwaited /\ DrainedIsQuiet

LEMMA QuietInit == Init => Quiet
BY DEF Init, Quiet, WorkIsServed, UploadsAwaited, DrainedIsQuiet, Draining, Work

\* Resources are opened, or closed after use, but none vanishes.
LEMMA QuietKept ==
  ASSUME Quiet, UNCHANGED <<role, work, busy>>, drained' \ broken' \subseteq drained \ broken,
         \/ Draining => UNCHANGED awaited
         \/ ~Draining,
         Draining' => Draining,
         \A x \in Resources : state'[x] = "none" => state[x] = "none"
  PROVE  Quiet'
<1>1. "http" \in Resources /\ Loop \in Resources /\ Loop' = Loop
  BY DEF Resources, Loop
<1>2. WorkIsServed'
  BY <1>1 DEF Quiet, WorkIsServed
<1>3. UploadsAwaited'
  BY DEF Quiet, UploadsAwaited
<1>4. DrainedIsQuiet'
  BY <1>1 DEF Quiet, DrainedIsQuiet
<1> QED
  BY <1>2, <1>3, <1>4 DEF Quiet

LEMMA StartsKeep ==
  ASSUME TypeOK, Starts
  PROVE  \A x \in Resources : state'[x] = "none" => state[x] = "none"
<1>0. state \in [Resources -> States]
  BY DEF TypeOK, States
<1>1. state' = state \/ (\E S : Opened(S)) \/ (\E x : state' = [state EXCEPT ![x] = "open"])
      \/ (\E x : state' = [state EXCEPT ![x] = "held"])
  BY DEF Starts, Begin, Initialized, Connected, Activated, Bound, StartupEnds, TypeOK
<1>2. CASE \E S : Opened(S)
  BY <1>2, OpenedType
<1> QED
  BY <1>0, <1>1, <1>2

LEMMA QuietStep == TypeOK /\ Order /\ Quiet /\ [Next]_vars => Quiet'
<1> SUFFICES ASSUME TypeOK, Order, Quiet, [Next]_vars PROVE Quiet'
  OBVIOUS
<1>0. /\ state \in [Resources -> States] /\ role \in {"api", "worker"} /\ awaited \subseteq Uploads
      /\ work \in [Work -> Progress] /\ busy \in BOOLEAN
  BY DEF TypeOK, States, Work, Progress
<1>1. CASE Signal \/ StartupTimeout \/ HttpFails \/ LifetimeEnds
  BY <1>1, QuietKept DEF Signal, StartupTimeout, HttpFails, LifetimeEnds, Shutdown, Draining,
     workVars
<1>2. CASE Starts
  BY <1>2, QuietKept, StartsKeep, StartsType DEF drainVars, workVars, Draining
<1>3. CASE StageFails
  <2>1. \A x \in Resources : state'[x] = "none" => state[x] = "none"
    BY <1>3, StageFailsType
  <2>2. Draining' => Draining
    BY <1>3 DEF StageFails, Shutdown, Draining
  <2> QED
    BY <1>3, <2>1, <2>2, QuietKept, StageFailsType DEF workVars
<1>4. CASE DrainBegins
  <2>1. drained = {}
    BY <1>4 DEF DrainBegins, Order, DrainFollows, Draining
  <2>2. /\ awaited' = {u \in Uploads : work[u] \in Active}
        /\ UNCHANGED <<role, drained, broken, state, work, busy>>
    BY <1>4 DEF DrainBegins, workVars
  <2> QED
    BY <2>1, <2>2 DEF Quiet, WorkIsServed, UploadsAwaited, DrainedIsQuiet, Loop
<1>5. ASSUME NEW x \in Users(role), DrainEnds(x)
      PROVE  Quiet'
  <2>1. /\ Draining /\ Stopped(x) /\ drained' = drained \cup {x}
        /\ UNCHANGED <<role, drain, broken, awaited, work, busy>>
    BY <1>5 DEF DrainEnds, lifeVars, workVars, Draining
  <2>2. \A y \in Resources : state'[y] = "none" => state[y] = "none"
    BY <1>0, <1>5 DEF DrainEnds
  <2>3. WorkIsServed'
    BY <2>1, <2>2 DEF Quiet, WorkIsServed, Loop, Resources
  <2>4. UploadsAwaited'
    BY <2>1 DEF Quiet, UploadsAwaited, Draining
  <2>5. CASE x = "http"
    <3>1. \A w \in Work : work[w] # "connected"
      BY <2>1, <2>5 DEF Stopped, Quiet, WorkIsServed, Work
    <3> QED
      BY <2>1, <2>3, <2>4, <2>5, <3>1 DEF Quiet, DrainedIsQuiet, Loop
  <2>6. CASE x = "uploads"
    <3>1. \A u \in Uploads : work[u] \notin Active
      <4>1. CASE state["uploads"] = "none"
        BY <4>1 DEF Order, Acquired, Quiet, WorkIsServed, Work, Active
      <4>2. CASE state["uploads"] # "none"
        BY <2>1, <2>6, <4>2 DEF Stopped, Quiet, UploadsAwaited
      <4> QED
        BY <4>1, <4>2
    <3> QED
      BY <2>1, <2>3, <2>4, <2>6, <3>1 DEF Quiet, DrainedIsQuiet, Loop
  <2>7. CASE x = Loop
    <3>1. ~busy
      BY <2>1, <2>7 DEF Stopped, Quiet, WorkIsServed, Loop
    <3> QED
      BY <2>1, <2>3, <2>4, <2>7, <3>1 DEF Quiet, DrainedIsQuiet, Loop
  <2> QED
    BY <1>0, <2>5, <2>6, <2>7 DEF Users, Loop
<1>6. ASSUME NEW x \in Users(role), DrainFails(x)
      PROVE  Quiet'
  BY <1>6, QuietKept DEF DrainFails, workVars, Draining
<1>7. ASSUME NEW x \in Used(role), Release(x) \/ ReleaseFails(x)
      PROVE  Quiet'
  <2>1. /\ drained' \subseteq drained \cup {x} /\ broken \subseteq broken'
        /\ UNCHANGED <<role, drain, awaited, work, busy>>
    BY <1>7 DEF Release, ReleaseFails, ReleaseOf, lifeVars, workVars
  <2>2. x \notin {"http", "uploads", "relay", "consumer"}
    BY DEF Used
  <2>3. \A y \in Resources : state'[y] = "none" => state[y] = "none"
    BY <1>0, <1>7 DEF Release, ReleaseFails
  <2>4. WorkIsServed' /\ UploadsAwaited'
    BY <2>1, <2>3 DEF Quiet, WorkIsServed, UploadsAwaited, Draining, Loop, Resources
  <2>5. DrainedIsQuiet'
    BY <2>1, <2>2 DEF Quiet, DrainedIsQuiet, Loop
  <2> QED
    BY <2>4, <2>5 DEF Quiet
<1>8. CASE Completed \/ Deadline \/ UNCHANGED vars
  BY <1>8, QuietKept DEF Completed, Deadline, Finish, vars, lifeVars, drainVars, workVars, Draining
<1>9. ASSUME NEW w \in Work, Arrives(w) \/ Settles(w) \/ Disconnects(w)
      PROVE  Quiet'
  <2>1. /\ UNCHANGED <<role, drain, drained, broken, awaited, state, busy>>
        /\ \A v \in Work : v # w => work'[v] = work[v]
        /\ work'[w] \in {"connected", "disconnected", "done"}
    BY <1>0, <1>9 DEF Arrives, Settles, Disconnects, lifeVars, drainVars, Progress
  <2>2. /\ work'[w] = "connected" =>
             /\ state["http"] = "open"
             /\ Draining => w \notin Uploads /\ \E v \in Work : work[v] = "connected"
        /\ work'[w] # "connected" => work[w] \in Active
    BY <1>0, <1>9, <2>1 DEF Arrives, Settles, Disconnects, Reachable, Admits, Work, Active
  <2>3. drained # {} => Draining
    BY DEF Order, DrainFollows
  <2>4. WorkIsServed'
    BY <2>1, <2>2 DEF Quiet, WorkIsServed, Loop, Active
  <2>5. UploadsAwaited'
    BY <2>1, <2>2 DEF Quiet, UploadsAwaited, Draining, Work, Active
  <2>6. DrainedIsQuiet'
    BY <2>1, <2>2, <2>3 DEF Quiet, DrainedIsQuiet, Loop, Work, Active
  <2> QED
    BY <2>4, <2>5, <2>6 DEF Quiet
<1>10. CASE TakesUp \/ IsDone
  <2>1. drained # {} => Draining
    BY DEF Order, DrainFollows
  <2> QED
    BY <1>10, <2>1 DEF TakesUp, IsDone, lifeVars, drainVars, Quiet, WorkIsServed, UploadsAwaited,
       DrainedIsQuiet, Loop, Draining
<1> QED
  BY <1>1, <1>2, <1>3, <1>4, <1>5, <1>6, <1>7, <1>8, <1>9, <1>10 DEF Next, Starts, Work

\* Whatever fails or hangs while a process starts or stops, nothing uses the
\* producer, the database or the storage once one of them is released.
THEOREM LifecycleReleasesUnused == Spec => []ReleasedIsUnused
<1>1. TypeOK /\ Order /\ Quiet => ReleasedIsUnused
  <2> SUFFICES ASSUME TypeOK, Order, Quiet, Used(role) \cap drained # {}
               PROVE  /\ stage = "ended"
                      /\ "http" \notin broken =>
                           \A w \in Uploads \cup Requests : work[w] # "connected"
                      /\ "uploads" \notin broken => \A u \in Uploads : work[u] \notin Active
                      /\ "relay" \notin broken => ~busy
    BY DEF ReleasedIsUnused
  <2>1. stage = "ended" /\ Users(role) \subseteq drained
    BY DEF Order, DrainFollows
  <2>2. CASE role = "api"
    BY <2>1, <2>2 DEF Users, Quiet, DrainedIsQuiet, Loop, Work
  <2>3. CASE role = "worker"
    <3>1. \A w \in Work : work[w] = "none"
      BY <2>3 DEF Order, Acquired, Quiet, WorkIsServed
    <3>2. ~busy
      BY <2>1, <2>3 DEF Users, Order, DrainFollows, Quiet, DrainedIsQuiet, Loop
    <3> QED
      BY <2>1, <3>1, <3>2 DEF Work, Active
  <2> QED
    BY <2>2, <2>3 DEF TypeOK
<1> QED
  BY <1>1, TypeInit, TypeStep, OrderInit, OrderStep, QuietInit, QuietStep, PTL DEF Spec

-----------------------------------------------------------------------------
(***************************************************************************)
(* The exit is honest                                                      *)
(***************************************************************************)
Truth ==
  /\ exitCode = 0 => broken = {} /\ failures = 0
  /\ exit = "forced" => exitCode = 1
  /\ exit = "completed" => Users(role) \cup Used(role) \subseteq drained

LEMMA TruthStep == TypeOK /\ Truth /\ [Next]_vars => Truth'
<1> SUFFICES ASSUME TypeOK, Truth, [Next]_vars PROVE Truth'
  OBVIOUS
<1>0. exitCode \in {0, 1}
  BY DEF TypeOK
<1>1. CASE Signal \/ StartupTimeout \/ HttpFails \/ LifetimeEnds
  <2>1. /\ exit = "no" /\ exit' = "no" /\ broken' = broken
        /\ exitCode' = 1 \/ (exitCode' = exitCode /\ failures' = failures)
    BY <1>0, <1>1 DEF Signal, StartupTimeout, HttpFails, LifetimeEnds, Shutdown
  <2> QED
    BY <2>1 DEF Truth
<1>2. CASE Starts
  <2>1. exit = "no"
    BY <1>2 DEF Starts, Begin, Initialized, Connected, Activated, Bound
  <2> QED
    BY <1>2, <2>1, StartsType DEF Truth, drainVars
<1>3. CASE StageFails
  <2>1. exit = "no" /\ exit' = "no" /\ exitCode' = 1
    BY <1>3, ShutdownType, StageFailsType DEF StageFails
  <2> QED
    BY <2>1 DEF Truth
<1>4. CASE DrainBegins \/ TakesUp \/ IsDone \/ UNCHANGED vars
  BY <1>4 DEF DrainBegins, TakesUp, IsDone, vars, lifeVars, drainVars, Truth
<1>5. ASSUME NEW x \in Users(role), DrainEnds(x) \/ DrainFails(x)
      PROVE  Truth'
  BY <1>5 DEF DrainEnds, DrainFails, lifeVars, Truth
<1>6. ASSUME NEW x \in Used(role), Release(x) \/ ReleaseFails(x)
      PROVE  Truth'
  BY <1>6 DEF Release, ReleaseFails, ReleaseOf, lifeVars, Truth
<1>7. CASE Completed \/ Deadline
  BY <1>7 DEF Completed, Deadline, Finish, drainVars, Truth
<1>8. ASSUME NEW w, Arrives(w) \/ Settles(w) \/ Disconnects(w)
      PROVE  Truth'
  BY <1>8 DEF Arrives, Settles, Disconnects, lifeVars, drainVars, Truth
<1> QED
  BY <1>1, <1>2, <1>3, <1>4, <1>5, <1>6, <1>7, <1>8 DEF Next, Starts

\* A process that exits with 0 has closed all it acquired and nothing failed; one
\* that was cut off by its deadline says so.
THEOREM LifecycleExitsHonestly == Spec => []ExitIsHonest
<1>1. TypeOK /\ Order /\ Truth => ExitIsHonest
  <2> SUFFICES ASSUME TypeOK, Order, Truth, exit = "completed", NEW x \in Resources \ broken
               PROVE  state[x] \in {"none", "closed"}
    BY DEF Truth, ExitIsHonest
  <2>1. CASE x \in drained
    BY <2>1 DEF Order, DrainedIsClosed
  <2>2. CASE x \notin drained
    BY <2>2 DEF Truth, Order, Acquired, Users, Used, Resources, TypeOK
  <2> QED
    BY <2>1, <2>2
<1>2. Init => Truth
  BY DEF Init, Truth
<1> QED
  BY <1>1, <1>2, TypeInit, TypeStep, OrderInit, OrderStep, TruthStep, PTL DEF Spec
=============================================================================
