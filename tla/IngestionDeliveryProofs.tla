----------------------- MODULE IngestionDeliveryProofs -----------------------
(***************************************************************************)
(* Safety of the processing of ingestions for any number of ingestions,    *)
(* jobs, workers, faults and edits.                                        *)
(***************************************************************************)
EXTENDS IngestionDelivery, TLAPS

Stages == {"reading", "matchingAssets", "matchingFindings", "recording", "failing"}

\* A worker is idle exactly when it has no job.
DeliveryInv ==
  /\ message \in [Messages -> [at : {"queue", "acked", "dead"} \cup Workers,
                               failed : Nat]]
  /\ task \in [Workers -> Messages \cup {Idle}]
  /\ pc \in [Workers -> {"idle"} \cup Stages]
  /\ \A w \in Workers : task[w] = Idle <=> pc[w] = "idle"

\* The pipeline has split parsable from unparsable files.
StageInv ==
  \A w \in Workers :
    /\ pc[w] = "failing" => Job(w) \in Unparsable
    /\ pc[w] \in {"matchingAssets", "matchingFindings", "recording"} =>
         Job(w) \notin Unparsable

\* A plan is written together with the outcome "completed" and never else.
OutcomeInv ==
  /\ status \in [Ingestions -> {"pending", "completed", "failed"}]
  /\ plans = [i \in Ingestions |-> IF status[i] = "completed" THEN 1 ELSE 0]
  /\ OnlyParsingFails

IndInv == DeliveryInv /\ StageInv /\ OutcomeInv /\ AckedIsSettled

-----------------------------------------------------------------------------
\* What the database does to an ingestion in one step: nothing, or one of the
\* two outcomes of Settlement, which depends on its file.
Outcome ==
  \/ UNCHANGED <<status, plans>>
  \/ \E i \in Ingestions \ Unparsable : ImplementsSettlement!Complete(i)
  \/ \E i \in Unparsable : ImplementsSettlement!Fail(i)

\* No other worker is disturbed.
OthersUnchanged(w) ==
  \A v \in Workers \ {w} : task'[v] = task[v] /\ pc'[v] = pc[v]

\* A worker at an await has a message, whose ingestion is one of the system.
LEMMA BusyHasJob ==
  ASSUME DeliveryInv, NEW w \in Workers, pc[w] # "idle"
  PROVE  task[w] \in Messages /\ Job(w) \in Ingestions
BY JobsAssumption DEF DeliveryInv, Job

\* What the broker does with a delivery that was not acknowledged.
LEMMA ReturnedType ==
  ASSUME DeliveryInv, NEW m \in Messages
  PROVE  /\ Returned(m) \in [at : {"queue", "dead"}, failed : Nat]
BY DEF DeliveryInv, Returned

\* The end of a handler frees its worker, and acknowledges nothing but its own
\* message, and that only when it ended well.
LEMMA HandlerEndsEffect ==
  ASSUME DeliveryInv, NEW w \in Workers, pc[w] # "idle", NEW ok \in BOOLEAN,
         HandlerEnds(w, ok)
  PROVE  /\ DeliveryInv'
         /\ OthersUnchanged(w)
         /\ pc'[w] = "idle"
         /\ \A m \in Messages :
              message'[m].at = "acked" =>
                message[m].at = "acked" \/ (ok /\ m = task[w])
<1>1. task[w] \in Messages
  BY BusyHasJob
<1>2. Returned(task[w]) \in [at : {"queue", "dead"}, failed : Nat]
  BY <1>1, ReturnedType
<1>3. /\ task' = [task EXCEPT ![w] = Idle]
      /\ pc' = [pc EXCEPT ![w] = "idle"]
  BY DEF HandlerEnds, Reset
<1>4. \/ message' = message
      \/ ok /\ message' = [message EXCEPT ![task[w]] = [@ EXCEPT !.at = "acked"]]
      \/ message' = [message EXCEPT ![task[w]] = Returned(task[w])]
  BY DEF HandlerEnds
<1>5. /\ message' \in [Messages -> [at : {"queue", "acked", "dead"} \cup Workers,
                                    failed : Nat]]
      /\ \A m \in Messages :
           message'[m].at = "acked" =>
             message[m].at = "acked" \/ (ok /\ m = task[w])
  BY <1>1, <1>2, <1>4 DEF DeliveryInv
<1>6. /\ task' \in [Workers -> Messages \cup {Idle}]
      /\ pc' \in [Workers -> {"idle"} \cup Stages]
      /\ \A v \in Workers : task'[v] = Idle <=> pc'[v] = "idle"
      /\ OthersUnchanged(w)
      /\ pc'[w] = "idle"
  BY <1>3 DEF DeliveryInv, OthersUnchanged
<1> QED
  BY <1>5, <1>6 DEF DeliveryInv

\* An outcome agrees with the file, is final, and comes with its plan.
LEMMA OutcomeStep ==
  ASSUME OutcomeInv, Outcome
  PROVE  /\ OutcomeInv'
         /\ \A i \in Ingestions : status[i] # "pending" => status'[i] = status[i]
<1>1. CASE UNCHANGED <<status, plans>>
  BY <1>1 DEF OutcomeInv, OnlyParsingFails
<1>2. ASSUME NEW i \in Ingestions \ Unparsable, ImplementsSettlement!Complete(i)
      PROVE  /\ OutcomeInv'
             /\ \A j \in Ingestions : status[j] # "pending" => status'[j] = status[j]
  BY <1>2 DEF OutcomeInv, OnlyParsingFails, ImplementsSettlement!Complete
<1>3. ASSUME NEW i \in Unparsable, ImplementsSettlement!Fail(i)
      PROVE  /\ OutcomeInv'
             /\ \A j \in Ingestions : status[j] # "pending" => status'[j] = status[j]
  BY <1>3, JobsAssumption DEF OutcomeInv, OnlyParsingFails,
     ImplementsSettlement!Fail
<1> QED
  BY <1>1, <1>2, <1>3 DEF Outcome

\* A worker whose handler ends, while the database does what may be done to an
\* ingestion, keeps the invariant, if what it acknowledges is settled.
LEMMA EndKeepsInv ==
  ASSUME IndInv, NEW w \in Workers, pc[w] # "idle", NEW ok \in BOOLEAN,
         HandlerEnds(w, ok), Outcome, ok => status'[Job(w)] # "pending"
  PROVE  IndInv'
<1>1. DeliveryInv /\ StageInv /\ OutcomeInv /\ AckedIsSettled
  BY DEF IndInv
<1>2. /\ DeliveryInv'
      /\ OthersUnchanged(w)
      /\ pc'[w] = "idle"
      /\ \A m \in Messages :
           message'[m].at = "acked" =>
             message[m].at = "acked" \/ (ok /\ m = task[w])
  BY <1>1, HandlerEndsEffect
<1>3. /\ OutcomeInv'
      /\ \A i \in Ingestions : status[i] # "pending" => status'[i] = status[i]
  BY <1>1, OutcomeStep
<1>4. StageInv'
  BY <1>1, <1>2 DEF StageInv, OthersUnchanged, Job
<1>5. AckedIsSettled'
  BY <1>1, <1>2, <1>3, JobsAssumption DEF AckedIsSettled, OutcomeInv, Job
<1> QED
  BY <1>2, <1>3, <1>4, <1>5 DEF IndInv

\* A worker that moves to a later await, with no message sent back.
LEMMA MoveKeepsInv ==
  ASSUME IndInv, NEW w \in Workers, pc[w] # "idle", NEW stage \in Stages,
         pc' = [pc EXCEPT ![w] = stage],
         UNCHANGED <<message, task, status, plans>>,
         stage = "failing" => Job(w) \in Unparsable,
         stage \in {"matchingAssets", "matchingFindings", "recording"} =>
           Job(w) \notin Unparsable
  PROVE  IndInv'
<1>1. DeliveryInv'
  BY DEF IndInv, DeliveryInv, Stages
<1>2. StageInv'
  BY DEF IndInv, DeliveryInv, StageInv, Job
<1>3. OutcomeInv' /\ AckedIsSettled'
  BY DEF IndInv, OutcomeInv, OnlyParsingFails, AckedIsSettled
<1> QED
  BY <1>1, <1>2, <1>3 DEF IndInv

\* A step that leaves the jobs, the stages and the outcomes alone.
LEMMA IdleKeepsInv ==
  ASSUME IndInv, UNCHANGED <<message, task, pc, status, plans>>
  PROVE  IndInv'
BY DEF IndInv, DeliveryInv, StageInv, OutcomeInv, OnlyParsingFails,
   AckedIsSettled, Job

-----------------------------------------------------------------------------
\* The transactions do to an ingestion what Settlement allows.
LEMMA WritePlanEffect ==
  ASSUME IndInv, NEW i \in Ingestions \ Unparsable, Recordable(i), NEW p, WritePlan(i, p)
  PROVE  ImplementsSettlement!Complete(i) /\ status'[i] = "completed"
BY DEF IndInv, OutcomeInv, Recordable, WritePlan, ImplementsSettlement!Complete

LEMMA WriteFailureEffect ==
  ASSUME IndInv, NEW i \in Unparsable, WriteFailure(i)
  PROVE  /\ Outcome
         /\ status'[i] # "pending"
<1> i \in Ingestions
  BY JobsAssumption
<1>1. CASE Recordable(i)
  BY <1>1 DEF IndInv, OutcomeInv, WriteFailure, Recordable, Outcome,
     ImplementsSettlement!Fail
<1>2. CASE ~Recordable(i)
  BY <1>2 DEF IndInv, OutcomeInv, WriteFailure, Recordable, Outcome
<1> QED
  BY <1>1, <1>2

\* Every step keeps the invariant and does what Settlement allows.
LEMMA Steps ==
  ASSUME IndInv, [Next]_vars
  PROVE  IndInv' /\ Outcome
<1> USE DEF IndInv
<1>1. CASE UNCHANGED vars
  BY <1>1, IdleKeepsInv DEF vars, dataVars, workerVars, Outcome
<1>2. ASSUME NEW w \in Workers, NEW m \in Messages, Take(w, m)
      PROVE  IndInv' /\ Outcome
  <2>1. UNCHANGED <<status, plans>>
    BY <1>2 DEF Take, dataVars
  <2>2. DeliveryInv'
    BY <1>2, JobsAssumption DEF Take, DeliveryInv, Stages
  <2>3. StageInv'
    BY <1>2 DEF Take, DeliveryInv, StageInv, Job
  <2>4. AckedIsSettled'
    BY <1>2, <2>1, NamesAssumption DEF Take, DeliveryInv, AckedIsSettled
  <2> QED
    BY <2>1, <2>2, <2>3, <2>4 DEF OutcomeInv, OnlyParsingFails, Outcome
<1>3. ASSUME NEW w \in Workers, Read(w) PROVE IndInv' /\ Outcome
  <2>1. Outcome /\ status' = status /\ pc[w] # "idle" /\ UNCHANGED <<status, plans>>
    BY <1>3 DEF Read, dataVars, Outcome
  <2>2. CASE status[Job(w)] # "pending"
    BY <1>3, <2>1, <2>2, EndKeepsInv DEF Read
  <2>3. CASE status[Job(w)] = "pending"
    <3> DEFINE stage == IF Job(w) \in Unparsable THEN "failing" ELSE "matchingAssets"
    <3>1. pc' = [pc EXCEPT ![w] = stage] /\ UNCHANGED <<message, task>>
      BY <1>3, <2>3 DEF Read
    <3> QED
      BY <2>1, <3>1, MoveKeepsInv DEF Stages
  <2> QED
    BY <2>1, <2>2, <2>3
<1>4. ASSUME NEW w \in Workers, MatchAssets(w) PROVE IndInv' /\ Outcome
  <2>1. UNCHANGED <<message, task, status, plans>> /\ pc[w] = "matchingAssets"
    BY <1>4 DEF MatchAssets, dataVars
  <2>2. pc' = [pc EXCEPT ![w] = "matchingFindings"] /\ Job(w) \notin Unparsable
    BY <1>4 DEF MatchAssets, StageInv
  <2> QED
    BY <2>1, <2>2, MoveKeepsInv DEF Stages, Outcome
<1>5. ASSUME NEW w \in Workers, MatchFindings(w) PROVE IndInv' /\ Outcome
  BY <1>5, IdleKeepsInv DEF MatchFindings, dataVars, Outcome
<1>6. ASSUME NEW w \in Workers, Matched(w) PROVE IndInv' /\ Outcome
  <2>1. UNCHANGED <<message, task, status, plans>> /\ pc[w] = "matchingFindings"
    BY <1>6 DEF Matched, dataVars
  <2>2. pc' = [pc EXCEPT ![w] = "recording"] /\ Job(w) \notin Unparsable
    BY <1>6 DEF Matched, StageInv
  <2> QED
    BY <2>1, <2>2, MoveKeepsInv DEF Stages, Outcome
<1>7. ASSUME NEW w \in Workers, Record(w) PROVE IndInv' /\ Outcome
  <2>1. HandlerEnds(w, TRUE) /\ pc[w] # "idle"
    BY <1>7 DEF Record
  <2>2. Job(w) \in Ingestions \ Unparsable
    BY <1>7, <2>1, BusyHasJob DEF Record, StageInv
  <2>3. Outcome /\ status'[Job(w)] # "pending"
    <3>1. CASE ~Recordable(Job(w)) /\ UNCHANGED dataVars
      BY <3>1 DEF Recordable, dataVars, Outcome
    <3>2. CASE Recordable(Job(w)) /\ WritePlan(Job(w), plan[w])
      BY <2>2, <3>2, WritePlanEffect DEF Outcome
    <3> QED
      BY <1>7, <3>1, <3>2 DEF Record
  <2> QED
    BY <2>1, <2>3, EndKeepsInv
<1>8. ASSUME NEW w \in Workers, RecordErrs(w) PROVE IndInv' /\ Outcome
  <2>1. HandlerEnds(w, FALSE) /\ pc[w] # "idle"
    BY <1>8 DEF RecordErrs
  <2>2. Job(w) \in Ingestions \ Unparsable
    BY <1>8, <2>1, BusyHasJob DEF RecordErrs, StageInv
  <2>3. Outcome
    <3>1. CASE UNCHANGED dataVars
      BY <3>1 DEF dataVars, Outcome
    <3>2. CASE Recordable(Job(w)) /\ WritePlan(Job(w), plan[w])
      BY <2>2, <3>2, WritePlanEffect DEF Outcome
    <3> QED
      BY <1>8, <3>1, <3>2 DEF RecordErrs
  <2> QED
    BY <2>1, <2>3, EndKeepsInv
<1>9. ASSUME NEW w \in Workers, Fail(w) PROVE IndInv' /\ Outcome
  <2>1. Job(w) \in Unparsable /\ pc[w] # "idle"
    BY <1>9 DEF Fail, StageInv
  <2>2. Outcome /\ status'[Job(w)] # "pending"
    BY <1>9, <2>1, WriteFailureEffect DEF Fail
  <2> QED
    BY <1>9, <2>1, <2>2, EndKeepsInv DEF Fail
<1>10. ASSUME NEW w \in Workers, FailErrs(w) PROVE IndInv' /\ Outcome
  <2>1. Job(w) \in Unparsable /\ pc[w] # "idle"
    BY <1>10 DEF FailErrs, StageInv
  <2>2. Outcome
    BY <1>10, <2>1, WriteFailureEffect DEF FailErrs, Outcome, dataVars
  <2> QED
    BY <1>10, <2>1, <2>2, EndKeepsInv DEF FailErrs
<1>11. ASSUME NEW w \in Workers,
              SourceMissing(w) \/ RecordStale(w) \/ CallErrs(w) \/ Crash(w)
       PROVE  IndInv' /\ Outcome
  <2>1. HandlerEnds(w, FALSE) /\ UNCHANGED dataVars
    BY <1>11 DEF SourceMissing, RecordStale, CallErrs, Crash
  <2>2. pc[w] # "idle"
    BY <1>11 DEF SourceMissing, RecordStale, CallErrs, Crash, DeliveryInv
  <2>3. Outcome
    BY <2>1 DEF dataVars, Outcome
  <2> QED
    BY <2>1, <2>2, <2>3, EndKeepsInv
<1>12. ASSUME NEW w \in Workers, ChannelLost(w) PROVE IndInv' /\ Outcome
  <2>1. UNCHANGED <<status, plans, task, pc>>
    BY <1>12 DEF ChannelLost, dataVars, workerVars
  <2>2. task[w] \in Messages
    BY <1>12 DEF ChannelLost, DeliveryInv
  <2>3. /\ Returned(task[w]) \in [at : {"queue", "dead"}, failed : Nat]
        /\ message' = [message EXCEPT ![task[w]] = Returned(task[w])]
    BY <1>12, <2>2, ReturnedType DEF ChannelLost
  <2>4. DeliveryInv' /\ AckedIsSettled'
    BY <2>1, <2>2, <2>3 DEF DeliveryInv, AckedIsSettled
  <2> QED
    BY <2>1, <2>4 DEF StageInv, Job, OutcomeInv, OnlyParsingFails, Outcome
<1>13. CASE Users
  BY <1>13, IdleKeepsInv DEF Users, UpdateFinding, DeleteFinding, DeleteAsset,
     DeleteSource, workerVars, Outcome
<1> QED
  BY <1>1, <1>2, <1>3, <1>4, <1>5, <1>6, <1>7, <1>8, <1>9, <1>10, <1>11, <1>12,
     <1>13 DEF Next, Step

-----------------------------------------------------------------------------
LEMMA Initially ==
  ASSUME Init
  PROVE  IndInv /\ ImplementsSettlement!Init
BY JobsAssumption DEF Init, IndInv, DeliveryInv, StageInv, OutcomeInv,
   OnlyParsingFails, AckedIsSettled, ImplementsSettlement!Init

LEMMA Invariance == Spec => []IndInv
<1>1. Init => IndInv
  BY Initially
<1>2. IndInv /\ [Next]_vars => IndInv'
  BY Steps
<1> QED
  BY <1>1, <1>2, PTL DEF Spec

\* However many workers get a job, lose it and get it again, and whatever fails
\* in between: a job that is acknowledged has left its ingestion settled.
THEOREM Acked == Spec => []AckedIsSettled
<1>1. IndInv => AckedIsSettled
  BY DEF IndInv
<1> QED
  BY <1>1, Invariance, PTL

\* No operational error fails an ingestion, and no unparsable file completes one.
THEOREM Parsing == Spec => []OnlyParsingFails
<1>1. IndInv => OnlyParsingFails
  BY DEF IndInv, OutcomeInv
<1> QED
  BY <1>1, Invariance, PTL

\* The processing of ingestions by concurrent workers implements Settlement:
\* one final outcome for each, and one plan, written together with it.
THEOREM Refines == Spec => SettledOnce
<1>1. Init => ImplementsSettlement!Init
  BY Initially
<1>2. IndInv /\ [Next]_vars => [ImplementsSettlement!Next]_(ImplementsSettlement!vars)
  BY Steps, JobsAssumption DEF Outcome, ImplementsSettlement!Next,
     ImplementsSettlement!vars
<1> QED
  BY <1>1, <1>2, Invariance, PTL DEF Spec, SettledOnce, ImplementsSettlement!Spec

=============================================================================
