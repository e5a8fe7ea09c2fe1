--------------------------- MODULE JobOutboxProofs ---------------------------
(***************************************************************************)
(* Safety of the outbox for every set of jobs, every maximumAttempts and   *)
(* any number of crashes, disconnections and database errors.              *)
(***************************************************************************)
EXTENDS JobOutbox, TLAPS

(***************************************************************************)
(* What the row operations return.                                         *)
(***************************************************************************)

\* JobService.create inserts a row.
LEMMA NewRowType == NewRow \in Row
BY DEF NewRow, Row

\* Every conditional update of postgres.ts turns a row into a row.
LEMMA RowUpdates ==
  ASSUME NEW row \in Row
  PROVE  /\ AfterRunning(row) \in Row
         /\ AfterRetry(row) \in Row
         /\ AfterSuccess(row) \in Row
         /\ AfterFailure(row) \in Row
<1>1. row.publicationAttempts + 1 \in Nat
  BY DEF Row
<1>2. AfterRunning(row) \in Row
  BY DEF Row, AfterRunning
<1>3. AfterRetry(row) \in Row
  BY DEF Row, AfterRetry
<1>4. AfterSuccess(row) \in Row
  BY <1>1 DEF Row, AfterSuccess
<1>5. AfterFailure(row) \in Row
  <2>1. CASE row.publicationState = "published"
    BY <1>1, <2>1 DEF Row, AfterFailure
  <2>2. CASE row.publicationState # "published"
    <3>1. /\ (IF Exhausted(row) THEN "failed" ELSE "pending")
               \in {"pending", "published", "failed", "abandoned"}
          /\ (IF Exhausted(row) THEN "null" ELSE "later") \in {"null", "due", "later"}
      OBVIOUS
    <3> QED
      BY <1>1, <2>2, <3>1, ZenonT(60) DEF Row, AfterFailure, AfterPendingFailure
  <2> QED
    BY <2>1, <2>2
<1> QED
  BY <1>2, <1>3, <1>4, <1>5

\* The single-column updates of JobService turn a row into a row.
LEMMA FieldUpdates ==
  ASSUME NEW row \in Row
  PROVE  /\ [row EXCEPT !.life = "deleted"] \in Row
         /\ [row EXCEPT !.nextPublicationAttemptAt = "due"] \in Row
         /\ [row EXCEPT !.executionState = "succeeded"] \in Row
         /\ [row EXCEPT !.executionState = "failed"] \in Row
         /\ [row EXCEPT !.publicationState = "abandoned", !.abandonedAt = "set"] \in Row
BY ZenonT(60) DEF Row

\* What a recorded success leaves of the row.
LEMMA SuccessFields ==
  ASSUME NEW row \in Row
  PROVE  /\ AfterSuccess(row).life = row.life
         /\ AfterSuccess(row).publicationState = "published"
         /\ AfterSuccess(row).publicationAttempts = row.publicationAttempts + 1
         /\ AfterSuccess(row).executionState = row.executionState
         /\ AfterSuccess(row).abandonedAt = row.abandonedAt
BY DEF AfterSuccess, Row

\* What a recorded failure leaves of the row: published stays published, and
\* pending becomes failed exactly when its last attempt is spent.
LEMMA FailureFields ==
  ASSUME NEW row \in Row
  PROVE  /\ AfterFailure(row).life = row.life
         /\ row.publicationState = "published" =>
              AfterFailure(row).publicationState = "published"
         /\ row.publicationState # "published" =>
              AfterFailure(row).publicationState =
                IF Exhausted(row) THEN "failed" ELSE "pending"
         /\ AfterFailure(row).publicationAttempts = row.publicationAttempts + 1
         /\ AfterFailure(row).executionState = row.executionState
         /\ AfterFailure(row).abandonedAt = row.abandonedAt
<1>1. CASE row.publicationState = "published"
  BY <1>1 DEF AfterFailure, Row
<1>2. CASE row.publicationState # "published"
  BY <1>2 DEF AfterFailure, AfterPendingFailure, Row
<1> QED
  BY <1>1, <1>2

\* Recording an outcome changes at most the row of the job the relay holds,
\* and only while the counter is the one the relay read.
LEMMA RecordOutcomeEffect ==
  ASSUME job \in [Jobs -> Row], target \in Jobs, RecordOutcome
  PROVE  /\ job' \in [Jobs -> Row]
         /\ \A j \in Jobs : j # target => job'[j] = job[j]
         /\ \/ job'[target] = job[target]
            \/ /\ outcome = "success"
               /\ SuccessApplies(job[target])
               /\ job'[target] = AfterSuccess(job[target])
            \/ /\ outcome = "failure"
               /\ FailureApplies(job[target])
               /\ job'[target] = AfterFailure(job[target])
<1>1. CASE outcome = "success" /\ RecordPublicationSuccess
  BY <1>1, RowUpdates DEF RecordPublicationSuccess
<1>2. CASE outcome = "failure" /\ RecordPublicationFailure
  BY <1>2, RowUpdates DEF RecordPublicationFailure
<1> QED
  BY <1>1, <1>2 DEF RecordOutcome

-----------------------------------------------------------------------------
\* Every step keeps the types.
LEMMA TypeStep == TypeOK /\ [Next]_vars => TypeOK'
<1> SUFFICES ASSUME TypeOK, [Next]_vars PROVE TypeOK'
  OBVIOUS
<1> USE DEF TypeOK, NoJob
<1>1. ASSUME NEW j \in Jobs, Create(j) PROVE TypeOK'
  BY <1>1, NewRowType DEF Create, relayVars, brokerVars, historyVars
<1>2. ASSUME NEW j \in Jobs, DelayElapses(j) PROVE TypeOK'
  <2>1. job' \in [Jobs -> Row]
    BY <1>2, FieldUpdates DEF DelayElapses
  <2> QED
    BY <1>2, <2>1 DEF DelayElapses, relayVars, brokerVars, historyVars
<1>3. ASSUME NEW j \in Jobs, MarkRunning(j) PROVE TypeOK'
  BY <1>3, RowUpdates DEF MarkRunning, relayVars, brokerVars, historyVars
<1>4. ASSUME NEW j \in Jobs, MarkSucceeded(j) PROVE TypeOK'
  <2>1. job' \in [Jobs -> Row]
    BY <1>4, FieldUpdates DEF MarkSucceeded
  <2> QED
    BY <1>4, <2>1 DEF MarkSucceeded, relayVars, brokerVars, historyVars
<1>5. ASSUME NEW j \in Jobs, MarkFailed(j) PROVE TypeOK'
  <2>1. job' \in [Jobs -> Row]
    BY <1>5, FieldUpdates DEF MarkFailed
  <2> QED
    BY <1>5, <2>1 DEF MarkFailed, relayVars, brokerVars, historyVars
<1>6. ASSUME NEW j \in Jobs, RetryPublication(j) PROVE TypeOK'
  <2>1. job' \in [Jobs -> Row]
    BY <1>6, RowUpdates DEF RetryPublication
  <2>2. rearms' \in [Jobs -> Nat] /\ settled' \in [Jobs -> Nat]
    BY <1>6 DEF RetryPublication
  <2> QED
    BY <1>6, <2>1, <2>2 DEF RetryPublication, relayVars, brokerVars
<1>7. ASSUME NEW j \in Jobs, AbandonPublication(j) PROVE TypeOK'
  <2>1. job' \in [Jobs -> Row]
    BY <1>7, FieldUpdates DEF AbandonPublication
  <2> QED
    BY <1>7, <2>1 DEF AbandonPublication, relayVars, brokerVars, historyVars
<1>8. ASSUME NEW j \in Jobs, DeleteByID(j) PROVE TypeOK'
  <2>1. job' \in [Jobs -> Row]
    BY <1>8, FieldUpdates DEF DeleteByID
  <2> QED
    BY <1>8, <2>1 DEF DeleteByID, relayVars, brokerVars, historyVars
<1>9. ASSUME NEW j \in Jobs, Poll(j) PROVE TypeOK'
  BY <1>9 DEF Poll, brokerVars, historyVars, Row
<1>10. ASSUME NEW j \in Jobs, OrphanTaken(j) PROVE TypeOK'
  BY <1>10 DEF OrphanTaken, relayVars, historyVars
<1>11. ASSUME NEW j \in Jobs, OrphanLost(j) PROVE TypeOK'
  BY <1>11 DEF OrphanLost, relayVars, historyVars
<1>12. CASE Start
  BY <1>12 DEF Start, historyVars
<1>13. CASE Stop
  BY <1>13 DEF Stop, brokerVars
<1>14. CASE LoopEnds
  BY <1>14 DEF LoopEnds, Release, brokerVars, historyVars
<1>15. CASE Crash
  BY <1>15 DEF Crash, Release
<1>16. CASE Publish
  BY <1>16 DEF Publish, brokerVars, historyVars
<1>17. CASE PublishRejected
  BY <1>17 DEF PublishRejected, Settle, Release, brokerVars
<1>18. CASE ConfirmArrives
  BY <1>18 DEF ConfirmArrives, Settle, Release, brokerVars
<1>19. CASE RefusalArrives
  BY <1>19 DEF RefusalArrives, Settle, Release, brokerVars
<1>20. CASE ConnectionLost
  BY <1>20 DEF ConnectionLost, Settle, Release
<1>21. CASE Reconnect
  BY <1>21 DEF Reconnect, relayVars, historyVars
<1>22. CASE WriteOutcome
  BY <1>22, RecordOutcomeEffect
  DEF WriteOutcome, NextIteration, Release, brokerVars, historyVars
<1>23. CASE WriteErrs
  BY <1>23, RecordOutcomeEffect DEF WriteErrs, Release, brokerVars
<1>24. CASE RetryWrite
  BY <1>24 DEF RetryWrite, brokerVars, historyVars
<1>25. CASE BrokerTakes
  BY <1>25 DEF BrokerTakes, historyVars
<1>26. CASE BrokerRefuses
  BY <1>26 DEF BrokerRefuses, brokerVars, historyVars
<1>27. CASE UNCHANGED vars
  BY <1>27 DEF vars, relayVars, brokerVars, historyVars
<1> QED
  BY <1>1, <1>2, <1>3, <1>4, <1>5, <1>6, <1>7, <1>8, <1>9, <1>10, <1>11, <1>12,
     <1>13, <1>14, <1>15, <1>16, <1>17, <1>18, <1>19, <1>20, <1>21, <1>22, <1>23,
     <1>24, <1>25, <1>26, <1>27 DEF Next

\* The variables keep their types, and the loop holds a job wherever its place
\* in relay.ts says it does.
THEOREM TypeCorrect == Spec => []TypeOK
<1>1. Init => TypeOK
  BY DEF Init, TypeOK, NewRow, Row, NoJob
<1> QED
  BY <1>1, TypeStep, PTL DEF Spec

-----------------------------------------------------------------------------
\* Recording an outcome publishes no row the broker has no message of.
LEMMA EvidenceWrite ==
  ASSUME TypeOK, EvidenceInv, pc = "writing", RecordOutcome \/ UNCHANGED job
  PROVE  \A j \in Jobs : job'[j].life = "stored" /\ job'[j].publicationState = "published"
                           => copies[j] > 0
<1> USE DEF TypeOK, EvidenceInv, PublishedWasAccepted, Recording, Stored
<1>1. CASE UNCHANGED job
  BY <1>1
<1>2. CASE RecordOutcome
  <2> TAKE j \in Jobs
  <2> HAVE job'[j].life = "stored" /\ job'[j].publicationState = "published"
  <2>1. CASE job'[j] = job[j]
    BY <2>1
  <2>2. CASE job'[j] # job[j]
    <3>1. j = target /\ target \in Jobs /\ job[target] \in Row
      BY <1>2, <2>2, RecordOutcomeEffect
    <3>2. CASE outcome = "success"
      BY <3>1, <3>2
    <3>3. CASE outcome = "failure" /\ job'[target] = AfterFailure(job[target])
               /\ FailureApplies(job[target])
      <4>1. job[target].publicationState = "published"
        BY <3>1, <3>3, FailureFields
      <4> QED
        BY <3>1, <3>3, <4>1 DEF FailureApplies
    <3> QED
      BY <1>2, <2>2, <3>1, <3>2, <3>3, RecordOutcomeEffect
  <2> QED
    BY <2>1, <2>2
<1> QED
  BY <1>1, <1>2

\* Every step keeps the evidence.
LEMMA EvidenceStep ==
  ASSUME TypeOK, EvidenceInv, [Next]_vars
  PROVE  EvidenceInv'
<1> USE DEF TypeOK, EvidenceInv, PublishedWasAccepted, Recording, Stored, NoJob
<1>1. ASSUME NEW j \in Jobs, Create(j) PROVE EvidenceInv'
  BY <1>1 DEF Create, NewRow, relayVars, brokerVars, historyVars, Row
<1>2. ASSUME NEW j \in Jobs, DelayElapses(j) PROVE EvidenceInv'
  BY <1>2 DEF DelayElapses, relayVars, brokerVars, historyVars, Row
<1>3. ASSUME NEW j \in Jobs, MarkRunning(j) PROVE EvidenceInv'
  BY <1>3
  DEF MarkRunning, Runnable, AfterRunning, relayVars, brokerVars, historyVars, Row
<1>4. ASSUME NEW j \in Jobs, MarkSucceeded(j) PROVE EvidenceInv'
  BY <1>4 DEF MarkSucceeded, relayVars, brokerVars, historyVars, Row
<1>5. ASSUME NEW j \in Jobs, MarkFailed(j) PROVE EvidenceInv'
  BY <1>5 DEF MarkFailed, relayVars, brokerVars, historyVars, Row
<1>6. ASSUME NEW j \in Jobs, RetryPublication(j) PROVE EvidenceInv'
  BY <1>6 DEF RetryPublication, AfterRetry, relayVars, brokerVars, Row
<1>7. ASSUME NEW j \in Jobs, AbandonPublication(j) PROVE EvidenceInv'
  BY <1>7 DEF AbandonPublication, Abandonable, relayVars, brokerVars,
     historyVars, Row
<1>8. ASSUME NEW j \in Jobs, DeleteByID(j) PROVE EvidenceInv'
  BY <1>8 DEF DeleteByID, Deletable, relayVars, brokerVars, historyVars, Row
<1>9. ASSUME NEW j \in Jobs, Poll(j) PROVE EvidenceInv'
  BY <1>9 DEF Poll, GetNextEligiblePublication, Eligible, brokerVars,
     historyVars, Row
<1>10. ASSUME NEW j \in Jobs, OrphanTaken(j) PROVE EvidenceInv'
  BY <1>10 DEF OrphanTaken, relayVars, historyVars, Row
<1>11. ASSUME NEW j \in Jobs, OrphanLost(j) PROVE EvidenceInv'
  BY <1>11 DEF OrphanLost, relayVars, historyVars, Row
<1>12. CASE Start
  BY <1>12 DEF Start, historyVars, Row
<1>13. CASE Stop
  BY <1>13 DEF Stop, brokerVars, Row
<1>14. CASE LoopEnds
  BY <1>14 DEF LoopEnds, Release, Interruptible, brokerVars, historyVars, Row
<1>15. CASE Crash
  BY <1>15 DEF Crash, Release, Row
<1>16. CASE Publish
  BY <1>16 DEF Publish, brokerVars, historyVars, Row
<1>17. CASE PublishRejected
  BY <1>17 DEF PublishRejected, Settle, Release, brokerVars, Row
<1>18. CASE ConfirmArrives
  BY <1>18 DEF ConfirmArrives, Settle, Release, brokerVars, Row
<1>19. CASE RefusalArrives
  BY <1>19 DEF RefusalArrives, Settle, Release, brokerVars, Row
<1>20. CASE ConnectionLost
  BY <1>20 DEF ConnectionLost, Settle, Release, Row
<1>21. CASE Reconnect
  BY <1>21 DEF Reconnect, relayVars, historyVars, Row
<1>22. CASE WriteOutcome
  <2>1. \A j \in Jobs : job'[j].life = "stored" /\ job'[j].publicationState = "published"
                         => copies[j] > 0
    BY <1>22, EvidenceWrite DEF WriteOutcome
  <2> QED
    BY <1>22, <2>1 DEF WriteOutcome, NextIteration, Release, brokerVars, historyVars
<1>23. CASE WriteErrs
  <2>1. \A j \in Jobs : job'[j].life = "stored" /\ job'[j].publicationState = "published"
                         => copies[j] > 0
    BY <1>23, EvidenceWrite DEF WriteErrs
  <2> QED
    BY <1>23, <2>1 DEF WriteErrs, Release, brokerVars
<1>24. CASE RetryWrite
  BY <1>24 DEF RetryWrite, brokerVars, historyVars, Row
<1>25. CASE BrokerTakes
  BY <1>25 DEF BrokerTakes, historyVars, Row
<1>26. CASE BrokerRefuses
  BY <1>26 DEF BrokerRefuses, brokerVars, historyVars, Row
<1>27. CASE UNCHANGED vars
  BY <1>27 DEF vars, relayVars, brokerVars, historyVars, Row
<1> QED
  BY <1>1, <1>2, <1>3, <1>4, <1>5, <1>6, <1>7, <1>8, <1>9, <1>10, <1>11, <1>12,
     <1>13, <1>14, <1>15, <1>16, <1>17, <1>18, <1>19, <1>20, <1>21, <1>22, <1>23, <1>24,
     <1>25, <1>26, <1>27 DEF Next

\* Recording an outcome never takes a published row back.
LEMMA RecordingKeepsStarted ==
  ASSUME TypeOK, StartedIsPublished, pc = "writing",
         RecordOutcome \/ UNCHANGED job
  PROVE  StartedIsPublished'
<1>1. CASE UNCHANGED job
  BY <1>1 DEF StartedIsPublished
<1>2. CASE RecordOutcome
  <2>1. job \in [Jobs -> Row] /\ target \in Jobs
    BY DEF TypeOK, NoJob
  <2>2. SUFFICES ASSUME NEW j \in Jobs, job'[j].executionState # "pending"
                 PROVE  job'[j].publicationState = "published"
    BY DEF StartedIsPublished
  <2>3. /\ job'[j].executionState = job[j].executionState
        /\ job[j].publicationState = "published" =>
             job'[j].publicationState = "published"
    BY <1>2, <2>1, RecordOutcomeEffect, SuccessFields, FailureFields
  <2> QED
    BY <2>2, <2>3 DEF StartedIsPublished
<1> QED
  BY <1>1, <1>2

\* Every step keeps execution behind publication.
LEMMA StartedStep ==
  ASSUME TypeOK, StartedIsPublished, [Next]_vars
  PROVE  StartedIsPublished'
<1> USE DEF TypeOK, StartedIsPublished, Stored, NoJob
<1>1. ASSUME NEW j \in Jobs, Create(j) PROVE StartedIsPublished'
  BY <1>1 DEF Create, NewRow, relayVars, brokerVars, historyVars, Row
<1>2. ASSUME NEW j \in Jobs, DelayElapses(j) PROVE StartedIsPublished'
  BY <1>2 DEF DelayElapses, relayVars, brokerVars, historyVars, Row
<1>3. ASSUME NEW j \in Jobs, MarkRunning(j) PROVE StartedIsPublished'
  BY <1>3
  DEF MarkRunning, Runnable, AfterRunning, relayVars, brokerVars, historyVars, Row
<1>4. ASSUME NEW j \in Jobs, MarkSucceeded(j) PROVE StartedIsPublished'
  BY <1>4 DEF MarkSucceeded, relayVars, brokerVars, historyVars, Row
<1>5. ASSUME NEW j \in Jobs, MarkFailed(j) PROVE StartedIsPublished'
  BY <1>5 DEF MarkFailed, relayVars, brokerVars, historyVars, Row
<1>6. ASSUME NEW j \in Jobs, RetryPublication(j) PROVE StartedIsPublished'
  BY <1>6 DEF RetryPublication, AfterRetry, relayVars, brokerVars, Row
<1>7. ASSUME NEW j \in Jobs, AbandonPublication(j) PROVE StartedIsPublished'
  BY <1>7 DEF AbandonPublication, Abandonable, relayVars, brokerVars,
     historyVars, Row
<1>8. ASSUME NEW j \in Jobs, DeleteByID(j) PROVE StartedIsPublished'
  BY <1>8 DEF DeleteByID, Deletable, relayVars, brokerVars, historyVars, Row
<1>9. ASSUME NEW j \in Jobs, Poll(j) PROVE StartedIsPublished'
  BY <1>9 DEF Poll, GetNextEligiblePublication, Eligible, brokerVars,
     historyVars, Row
<1>10. ASSUME NEW j \in Jobs, OrphanTaken(j) PROVE StartedIsPublished'
  BY <1>10 DEF OrphanTaken, relayVars, historyVars, Row
<1>11. ASSUME NEW j \in Jobs, OrphanLost(j) PROVE StartedIsPublished'
  BY <1>11 DEF OrphanLost, relayVars, historyVars, Row
<1>12. CASE Start
  BY <1>12 DEF Start, historyVars, Row
<1>13. CASE Stop
  BY <1>13 DEF Stop, brokerVars, Row
<1>14. CASE LoopEnds
  BY <1>14 DEF LoopEnds, Release, Interruptible, brokerVars, historyVars, Row
<1>15. CASE Crash
  BY <1>15 DEF Crash, Release, Row
<1>16. CASE Publish
  BY <1>16 DEF Publish, brokerVars, historyVars, Row
<1>17. CASE PublishRejected
  BY <1>17 DEF PublishRejected, Settle, Release, brokerVars, Row
<1>18. CASE ConfirmArrives
  BY <1>18 DEF ConfirmArrives, Settle, Release, brokerVars, Row
<1>19. CASE RefusalArrives
  BY <1>19 DEF RefusalArrives, Settle, Release, brokerVars, Row
<1>20. CASE ConnectionLost
  BY <1>20 DEF ConnectionLost, Settle, Release, Row
<1>21. CASE Reconnect
  BY <1>21 DEF Reconnect, relayVars, historyVars, Row
<1>22. CASE WriteOutcome
  BY <1>22, RecordingKeepsStarted DEF WriteOutcome
<1>23. CASE WriteErrs
  BY <1>23, RecordingKeepsStarted DEF WriteErrs
<1>24. CASE RetryWrite
  BY <1>24 DEF RetryWrite, brokerVars, historyVars, Row
<1>25. CASE BrokerTakes
  BY <1>25 DEF BrokerTakes, historyVars, Row
<1>26. CASE BrokerRefuses
  BY <1>26 DEF BrokerRefuses, brokerVars, historyVars, Row
<1>27. CASE UNCHANGED vars
  BY <1>27 DEF vars, relayVars, brokerVars, historyVars, Row
<1> QED
  BY <1>1, <1>2, <1>3, <1>4, <1>5, <1>6, <1>7, <1>8, <1>9, <1>10, <1>11, <1>12,
     <1>13, <1>14, <1>15, <1>16, <1>17, <1>18, <1>19, <1>20, <1>21, <1>22, <1>23, <1>24,
     <1>25, <1>26, <1>27 DEF Next

\* Every step leaves the job in flight alone, but for its execution.
LEMMA InFlightStep ==
  ASSUME TypeOK, InFlightIsLive, [Next]_vars
  PROVE  InFlightIsLive'
<1> USE DEF TypeOK, InFlightIsLive, Stored, NoJob
<1>1. ASSUME NEW j \in Jobs, Create(j) PROVE InFlightIsLive'
  BY <1>1 DEF Create, NewRow, relayVars, brokerVars, historyVars, Row
<1>2. ASSUME NEW j \in Jobs, DelayElapses(j) PROVE InFlightIsLive'
  BY <1>2 DEF DelayElapses, relayVars, brokerVars, historyVars, Row
<1>3. ASSUME NEW j \in Jobs, MarkRunning(j) PROVE InFlightIsLive'
  BY <1>3
  DEF MarkRunning, Runnable, AfterRunning, relayVars, brokerVars, historyVars, Row
<1>4. ASSUME NEW j \in Jobs, MarkSucceeded(j) PROVE InFlightIsLive'
  BY <1>4 DEF MarkSucceeded, relayVars, brokerVars, historyVars, Row
<1>5. ASSUME NEW j \in Jobs, MarkFailed(j) PROVE InFlightIsLive'
  BY <1>5 DEF MarkFailed, relayVars, brokerVars, historyVars, Row
<1>6. ASSUME NEW j \in Jobs, RetryPublication(j) PROVE InFlightIsLive'
  BY <1>6 DEF RetryPublication, AfterRetry, relayVars, brokerVars, Row
<1>7. ASSUME NEW j \in Jobs, AbandonPublication(j) PROVE InFlightIsLive'
  BY <1>7 DEF AbandonPublication, Abandonable, relayVars, brokerVars,
     historyVars, Row
<1>8. ASSUME NEW j \in Jobs, DeleteByID(j) PROVE InFlightIsLive'
  BY <1>8 DEF DeleteByID, Deletable, relayVars, brokerVars, historyVars, Row
<1>9. ASSUME NEW j \in Jobs, Poll(j) PROVE InFlightIsLive'
  BY <1>9 DEF Poll, GetNextEligiblePublication, Eligible, brokerVars,
     historyVars, Row
<1>10. ASSUME NEW j \in Jobs, OrphanTaken(j) PROVE InFlightIsLive'
  BY <1>10 DEF OrphanTaken, relayVars, historyVars, Row
<1>11. ASSUME NEW j \in Jobs, OrphanLost(j) PROVE InFlightIsLive'
  BY <1>11 DEF OrphanLost, relayVars, historyVars, Row
<1>12. CASE Start
  BY <1>12 DEF Start, historyVars, Row
<1>13. CASE Stop
  BY <1>13 DEF Stop, brokerVars, Row
<1>14. CASE LoopEnds
  BY <1>14 DEF LoopEnds, Release, Interruptible, brokerVars, historyVars, Row
<1>15. CASE Crash
  BY <1>15 DEF Crash, Release, Row
<1>16. CASE Publish
  BY <1>16 DEF Publish, brokerVars, historyVars, Row
<1>17. CASE PublishRejected
  BY <1>17 DEF PublishRejected, Settle, Release, brokerVars, Row
<1>18. CASE ConfirmArrives
  BY <1>18 DEF ConfirmArrives, Settle, Release, brokerVars, Row
<1>19. CASE RefusalArrives
  BY <1>19 DEF RefusalArrives, Settle, Release, brokerVars, Row
<1>20. CASE ConnectionLost
  BY <1>20 DEF ConnectionLost, Settle, Release, Row
<1>21. CASE Reconnect
  BY <1>21 DEF Reconnect, relayVars, historyVars, Row
<1>22. CASE WriteOutcome
  BY <1>22, RecordOutcomeEffect, SuccessFields, FailureFields
  DEF WriteOutcome, NextIteration, Release, brokerVars, historyVars,
      SuccessApplies, FailureApplies, Exhausted, Row
<1>23. CASE WriteErrs
  BY <1>23, RecordOutcomeEffect, SuccessFields, FailureFields
  DEF WriteErrs, Release, brokerVars,
      SuccessApplies, FailureApplies, Exhausted, Row
<1>24. CASE RetryWrite
  BY <1>24 DEF RetryWrite, brokerVars, historyVars, Row
<1>25. CASE BrokerTakes
  BY <1>25 DEF BrokerTakes, historyVars, Row
<1>26. CASE BrokerRefuses
  BY <1>26 DEF BrokerRefuses, brokerVars, historyVars, Row
<1>27. CASE UNCHANGED vars
  BY <1>27 DEF vars, relayVars, brokerVars, historyVars, Row
<1> QED
  BY <1>1, <1>2, <1>3, <1>4, <1>5, <1>6, <1>7, <1>8, <1>9, <1>10, <1>11, <1>12,
     <1>13, <1>14, <1>15, <1>16, <1>17, <1>18, <1>19, <1>20, <1>21, <1>22, <1>23, <1>24,
     <1>25, <1>26, <1>27 DEF Next

\* Every step keeps the row a success is recorded for.
LEMMA SuccessStep ==
  ASSUME TypeOK, InFlightIsLive, SuccessIsLive, [Next]_vars
  PROVE  SuccessIsLive'
<1> USE DEF TypeOK, InFlightIsLive, SuccessIsLive, Recording, Stored, NoJob
<1>1. ASSUME NEW j \in Jobs, Create(j) PROVE SuccessIsLive'
  BY <1>1 DEF Create, NewRow, relayVars, brokerVars, historyVars, Row
<1>2. ASSUME NEW j \in Jobs, DelayElapses(j) PROVE SuccessIsLive'
  BY <1>2 DEF DelayElapses, relayVars, brokerVars, historyVars, Row
<1>3. ASSUME NEW j \in Jobs, MarkRunning(j) PROVE SuccessIsLive'
  BY <1>3
  DEF MarkRunning, Runnable, AfterRunning, relayVars, brokerVars, historyVars, Row
<1>4. ASSUME NEW j \in Jobs, MarkSucceeded(j) PROVE SuccessIsLive'
  BY <1>4 DEF MarkSucceeded, relayVars, brokerVars, historyVars, Row
<1>5. ASSUME NEW j \in Jobs, MarkFailed(j) PROVE SuccessIsLive'
  BY <1>5 DEF MarkFailed, relayVars, brokerVars, historyVars, Row
<1>6. ASSUME NEW j \in Jobs, RetryPublication(j) PROVE SuccessIsLive'
  BY <1>6 DEF RetryPublication, AfterRetry, relayVars, brokerVars, Row
<1>7. ASSUME NEW j \in Jobs, AbandonPublication(j) PROVE SuccessIsLive'
  BY <1>7 DEF AbandonPublication, Abandonable, relayVars, brokerVars,
     historyVars, Row
<1>8. ASSUME NEW j \in Jobs, DeleteByID(j) PROVE SuccessIsLive'
  BY <1>8 DEF DeleteByID, Deletable, relayVars, brokerVars, historyVars, Row
<1>9. ASSUME NEW j \in Jobs, Poll(j) PROVE SuccessIsLive'
  BY <1>9 DEF Poll, GetNextEligiblePublication, Eligible, brokerVars,
     historyVars, Row
<1>10. ASSUME NEW j \in Jobs, OrphanTaken(j) PROVE SuccessIsLive'
  BY <1>10 DEF OrphanTaken, relayVars, historyVars, Row
<1>11. ASSUME NEW j \in Jobs, OrphanLost(j) PROVE SuccessIsLive'
  BY <1>11 DEF OrphanLost, relayVars, historyVars, Row
<1>12. CASE Start
  BY <1>12 DEF Start, historyVars, Row
<1>13. CASE Stop
  BY <1>13 DEF Stop, brokerVars, Row
<1>14. CASE LoopEnds
  BY <1>14 DEF LoopEnds, Release, Interruptible, brokerVars, historyVars, Row
<1>15. CASE Crash
  BY <1>15 DEF Crash, Release, Row
<1>16. CASE Publish
  BY <1>16 DEF Publish, brokerVars, historyVars, Row
<1>17. CASE PublishRejected
  BY <1>17 DEF PublishRejected, Settle, Release, brokerVars, Row
<1>18. CASE ConfirmArrives
  BY <1>18 DEF ConfirmArrives, Settle, Release, brokerVars, Row
<1>19. CASE RefusalArrives
  BY <1>19 DEF RefusalArrives, Settle, Release, brokerVars, Row
<1>20. CASE ConnectionLost
  BY <1>20 DEF ConnectionLost, Settle, Release, Row
<1>21. CASE Reconnect
  BY <1>21 DEF Reconnect, relayVars, historyVars, Row
<1>22. CASE WriteOutcome
  BY <1>22, RecordOutcomeEffect, SuccessFields, FailureFields
  DEF WriteOutcome, NextIteration, Release, brokerVars, historyVars,
      SuccessApplies, FailureApplies, Exhausted, Row
<1>23. CASE WriteErrs
  BY <1>23, RecordOutcomeEffect, SuccessFields, FailureFields
  DEF WriteErrs, Release, brokerVars,
      SuccessApplies, FailureApplies, Exhausted, Row
<1>24. CASE RetryWrite
  BY <1>24 DEF RetryWrite, brokerVars, historyVars, Row
<1>25. CASE BrokerTakes
  BY <1>25 DEF BrokerTakes, historyVars, Row
<1>26. CASE BrokerRefuses
  BY <1>26 DEF BrokerRefuses, brokerVars, historyVars, Row
<1>27. CASE UNCHANGED vars
  BY <1>27 DEF vars, relayVars, brokerVars, historyVars, Row
<1> QED
  BY <1>1, <1>2, <1>3, <1>4, <1>5, <1>6, <1>7, <1>8, <1>9, <1>10, <1>11, <1>12,
     <1>13, <1>14, <1>15, <1>16, <1>17, <1>18, <1>19, <1>20, <1>21, <1>22, <1>23, <1>24,
     <1>25, <1>26, <1>27 DEF Next

CounterAgrees(row) ==
  /\ row.publicationState = "pending" => row.publicationAttempts < MaxAttempts
  /\ row.publicationState \in {"failed", "abandoned"} =>
       row.publicationAttempts = MaxAttempts
  /\ row.publicationAttempts <= MaxAttempts

\* Recording an outcome counts one attempt up to the maximum, where it fails.
LEMMA AttemptsWrite ==
  ASSUME TypeOK, AttemptsInv, pc = "writing", RecordOutcome \/ UNCHANGED job
  PROVE  \A j \in Jobs : job'[j].life = "stored" => CounterAgrees(job'[j])
<1> USE DEF TypeOK, AttemptsInv, AttemptsMatchState, Stored
<1>1. CASE UNCHANGED job
  BY <1>1 DEF CounterAgrees
<1>2. CASE RecordOutcome
  <2> TAKE j \in Jobs
  <2> HAVE job'[j].life = "stored"
  <2>1. CASE job'[j] = job[j]
    BY <2>1 DEF CounterAgrees
  <2>2. CASE job'[j] # job[j]
    <3>1. /\ j = target
          /\ target \in Jobs
          /\ job[target] \in Row
          /\ job[target].publicationAttempts \in Nat
      BY <1>2, <2>2, RecordOutcomeEffect DEF Row
    <3>2. expected < MaxAttempts /\ expected \in Nat /\ MaxAttempts \in Nat
      BY MaxAttemptsAssumption
    <3>3. CASE SuccessApplies(job[target]) /\ job'[target] = AfterSuccess(job[target])
      BY <3>1, <3>2, <3>3, SuccessFields DEF SuccessApplies, CounterAgrees
    <3>4. CASE FailureApplies(job[target]) /\ job'[target] = AfterFailure(job[target])
      BY <3>1, <3>2, <3>4, FailureFields DEF FailureApplies, Exhausted,
         CounterAgrees
    <3> QED
      BY <1>2, <2>2, <3>1, <3>3, <3>4, RecordOutcomeEffect
  <2> QED
    BY <2>1, <2>2
<1> QED
  BY <1>1, <1>2

\* Every step keeps counter and state in agreement.
LEMMA AttemptsStep ==
  ASSUME TypeOK, AttemptsInv, [Next]_vars
  PROVE  AttemptsInv'
<1> USE DEF TypeOK, AttemptsInv, AttemptsMatchState, Stored, NoJob
<1>1. ASSUME NEW j \in Jobs, Create(j) PROVE AttemptsInv'
  BY <1>1, MaxAttemptsAssumption
  DEF Create, NewRow, relayVars, brokerVars, historyVars, Row
<1>2. ASSUME NEW j \in Jobs, DelayElapses(j) PROVE AttemptsInv'
  BY <1>2 DEF DelayElapses, relayVars, brokerVars, historyVars, Row
<1>3. ASSUME NEW j \in Jobs, MarkRunning(j) PROVE AttemptsInv'
  BY <1>3
  DEF MarkRunning, Runnable, AfterRunning, relayVars, brokerVars, historyVars, Row
<1>4. ASSUME NEW j \in Jobs, MarkSucceeded(j) PROVE AttemptsInv'
  BY <1>4 DEF MarkSucceeded, relayVars, brokerVars, historyVars, Row
<1>5. ASSUME NEW j \in Jobs, MarkFailed(j) PROVE AttemptsInv'
  BY <1>5 DEF MarkFailed, relayVars, brokerVars, historyVars, Row
<1>6. ASSUME NEW j \in Jobs, RetryPublication(j) PROVE AttemptsInv'
  BY <1>6, MaxAttemptsAssumption
  DEF RetryPublication, AfterRetry, relayVars, brokerVars, Row
<1>7. ASSUME NEW j \in Jobs, AbandonPublication(j) PROVE AttemptsInv'
  BY <1>7 DEF AbandonPublication, Abandonable, relayVars, brokerVars,
     historyVars, Row
<1>8. ASSUME NEW j \in Jobs, DeleteByID(j) PROVE AttemptsInv'
  BY <1>8 DEF DeleteByID, Deletable, relayVars, brokerVars, historyVars, Row
<1>9. ASSUME NEW j \in Jobs, Poll(j) PROVE AttemptsInv'
  BY <1>9 DEF Poll, GetNextEligiblePublication, Eligible, brokerVars,
     historyVars, Row
<1>10. ASSUME NEW j \in Jobs, OrphanTaken(j) PROVE AttemptsInv'
  BY <1>10 DEF OrphanTaken, relayVars, historyVars, Row
<1>11. ASSUME NEW j \in Jobs, OrphanLost(j) PROVE AttemptsInv'
  BY <1>11 DEF OrphanLost, relayVars, historyVars, Row
<1>12. CASE Start
  BY <1>12 DEF Start, historyVars, Row
<1>13. CASE Stop
  BY <1>13 DEF Stop, brokerVars, Row
<1>14. CASE LoopEnds
  BY <1>14 DEF LoopEnds, Release, Interruptible, brokerVars, historyVars, Row
<1>15. CASE Crash
  BY <1>15 DEF Crash, Release, Row
<1>16. CASE Publish
  BY <1>16 DEF Publish, brokerVars, historyVars, Row
<1>17. CASE PublishRejected
  BY <1>17 DEF PublishRejected, Settle, Release, brokerVars, Row
<1>18. CASE ConfirmArrives
  BY <1>18 DEF ConfirmArrives, Settle, Release, brokerVars, Row
<1>19. CASE RefusalArrives
  BY <1>19 DEF RefusalArrives, Settle, Release, brokerVars, Row
<1>20. CASE ConnectionLost
  BY <1>20 DEF ConnectionLost, Settle, Release, Row
<1>21. CASE Reconnect
  BY <1>21 DEF Reconnect, relayVars, historyVars, Row
<1>22. CASE WriteOutcome
  <2>1. \A j \in Jobs : job'[j].life = "stored" => CounterAgrees(job'[j])
    BY <1>22, AttemptsWrite DEF WriteOutcome
  <2> QED
    BY <1>22, <2>1
    DEF WriteOutcome, NextIteration, Release, brokerVars, historyVars, CounterAgrees
<1>23. CASE WriteErrs
  <2>1. \A j \in Jobs : job'[j].life = "stored" => CounterAgrees(job'[j])
    BY <1>23, AttemptsWrite DEF WriteErrs
  <2> QED
    BY <1>23, <2>1 DEF WriteErrs, Release, brokerVars, CounterAgrees
<1>24. CASE RetryWrite
  BY <1>24 DEF RetryWrite, brokerVars, historyVars, Row
<1>25. CASE BrokerTakes
  BY <1>25 DEF BrokerTakes, historyVars, Row
<1>26. CASE BrokerRefuses
  BY <1>26 DEF BrokerRefuses, brokerVars, historyVars, Row
<1>27. CASE UNCHANGED vars
  BY <1>27 DEF vars, relayVars, brokerVars, historyVars, Row
<1> QED
  BY <1>1, <1>2, <1>3, <1>4, <1>5, <1>6, <1>7, <1>8, <1>9, <1>10, <1>11, <1>12,
     <1>13, <1>14, <1>15, <1>16, <1>17, <1>18, <1>19, <1>20, <1>21, <1>22, <1>23, <1>24,
     <1>25, <1>26, <1>27 DEF Next

\* Recording an outcome leaves unpublished only rows that were unpublished, and
\* not the one it records a success for.
LEMMA DuplicatesWrite ==
  ASSUME TypeOK, SuccessIsLive, pc = "writing", RecordOutcome
  PROVE  \A j \in Jobs :
           Unsent(job'[j]) => Unsent(job[j]) /\ ~ (j = target /\ outcome = "success")
<1> USE DEF TypeOK, SuccessIsLive, Recording, Stored, Unsent
<1> TAKE j \in Jobs
<1> HAVE Unsent(job'[j])
<1>1. CASE j # target
  BY <1>1, RecordOutcomeEffect
<1>2. CASE j = target /\ outcome = "failure"
  <2>1. job[j] \in Row
    OBVIOUS
  <2> QED
    BY <1>2, <2>1, RecordOutcomeEffect, FailureFields
<1>3. CASE j = target /\ outcome = "success"
  <2>1. job[j] \in Row
    OBVIOUS
  <2>2. ~ SuccessApplies(job[j])
    BY <1>3, <2>1, SuccessFields DEF RecordOutcome, RecordPublicationSuccess
  <2>3. job' = job
    BY <1>3, <2>2 DEF RecordOutcome, RecordPublicationSuccess
  <2> QED
    BY <1>3, <2>1, <2>2, <2>3 DEF SuccessApplies
<1> QED
  BY <1>1, <1>2, <1>3 DEF RecordOutcome

\* Every step that makes a duplicate possible is a disruption.
LEMMA DuplicatesStep ==
  ASSUME TypeOK, SuccessIsLive, DuplicatesInv, [Next]_vars
  PROVE  DuplicatesInv'
<1> USE DEF TypeOK, DuplicatesInv, DuplicatesAreExplained, Unsent, Recording, Stored, NoJob
<1>1. ASSUME NEW j \in Jobs, Create(j) PROVE DuplicatesInv'
  BY <1>1 DEF Create, relayVars, brokerVars, historyVars, NewRow, Row
<1>2. ASSUME NEW j \in Jobs, DelayElapses(j) PROVE DuplicatesInv'
  BY <1>2 DEF DelayElapses, relayVars, brokerVars, historyVars, Row
<1>3. ASSUME NEW j \in Jobs, MarkRunning(j) PROVE DuplicatesInv'
  BY <1>3
  DEF MarkRunning, Runnable, AfterRunning, relayVars, brokerVars, historyVars, Row
<1>4. ASSUME NEW j \in Jobs, MarkSucceeded(j) PROVE DuplicatesInv'
  BY <1>4 DEF MarkSucceeded, relayVars, brokerVars, historyVars, Row
<1>5. ASSUME NEW j \in Jobs, MarkFailed(j) PROVE DuplicatesInv'
  BY <1>5 DEF MarkFailed, relayVars, brokerVars, historyVars, Row
<1>6. ASSUME NEW j \in Jobs, RetryPublication(j) PROVE DuplicatesInv'
  BY <1>6 DEF RetryPublication, AfterRetry, relayVars, brokerVars, Row
<1>7. ASSUME NEW j \in Jobs, AbandonPublication(j) PROVE DuplicatesInv'
  BY <1>7 DEF AbandonPublication, Abandonable, relayVars, brokerVars,
     historyVars, Row
<1>8. ASSUME NEW j \in Jobs, DeleteByID(j) PROVE DuplicatesInv'
  BY <1>8 DEF DeleteByID, Deletable, relayVars, brokerVars, historyVars, Row
<1>9. ASSUME NEW j \in Jobs, Poll(j) PROVE DuplicatesInv'
  BY <1>9 DEF Poll, GetNextEligiblePublication, Eligible, brokerVars,
     historyVars, Row
<1>10. ASSUME NEW j \in Jobs, OrphanTaken(j) PROVE DuplicatesInv'
  BY <1>10 DEF OrphanTaken, relayVars, historyVars, Row
<1>11. ASSUME NEW j \in Jobs, OrphanLost(j) PROVE DuplicatesInv'
  BY <1>11 DEF OrphanLost, relayVars, historyVars, Row
<1>12. CASE Start
  BY <1>12 DEF Start, historyVars, Row
<1>13. CASE Stop
  BY <1>13 DEF Stop, brokerVars, Row
<1>14. CASE LoopEnds
  BY <1>14 DEF LoopEnds, Release, Interruptible, brokerVars, historyVars, Row
<1>15. CASE Crash
  BY <1>15 DEF Crash, Release, Row
<1>16. CASE Publish
  BY <1>16 DEF Publish, brokerVars, historyVars, Row
<1>17. CASE PublishRejected
  BY <1>17 DEF PublishRejected, Settle, Release, brokerVars, Row
<1>18. CASE ConfirmArrives
  BY <1>18 DEF ConfirmArrives, Settle, Release, brokerVars, Row
<1>19. CASE RefusalArrives
  BY <1>19 DEF RefusalArrives, Settle, Release, brokerVars, Row
<1>20. CASE ConnectionLost
  BY <1>20 DEF ConnectionLost, Settle, Release, Row
<1>21. CASE Reconnect
  BY <1>21 DEF Reconnect, relayVars, historyVars, Row
<1>22. CASE WriteOutcome
  <2>1. \A j \in Jobs :
           Unsent(job'[j]) => Unsent(job[j]) /\ ~ (j = target /\ outcome = "success")
    BY <1>22, DuplicatesWrite DEF WriteOutcome
  <2> QED
    BY <1>22, <2>1 DEF WriteOutcome, NextIteration, Release, brokerVars, historyVars
<1>23. CASE WriteErrs
  BY <1>23, RecordOutcomeEffect, SuccessFields, FailureFields
  DEF WriteErrs, Release, brokerVars,
      SuccessApplies, FailureApplies, Exhausted, Row
<1>24. CASE RetryWrite
  BY <1>24 DEF RetryWrite, brokerVars, historyVars, Row
<1>25. CASE BrokerTakes
  BY <1>25 DEF BrokerTakes, historyVars, Row
<1>26. CASE BrokerRefuses
  BY <1>26 DEF BrokerRefuses, brokerVars, historyVars, Row
<1>27. CASE UNCHANGED vars
  BY <1>27 DEF vars, relayVars, brokerVars, historyVars, Row
<1> QED
  BY <1>1, <1>2, <1>3, <1>4, <1>5, <1>6, <1>7, <1>8, <1>9, <1>10, <1>11, <1>12,
     <1>13, <1>14, <1>15, <1>16, <1>17, <1>18, <1>19, <1>20, <1>21, <1>22, <1>23, <1>24,
     <1>25, <1>26, <1>27 DEF Next

RecordingCount(row) ==
  \/ row.life = "deleted"
  \/ /\ row.life = "stored"
     /\ \/ /\ row.publicationAttempts = expected
           /\ settled[target] > expected
        \/ row.publicationAttempts = expected + 1
        \/ /\ row.publicationAttempts = 0
           /\ expected = MaxAttempts - 1

\* When publish() settles, the row has at most the calls counted that were
\* made before it.
LEMMA SettleCount ==
  ASSUME TypeOK, InFlightIsLive, CountInv,
         pc \in {"polled", "sent", "taken", "refused"}
  PROVE  \/ job[target].life = "deleted"
         \/ /\ job[target].life = "stored"
            /\ job[target].publicationAttempts = expected
            /\ settled[target] + 1 > expected
BY DEF TypeOK, InFlightIsLive, CountInv, AttemptsWereMade, Stored, Row

\* Recording an outcome counts a call that was made.
LEMMA CountWrite ==
  ASSUME TypeOK, CountInv, MaxAttempts > 1, pc = "writing", RecordOutcome \/ UNCHANGED job
  PROVE  /\ \A j \in Jobs : job'[j].life = "stored" =>
              job'[j].publicationAttempts <= settled[j]
         /\ RecordingCount(job'[target])
<1> USE DEF TypeOK, CountInv, AttemptsWereMade, Recording, Stored
<1>1. CASE job'[target] = job[target]
  <2>1. \A j \in Jobs : job'[j] = job[j]
    BY <1>1, RecordOutcomeEffect
  <2> QED
    BY <1>1, <2>1 DEF RecordingCount
<1>2. CASE job'[target] # job[target]
  <2>1. /\ RecordOutcome
        /\ target \in Jobs
        /\ job[target] \in Row
        /\ \A j \in Jobs : j # target => job'[j] = job[j]
    BY <1>2, RecordOutcomeEffect
  <2>2. /\ job[target].life = "stored"
        /\ job[target].publicationAttempts = expected
        /\ job'[target].life = "stored"
        /\ job'[target].publicationAttempts = expected + 1
    BY <1>2, <2>1, RecordOutcomeEffect, SuccessFields, FailureFields
    DEF SuccessApplies, FailureApplies
  <2>3. settled[target] > expected /\ settled[target] \in Nat /\ expected \in Nat
    BY <2>1, <2>2, MaxAttemptsAssumption
  <2> QED
    BY <2>1, <2>2, <2>3 DEF RecordingCount
<1> QED
  BY <1>1, <1>2

\* Every step counts a publish call at most once.
LEMMA CountStep ==
  ASSUME TypeOK, InFlightIsLive, AttemptsInv, CountInv, MaxAttempts > 1, [Next]_vars
  PROVE  CountInv'
<1> USE DEF TypeOK, CountInv, AttemptsWereMade, Recording, Stored, NoJob
<1>1. ASSUME NEW j \in Jobs, Create(j) PROVE CountInv'
  BY <1>1 DEF Create, NewRow, relayVars, brokerVars, historyVars, Row
<1>2. ASSUME NEW j \in Jobs, DelayElapses(j) PROVE CountInv'
  BY <1>2 DEF DelayElapses, relayVars, brokerVars, historyVars, Row
<1>3. ASSUME NEW j \in Jobs, MarkRunning(j) PROVE CountInv'
  BY <1>3
  DEF MarkRunning, Runnable, AfterRunning, relayVars, brokerVars, historyVars, Row
<1>4. ASSUME NEW j \in Jobs, MarkSucceeded(j) PROVE CountInv'
  BY <1>4 DEF MarkSucceeded, relayVars, brokerVars, historyVars, Row
<1>5. ASSUME NEW j \in Jobs, MarkFailed(j) PROVE CountInv'
  BY <1>5 DEF MarkFailed, relayVars, brokerVars, historyVars, Row
<1>6. ASSUME NEW j \in Jobs, RetryPublication(j) PROVE CountInv'
  <2>1. job'[j].publicationAttempts = 0 /\ job'[j].life = "stored"
    BY <1>6 DEF RetryPublication, AfterRetry, Row
  <2>2. Recording /\ j = target /\ Stored(j) => expected = MaxAttempts - 1
    BY <1>6, MaxAttemptsAssumption
    DEF RetryPublication, AttemptsInv, AttemptsMatchState, Row
  <2> QED
    BY <1>6, <2>1, <2>2 DEF RetryPublication, relayVars, Row
<1>7. ASSUME NEW j \in Jobs, AbandonPublication(j) PROVE CountInv'
  BY <1>7 DEF AbandonPublication, Abandonable, relayVars, brokerVars,
     historyVars, Row
<1>8. ASSUME NEW j \in Jobs, DeleteByID(j) PROVE CountInv'
  BY <1>8 DEF DeleteByID, Deletable, relayVars, brokerVars, historyVars, Row
<1>9. ASSUME NEW j \in Jobs, Poll(j) PROVE CountInv'
  BY <1>9 DEF Poll, GetNextEligiblePublication, Eligible, brokerVars,
     historyVars, Row
<1>10. ASSUME NEW j \in Jobs, OrphanTaken(j) PROVE CountInv'
  BY <1>10 DEF OrphanTaken, relayVars, historyVars, Row
<1>11. ASSUME NEW j \in Jobs, OrphanLost(j) PROVE CountInv'
  BY <1>11 DEF OrphanLost, relayVars, historyVars, Row
<1>12. CASE Start
  BY <1>12 DEF Start, historyVars, Row
<1>13. CASE Stop
  BY <1>13 DEF Stop, brokerVars, Row
<1>14. CASE LoopEnds
  BY <1>14 DEF LoopEnds, Release, Interruptible, brokerVars, historyVars, Row
<1>15. CASE Crash
  BY <1>15 DEF Crash, Release, Row
<1>16. CASE Publish
  BY <1>16 DEF Publish, brokerVars, historyVars, Row
<1>17. CASE PublishRejected
  BY <1>17, SettleCount
  DEF PublishRejected, Settle, Release, brokerVars, RecordingCount, Row
<1>18. CASE ConfirmArrives
  BY <1>18, SettleCount
  DEF ConfirmArrives, Settle, Release, brokerVars, RecordingCount, Row
<1>19. CASE RefusalArrives
  BY <1>19, SettleCount
  DEF RefusalArrives, Settle, Release, brokerVars, RecordingCount, Row
<1>20. CASE ConnectionLost
  BY <1>20, SettleCount DEF ConnectionLost, Settle, Release, RecordingCount, Row
<1>21. CASE Reconnect
  BY <1>21 DEF Reconnect, relayVars, historyVars, Row
<1>22. CASE WriteOutcome
  <2>1. /\ \A j \in Jobs : job'[j].life = "stored" =>
              job'[j].publicationAttempts <= settled[j]
        /\ RecordingCount(job'[target])
    BY <1>22, CountWrite DEF WriteOutcome
  <2> QED
    BY <1>22, <2>1
    DEF WriteOutcome, NextIteration, Release, brokerVars, historyVars, RecordingCount
<1>23. CASE WriteErrs
  <2>1. /\ \A j \in Jobs : job'[j].life = "stored" =>
              job'[j].publicationAttempts <= settled[j]
        /\ RecordingCount(job'[target])
    BY <1>23, CountWrite DEF WriteErrs
  <2> QED
    BY <1>23, <2>1 DEF WriteErrs, Release, brokerVars, RecordingCount
<1>24. CASE RetryWrite
  BY <1>24 DEF RetryWrite, brokerVars, historyVars, Row
<1>25. CASE BrokerTakes
  BY <1>25 DEF BrokerTakes, historyVars, Row
<1>26. CASE BrokerRefuses
  BY <1>26 DEF BrokerRefuses, brokerVars, historyVars, Row
<1>27. CASE UNCHANGED vars
  BY <1>27 DEF vars, relayVars, brokerVars, historyVars, Row
<1> QED
  BY <1>1, <1>2, <1>3, <1>4, <1>5, <1>6, <1>7, <1>8, <1>9, <1>10, <1>11, <1>12,
     <1>13, <1>14, <1>15, <1>16, <1>17, <1>18, <1>19, <1>20, <1>21, <1>22, <1>23, <1>24,
     <1>25, <1>26, <1>27 DEF Next

-----------------------------------------------------------------------------
\* The relay's knowledge of the job it holds is an inductive invariant.
THEOREM Inductive == Spec => []IndInv
<1>1. Init => IndInv
  BY MaxAttemptsAssumption, BoundsAssumption
  DEF Init, IndInv, TypeOK, NewRow, Row, NoJob, EvidenceInv, PublishedWasAccepted,
      InFlightIsLive, SuccessIsLive, Recording, AttemptsInv, AttemptsMatchState, Stored,
      StartedIsPublished, DuplicatesInv, DuplicatesAreExplained, Unsent
<1>2. IndInv /\ [Next]_vars => IndInv'
  BY TypeStep, EvidenceStep, StartedStep, InFlightStep, SuccessStep, AttemptsStep,
     DuplicatesStep
  DEF IndInv
<1> QED
  BY <1>1, <1>2, PTL DEF Spec

\* A job recorded as published has a message in the broker.
THEOREM Published == Spec => []PublishedWasAccepted
<1>1. IndInv => PublishedWasAccepted
  BY DEF IndInv, EvidenceInv
<1> QED
  BY <1>1, Inductive, PTL

\* Nobody changes a job's publication under the relay's feet, except by
\* executing it.
THEOREM InFlight == Spec => []InFlightIsLive
<1>1. IndInv => InFlightIsLive
  BY DEF IndInv
<1> QED
  BY <1>1, Inductive, PTL

\* The attempt counter never passes the maximum, and reaches it exactly when
\* the job fails.
THEOREM Attempts == Spec => []AttemptsMatchState
<1>1. IndInv => AttemptsMatchState
  BY DEF IndInv, AttemptsInv
<1> QED
  BY <1>1, Inductive, PTL

\* Every further copy of a message has a crash, stop or disconnection of its own.
THEOREM Duplicates == Spec => []DuplicatesAreExplained
<1>1. IndInv => DuplicatesAreExplained
  BY DEF IndInv, DuplicatesInv
<1> QED
  BY <1>1, Inductive, PTL

\* With at least two attempts allowed, no publish call is ever counted twice.
THEOREM CountedOnce == MaxAttempts > 1 => (Spec => []AttemptsWereMade)
<1> SUFFICES ASSUME MaxAttempts > 1 PROVE Spec => []AttemptsWereMade
  OBVIOUS
<1>1. Init => CountInv
  BY DEF Init, CountInv, AttemptsWereMade, NewRow, Stored, Recording
<1>2. IndInv /\ CountInv /\ [Next]_vars => CountInv'
  BY CountStep DEF IndInv
<1>3. CountInv => AttemptsWereMade
  BY DEF CountInv
<1> QED
  BY <1>1, <1>2, <1>3, Inductive, PTL DEF Spec

-----------------------------------------------------------------------------
\* The steps that leave the table alone.
LEMMA TableSteps ==
  ASSUME [Next]_vars
  PROVE  \/ job' = job
         \/ \E j \in Jobs :
              \/ Create(j) \/ DelayElapses(j)
              \/ MarkRunning(j) \/ MarkSucceeded(j) \/ MarkFailed(j)
              \/ RetryPublication(j) \/ AbandonPublication(j) \/ DeleteByID(j)
         \/ pc = "writing" /\ RecordOutcome
BY DEF Next, vars, Poll, OrphanTaken, OrphanLost, Start, Stop, LoopEnds, Crash,
   Publish,
       PublishRejected, ConfirmArrives, RefusalArrives, ConnectionLost, Reconnect,
       WriteOutcome, WriteErrs, RetryWrite, BrokerTakes, BrokerRefuses

\* The broker never gives up a message it has enqueued.
LEMMA CopiesStay ==
  ASSUME TypeOK, [Next]_vars, NEW k \in Jobs, copies[k] > 0
  PROVE  copies'[k] > 0
<1> USE DEF TypeOK
<1>1. CASE UNCHANGED copies
  BY <1>1
<1>2. CASE BrokerTakes
  BY <1>2 DEF BrokerTakes
<1>3. ASSUME NEW j \in Jobs, OrphanTaken(j) PROVE copies'[k] > 0
  BY <1>3 DEF OrphanTaken
<1> QED
  BY <1>1, <1>2, <1>3
  DEF Next, vars, brokerVars, relayVars, Create, DelayElapses, MarkRunning, MarkSucceeded, MarkFailed,
      RetryPublication, AbandonPublication, DeleteByID, Poll, OrphanLost, Start, Stop,
      LoopEnds, Crash, Publish, PublishRejected, ConfirmArrives, RefusalArrives,
      ConnectionLost, Reconnect, WriteOutcome, WriteErrs, RetryWrite, BrokerRefuses

\* A step deletes a row whose message the broker has, or one that is abandoned;
\* it abandons a row together with the time of it.
LEMMA DeletedStep ==
  ASSUME IndInv, DeletedInv, [Next]_vars
  PROVE  DeletedInv'
<1> SUFFICES ASSUME NEW k \in Jobs
             PROVE  /\ job'[k].life = "deleted" => copies'[k] > 0 \/ job'[k].abandonedAt = "set"
                    /\ job'[k].publicationState = "abandoned" => job'[k].abandonedAt = "set"
  BY DEF DeletedInv, DeletedWasSettled
<1> USE DEF IndInv, TypeOK, Row, Stored, DeletedInv, DeletedWasSettled
<1>1. copies[k] > 0 => copies'[k] > 0
  BY CopiesStay
<1>2. CASE job'[k] = job[k]
  BY <1>1, <1>2
<1>3. ASSUME NEW j \in Jobs, Create(j) \/ DelayElapses(j) \/ MarkSucceeded(j) \/ MarkFailed(j),
             job'[k] # job[k]
      PROVE  /\ job'[k].life # "deleted"
             /\ job'[k].publicationState = "abandoned" => job'[k].abandonedAt = "set"
  <2>1. CASE Create(j)
    BY <1>3, <2>1 DEF Create, NewRow
  <2>2. CASE DelayElapses(j)
    BY <1>3, <2>2 DEF DelayElapses
  <2>3. CASE MarkSucceeded(j) \/ MarkFailed(j)
    BY <1>3, <2>3 DEF MarkSucceeded, MarkFailed
  <2> QED
    BY <1>3, <2>1, <2>2, <2>3
<1>4. ASSUME NEW j \in Jobs, MarkRunning(j) \/ RetryPublication(j) \/ AbandonPublication(j),
             job'[k] # job[k]
      PROVE  /\ job'[k].life # "deleted"
             /\ job'[k].publicationState = "abandoned" => job'[k].abandonedAt = "set"
  <2>1. CASE MarkRunning(j)
    BY <1>4, <2>1 DEF MarkRunning, AfterRunning
  <2>2. CASE RetryPublication(j)
    BY <1>4, <2>2 DEF RetryPublication, AfterRetry
  <2>3. CASE AbandonPublication(j)
    BY <1>4, <2>3 DEF AbandonPublication
  <2> QED
    BY <1>4, <2>1, <2>2, <2>3
<1>5. ASSUME NEW j \in Jobs, DeleteByID(j), job'[k] # job[k]
      PROVE  /\ copies[k] > 0 \/ job'[k].abandonedAt = "set"
             /\ job'[k].publicationState = "abandoned" => job'[k].abandonedAt = "set"
  BY <1>5 DEF DeleteByID, Deletable, EvidenceInv, PublishedWasAccepted
<1>6. CASE pc = "writing" /\ RecordOutcome /\ job'[k] # job[k]
  <2>1. k = target /\ job[k] \in Row
    BY <1>6, RecordOutcomeEffect
  <2>2. CASE outcome = "success" /\ SuccessApplies(job[k]) /\ job'[k] = AfterSuccess(job[k])
    BY <2>1, <2>2, SuccessFields DEF SuccessApplies
  <2>3. CASE outcome = "failure" /\ FailureApplies(job[k]) /\ job'[k] = AfterFailure(job[k])
    BY <2>1, <2>3, FailureFields DEF FailureApplies
  <2> QED
    BY <1>6, <2>1, <2>2, <2>3, RecordOutcomeEffect
<1> QED
  BY <1>1, <1>2, <1>3, <1>4, <1>5, <1>6, TableSteps

\* A job leaves the table only delivered or given up by the operator.
THEOREM Deleted == Spec => []DeletedWasSettled
<1>1. Init => DeletedInv
  BY DEF Init, DeletedInv, DeletedWasSettled, NewRow
<1>2. IndInv /\ DeletedInv /\ [Next]_vars => DeletedInv'
  BY DeletedStep
<1>3. DeletedInv => DeletedWasSettled
  BY DEF DeletedInv
<1> QED
  BY <1>1, <1>2, <1>3, Inductive, PTL DEF Spec

-----------------------------------------------------------------------------
\* A published row stays published until it is deleted.
THEOREM Sticks == Spec => PublishedSticks
<1> DEFINE Sticky == \A j \in Jobs :
             Stored(j) /\ job[j].publicationState = "published" =>
               job'[j].life = "deleted" \/ job'[j].publicationState = "published"
<1>1. TypeOK /\ [Next]_vars => Sticky
  <2> SUFFICES ASSUME TypeOK, [Next]_vars, NEW k \in Jobs,
                      Stored(k), job[k].publicationState = "published"
               PROVE  job'[k].life = "deleted" \/ job'[k].publicationState = "published"
    OBVIOUS
  <2> USE DEF TypeOK, Row, Stored
  <2>1. ASSUME NEW j \in Jobs, Create(j)
        PROVE  job'[k].publicationState = "published"
    BY <2>1 DEF Create
  <2>2. ASSUME NEW j \in Jobs,
               DelayElapses(j) \/ MarkSucceeded(j) \/ MarkFailed(j) \/ MarkRunning(j)
        PROVE  job'[k].publicationState = "published"
    <3>1. CASE DelayElapses(j)
      BY <3>1 DEF DelayElapses
    <3>2. CASE MarkSucceeded(j) \/ MarkFailed(j)
      BY <3>2 DEF MarkSucceeded, MarkFailed
    <3>3. CASE MarkRunning(j)
      BY <3>3 DEF MarkRunning, AfterRunning
    <3> QED
      BY <2>2, <3>1, <3>2, <3>3
  <2>3. ASSUME NEW j \in Jobs, RetryPublication(j) \/ AbandonPublication(j)
        PROVE  job'[k].publicationState = "published"
    BY <2>3 DEF RetryPublication, AbandonPublication, Abandonable
  <2>4. ASSUME NEW j \in Jobs, DeleteByID(j)
        PROVE  job'[k].life = "deleted" \/ job'[k].publicationState = "published"
    BY <2>4 DEF DeleteByID
  <2>5. CASE pc = "writing" /\ RecordOutcome
    <3>1. target \in Jobs /\ job[k] \in Row
      BY <2>5
    <3> QED
      BY <2>5, <3>1, RecordOutcomeEffect, SuccessFields, FailureFields
  <2> QED
    BY <2>1, <2>2, <2>3, <2>4, <2>5, TableSteps
<1> QED
  BY <1>1, TypeCorrect, PTL DEF Spec, PublishedSticks

\* Only its execution turns a failed or abandoned job into a published one.
THEOREM Revival == Spec => OnlyExecutionRevives
<1> DEFINE Revives == \A j \in Jobs :
             /\ Stored(j)
             /\ job[j].publicationState \in {"failed", "abandoned"}
             /\ job'[j].publicationState = "published"
             => job[j].executionState = "pending" /\ job'[j].executionState = "running"
<1>1. IndInv /\ [Next]_vars => Revives
  <2> SUFFICES ASSUME IndInv, [Next]_vars, NEW k \in Jobs, Stored(k),
                      job[k].publicationState \in {"failed", "abandoned"},
                      job'[k].publicationState = "published"
               PROVE  job[k].executionState = "pending" /\ job'[k].executionState = "running"
    OBVIOUS
  <2> USE DEF IndInv, TypeOK, Row, Stored
  <2>1. ASSUME NEW j \in Jobs,
               Create(j) \/ DelayElapses(j) \/ MarkSucceeded(j) \/ MarkFailed(j)
        PROVE  FALSE
    <3>1. CASE Create(j)
      BY <3>1 DEF Create, NewRow
    <3>2. CASE DelayElapses(j)
      BY <3>2 DEF DelayElapses
    <3>3. CASE MarkSucceeded(j) \/ MarkFailed(j)
      BY <3>3, SMTT(30) DEF MarkSucceeded, MarkFailed
    <3> QED
      BY <2>1, <3>1, <3>2, <3>3
  <2>2. ASSUME NEW j \in Jobs,
               RetryPublication(j) \/ AbandonPublication(j) \/ DeleteByID(j)
        PROVE  FALSE
    <3>1. CASE RetryPublication(j)
      BY <3>1 DEF RetryPublication, AfterRetry
    <3>2. CASE AbandonPublication(j)
      BY <3>2 DEF AbandonPublication
    <3>3. CASE DeleteByID(j)
      BY <3>3 DEF DeleteByID
    <3> QED
      BY <2>2, <3>1, <3>2, <3>3
  <2>3. ASSUME NEW j \in Jobs, MarkRunning(j)
        PROVE  job[k].executionState = "pending" /\ job'[k].executionState = "running"
    <3>1. k = j
      BY <2>3 DEF MarkRunning
    <3>2. job[k].executionState = "pending" /\ job'[k].executionState = "running"
      <4>1. Runnable(job[j]) /\ job'[j] = AfterRunning(job[j])
        BY <2>3 DEF MarkRunning
      <4> QED
        BY <3>1, <4>1 DEF StartedIsPublished, AfterRunning
    <3> QED
      BY <3>2
  <2>4. CASE pc = "writing" /\ RecordOutcome
    <3>1. target \in Jobs /\ job[k] \in Row
      BY <2>4
    <3>2. k = target /\ outcome = "success" /\ SuccessApplies(job[target])
      BY <2>4, <3>1, RecordOutcomeEffect DEF FailureApplies
    <3> QED
      BY <2>4, <3>2 DEF SuccessIsLive, Recording, SuccessApplies
  <2> QED
    BY <2>1, <2>2, <2>3, <2>4, TableSteps
<1> QED
  BY <1>1, Inductive, PTL DEF Spec, OnlyExecutionRevives

-----------------------------------------------------------------------------
(***************************************************************************)
(* The outbox implements JobLife.                                          *)
(***************************************************************************)

\* No operation takes an insert back.
LEMMA BornStays ==
  ASSUME TypeOK, [Next]_vars, NEW k \in Jobs, job[k].life # "unborn"
  PROVE  job'[k].life # "unborn"
<1> USE DEF TypeOK, Row
<1>1. ASSUME NEW j \in Jobs, Create(j) PROVE job'[k].life # "unborn"
  BY <1>1 DEF Create, NewRow
<1>2. ASSUME NEW j \in Jobs, DelayElapses(j) PROVE job'[k].life # "unborn"
  BY <1>2 DEF DelayElapses
<1>3. ASSUME NEW j \in Jobs, MarkRunning(j) PROVE job'[k].life # "unborn"
  BY <1>3 DEF MarkRunning, AfterRunning
<1>4. ASSUME NEW j \in Jobs, MarkSucceeded(j) PROVE job'[k].life # "unborn"
  BY <1>4 DEF MarkSucceeded
<1>5. ASSUME NEW j \in Jobs, MarkFailed(j) PROVE job'[k].life # "unborn"
  BY <1>5 DEF MarkFailed
<1>6. ASSUME NEW j \in Jobs, RetryPublication(j) PROVE job'[k].life # "unborn"
  BY <1>6 DEF RetryPublication, AfterRetry
<1>7. ASSUME NEW j \in Jobs, AbandonPublication(j) PROVE job'[k].life # "unborn"
  BY <1>7 DEF AbandonPublication
<1>8. ASSUME NEW j \in Jobs, DeleteByID(j) PROVE job'[k].life # "unborn"
  BY <1>8 DEF DeleteByID
<1>9. CASE pc = "writing" /\ RecordOutcome
  <2>1. target \in Jobs /\ job[k] \in Row
    BY <1>9
  <2> QED
    BY <1>9, <2>1, RecordOutcomeEffect, SuccessFields, FailureFields
<1> QED
  BY <1>1, <1>2, <1>3, <1>4, <1>5, <1>6, <1>7, <1>8, <1>9, TableSteps

\* The relay takes up a job only from the table.
LEMMA TargetSteps ==
  ASSUME [Next]_vars, pc' \notin {"off", "poll"}
  PROVE  \/ pc \notin {"off", "poll"} /\ target' = target
         \/ \E j \in Jobs : Poll(j)
<1>1. CASE UNCHANGED relayVars
  BY <1>1 DEF relayVars
<1>2. CASE Start \/ Stop \/ LoopEnds \/ Crash
  BY <1>2 DEF Start, Stop, LoopEnds, Crash, Release
<1>3. CASE PublishRejected \/ ConfirmArrives \/ RefusalArrives
  BY <1>3 DEF PublishRejected, ConfirmArrives, RefusalArrives, Settle, Release
<1>4. CASE ConnectionLost
  BY <1>4 DEF ConnectionLost, Settle, Release
<1>5. CASE WriteOutcome \/ WriteErrs
  BY <1>5 DEF WriteOutcome, WriteErrs, NextIteration, Release
<1>6. CASE Publish \/ RetryWrite \/ BrokerTakes \/ BrokerRefuses
  BY <1>6 DEF Publish, RetryWrite, BrokerTakes, BrokerRefuses
<1> QED
  BY <1>1, <1>2, <1>3, <1>4, <1>5, <1>6
  DEF Next, vars, Create, DelayElapses, MarkRunning, MarkSucceeded, MarkFailed, RetryPublication,
      AbandonPublication, DeleteByID, OrphanTaken, OrphanLost, Reconnect

\* The steps that touch what the broker has or may still get.
LEMMA BrokerSteps ==
  ASSUME [Next]_vars
  PROVE  \/ UNCHANGED <<copies, orphans>>
         \/ /\ pc = "sent"
            /\ orphans' = [orphans EXCEPT ![target] = @ + 1]
            /\ UNCHANGED copies
         \/ BrokerTakes
         \/ \E j \in Jobs : OrphanTaken(j) \/ OrphanLost(j)
<1>1. CASE Crash \/ ConnectionLost
  BY <1>1 DEF Crash, ConnectionLost
<1>2. CASE Start \/ Reconnect
  BY <1>2 DEF Start, Reconnect
<1>3. CASE UNCHANGED brokerVars
  BY <1>3 DEF brokerVars
<1> QED
  BY <1>1, <1>2, <1>3
  DEF Next, vars, Create, DelayElapses, MarkRunning, MarkSucceeded, MarkFailed, RetryPublication,
      AbandonPublication, DeleteByID, Poll, Stop, LoopEnds, Publish, PublishRejected,
      ConfirmArrives, RefusalArrives, WriteOutcome, WriteErrs, RetryWrite, BrokerRefuses

\* Every step keeps messages behind submission.
LEMMA BornStep ==
  ASSUME TypeOK, BornInv, [Next]_vars
  PROVE  BornInv'
<1> USE DEF TypeOK, BornInv
<1>1. ASSUME pc' \notin {"off", "poll"} PROVE job'[target'].life # "unborn"
  <2>1. CASE pc \notin {"off", "poll"} /\ target' = target
    BY <2>1, BornStays
  <2>2. ASSUME NEW j \in Jobs, Poll(j) PROVE job'[target'].life # "unborn"
    BY <2>2 DEF Poll, GetNextEligiblePublication, Eligible, Stored
  <2> QED
    BY <1>1, <2>1, <2>2, TargetSteps
<1>2. ASSUME NEW k \in Jobs, job'[k].life = "unborn"
      PROVE  copies'[k] = 0 /\ orphans'[k] = 0
  <2>1. job[k].life = "unborn" /\ copies[k] = 0 /\ orphans[k] = 0
    BY <1>2, BornStays
  <2>2. pc = "sent" => target # k /\ target \in Jobs
    BY <2>1
  <2>3. CASE UNCHANGED <<copies, orphans>>
    BY <2>1, <2>3
  <2>4. CASE pc = "sent" /\ orphans' = [orphans EXCEPT ![target] = @ + 1] /\ UNCHANGED copies
    BY <2>1, <2>2, <2>4
  <2>5. CASE BrokerTakes
    BY <2>1, <2>2, <2>5 DEF BrokerTakes
  <2>6. ASSUME NEW j \in Jobs, OrphanTaken(j) \/ OrphanLost(j)
        PROVE  copies'[k] = 0 /\ orphans'[k] = 0
    BY <2>1, <2>6 DEF OrphanTaken, OrphanLost
  <2> QED
    BY <2>3, <2>4, <2>5, <2>6, BrokerSteps
<1> QED
  BY <1>1, <1>2

\* The broker hears only of jobs that were submitted.
LEMMA BornInvariance == Spec => []BornInv
<1>1. Init => BornInv
  BY DEF Init, BornInv
<1>2. TypeOK /\ BornInv /\ [Next]_vars => BornInv'
  BY BornStep
<1> QED
  BY <1>1, <1>2, TypeCorrect, PTL DEF Spec

\* The stage of a row, column by column.
LEMMA StageOf ==
  ASSUME NEW row \in Row
  PROVE  /\ row.life = "unborn" => Stage(row) = "unborn"
         /\ row.life = "deleted" => Stage(row) = "removed"
         /\ row.life = "stored" =>
              /\ row.executionState = "pending" => Stage(row) = row.publicationState
              /\ row.executionState = "running" => Stage(row) = "running"
              /\ row.executionState \in {"succeeded", "failed"} => Stage(row) = "executed"
         /\ Stage(row) = "unborn" => row.life = "unborn"
BY DEF Stage, Row

\* A step that changes the stage of one job only, and no messages, is a step of
\* its life.
LEMMA Advances ==
  ASSUME NEW j \in Jobs, NEW from, NEW to, UNCHANGED copies,
         \A k \in Jobs : k # j => job'[k] = job[k],
         Stage(job[j]) \in from, Stage(job'[j]) = to
  PROVE  Life!Advance(j, from, to)
BY DEF Life!Advance

\* A step that changes no stage and no messages is none.
LEMMA Stutters ==
  ASSUME UNCHANGED copies, \A k \in Jobs : Stage(job'[k]) = Stage(job[k])
  PROVE  UNCHANGED Life!vars
BY DEF Life!vars

\* Each operation of JobService is the operation of that job's life, or invisible.
LEMMA ServiceMoves ==
  ASSUME IndInv, NEW j \in Jobs
  PROVE  /\ Create(j) => Life!Submit(j)
         /\ MarkRunning(j) => Life!Run(j)
         /\ MarkSucceeded(j) \/ MarkFailed(j) => Life!Finish(j)
         /\ RetryPublication(j) => Life!Rearm(j)
         /\ AbandonPublication(j) => Life!Abandon(j)
         /\ DeleteByID(j) => Life!Remove(j)
<1> USE DEF IndInv, TypeOK, Stored
<1>1. job[j] \in Row
  OBVIOUS
<1>2. job[j].executionState # "pending" => job[j].publicationState = "published"
  BY DEF StartedIsPublished
<1>3. job[j].publicationState \in {"pending", "published", "failed", "abandoned"}
  BY <1>1 DEF Row
<1>4. ASSUME Create(j) PROVE Life!Submit(j)
  <2>1. job' = [job EXCEPT ![j] = NewRow] /\ UNCHANGED copies /\ job[j].life = "unborn"
    BY <1>4 DEF Create, brokerVars
  <2>2. job'[j] = NewRow /\ \A k \in Jobs : k # j => job'[k] = job[k]
    BY <2>1
  <2>3. Stage(NewRow) = "pending"
    BY NewRowType, StageOf DEF NewRow
  <2> QED
    BY <1>1, <2>1, <2>2, <2>3, StageOf, Advances DEF Life!Submit
<1>5. ASSUME MarkRunning(j) PROVE Life!Run(j)
  <2>1. /\ job' = [job EXCEPT ![j] = AfterRunning(@)] /\ UNCHANGED copies
        /\ job[j].life = "stored" /\ copies[j] > 0 /\ Runnable(job[j])
    BY <1>5 DEF MarkRunning, brokerVars
  <2>2. job'[j] = AfterRunning(job[j]) /\ \A k \in Jobs : k # j => job'[k] = job[k]
    BY <2>1
  <2>3. Stage(job'[j]) = "running"
    <3>1. job'[j] \in Row
      BY <1>1, <2>2, RowUpdates
    <3>2. job'[j].life = "stored" /\ job'[j].executionState = "running"
      BY <1>1, <2>1, <2>2 DEF AfterRunning, Row
    <3> QED
      BY <3>1, <3>2, StageOf
  <2>4. job[j].executionState = "pending"
    BY <1>2, <2>1 DEF Runnable
  <2>5. Stage(job[j]) \in {"pending", "failed", "abandoned", "published"}
    BY <1>1, <1>3, <2>1, <2>4, StageOf
  <2> QED
    BY <2>1, <2>2, <2>3, <2>5, Advances DEF Life!Run
<1>6. ASSUME MarkSucceeded(j) \/ MarkFailed(j) PROVE Life!Finish(j)
  <2>1. /\ UNCHANGED copies /\ job[j].life = "stored" /\ job[j].executionState = "running"
        /\ \/ job' = [job EXCEPT ![j].executionState = "succeeded"]
           \/ job' = [job EXCEPT ![j].executionState = "failed"]
    BY <1>6 DEF MarkSucceeded, MarkFailed, brokerVars
  <2>2. /\ \/ job'[j] = [job[j] EXCEPT !.executionState = "succeeded"]
           \/ job'[j] = [job[j] EXCEPT !.executionState = "failed"]
        /\ \A k \in Jobs : k # j => job'[k] = job[k]
    BY <2>1
  <2>3. job'[j].life = "stored" /\ job'[j].executionState \in {"succeeded", "failed"}
    BY <1>1, <2>1, <2>2 DEF Row
  <2>4. Stage(job'[j]) = "executed"
    BY <1>1, <2>2, <2>3, FieldUpdates, StageOf
  <2>5. Stage(job[j]) = "running"
    BY <1>1, <2>1, StageOf
  <2> QED
    BY <2>1, <2>2, <2>4, <2>5, Advances DEF Life!Finish
<1>7. ASSUME RetryPublication(j) PROVE Life!Rearm(j)
  <2>1. /\ job' = [job EXCEPT ![j] = AfterRetry(@)] /\ UNCHANGED copies
        /\ job[j].life = "stored" /\ job[j].publicationState = "failed"
    BY <1>7 DEF RetryPublication, brokerVars
  <2>2. job'[j] = AfterRetry(job[j]) /\ \A k \in Jobs : k # j => job'[k] = job[k]
    BY <2>1
  <2>3. /\ job'[j].life = "stored" /\ job'[j].publicationState = "pending"
        /\ job'[j].executionState = "pending"
    BY <1>1, <1>2, <2>1, <2>2 DEF AfterRetry, Row
  <2>4. job'[j] \in Row
    BY <1>1, <2>2, RowUpdates
  <2>5. Stage(job[j]) = "failed"
    BY <1>1, <1>2, <1>3, <2>1, StageOf
  <2>6. Stage(job'[j]) = "pending"
    BY <2>3, <2>4, StageOf
  <2> QED
    BY <2>1, <2>2, <2>5, <2>6, Advances DEF Life!Rearm
<1>8. ASSUME AbandonPublication(j) PROVE Life!Abandon(j)
  <2>1. /\ job' = [job EXCEPT ![j] = [@ EXCEPT !.publicationState = "abandoned",
                                              !.abandonedAt = "set"]]
        /\ UNCHANGED copies
        /\ job[j].life = "stored" /\ job[j].publicationState = "failed"
    BY <1>8 DEF AbandonPublication, Abandonable, brokerVars
  <2>2. /\ job'[j] = [job[j] EXCEPT !.publicationState = "abandoned", !.abandonedAt = "set"]
        /\ \A k \in Jobs : k # j => job'[k] = job[k]
    BY <2>1
  <2>3. /\ job'[j].life = "stored" /\ job'[j].publicationState = "abandoned"
        /\ job'[j].executionState = "pending"
    BY <1>1, <1>2, <2>1, <2>2 DEF Row
  <2>4. job'[j] \in Row
    BY <1>1, <2>2, FieldUpdates
  <2>5. Stage(job[j]) = "failed"
    BY <1>1, <1>2, <1>3, <2>1, StageOf
  <2>6. Stage(job'[j]) = "abandoned"
    BY <2>3, <2>4, StageOf
  <2> QED
    BY <2>1, <2>2, <2>5, <2>6, Advances DEF Life!Abandon
<1>9. ASSUME DeleteByID(j) PROVE Life!Remove(j)
  <2>1. /\ job' = [job EXCEPT ![j].life = "deleted"] /\ UNCHANGED copies
        /\ job[j].life = "stored" /\ Deletable(job[j])
    BY <1>9 DEF DeleteByID, brokerVars
  <2>2. /\ job'[j] = [job[j] EXCEPT !.life = "deleted"]
        /\ \A k \in Jobs : k # j => job'[k] = job[k]
    BY <2>1
  <2>3. Stage(job'[j]) = "removed"
    <3>1. job'[j] \in Row
      BY <1>1, <2>2, FieldUpdates
    <3>2. job'[j].life = "deleted"
      BY <1>1, <2>2 DEF Row
    <3> QED
      BY <3>1, <3>2, StageOf
  <2>4. Stage(job[j]) \in {"abandoned", "executed"}
    BY <1>1, <1>2, <2>1, StageOf DEF Deletable
  <2> QED
    BY <2>1, <2>2, <2>3, <2>4, Advances DEF Life!Remove
<1> QED
  BY <1>4, <1>5, <1>6, <1>7, <1>8, <1>9

\* A recorded outcome is the confirmation or the failure of a pending job; a
\* late one, of a job that is published, started or gone, is invisible.
LEMMA OutcomeMoves ==
  ASSUME IndInv, pc = "writing", RecordOutcome, UNCHANGED copies
  PROVE  \/ Life!Confirm(target)
         \/ Life!GiveUp(target)
         \/ UNCHANGED Life!vars
<1> USE DEF IndInv, TypeOK, Stored
<1>1. target \in Jobs /\ job \in [Jobs -> Row] /\ job[target] \in Row
  OBVIOUS
<1>2. \A k \in Jobs : k # target => job'[k] = job[k]
  BY <1>1, RecordOutcomeEffect
<1>3. job[target].executionState # "pending" => job[target].publicationState = "published"
  BY <1>1 DEF StartedIsPublished
<1>4. CASE Stage(job'[target]) = Stage(job[target])
  BY <1>2, <1>4, Stutters
<1>5. CASE /\ outcome = "success"
           /\ SuccessApplies(job[target])
           /\ job'[target] = AfterSuccess(job[target])
  <2>1. /\ job'[target] \in Row
        /\ job'[target].life = "stored" /\ job[target].life = "stored"
        /\ job'[target].publicationState = "published"
        /\ job'[target].executionState = job[target].executionState
    BY <1>1, <1>5, SuccessFields, RowUpdates DEF SuccessApplies
  <2>2. CASE job[target].publicationState = "published"
    <3>1. job[target].executionState \in {"pending", "running", "succeeded", "failed"}
      BY <1>1 DEF Row
    <3>2. Stage(job'[target]) = Stage(job[target])
      BY <1>1, <2>1, <2>2, <3>1, StageOf
    <3> QED
      BY <1>4, <3>2
  <2>3. CASE job[target].publicationState # "published"
    <3>1. job[target].publicationState = "pending" /\ job[target].executionState = "pending"
      BY <1>3, <1>5, <2>1, <2>3 DEF SuccessIsLive, Recording
    <3>2. Stage(job[target]) = "pending" /\ Stage(job'[target]) = "published"
      BY <1>1, <2>1, <3>1, StageOf
    <3>3. target \in {k \in Jobs : copies[k] > 0}
      BY <1>1, <1>5 DEF EvidenceInv, Recording
    <3>4. Life!Advance(target, {"pending"}, "published")
      BY <1>1, <1>2, <3>2, Advances
    <3> QED
      BY <3>3, <3>4 DEF Life!Confirm
  <2> QED
    BY <2>2, <2>3
<1>6. CASE /\ outcome = "failure"
           /\ FailureApplies(job[target])
           /\ job'[target] = AfterFailure(job[target])
  <2>1. /\ job'[target] \in Row
        /\ job'[target].life = "stored" /\ job[target].life = "stored"
        /\ job'[target].executionState = job[target].executionState
    <3>1. job'[target] \in Row
      BY <1>1, <1>6, RowUpdates
    <3>2. job[target].life = "stored"
      BY <1>6 DEF FailureApplies
    <3>3. /\ job'[target].life = job[target].life
          /\ job'[target].executionState = job[target].executionState
      BY <1>1, <1>6, FailureFields
    <3> QED
      BY <3>1, <3>2, <3>3
  <2>2. CASE job[target].publicationState = "published"
    <3>1. job[target].executionState \in {"pending", "running", "succeeded", "failed"}
      BY <1>1 DEF Row
    <3>2. job'[target].publicationState = "published"
      BY <1>1, <1>6, <2>2, FailureFields
    <3>3. Stage(job'[target]) = Stage(job[target])
      BY <1>1, <2>1, <2>2, <3>1, <3>2, StageOf
    <3> QED
      BY <1>4, <3>3
  <2>3. CASE job[target].publicationState # "published"
    <3>1. job[target].publicationState = "pending" /\ job[target].executionState = "pending"
      BY <1>3, <1>6, <2>3 DEF FailureApplies
    <3>2. job'[target].publicationState \in {"pending", "failed"}
      BY <1>1, <1>6, <2>3, FailureFields
    <3>3. Stage(job[target]) = "pending" /\ Stage(job'[target]) \in {"pending", "failed"}
      BY <1>1, <2>1, <3>1, <3>2, StageOf
    <3>4. CASE Stage(job'[target]) = "failed"
      BY <1>1, <1>2, <3>3, <3>4, Advances DEF Life!GiveUp
    <3> QED
      BY <1>4, <3>3, <3>4
  <2> QED
    BY <2>2, <2>3
<1> QED
  BY <1>1, <1>4, <1>5, <1>6, RecordOutcomeEffect

\* A message the broker enqueues is one of a job that was submitted.
LEMMA ArrivalMoves ==
  ASSUME IndInv, BornInv, BrokerTakes \/ \E j \in Jobs : OrphanTaken(j)
  PROVE  \E j \in Jobs : Life!Arrive(j)
<1> USE DEF IndInv, TypeOK, BornInv
<1>1. PICK j \in Jobs : /\ copies' = [copies EXCEPT ![j] = @ + 1]
                        /\ UNCHANGED job
                        /\ job[j].life # "unborn"
  <2>1. CASE BrokerTakes
    BY <2>1 DEF BrokerTakes
  <2>2. ASSUME NEW j \in Jobs, OrphanTaken(j)
        PROVE  /\ copies' = [copies EXCEPT ![j] = @ + 1]
               /\ UNCHANGED job
               /\ job[j].life # "unborn"
    BY <2>2 DEF OrphanTaken
  <2> QED
    BY <2>1, <2>2
<1>2. Stage(job[j]) # "unborn"
  BY <1>1, StageOf
<1>3. \A k \in Jobs : copies'[k] > 0 <=> (copies[k] > 0 \/ k = j)
  BY <1>1
<1>4. {k \in Jobs : copies'[k] > 0} = {k \in Jobs : copies[k] > 0} \cup {j}
  BY <1>3
<1> QED
  BY <1>1, <1>2, <1>4 DEF Life!Arrive

\* The steps by what an observer of the life of a job may see of them.
LEMMA VisibleSteps ==
  ASSUME [Next]_vars
  PROVE  \/ UNCHANGED <<job, copies>>
         \/ \E j \in Jobs :
              /\ UNCHANGED copies
              /\ \/ Create(j) \/ DelayElapses(j)
                 \/ MarkRunning(j) \/ MarkSucceeded(j) \/ MarkFailed(j)
                 \/ RetryPublication(j) \/ AbandonPublication(j) \/ DeleteByID(j)
         \/ pc = "writing" /\ RecordOutcome /\ UNCHANGED copies
         \/ BrokerTakes
         \/ \E j \in Jobs : OrphanTaken(j)
<1>1. CASE WriteOutcome \/ WriteErrs
  BY <1>1 DEF WriteOutcome, WriteErrs, brokerVars
<1>2. CASE Start \/ Stop \/ LoopEnds \/ Crash \/ ConnectionLost \/ Reconnect
  BY <1>2 DEF Start, Stop, LoopEnds, Crash, ConnectionLost, Reconnect, brokerVars
<1>3. CASE \/ Publish \/ PublishRejected \/ ConfirmArrives \/ RefusalArrives \/ RetryWrite
           \/ BrokerRefuses
  BY <1>3 DEF Publish, PublishRejected, ConfirmArrives, RefusalArrives, RetryWrite, BrokerRefuses,
     brokerVars
<1>4. ASSUME NEW j \in Jobs, Poll(j) \/ OrphanLost(j) PROVE UNCHANGED <<job, copies>>
  BY <1>4 DEF Poll, OrphanLost, brokerVars
<1>5. ASSUME NEW j \in Jobs,
             \/ Create(j) \/ DelayElapses(j)
             \/ MarkRunning(j) \/ MarkSucceeded(j) \/ MarkFailed(j)
             \/ RetryPublication(j) \/ AbandonPublication(j) \/ DeleteByID(j)
      PROVE  UNCHANGED copies
  BY <1>5 DEF Create, DelayElapses, MarkRunning, MarkSucceeded, MarkFailed, RetryPublication,
     AbandonPublication, DeleteByID, brokerVars
<1>6. CASE UNCHANGED vars
  BY <1>6 DEF vars, brokerVars
<1> QED
  BY <1>1, <1>2, <1>3, <1>4, <1>5, <1>6 DEF Next

\* Every step of the outbox is a step in the life of one job, or invisible.
LEMMA LifeStep ==
  ASSUME IndInv, BornInv, [Next]_vars
  PROVE  [Life!Next]_(Life!vars)
<1>1. CASE UNCHANGED <<job, copies>>
  BY <1>1, Stutters
<1>2. ASSUME NEW j \in Jobs, UNCHANGED copies, DelayElapses(j) PROVE UNCHANGED Life!vars
  <2>1. \A k \in Jobs : Stage(job'[k]) = Stage(job[k])
    BY <1>2 DEF DelayElapses, Stored, IndInv, TypeOK, Row, Stage
  <2> QED
    BY <1>2, <2>1, Stutters
<1>3. ASSUME NEW j \in Jobs,
             \/ Create(j) \/ MarkRunning(j) \/ MarkSucceeded(j) \/ MarkFailed(j)
             \/ RetryPublication(j) \/ AbandonPublication(j) \/ DeleteByID(j)
      PROVE  Life!Next
  BY <1>3, ServiceMoves DEF Life!Next
<1>4. CASE pc = "writing" /\ RecordOutcome /\ UNCHANGED copies
  <2>1. target \in Jobs
    BY <1>4 DEF IndInv, TypeOK
  <2> QED
    BY <1>4, <2>1, OutcomeMoves DEF Life!Next
<1>5. CASE BrokerTakes \/ \E j \in Jobs : OrphanTaken(j)
  BY <1>5, ArrivalMoves DEF Life!Next
<1> QED
  BY <1>1, <1>2, <1>3, <1>4, <1>5, VisibleSteps

\* Whatever the relay, the broker and the operator do in whatever order, each
\* job goes through the life that JobLife describes.
THEOREM ImplementsLife == Spec => ImplementsJobLife
<1>1. Init => Life!Init
  BY NewRowType, StageOf DEF Init, Life!Init, Stage
<1>2. IndInv /\ BornInv /\ [Next]_vars => [Life!Next]_(Life!vars)
  BY LifeStep
<1> QED
  BY <1>1, <1>2, Inductive, BornInvariance, PTL DEF Spec, ImplementsJobLife, Life!Spec

=============================================================================
