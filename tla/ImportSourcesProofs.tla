------------------------ MODULE ImportSourcesProofs ------------------------
(***************************************************************************)
(* Safety of an import source for any number of requests, deletions and    *)
(* late calls.                                                             *)
(***************************************************************************)
EXTENDS ImportSources, TLAPS

\* Every statement of import-source-persistence.ts turns a row into a row.
LEMMA RowUpdates ==
  ASSUME row \in Row
  PROVE  /\ Claimed \in Row
         /\ Finalized \in Row
         /\ \A cleanup \in {"yes", "no"} : FailureRecorded(cleanup) \in Row
         /\ DeletionRecorded \in Row
         /\ \A source, started \in {"null", "set"} : Reserved(source, started) \in Row
         /\ \A r \in Requests : [row EXCEPT !.ingestionId = r] \in Row
BY ZenonT(60) DEF Row, Claimed, Finalized, FailureRecorded, DeletionRecorded, Reserved

\* What each call does to the row, whenever it lands.
LEMMA RowEffects ==
  ASSUME row \in Row
  PROVE  /\ RowAfter("claim") = IF Claimable(row) THEN Claimed ELSE row
         /\ RowAfter("finalize") = IF Checked(Finalized) THEN Finalized ELSE row
         /\ RowAfter("revoke") = FailureRecorded("yes")
         /\ RowAfter("noteYes") = FailureRecorded("yes")
         /\ RowAfter("noteNo") = FailureRecorded("no")
         /\ RowAfter("deletion") = DeletionRecorded
         /\ RowAfter("put") = row
         /\ RowAfter("remove") = row
BY DEF RowAfter

\* Whatever call lands on it, a row of the table stays one.
LEMMA RowAfterType ==
  ASSUME row \in Row, NEW kind \in Kinds
  PROVE  RowAfter(kind) \in Row
BY RowUpdates, RowEffects DEF Kinds

\* Every step keeps the variables in their types.
LEMMA TypeStep ==
  ASSUME TypeOK, [Next]_vars
  PROVE  TypeOK'
<1> row \in Row
  BY DEF TypeOK
<1>1. CASE UNCHANGED vars
  BY <1>1 DEF TypeOK, vars, objectVars, callVars
<1>2. CASE Register
  BY <1>2, RowUpdates DEF TypeOK, Register, Reserved, objectVars, callVars
<1>3. ASSUME NEW r \in Requests, Create(r) PROVE TypeOK'
  BY <1>3, RowUpdates, RowEffects, RowAfterType DEF TypeOK, Create, Reserved,
     objectVars, callVars, Waiting, Ended, Awaited, Kinds
<1>4. ASSUME NEW r \in Requests, ReadSource(r) PROVE TypeOK'
  BY <1>4, RowUpdates, RowEffects, RowAfterType DEF TypeOK, ReadSource,
     objectVars, callVars, Waiting, Ended, Awaited, Kinds
<1>5. ASSUME NEW r \in Requests, ClaimUpload(r) PROVE TypeOK'
  BY <1>5, RowUpdates, RowEffects, RowAfterType DEF TypeOK, ClaimUpload,
     objectVars, callVars, Waiting, Ended, Awaited, Kinds
<1>6. ASSUME NEW r \in Requests, ClaimErrs(r) PROVE TypeOK'
  BY <1>6, RowUpdates, RowEffects, RowAfterType DEF TypeOK, ClaimErrs,
     Unanswered, objectVars, callVars, Waiting, Ended, Awaited, Kinds
<1>7. ASSUME NEW r \in Requests, WriteStores(r) PROVE TypeOK'
  BY <1>7, RowUpdates, RowEffects, RowAfterType DEF TypeOK, WriteStores,
     objectVars, callVars, Waiting, Ended, Awaited, Kinds
<1>8. ASSUME NEW r \in Requests, WriteErrs(r) PROVE TypeOK'
  BY <1>8, RowUpdates, RowEffects, RowAfterType DEF TypeOK, WriteErrs,
     Unanswered, objectVars, callVars, Waiting, Ended, Awaited, Kinds
<1>9. ASSUME NEW r \in Requests, Finalize(r) PROVE TypeOK'
  BY <1>9, RowUpdates, RowEffects, RowAfterType DEF TypeOK, Finalize,
     objectVars, callVars, Waiting, Ended, Awaited, Kinds
<1>10. ASSUME NEW r \in Requests, FinalizeErrs(r) PROVE TypeOK'
  BY <1>10, RowUpdates, RowEffects, RowAfterType DEF TypeOK, FinalizeErrs,
     Unanswered, objectVars, callVars, Waiting, Ended, Awaited, Kinds
<1>11. ASSUME NEW r \in Requests, Revoke(r) PROVE TypeOK'
  BY <1>11, RowUpdates, RowEffects, RowAfterType DEF TypeOK, Revoke, objectVars,
     callVars, Waiting, Ended, Awaited, Kinds
<1>12. ASSUME NEW r \in Requests, RevokeErrs(r) PROVE TypeOK'
  BY <1>12, RowUpdates, RowEffects, RowAfterType DEF TypeOK, RevokeErrs,
     Unanswered, objectVars, callVars, Waiting, Ended, Awaited, Kinds
<1>13. ASSUME NEW r \in Requests, CleanUp(r) PROVE TypeOK'
  BY <1>13, RowUpdates, RowEffects, RowAfterType DEF TypeOK, CleanUp,
     ObjectAfter, objectVars, callVars, Waiting, Ended, Awaited, Kinds
<1>14. ASSUME NEW r \in Requests, CleanUpErrs(r) PROVE TypeOK'
  BY <1>14, RowUpdates, RowEffects, RowAfterType DEF TypeOK, CleanUpErrs,
     Unanswered, objectVars, callVars, Waiting, Ended, Awaited, Kinds
<1>15. ASSUME NEW r \in Requests, RecordFailure(r) PROVE TypeOK'
  BY <1>15, RowUpdates, RowEffects, RowAfterType DEF TypeOK, RecordFailure,
     objectVars, callVars, Waiting, Ended, Awaited, Kinds
<1>16. ASSUME NEW r \in Requests, RecordFailureErrs(r) PROVE TypeOK'
  BY <1>16, RowUpdates, RowEffects, RowAfterType DEF TypeOK, RecordFailureErrs,
     Unanswered, objectVars, callVars, Waiting, Ended, Awaited, Kinds
<1>17. ASSUME NEW r \in Requests, Submit(r) PROVE TypeOK'
  BY <1>17, RowUpdates, RowEffects, RowAfterType DEF TypeOK, Submit, objectVars,
     callVars, Waiting, Ended, Awaited, Kinds
<1>18. ASSUME NEW r \in Requests, SubmitErrs(r) PROVE TypeOK'
  BY <1>18, RowUpdates, RowEffects, RowAfterType DEF TypeOK, SubmitErrs,
     objectVars, callVars, Waiting, Ended, Awaited, Kinds
<1>19. ASSUME NEW r \in Requests, Crash(r) PROVE TypeOK'
  BY <1>19, RowUpdates, RowEffects, RowAfterType DEF TypeOK, Crash, Unanswered,
     objectVars, callVars, Waiting, Ended, Awaited, Kinds
<1>20. ASSUME NEW d \in Deleters, StartDelete(d) PROVE TypeOK'
  BY <1>20, RowUpdates, RowEffects, RowAfterType DEF TypeOK, StartDelete,
     objectVars, callVars, Waiting, Ended, Awaited, Kinds
<1>21. ASSUME NEW d \in Deleters, RemoveObject(d) PROVE TypeOK'
  BY <1>21, RowUpdates, RowEffects, RowAfterType DEF TypeOK, RemoveObject,
     ObjectAfter, objectVars, callVars, Waiting, Ended, Awaited, Kinds
<1>22. ASSUME NEW d \in Deleters, RemoveObjectErrs(d) PROVE TypeOK'
  BY <1>22, RowUpdates, RowEffects, RowAfterType DEF TypeOK, RemoveObjectErrs,
     Unanswered, objectVars, callVars, Waiting, Ended, Awaited, Kinds
<1>23. ASSUME NEW d \in Deleters, RecordDeletion(d) PROVE TypeOK'
  BY <1>23, RowUpdates, RowEffects, RowAfterType DEF TypeOK, RecordDeletion,
     objectVars, callVars, Waiting, Ended, Awaited, Kinds
<1>24. ASSUME NEW d \in Deleters, RecordDeletionErrs(d) PROVE TypeOK'
  BY <1>24, RowUpdates, RowEffects, RowAfterType DEF TypeOK, RecordDeletionErrs,
     Unanswered, objectVars, callVars, Waiting, Ended, Awaited, Kinds
<1>25. ASSUME NEW kind \in Kinds, LateLands(kind) PROVE TypeOK'
  BY <1>25, RowAfterType DEF TypeOK, LateLands, ObjectAfter, objectVars, callVars
<1> QED
  BY <1>1, <1>2, <1>3, <1>4, <1>5, <1>6, <1>7, <1>8, <1>9, <1>10, <1>11, <1>12,
     <1>13, <1>14, <1>15, <1>16, <1>17, <1>18, <1>19, <1>20, <1>21, <1>22,
     <1>23, <1>24, <1>25 DEF Next

\* The columns the statements of import-source-persistence.ts set and leave alone.
LEMMA RowFields ==
  ASSUME row \in Row
  PROVE  /\ Claimed.state = row.state
         /\ Claimed.uploadStartedAt = "set"
         /\ Claimed.failedAt = row.failedAt
         /\ Claimed.deletedAt = row.deletedAt
         /\ Claimed.cleanupRequired = row.cleanupRequired
         /\ Finalized.state = "available"
         /\ Finalized.uploadStartedAt = row.uploadStartedAt
         /\ Finalized.failedAt = row.failedAt
         /\ Finalized.deletedAt = row.deletedAt
         /\ Finalized.cleanupRequired = "no"
         /\ \A cleanup \in {"yes", "no"} :
              /\ FailureRecorded(cleanup).state = "incomplete"
              /\ FailureRecorded(cleanup).uploadStartedAt = row.uploadStartedAt
              /\ FailureRecorded(cleanup).failedAt = "set"
              /\ FailureRecorded(cleanup).deletedAt = row.deletedAt
              /\ FailureRecorded(cleanup).cleanupRequired = cleanup
         /\ DeletionRecorded.state = "deleted"
         /\ DeletionRecorded.uploadStartedAt = row.uploadStartedAt
         /\ DeletionRecorded.failedAt = row.failedAt
         /\ DeletionRecorded.deletedAt = "set"
         /\ DeletionRecorded.cleanupRequired = "no"
BY DEF Row, Claimed, Finalized, FailureRecorded, DeletionRecorded

\* What finalize may do to the row: nothing, or make an unfailed row available.
LEMMA FinalizeChecked ==
  ASSUME row \in Row, Checked(Finalized)
  PROVE  row.failedAt = "null" /\ row.deletedAt = "null"
BY RowFields DEF Checked

\* A claim is taken once and kept: its taker is the only writer.
LEMMA ClaimStep ==
  ASSUME TypeOK, ClaimInv, [Next]_vars
  PROVE  ClaimInv'
<1> row \in Row
  BY DEF TypeOK
<1>1. CASE Register
  BY <1>1 DEF Register, Reserved, TypeOK, objectVars, callVars, ClaimInv,
     OneWriter, Owning, Waiting, Row
<1>2. ASSUME NEW r \in Requests, Create(r) PROVE ClaimInv'
  BY <1>2 DEF Create, Reserved, TypeOK, objectVars, callVars, ClaimInv,
     OneWriter, Owning, Waiting, Row
<1>3. ASSUME NEW r \in Requests, ReadSource(r) PROVE ClaimInv'
  BY <1>3 DEF ReadSource, TypeOK, objectVars, callVars, ClaimInv, OneWriter,
     Owning, Waiting
<1>4. ASSUME NEW r \in Requests, ClaimUpload(r) PROVE ClaimInv'
  BY <1>4, RowFields, RowEffects DEF ClaimUpload, Claimable, TypeOK,
     objectVars, callVars, ClaimInv, OneWriter, Owning, Waiting
<1>5. ASSUME NEW r \in Requests, ClaimErrs(r) PROVE ClaimInv'
  BY <1>5 DEF ClaimErrs, Unanswered, Kinds, TypeOK, objectVars, callVars,
     ClaimInv, OneWriter, Owning, Waiting
<1>6. ASSUME NEW r \in Requests, WriteStores(r) PROVE ClaimInv'
  BY <1>6 DEF WriteStores, TypeOK, objectVars, callVars, ClaimInv, OneWriter,
     Owning, Waiting
<1>7. ASSUME NEW r \in Requests, WriteErrs(r) PROVE ClaimInv'
  BY <1>7 DEF WriteErrs, Unanswered, Kinds, TypeOK, objectVars, callVars,
     ClaimInv, OneWriter, Owning, Waiting
<1>8. ASSUME NEW r \in Requests, Finalize(r) PROVE ClaimInv'
  BY <1>8, RowFields, RowEffects, FinalizeChecked DEF Finalize, TypeOK,
     objectVars, callVars, ClaimInv, OneWriter, Owning, Waiting, Row
<1>9. ASSUME NEW r \in Requests, FinalizeErrs(r) PROVE ClaimInv'
  BY <1>9 DEF FinalizeErrs, Unanswered, Kinds, TypeOK, objectVars, callVars,
     ClaimInv, OneWriter, Owning, Waiting
<1>10. ASSUME NEW r \in Requests, Revoke(r) PROVE ClaimInv'
  BY <1>10, RowFields, RowEffects DEF Revoke, TypeOK, objectVars, callVars,
     ClaimInv, OneWriter, Owning, Waiting
<1>11. ASSUME NEW r \in Requests, RevokeErrs(r) PROVE ClaimInv'
  BY <1>11 DEF RevokeErrs, Unanswered, Kinds, TypeOK, objectVars, callVars,
     ClaimInv, OneWriter, Owning, Waiting
<1>12. ASSUME NEW r \in Requests, CleanUp(r) PROVE ClaimInv'
  BY <1>12 DEF CleanUp, ObjectAfter, TypeOK, objectVars, callVars, ClaimInv,
     OneWriter, Owning, Waiting
<1>13. ASSUME NEW r \in Requests, CleanUpErrs(r) PROVE ClaimInv'
  BY <1>13 DEF CleanUpErrs, Unanswered, Kinds, TypeOK, objectVars, callVars,
     ClaimInv, OneWriter, Owning, Waiting
<1>14. ASSUME NEW r \in Requests, RecordFailure(r) PROVE ClaimInv'
  BY <1>14, RowFields, RowEffects DEF RecordFailure, Awaited, TypeOK,
     objectVars, callVars, ClaimInv, OneWriter, Owning, Waiting
<1>15. ASSUME NEW r \in Requests, RecordFailureErrs(r) PROVE ClaimInv'
  BY <1>15 DEF RecordFailureErrs, Unanswered, Awaited, Kinds, TypeOK,
     objectVars, callVars, ClaimInv, OneWriter, Owning, Waiting
<1>16. ASSUME NEW r \in Requests, Submit(r) PROVE ClaimInv'
  BY <1>16 DEF Submit, Submittable, TypeOK, objectVars, callVars, ClaimInv,
     OneWriter, Owning, Waiting, Row
<1>17. ASSUME NEW r \in Requests, SubmitErrs(r) PROVE ClaimInv'
  BY <1>17 DEF SubmitErrs, Kinds, TypeOK, objectVars, callVars, ClaimInv,
     OneWriter, Owning, Waiting
<1>18. ASSUME NEW r \in Requests, Crash(r) PROVE ClaimInv'
  BY <1>18 DEF Crash, Unanswered, Awaited, Kinds, TypeOK, objectVars,
     callVars, ClaimInv, OneWriter, Owning, Waiting
<1>19. ASSUME NEW d \in Deleters, StartDelete(d) PROVE ClaimInv'
  BY <1>19 DEF StartDelete, CreationOver, TypeOK, objectVars, callVars,
     ClaimInv, OneWriter, Owning, Waiting
<1>20. ASSUME NEW d \in Deleters, RemoveObject(d) PROVE ClaimInv'
  BY <1>20 DEF RemoveObject, ObjectAfter, TypeOK, objectVars, callVars,
     ClaimInv, OneWriter, Owning, Waiting
<1>21. ASSUME NEW d \in Deleters, RemoveObjectErrs(d) PROVE ClaimInv'
  BY <1>21 DEF RemoveObjectErrs, Unanswered, Kinds, TypeOK, objectVars,
     callVars, ClaimInv, OneWriter, Owning, Waiting
<1>22. ASSUME NEW d \in Deleters, RecordDeletion(d) PROVE ClaimInv'
  BY <1>22, RowFields, RowEffects DEF RecordDeletion, TypeOK, objectVars,
     callVars, ClaimInv, OneWriter, Owning, Waiting
<1>23. ASSUME NEW d \in Deleters, RecordDeletionErrs(d) PROVE ClaimInv'
  BY <1>23 DEF RecordDeletionErrs, Unanswered, Kinds, TypeOK, objectVars,
     callVars, ClaimInv, OneWriter, Owning, Waiting
<1>24. ASSUME NEW kind \in Kinds, LateLands(kind) PROVE ClaimInv'
  BY <1>24, RowFields, RowEffects, FinalizeChecked DEF LateLands, ObjectAfter,
     Kinds, Claimable, TypeOK, objectVars, callVars, ClaimInv, OneWriter,
     Owning, Waiting
<1>25. CASE UNCHANGED vars
  BY <1>25 DEF vars, objectVars, callVars, ClaimInv, OneWriter, Owning,
     Waiting
<1> QED
  BY <1>1, <1>2, <1>3, <1>4, <1>5, <1>6, <1>7, <1>8, <1>9, <1>10, <1>11,
     <1>12, <1>13, <1>14, <1>15, <1>16, <1>17, <1>18, <1>19, <1>20, <1>21,
     <1>22, <1>23, <1>24, <1>25 DEF Next

\* Once a failure is recorded, or about to be, no upload is under way.
LEMMA FailingStep ==
  ASSUME TypeOK, ClaimInv, FailingInv, WritingInv, BytesInv, ConfirmedInv, [Next]_vars
  PROVE  FailingInv'
<1> row \in Row
  BY DEF TypeOK
<1>1. CASE Register
  BY <1>1 DEF Register, Reserved, TypeOK, objectVars, callVars, FailingInv,
     Failing, Compensating, ClaimInv, OneWriter, Owning, Waiting, WritingInv,
     BytesInv, ConfirmedInv, Row
<1>2. ASSUME NEW r \in Requests, Create(r) PROVE FailingInv'
  BY <1>2 DEF Create, Reserved, TypeOK, objectVars, callVars, FailingInv,
     Failing, Compensating, ClaimInv, OneWriter, Owning, Waiting, WritingInv,
     BytesInv, ConfirmedInv, Row, Kinds
<1>3. ASSUME NEW r \in Requests, ReadSource(r) PROVE FailingInv'
  BY <1>3 DEF ReadSource, TypeOK, objectVars, callVars, FailingInv, Failing,
     Compensating, ClaimInv, OneWriter, Owning, Waiting, WritingInv, BytesInv,
     ConfirmedInv, Row
<1>4. ASSUME NEW r \in Requests, ClaimUpload(r) PROVE FailingInv'
  BY <1>4, RowFields, RowEffects DEF ClaimUpload, Claimable, TypeOK,
     objectVars, callVars, FailingInv, Failing, Compensating, ClaimInv,
     OneWriter, Owning, Waiting, WritingInv, BytesInv, ConfirmedInv, Row,
     Kinds
<1>5. ASSUME NEW r \in Requests, ClaimErrs(r) PROVE FailingInv'
  BY <1>5 DEF ClaimErrs, Unanswered, Kinds, TypeOK, objectVars, callVars,
     FailingInv, Failing, Compensating, ClaimInv, OneWriter, Owning, Waiting,
     WritingInv, BytesInv, ConfirmedInv, Row
<1>6. ASSUME NEW r \in Requests, WriteStores(r) PROVE FailingInv'
  BY <1>6 DEF WriteStores, TypeOK, objectVars, callVars, FailingInv, Failing,
     Compensating, ClaimInv, OneWriter, Owning, Waiting, WritingInv, BytesInv,
     ConfirmedInv, Row, Kinds
<1>7. ASSUME NEW r \in Requests, WriteErrs(r) PROVE FailingInv'
  BY <1>7 DEF WriteErrs, Unanswered, Kinds, TypeOK, objectVars, callVars,
     FailingInv, Failing, Compensating, ClaimInv, OneWriter, Owning, Waiting,
     WritingInv, BytesInv, ConfirmedInv, Row
<1>8. ASSUME NEW r \in Requests, Finalize(r) PROVE FailingInv'
  BY <1>8, RowFields, RowEffects, FinalizeChecked DEF Finalize, TypeOK,
     objectVars, callVars, FailingInv, Failing, Compensating, ClaimInv,
     OneWriter, Owning, Waiting, WritingInv, BytesInv, ConfirmedInv, Row,
     Kinds
<1>9. ASSUME NEW r \in Requests, FinalizeErrs(r) PROVE FailingInv'
  BY <1>9 DEF FinalizeErrs, Unanswered, Kinds, TypeOK, objectVars, callVars,
     FailingInv, Failing, Compensating, ClaimInv, OneWriter, Owning, Waiting,
     WritingInv, BytesInv, ConfirmedInv, Row
<1>10. ASSUME NEW r \in Requests, Revoke(r) PROVE FailingInv'
  BY <1>10, RowFields, RowEffects DEF Revoke, TypeOK, objectVars, callVars,
     FailingInv, Failing, Compensating, ClaimInv, OneWriter, Owning, Waiting,
     WritingInv, BytesInv, ConfirmedInv, Row
<1>11. ASSUME NEW r \in Requests, RevokeErrs(r) PROVE FailingInv'
  BY <1>11 DEF RevokeErrs, Unanswered, Kinds, TypeOK, objectVars, callVars,
     FailingInv, Failing, Compensating, ClaimInv, OneWriter, Owning, Waiting,
     WritingInv, BytesInv, ConfirmedInv, Row
<1>12. ASSUME NEW r \in Requests, CleanUp(r) PROVE FailingInv'
  BY <1>12 DEF CleanUp, ObjectAfter, TypeOK, objectVars, callVars, FailingInv,
     Failing, Compensating, ClaimInv, OneWriter, Owning, Waiting, WritingInv,
     BytesInv, ConfirmedInv, Row
<1>13. ASSUME NEW r \in Requests, CleanUpErrs(r) PROVE FailingInv'
  BY <1>13 DEF CleanUpErrs, Unanswered, Kinds, TypeOK, objectVars, callVars,
     FailingInv, Failing, Compensating, ClaimInv, OneWriter, Owning, Waiting,
     WritingInv, BytesInv, ConfirmedInv, Row
<1>14. ASSUME NEW r \in Requests, RecordFailure(r) PROVE FailingInv'
  <2>1. \E cleanup \in {"yes", "no"} : row' = FailureRecorded(cleanup)
    BY <1>14, RowEffects DEF RecordFailure, Awaited
  <2>2. row'.failedAt = "set" /\ row'.state = "incomplete"
        /\ row'.uploadStartedAt = row.uploadStartedAt
    BY <2>1, RowFields
  <2>3. Compensating
    BY <1>14 DEF RecordFailure, FailingInv
  <2> QED
    BY <1>14, <2>2, <2>3 DEF RecordFailure, TypeOK, objectVars, callVars,
       FailingInv, Failing,
       Compensating
<1>15. ASSUME NEW r \in Requests, RecordFailureErrs(r) PROVE FailingInv'
  BY <1>15 DEF RecordFailureErrs, Unanswered, Awaited, Kinds, TypeOK,
     objectVars, callVars, FailingInv, Failing, Compensating, ClaimInv,
     OneWriter, Owning, Waiting, WritingInv, BytesInv, ConfirmedInv, Row
<1>16. ASSUME NEW r \in Requests, Submit(r) PROVE FailingInv'
  BY <1>16 DEF Submit, Submittable, TypeOK, objectVars, callVars, FailingInv,
     Failing, Compensating, ClaimInv, OneWriter, Owning, Waiting, WritingInv,
     BytesInv, ConfirmedInv, Row
<1>17. ASSUME NEW r \in Requests, SubmitErrs(r) PROVE FailingInv'
  BY <1>17 DEF SubmitErrs, Kinds, TypeOK, objectVars, callVars, FailingInv,
     Failing, Compensating, ClaimInv, OneWriter, Owning, Waiting, WritingInv,
     BytesInv, ConfirmedInv, Row
<1>18. ASSUME NEW r \in Requests, Crash(r) PROVE FailingInv'
  BY <1>18 DEF Crash, Unanswered, Awaited, Kinds, TypeOK, objectVars,
     callVars, FailingInv, Failing, Compensating, ClaimInv, OneWriter, Owning,
     Waiting, WritingInv, BytesInv, ConfirmedInv, Row
<1>19. ASSUME NEW d \in Deleters, StartDelete(d) PROVE FailingInv'
  BY <1>19 DEF StartDelete, CreationOver, TypeOK, objectVars, callVars,
     FailingInv, Failing, Compensating, ClaimInv, OneWriter, Owning, Waiting,
     WritingInv, BytesInv, ConfirmedInv, Row
<1>20. ASSUME NEW d \in Deleters, RemoveObject(d) PROVE FailingInv'
  BY <1>20 DEF RemoveObject, ObjectAfter, TypeOK, objectVars, callVars,
     FailingInv, Failing, Compensating, ClaimInv, OneWriter, Owning, Waiting,
     WritingInv, BytesInv, ConfirmedInv, Row
<1>21. ASSUME NEW d \in Deleters, RemoveObjectErrs(d) PROVE FailingInv'
  BY <1>21 DEF RemoveObjectErrs, Unanswered, Kinds, TypeOK, objectVars,
     callVars, FailingInv, Failing, Compensating, ClaimInv, OneWriter, Owning,
     Waiting, WritingInv, BytesInv, ConfirmedInv, Row
<1>22. ASSUME NEW d \in Deleters, RecordDeletion(d) PROVE FailingInv'
  BY <1>22, RowFields, RowEffects DEF RecordDeletion, TypeOK, objectVars,
     callVars, FailingInv, Failing, Compensating, ClaimInv, OneWriter, Owning,
     Waiting, WritingInv, BytesInv, ConfirmedInv, Row
<1>23. ASSUME NEW d \in Deleters, RecordDeletionErrs(d) PROVE FailingInv'
  BY <1>23 DEF RecordDeletionErrs, Unanswered, Kinds, TypeOK, objectVars,
     callVars, FailingInv, Failing, Compensating, ClaimInv, OneWriter, Owning,
     Waiting, WritingInv, BytesInv, ConfirmedInv, Row
<1>24. ASSUME NEW kind \in Kinds, LateLands(kind) PROVE FailingInv'
  BY <1>24, RowFields, RowEffects, FinalizeChecked DEF LateLands, ObjectAfter,
     Kinds, Claimable, TypeOK, objectVars, callVars, FailingInv, Failing,
     Compensating, ClaimInv, OneWriter, Owning, Waiting, WritingInv, BytesInv,
     ConfirmedInv, Row
<1>25. CASE UNCHANGED vars
  BY <1>25 DEF vars, objectVars, callVars, FailingInv, Failing, Compensating,
     ClaimInv, OneWriter, Owning, Waiting, WritingInv, BytesInv, ConfirmedInv
<1> QED
  BY <1>1, <1>2, <1>3, <1>4, <1>5, <1>6, <1>7, <1>8, <1>9, <1>10, <1>11,
     <1>12, <1>13, <1>14, <1>15, <1>16, <1>17, <1>18, <1>19, <1>20, <1>21,
     <1>22, <1>23, <1>24, <1>25 DEF Next

\* Whoever writes the object finds nothing finalized, now or later.
LEMMA WritingStep ==
  ASSUME TypeOK, ClaimInv, WritingInv, ConfirmedInv, [Next]_vars
  PROVE  WritingInv'
<1> row \in Row
  BY DEF TypeOK
<1>1. CASE Register
  BY <1>1 DEF Register, Reserved, TypeOK, objectVars, callVars, WritingInv,
     ClaimInv, OneWriter, Owning, Waiting, ConfirmedInv, Row
<1>2. ASSUME NEW r \in Requests, Create(r) PROVE WritingInv'
  BY <1>2 DEF Create, Reserved, TypeOK, objectVars, callVars, WritingInv,
     ClaimInv, OneWriter, Owning, Waiting, ConfirmedInv, Row, Kinds
<1>3. ASSUME NEW r \in Requests, ReadSource(r) PROVE WritingInv'
  BY <1>3 DEF ReadSource, TypeOK, objectVars, callVars, WritingInv, ClaimInv,
     OneWriter, Owning, Waiting, ConfirmedInv
<1>4. ASSUME NEW r \in Requests, ClaimUpload(r) PROVE WritingInv'
  BY <1>4, RowFields, RowEffects DEF ClaimUpload, Claimable, TypeOK,
     objectVars, callVars, WritingInv, ClaimInv, OneWriter, Owning, Waiting,
     ConfirmedInv, Kinds
<1>5. ASSUME NEW r \in Requests, ClaimErrs(r) PROVE WritingInv'
  BY <1>5 DEF ClaimErrs, Unanswered, Kinds, TypeOK, objectVars, callVars,
     WritingInv, ClaimInv, OneWriter, Owning, Waiting, ConfirmedInv
<1>6. ASSUME NEW r \in Requests, WriteStores(r) PROVE WritingInv'
  BY <1>6 DEF WriteStores, TypeOK, objectVars, callVars, WritingInv, ClaimInv,
     OneWriter, Owning, Waiting, ConfirmedInv, Kinds
<1>7. ASSUME NEW r \in Requests, WriteErrs(r) PROVE WritingInv'
  BY <1>7 DEF WriteErrs, Unanswered, Kinds, TypeOK, objectVars, callVars,
     WritingInv, ClaimInv, OneWriter, Owning, Waiting, ConfirmedInv
<1>8. ASSUME NEW r \in Requests, Finalize(r) PROVE WritingInv'
  BY <1>8, RowFields, RowEffects, FinalizeChecked DEF Finalize, TypeOK,
     objectVars, callVars, WritingInv, ClaimInv, OneWriter, Owning, Waiting,
     ConfirmedInv, Row, Kinds
<1>9. ASSUME NEW r \in Requests, FinalizeErrs(r) PROVE WritingInv'
  BY <1>9 DEF FinalizeErrs, Unanswered, Kinds, TypeOK, objectVars, callVars,
     WritingInv, ClaimInv, OneWriter, Owning, Waiting, ConfirmedInv
<1>10. ASSUME NEW r \in Requests, Revoke(r) PROVE WritingInv'
  BY <1>10, RowFields, RowEffects DEF Revoke, TypeOK, objectVars, callVars,
     WritingInv, ClaimInv, OneWriter, Owning, Waiting, ConfirmedInv
<1>11. ASSUME NEW r \in Requests, RevokeErrs(r) PROVE WritingInv'
  BY <1>11 DEF RevokeErrs, Unanswered, Kinds, TypeOK, objectVars, callVars,
     WritingInv, ClaimInv, OneWriter, Owning, Waiting, ConfirmedInv
<1>12. ASSUME NEW r \in Requests, CleanUp(r) PROVE WritingInv'
  BY <1>12 DEF CleanUp, ObjectAfter, TypeOK, objectVars, callVars, WritingInv,
     ClaimInv, OneWriter, Owning, Waiting, ConfirmedInv
<1>13. ASSUME NEW r \in Requests, CleanUpErrs(r) PROVE WritingInv'
  BY <1>13 DEF CleanUpErrs, Unanswered, Kinds, TypeOK, objectVars, callVars,
     WritingInv, ClaimInv, OneWriter, Owning, Waiting, ConfirmedInv
<1>14. ASSUME NEW r \in Requests, RecordFailure(r) PROVE WritingInv'
  BY <1>14, RowFields, RowEffects DEF RecordFailure, Awaited, TypeOK,
     objectVars, callVars, WritingInv, ClaimInv, OneWriter, Owning, Waiting,
     ConfirmedInv
<1>15. ASSUME NEW r \in Requests, RecordFailureErrs(r) PROVE WritingInv'
  BY <1>15 DEF RecordFailureErrs, Unanswered, Awaited, Kinds, TypeOK,
     objectVars, callVars, WritingInv, ClaimInv, OneWriter, Owning, Waiting,
     ConfirmedInv
<1>16. ASSUME NEW r \in Requests, Submit(r) PROVE WritingInv'
  BY <1>16 DEF Submit, Submittable, TypeOK, objectVars, callVars, WritingInv,
     ClaimInv, OneWriter, Owning, Waiting, ConfirmedInv, Row
<1>17. ASSUME NEW r \in Requests, SubmitErrs(r) PROVE WritingInv'
  BY <1>17 DEF SubmitErrs, Kinds, TypeOK, objectVars, callVars, WritingInv,
     ClaimInv, OneWriter, Owning, Waiting, ConfirmedInv
<1>18. ASSUME NEW r \in Requests, Crash(r) PROVE WritingInv'
  BY <1>18 DEF Crash, Unanswered, Awaited, Kinds, TypeOK, objectVars,
     callVars, WritingInv, ClaimInv, OneWriter, Owning, Waiting, ConfirmedInv
<1>19. ASSUME NEW d \in Deleters, StartDelete(d) PROVE WritingInv'
  BY <1>19 DEF StartDelete, CreationOver, TypeOK, objectVars, callVars,
     WritingInv, ClaimInv, OneWriter, Owning, Waiting, ConfirmedInv
<1>20. ASSUME NEW d \in Deleters, RemoveObject(d) PROVE WritingInv'
  BY <1>20 DEF RemoveObject, ObjectAfter, TypeOK, objectVars, callVars,
     WritingInv, ClaimInv, OneWriter, Owning, Waiting, ConfirmedInv
<1>21. ASSUME NEW d \in Deleters, RemoveObjectErrs(d) PROVE WritingInv'
  BY <1>21 DEF RemoveObjectErrs, Unanswered, Kinds, TypeOK, objectVars,
     callVars, WritingInv, ClaimInv, OneWriter, Owning, Waiting, ConfirmedInv
<1>22. ASSUME NEW d \in Deleters, RecordDeletion(d) PROVE WritingInv'
  BY <1>22, RowFields, RowEffects DEF RecordDeletion, TypeOK, objectVars,
     callVars, WritingInv, ClaimInv, OneWriter, Owning, Waiting, ConfirmedInv
<1>23. ASSUME NEW d \in Deleters, RecordDeletionErrs(d) PROVE WritingInv'
  BY <1>23 DEF RecordDeletionErrs, Unanswered, Kinds, TypeOK, objectVars,
     callVars, WritingInv, ClaimInv, OneWriter, Owning, Waiting, ConfirmedInv
<1>24. ASSUME NEW kind \in Kinds, LateLands(kind) PROVE WritingInv'
  BY <1>24, RowFields, RowEffects, FinalizeChecked DEF LateLands, ObjectAfter,
     Kinds, Claimable, TypeOK, objectVars, callVars, WritingInv, ClaimInv,
     OneWriter, Owning, Waiting, ConfirmedInv
<1>25. CASE UNCHANGED vars
  BY <1>25 DEF vars, objectVars, callVars, WritingInv, ClaimInv, OneWriter,
     Owning, Waiting, ConfirmedInv
<1> QED
  BY <1>1, <1>2, <1>3, <1>4, <1>5, <1>6, <1>7, <1>8, <1>9, <1>10, <1>11,
     <1>12, <1>13, <1>14, <1>15, <1>16, <1>17, <1>18, <1>19, <1>20, <1>21,
     <1>22, <1>23, <1>24, <1>25 DEF Next

\* A call that removes the object comes from a deletion, or from an upload
\* that nobody can finalize any more.
LEMMA RemovalStep ==
  ASSUME TypeOK, ClaimInv, FailingInv, RemovalInv, [Next]_vars
  PROVE  RemovalInv'
<1> row \in Row
  BY DEF TypeOK
<1>1. CASE Register
  BY <1>1 DEF Register, Reserved, TypeOK, objectVars, callVars, RemovalInv,
     FailingInv, Failing, Compensating, ClaimInv, Row
<1>2. ASSUME NEW r \in Requests, Create(r) PROVE RemovalInv'
  BY <1>2 DEF Create, Reserved, TypeOK, objectVars, callVars, RemovalInv,
     FailingInv, Failing, Compensating, ClaimInv, Row, Kinds
<1>3. ASSUME NEW r \in Requests, ReadSource(r) PROVE RemovalInv'
  BY <1>3 DEF ReadSource, TypeOK, objectVars, callVars, RemovalInv,
     FailingInv, Failing, Compensating, ClaimInv
<1>4. ASSUME NEW r \in Requests, ClaimUpload(r) PROVE RemovalInv'
  BY <1>4, RowFields, RowEffects DEF ClaimUpload, Claimable, TypeOK,
     objectVars, callVars, RemovalInv, FailingInv, Failing, Compensating,
     ClaimInv, Kinds
<1>5. ASSUME NEW r \in Requests, ClaimErrs(r) PROVE RemovalInv'
  BY <1>5 DEF ClaimErrs, Unanswered, Kinds, TypeOK, objectVars, callVars,
     RemovalInv, FailingInv, Failing, Compensating, ClaimInv
<1>6. ASSUME NEW r \in Requests, WriteStores(r) PROVE RemovalInv'
  BY <1>6 DEF WriteStores, TypeOK, objectVars, callVars, RemovalInv,
     FailingInv, Failing, Compensating, ClaimInv, Kinds
<1>7. ASSUME NEW r \in Requests, WriteErrs(r) PROVE RemovalInv'
  BY <1>7 DEF WriteErrs, Unanswered, Kinds, TypeOK, objectVars, callVars,
     RemovalInv, FailingInv, Failing, Compensating, ClaimInv
<1>8. ASSUME NEW r \in Requests, Finalize(r) PROVE RemovalInv'
  BY <1>8, RowFields, RowEffects, FinalizeChecked DEF Finalize, TypeOK,
     objectVars, callVars, RemovalInv, FailingInv, Failing, Compensating,
     ClaimInv, Row, Kinds
<1>9. ASSUME NEW r \in Requests, FinalizeErrs(r) PROVE RemovalInv'
  BY <1>9 DEF FinalizeErrs, Unanswered, Kinds, TypeOK, objectVars, callVars,
     RemovalInv, FailingInv, Failing, Compensating, ClaimInv
<1>10. ASSUME NEW r \in Requests, Revoke(r) PROVE RemovalInv'
  BY <1>10, RowFields, RowEffects DEF Revoke, TypeOK, objectVars, callVars,
     RemovalInv, FailingInv, Failing, Compensating, ClaimInv
<1>11. ASSUME NEW r \in Requests, RevokeErrs(r) PROVE RemovalInv'
  BY <1>11 DEF RevokeErrs, Unanswered, Kinds, TypeOK, objectVars, callVars,
     RemovalInv, FailingInv, Failing, Compensating, ClaimInv
<1>12. ASSUME NEW r \in Requests, CleanUp(r) PROVE RemovalInv'
  BY <1>12 DEF CleanUp, ObjectAfter, TypeOK, objectVars, callVars, RemovalInv,
     FailingInv, Failing, Compensating, ClaimInv
<1>13. ASSUME NEW r \in Requests, CleanUpErrs(r) PROVE RemovalInv'
  BY <1>13 DEF CleanUpErrs, Unanswered, Kinds, TypeOK, objectVars, callVars,
     RemovalInv, FailingInv, Failing, Compensating, ClaimInv
<1>14. ASSUME NEW r \in Requests, RecordFailure(r) PROVE RemovalInv'
  BY <1>14, RowFields, RowEffects DEF RecordFailure, Awaited, TypeOK,
     objectVars, callVars, RemovalInv, FailingInv, Failing, Compensating,
     ClaimInv, Waiting
<1>15. ASSUME NEW r \in Requests, RecordFailureErrs(r) PROVE RemovalInv'
  BY <1>15 DEF RecordFailureErrs, Unanswered, Awaited, Kinds, TypeOK,
     objectVars, callVars, RemovalInv, FailingInv, Failing, Compensating,
     ClaimInv, Waiting
<1>16. ASSUME NEW r \in Requests, Submit(r) PROVE RemovalInv'
  BY <1>16 DEF Submit, Submittable, TypeOK, objectVars, callVars, RemovalInv,
     FailingInv, Failing, Compensating, ClaimInv, Row
<1>17. ASSUME NEW r \in Requests, SubmitErrs(r) PROVE RemovalInv'
  BY <1>17 DEF SubmitErrs, Kinds, TypeOK, objectVars, callVars, RemovalInv,
     FailingInv, Failing, Compensating, ClaimInv
<1>18. ASSUME NEW r \in Requests, Crash(r) PROVE RemovalInv'
  BY <1>18 DEF Crash, Unanswered, Awaited, Kinds, TypeOK, objectVars,
     callVars, RemovalInv, FailingInv, Failing, Compensating, ClaimInv,
     Waiting
<1>19. ASSUME NEW d \in Deleters, StartDelete(d) PROVE RemovalInv'
  BY <1>19 DEF StartDelete, CreationOver, TypeOK, objectVars, callVars,
     RemovalInv, FailingInv, Failing, Compensating, ClaimInv
<1>20. ASSUME NEW d \in Deleters, RemoveObject(d) PROVE RemovalInv'
  BY <1>20 DEF RemoveObject, ObjectAfter, TypeOK, objectVars, callVars,
     RemovalInv, FailingInv, Failing, Compensating, ClaimInv
<1>21. ASSUME NEW d \in Deleters, RemoveObjectErrs(d) PROVE RemovalInv'
  BY <1>21 DEF RemoveObjectErrs, Unanswered, Kinds, TypeOK, objectVars,
     callVars, RemovalInv, FailingInv, Failing, Compensating, ClaimInv
<1>22. ASSUME NEW d \in Deleters, RecordDeletion(d) PROVE RemovalInv'
  BY <1>22, RowFields, RowEffects DEF RecordDeletion, TypeOK, objectVars,
     callVars, RemovalInv, FailingInv, Failing, Compensating, ClaimInv
<1>23. ASSUME NEW d \in Deleters, RecordDeletionErrs(d) PROVE RemovalInv'
  BY <1>23 DEF RecordDeletionErrs, Unanswered, Kinds, TypeOK, objectVars,
     callVars, RemovalInv, FailingInv, Failing, Compensating, ClaimInv
<1>24. ASSUME NEW kind \in Kinds, LateLands(kind) PROVE RemovalInv'
  BY <1>24, RowFields, RowEffects, FinalizeChecked DEF LateLands, ObjectAfter,
     Kinds, Claimable, TypeOK, objectVars, callVars, RemovalInv, FailingInv,
     Failing, Compensating, ClaimInv
<1>25. CASE UNCHANGED vars
  BY <1>25 DEF vars, objectVars, callVars, RemovalInv, FailingInv, Failing,
     Compensating, ClaimInv
<1> QED
  BY <1>1, <1>2, <1>3, <1>4, <1>5, <1>6, <1>7, <1>8, <1>9, <1>10, <1>11,
     <1>12, <1>13, <1>14, <1>15, <1>16, <1>17, <1>18, <1>19, <1>20, <1>21,
     <1>22, <1>23, <1>24, <1>25 DEF Next

\* Compensation never meets an available source, nor one that becomes so.
LEMMA BytesStep ==
  ASSUME TypeOK, ClaimInv, FailingInv, WritingInv, RemovalInv, BytesInv, [Next]_vars
  PROVE  BytesInv'
<1> row \in Row
  BY DEF TypeOK
<1>1. CASE Register
  BY <1>1 DEF Register, Reserved, TypeOK, objectVars, callVars, BytesInv,
     AvailableHasBytes, InPlace, FailingInv, Failing, Compensating,
     WritingInv, RemovalInv, ClaimInv, OneWriter, Owning, Waiting, Row
<1>2. ASSUME NEW r \in Requests, Create(r) PROVE BytesInv'
  BY <1>2 DEF Create, Reserved, TypeOK, objectVars, callVars, BytesInv,
     AvailableHasBytes, InPlace, FailingInv, Failing, Compensating,
     WritingInv, RemovalInv, ClaimInv, OneWriter, Owning, Waiting, Row, Kinds
<1>3. ASSUME NEW r \in Requests, ReadSource(r) PROVE BytesInv'
  BY <1>3 DEF ReadSource, TypeOK, objectVars, callVars, BytesInv,
     AvailableHasBytes, InPlace, FailingInv, Failing, Compensating,
     WritingInv, RemovalInv, ClaimInv, OneWriter, Owning, Waiting
<1>4. ASSUME NEW r \in Requests, ClaimUpload(r) PROVE BytesInv'
  BY <1>4, RowFields, RowEffects DEF ClaimUpload, Claimable, TypeOK,
     objectVars, callVars, BytesInv, AvailableHasBytes, InPlace, FailingInv,
     Failing, Compensating, WritingInv, RemovalInv, ClaimInv, OneWriter,
     Owning, Waiting, Kinds
<1>5. ASSUME NEW r \in Requests, ClaimErrs(r) PROVE BytesInv'
  BY <1>5 DEF ClaimErrs, Unanswered, Kinds, TypeOK, objectVars, callVars,
     BytesInv, AvailableHasBytes, InPlace, FailingInv, Failing, Compensating,
     WritingInv, RemovalInv, ClaimInv, OneWriter, Owning, Waiting
<1>6. ASSUME NEW r \in Requests, WriteStores(r) PROVE BytesInv'
  BY <1>6 DEF WriteStores, TypeOK, objectVars, callVars, BytesInv,
     AvailableHasBytes, InPlace, FailingInv, Failing, Compensating,
     WritingInv, RemovalInv, ClaimInv, OneWriter, Owning, Waiting, Kinds
<1>7. ASSUME NEW r \in Requests, WriteErrs(r) PROVE BytesInv'
  BY <1>7 DEF WriteErrs, Unanswered, Kinds, TypeOK, objectVars, callVars,
     BytesInv, AvailableHasBytes, InPlace, FailingInv, Failing, Compensating,
     WritingInv, RemovalInv, ClaimInv, OneWriter, Owning, Waiting
<1>8. ASSUME NEW r \in Requests, Finalize(r) PROVE BytesInv'
  BY <1>8, RowFields, RowEffects, FinalizeChecked DEF Finalize, TypeOK,
     objectVars, callVars, BytesInv, AvailableHasBytes, InPlace, FailingInv,
     Failing, Compensating, WritingInv, RemovalInv, ClaimInv, OneWriter,
     Owning, Waiting, Row, Kinds
<1>9. ASSUME NEW r \in Requests, FinalizeErrs(r) PROVE BytesInv'
  BY <1>9 DEF FinalizeErrs, Unanswered, Kinds, TypeOK, objectVars, callVars,
     BytesInv, AvailableHasBytes, InPlace, FailingInv, Failing, Compensating,
     WritingInv, RemovalInv, ClaimInv, OneWriter, Owning, Waiting
<1>10. ASSUME NEW r \in Requests, Revoke(r) PROVE BytesInv'
  BY <1>10, RowFields, RowEffects DEF Revoke, TypeOK, objectVars, callVars,
     BytesInv, AvailableHasBytes, InPlace, FailingInv, Failing, Compensating,
     WritingInv, RemovalInv, ClaimInv, OneWriter, Owning, Waiting
<1>11. ASSUME NEW r \in Requests, RevokeErrs(r) PROVE BytesInv'
  BY <1>11 DEF RevokeErrs, Unanswered, Kinds, TypeOK, objectVars, callVars,
     BytesInv, AvailableHasBytes, InPlace, FailingInv, Failing, Compensating,
     WritingInv, RemovalInv, ClaimInv, OneWriter, Owning, Waiting
<1>12. ASSUME NEW r \in Requests, CleanUp(r) PROVE BytesInv'
  BY <1>12 DEF CleanUp, ObjectAfter, TypeOK, objectVars, callVars, BytesInv,
     AvailableHasBytes, InPlace, FailingInv, Failing, Compensating,
     WritingInv, RemovalInv, ClaimInv, OneWriter, Owning, Waiting
<1>13. ASSUME NEW r \in Requests, CleanUpErrs(r) PROVE BytesInv'
  BY <1>13 DEF CleanUpErrs, Unanswered, Kinds, TypeOK, objectVars, callVars,
     BytesInv, AvailableHasBytes, InPlace, FailingInv, Failing, Compensating,
     WritingInv, RemovalInv, ClaimInv, OneWriter, Owning, Waiting
<1>14. ASSUME NEW r \in Requests, RecordFailure(r) PROVE BytesInv'
  BY <1>14, RowFields, RowEffects DEF RecordFailure, Awaited, TypeOK,
     objectVars, callVars, BytesInv, AvailableHasBytes, InPlace, FailingInv,
     Failing, Compensating, WritingInv, RemovalInv, ClaimInv, OneWriter,
     Owning, Waiting
<1>15. ASSUME NEW r \in Requests, RecordFailureErrs(r) PROVE BytesInv'
  BY <1>15 DEF RecordFailureErrs, Unanswered, Awaited, Kinds, TypeOK,
     objectVars, callVars, BytesInv, AvailableHasBytes, InPlace, FailingInv,
     Failing, Compensating, WritingInv, RemovalInv, ClaimInv, OneWriter,
     Owning, Waiting
<1>16. ASSUME NEW r \in Requests, Submit(r) PROVE BytesInv'
  BY <1>16 DEF Submit, Submittable, TypeOK, objectVars, callVars, BytesInv,
     AvailableHasBytes, InPlace, FailingInv, Failing, Compensating,
     WritingInv, RemovalInv, ClaimInv, OneWriter, Owning, Waiting, Row
<1>17. ASSUME NEW r \in Requests, SubmitErrs(r) PROVE BytesInv'
  BY <1>17 DEF SubmitErrs, Kinds, TypeOK, objectVars, callVars, BytesInv,
     AvailableHasBytes, InPlace, FailingInv, Failing, Compensating,
     WritingInv, RemovalInv, ClaimInv, OneWriter, Owning, Waiting
<1>18. ASSUME NEW r \in Requests, Crash(r) PROVE BytesInv'
  BY <1>18 DEF Crash, Unanswered, Awaited, Kinds, TypeOK, objectVars,
     callVars, BytesInv, AvailableHasBytes, InPlace, FailingInv, Failing,
     Compensating, WritingInv, RemovalInv, ClaimInv, OneWriter, Owning,
     Waiting
<1>19. ASSUME NEW d \in Deleters, StartDelete(d) PROVE BytesInv'
  BY <1>19 DEF StartDelete, CreationOver, TypeOK, objectVars, callVars,
     BytesInv, AvailableHasBytes, InPlace, FailingInv, Failing, Compensating,
     WritingInv, RemovalInv, ClaimInv, OneWriter, Owning, Waiting
<1>20. ASSUME NEW d \in Deleters, RemoveObject(d) PROVE BytesInv'
  BY <1>20 DEF RemoveObject, ObjectAfter, TypeOK, objectVars, callVars,
     BytesInv, AvailableHasBytes, InPlace, FailingInv, Failing, Compensating,
     WritingInv, RemovalInv, ClaimInv, OneWriter, Owning, Waiting
<1>21. ASSUME NEW d \in Deleters, RemoveObjectErrs(d) PROVE BytesInv'
  BY <1>21 DEF RemoveObjectErrs, Unanswered, Kinds, TypeOK, objectVars,
     callVars, BytesInv, AvailableHasBytes, InPlace, FailingInv, Failing,
     Compensating, WritingInv, RemovalInv, ClaimInv, OneWriter, Owning,
     Waiting
<1>22. ASSUME NEW d \in Deleters, RecordDeletion(d) PROVE BytesInv'
  BY <1>22, RowFields, RowEffects DEF RecordDeletion, TypeOK, objectVars,
     callVars, BytesInv, AvailableHasBytes, InPlace, FailingInv, Failing,
     Compensating, WritingInv, RemovalInv, ClaimInv, OneWriter, Owning,
     Waiting
<1>23. ASSUME NEW d \in Deleters, RecordDeletionErrs(d) PROVE BytesInv'
  BY <1>23 DEF RecordDeletionErrs, Unanswered, Kinds, TypeOK, objectVars,
     callVars, BytesInv, AvailableHasBytes, InPlace, FailingInv, Failing,
     Compensating, WritingInv, RemovalInv, ClaimInv, OneWriter, Owning,
     Waiting
<1>24. ASSUME NEW kind \in Kinds, LateLands(kind) PROVE BytesInv'
  BY <1>24, RowFields, RowEffects, FinalizeChecked DEF LateLands, ObjectAfter,
     Kinds, Claimable, TypeOK, objectVars, callVars, BytesInv,
     AvailableHasBytes, InPlace, FailingInv, Failing, Compensating,
     WritingInv, RemovalInv, ClaimInv, OneWriter, Owning, Waiting
<1>25. CASE UNCHANGED vars
  BY <1>25 DEF vars, objectVars, callVars, BytesInv, AvailableHasBytes,
     InPlace, FailingInv, Failing, Compensating, WritingInv, RemovalInv,
     ClaimInv, OneWriter, Owning, Waiting
<1> QED
  BY <1>1, <1>2, <1>3, <1>4, <1>5, <1>6, <1>7, <1>8, <1>9, <1>10, <1>11,
     <1>12, <1>13, <1>14, <1>15, <1>16, <1>17, <1>18, <1>19, <1>20, <1>21,
     <1>22, <1>23, <1>24, <1>25 DEF Next

\* No failure is recorded for a source whose upload has returned.
LEMMA ConfirmedStep ==
  ASSUME TypeOK, ClaimInv, FailingInv, RemovalInv, BytesInv, ConfirmedInv, [Next]_vars
  PROVE  ConfirmedInv'
<1> row \in Row
  BY DEF TypeOK
<1>1. CASE Register
  BY <1>1 DEF Register, Reserved, TypeOK, objectVars, callVars, ConfirmedInv,
     ConfirmedStaysReadable, FailingInv, Failing, Compensating, RemovalInv,
     BytesInv, InPlace, ClaimInv, OneWriter, Owning, Waiting, Row
<1>2. ASSUME NEW r \in Requests, Create(r) PROVE ConfirmedInv'
  BY <1>2 DEF Create, Reserved, TypeOK, objectVars, callVars, ConfirmedInv,
     ConfirmedStaysReadable, FailingInv, Failing, Compensating, RemovalInv,
     BytesInv, InPlace, ClaimInv, OneWriter, Owning, Waiting, Row, Kinds
<1>3. ASSUME NEW r \in Requests, ReadSource(r) PROVE ConfirmedInv'
  BY <1>3 DEF ReadSource, TypeOK, objectVars, callVars, ConfirmedInv,
     ConfirmedStaysReadable, FailingInv, Failing, Compensating, RemovalInv,
     BytesInv, InPlace, ClaimInv, OneWriter, Owning, Waiting
<1>4. ASSUME NEW r \in Requests, ClaimUpload(r) PROVE ConfirmedInv'
  BY <1>4, RowFields, RowEffects DEF ClaimUpload, Claimable, TypeOK,
     objectVars, callVars, ConfirmedInv, ConfirmedStaysReadable, FailingInv,
     Failing, Compensating, RemovalInv, BytesInv, InPlace, ClaimInv,
     OneWriter, Owning, Waiting, Kinds
<1>5. ASSUME NEW r \in Requests, ClaimErrs(r) PROVE ConfirmedInv'
  BY <1>5 DEF ClaimErrs, Unanswered, Kinds, TypeOK, objectVars, callVars,
     ConfirmedInv, ConfirmedStaysReadable, FailingInv, Failing, Compensating,
     RemovalInv, BytesInv, InPlace, ClaimInv, OneWriter, Owning, Waiting
<1>6. ASSUME NEW r \in Requests, WriteStores(r) PROVE ConfirmedInv'
  BY <1>6 DEF WriteStores, TypeOK, objectVars, callVars, ConfirmedInv,
     ConfirmedStaysReadable, FailingInv, Failing, Compensating, RemovalInv,
     BytesInv, InPlace, ClaimInv, OneWriter, Owning, Waiting, Kinds
<1>7. ASSUME NEW r \in Requests, WriteErrs(r) PROVE ConfirmedInv'
  BY <1>7 DEF WriteErrs, Unanswered, Kinds, TypeOK, objectVars, callVars,
     ConfirmedInv, ConfirmedStaysReadable, FailingInv, Failing, Compensating,
     RemovalInv, BytesInv, InPlace, ClaimInv, OneWriter, Owning, Waiting
<1>8. ASSUME NEW r \in Requests, Finalize(r) PROVE ConfirmedInv'
  BY <1>8, RowFields, RowEffects, FinalizeChecked DEF Finalize, TypeOK,
     objectVars, callVars, ConfirmedInv, ConfirmedStaysReadable, FailingInv,
     Failing, Compensating, RemovalInv, BytesInv, InPlace, ClaimInv,
     OneWriter, Owning, Waiting, Row, Kinds
<1>9. ASSUME NEW r \in Requests, FinalizeErrs(r) PROVE ConfirmedInv'
  BY <1>9 DEF FinalizeErrs, Unanswered, Kinds, TypeOK, objectVars, callVars,
     ConfirmedInv, ConfirmedStaysReadable, FailingInv, Failing, Compensating,
     RemovalInv, BytesInv, InPlace, ClaimInv, OneWriter, Owning, Waiting
<1>10. ASSUME NEW r \in Requests, Revoke(r) PROVE ConfirmedInv'
  BY <1>10, RowFields, RowEffects DEF Revoke, TypeOK, objectVars, callVars,
     ConfirmedInv, ConfirmedStaysReadable, FailingInv, Failing, Compensating,
     RemovalInv, BytesInv, InPlace, ClaimInv, OneWriter, Owning, Waiting
<1>11. ASSUME NEW r \in Requests, RevokeErrs(r) PROVE ConfirmedInv'
  BY <1>11 DEF RevokeErrs, Unanswered, Kinds, TypeOK, objectVars, callVars,
     ConfirmedInv, ConfirmedStaysReadable, FailingInv, Failing, Compensating,
     RemovalInv, BytesInv, InPlace, ClaimInv, OneWriter, Owning, Waiting
<1>12. ASSUME NEW r \in Requests, CleanUp(r) PROVE ConfirmedInv'
  BY <1>12 DEF CleanUp, ObjectAfter, TypeOK, objectVars, callVars,
     ConfirmedInv, ConfirmedStaysReadable, FailingInv, Failing, Compensating,
     RemovalInv, BytesInv, InPlace, ClaimInv, OneWriter, Owning, Waiting
<1>13. ASSUME NEW r \in Requests, CleanUpErrs(r) PROVE ConfirmedInv'
  BY <1>13 DEF CleanUpErrs, Unanswered, Kinds, TypeOK, objectVars, callVars,
     ConfirmedInv, ConfirmedStaysReadable, FailingInv, Failing, Compensating,
     RemovalInv, BytesInv, InPlace, ClaimInv, OneWriter, Owning, Waiting
<1>14. ASSUME NEW r \in Requests, RecordFailure(r) PROVE ConfirmedInv'
  BY <1>14, RowFields, RowEffects DEF RecordFailure, Awaited, TypeOK,
     objectVars, callVars, ConfirmedInv, ConfirmedStaysReadable, FailingInv,
     Failing, Compensating, RemovalInv, BytesInv, InPlace, ClaimInv,
     OneWriter, Owning, Waiting
<1>15. ASSUME NEW r \in Requests, RecordFailureErrs(r) PROVE ConfirmedInv'
  BY <1>15 DEF RecordFailureErrs, Unanswered, Awaited, Kinds, TypeOK,
     objectVars, callVars, ConfirmedInv, ConfirmedStaysReadable, FailingInv,
     Failing, Compensating, RemovalInv, BytesInv, InPlace, ClaimInv,
     OneWriter, Owning, Waiting
<1>16. ASSUME NEW r \in Requests, Submit(r) PROVE ConfirmedInv'
  BY <1>16 DEF Submit, Submittable, TypeOK, objectVars, callVars,
     ConfirmedInv, ConfirmedStaysReadable, FailingInv, Failing, Compensating,
     RemovalInv, BytesInv, InPlace, ClaimInv, OneWriter, Owning, Waiting, Row
<1>17. ASSUME NEW r \in Requests, SubmitErrs(r) PROVE ConfirmedInv'
  BY <1>17 DEF SubmitErrs, Kinds, TypeOK, objectVars, callVars, ConfirmedInv,
     ConfirmedStaysReadable, FailingInv, Failing, Compensating, RemovalInv,
     BytesInv, InPlace, ClaimInv, OneWriter, Owning, Waiting
<1>18. ASSUME NEW r \in Requests, Crash(r) PROVE ConfirmedInv'
  BY <1>18 DEF Crash, Unanswered, Awaited, Kinds, TypeOK, objectVars,
     callVars, ConfirmedInv, ConfirmedStaysReadable, FailingInv, Failing,
     Compensating, RemovalInv, BytesInv, InPlace, ClaimInv, OneWriter, Owning,
     Waiting
<1>19. ASSUME NEW d \in Deleters, StartDelete(d) PROVE ConfirmedInv'
  BY <1>19 DEF StartDelete, CreationOver, TypeOK, objectVars, callVars,
     ConfirmedInv, ConfirmedStaysReadable, FailingInv, Failing, Compensating,
     RemovalInv, BytesInv, InPlace, ClaimInv, OneWriter, Owning, Waiting
<1>20. ASSUME NEW d \in Deleters, RemoveObject(d) PROVE ConfirmedInv'
  BY <1>20 DEF RemoveObject, ObjectAfter, TypeOK, objectVars, callVars,
     ConfirmedInv, ConfirmedStaysReadable, FailingInv, Failing, Compensating,
     RemovalInv, BytesInv, InPlace, ClaimInv, OneWriter, Owning, Waiting
<1>21. ASSUME NEW d \in Deleters, RemoveObjectErrs(d) PROVE ConfirmedInv'
  BY <1>21 DEF RemoveObjectErrs, Unanswered, Kinds, TypeOK, objectVars,
     callVars, ConfirmedInv, ConfirmedStaysReadable, FailingInv, Failing,
     Compensating, RemovalInv, BytesInv, InPlace, ClaimInv, OneWriter, Owning,
     Waiting
<1>22. ASSUME NEW d \in Deleters, RecordDeletion(d) PROVE ConfirmedInv'
  BY <1>22, RowFields, RowEffects DEF RecordDeletion, TypeOK, objectVars,
     callVars, ConfirmedInv, ConfirmedStaysReadable, FailingInv, Failing,
     Compensating, RemovalInv, BytesInv, InPlace, ClaimInv, OneWriter, Owning,
     Waiting
<1>23. ASSUME NEW d \in Deleters, RecordDeletionErrs(d) PROVE ConfirmedInv'
  BY <1>23 DEF RecordDeletionErrs, Unanswered, Kinds, TypeOK, objectVars,
     callVars, ConfirmedInv, ConfirmedStaysReadable, FailingInv, Failing,
     Compensating, RemovalInv, BytesInv, InPlace, ClaimInv, OneWriter, Owning,
     Waiting
<1>24. ASSUME NEW kind \in Kinds, LateLands(kind) PROVE ConfirmedInv'
  BY <1>24, RowFields, RowEffects, FinalizeChecked DEF LateLands, ObjectAfter,
     Kinds, Claimable, TypeOK, objectVars, callVars, ConfirmedInv,
     ConfirmedStaysReadable, FailingInv, Failing, Compensating, RemovalInv,
     BytesInv, InPlace, ClaimInv, OneWriter, Owning, Waiting
<1>25. CASE UNCHANGED vars
  BY <1>25 DEF vars, objectVars, callVars, ConfirmedInv,
     ConfirmedStaysReadable, FailingInv, Failing, Compensating, RemovalInv,
     BytesInv, InPlace, ClaimInv, OneWriter, Owning, Waiting
<1> QED
  BY <1>1, <1>2, <1>3, <1>4, <1>5, <1>6, <1>7, <1>8, <1>9, <1>10, <1>11,
     <1>12, <1>13, <1>14, <1>15, <1>16, <1>17, <1>18, <1>19, <1>20, <1>21,
     <1>22, <1>23, <1>24, <1>25 DEF Next

\* Only StartDelete writes early, and never back.
LEMMA EarlyStays ==
  ASSUME [Next]_vars, early
  PROVE  early'
<1>1. CASE UNCHANGED vars
  BY <1>1 DEF vars, callVars
<1>2. CASE Register
  BY <1>2 DEF Register, callVars
<1>3. ASSUME NEW r \in Requests,
             \/ Create(r) \/ ReadSource(r) \/ ClaimUpload(r) \/ ClaimErrs(r)
             \/ WriteStores(r) \/ WriteErrs(r)
             \/ Finalize(r) \/ FinalizeErrs(r) \/ Revoke(r) \/ RevokeErrs(r)
             \/ CleanUp(r) \/ CleanUpErrs(r)
             \/ RecordFailure(r) \/ RecordFailureErrs(r)
             \/ Submit(r) \/ SubmitErrs(r) \/ Crash(r)
      PROVE  early'
  BY <1>3 DEF Create, ReadSource, ClaimUpload, ClaimErrs, WriteStores, WriteErrs,
     Finalize, FinalizeErrs, Revoke, RevokeErrs, CleanUp, CleanUpErrs,
     RecordFailure, RecordFailureErrs, Submit, SubmitErrs, Crash, Unanswered,
     callVars
<1>4. ASSUME NEW d \in Deleters,
             \/ StartDelete(d) \/ RemoveObject(d) \/ RemoveObjectErrs(d)
             \/ RecordDeletion(d) \/ RecordDeletionErrs(d)
      PROVE  early'
  BY <1>4 DEF StartDelete, RemoveObject, RemoveObjectErrs, RecordDeletion,
     RecordDeletionErrs, Unanswered, callVars
<1>5. ASSUME NEW kind \in Kinds, LateLands(kind) PROVE early'
  BY <1>5 DEF LateLands
<1> QED
  BY <1>1, <1>2, <1>3, <1>4, <1>5 DEF Next

\* A row with nothing to clean up has no bytes.
LEMMA LeftoversStep ==
  ASSUME ~early', IndInv, LeftoversInv, [Next]_vars
  PROVE  LeftoversInv'
<1> ~early
  BY EarlyStays
<1> row \in Row
  BY DEF IndInv, TypeOK
<1>1. CASE Register
  BY <1>1 DEF Register, Reserved, TypeOK, objectVars, callVars, LeftoversInv,
     LeftoversAreMarked, Gone, CreationOver, IndInv, FailingInv, Failing,
     Compensating, WritingInv, ClaimInv, OneWriter, Owning, Waiting,
     RemovalInv, Row
<1>2. ASSUME NEW r \in Requests, Create(r) PROVE LeftoversInv'
  BY <1>2 DEF Create, Reserved, TypeOK, objectVars, callVars, LeftoversInv,
     LeftoversAreMarked, Gone, CreationOver, IndInv, FailingInv, Failing,
     Compensating, WritingInv, ClaimInv, OneWriter, Owning, Waiting,
     RemovalInv, Row, Kinds
<1>3. ASSUME NEW r \in Requests, ReadSource(r) PROVE LeftoversInv'
  BY <1>3 DEF ReadSource, TypeOK, objectVars, callVars, LeftoversInv,
     LeftoversAreMarked, Gone, CreationOver, IndInv, FailingInv, Failing,
     Compensating, WritingInv, ClaimInv, OneWriter, Owning, Waiting,
     RemovalInv, Row
<1>4. ASSUME NEW r \in Requests, ClaimUpload(r) PROVE LeftoversInv'
  BY <1>4, RowFields, RowEffects DEF ClaimUpload, Claimable, TypeOK,
     objectVars, callVars, LeftoversInv, LeftoversAreMarked, Gone,
     CreationOver, IndInv, FailingInv, Failing, Compensating, WritingInv,
     ClaimInv, OneWriter, Owning, Waiting, RemovalInv, Row, Kinds
<1>5. ASSUME NEW r \in Requests, ClaimErrs(r) PROVE LeftoversInv'
  BY <1>5 DEF ClaimErrs, Unanswered, Kinds, TypeOK, objectVars, callVars,
     LeftoversInv, LeftoversAreMarked, Gone, CreationOver, IndInv, FailingInv,
     Failing, Compensating, WritingInv, ClaimInv, OneWriter, Owning, Waiting,
     RemovalInv, Row
<1>6. ASSUME NEW r \in Requests, WriteStores(r) PROVE LeftoversInv'
  BY <1>6 DEF WriteStores, TypeOK, objectVars, callVars, LeftoversInv,
     LeftoversAreMarked, Gone, CreationOver, IndInv, FailingInv, Failing,
     Compensating, WritingInv, ClaimInv, OneWriter, Owning, Waiting,
     RemovalInv, Row, Kinds
<1>7. ASSUME NEW r \in Requests, WriteErrs(r) PROVE LeftoversInv'
  BY <1>7 DEF WriteErrs, Unanswered, Kinds, TypeOK, objectVars, callVars,
     LeftoversInv, LeftoversAreMarked, Gone, CreationOver, IndInv, FailingInv,
     Failing, Compensating, WritingInv, ClaimInv, OneWriter, Owning, Waiting,
     RemovalInv, Row
<1>8. ASSUME NEW r \in Requests, Finalize(r) PROVE LeftoversInv'
  BY <1>8, RowFields, RowEffects, FinalizeChecked DEF Finalize, TypeOK,
     objectVars, callVars, LeftoversInv, LeftoversAreMarked, Gone,
     CreationOver, IndInv, FailingInv, Failing, Compensating, WritingInv,
     ClaimInv, OneWriter, Owning, Waiting, RemovalInv, Row, Kinds
<1>9. ASSUME NEW r \in Requests, FinalizeErrs(r) PROVE LeftoversInv'
  BY <1>9 DEF FinalizeErrs, Unanswered, Kinds, TypeOK, objectVars, callVars,
     LeftoversInv, LeftoversAreMarked, Gone, CreationOver, IndInv, FailingInv,
     Failing, Compensating, WritingInv, ClaimInv, OneWriter, Owning, Waiting,
     RemovalInv, Row
<1>10. ASSUME NEW r \in Requests, Revoke(r) PROVE LeftoversInv'
  BY <1>10, RowFields, RowEffects DEF Revoke, TypeOK, objectVars, callVars,
     LeftoversInv, LeftoversAreMarked, Gone, CreationOver, IndInv, FailingInv,
     Failing, Compensating, WritingInv, ClaimInv, OneWriter, Owning, Waiting,
     RemovalInv, Row
<1>11. ASSUME NEW r \in Requests, RevokeErrs(r) PROVE LeftoversInv'
  BY <1>11 DEF RevokeErrs, Unanswered, Kinds, TypeOK, objectVars, callVars,
     LeftoversInv, LeftoversAreMarked, Gone, CreationOver, IndInv, FailingInv,
     Failing, Compensating, WritingInv, ClaimInv, OneWriter, Owning, Waiting,
     RemovalInv, Row
<1>12. ASSUME NEW r \in Requests, CleanUp(r) PROVE LeftoversInv'
  BY <1>12 DEF CleanUp, ObjectAfter, TypeOK, objectVars, callVars,
     LeftoversInv, LeftoversAreMarked, Gone, CreationOver, IndInv, FailingInv,
     Failing, Compensating, WritingInv, ClaimInv, OneWriter, Owning, Waiting,
     RemovalInv, Row
<1>13. ASSUME NEW r \in Requests, CleanUpErrs(r) PROVE LeftoversInv'
  BY <1>13 DEF CleanUpErrs, Unanswered, Kinds, TypeOK, objectVars, callVars,
     LeftoversInv, LeftoversAreMarked, Gone, CreationOver, IndInv, FailingInv,
     Failing, Compensating, WritingInv, ClaimInv, OneWriter, Owning, Waiting,
     RemovalInv, Row
<1>14. ASSUME NEW r \in Requests, RecordFailure(r) PROVE LeftoversInv'
  BY <1>14, RowFields, RowEffects DEF RecordFailure, Awaited, TypeOK,
     objectVars, callVars, LeftoversInv, LeftoversAreMarked, Gone,
     CreationOver, IndInv, FailingInv, Failing, Compensating, WritingInv,
     ClaimInv, OneWriter, Owning, Waiting, RemovalInv, Row
<1>15. ASSUME NEW r \in Requests, RecordFailureErrs(r) PROVE LeftoversInv'
  BY <1>15 DEF RecordFailureErrs, Unanswered, Awaited, Kinds, TypeOK,
     objectVars, callVars, LeftoversInv, LeftoversAreMarked, Gone,
     CreationOver, IndInv, FailingInv, Failing, Compensating, WritingInv,
     ClaimInv, OneWriter, Owning, Waiting, RemovalInv, Row
<1>16. ASSUME NEW r \in Requests, Submit(r) PROVE LeftoversInv'
  BY <1>16 DEF Submit, Submittable, TypeOK, objectVars, callVars,
     LeftoversInv, LeftoversAreMarked, Gone, CreationOver, IndInv, FailingInv,
     Failing, Compensating, WritingInv, ClaimInv, OneWriter, Owning, Waiting,
     RemovalInv, Row
<1>17. ASSUME NEW r \in Requests, SubmitErrs(r) PROVE LeftoversInv'
  BY <1>17 DEF SubmitErrs, Kinds, TypeOK, objectVars, callVars, LeftoversInv,
     LeftoversAreMarked, Gone, CreationOver, IndInv, FailingInv, Failing,
     Compensating, WritingInv, ClaimInv, OneWriter, Owning, Waiting,
     RemovalInv, Row
<1>18. ASSUME NEW r \in Requests, Crash(r) PROVE LeftoversInv'
  BY <1>18 DEF Crash, Unanswered, Awaited, Kinds, TypeOK, objectVars,
     callVars, LeftoversInv, LeftoversAreMarked, Gone, CreationOver, IndInv,
     FailingInv, Failing, Compensating, WritingInv, ClaimInv, OneWriter,
     Owning, Waiting, RemovalInv, Row
<1>19. ASSUME NEW d \in Deleters, StartDelete(d) PROVE LeftoversInv'
  BY <1>19 DEF StartDelete, CreationOver, TypeOK, objectVars, callVars,
     LeftoversInv, LeftoversAreMarked, Gone, IndInv, FailingInv, Failing,
     Compensating, WritingInv, ClaimInv, OneWriter, Owning, Waiting,
     RemovalInv, Row
<1>20. ASSUME NEW d \in Deleters, RemoveObject(d) PROVE LeftoversInv'
  BY <1>20 DEF RemoveObject, ObjectAfter, TypeOK, objectVars, callVars,
     LeftoversInv, LeftoversAreMarked, Gone, CreationOver, IndInv, FailingInv,
     Failing, Compensating, WritingInv, ClaimInv, OneWriter, Owning, Waiting,
     RemovalInv, Row
<1>21. ASSUME NEW d \in Deleters, RemoveObjectErrs(d) PROVE LeftoversInv'
  BY <1>21 DEF RemoveObjectErrs, Unanswered, Kinds, TypeOK, objectVars,
     callVars, LeftoversInv, LeftoversAreMarked, Gone, CreationOver, IndInv,
     FailingInv, Failing, Compensating, WritingInv, ClaimInv, OneWriter,
     Owning, Waiting, RemovalInv, Row
<1>22. ASSUME NEW d \in Deleters, RecordDeletion(d) PROVE LeftoversInv'
  BY <1>22, RowFields, RowEffects DEF RecordDeletion, TypeOK, objectVars,
     callVars, LeftoversInv, LeftoversAreMarked, Gone, CreationOver, IndInv,
     FailingInv, Failing, Compensating, WritingInv, ClaimInv, OneWriter,
     Owning, Waiting, RemovalInv, Row
<1>23. ASSUME NEW d \in Deleters, RecordDeletionErrs(d) PROVE LeftoversInv'
  BY <1>23 DEF RecordDeletionErrs, Unanswered, Kinds, TypeOK, objectVars,
     callVars, LeftoversInv, LeftoversAreMarked, Gone, CreationOver, IndInv,
     FailingInv, Failing, Compensating, WritingInv, ClaimInv, OneWriter,
     Owning, Waiting, RemovalInv, Row
<1>24. ASSUME NEW kind \in Kinds, LateLands(kind) PROVE LeftoversInv'
  <2> USE DEF LateLands, ObjectAfter, Kinds, TypeOK, objectVars, LeftoversInv,
         LeftoversAreMarked, Gone, CreationOver, IndInv
  <2>1. CASE kind = "put"
    BY <1>24, <2>1, RowEffects
  <2>2. CASE kind = "remove"
    BY <1>24, <2>2, RowEffects
  <2>3. CASE kind = "claim"
    BY <1>24, <2>3, RowEffects, RowFields DEF Claimable, Row
  <2>4. CASE kind = "finalize"
    BY <1>24, <2>4, RowEffects, RowFields DEF ClaimInv, WritingInv, Row
  <2>5. CASE kind \in {"revoke", "noteYes"}
    BY <1>24, <2>5, RowEffects, RowFields DEF FailingInv, Failing
  <2>6. CASE kind = "noteNo"
    BY <1>24, <2>6, RowEffects, RowFields DEF FailingInv, Failing
  <2>7. CASE kind = "deletion"
    BY <1>24, <2>7, RowEffects, RowFields DEF Owning, Waiting
  <2> QED
    BY <1>24, <2>1, <2>2, <2>3, <2>4, <2>5, <2>6, <2>7 DEF Kinds
<1>25. CASE UNCHANGED vars
  BY <1>25 DEF vars, objectVars, callVars, LeftoversInv, LeftoversAreMarked,
     Gone, CreationOver, IndInv, FailingInv, Failing, Compensating,
     WritingInv, ClaimInv, OneWriter, Owning, Waiting, RemovalInv
<1> QED
  BY <1>1, <1>2, <1>3, <1>4, <1>5, <1>6, <1>7, <1>8, <1>9, <1>10, <1>11,
     <1>12, <1>13, <1>14, <1>15, <1>16, <1>17, <1>18, <1>19, <1>20, <1>21,
     <1>22, <1>23, <1>24, <1>25 DEF Next

-----------------------------------------------------------------------------
\* The row is written by registration, by the statements of
\* import-source-persistence.ts and by the link of a submission, by nothing else.
LEMMA RowSteps ==
  ASSUME [Next]_vars
  PROVE  \/ row' = row
         \/ /\ row.state = "none"
            /\ \E source, started \in {"null", "set"} : row' = Reserved(source, started)
         \/ \E kind \in Kinds : row' = RowAfter(kind)
         \/ \E r \in Requests : row' = [row EXCEPT !.ingestionId = r]
<1>1. CASE UNCHANGED vars
  BY <1>1 DEF vars
<1>2. CASE Register
  BY <1>2 DEF Register
<1>3. ASSUME NEW r \in Requests,
             \/ Create(r) \/ ReadSource(r) \/ ClaimUpload(r) \/ ClaimErrs(r)
             \/ WriteStores(r) \/ WriteErrs(r)
             \/ Finalize(r) \/ FinalizeErrs(r) \/ Revoke(r) \/ RevokeErrs(r)
             \/ CleanUp(r) \/ CleanUpErrs(r)
             \/ RecordFailure(r) \/ RecordFailureErrs(r)
             \/ Submit(r) \/ SubmitErrs(r) \/ Crash(r)
      PROVE  \/ row' = row
             \/ /\ row.state = "none"
                /\ \E source, started \in {"null", "set"} : row' = Reserved(source, started)
             \/ \E kind \in Kinds : row' = RowAfter(kind)
             \/ \E q \in Requests : row' = [row EXCEPT !.ingestionId = q]
  <2>1. CASE Create(r)
    BY <2>1 DEF Create
  <2>2. CASE ClaimUpload(r) \/ Finalize(r) \/ Revoke(r)
    BY <2>2 DEF ClaimUpload, Finalize, Revoke, Kinds
  <2>3. CASE RecordFailure(r)
    BY <2>3 DEF RecordFailure, Awaited, Kinds
  <2>4. CASE Submit(r)
    BY <2>4 DEF Submit
  <2>5. CASE ReadSource(r) \/ ClaimErrs(r) \/ WriteStores(r) \/ WriteErrs(r) \/ FinalizeErrs(r)
    BY <2>5 DEF ReadSource, ClaimErrs, WriteStores, WriteErrs, FinalizeErrs
  <2>6. CASE \/ RevokeErrs(r) \/ CleanUp(r) \/ CleanUpErrs(r) \/ RecordFailureErrs(r)
             \/ SubmitErrs(r) \/ Crash(r)
    BY <2>6 DEF RevokeErrs, CleanUp, CleanUpErrs, RecordFailureErrs, SubmitErrs,
       Crash
  <2> QED
    BY <1>3, <2>1, <2>2, <2>3, <2>4, <2>5, <2>6
<1>4. ASSUME NEW d \in Deleters,
             \/ StartDelete(d) \/ RemoveObject(d) \/ RemoveObjectErrs(d)
             \/ RecordDeletion(d) \/ RecordDeletionErrs(d)
      PROVE  row' = row \/ \E kind \in Kinds : row' = RowAfter(kind)
  <2>1. CASE RecordDeletion(d)
    BY <2>1 DEF RecordDeletion, Kinds
  <2>2. CASE StartDelete(d) \/ RemoveObject(d) \/ RemoveObjectErrs(d) \/ RecordDeletionErrs(d)
    BY <2>2 DEF StartDelete, RemoveObject, RemoveObjectErrs, RecordDeletionErrs
  <2> QED
    BY <1>4, <2>1, <2>2
<1>5. ASSUME NEW kind \in Kinds, LateLands(kind) PROVE row' = RowAfter(kind)
  BY <1>5 DEF LateLands
<1> QED
  BY <1>1, <1>2, <1>3, <1>4, <1>5 DEF Next

\* No statement resets deletedAt, and none makes a deleted source available.
LEMMA DeletionStep ==
  ASSUME TypeOK, DeletedInv, [Next]_vars
  PROVE  /\ DeletedInv'
         /\ row.deletedAt = "set" => row'.deletedAt = "set" /\ row'.state # "available"
<1> row \in Row
  BY DEF TypeOK
<1>1. CASE row' = row
  BY <1>1 DEF DeletedInv
<1>2. ASSUME NEW source, NEW started, row' = Reserved(source, started)
      PROVE  row'.state = "incomplete" /\ row'.deletedAt = row.deletedAt
  BY <1>2 DEF Reserved, Row
<1>3. ASSUME NEW kind \in Kinds, row' = RowAfter(kind)
      PROVE  /\ row'.deletedAt = "set" => row'.state # "available"
             /\ row.deletedAt = "set" => row'.deletedAt = "set"
  BY <1>3, RowEffects, RowFields, FinalizeChecked DEF Kinds, DeletedInv
<1>4. ASSUME NEW r \in Requests, row' = [row EXCEPT !.ingestionId = r]
      PROVE  row'.state = row.state /\ row'.deletedAt = row.deletedAt
  BY <1>4 DEF Row
<1> QED
  BY <1>1, <1>2, <1>3, <1>4, RowSteps DEF DeletedInv

-----------------------------------------------------------------------------
\* Nothing is claimed, written or late when a source does not exist yet.
LEMMA InitInv == Init => IndInv
<1> SUFFICES ASSUME Init PROVE IndInv
  OBVIOUS
<1> USE DEF Init
<1>1. row \in Row
  BY NoneAssumption DEF Row
<1>2. TypeOK
  BY <1>1 DEF TypeOK, Kinds
<1>3. ClaimInv
  BY DEF ClaimInv, OneWriter, Owning, Waiting, Kinds
<1>4. FailingInv /\ WritingInv
  BY DEF FailingInv, WritingInv, Kinds
<1>5. RemovalInv /\ BytesInv /\ ConfirmedInv
  BY DEF RemovalInv, BytesInv, AvailableHasBytes, ConfirmedInv,
     ConfirmedStaysReadable, Kinds
<1> QED
  BY <1>2, <1>3, <1>4, <1>5 DEF IndInv

\* The inductive invariant holds of every reachable state.
THEOREM Inductive == Spec => []IndInv
<1>1. IndInv /\ [Next]_vars => IndInv'
  BY TypeStep, ClaimStep, FailingStep, WritingStep, RemovalStep, BytesStep,
     ConfirmedStep
     DEF IndInv
<1> QED
  BY InitInv, <1>1, PTL DEF Spec

\* Every variable keeps its type.
THEOREM TypeCorrect == Spec => []TypeOK
<1>1. IndInv => TypeOK
  BY DEF IndInv
<1> QED
  BY Inductive, <1>1, PTL

\* However many requests race and fail, one of them at most writes the object.
THEOREM OnlyOneWrites == Spec => []OneWriter
<1>1. IndInv => OneWriter
  BY DEF IndInv, ClaimInv
<1> QED
  BY Inductive, <1>1, PTL

\* An available source has its bytes, whatever lands late, until somebody
\* deletes it.
THEOREM Available == Spec => []AvailableHasBytes
<1>1. IndInv => AvailableHasBytes
  BY DEF IndInv, BytesInv
<1> QED
  BY Inductive, <1>1, PTL

\* A source whose upload has returned stays readable until somebody deletes it.
THEOREM Confirmed == Spec => []ConfirmedStaysReadable
<1>1. IndInv => ConfirmedStaysReadable
  BY DEF IndInv, ConfirmedInv
<1> QED
  BY Inductive, <1>1, PTL

\* As long as deletions wait for creation to end, no bytes are left unmarked.
THEOREM Marked == Spec => []LeftoversAreMarked
<1> DEFINE Inv == ~early => LeftoversInv
<1>1. Init => Inv
  BY DEF Init, LeftoversInv, LeftoversAreMarked, Kinds
<1>2. IndInv /\ Inv /\ [Next]_vars => Inv'
  BY LeftoversStep, EarlyStays
<1>3. Inv => LeftoversAreMarked
  BY DEF LeftoversInv, LeftoversAreMarked
<1> HIDE DEF Inv
<1> QED
  BY Inductive, <1>1, <1>2, <1>3, PTL DEF Spec

\* A statement that lands after the deletion of a source leaves it deleted or
\* unavailable: the CHECK refuses a finalization, and deletedAt is never reset.
THEOREM Deletion == Spec => DeletionIsFinal
<1>1. Init => DeletedInv
  BY DEF Init, DeletedInv
<1>2. TypeOK /\ DeletedInv /\ [Next]_vars => DeletedInv'
  BY DeletionStep
<1>3. TypeOK /\ DeletedInv /\ [Next]_vars =>
        [row.deletedAt = "set" => row'.deletedAt = "set" /\ row'.state # "available"]_vars
  BY DeletionStep
<1> QED
  BY TypeCorrect, <1>1, <1>2, <1>3, PTL DEF Spec, DeletionIsFinal

=============================================================================
