---------------------------- MODULE ImportSources ----------------------------
(***************************************************************************)
(* One import source of packages/backend: its row in import_source, its    *)
(* object in the bucket, the upload requests that race for it              *)
(* (import-sources.ts, import-source-persistence.ts), the submission that  *)
(* follows a successful upload (ingestions.ts) and explicit deletion.      *)
(* Sources share no row and no object, so one stands for all of them.      *)
(*                                                                         *)
(* PostgreSQL and the object store share no transaction.  A call whose     *)
(* caller saw an error, or died, may have taken effect, may never take     *)
(* effect, or may take effect later, after other calls: late counts those  *)
(* that still can.  A call that took effect before its error was seen is   *)
(* a late one that lands at once.                                          *)
(*                                                                         *)
(* A timestamp is null or set; bytes of the declared length are one value. *)
(* A cancelled request is one that fails at the next place the code looks  *)
(* at its signal.  A definition whose name ends in Slip is the one after   *)
(* it with a mistake; the specification does not use it.                   *)
(***************************************************************************)
EXTENDS Naturals

CONSTANTS
  Requests,           \* PUT requests for this source, and calls of create()
  Deleters,           \* callers of deleteByID
  None,               \* no ingestion
  MaxLate             \* bound: calls that may land after their caller gave up

ASSUME NoneAssumption == None \notin Requests
ASSUME MaxLateAssumption == MaxLate \in Nat

VARIABLES
  row,         \* the row in import_source
  object,      \* the source's object in the bucket
  pc,          \* where each request is
  deleting,    \* where each call of deleteByID is
  late,        \* calls of each kind that may still land
  lates,       \* how many calls were ever left to land late
  early,       \* some deleteByID did not wait for creation to end
  confirmed,   \* some upload() has returned the available source
  writers,     \* requests that started to write the object
  removed,     \* deleteByID has removed the object
  strayed      \* a put has landed after its caller gave up

objectVars == <<object, writers, removed, strayed>>
callVars == <<late, lates, early>>
vars == <<row, objectVars, pc, deleting, callVars, confirmed>>

Row == [state : {"none", "incomplete", "available", "deleted"},
        source : {"null", "set"},
        uploadStartedAt : {"null", "set"},
        availableAt : {"null", "set"},
        failedAt : {"null", "set"},
        deletedAt : {"null", "set"},
        cleanupRequired : {"yes", "no"},
        ingestionId : Requests \cup {None}]

Kinds == {"claim", "put", "finalize", "revoke", "remove",
          "noteYes", "noteNo", "deletion"}

\* The call a request is waiting for at each place.
Waiting == {"claiming", "writing", "finalizing", "revoking", "cleaning",
            "notingYes", "notingNo"}
Awaited(place) ==
  CASE place = "claiming" -> "claim"
    [] place = "writing" -> "put"
    [] place = "finalizing" -> "finalize"
    [] place = "revoking" -> "revoke"
    [] place = "cleaning" -> "remove"
    [] place = "notingYes" -> "noteYes"
    [] place = "notingNo" -> "noteNo"

\* The places between a confirmed claim and the end of transfer().
Owning == Waiting \ {"claiming"}
Ended == {"rejected", "failed", "unsubmitted", "accepted"}

Init ==
  /\ row = [state |-> "none", source |-> "null",
            uploadStartedAt |-> "null", availableAt |-> "null",
            failedAt |-> "null", deletedAt |-> "null",
            cleanupRequired |-> "yes", ingestionId |-> None]
  /\ object = "absent"
  /\ pc = [r \in Requests |-> "idle"]
  /\ deleting = [d \in Deleters |-> "idle"]
  /\ late = [k \in Kinds |-> 0]
  /\ lates = 0
  /\ early = FALSE
  /\ confirmed = FALSE
  /\ writers = {}
  /\ removed = FALSE
  /\ strayed = FALSE

-----------------------------------------------------------------------------
(***************************************************************************)
(* The statements of import-source-persistence.ts.  Each is one UPDATE; a  *)
(* row that import_source_available_check refuses is not written.          *)
(***************************************************************************)
CheckedSlip(r) ==
  r.state = "available" => r.availableAt = "set" /\ r.cleanupRequired = "no"
Checked(r) ==
  r.state = "available" =>
    /\ r.availableAt = "set"
    /\ r.deletedAt = "null"
    /\ r.failedAt = "null"
    /\ r.cleanupRequired = "no"

ClaimableSlip(r) ==
  /\ r.state = "incomplete"
  /\ r.source = "set"
  /\ r.failedAt = "null"
Claimable(r) ==
  /\ r.uploadStartedAt = "null"
  /\ r.state = "incomplete"
  /\ r.source = "set"
  /\ r.availableAt = "null"
  /\ r.failedAt = "null"
  /\ r.deletedAt = "null"
  /\ r.ingestionId = None

Claimed == [row EXCEPT !.uploadStartedAt = "set"]

Finalized == [row EXCEPT !.state = "available",
                         !.availableAt = "set",
                         !.cleanupRequired = "no"]

FailureRecorded(cleanup) == [row EXCEPT !.state = "incomplete",
                                        !.availableAt = "null",
                                        !.failedAt = "set",
                                        !.cleanupRequired = cleanup]

DeletionRecorded == [row EXCEPT !.state = "deleted",
                                !.deletedAt = "set",
                                !.cleanupRequired = "no"]

\* What a call does to the row and to the object when it lands.
RowAfter(kind) ==
  CASE kind = "claim" /\ Claimable(row) -> Claimed
    [] kind = "finalize" /\ Checked(Finalized) -> Finalized
    [] kind \in {"revoke", "noteYes"} -> FailureRecorded("yes")
    [] kind = "noteNo" -> FailureRecorded("no")
    [] kind = "deletion" -> DeletionRecorded
    [] OTHER -> row

ObjectAfter(kind) ==
  CASE kind = "put" -> "stored"
    [] kind = "remove" -> "absent"
    [] OTHER -> object

\* The caller sees an error: the call is lost, or still on its way.
Unanswered(kind) ==
  \/ UNCHANGED callVars
  \/ /\ lates < MaxLate
     /\ late' = [late EXCEPT ![kind] = @ + 1]
     /\ lates' = lates + 1
     /\ early' = early

-----------------------------------------------------------------------------
(***************************************************************************)
(* register() and create().  Neither is called twice for one source.       *)
(***************************************************************************)
Reserved(source, started) ==
  [row EXCEPT !.state = "incomplete",
              !.source = source,
              !.uploadStartedAt = started]

Register ==
  /\ row.state = "none"
  /\ row' = Reserved("set", "null")
  /\ UNCHANGED <<objectVars, pc, deleting, callVars, confirmed>>

Create(r) ==
  /\ row.state = "none"
  /\ row' = Reserved("null", "set")
  /\ \/ pc' = [pc EXCEPT ![r] = "writing"] /\ writers' = writers \cup {r}
     \/ pc' = [pc EXCEPT ![r] = "failed"] /\ UNCHANGED writers
  /\ UNCHANGED <<object, removed, strayed, deleting, callVars, confirmed>>

-----------------------------------------------------------------------------
(***************************************************************************)
(* upload(): the row is read, then claimed by a conditional update.        *)
(***************************************************************************)
ReadSource(r) ==
  /\ row.state # "none"
  /\ pc[r] = "idle"
  /\ \/ /\ row.uploadStartedAt = "null"
        /\ pc' = [pc EXCEPT ![r] = "claiming"]
     \/ pc' = [pc EXCEPT ![r] = "rejected"]
  /\ UNCHANGED <<row, objectVars, deleting, callVars, confirmed>>

ClaimUpload(r) ==
  /\ pc[r] = "claiming"
  /\ row' = RowAfter("claim")
  /\ IF Claimable(row)
     THEN pc' = [pc EXCEPT ![r] = "writing"] /\ writers' = writers \cup {r}
     ELSE pc' = [pc EXCEPT ![r] = "rejected"] /\ UNCHANGED writers
  /\ UNCHANGED <<object, removed, strayed, deleting, callVars, confirmed>>

\* No confirmed claim means no ownership of bytes.
ClaimErrs(r) ==
  /\ pc[r] = "claiming"
  /\ Unanswered("claim")
  /\ pc' = [pc EXCEPT ![r] = "rejected"]
  /\ UNCHANGED <<row, objectVars, deleting, confirmed>>

(***************************************************************************)
(* transfer(): write the object, then finalize the row.  The signal is     *)
(* looked at between the two.                                              *)
(***************************************************************************)
WriteStores(r) ==
  /\ pc[r] = "writing"
  /\ object' = "stored"
  /\ \E next \in {"finalizing", "cleaning"} : pc' = [pc EXCEPT ![r] = next]
  /\ UNCHANGED <<row, writers, removed, strayed, deleting, callVars, confirmed>>

WriteErrs(r) ==
  /\ pc[r] = "writing"
  /\ Unanswered("put")
  /\ pc' = [pc EXCEPT ![r] = "cleaning"]
  /\ UNCHANGED <<row, objectVars, deleting, confirmed>>

\* A source made by create() ends here; an upload goes on to its submission.
Finalize(r) ==
  /\ pc[r] = "finalizing"
  /\ row' = RowAfter("finalize")
  /\ IF Checked(Finalized)
     THEN /\ confirmed' = TRUE
          /\ pc' = [pc EXCEPT ![r] = IF row.source = "set" THEN "uploaded"
                                     ELSE "unsubmitted"]
     ELSE /\ pc' = [pc EXCEPT ![r] = "revoking"]
          /\ UNCHANGED confirmed
  /\ UNCHANGED <<objectVars, deleting, callVars>>

FinalizeErrsSlip(r) ==
  /\ pc[r] = "finalizing"
  /\ Unanswered("finalize")
  /\ pc' = [pc EXCEPT ![r] = "cleaning"]
  /\ UNCHANGED <<row, objectVars, deleting, confirmed>>
FinalizeErrs(r) ==
  /\ pc[r] = "finalizing"
  /\ Unanswered("finalize")
  /\ pc' = [pc EXCEPT ![r] = "revoking"]
  /\ UNCHANGED <<row, objectVars, deleting, confirmed>>

\* Availability is revoked first; unless that is certain the bytes stay.
Revoke(r) ==
  /\ pc[r] = "revoking"
  /\ row' = RowAfter("revoke")
  /\ pc' = [pc EXCEPT ![r] = "cleaning"]
  /\ UNCHANGED <<objectVars, deleting, callVars, confirmed>>

RevokeErrs(r) ==
  /\ pc[r] = "revoking"
  /\ Unanswered("revoke")
  /\ pc' = [pc EXCEPT ![r] = "failed"]
  /\ UNCHANGED <<row, objectVars, deleting, confirmed>>

CleanUp(r) ==
  /\ pc[r] = "cleaning"
  /\ object' = ObjectAfter("remove")
  /\ pc' = [pc EXCEPT ![r] = "notingNo"]
  /\ UNCHANGED <<row, writers, removed, strayed, deleting, callVars, confirmed>>

CleanUpErrsSlip(r) ==
  /\ pc[r] = "cleaning"
  /\ Unanswered("remove")
  /\ pc' = [pc EXCEPT ![r] = "notingNo"]
  /\ UNCHANGED <<row, objectVars, deleting, confirmed>>
CleanUpErrs(r) ==
  /\ pc[r] = "cleaning"
  /\ Unanswered("remove")
  /\ pc' = [pc EXCEPT ![r] = "notingYes"]
  /\ UNCHANGED <<row, objectVars, deleting, confirmed>>

\* The bookkeeping of the failure; an error of it is only logged.
RecordFailure(r) ==
  /\ pc[r] \in {"notingYes", "notingNo"}
  /\ row' = RowAfter(Awaited(pc[r]))
  /\ pc' = [pc EXCEPT ![r] = "failed"]
  /\ UNCHANGED <<objectVars, deleting, callVars, confirmed>>

RecordFailureErrs(r) ==
  /\ pc[r] \in {"notingYes", "notingNo"}
  /\ Unanswered(Awaited(pc[r]))
  /\ pc' = [pc EXCEPT ![r] = "failed"]
  /\ UNCHANGED <<row, objectVars, deleting, confirmed>>

-----------------------------------------------------------------------------
(***************************************************************************)
(* submit(): one transaction locks the source, creates the ingestion,      *)
(* links the two and stores the job.  The ingestion is named by its        *)
(* request.  An error, even of the commit, never touches the bytes.  The   *)
(* row stays locked until the commit, so it counts as happening at once.   *)
(***************************************************************************)
Submittable(r) ==
  /\ r.state = "available"
  /\ r.deletedAt = "null"
  /\ r.ingestionId = None
  /\ r.source = "set"

Submit(r) ==
  /\ pc[r] = "uploaded"
  /\ IF Submittable(row)
     THEN /\ row' = [row EXCEPT !.ingestionId = r]
          /\ \E next \in {"accepted", "unsubmitted"} : pc' = [pc EXCEPT ![r] = next]
     ELSE /\ pc' = [pc EXCEPT ![r] = "unsubmitted"]
          /\ UNCHANGED row
  /\ UNCHANGED <<objectVars, deleting, callVars, confirmed>>

\* Cancelled before the transaction, or rolled back.
SubmitErrsSlip(r) ==
  /\ pc[r] = "uploaded"
  /\ pc' = [pc EXCEPT ![r] = "revoking"]
  /\ UNCHANGED <<row, objectVars, deleting, callVars, confirmed>>
SubmitErrs(r) ==
  /\ pc[r] = "uploaded"
  /\ pc' = [pc EXCEPT ![r] = "unsubmitted"]
  /\ UNCHANGED <<row, objectVars, deleting, callVars, confirmed>>

\* The API process dies under a request.
Crash(r) ==
  /\ pc[r] \in Waiting
  /\ Unanswered(Awaited(pc[r]))
  /\ pc' = [pc EXCEPT ![r] = "failed"]
  /\ UNCHANGED <<row, objectVars, deleting, confirmed>>

-----------------------------------------------------------------------------
(***************************************************************************)
(* deleteByID().  Its documentation asks callers to wait until creation    *)
(* has finished or been abandoned; nothing in the code does.               *)
(***************************************************************************)
CreationOver ==
  /\ row.uploadStartedAt = "set"
  /\ \A r \in Requests : pc[r] \notin Owning

StartDelete(d) ==
  /\ deleting[d] = "idle"
  /\ row.state \in {"incomplete", "available"}
  /\ early' = IF CreationOver THEN early ELSE TRUE
  /\ deleting' = [deleting EXCEPT ![d] = "removing"]
  /\ UNCHANGED <<row, objectVars, pc, late, lates, confirmed>>

RemoveObject(d) ==
  /\ deleting[d] = "removing"
  /\ object' = ObjectAfter("remove")
  /\ removed' = TRUE
  /\ deleting' = [deleting EXCEPT ![d] = "recording"]
  /\ UNCHANGED <<row, writers, strayed, pc, callVars, confirmed>>

\* A request the object store may still carry out counts as a removal.
RemoveObjectErrs(d) ==
  /\ deleting[d] = "removing"
  /\ Unanswered("remove")
  /\ removed' = TRUE
  /\ deleting' = [deleting EXCEPT ![d] = "idle"]
  /\ UNCHANGED <<row, object, writers, strayed, pc, confirmed>>

RecordDeletion(d) ==
  /\ deleting[d] = "recording"
  /\ row' = RowAfter("deletion")
  /\ deleting' = [deleting EXCEPT ![d] = "idle"]
  /\ UNCHANGED <<objectVars, pc, callVars, confirmed>>

RecordDeletionErrs(d) ==
  /\ deleting[d] = "recording"
  /\ Unanswered("deletion")
  /\ deleting' = [deleting EXCEPT ![d] = "idle"]
  /\ UNCHANGED <<row, objectVars, pc, confirmed>>

\* A call nobody waits for any more takes effect.
LateLands(kind) ==
  /\ late[kind] > 0
  /\ late' = [late EXCEPT ![kind] = @ - 1]
  /\ row' = RowAfter(kind)
  /\ object' = ObjectAfter(kind)
  /\ strayed' = (strayed \/ kind = "put")
  /\ UNCHANGED <<writers, removed, pc, deleting, lates, early, confirmed>>

-----------------------------------------------------------------------------
Next ==
  \/ Register
  \/ \E r \in Requests :
       \/ Create(r) \/ ReadSource(r) \/ ClaimUpload(r) \/ ClaimErrs(r)
       \/ WriteStores(r) \/ WriteErrs(r)
       \/ Finalize(r) \/ FinalizeErrs(r) \/ Revoke(r) \/ RevokeErrs(r)
       \/ CleanUp(r) \/ CleanUpErrs(r)
       \/ RecordFailure(r) \/ RecordFailureErrs(r)
       \/ Submit(r) \/ SubmitErrs(r) \/ Crash(r)
  \/ \E d \in Deleters :
       \/ StartDelete(d) \/ RemoveObject(d) \/ RemoveObjectErrs(d)
       \/ RecordDeletion(d) \/ RecordDeletionErrs(d)
  \/ \E kind \in Kinds : LateLands(kind)

Spec == Init /\ [][Next]_vars

-----------------------------------------------------------------------------
TypeOK ==
  /\ row \in Row
  /\ object \in {"absent", "stored"}
  /\ pc \in [Requests -> {"idle", "uploaded"} \cup Waiting \cup Ended]
  /\ deleting \in [Deleters -> {"idle", "removing", "recording"}]
  /\ late \in [Kinds -> Nat]
  /\ lates \in Nat
  /\ early \in BOOLEAN
  /\ confirmed \in BOOLEAN
  /\ writers \subseteq Requests
  /\ removed \in BOOLEAN
  /\ strayed \in BOOLEAN

\* One request at most ever writes the object, whatever errors, crashes and
\* concurrent PUTs there are: "the marker survives success, failure,
\* cancellation, crashes, and cleanup" (docs/import-sources.md, claimUpload).
OneWriter == \A r, q \in writers : r = q

\* A source says "available" only while its bytes are there, unless they were
\* explicitly deleted: an ambiguous finalization is revoked before its bytes
\* go, and a finalization that lands late meets the table's CHECK (transfer()).
AvailableHasBytes ==
  row.state = "available" => object = "stored" \/ removed

\* Once an upload has returned, no cancellation, failed submission or lost
\* commit takes the source away: it stays readable until deleteByID (submit()).
ConfirmedStaysReadable ==
  confirmed => removed \/ (row.state = "available" /\ object = "stored")

\* When deletions wait for creation to end, as deleteByID documents, bytes that
\* nobody can read are marked for cleanup, so that an operator can find them;
\* only a put that landed after its caller gave up escapes.
LeftoversAreMarked ==
  ~early =>
    (object = "stored" =>
       row.state = "available" \/ row.cleanupRequired = "yes" \/ strayed)

\* A source whose deletion was recorded never becomes available again, not
\* even through a finalization that lands after it.
DeletionIsFinal ==
  [][row.deletedAt = "set" => row'.deletedAt = "set" /\ row'.state # "available"]_vars

-----------------------------------------------------------------------------
(***************************************************************************)
(* The inductive invariant.                                                *)
(***************************************************************************)

\* Whoever writes has claimed, and a claim is never given back.
ClaimInv ==
  /\ row.state = "none" => row.uploadStartedAt = "null"
  /\ row.uploadStartedAt = "null" => writers = {} /\ late["finalize"] = 0
  /\ \A r \in Requests : pc[r] \in Owning \cup {"uploaded"} => r \in writers
  /\ OneWriter

\* No upload can finalize the source any more, and none has returned it.
Failing ==
  /\ row.uploadStartedAt = "set"
  /\ ~confirmed
  /\ \A r \in Requests : pc[r] \notin {"writing", "finalizing"}

\* The source is not available and no call can make it so: its object may go.
Compensating ==
  /\ Failing
  /\ row.state # "available"
  /\ row.failedAt = "set" \/ late["finalize"] = 0

FailingInv ==
  /\ row.failedAt = "set" => Failing
  /\ late["revoke"] > 0 \/ late["noteYes"] > 0 \/ late["noteNo"] > 0 => Failing
  /\ \A r \in Requests :
       /\ pc[r] = "revoking" => Failing
       /\ pc[r] \in {"cleaning", "notingYes", "notingNo"} => Compensating

\* Until somebody writes, nothing is there to be finalized.
WritingInv ==
  \A r \in Requests : pc[r] = "writing" =>
    ~confirmed /\ row.state # "available" /\ late["finalize"] = 0

\* The bytes are in place, or an explicit deletion took them.
InPlace == object = "stored" \/ removed

RemovalInv ==
  /\ late["remove"] > 0 => removed \/ Compensating
  /\ late["deletion"] > 0 => removed
  /\ row.state = "deleted" => removed
  /\ \A d \in Deleters : deleting[d] = "recording" => removed

BytesInv ==
  /\ AvailableHasBytes
  /\ late["finalize"] > 0 => InPlace \/ row.failedAt = "set"
  /\ \A r \in Requests : pc[r] = "finalizing" => InPlace /\ ~confirmed

ConfirmedInv ==
  /\ ConfirmedStaysReadable
  /\ confirmed => row.uploadStartedAt = "set"

\* What import_source_available_check says of a deleted source.
DeletedInv == row.deletedAt = "set" => row.state # "available"

IndInv ==
  /\ TypeOK
  /\ ClaimInv
  /\ FailingInv
  /\ WritingInv
  /\ RemovalInv
  /\ BytesInv
  /\ ConfirmedInv

\* With deletions that wait for creation, nothing is stored behind the back
\* of a row that says there is nothing to clean up.
Gone == object = "absent" \/ strayed

LeftoversInv ==
  /\ LeftoversAreMarked
  /\ row.uploadStartedAt = "null" => row.cleanupRequired = "yes"
  /\ late["deletion"] > 0 \/ late["noteNo"] > 0 => Gone
  /\ \A r \in Requests :
       /\ pc[r] = "notingNo" => Gone
       /\ pc[r] = "writing" => row.cleanupRequired = "yes"
  /\ \A d \in Deleters :
       /\ deleting[d] # "idle" => CreationOver
       /\ deleting[d] = "recording" => Gone
  /\ late["deletion"] > 0 \/ row.state = "deleted" => CreationOver
=============================================================================
