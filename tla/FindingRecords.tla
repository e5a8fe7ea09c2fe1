--------------------------- MODULE FindingRecords ---------------------------
(***************************************************************************)
(* Findings, their observations and vulnerability links, the vulnerability *)
(* catalog and the recording of an ingestion's plan as transactions:       *)
(* packages/backend/src/features/findings, vulnerabilities and             *)
(* ingestions/ingestion-record.ts.                                         *)
(*                                                                         *)
(* A finding holds its asset, an observation its finding; other columns    *)
(* are the mark ("stamp") of the transaction that wrote them, as updatedAt *)
(* and updatedBy are.  A generated id is made of the transaction that      *)
(* generates it.  Users are never deleted, so checks of actors and         *)
(* assignees are left out.  The ids of findings are ordered: those that a  *)
(* call names are numbers, from 1 on.                                      *)
(*                                                                         *)
(* A definition whose name ends in Slip is the one after it with a mistake;*)
(* the specification does not use it.                                      *)
(***************************************************************************)
EXTENDS RowStore

NewObservation(t, f) == Observation(<<t, f>>)

\* What belongs to a finding: its row, its observations and its links.
Of(f) == {r \in Rows :
            \/ r = Finding(f)
            \/ r[1] = "observation" /\ Present(r) /\ db[r].finding = f
            \/ r[1] = "finding_vulnerability" /\ Present(r) /\ r[2] = f}

\* The entries of the catalog that it is linked to; a reader of the finding sees
\* what they say.
EntriesOf(f) == {r \in Table("vulnerability") : Link(f, r[2]) \in Of(f)}

TouchedSlip(t, fs) ==
  [r \in {Finding(CHOOSE f \in fs : TRUE)} |-> [db[r] EXCEPT !.stamp = t]]
Touched(t, fs) == [r \in {Finding(f) : f \in fs} |-> [db[r] EXCEPT !.stamp = t]]

-----------------------------------------------------------------------------
(***************************************************************************)
(* Changes under the lock of the finding, or of both findings of a move.   *)
(***************************************************************************)

Edits == {"updateByID", "deleteByID", "createManualObservation", "updateObservation",
          "deleteObservation", "moveObservation"}

ParentsSlip(c) == {c.finding}
Parents(c) == IF c.op = "moveObservation" THEN {c.finding, c.target} ELSE {c.finding}

\* The locks on findings, in the order of their ids.
InOrder(findings, mode) == [f \in findings |-> {<<Finding(f), mode>>}]

EditLocksSlip(c) ==
  IF c.op = "moveObservation"
  THEN <<{<<Finding(c.finding), "all">>}, {<<Finding(c.target), "all">>}>>
  ELSE InOrder(Parents(c), "all")
EditLocks(c) == InOrder(Parents(c), "all")

StartEdit(t, c) ==
  /\ c.op \in Edits
  /\ Known(Finding(c.finding))
  /\ Open(t, c, "edit", EditLocks(c))

\* A deletion cascades to observations, which nobody else writes without this
\* lock, and to links, which others do.
LinksOf(f) == {r \in Table("finding_vulnerability") : r[2] = f}

\* The findings are those that it locked, and the observation is looked for among
\* those of its finding; a move to the same finding is none.
Editable(t, c) ==
  /\ \A f \in Parents(c) : Holding(t, Finding(f))
  /\ c.op = "moveObservation" => c.finding # c.target
  /\ c.op \in {"updateObservation", "deleteObservation", "moveObservation"}
       => Observation(c.observation) \in Of(c.finding)

ReadEdit(t) ==
  /\ Ready(t, "edit")
  /\ LET c == txn[t].call
         own == UNION {Of(f) \cup EntriesOf(f) : f \in Parents(c)}
     IN IF ~Editable(t, c)
        THEN Rollback(t)
        ELSE /\ txn' = [txn EXCEPT ![t].pc = "write edit",
                                   ![t].seen = Restricted(own),
                                   ![t].todo = IF c.op = "deleteByID"
                                               THEN <<Locks(LinksOf(c.finding), "all")>>
                                               ELSE <<>>]
             /\ UNCHANGED db

Edited(t, c) ==
  LET put(o, f) == Put(o, [finding |-> f, stamp |-> t])
  IN CASE c.op = "updateByID" -> Touched(t, {c.finding})
       [] c.op = "deleteByID" -> Erased(Of(c.finding))
       [] c.op = "createManualObservation" ->
            put(NewObservation(t, c.finding), c.finding) ++ Touched(t, {c.finding})
       [] c.op = "updateObservation" ->
            put(Observation(c.observation), c.finding) ++ Touched(t, {c.finding})
       [] c.op = "deleteObservation" ->
            Erased({Observation(c.observation)}) ++ Touched(t, {c.finding})
       [] c.op = "moveObservation" ->
            put(Observation(c.observation), c.target)
              ++ Touched(t, {c.finding, c.target})

WriteEdit(t) == Ready(t, "write edit") /\ Commit(t, Edited(t, txn[t].call))

-----------------------------------------------------------------------------
(***************************************************************************)
(* A finding created by hand: what it refers to is checked before the      *)
(* transaction, and by the foreign keys within it.                         *)
(***************************************************************************)

CreateManual(t, c) ==
  /\ c.op = "createManual"
  /\ Known(Asset(c.asset))
  /\ LET referred == {Vulnerability(v) : v \in c.vulnerabilities}
     IN IF \A r \in referred \cup {Asset(c.asset)} : Present(r)
        THEN Open(t, c, c.op, <<Locks({Asset(c.asset)}, "share"),
                                    Locks(referred, "share")>>)
        ELSE Rollback(t)

WriteCreated(t) ==
  /\ Ready(t, "createManual")
  /\ LET c == txn[t].call
     IN Commit(t, [r \in {Finding(t)} |-> [asset |-> c.asset, stamp |-> t]]
                    ++ [r \in {NewObservation(t, t)} |-> [finding |-> t, stamp |-> t]]
                    ++ [r \in {Link(t, v) : v \in c.vulnerabilities} |-> [stamp |-> t]])

-----------------------------------------------------------------------------
(***************************************************************************)
(* Linking and unlinking a vulnerability: the finding is read without a    *)
(* lock, the link is written, then the finding is touched.  Inserting a    *)
(* link that is there changes nothing, as deleting one that is not.        *)
(***************************************************************************)

MutateVulnerabilityLink(t, c) ==
  /\ c.op \in {"linkVulnerability", "unlinkVulnerability"}
  /\ Known(Finding(c.finding))
  /\ IF Present(Finding(c.finding)) /\ Present(Vulnerability(c.vulnerability))
     THEN Open(t, c, c.op, <<{<<Link(c.finding, c.vulnerability),
                                IF c.op = "linkVulnerability" THEN "new" ELSE "all">>}>>)
     ELSE Rollback(t)

LinkInserted(t) ==
  /\ Ready(t, "linkVulnerability")
  /\ LET c == txn[t].call
     IN Advance(t, "touch", <<{<<Finding(c.finding), "share">>},
                              {<<Vulnerability(c.vulnerability), "share">>},
                              {<<Finding(c.finding), "nokey">>}>>)

LinkDeleted(t) ==
  /\ Ready(t, "unlinkVulnerability")
  /\ LET c == txn[t].call
     IN IF Holding(t, Link(c.finding, c.vulnerability))
        THEN Advance(t, "touch", <<{<<Finding(c.finding), "nokey">>}>>)
        ELSE Rollback(t)

TouchLinked(t) ==
  /\ Ready(t, "touch")
  /\ LET c == txn[t].call
         link == Link(c.finding, c.vulnerability)
     IN IF Holding(t, Finding(c.finding))
        THEN Commit(t, Put(link, IF c.op = "linkVulnerability" THEN [stamp |-> t] ELSE Absent)
                         ++ Touched(t, {c.finding}))
        ELSE Rollback(t)

-----------------------------------------------------------------------------
(***************************************************************************)
(* The vulnerability catalog.  Type and identifier are a unique key; a     *)
(* deletion cascades to the links, not the findings.                       *)
(***************************************************************************)

CreateVulnerability(t, c) ==
  /\ c.op = "createVulnerability"
  /\ Known(Vulnerability(t))
  /\ Open(t, c, "insert vulnerability", <<{<<VulnerabilityKey(c.key), "new">>}>>)

InsertVulnerability(t) ==
  /\ Ready(t, "insert vulnerability")
  /\ Commit(t, Put(Vulnerability(t), [stamp |-> t])
                 ++ Put(VulnerabilityKey(txn[t].call.key), Entry(t, t)))

UpdateVulnerability(t, c) ==
  /\ c.op = "updateVulnerability"
  /\ Known(Vulnerability(c.vulnerability))
  /\ LET v == Vulnerability(c.vulnerability)
     IN IF Present(v)
        THEN \E mode \in UpdateModes : Open(t, c, "rename vulnerability", <<{<<v, mode>>}>>)
        ELSE Rollback(t)

\* Another key waits for the transaction that has it or gives it up.
RenameVulnerability(t) ==
  /\ Ready(t, "rename vulnerability")
  /\ LET c == txn[t].call
         key == VulnerabilityKey(c.key)
     IN IF Holding(t, Vulnerability(c.vulnerability))
        THEN Advance(t, "write vulnerability", <<Freed(key, c.vulnerability),
                                                 Claimed(key, c.vulnerability)>>)
        ELSE Rollback(t)

DeleteVulnerability(t, c) ==
  /\ c.op = "deleteVulnerability"
  /\ Known(Vulnerability(c.vulnerability))
  /\ Open(t, c, "unlink all", <<Locks({Vulnerability(c.vulnerability)}, "all")>>)

LinksTo(v) == {r \in Table("finding_vulnerability") : r[3] = v}

UnlinkAll(t) ==
  /\ Ready(t, "unlink all")
  /\ LET v == txn[t].call.vulnerability
     IN IF Holding(t, Vulnerability(v))
        THEN Advance(t, "write vulnerability",
                     <<Locks(Entries("vulnerability_key", v) \cup LinksTo(v), "all")>>)
        ELSE Rollback(t)

WriteVulnerability(t) ==
  /\ Ready(t, "write vulnerability")
  /\ LET c == txn[t].call
         v == Vulnerability(c.vulnerability)
     IN IF ~Holding(t, v)
        THEN Rollback(t)
        ELSE IF c.op = "deleteVulnerability"
        THEN Commit(t, Erased(Locked(t)))
        ELSE Commit(t, Put(v, [stamp |-> t])
                         ++ Put(VulnerabilityKey(c.key), Entry(c.vulnerability, t))
                         ++ Erased(Locked(t)))

-----------------------------------------------------------------------------
(***************************************************************************)
(* Recording the plan of an ingestion: attachments to findings of one      *)
(* asset, and a new finding on it.                                         *)
(***************************************************************************)

RecordPlan(t, c) ==
  /\ c.op = "record"
  /\ Known(Ingestion(c.ingestion))
  /\ Open(t, c, "lock plan", <<Locks({Ingestion(c.ingestion)}, "all")>>)

LockPlan(t) ==
  /\ Ready(t, "lock plan")
  /\ LET c == txn[t].call
     IN IF Holding(t, Ingestion(c.ingestion)) /\ db[Ingestion(c.ingestion)].status = "pending"
        THEN Advance(t, "record", Put(0, Locks({Asset(c.asset)}, "share"))
                                    ++ InOrder(c.findings, "all"))
        ELSE Rollback(t)

WritePlan(t) ==
  /\ Ready(t, "record")
  /\ LET c == txn[t].call
         attached == {NewObservation(t, f) : f \in c.findings \cup {t}}
     IN IF \A f \in c.findings : Holding(t, Finding(f)) /\ db[Finding(f)].asset = c.asset
        THEN Commit(t, [r \in attached |-> [finding |-> r[2][2], stamp |-> t]]
                         ++ Put(Finding(t), [asset |-> c.asset, stamp |-> t])
                         ++ Touched(t, c.findings)
                         ++ Put(Ingestion(c.ingestion), [status |-> "completed", stamp |-> t]))
        ELSE Rollback(t)

-----------------------------------------------------------------------------
StartFindingCall(t, c) ==
  \/ StartEdit(t, c)
  \/ CreateManual(t, c)
  \/ MutateVulnerabilityLink(t, c)
  \/ CreateVulnerability(t, c)
  \/ UpdateVulnerability(t, c)
  \/ DeleteVulnerability(t, c)
  \/ RecordPlan(t, c)

FindingStep(t) ==
  \/ ReadEdit(t)
  \/ WriteEdit(t)
  \/ WriteCreated(t)
  \/ LinkInserted(t)
  \/ LinkDeleted(t)
  \/ TouchLinked(t)
  \/ InsertVulnerability(t)
  \/ RenameVulnerability(t)
  \/ UnlinkAll(t)
  \/ WriteVulnerability(t)
  \/ LockPlan(t)
  \/ WritePlan(t)
=============================================================================
