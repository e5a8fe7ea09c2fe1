---------------------------- MODULE RecordsProofs ----------------------------
(***************************************************************************)
(* The records for any number of transactions, calls and contents: values  *)
(* of custom fields belong to assigned fields, and what is replaced as a   *)
(* whole is never a mixture; then what calls on the same records do to     *)
(* each other: what is reported of a finding or an asset, what shows in    *)
(* its audit columns, and who waits for whom.                              *)
(***************************************************************************)
EXTENDS RecordsInvariants, FiniteSetTheorems, TLAPS

-----------------------------------------------------------------------------
\* Names of rows, and sets of locks under numbers.

LEMMA Names ==
  \A x, y :
    /\ Ingestion(x) = <<"ingestion", x>>
    /\ Asset(x) = <<"asset", x>>
    /\ Identifier(x) = <<"asset_identifier", x>>
    /\ Key(x) = <<"asset_identifier_key", x>>
    /\ Field(x) = <<"asset_custom_field", x>>
    /\ Assigned(x, y) = <<"asset_custom_field_assignment", x, y>>
    /\ Value(x, y) = <<"asset_custom_field_value", x, y>>
    /\ Finding(x) = <<"finding", x>>
    /\ Observation(x) = <<"observation", x>>
    /\ Link(x, y) = <<"finding_vulnerability", x, y>>
    /\ Vulnerability(x) = <<"vulnerability", x>>
    /\ Role(x) = <<"role", x>>
    /\ Permission(x, y) = <<"role_permission_assignment", x, y>>
    /\ User(x) = <<"user_profile", x>>
    /\ Holds(x, y) = <<"user_role_assignment", x, y>>
    /\ FieldKey(x) = <<"asset_custom_field_key", x>>
    /\ VulnerabilityKey(x) = <<"vulnerability_key", x>>
    /\ RoleName(x) = <<"role_name", x>>
    /\ Username(x) = <<"user_profile_username", x>>
    /\ Email(x) = <<"user_profile_email", x>>
    /\ Session(x) = <<"user_session", x>>
BY DEF Ingestion, Asset, Identifier, Key, Field, Assigned, Value, Finding, Observation,
       Link, Vulnerability, Role, Permission, User, Holds, FieldKey, VulnerabilityKey,
       RoleName, Username, Email, Session

LeftIn(todo) == UNION {todo[i] : i \in DOMAIN todo}

LEMMA LeftOfNone == LeftIn(<<>>) = {}
BY DEF LeftIn

LEMMA LeftOfOne == ASSUME NEW a PROVE LeftIn(<<a>>) = a
BY DEF LeftIn

LEMMA LeftOfTwo == ASSUME NEW a, NEW b PROVE LeftIn(<<a, b>>) = a \cup b
BY DEF LeftIn

LEMMA LeftOfThree ==
  ASSUME NEW a, NEW b, NEW c
  PROVE  LeftIn(<<a, b, c>>) = a \cup b \cup c
BY DEF LeftIn

LEMMA LeftOfFour ==
  ASSUME NEW a, NEW b, NEW c, NEW d
  PROVE  LeftIn(<<a, b, c, d>>) = a \cup b \cup c \cup d
BY DEF LeftIn

LEMMA LeftOfFive ==
  ASSUME NEW a, NEW b, NEW c, NEW d, NEW e
  PROVE  LeftIn(<<a, b, c, d, e>>) = a \cup b \cup c \cup d \cup e
BY DEF LeftIn

LEMMA LeftOfSix ==
  ASSUME NEW a, NEW b, NEW c, NEW d, NEW e, NEW f
  PROVE  LeftIn(<<a, b, c, d, e, f>>) = a \cup b \cup c \cup d \cup e \cup f
BY DEF LeftIn

-----------------------------------------------------------------------------
\* What the operations of RowStore do.

Others(t) == \A u \in Txns \ {t} : txn'[u] = txn[u]

LEMMA OpenEffect ==
  ASSUME Shape, NEW t \in Txns, NEW c, NEW p, NEW locks, Open(t, c, p, locks)
  PROVE  /\ Shape' /\ Others(t) /\ db' = db
         /\ txn'[t].pc = p /\ txn'[t].call = c /\ txn'[t].level = "read committed"
         /\ txn'[t].held = {} /\ txn'[t].seen = <<>>
         /\ Left(t)' = LeftIn(locks) /\ Claims(t)' = LeftIn(locks)
BY DEF Shape, Fields, Open, Idle, Others, Left, LeftIn, Claims

LEMMA OpenReadingEffect ==
  ASSUME Shape, NEW t \in Txns, NEW c, NEW p, NEW locks, NEW scope,
         OpenReading(t, c, p, locks, scope)
  PROVE  /\ Shape' /\ Others(t) /\ db' = db
         /\ txn'[t].pc = p /\ txn'[t].call = c /\ txn'[t].level = "read committed"
         /\ txn'[t].held = {} /\ txn'[t].seen = [r \in scope |-> db[r]]
         /\ Left(t)' = LeftIn(locks) /\ Claims(t)' = LeftIn(locks)
BY DEF Shape, Fields, OpenReading, Idle, Others, Left, LeftIn, Claims, Restricted

LEMMA OpenRepeatableEffect ==
  ASSUME Shape, NEW t \in Txns, NEW c, NEW p, NEW locks, NEW scope,
         OpenRepeatable(t, c, p, locks, scope)
  PROVE  /\ Shape' /\ Others(t) /\ db' = db
         /\ txn'[t].pc = p /\ txn'[t].call = c /\ txn'[t].level = "repeatable read"
         /\ txn'[t].held = {} /\ txn'[t].seen = [r \in scope |-> db[r]]
         /\ Left(t)' = LeftIn(locks) /\ Claims(t)' = LeftIn(locks)
BY DEF Shape, Fields, OpenRepeatable, Idle, Others, Left, LeftIn, Claims, Restricted

LEMMA AdvanceEffect ==
  ASSUME Shape, NEW t \in Txns, NEW p, NEW locks, Advance(t, p, locks)
  PROVE  /\ Shape' /\ Others(t) /\ db' = db
         /\ txn'[t].pc = p /\ txn'[t].call = txn[t].call /\ txn'[t].level = txn[t].level
         /\ txn'[t].held = txn[t].held /\ txn'[t].seen = txn[t].seen
         /\ Left(t)' = LeftIn(locks) /\ Claims(t)' = txn[t].held \cup LeftIn(locks)
BY DEF Shape, Fields, Advance, Others, Left, LeftIn, Claims

LEMMA EndedEffect ==
  ASSUME Shape, NEW t \in Txns, txn' = [txn EXCEPT ![t] = Ended]
  PROVE  /\ Shape' /\ Others(t)
         /\ txn'[t].pc = "ended" /\ txn'[t].held = {} /\ txn'[t].seen = <<>>
         /\ txn'[t].level = "read committed"
         /\ Claims(t)' = {}
<1>1. /\ Shape' /\ Others(t)
      /\ txn'[t].pc = "ended" /\ txn'[t].held = {} /\ txn'[t].seen = <<>>
      /\ txn'[t].level = "read committed" /\ txn'[t].todo = <<>>
  BY DEF Shape, Fields, Ended, Idle, Others
<1>2. Left(t)' = LeftIn(<<>>)
  BY <1>1 DEF Left, LeftIn
<1> QED
  BY <1>1, <1>2, LeftOfNone DEF Claims

\* A lock is held from then on, or refused, or it is on a row that is not there
\* any more, and passed over.
Taken(t) ==
  \E l \in Left(t) :
    /\ Visible(l)
    /\ ~Outdated(t, l) /\ ~Refused(l)
    /\ \A u \in Txns \ {t} : ~Blocks(u, l)
    /\ txn'[t].held = txn[t].held \cup {l}
    /\ Claims(t)' = Claims(t)

PassedOver(t) ==
  \E l \in Left(t) :
    /\ ~Visible(l)
    /\ ~Outdated(t, l) /\ ~Refused(l)
    /\ txn'[t].held = txn[t].held
    /\ Claims(t)' \subseteq Claims(t)
    /\ Claims(t) \subseteq Claims(t)' \cup {l}

SameCall(t) ==
  /\ txn'[t].pc = txn[t].pc /\ txn'[t].call = txn[t].call
  /\ txn'[t].level = txn[t].level /\ txn'[t].seen = txn[t].seen

LEMMA LockEffect ==
  ASSUME Shape, NEW t \in Txns, Lock(t)
  PROVE  \/ Rollback(t)
         \/ /\ Shape' /\ Others(t) /\ db' = db /\ SameCall(t)
            /\ Taken(t) \/ PassedOver(t)
<1>1. PICK i \in DOMAIN txn[t].todo : \E l \in txn[t].todo[i] :
         /\ Visible(l) => \A u \in Txns \ {t} : ~Blocks(u, l)
         /\ IF Outdated(t, l) \/ Refused(l)
            THEN Rollback(t)
            ELSE /\ txn' = [txn EXCEPT ![t].todo[i] = @ \ {l},
                                       ![t].held = IF Visible(l) THEN @ \cup {l} ELSE @]
                 /\ UNCHANGED db
  BY DEF Lock
<1>2. PICK l \in txn[t].todo[i] :
         /\ Visible(l) => \A u \in Txns \ {t} : ~Blocks(u, l)
         /\ IF Outdated(t, l) \/ Refused(l)
            THEN Rollback(t)
            ELSE /\ txn' = [txn EXCEPT ![t].todo[i] = @ \ {l},
                                       ![t].held = IF Visible(l) THEN @ \cup {l} ELSE @]
                 /\ UNCHANGED db
  BY <1>1
<1>3. CASE Outdated(t, l) \/ Refused(l)
  BY <1>2, <1>3
<1>4. CASE ~(Outdated(t, l) \/ Refused(l))
  <2>1. /\ txn' = [txn EXCEPT ![t].todo[i] = @ \ {l},
                              ![t].held = IF Visible(l) THEN @ \cup {l} ELSE @]
        /\ db' = db
    BY <1>2, <1>4
  <2>2. Shape' /\ Others(t) /\ SameCall(t)
    BY <2>1 DEF Shape, Fields, Others, SameCall
  <2>3. /\ txn'[t].held = IF Visible(l) THEN txn[t].held \cup {l} ELSE txn[t].held
        /\ txn'[t].todo = [txn[t].todo EXCEPT ![i] = @ \ {l}]
    BY <2>1 DEF Shape, Fields
  <2>4. l \in Left(t)
    BY <1>2 DEF Left
  <2>5. Left(t)' \subseteq Left(t) /\ Left(t) \subseteq Left(t)' \cup {l}
    BY <2>3 DEF Left
  <2>6. CASE Visible(l)
    <3>1. txn'[t].held = txn[t].held \cup {l}
      BY <2>3, <2>6
    <3>2. Claims(t)' = Claims(t)
      BY <2>4, <2>5, <3>1 DEF Claims
    <3> QED
      BY <1>2, <1>4, <2>1, <2>2, <2>4, <2>6, <3>1, <3>2 DEF Taken
  <2>7. CASE ~Visible(l)
    <3>1. txn'[t].held = txn[t].held
      BY <2>3, <2>7
    <3>2. Claims(t)' \subseteq Claims(t) /\ Claims(t) \subseteq Claims(t)' \cup {l}
      BY <2>5, <3>1 DEF Claims
    <3> QED
      BY <1>4, <2>1, <2>2, <2>4, <2>7, <3>1, <3>2 DEF PassedOver
  <2> QED
    BY <2>6, <2>7
<1> QED
  BY <1>3, <1>4

-----------------------------------------------------------------------------
\* The steps of a transaction, by what they do.

StepOf(t) == \/ Begin(t) \/ Lock(t) \/ Fail(t)
             \/ FindingStep(t) \/ AssetStep(t) \/ RoleStep(t)

FindingCommit(t) == \/ WriteEdit(t) \/ WriteCreated(t) \/ TouchLinked(t)
                    \/ InsertVulnerability(t) \/ WriteVulnerability(t) \/ WritePlan(t)
AssetCommit(t) == \/ WriteAsset(t) \/ WriteInventory(t) \/ EraseAsset(t)
                  \/ WriteDefinition(t) \/ EraseDefinition(t)
                  \/ WriteAssignments(t) \/ WriteValues(t)
RoleCommit(t) == WriteRole(t) \/ EraseRole(t) \/ WriteUser(t)

\* It ends without a trace; it goes on with other locks to take.
GivesUp(t) == txn' = [txn EXCEPT ![t] = Ended] /\ db' = db

MovesOn(t, steps, tables, level) ==
  /\ db' = db
  /\ Shape' /\ Others(t)
  /\ txn'[t].pc \in steps
  /\ ClaimsOn(t, tables)'
  /\ \/ /\ txn[t].pc = "idle"
        /\ txn'[t].level = level
        /\ txn'[t].held = {}
        /\ \E scope \in SUBSET Rows : txn'[t].seen = [r \in scope |-> db[r]]
     \/ /\ txn[t].pc \in steps
        /\ txn'[t].level = txn[t].level
        /\ txn'[t].held = txn[t].held
        /\ \/ txn'[t].seen = txn[t].seen
           \/ /\ level = "read committed"
              /\ \E scope \in SUBSET Rows : txn'[t].seen = [r \in scope |-> db[r]]

LEMMA RollbackGivesUp == ASSUME NEW t, Rollback(t) PROVE GivesUp(t)
BY DEF Rollback, GivesUp

\* A call that opens at read committed.
LEMMA OpenMoves ==
  ASSUME Shape, NEW t \in Txns, txn[t].pc = "idle",
         NEW c, NEW p, NEW locks, NEW steps, NEW tables, Open(t, c, p, locks), p \in steps,
         \A l \in LeftIn(locks) : Proper(l, tables)
  PROVE  MovesOn(t, steps, tables, "read committed")
<1>1. /\ Shape' /\ Others(t) /\ db' = db
      /\ txn'[t].pc = p /\ txn'[t].level = "read committed"
      /\ txn'[t].held = {} /\ txn'[t].seen = <<>> /\ Claims(t)' = LeftIn(locks)
  BY OpenEffect
<1>2. ClaimsOn(t, tables)'
  BY <1>1 DEF ClaimsOn
<1>3. <<>> = [r \in {} |-> db[r]]
  OBVIOUS
<1> QED
  BY <1>1, <1>2, <1>3 DEF MovesOn

LEMMA OpenReadingMoves ==
  ASSUME Shape, NEW t \in Txns, txn[t].pc = "idle",
         NEW c, NEW p, NEW locks, NEW scope, NEW steps, NEW tables,
         OpenReading(t, c, p, locks, scope), p \in steps, scope \subseteq Rows,
         \A l \in LeftIn(locks) : Proper(l, tables)
  PROVE  MovesOn(t, steps, tables, "read committed")
<1>1. /\ Shape' /\ Others(t) /\ db' = db
      /\ txn'[t].pc = p /\ txn'[t].level = "read committed"
      /\ txn'[t].held = {} /\ txn'[t].seen = [r \in scope |-> db[r]]
      /\ Claims(t)' = LeftIn(locks)
  BY OpenReadingEffect, ZenonT(60)
<1>2. ClaimsOn(t, tables)'
  BY <1>1 DEF ClaimsOn
<1> QED
  BY <1>1, <1>2 DEF MovesOn

LEMMA OpenRepeatableMoves ==
  ASSUME Shape, NEW t \in Txns, txn[t].pc = "idle",
         NEW c, NEW p, NEW locks, NEW scope, NEW steps, NEW tables,
         OpenRepeatable(t, c, p, locks, scope), p \in steps, scope \subseteq Rows,
         \A l \in LeftIn(locks) : Proper(l, tables)
  PROVE  MovesOn(t, steps, tables, "repeatable read")
<1>1. /\ Shape' /\ Others(t) /\ db' = db
      /\ txn'[t].pc = p /\ txn'[t].level = "repeatable read"
      /\ txn'[t].held = {} /\ txn'[t].seen = [r \in scope |-> db[r]]
      /\ Claims(t)' = LeftIn(locks)
  BY OpenRepeatableEffect, ZenonT(60)
<1>2. ClaimsOn(t, tables)'
  BY <1>1 DEF ClaimsOn
<1> QED
  BY <1>1, <1>2 DEF MovesOn

LEMMA AdvanceMoves ==
  ASSUME Shape, NEW t \in Txns, NEW steps, NEW tables, NEW level, txn[t].pc \in steps,
         ClaimsOn(t, tables), NEW p, NEW locks, Advance(t, p, locks), p \in steps,
         \A l \in LeftIn(locks) : Proper(l, tables)
  PROVE  MovesOn(t, steps, tables, level)
<1>1. /\ Shape' /\ Others(t) /\ db' = db
      /\ txn'[t].pc = p /\ txn'[t].level = txn[t].level
      /\ txn'[t].held = txn[t].held /\ txn'[t].seen = txn[t].seen
      /\ Claims(t)' = txn[t].held \cup LeftIn(locks)
  BY AdvanceEffect
<1>2. ClaimsOn(t, tables)'
  BY <1>1 DEF ClaimsOn, Claims
<1> QED
  BY <1>1, <1>2 DEF MovesOn

\* The locks of a set of rows.
LEMMA LocksOf ==
  ASSUME NEW rows, NEW mode
  PROVE  \A l \in Locks(rows, mode) : l = <<l[1], l[2]>> /\ l[2] = mode /\ l[1] \in rows
BY DEF Locks

\* The entries of an index that a row gives up, and the one it is to have.
LEMMA FreedClaimed ==
  ASSUME NEW entry, NEW x
  PROVE  /\ \A l \in Freed(entry, x) :
              l = <<l[1], l[2]>> /\ l[2] = "all" /\ l[1][1] = entry[1]
         /\ \A l \in Claimed(entry, x) : l = <<entry, "new">>
BY LocksOf DEF Freed, Claimed, Entries, Table

LEMMA EntriesIn == \A index, x : \A r \in Entries(index, x) : r \in Rows /\ r[1] = index
BY DEF Entries, Table

LEMMA StartFinding ==
  ASSUME Shape, NEW t \in Txns, txn[t].pc = "idle", NEW c \in Calls, StartFindingCall(t, c)
  PROVE  GivesUp(t) \/ MovesOn(t, FindingSteps, FindingTables, "read committed")
<1> DEFINE Good == GivesUp(t) \/ MovesOn(t, FindingSteps, FindingTables, "read committed")
<1>1. CASE StartEdit(t, c)
  <2>1. Open(t, c, "edit", EditLocks(c))
    BY <1>1 DEF StartEdit
  <2>2. \A l \in LeftIn(EditLocks(c)) : Proper(l, FindingTables)
    BY Names DEF LeftIn, EditLocks, InOrder, Proper, FindingTables
  <2> QED
    BY <2>1, <2>2, OpenMoves DEF Proper, FindingSteps
<1>2. CASE CreateManual(t, c)
  <2> DEFINE a == Locks({Asset(c.asset)}, "share")
             b == Locks({Vulnerability(v) : v \in c.vulnerabilities}, "share")
  <2>1. Open(t, c, "createManual", <<a, b>>) \/ Rollback(t)
    BY <1>2 DEF CreateManual
  <2>2. \A l \in LeftIn(<<a, b>>) : Proper(l, FindingTables)
    BY LeftOfTwo DEF Locks, Proper, FindingTables
  <2> QED
    BY <2>1, <2>2, OpenMoves, RollbackGivesUp DEF Proper, FindingSteps
<1>3. CASE MutateVulnerabilityLink(t, c)
  <2> DEFINE a == {<<Link(c.finding, c.vulnerability),
                     IF c.op = "linkVulnerability" THEN "new" ELSE "all">>}
  <2>1. Open(t, c, c.op, <<a>>) \/ Rollback(t)
    BY <1>3 DEF MutateVulnerabilityLink
  <2>2. \A l \in LeftIn(<<a>>) : Proper(l, FindingTables)
    BY LeftOfOne, Names DEF Proper, FindingTables
  <2> QED
    BY <1>3, <2>1, <2>2, OpenMoves, RollbackGivesUp
    DEF Proper, FindingSteps, FindingTables, MutateVulnerabilityLink
<1>4. CASE CreateVulnerability(t, c)
  <2> DEFINE a == {<<VulnerabilityKey(c.key), "new">>}
  <2>1. \A l \in LeftIn(<<a>>) : Proper(l, FindingTables)
    BY LeftOfOne, Names DEF Proper
  <2>2. Open(t, c, "insert vulnerability", <<a>>) /\ "insert vulnerability" \in FindingSteps
    BY <1>4 DEF CreateVulnerability, FindingSteps
  <2> HIDE DEF a
  <2> QED
    BY <2>1, <2>2, OpenMoves
<1>5. CASE UpdateVulnerability(t, c)
  <2>1. CASE Rollback(t)
    BY <2>1, RollbackGivesUp
  <2>2. CASE ~Rollback(t)
    <3>1. PICK mode \in {"nokey", "all"} :
            Open(t, c, "rename vulnerability", <<{<<Vulnerability(c.vulnerability), mode>>}>>)
      BY <1>5, <2>2 DEF UpdateVulnerability, UpdateModes
    <3>2. \A l \in LeftIn(<<{<<Vulnerability(c.vulnerability), mode>>}>>) : Proper(l, FindingTables)
      BY LeftOfOne, Names DEF Proper, FindingTables
    <3> QED
      BY <3>1, <3>2, OpenMoves DEF Proper, FindingSteps, FindingTables
  <2> QED
    BY <2>1, <2>2
<1>6. CASE DeleteVulnerability(t, c)
  <2> DEFINE a == Locks({Vulnerability(c.vulnerability)}, "all")
  <2>1. \A l \in LeftIn(<<a>>) : Proper(l, FindingTables)
    BY LeftOfOne, Names DEF Locks, Proper, FindingTables
  <2> QED
    BY <1>6, <2>1, OpenMoves DEF Proper, FindingSteps, FindingTables, DeleteVulnerability
<1>7. CASE RecordPlan(t, c)
  <2> DEFINE a == Locks({Ingestion(c.ingestion)}, "all")
  <2>1. \A l \in LeftIn(<<a>>) : Proper(l, FindingTables)
    BY LeftOfOne, Names DEF Locks, Proper, FindingTables
  <2> QED
    BY <1>7, <2>1, OpenMoves DEF Proper, FindingSteps, FindingTables, RecordPlan
<1> QED
  BY <1>1, <1>2, <1>3, <1>4, <1>5, <1>6, <1>7 DEF StartFindingCall

LEMMA FindingKinds ==
  ASSUME Shape, Reach, NEW t \in Txns, FindingStep(t)
  PROVE  \/ GivesUp(t)
         \/ MovesOn(t, FindingSteps, FindingTables, "read committed")
         \/ FindingCommit(t)
<1> DEFINE Good == GivesUp(t) \/ MovesOn(t, FindingSteps, FindingTables, "read committed")
<1>0. ASSUME txn[t].pc \in FindingSteps
      PROVE  ClaimsOn(t, FindingTables) /\ txn[t].level = "read committed"
  BY <1>0 DEF Reach, FindingSteps, AssetSteps, RoleSteps
<1>1. CASE ReadEdit(t)
  <2> DEFINE own == UNION {Of(f) \cup EntriesOf(f) : f \in Parents(txn[t].call)}
             locks == IF txn[t].call.op = "deleteByID"
                      THEN <<Locks(LinksOf(txn[t].call.finding), "all")>> ELSE <<>>
  <2>1. CASE Rollback(t)
    BY <2>1, RollbackGivesUp
  <2>2. CASE ~Rollback(t)
    <3>1. /\ txn' = [txn EXCEPT ![t].pc = "write edit", ![t].seen = Restricted(own),
                                ![t].todo = locks]
          /\ db' = db
      BY <1>1, <2>2 DEF ReadEdit
    <3>2. txn[t].pc \in FindingSteps
      BY <1>1 DEF ReadEdit, Ready, FindingSteps
    <3>3. /\ Shape' /\ Others(t)
          /\ txn'[t].pc = "write edit" /\ txn'[t].held = txn[t].held
          /\ txn'[t].level = txn[t].level /\ txn'[t].seen = Restricted(own)
          /\ txn'[t].todo = locks
      BY <3>1 DEF Shape, Fields, Others
    <3>4. \A l \in LeftIn(locks) : Proper(l, FindingTables)
      BY LeftOfOne, LeftOfNone DEF Locks, LinksOf, Table, Proper, FindingTables
    <3>5. Claims(t)' = txn[t].held \cup LeftIn(locks)
      BY <3>3 DEF Claims, Left, LeftIn
    <3>6. ClaimsOn(t, FindingTables)'
      BY <1>0, <3>2, <3>4, <3>5 DEF ClaimsOn, Proper, Claims, FindingTables
    <3>7. own \subseteq Rows
      BY DEF Of, EntriesOf, Table
    <3>8. \E scope \in SUBSET Rows : txn'[t].seen = [r \in scope |-> db[r]]
      BY <3>3, <3>7 DEF Restricted
    <3> QED
      BY <3>1, <3>2, <3>3, <3>6, <3>8 DEF MovesOn, FindingSteps
  <2> QED
    BY <2>1, <2>2
<1>2. CASE LinkInserted(t)
  <2> DEFINE c == txn[t].call
             a == {<<Finding(c.finding), "share">>}
             b == {<<Vulnerability(c.vulnerability), "share">>}
             d == {<<Finding(c.finding), "nokey">>}
  <2>1. Advance(t, "touch", <<a, b, d>>) /\ txn[t].pc \in FindingSteps
    BY <1>2 DEF LinkInserted, Ready, FindingSteps
  <2>2. \A l \in LeftIn(<<a, b, d>>) : Proper(l, FindingTables)
    BY LeftOfThree DEF Proper, FindingTables
  <2>3. MovesOn(t, FindingSteps, FindingTables, "read committed")
    <3>1. ClaimsOn(t, FindingTables) /\ "touch" \in FindingSteps
      BY <1>0, <2>1 DEF FindingSteps
    <3> HIDE DEF a, b, d
    <3> QED
      BY <2>1, <2>2, <3>1, AdvanceMoves DEF Proper
  <2> QED
    BY <2>3
<1>3. CASE LinkDeleted(t)
  <2> DEFINE d == {<<Finding(txn[t].call.finding), "nokey">>}
  <2>1. Rollback(t) \/ (Advance(t, "touch", <<d>>) /\ txn[t].pc \in FindingSteps)
    BY <1>3 DEF LinkDeleted, Ready, FindingSteps
  <2>2. \A l \in LeftIn(<<d>>) : Proper(l, FindingTables)
    BY LeftOfOne DEF Proper, FindingTables
  <2>3. ASSUME Advance(t, "touch", <<d>>)
        PROVE  MovesOn(t, FindingSteps, FindingTables, "read committed")
    <3>1. ClaimsOn(t, FindingTables) /\ "touch" \in FindingSteps /\ txn[t].pc \in FindingSteps
      BY <1>0, <1>3 DEF FindingSteps, LinkDeleted, Ready
    <3> HIDE DEF d
    <3> QED
      BY <2>3, <2>2, <3>1, AdvanceMoves DEF Proper
  <2> QED
    BY <2>1, <2>3, RollbackGivesUp
<1>4. CASE UnlinkAll(t)
  <2> DEFINE d == Locks(Entries("vulnerability_key", txn[t].call.vulnerability)
                          \cup LinksTo(txn[t].call.vulnerability), "all")
  <2>1. Rollback(t) \/ (Advance(t, "write vulnerability", <<d>>) /\ txn[t].pc \in FindingSteps)
    BY <1>4 DEF UnlinkAll, Ready, FindingSteps
  <2>2. \A l \in LeftIn(<<d>>) : Proper(l, FindingTables)
    BY LeftOfOne, LocksOf, EntriesIn DEF LinksTo, Table, Proper, FindingTables
  <2>3. ASSUME Advance(t, "write vulnerability", <<d>>)
        PROVE  MovesOn(t, FindingSteps, FindingTables, "read committed")
    <3>1. /\ ClaimsOn(t, FindingTables)
          /\ "write vulnerability" \in FindingSteps /\ txn[t].pc \in FindingSteps
      BY <1>0, <1>4 DEF FindingSteps, UnlinkAll, Ready
    <3> HIDE DEF d
    <3> QED
      BY <2>3, <2>2, <3>1, AdvanceMoves
  <2> QED
    BY <2>1, <2>3, RollbackGivesUp
<1>6. CASE RenameVulnerability(t)
  <2> DEFINE key == VulnerabilityKey(txn[t].call.key)
             a == Freed(key, txn[t].call.vulnerability)
             b == Claimed(key, txn[t].call.vulnerability)
  <2>1. Rollback(t) \/ Advance(t, "write vulnerability", <<a, b>>)
    BY <1>6 DEF RenameVulnerability
  <2>2. key[1] = "vulnerability_key" /\ "vulnerability_key" \in FindingTables
    BY Names DEF FindingTables
  <2> HIDE DEF key
  <2>3. \A l \in LeftIn(<<a, b>>) : Proper(l, FindingTables)
    BY <2>2, LeftOfTwo, FreedClaimed DEF Proper
  <2>4. /\ ClaimsOn(t, FindingTables)
        /\ "write vulnerability" \in FindingSteps /\ txn[t].pc \in FindingSteps
    BY <1>0, <1>6 DEF FindingSteps, RenameVulnerability, Ready
  <2> HIDE DEF a, b
  <2> QED
    BY <2>1, <2>3, <2>4, AdvanceMoves, RollbackGivesUp
<1>5. CASE LockPlan(t)
  <2> DEFINE c == txn[t].call
             locks == Put(0, Locks({Asset(c.asset)}, "share")) ++ InOrder(c.findings, "all")
  <2>1. Rollback(t) \/ (Advance(t, "record", locks) /\ txn[t].pc \in FindingSteps)
    BY <1>5 DEF LockPlan, Ready, FindingSteps
  <2>2. \A l \in LeftIn(locks) : Proper(l, FindingTables)
    <3>1. ASSUME NEW i \in DOMAIN locks
          PROVE  \/ locks[i] = Locks({Asset(c.asset)}, "share")
                 \/ \E f \in c.findings : locks[i] = {<<Finding(f), "all">>}
      BY DEF ++, Put, InOrder
    <3>2. \A l \in Locks({Asset(c.asset)}, "share") : Proper(l, FindingTables)
      BY DEF Locks, Proper
    <3>3. \A f : \A l \in {<<Finding(f), "all">>} : Proper(l, FindingTables)
      BY Names DEF Proper, FindingTables
    <3> HIDE DEF locks
    <3>4. ASSUME NEW l \in LeftIn(locks)
          PROVE  Proper(l, FindingTables)
      <4>1. PICK i \in DOMAIN locks : l \in locks[i]
        BY DEF LeftIn
      <4>2. CASE locks[i] = Locks({Asset(c.asset)}, "share")
        BY <4>1, <4>2, <3>2
      <4>3. CASE \E f \in c.findings : locks[i] = {<<Finding(f), "all">>}
        BY <4>1, <4>3, <3>3
      <4> QED
        BY <3>1, <4>2, <4>3
    <3> QED
      BY <3>4
  <2>3. ASSUME Advance(t, "record", locks)
        PROVE  MovesOn(t, FindingSteps, FindingTables, "read committed")
    <3>1. /\ ClaimsOn(t, FindingTables)
          /\ "record" \in FindingSteps /\ txn[t].pc \in FindingSteps
      BY <1>0, <1>5 DEF FindingSteps, LockPlan, Ready
    <3>2. "finding" \in FindingTables
      BY DEF FindingTables
    <3> HIDE DEF locks
    <3> QED
      BY <2>3, <2>2, <3>1, <3>2, AdvanceMoves DEF Proper
  <2> QED
    BY <2>1, <2>3, RollbackGivesUp
<1> QED
  BY <1>1, <1>2, <1>3, <1>4, <1>5, <1>6 DEF FindingStep, FindingCommit

LEMMA SnapshotRows == ASSUME NEW a PROVE Snapshot(a) \subseteq Rows
BY DEF Snapshot

LEMMA StartAsset ==
  ASSUME Shape, NEW t \in Txns, txn[t].pc = "idle", NEW c \in Calls, StartAssetCall(t, c)
  PROVE  GivesUp(t) \/ MovesOn(t, AssetSteps, AssetTables, "repeatable read")
<1> DEFINE Good == MovesOn(t, AssetSteps, AssetTables, "repeatable read")
<1>0. ASSUME NEW p \in AssetSteps, NEW locks, NEW scope \in SUBSET Rows,
             \A l \in LeftIn(locks) : Proper(l, AssetTables),
             OpenRepeatable(t, c, p, locks, scope)
      PROVE  Good
  BY <1>0, OpenRepeatableMoves
<1>a. ASSUME NEW ok, NEW locks, OpenFor(t, c, ok, locks), c.op \in AssetSteps,
             \A l \in LeftIn(locks) : Proper(l, AssetTables)
      PROVE  GivesUp(t) \/ Good
  <2>1. CASE Rollback(t)
    BY <2>1, RollbackGivesUp
  <2>2. CASE OpenRepeatable(t, c, c.op, locks, Snapshot(c.asset))
    BY <2>2, <1>a, <1>0, SnapshotRows
  <2> QED
    BY <1>a, <2>1, <2>2 DEF OpenFor
<1>b. ASSUME NEW a PROVE \A l \in AuditLock(a) : l = <<l[1], l[2]>> /\ l[2] = "nokey"
  BY DEF AuditLock
<1>1. CASE CreateAsset(t, c)
  <2> DEFINE k == Locks({Key(x) : x \in c.keys}, "new")
  <2>1. \A l \in LeftIn(<<k>>) : Proper(l, AssetTables)
    BY LeftOfOne, LocksOf, Names DEF Proper
  <2>2. OpenRepeatable(t, c, "create", <<k>>, {}) /\ "create" \in AssetSteps
    BY <1>1 DEF CreateAsset, AssetSteps
  <2>3. {} \in SUBSET Rows
    OBVIOUS
  <2> HIDE DEF k
  <2> QED
    BY <2>1, <2>2, <2>3, <1>0
<1>2. CASE UpdateAsset(t, c)
  <2>1. \A l \in LeftIn(<<AuditLock(c.asset)>>) : Proper(l, AssetTables)
    BY <1>b, LeftOfOne DEF Proper
  <2>2. OpenFor(t, c, c.changes, <<AuditLock(c.asset)>>) /\ c.op \in AssetSteps
    BY <1>2 DEF UpdateAsset, AssetSteps
  <2> QED
    BY <2>1, <2>2, <1>a
<1>3. CASE AddIdentifier(t, c)
  <2> DEFINE locks == <<Locks({Key(c.key)}, "new"), Locks({Asset(c.asset)}, "share"),
                        AuditLock(c.asset)>>
  <2>1. \A l \in LeftIn(locks) : Proper(l, AssetTables)
    BY <1>b, LeftOfThree, LocksOf, Names DEF Proper
  <2>2. OpenFor(t, c, TRUE, locks) /\ c.op \in AssetSteps
    BY <1>3 DEF AddIdentifier, AssetSteps
  <2> HIDE DEF locks
  <2> QED
    BY <2>1, <2>2, <1>a
<1>4. CASE UpdateIdentifier(t, c)
  <2> DEFINE i == Identifier(c.identifier)
             locks == <<{<<i, "nokey">>}, {<<Key(db[i].key), "all">>},
                        {<<Key(c.key), "new">>}, AuditLock(c.asset)>>
  <2>1. \A l \in LeftIn(locks) : Proper(l, AssetTables)
    BY <1>b, LeftOfFour, Names DEF AssetTables, Proper
  <2>2. /\ OpenFor(t, c, i \in Identifiers(c.asset) /\ db[i].key # c.key, locks)
        /\ c.op \in AssetSteps
    BY <1>4 DEF UpdateIdentifier, AssetSteps
  <2> HIDE DEF locks
  <2> QED
    BY <2>1, <2>2, <1>a
<1>5. CASE DeleteIdentifier(t, c)
  <2> DEFINE i == Identifier(c.identifier)
             locks == <<{<<i, "all">>}, {<<Key(db[i].key), "all">>}, AuditLock(c.asset)>>
  <2>1. \A l \in LeftIn(locks) : Proper(l, AssetTables)
    BY <1>b, LeftOfThree, Names DEF AssetTables, Proper
  <2>2. OpenFor(t, c, i \in Identifiers(c.asset), locks) /\ c.op \in AssetSteps
    BY <1>5 DEF DeleteIdentifier, AssetSteps
  <2> HIDE DEF locks
  <2> QED
    BY <2>1, <2>2, <1>a
<1>6. CASE DeleteAsset(t, c)
  <2> DEFINE locks == <<Locks({Asset(c.asset)}, "all")>>
  <2>1. \A l \in LeftIn(locks) : Proper(l, AssetTables)
    BY LeftOfOne, LocksOf, Names DEF AssetTables, Proper
  <2>2. OpenFor(t, c, Referring(c.asset) = {}, locks) /\ c.op \in AssetSteps
    BY <1>6 DEF DeleteAsset, AssetSteps
  <2> HIDE DEF locks
  <2> QED
    BY <2>1, <2>2, <1>a
<1>7. CASE CreateDefinition(t, c)
  <2> DEFINE a == {<<FieldKey(c.key), "new">>}
  <2>1. \A l \in LeftIn(<<a>>) : Proper(l, AssetTables)
    BY LeftOfOne, Names DEF Proper
  <2>2. OpenRepeatable(t, c, "write definition", <<a>>, {}) /\ "write definition" \in AssetSteps
    BY <1>7 DEF CreateDefinition, AssetSteps
  <2>3. {} \in SUBSET Rows
    OBVIOUS
  <2> HIDE DEF a
  <2> QED
    BY <2>1, <2>2, <2>3, <1>0
<1>8. CASE UpdateDefinition(t, c)
  <2>1. CASE Rollback(t)
    BY <2>1, RollbackGivesUp
  <2>2. CASE ~Rollback(t)
    <3> DEFINE key == FieldKey(c.key)
               e == Freed(key, c.field)
               f == Claimed(key, c.field)
    <3>1. PICK mode \in {"nokey", "all"} :
            OpenRepeatable(t, c, "write definition", <<{<<Field(c.field), mode>>}, e, f>>,
                           {Field(c.field)})
      BY <1>8, <2>2 DEF UpdateDefinition, UpdateModes
    <3>2. /\ key[1] = "asset_custom_field_key" /\ Field(c.field)[1] = "asset_custom_field"
          /\ {"asset_custom_field_key", "asset_custom_field"} \subseteq AssetTables
      BY Names DEF AssetTables
    <3> HIDE DEF key
    <3>3. \A l \in LeftIn(<<{<<Field(c.field), mode>>}, e, f>>) : Proper(l, AssetTables)
      BY <3>2, LeftOfThree, FreedClaimed DEF Proper
    <3>4. {Field(c.field)} \in SUBSET Rows /\ "write definition" \in AssetSteps
      BY <1>8 DEF UpdateDefinition, Known, AssetSteps
    <3> HIDE DEF e, f
    <3> QED
      BY <3>1, <3>3, <3>4, <1>0
  <2> QED
    BY <2>1, <2>2
<1>9. CASE DeleteDefinition(t, c)
  <2> DEFINE locks == <<Locks({Field(c.field)}, "all")>>
             scope == {r \in Rows : r = Field(c.field)
                                      \/ /\ r[1] \in {"asset_custom_field_assignment",
                                                      "asset_custom_field_value"}
                                         /\ r[3] = c.field}
  <2>1. \A l \in LeftIn(locks) : Proper(l, AssetTables)
    BY LeftOfOne, LocksOf, Names DEF AssetTables, Proper
  <2>2. /\ OpenRepeatable(t, c, c.op, locks, scope) \/ Rollback(t)
        /\ c.op \in AssetSteps
    BY <1>9 DEF DeleteDefinition, AssetSteps
  <2>3. scope \in SUBSET Rows
    OBVIOUS
  <2> HIDE DEF locks, scope
  <2> QED
    BY <2>1, <2>2, <2>3, <1>0, RollbackGivesUp
<1>10. CASE ReplaceAssignments(t, c)
  <2> DEFINE locks == ReplaceAssignmentsLocks(c)
  <2>1. \A l \in LeftIn(locks) : Proper(l, AssetTables)
    <3> DEFINE a == Locks(Values(c.asset) \ {Value(c.asset, d) : d \in c.fields}, "all")
               b == Locks(Assignments(c.asset), "all")
               e == Locks({Assigned(c.asset, d) : d \in c.fields} \ Assignments(c.asset), "new")
               f == IF c.fields = {} THEN {}
                    ELSE Locks({Asset(c.asset)} \cup {Field(d) : d \in c.fields}, "share")
               g == IF AssignedFields(c.asset) = c.fields THEN {} ELSE AuditLock(c.asset)
    <3>1. locks = <<a, b, e, f, g>>
      BY DEF ReplaceAssignmentsLocks
    <3>2. \A l \in a : l = <<l[1], l[2]>> /\ l[2] = "all" /\ l[1][1] \in AssetTables
      BY LocksOf DEF Values, Table, AssetTables, ValueTable
    <3>3. \A l \in b : l = <<l[1], l[2]>> /\ l[2] = "all" /\ l[1][1] \in AssetTables
      BY LocksOf DEF Assignments, Table, AssetTables, AssignmentTable
    <3>4. \A l \in e : l = <<l[1], l[2]>> /\ l[2] = "new" /\ l[1][1] = "asset_custom_field_assignment"
      BY LocksOf, Names
    <3>5. \A l \in f : l = <<l[1], l[2]>> /\ l[2] = "share"
      BY LocksOf
    <3>6. \A l \in g : l = <<l[1], l[2]>> /\ l[2] = "nokey"
      BY <1>b
    <3> HIDE DEF a, b, e, f, g, locks
    <3> QED
      BY <3>1, <3>2, <3>3, <3>4, <3>5, <3>6, LeftOfFive DEF Proper
  <2>2. OpenFor(t, c, \A d \in c.fields : Present(Field(d)), locks) /\ c.op \in AssetSteps
    BY <1>10 DEF ReplaceAssignments, AssetSteps
  <2> HIDE DEF locks
  <2> QED
    BY <2>1, <2>2, <1>a
<1>11. CASE ReplaceValues(t, c)
  <2> DEFINE locks == ReplaceValuesLocks(c)
  <2>1. \A l \in LeftIn(locks) : Proper(l, AssetTables)
    <3> DEFINE a == Locks(Values(c.asset), "all")
               e == Locks({Value(c.asset, d) : d \in Stored(c)} \ Values(c.asset), "new")
               f == IF Stored(c) = {} THEN {}
                    ELSE Locks({Asset(c.asset)} \cup {Field(d) : d \in Stored(c)}, "share")
               g == IF SameValues(c) THEN {} ELSE AuditLock(c.asset)
    <3>1. locks = <<a, e, f, g>>
      BY DEF ReplaceValuesLocks
    <3>2. \A l \in a : l = <<l[1], l[2]>> /\ l[2] = "all" /\ l[1][1] \in AssetTables
      BY LocksOf DEF Values, Table, AssetTables, ValueTable
    <3>4. \A l \in e : l = <<l[1], l[2]>> /\ l[2] = "new" /\ l[1][1] = "asset_custom_field_value"
      BY LocksOf, Names
    <3>5. \A l \in f : l = <<l[1], l[2]>> /\ l[2] = "share"
      BY LocksOf
    <3>6. \A l \in g : l = <<l[1], l[2]>> /\ l[2] = "nokey"
      BY <1>b
    <3> HIDE DEF a, e, f, g, locks
    <3> QED
      BY <3>1, <3>2, <3>4, <3>5, <3>6, LeftOfFour DEF Proper
  <2>2. /\ OpenFor(t, c, /\ DOMAIN c.values = AssignedFields(c.asset)
                         /\ \A d \in Stored(c) : c.values[d] \in db[Field(d)].allows, locks)
        /\ c.op \in AssetSteps
    BY <1>11 DEF ReplaceValues, AssetSteps
  <2> HIDE DEF locks
  <2> QED
    BY <2>1, <2>2, <1>a
<1> QED
  BY <1>1, <1>2, <1>3, <1>4, <1>5, <1>6, <1>7, <1>8, <1>9, <1>10, <1>11
  DEF StartAssetCall

LEMMA AssetKinds ==
  ASSUME Shape, Reach, NEW t \in Txns, AssetStep(t)
  PROVE  \/ GivesUp(t)
         \/ MovesOn(t, AssetSteps, AssetTables, "repeatable read")
         \/ AssetCommit(t)
<1>0. ASSUME txn[t].pc \in AssetSteps
      PROVE  ClaimsOn(t, AssetTables)
  BY <1>0 DEF Reach, FindingSteps, AssetSteps, RoleSteps
<1>1. CASE CascadeAsset(t)
  <2> DEFINE d == Locks(OwnRows(txn[t].call.asset), "all")
  <2>1. Rollback(t) \/ Advance(t, "erase asset", <<d>>)
    BY <1>1 DEF CascadeAsset
  <2>2. \A l \in LeftIn(<<d>>) : Proper(l, AssetTables)
    BY LeftOfOne, LocksOf
    DEF OwnRows, Identifiers, Assignments, Values, Table, Proper, AssetTables,
        AssignmentTable, ValueTable
  <2>3. txn[t].pc \in AssetSteps /\ "erase asset" \in AssetSteps
    BY <1>1 DEF CascadeAsset, Ready, AssetSteps
  <2>4. ClaimsOn(t, AssetTables)
    BY <1>0, <2>3
  <2> HIDE DEF d
  <2> QED
    BY <2>1, <2>2, <2>3, <2>4, AdvanceMoves, RollbackGivesUp
<1>2. CASE CascadeDefinition(t)
  <2> DEFINE d == Locks(Entries("asset_custom_field_key", txn[t].call.field)
                          \cup UsesOf(txn[t].call.field), "all")
  <2>1. Rollback(t) \/ Advance(t, "erase definition", <<d>>)
    BY <1>2 DEF CascadeDefinition
  <2>2. \A l \in LeftIn(<<d>>) : Proper(l, AssetTables)
    BY LeftOfOne, LocksOf, EntriesIn
    DEF UsesOf, Table, Proper, AssetTables, AssignmentTable, ValueTable
  <2>3. txn[t].pc \in AssetSteps /\ "erase definition" \in AssetSteps
    BY <1>2 DEF CascadeDefinition, Ready, AssetSteps
  <2>4. ClaimsOn(t, AssetTables)
    BY <1>0, <2>3
  <2> HIDE DEF d
  <2> QED
    BY <2>1, <2>2, <2>3, <2>4, AdvanceMoves, RollbackGivesUp
<1> QED
  BY <1>1, <1>2 DEF AssetStep, AssetCommit

LEMMA StartRole ==
  ASSUME Shape, NEW t \in Txns, txn[t].pc = "idle", NEW c \in Calls, StartRoleCall(t, c)
  PROVE  GivesUp(t) \/ MovesOn(t, RoleSteps, RoleTables, "read committed")
<1>0. ASSUME NEW p \in RoleSteps, NEW locks,
             \A l \in LeftIn(locks) : Proper(l, RoleTables),
             Open(t, c, p, locks)
      PROVE  MovesOn(t, RoleSteps, RoleTables, "read committed")
  BY <1>0, OpenMoves
<1>1. CASE CreateRole(t, c)
  <2> DEFINE a == {<<Role(t), "new">>}
             b == {<<RoleName(c.name), "new">>}
             d == Locks({Permission(t, p) : p \in c.permissions}, "new")
  <2>1. \A l \in LeftIn(<<a, b, d>>) : Proper(l, RoleTables)
    BY LeftOfThree, LocksOf, Names DEF Proper
  <2>2. Open(t, c, "write role", <<a, b, d>>) /\ "write role" \in RoleSteps
    BY <1>1 DEF CreateRole, RoleSteps
  <2> HIDE DEF a, b, d
  <2> QED
    BY <2>1, <2>2, <1>0
<1>2. CASE UpdateRole(t, c)
  <2>1. CASE Rollback(t)
    BY <2>1, RollbackGivesUp
  <2>2. CASE ~Rollback(t)
    <3> DEFINE scope == Permissions(c.role) \cup Holders(c.role)
    <3>1. PICK mode \in {"nokey", "all"} :
            OpenReading(t, c, "replace permissions", <<{<<Role(c.role), mode>>}>>, scope)
      BY <1>2, <2>2 DEF UpdateRole, UpdateModes
    <3>2. \A l \in LeftIn(<<{<<Role(c.role), mode>>}>>) : Proper(l, RoleTables)
      BY LeftOfOne, Names DEF RoleTables, Proper
    <3>3. scope \subseteq Rows /\ "replace permissions" \in RoleSteps
      BY DEF Permissions, Holders, Table, RoleSteps
    <3> HIDE DEF scope
    <3> QED
      BY <3>1, <3>2, <3>3, OpenReadingMoves
  <2> QED
    BY <2>1, <2>2
<1>3. CASE DeleteRole(t, c)
  <2> DEFINE a == Locks({Role(c.role)}, "all")
  <2>1. \A l \in LeftIn(<<a>>) : Proper(l, RoleTables)
    BY LeftOfOne, LocksOf, Names DEF Proper, RoleTables
  <2>2. Rollback(t) \/ Open(t, c, "cascade role", <<a>>)
    BY <1>3 DEF DeleteRole
  <2>3. "cascade role" \in RoleSteps
    BY DEF RoleSteps
  <2> HIDE DEF a
  <2> QED
    BY <2>1, <2>2, <2>3, <1>0, RollbackGivesUp
<1>4. CASE CreateUser(t, c) \/ CreateInitialAdmin(t, c)
  <2> DEFINE a == {<<User(t), "new">>}
             b == {<<Username(c.username), "new">>}
             d == {<<Email(c.email), "new">>}
             e == Locks({Role(r) : r \in c.roles}, "share")
  <2>1. \A l \in LeftIn(<<a, b, d, e>>) : Proper(l, RoleTables)
    BY LeftOfFour, LocksOf, Names DEF Proper
  <2>2. Rollback(t) \/ Open(t, c, "write user", <<a, b, d, e>>)
    BY <1>4 DEF CreateUser, CreateInitialAdmin, InsertLocks
  <2>3. "write user" \in RoleSteps
    BY DEF RoleSteps
  <2> HIDE DEF a, b, d, e
  <2> QED
    BY <2>1, <2>2, <2>3, <1>0, RollbackGivesUp
<1>5. CASE UpdateUser(t, c)
  <2>1. CASE Rollback(t)
    BY <2>1, RollbackGivesUp
  <2>2. CASE ~Rollback(t)
    <3> DEFINE scope == RolesOf(c.user)
    <3>1. PICK mode \in {"nokey", "all"} :
            OpenReading(t, c, "replace roles", <<{<<User(c.user), mode>>}>>, scope)
      BY <1>5, <2>2 DEF UpdateUser, UpdateModes
    <3>2. \A l \in LeftIn(<<{<<User(c.user), mode>>}>>) : Proper(l, RoleTables)
      BY LeftOfOne, Names DEF RoleTables, Proper
    <3>3. scope \subseteq Rows /\ "replace roles" \in RoleSteps
      BY DEF RolesOf, Table, RoleSteps
    <3> HIDE DEF scope
    <3> QED
      BY <3>1, <3>2, <3>3, OpenReadingMoves
  <2> QED
    BY <2>1, <2>2
<1> QED
  BY <1>1, <1>2, <1>3, <1>4, <1>5 DEF StartRoleCall

\* The locks with which permissions, and roles of users, are replaced.
PermissionLocks(t) ==
  LET c == txn[t].call
      new == {Permission(c.role, p) : p \in c.permissions}
  IN <<Freed(RoleName(c.name), c.role), Claimed(RoleName(c.name), c.role),
       Locks(Permissions(c.role), "all"), Locks(new \ Permissions(c.role), "new"),
       Locks(Sessions(Affected(t)), "all")>>

LEMMA PermissionLocksTaken ==
  ASSUME NEW t
  PROVE  LET c == txn[t].call
         IN \A l \in LeftIn(PermissionLocks(t)) :
              /\ l = <<l[1], l[2]>>
              /\ \/ l[2] = "all" /\ l[1][1] \in {"role_name", "user_session"}
                 \/ l[2] = "all" /\ l[1] \in Permissions(c.role)
                 \/ l[2] = "new" /\ l[1][1] = "role_name"
                 \/ l[2] = "new" /\ l[1] \in {Permission(c.role, p) : p \in c.permissions}
<1> DEFINE c == txn[t].call
           entry == RoleName(c.name)
           new == {Permission(c.role, p) : p \in c.permissions}
           a == Freed(entry, c.role)
           b == Claimed(entry, c.role)
           d == Locks(Permissions(c.role), "all")
           e == Locks(new \ Permissions(c.role), "new")
           f == Locks(Sessions(Affected(t)), "all")
<1>1. PermissionLocks(t) = <<a, b, d, e, f>>
  BY DEF PermissionLocks
<1>2. entry[1] = "role_name"
  BY Names
<1> HIDE DEF entry
<1>3. \A l \in a : l = <<l[1], l[2]>> /\ l[2] = "all" /\ l[1][1] = "role_name"
  BY <1>2, FreedClaimed
<1>4. \A l \in b : l = <<l[1], l[2]>> /\ l[2] = "new" /\ l[1][1] = "role_name"
  BY <1>2, FreedClaimed
<1>5. \A l \in d : l = <<l[1], l[2]>> /\ l[2] = "all" /\ l[1] \in Permissions(c.role)
  BY LocksOf
<1>6. \A l \in e : l = <<l[1], l[2]>> /\ l[2] = "new" /\ l[1] \in new
  BY LocksOf
<1>7. \A l \in f : l = <<l[1], l[2]>> /\ l[2] = "all" /\ l[1][1] = "user_session"
  BY LocksOf DEF Sessions, Table
<1> HIDE DEF a, b, d, e, f
<1>8. LeftIn(<<a, b, d, e, f>>) = a \cup b \cup d \cup e \cup f
  BY LeftOfFive
<1> QED
  BY <1>1, <1>3, <1>4, <1>5, <1>6, <1>7, <1>8

AssignmentLocks(t) ==
  LET c == txn[t].call
      new == {Holds(c.user, r) : r \in c.roles}
  IN <<Freed(Email(c.email), c.user), Claimed(Email(c.email), c.user),
       Locks(RolesOf(c.user), "all"), Locks(new \ RolesOf(c.user), "new"),
       Locks({Role(r) : r \in c.roles}, "share"),
       Locks(IF Revokes(t) THEN Sessions({c.user}) ELSE {}, "all")>>

LEMMA AssignmentLocksTaken ==
  ASSUME NEW t
  PROVE  LET c == txn[t].call
         IN \A l \in LeftIn(AssignmentLocks(t)) :
              /\ l = <<l[1], l[2]>>
              /\ \/ l[2] = "all" /\ l[1][1] \in {"user_profile_email", "user_session"}
                 \/ l[2] = "all" /\ l[1] \in RolesOf(c.user)
                 \/ l[2] = "new" /\ l[1][1] = "user_profile_email"
                 \/ l[2] = "new" /\ l[1] \in {Holds(c.user, r) : r \in c.roles}
                 \/ l[2] = "share" /\ l[1][1] = "role"
<1> DEFINE c == txn[t].call
           entry == Email(c.email)
           new == {Holds(c.user, r) : r \in c.roles}
           a == Freed(entry, c.user)
           b == Claimed(entry, c.user)
           d == Locks(RolesOf(c.user), "all")
           e == Locks(new \ RolesOf(c.user), "new")
           f == Locks({Role(r) : r \in c.roles}, "share")
           g == Locks(IF Revokes(t) THEN Sessions({c.user}) ELSE {}, "all")
<1>1. AssignmentLocks(t) = <<a, b, d, e, f, g>>
  BY DEF AssignmentLocks
<1>2. entry[1] = "user_profile_email"
  BY Names
<1> HIDE DEF entry
<1>3. \A l \in a : l = <<l[1], l[2]>> /\ l[2] = "all" /\ l[1][1] = "user_profile_email"
  BY <1>2, FreedClaimed
<1>4. \A l \in b : l = <<l[1], l[2]>> /\ l[2] = "new" /\ l[1][1] = "user_profile_email"
  BY <1>2, FreedClaimed
<1>5. \A l \in d : l = <<l[1], l[2]>> /\ l[2] = "all" /\ l[1] \in RolesOf(c.user)
  BY LocksOf
<1>6. \A l \in e : l = <<l[1], l[2]>> /\ l[2] = "new" /\ l[1] \in new
  BY LocksOf
<1>7. \A l \in f : l = <<l[1], l[2]>> /\ l[2] = "share" /\ l[1][1] = "role"
  BY LocksOf, Names
<1>8. \A l \in g : l = <<l[1], l[2]>> /\ l[2] = "all" /\ l[1][1] = "user_session"
  BY LocksOf DEF Sessions, Table
<1> HIDE DEF a, b, d, e, f, g
<1>9. LeftIn(<<a, b, d, e, f, g>>) = a \cup b \cup d \cup e \cup f \cup g
  BY LeftOfSix
<1> QED
  BY <1>1, <1>3, <1>4, <1>5, <1>6, <1>7, <1>8, <1>9

LEMMA RoleKinds ==
  ASSUME Shape, Reach, NEW t \in Txns, RoleStep(t)
  PROVE  \/ GivesUp(t)
         \/ MovesOn(t, RoleSteps, RoleTables, "read committed")
         \/ RoleCommit(t)
<1>0. ASSUME txn[t].pc \in RoleSteps
      PROVE  ClaimsOn(t, RoleTables)
  BY <1>0 DEF Reach, FindingSteps, AssetSteps, RoleSteps
<1>1. CASE ReplacePermissions(t)
  <2>1. Rollback(t) \/ Advance(t, "write role", PermissionLocks(t))
    BY <1>1 DEF ReplacePermissions, PermissionLocks
  <2>2. \A l \in LeftIn(PermissionLocks(t)) : Proper(l, RoleTables)
    BY PermissionLocksTaken, Names DEF Permissions, Table, Proper, RoleTables
  <2>3. txn[t].pc \in RoleSteps /\ "write role" \in RoleSteps
    BY <1>1 DEF ReplacePermissions, Ready, RoleSteps
  <2>4. ClaimsOn(t, RoleTables)
    BY <1>0, <2>3
  <2> QED
    BY <2>1, <2>2, <2>3, <2>4, AdvanceMoves, RollbackGivesUp
<1>2. CASE CascadeRole(t)
  <2> DEFINE r == txn[t].call.role
             a == Locks(Entries("role_name", r) \cup Permissions(r) \cup Holders(r), "all")
  <2>1. Rollback(t) \/ Advance(t, "erase role", <<a>>)
    BY <1>2 DEF CascadeRole
  <2>2. \A l \in LeftIn(<<a>>) : Proper(l, RoleTables)
    BY LeftOfOne, LocksOf, EntriesIn DEF Permissions, Holders, Table, Proper, RoleTables
  <2>3. txn[t].pc \in RoleSteps /\ "erase role" \in RoleSteps
    BY <1>2 DEF CascadeRole, Ready, RoleSteps
  <2>4. ClaimsOn(t, RoleTables)
    BY <1>0, <2>3
  <2> HIDE DEF a
  <2> QED
    BY <2>1, <2>2, <2>3, <2>4, AdvanceMoves, RollbackGivesUp
<1>3. CASE ReplaceRoles(t)
  <2>1. Rollback(t) \/ Advance(t, "write user", AssignmentLocks(t))
    BY <1>3 DEF ReplaceRoles, AssignmentLocks
  <2>2. \A l \in LeftIn(AssignmentLocks(t)) : Proper(l, RoleTables)
    BY AssignmentLocksTaken, Names DEF RolesOf, Table, Proper, RoleTables
  <2>3. txn[t].pc \in RoleSteps /\ "write user" \in RoleSteps
    BY <1>3 DEF ReplaceRoles, Ready, RoleSteps
  <2>4. ClaimsOn(t, RoleTables)
    BY <1>0, <2>3
  <2> QED
    BY <2>1, <2>2, <2>3, <2>4, AdvanceMoves, RollbackGivesUp
<1> QED
  BY <1>1, <1>2, <1>3 DEF RoleStep, RoleCommit

\* Every step gives up, takes or passes over a lock, moves on or commits.
StepKind(t) ==
  \/ GivesUp(t)
  \/ /\ Shape' /\ Others(t) /\ db' = db /\ SameCall(t)
     /\ Taken(t) \/ PassedOver(t)
  \/ MovesOn(t, FindingSteps, FindingTables, "read committed")
  \/ MovesOn(t, AssetSteps, AssetTables, "repeatable read")
  \/ MovesOn(t, RoleSteps, RoleTables, "read committed")
  \/ FindingCommit(t) \/ AssetCommit(t) \/ RoleCommit(t)

LEMMA StepKinds ==
  ASSUME Shape, Reach, NEW t \in Txns, StepOf(t)
  PROVE  StepKind(t)
<1>1. CASE Begin(t)
  <2>1. PICK c \in Calls : \/ StartFindingCall(t, c)
                           \/ StartAssetCall(t, c)
                           \/ StartRoleCall(t, c)
    BY <1>1 DEF Begin
  <2>2. txn[t].pc = "idle"
    BY <1>1 DEF Begin
  <2> QED
    BY <2>1, <2>2, StartFinding, StartAsset, StartRole DEF StepKind
<1>2. CASE Lock(t)
  BY <1>2, LockEffect, RollbackGivesUp DEF StepKind
<1>3. CASE Fail(t)
  BY <1>3, RollbackGivesUp DEF Fail, StepKind
<1>4. CASE FindingStep(t)
  BY <1>4, FindingKinds DEF StepKind
<1>5. CASE AssetStep(t)
  BY <1>5, AssetKinds DEF StepKind
<1>6. CASE RoleStep(t)
  BY <1>6, RoleKinds DEF StepKind
<1> QED
  BY <1>1, <1>2, <1>3, <1>4, <1>5, <1>6 DEF StepOf

-----------------------------------------------------------------------------
\* What commits write.

Named(r) == r = IF r[1] \in Triples THEN <<r[1], r[2], r[3]>> ELSE <<r[1], r[2]>>

LEMMA NamesAreNamed ==
  \A x, y :
    /\ Named(Ingestion(x)) /\ Named(Asset(x)) /\ Named(Identifier(x)) /\ Named(Key(x))
    /\ Named(Field(x)) /\ Named(Assigned(x, y)) /\ Named(Value(x, y)) /\ Named(Finding(x))
    /\ Named(Observation(x)) /\ Named(Link(x, y)) /\ Named(Vulnerability(x))
    /\ Named(Role(x)) /\ Named(Permission(x, y)) /\ Named(User(x)) /\ Named(Holds(x, y))
    /\ Named(FieldKey(x)) /\ Named(VulnerabilityKey(x)) /\ Named(RoleName(x))
    /\ Named(Username(x)) /\ Named(Email(x)) /\ Named(Session(x))
BY Names DEF Named, Triples

LEMMA RowAfter ==
  ASSUME NEW t, NEW W, Commit(t, W)
  PROVE  /\ \A r : Row(r)' = IF r \in DOMAIN W THEN W[r] ELSE Row(r)
         /\ Rows' = Rows \cup DOMAIN W
BY DEF Commit, Row, Rows, ++

\* A transaction commits rows of these tables.
WritesOn(t, tables) ==
  \E W : Commit(t, W) /\ \A r \in DOMAIN W : r[1] \in tables /\ Named(r)

LEMMA LockedRows ==
  ASSUME WellNamed, NEW t \in Txns, NEW tables, ClaimsOn(t, tables), NEW r \in Locked(t)
  PROVE  <<r, "all">> \in txn[t].held /\ r \in Rows /\ r[1] \in tables /\ Named(r)
<1>1. PICK h \in txn[t].held : h[2] = "all" /\ r = h[1]
  BY DEF Locked

<1> QED
  BY <1>1 DEF ClaimsOn, Claims, Proper, WellNamed, Named

LEMMA FindingWrites ==
  ASSUME Reach, WellNamed, NEW t \in Txns, EditPlan(t), FindingCommit(t)
  PROVE  GivesUp(t) \/ WritesOn(t, FindingTables)
<1> DEFINE Fine(r) == r[1] \in FindingTables /\ Named(r)
<1>0. ASSUME NEW W, Commit(t, W), \A r \in DOMAIN W : Fine(r)
      PROVE  WritesOn(t, FindingTables)
  BY <1>0 DEF WritesOn
<1>n. \A x, y : /\ Fine(Ingestion(x)) /\ Fine(Finding(x)) /\ Fine(Observation(x))
                /\ Fine(Link(x, y)) /\ Fine(Vulnerability(x)) /\ Fine(VulnerabilityKey(x))
  BY Names, NamesAreNamed DEF FindingTables
<1>l. ASSUME txn[t].pc \in FindingSteps
      PROVE  \A r \in Locked(t) : Fine(r)
  <2>1. ClaimsOn(t, FindingTables)
    BY <1>l DEF Reach, FindingSteps, AssetSteps, RoleSteps
  <2> QED
    BY <2>1, <1>l, LockedRows
<1>o. ASSUME NEW f
      PROVE  \A r \in Of(f) : Fine(r)
  BY <1>n DEF Of, FindingTables, WellNamed, Named
<1>t. ASSUME NEW fs
      PROVE  \A r \in DOMAIN Touched(t, fs) : Fine(r)
  BY <1>n DEF Touched
<1> HIDE DEF Fine
<1>1. CASE WriteEdit(t)
  <2> DEFINE c == txn[t].call
             W == Edited(t, c)
  <2>1. Commit(t, W) /\ c.op \in Edits
    BY <1>1 DEF WriteEdit, Ready, EditPlan
  <2>2. CASE c.op = "updateByID"
    BY <2>1, <2>2, <1>0, <1>t DEF Edited
  <2>3. CASE c.op = "deleteByID"
    BY <2>1, <2>3, <1>0, <1>o DEF Edited, Erased
  <2>4. CASE c.op = "createManualObservation"
    BY <2>1, <2>4, <1>0, <1>n, <1>t DEF Edited, Put, ++, NewObservation
  <2>5. CASE c.op = "updateObservation"
    BY <2>1, <2>5, <1>0, <1>n, <1>t DEF Edited, Put, ++
  <2>6. CASE c.op = "deleteObservation"
    BY <2>1, <2>6, <1>0, <1>n, <1>t DEF Edited, Erased, ++
  <2>7. CASE c.op = "moveObservation"
    BY <2>1, <2>7, <1>0, <1>n, <1>t DEF Edited, Put, ++
  <2> QED
    BY <2>1, <2>2, <2>3, <2>4, <2>5, <2>6, <2>7 DEF Edits
<1>2. CASE WriteCreated(t)
  <2> DEFINE c == txn[t].call
             W == [r \in {Finding(t)} |-> [asset |-> c.asset, stamp |-> t]]
                    ++ [r \in {NewObservation(t, t)} |-> [finding |-> t, stamp |-> t]]
                    ++ [r \in {Link(t, v) : v \in c.vulnerabilities} |-> [stamp |-> t]]
  <2>1. Commit(t, W)
    BY <1>2 DEF WriteCreated
  <2>2. \A r \in DOMAIN W : Fine(r)
    BY <1>n DEF ++, NewObservation
  <2> QED
    BY <2>1, <2>2, <1>0
<1>3. CASE TouchLinked(t)
  <2> DEFINE c == txn[t].call
             link == Link(c.finding, c.vulnerability)
             W == Put(link, IF c.op = "linkVulnerability" THEN [stamp |-> t] ELSE Absent)
                    ++ Touched(t, {c.finding})
  <2>1. Rollback(t) \/ Commit(t, W)
    BY <1>3 DEF TouchLinked
  <2>2. \A r \in DOMAIN W : Fine(r)
    BY <1>n, <1>t DEF ++, Put
  <2> QED
    BY <2>1, <2>2, <1>0, RollbackGivesUp
<1>4. CASE InsertVulnerability(t)
  <2> DEFINE W == Put(Vulnerability(t), [stamp |-> t])
                    ++ Put(VulnerabilityKey(txn[t].call.key), Entry(t, t))
  <2>1. Commit(t, W)
    BY <1>4 DEF InsertVulnerability
  <2>2. \A r \in DOMAIN W : Fine(r)
    BY <1>n DEF ++, Put
  <2> QED
    BY <2>1, <2>2, <1>0
<1>5. CASE WriteVulnerability(t)
  <2> DEFINE c == txn[t].call
             W == Put(Vulnerability(c.vulnerability), [stamp |-> t])
                    ++ Put(VulnerabilityKey(c.key), Entry(c.vulnerability, t))
                    ++ Erased(Locked(t))
  <2>1. \/ Rollback(t)
        \/ Commit(t, Erased(Locked(t)))
        \/ Commit(t, W)
    BY <1>5 DEF WriteVulnerability
  <2>2. txn[t].pc \in FindingSteps
    BY <1>5 DEF WriteVulnerability, Ready, FindingSteps
  <2>3. /\ \A r \in DOMAIN Erased(Locked(t)) : Fine(r)
        /\ \A r \in DOMAIN W : Fine(r)
    BY <2>2, <1>l, <1>n DEF Erased, Put, ++
  <2> QED
    BY <2>1, <2>3, <1>0, RollbackGivesUp
<1>6. CASE WritePlan(t)
  <2> DEFINE c == txn[t].call
             attached == {NewObservation(t, f) : f \in c.findings \cup {t}}
             W == [r \in attached |-> [finding |-> r[2][2], stamp |-> t]]
                    ++ Put(Finding(t), [asset |-> c.asset, stamp |-> t])
                    ++ Touched(t, c.findings)
                    ++ Put(Ingestion(c.ingestion), [status |-> "completed", stamp |-> t])
  <2>1. Rollback(t) \/ Commit(t, W)
    BY <1>6 DEF WritePlan
  <2>2. \A r \in DOMAIN W : \/ r \in attached \/ r = Finding(t)
                             \/ r \in DOMAIN Touched(t, c.findings) \/ r = Ingestion(c.ingestion)
    BY DEF ++, Put
  <2>3. \A r \in attached : Fine(r)
    BY <1>n DEF NewObservation
  <2>4. \A r \in DOMAIN W : Fine(r)
    <3> HIDE DEF W, attached, Fine
    <3> QED
      BY <1>n, <1>t, <2>2, <2>3
  <2> QED
    BY <2>1, <2>4, <1>0, RollbackGivesUp
<1> QED
  BY <1>1, <1>2, <1>3, <1>4, <1>5, <1>6 DEF FindingCommit

-----------------------------------------------------------------------------
\* What the commits of asset calls do to the rows.

LEMMA Contents ==
  ASSUME NEW s, NEW t, NEW x
  PROVE  /\ [stamp |-> s] # Absent /\ [data |-> x, stamp |-> s] # Absent
         /\ Alike([stamp |-> s], [stamp |-> t])
         /\ Alike([data |-> x, stamp |-> s], [data |-> x, stamp |-> t])
BY DEF Absent, Alike, Content

LEMMA AlikeLaws ==
  /\ \A x : Alike(x, x)
  /\ \A x, y : Alike(x, y) => Alike(y, x)
  /\ \A x, y, z : Alike(x, y) /\ Alike(y, z) => Alike(x, z)
BY DEF Alike

Generated(t) == {Asset(t), Field(t)} \cup {NewIdentifier(t, k) : k \in NewKeys}

\* A row that changes was locked, or is new with a generated id.
KeepsLocks(t) ==
  \A r : r[1] \in Guarded /\ Row(r)' # Row(r) =>
    /\ Holding(t, r) \/ r \in Generated(t)
    /\ Row(r)' = Absent => <<r, "all">> \in txn[t].held

\* What an asset owns stays as it is, but for what goes with a definition, or the
\* asset's audit columns do not.
Audits(t) ==
  \A a : Row(Asset(a))' = Row(Asset(a)) =>
    \A r : /\ Custom(r) /\ r[2] = a =>
                \/ Alike(Row(r)', Row(r))
                \/ Swept(r)' /\ <<Field(r[3]), "all">> \in txn[t].held
           /\ /\ r[1] = "asset_identifier"
              /\ Owned(a, r, Row(r)) \/ Owned(a, r, Row(r)')
              => Row(r)' = Row(r)

\* What changes is signed and well formed, and stays with its owner.
Signs(t) ==
  \A r : Row(r)' # Row(r) /\ Row(r)' # Absent =>
    /\ r[1] \in Snapshots \ {"asset_identifier"} => Row(r)'.stamp = t
    /\ Columns(r, Row(r)')
    /\ r[1] = "asset_identifier" /\ Row(r) # Absent => Row(r)'.asset = Row(r).asset

\* What is new refers to what is there, and has a new id.
Inserts(t) ==
  \A r : Row(r) = Absent /\ Row(r)' # Absent =>
    /\ Custom(r) => {<<Asset(r[2]), "share">>, <<Field(r[3]), "share">>} \subseteq txn[t].held
    /\ r[1] \in {"asset", "asset_identifier", "asset_custom_field"} => r \in Generated(t)
    /\ r[1] = "asset_identifier" => \/ Row(r)'.asset = t
                                    \/ <<Asset(Row(r)'.asset), "share">> \in txn[t].held

Effect(t) == KeepsLocks(t) /\ Audits(t) /\ Signs(t) /\ Inserts(t)

Base == Shape /\ WellNamed /\ WellFormed /\ Fresh /\ Reach /\ Exclusive /\ HeldThere /\ HeldAsSeen
Plan(t) == /\ EditPlan(t) /\ CreationPlan(t) /\ InventoryPlan(t) /\ DeletionPlan(t)
           /\ DefinitionPlan(t) /\ SweepPlan(t) /\ AssignmentsPlan(t) /\ ValuesPlan(t)
           /\ RolePlan(t) /\ UserPlan(t)
Plans == \A t \in Txns : Plan(t)

LEMMA ReadyClaims ==
  ASSUME NEW t, NEW pc, Ready(t, pc)
  PROVE  Claims(t) = txn[t].held /\ txn[t].pc = pc
BY DEF Ready, Claims

\* An asset whose audit columns a transaction writes.
LEMMA AuditShows ==
  ASSUME Fresh, NEW t \in Txns, txn[t].pc # "ended", NEW a
  PROVE  Row(Asset(a)) # [stamp |-> t]
<1>1. CASE Asset(a) \in Rows /\ Row(Asset(a)) # Absent
  BY <1>1, Names DEF Fresh, NotOf, Snapshots, Indexes, AssetTables
<1>2. CASE ~(Asset(a) \in Rows /\ Row(Asset(a)) # Absent)
  BY <1>2, Contents DEF Row
<1> QED
  BY <1>1, <1>2

LEMMA NotYetThere ==
  ASSUME Fresh, NEW t \in Txns, txn[t].pc # "ended"
  PROVE  \A r \in Generated(t) : Row(r) = Absent
<1>1. \A r \in Rows : Row(r) # Absent => NotOf(t, r, Row(r))
  BY DEF Fresh
<1>2. \A r : r \notin Rows => Row(r) = Absent
  BY DEF Row
<1>3. Row(Asset(t)) = Absent
  BY <1>1, <1>2, Names DEF NotOf, Snapshots, Indexes, AssetTables
<1>4. Row(Field(t)) = Absent
  BY <1>1, <1>2, Names DEF NotOf, Snapshots, Indexes, AssetTables
<1>5. \A k \in NewKeys : Row(NewIdentifier(t, k)) = Absent
  BY <1>1, <1>2 DEF NotOf
<1> QED
  BY <1>3, <1>4, <1>5 DEF Generated

\* The names of two tables differ.
LEMMA Tables ==
  \A x, y :
    /\ Asset(x)[1] = "asset" /\ Asset(x)[2] = x
    /\ Identifier(x)[1] = "asset_identifier" /\ Identifier(x)[2] = x
    /\ Key(x)[1] = "asset_identifier_key"
    /\ Field(x)[1] = "asset_custom_field" /\ Field(x)[2] = x
    /\ FieldKey(x)[1] = "asset_custom_field_key"
    /\ Assigned(x, y)[1] = AssignmentTable /\ Assigned(x, y)[2] = x /\ Assigned(x, y)[3] = y
    /\ Value(x, y)[1] = ValueTable /\ Value(x, y)[2] = x /\ Value(x, y)[3] = y
BY Names DEF AssignmentTable, ValueTable

LEMMA NewNames ==
  \A t, k : NewIdentifier(t, k)[1] = "asset_identifier" /\ Named(NewIdentifier(t, k))
BY Tables, NamesAreNamed DEF NewIdentifier

LEMMA Prevails ==
  ASSUME NEW f, NEW g
  PROVE  /\ DOMAIN (f ++ g) = DOMAIN f \cup DOMAIN g
         /\ \A r \in DOMAIN f : (f ++ g)[r] = f[r]
         /\ \A r \in DOMAIN g \ DOMAIN f : (f ++ g)[r] = g[r]
BY DEF ++

LEMMA WriteAssetEffect ==
  ASSUME Base, Plans, NEW t \in Txns, WriteAsset(t)
  PROVE  WritesOn(t, AssetTables) /\ Effect(t)
<1> DEFINE keys == txn[t].call.keys
           K == [r \in {Key(k) : k \in keys} |-> [stamp |-> t]]
           N == [r \in {NewIdentifier(t, k) : k \in keys} |->
                   [asset |-> t, key |-> r[2][2], stamp |-> t]]
           W == K ++ N ++ Audited(t, t)
<1>1. Commit(t, W) /\ txn[t].pc = "create" /\ txn[t].pc # "ended" /\ txn[t].call \in Calls
      /\ txn[t].call.op = "create"
  BY DEF WriteAsset, Ready, Plans, Plan, CreationPlan
<1>2. keys \subseteq NewKeys
  BY <1>1 DEF NewKeys
<1>3. Audited(t, t) = [q \in {Asset(t)} |-> [stamp |-> t]]
  BY DEF Audited, Put
<1>a. /\ \A k, l : Key(k) # Asset(t) /\ NewIdentifier(t, k) # Asset(t)
                    /\ Key(l) # NewIdentifier(t, k)
  BY Tables, NewNames
<1>b. /\ DOMAIN K = {Key(k) : k \in keys}
      /\ DOMAIN N = {NewIdentifier(t, k) : k \in keys}
      /\ \A k \in keys : N[NewIdentifier(t, k)].asset = t /\ N[NewIdentifier(t, k)] # Absent
      /\ DOMAIN Audited(t, t) = {Asset(t)}
      /\ Audited(t, t)[Asset(t)] = [stamp |-> t]
  BY <1>3 DEF Absent
<1> HIDE DEF K, N
<1>4. /\ DOMAIN W = {Key(k) : k \in keys} \cup {NewIdentifier(t, k) : k \in keys} \cup {Asset(t)}
      /\ W[Asset(t)] = [stamp |-> t]
      /\ \A k \in keys : W[NewIdentifier(t, k)].asset = t /\ W[NewIdentifier(t, k)] # Absent
  <2>1. /\ DOMAIN (K ++ N) = DOMAIN K \cup DOMAIN N
        /\ \A r \in DOMAIN N \ DOMAIN K : (K ++ N)[r] = N[r]
    BY Prevails
  <2>2. /\ DOMAIN W = DOMAIN (K ++ N) \cup DOMAIN Audited(t, t)
        /\ \A r \in DOMAIN (K ++ N) : W[r] = (K ++ N)[r]
        /\ \A r \in DOMAIN Audited(t, t) \ DOMAIN (K ++ N) : W[r] = Audited(t, t)[r]
    BY Prevails
  <2> HIDE DEF W
  <2> QED
    BY <1>a, <1>b, <2>1, <2>2
<1> HIDE DEF W
<1>5. \A r : Row(r)' = IF r \in DOMAIN W THEN W[r] ELSE Row(r)
  BY <1>1, RowAfter
<1>6. /\ Row(Asset(t)) = Absent
      /\ \A k \in keys : Row(NewIdentifier(t, k)) = Absent
  BY <1>1, <1>2, NotYetThere DEF Base, Generated
<1>7. \A r : r[1] # "asset_identifier_key" /\ Row(r)' # Row(r) =>
        \/ r = Asset(t)
        \/ \E k \in keys : r = NewIdentifier(t, k)
  BY <1>4, <1>5, Tables
<1>8. WritesOn(t, AssetTables)
  <2>1. \A r \in DOMAIN W : r[1] \in AssetTables /\ Named(r)
    <3>1. \A k : /\ Key(k)[1] \in AssetTables /\ Named(Key(k))
                 /\ NewIdentifier(t, k)[1] \in AssetTables /\ Named(NewIdentifier(t, k))
                 /\ Asset(t)[1] \in AssetTables /\ Named(Asset(t))
      BY Tables, NewNames, NamesAreNamed DEF AssetTables
    <3> QED
      BY <1>4, <3>1
  <2> QED
    BY <1>1, <2>1 DEF WritesOn
<1>9. KeepsLocks(t)
  <2>1. /\ Row(Asset(t))' # Absent
        /\ \A k \in keys : Row(NewIdentifier(t, k))' # Absent
    BY <1>4, <1>5, Contents
  <2> QED
    BY <1>2, <1>7, <2>1 DEF KeepsLocks, Guarded, Indexes, AssetTables, Generated
<1>10. \A r : Custom(r) => Row(r)' = Row(r)
  BY <1>7, Tables, NewNames DEF Custom, AssignmentTable, ValueTable
<1>11. \A r : r[1] = "asset_identifier" /\ Row(r)' # Row(r) =>
         Row(r) = Absent /\ Row(r)'.asset = t /\ r \in Generated(t)
  BY <1>2, <1>4, <1>5, <1>6, <1>7, Tables DEF Generated
<1>12. Row(Asset(t))' # Row(Asset(t))
  BY <1>4, <1>5, <1>6, Contents
<1>13. Audits(t)
  <2>1. ASSUME NEW a, Row(Asset(a))' = Row(Asset(a)), NEW r
        PROVE  /\ Custom(r) /\ r[2] = a => Alike(Row(r)', Row(r))
               /\ /\ r[1] = "asset_identifier"
                  /\ Owned(a, r, Row(r)) \/ Owned(a, r, Row(r)')
                  => Row(r)' = Row(r)
    <3>1. a # t
      BY <1>12, <2>1
    <3> QED
      BY <1>10, <1>11, <3>1, AlikeLaws DEF Owned, Custom, AssignmentTable, ValueTable
  <2> QED
    BY <2>1 DEF Audits
<1>14. Signs(t)
  <2>1. ASSUME NEW r, Row(r)' # Row(r), Row(r)' # Absent
        PROVE  /\ r[1] \in Snapshots \ {"asset_identifier"} => Row(r)'.stamp = t
               /\ Columns(r, Row(r)')
               /\ r[1] = "asset_identifier" /\ Row(r) # Absent => Row(r)'.asset = Row(r).asset
    <3>1. Columns(r, Row(r)')
      BY <1>10, <2>1 DEF Columns, Custom
    <3>2. CASE r = Asset(t)
      BY <1>4, <1>5, <3>1, <3>2, Tables
    <3>3. CASE \E k \in keys : r = NewIdentifier(t, k)
      BY <1>6, <3>1, <3>3, NewNames
    <3>4. CASE r[1] = "asset_identifier_key"
      BY <3>1, <3>4 DEF Snapshots, Indexes
    <3> QED
      BY <1>7, <2>1, <3>2, <3>3, <3>4
  <2> QED
    BY <2>1 DEF Signs
<1>15. Inserts(t)
  <2>1. ASSUME NEW r, Row(r) = Absent, Row(r)' # Absent
        PROVE  /\ ~Custom(r)
               /\ r[1] \in {"asset", "asset_identifier", "asset_custom_field"} => r \in Generated(t)
               /\ r[1] = "asset_identifier" => Row(r)'.asset = t
    BY <1>2, <1>7, <1>10, <1>11, <2>1 DEF Generated
  <2> QED
    BY <2>1 DEF Inserts
<1> QED
  BY <1>8, <1>9, <1>13, <1>14, <1>15 DEF Effect

\* All that changes is of one asset, and its audit columns do too.
LEMMA AuditsOne ==
  ASSUME NEW t, NEW a, Row(Asset(a))' # Row(Asset(a)),
         \A r : Row(r)' # Row(r) =>
           /\ Custom(r) => r[2] = a
           /\ r[1] = "asset_identifier" =>
                /\ Row(r) # Absent => Row(r).asset = a
                /\ Row(r)' # Absent => Row(r)'.asset = a
  PROVE  Audits(t)
<1>1. ASSUME NEW b, Row(Asset(b))' = Row(Asset(b)), NEW r
      PROVE  /\ Custom(r) /\ r[2] = b => Alike(Row(r)', Row(r))
             /\ /\ r[1] = "asset_identifier"
                /\ Owned(b, r, Row(r)) \/ Owned(b, r, Row(r)')
                => Row(r)' = Row(r)
  <2>1. a # b
    BY <1>1
  <2>2. Custom(r) /\ r[2] = b => Row(r)' = Row(r)
    BY <2>1
  <2>3. r[1] = "asset_identifier" /\ (Owned(b, r, Row(r)) \/ Owned(b, r, Row(r)'))
          => Row(r)' = Row(r)
    BY <2>1 DEF Owned, Custom, AssignmentTable, ValueTable
  <2> QED
    BY <2>2, <2>3, AlikeLaws
<1> QED
  BY <1>1 DEF Audits

\* Rows of which none appears, and all of which are held to be deleted.
LEMMA ErasedOnly ==
  ASSUME NEW t, \A r \in Locked(t) : <<r, "all">> \in txn[t].held,
         \A r : Row(r)' # Row(r) => Row(r)' = Absent /\ (r[1] \in Guarded => r \in Locked(t))
  PROVE  KeepsLocks(t) /\ Signs(t) /\ Inserts(t)
<1>1. \A r \in Locked(t) : Holding(t, r)
  BY DEF Holding
<1>2. KeepsLocks(t)
  BY <1>1 DEF KeepsLocks
<1>3. ~\E r : Row(r)' # Row(r) /\ Row(r)' # Absent
  OBVIOUS
<1>4. Signs(t)
  BY <1>3 DEF Signs
<1>5. Inserts(t)
  BY <1>3 DEF Inserts
<1> QED
  BY <1>2, <1>4, <1>5

LEMMA AssetClaims ==
  ASSUME Reach, NEW t \in Txns, txn[t].pc \in AssetSteps
  PROVE  /\ ClaimsOn(t, AssetTables) /\ txn[t].level = "repeatable read"
         /\ txn[t].pc # "ended"
BY DEF Reach, FindingSteps, AssetSteps, RoleSteps

LEMMA EraseAssetEffect ==
  ASSUME Base, Plans, NEW t \in Txns, EraseAsset(t)
  PROVE  WritesOn(t, AssetTables) /\ Effect(t)
<1>0. PICK a : a = txn[t].call.asset
  OBVIOUS
<1> DEFINE keys == {Key(db[i].key) : i \in Locked(t) \cap Identifiers(a)}
           W == Erased(Locked(t) \cup keys)
<1>1. Commit(t, W) /\ txn[t].pc = "erase asset" /\ Claims(t) = txn[t].held
  BY <1>0, ReadyClaims DEF EraseAsset
<1>2. /\ <<Asset(a), "all">> \in txn[t].held
      /\ \A l \in Claims(t) : l[2] = "all" =>
           l[1] = Asset(a) \/ Row(l[1]) = Absent \/ Owned(a, l[1], Row(l[1]))
  <2>1. /\ <<Asset(a), "all">> \in txn[t].held
        /\ \A l \in Claims(t) : l[2] = "all" =>
             \/ l[1] = Asset(a)
             \/ Custom(l[1]) /\ l[1][2] = a
             \/ Row(l[1]) = Absent \/ Owned(a, l[1], Row(l[1]))
    BY <1>0, <1>1 DEF Plans, Plan, DeletionPlan
  <2> QED
    BY <2>1 DEF Owned
<1>3. ClaimsOn(t, AssetTables)
  BY <1>1, AssetClaims DEF Base, AssetSteps
<1>4. DOMAIN W = Locked(t) \cup keys /\ \A r \in DOMAIN W : W[r] = Absent
  BY DEF Erased
<1>5. \A r \in keys : r[1] = "asset_identifier_key" /\ Named(r)
  BY Tables, NamesAreNamed
<1> HIDE DEF W, keys
<1>6. \A r : Row(r)' = IF r \in Locked(t) \cup keys THEN Absent ELSE Row(r)
  BY <1>1, <1>4, RowAfter
<1>7. \A r \in Locked(t) :
        /\ r[1] \in AssetTables /\ Named(r)
        /\ r = Asset(a) \/ Row(r) = Absent \/ Owned(a, r, Row(r))
  <2>1. ASSUME NEW r \in Locked(t)
        PROVE  /\ r[1] \in AssetTables /\ Named(r)
               /\ r = Asset(a) \/ Row(r) = Absent \/ Owned(a, r, Row(r))
    <3>1. <<r, "all">> \in txn[t].held /\ r[1] \in AssetTables /\ Named(r)
      BY <1>3, LockedRows DEF Base
    <3>2. <<r, "all">> \in Claims(t) /\ <<r, "all">>[1] = r /\ <<r, "all">>[2] = "all"
      BY <1>1, <3>1
    <3> QED
      BY <1>2, <3>1, <3>2
  <2> QED
    BY <2>1
<1>b. \A r \in Locked(t) : <<r, "all">> \in txn[t].held
  BY <1>3, LockedRows DEF Base
<1>8. WritesOn(t, AssetTables)
  <2>1. \A r \in DOMAIN W : r[1] \in AssetTables /\ Named(r)
    BY <1>4, <1>5, <1>7 DEF AssetTables
  <2> QED
    BY <1>1, <2>1 DEF WritesOn
<1>9. \A r : Row(r)' # Row(r) => Row(r)' = Absent /\ (r[1] \in Guarded => r \in Locked(t))
  BY <1>5, <1>6 DEF Guarded, Indexes, RoleTables
<1>10. Row(Asset(a))' # Row(Asset(a))
  <2>1. Row(Asset(a)) # Absent
    BY <1>2, Tables DEF Base, HeldThere, Guarded, Indexes, AssetTables
  <2>2. Asset(a) \in Locked(t)
    BY <1>2 DEF Locked
  <2> QED
    BY <1>6, <2>1, <2>2
<1>11. Audits(t)
  <2>1. \A r : Row(r)' # Row(r) =>
           /\ Custom(r) => r[2] = a
           /\ r[1] = "asset_identifier" =>
                /\ Row(r) # Absent => Row(r).asset = a
                /\ Row(r)' # Absent => Row(r)'.asset = a
    BY <1>5, <1>6, <1>7, Tables DEF Owned, Custom, AssignmentTable, ValueTable
  <2> QED
    BY <1>10, <2>1, AuditsOne
<1> QED
  BY <1>8, <1>9, <1>11, <1>b, ErasedOnly DEF Effect

LEMMA WriteDefinitionEffect ==
  ASSUME Base, Plans, NEW t \in Txns, WriteDefinition(t)
  PROVE  /\ WritesOn(t, AssetTables) /\ Effect(t)
         /\ \A r : Custom(r) => Row(r)' = Row(r)
<1>c. PICK c : c = txn[t].call
  OBVIOUS
<1>d. PICK d : d = IF c.op = "createDefinition" THEN t ELSE c.field
  OBVIOUS
<1>x. PICK x : x = [allows |-> c.allows, stamp |-> t]
  OBVIOUS
<1>k. PICK K : K = Put(FieldKey(c.key), Entry(d, t))
  OBVIOUS
<1>e. PICK E : E = Erased(Locked(t))
  OBVIOUS
<1>w. PICK W : W = Put(Field(d), x) ++ K ++ E
  OBVIOUS
<1>1. Commit(t, W) /\ txn[t].pc = "write definition" /\ Claims(t) = txn[t].held
  BY <1>c, <1>d, <1>x, <1>k, <1>e, <1>w, ReadyClaims DEF WriteDefinition
<1>2. x.stamp = t /\ x # Absent
  BY <1>x DEF Absent
<1>3. Field(d)[1] = "asset_custom_field" /\ Named(Field(d))
      /\ FieldKey(c.key)[1] = "asset_custom_field_key" /\ Named(FieldKey(c.key))
  BY Tables, NamesAreNamed
<1>4. ClaimsOn(t, AssetTables)
  BY <1>1, AssetClaims DEF Base, AssetSteps
<1>5. ASSUME NEW r \in Locked(t)
      PROVE  /\ r[1] \in AssetTables /\ Named(r)
             /\ r = Field(d) \/ r[1] = "asset_custom_field_key"
  <2>1. <<r, "all">> \in txn[t].held /\ r[1] \in AssetTables /\ Named(r)
    BY <1>4, LockedRows DEF Base
  <2>2. <<r, "all">> \in Claims(t) /\ <<r, "all">>[1] = r /\ <<r, "all">>[2] = "all"
    BY <1>1, <2>1
  <2>3. DefinitionPlan(t)
    BY DEF Plans, Plan
  <2>4. r = Field(d) \/ r[1] = "asset_custom_field_key"
    BY <1>c, <1>d, <1>1, <2>2, <2>3, Tables DEF DefinitionPlan
  <2> QED
    BY <2>1, <2>4
<1>6. DOMAIN K = {FieldKey(c.key)} /\ DOMAIN E = Locked(t)
  BY <1>k, <1>e DEF Put, Erased
<1>p. DOMAIN W = {Field(d)} \cup DOMAIN K \cup DOMAIN E /\ W[Field(d)] = x
  <2>1. PICK r : r = Field(d)
    OBVIOUS
  <2>2. PICK V : V = Put(r, x)
    OBVIOUS
  <2>3. W = V ++ K ++ E
    BY <1>w, <2>1, <2>2
  <2>4. DOMAIN W = DOMAIN V \cup DOMAIN K \cup DOMAIN E /\ \A q \in DOMAIN V : W[q] = V[q]
    BY <2>3 DEF ++
  <2>5. DOMAIN V = {r} /\ V[r] = x
    BY <2>2 DEF Put
  <2> QED
    BY <2>1, <2>4, <2>5
<1>7. /\ \A r : r \in DOMAIN W <=> r \in {Field(d), FieldKey(c.key)} \/ r \in Locked(t)
      /\ W[Field(d)] = x
  BY <1>6, <1>p
<1>8. /\ Row(Field(d))' = x
      /\ \A r : r[1] # "asset_custom_field_key" /\ r # Field(d) => Row(r)' = Row(r)
  <2>1. \A r : Row(r)' = IF r \in DOMAIN W THEN W[r] ELSE Row(r)
    BY <1>1, RowAfter
  <2>2. \A r : r \in DOMAIN W => r = Field(d) \/ r[1] = "asset_custom_field_key"
    BY <1>3, <1>5, <1>7
  <2> QED
    BY <1>7, <2>1, <2>2
<1>9. WritesOn(t, AssetTables)
  <2>1. \A r \in DOMAIN W : r[1] \in AssetTables /\ Named(r)
    BY <1>3, <1>5, <1>7 DEF AssetTables
  <2> QED
    BY <1>1, <2>1 DEF WritesOn
<1>10. \/ Row(Field(d)) = Absent /\ Field(d) \in Generated(t)
       \/ Row(Field(d)) # Absent /\ Holding(t, Field(d))
  <2>1. CASE c.op = "createDefinition"
    BY <1>d, <1>1, <2>1, NotYetThere DEF Base, Generated
  <2>2. CASE c.op # "createDefinition"
    <3>1. DefinitionPlan(t)
      BY DEF Plans, Plan
    <3>2. <<Field(d), "nokey">> \in txn[t].held \/ <<Field(d), "all">> \in txn[t].held
      BY <1>c, <1>d, <1>1, <2>2, <3>1 DEF DefinitionPlan
    <3>3. Row(Field(d)) # Absent
      BY <3>2, <1>3 DEF Base, HeldThere, Guarded, Indexes, AssetTables
    <3> QED
      BY <3>2, <3>3 DEF Holding
  <2> QED
    BY <2>1, <2>2
<1>11. "asset_custom_field_key" \notin Guarded \cup Snapshots
  BY DEF Guarded, Snapshots, Indexes
<1>12. KeepsLocks(t)
  <2>1. \A r : r[1] \in Guarded /\ Row(r)' # Row(r) => r = Field(d)
    BY <1>8, <1>11
  <2> QED
    BY <1>2, <1>8, <1>10, <2>1 DEF KeepsLocks
<1>13. \A r : Custom(r) \/ r[1] = "asset_identifier" => Row(r)' = Row(r)
  BY <1>3, <1>8 DEF Custom, AssignmentTable, ValueTable
<1>14. Audits(t)
  BY <1>13, AlikeLaws DEF Audits
<1>15. Signs(t)
  <2>1. \A r : Row(r)' # Row(r) /\ r[1] \in Snapshots => Row(r)'.stamp = t
    BY <1>2, <1>8, <1>11
  <2>2. \A r : Row(r)' # Row(r) => ~Custom(r) /\ r[1] # "asset_identifier"
    BY <1>13
  <2> QED
    BY <2>1, <2>2 DEF Signs, Columns, Custom
<1>16. Inserts(t)
  BY <1>8, <1>10, <1>13 DEF Inserts
<1> QED
  BY <1>9, <1>12, <1>13, <1>14, <1>15, <1>16 DEF Effect

LEMMA EraseDefinitionEffect ==
  ASSUME Base, Plans, NEW t \in Txns, EraseDefinition(t)
  PROVE  WritesOn(t, AssetTables) /\ Effect(t)
<1>0. PICK d : d = txn[t].call.field
  OBVIOUS
<1> DEFINE W == Erased(Locked(t))
<1>1. Commit(t, W) /\ txn[t].pc = "erase definition" /\ Claims(t) = txn[t].held
  BY ReadyClaims DEF EraseDefinition
<1>2. /\ <<Field(d), "all">> \in txn[t].held
      /\ \A l \in Claims(t) : l[2] = "all" =>
           l[1] = Field(d) \/ (Custom(l[1]) /\ l[1][3] = d) \/ l[1][1] = "asset_custom_field_key"
  BY <1>0, <1>1 DEF Plans, Plan, SweepPlan
<1>3. ClaimsOn(t, AssetTables)
  BY <1>1, AssetClaims DEF Base, AssetSteps
<1>4. DOMAIN W = Locked(t) /\ \A r \in DOMAIN W : W[r] = Absent
  BY DEF Erased
<1> HIDE DEF W
<1>6. \A r : Row(r)' = IF r \in Locked(t) THEN Absent ELSE Row(r)
  BY <1>1, <1>4, RowAfter
<1>7. \A r \in Locked(t) :
        /\ r[1] \in AssetTables /\ Named(r)
        /\ r = Field(d) \/ (Custom(r) /\ r[3] = d) \/ r[1] = "asset_custom_field_key"
  <2>1. ASSUME NEW r \in Locked(t)
        PROVE  /\ r[1] \in AssetTables /\ Named(r)
               /\ r = Field(d) \/ (Custom(r) /\ r[3] = d) \/ r[1] = "asset_custom_field_key"
    <3>1. <<r, "all">> \in txn[t].held /\ r[1] \in AssetTables /\ Named(r)
      BY <1>3, LockedRows DEF Base
    <3>2. <<r, "all">> \in Claims(t) /\ <<r, "all">>[1] = r /\ <<r, "all">>[2] = "all"
      BY <1>1, <3>1
    <3> QED
      BY <1>2, <3>1, <3>2
  <2> QED
    BY <2>1
<1>b. \A r \in Locked(t) : <<r, "all">> \in txn[t].held
  BY <1>3, LockedRows DEF Base
<1>8. WritesOn(t, AssetTables)
  BY <1>1, <1>4, <1>7 DEF WritesOn
<1>9. \A r : Row(r)' # Row(r) => Row(r)' = Absent /\ (r[1] \in Guarded => r \in Locked(t))
  BY <1>6
<1>10. Row(Field(d))' = Absent
  BY <1>2, <1>6 DEF Locked
<1>11. Audits(t)
  <2>1. ASSUME NEW r, Custom(r)
        PROVE  \/ Alike(Row(r)', Row(r))
               \/ Swept(r)' /\ <<Field(r[3]), "all">> \in txn[t].held
    <3>1. CASE Row(r)' = Row(r)
      BY <3>1, AlikeLaws
    <3>2. CASE Row(r)' # Row(r)
      <4>1. r # Field(d) /\ r \in Locked(t)
        BY <1>6, <2>1, <3>2, Tables DEF Custom, AssignmentTable, ValueTable
      <4>2. r[3] = d /\ Row(r)' = Absent
        BY <1>6, <1>7, <2>1, <4>1 DEF Custom, AssignmentTable, ValueTable
      <4> QED
        BY <1>2, <1>10, <2>1, <4>2 DEF Swept
    <3> QED
      BY <3>1, <3>2
  <2>2. \A r : r[1] = "asset_identifier" => Row(r)' = Row(r)
    BY <1>6, <1>7, Tables DEF Custom, AssignmentTable, ValueTable
  <2> QED
    BY <2>1, <2>2 DEF Audits
<1> QED
  BY <1>8, <1>9, <1>11, <1>b, ErasedOnly DEF Effect

LEMMA WriteInventoryEffect ==
  ASSUME Base, Plans, NEW t \in Txns, WriteInventory(t)
  PROVE  /\ WritesOn(t, AssetTables) /\ Effect(t)
         /\ \A r : Custom(r) => Row(r)' = Row(r)
<1>0. PICK c : c = txn[t].call
  OBVIOUS
<1> DEFINE a == c.asset
<1>1. PICK op \in InventoryOps :
        /\ Ready(t, op)
        /\ LET i == IF op = "addIdentifier" THEN NewIdentifier(t, c.key)
                                            ELSE Identifier(c.identifier)
               freed == IF op = "addIdentifier" THEN {} ELSE {Key(txn[t].seen[i].key)}
               named == Put(i, [asset |-> c.asset, key |-> c.key, stamp |-> t])
                          ++ Put(Key(c.key), [stamp |-> t])
           IN Commit(t, Audited(t, c.asset)
                         ++ (CASE op = "updateAsset" -> Erased({})
                               [] op = "deleteIdentifier" -> Erased({i} \cup freed)
                               [] OTHER -> named ++ Erased(freed)))
  BY <1>0 DEF WriteInventory, InventoryOps
<1>2. PICK i : i = IF op = "addIdentifier" THEN NewIdentifier(t, c.key)
                                          ELSE Identifier(c.identifier)
  OBVIOUS
<1>3. PICK freed : freed = IF op = "addIdentifier" THEN {} ELSE {Key(txn[t].seen[i].key)}
  OBVIOUS
<1> DEFINE x == [asset |-> a, key |-> c.key, stamp |-> t]
           named == Put(i, x) ++ Put(Key(c.key), [stamp |-> t])
           V == CASE op = "updateAsset" -> Erased({})
                  [] op = "deleteIdentifier" -> Erased({i} \cup freed)
                  [] OTHER -> named ++ Erased(freed)
           W == Audited(t, a) ++ V
<1>4. Commit(t, W)
  BY <1>1, <1>2, <1>3
<1>5. txn[t].pc = op /\ Claims(t) = txn[t].held
  BY <1>1, ReadyClaims
<1>6. /\ c \in Calls /\ c.op = op
      /\ txn[t].level = "repeatable read"
      /\ <<Asset(a), "nokey">> \in txn[t].held
      /\ op \in {"updateIdentifier", "deleteIdentifier"} =>
           /\ Owned(a, i, Seen(t, i))
           /\ <<i, IF op = "deleteIdentifier" THEN "all" ELSE "nokey">> \in txn[t].held
      /\ op = "addIdentifier" => <<Asset(a), "share">> \in txn[t].held
  BY <1>0, <1>2, <1>5 DEF Plans, Plan, InventoryPlan, Snapped
<1>7. \A r \in freed : r[1] = "asset_identifier_key" /\ Named(r)
  BY <1>3, Tables, NamesAreNamed
<1>8. i[1] = "asset_identifier" /\ Named(i) /\ Asset(a)[1] = "asset" /\ Named(Asset(a))
      /\ Key(c.key)[1] = "asset_identifier_key" /\ Named(Key(c.key))
  BY <1>2, Tables, NewNames, NamesAreNamed
<1>9. x.asset = a /\ x # Absent
  BY DEF Absent
<1>b. /\ DOMAIN Audited(t, a) = {Asset(a)} /\ Audited(t, a)[Asset(a)] = [stamp |-> t]
  BY DEF Audited, Put
<1>c. /\ DOMAIN V \subseteq {i, Key(c.key)} \cup freed
      /\ op = "updateAsset" => DOMAIN V = {}
      /\ i \in DOMAIN V => \/ V[i] = Absent /\ op = "deleteIdentifier"
                           \/ V[i] = x /\ op # "deleteIdentifier"
  <2>1. CASE op = "updateAsset"
    BY <2>1 DEF Erased
  <2>2. CASE op = "deleteIdentifier"
    BY <2>2 DEF Erased
  <2>3. CASE op \notin {"updateAsset", "deleteIdentifier"}
    <3> HIDE DEF x
    <3>1. /\ DOMAIN Put(i, x) = {i} /\ Put(i, x)[i] = x
          /\ DOMAIN Put(Key(c.key), [stamp |-> t]) = {Key(c.key)}
          /\ DOMAIN Erased(freed) = freed
      BY DEF Put, Erased
    <3>2. DOMAIN named = {i, Key(c.key)} /\ named[i] = x
      <4> DEFINE f == Put(i, x)
                 g == Put(Key(c.key), [stamp |-> t])
      <4>1. DOMAIN f = {i} /\ f[i] = x /\ DOMAIN g = {Key(c.key)}
        BY <3>1
      <4> HIDE DEF f, g
      <4>2. /\ DOMAIN (f ++ g) = DOMAIN f \cup DOMAIN g
            /\ \A r \in DOMAIN f : (f ++ g)[r] = f[r]
        BY Prevails
      <4>3. DOMAIN (f ++ g) = {i, Key(c.key)} /\ (f ++ g)[i] = x
        BY <4>1, <4>2
      <4> QED
        BY <4>3 DEF f, g
    <3> HIDE DEF named
    <3>3. /\ DOMAIN (named ++ Erased(freed)) = DOMAIN named \cup freed
          /\ (named ++ Erased(freed))[i] = x
      <4> DEFINE g == Erased(freed)
      <4>1. DOMAIN g = freed
        BY <3>1
      <4> HIDE DEF g
      <4>2. /\ DOMAIN (named ++ g) = DOMAIN named \cup DOMAIN g
            /\ \A r \in DOMAIN named : (named ++ g)[r] = named[r]
        BY Prevails
      <4>3. DOMAIN (named ++ g) = DOMAIN named \cup freed /\ (named ++ g)[i] = x
        BY <3>2, <4>1, <4>2
      <4> QED
        BY <4>3 DEF g
    <3> QED
      BY <2>3, <3>2, <3>3
  <2> QED
    BY <2>1, <2>2, <2>3
<1> HIDE DEF V, x
<1>d. /\ DOMAIN W = {Asset(a)} \cup DOMAIN V
      /\ W[Asset(a)] = [stamp |-> t]
      /\ i \in DOMAIN V => W[i] = V[i]
  <2> DEFINE f == Audited(t, a)
  <2>1. DOMAIN f = {Asset(a)} /\ f[Asset(a)] = [stamp |-> t]
    BY <1>b
  <2> HIDE DEF f
  <2>2. /\ DOMAIN (f ++ V) = DOMAIN f \cup DOMAIN V
        /\ \A r \in DOMAIN f : (f ++ V)[r] = f[r]
        /\ \A r \in DOMAIN V \ DOMAIN f : (f ++ V)[r] = V[r]
    BY Prevails
  <2>3. i # Asset(a)
    BY <1>8
  <2>4. /\ DOMAIN (f ++ V) = {Asset(a)} \cup DOMAIN V
        /\ (f ++ V)[Asset(a)] = [stamp |-> t]
        /\ i \in DOMAIN V => (f ++ V)[i] = V[i]
    BY <2>1, <2>2, <2>3
  <2> QED
    BY <2>4 DEF f
<1> HIDE DEF W
<1>e. \A r : Row(r)' = IF r \in DOMAIN W THEN W[r] ELSE Row(r)
  BY <1>4, RowAfter
<1>f. op # "updateAsset" => \/ Row(i) = Absent /\ i \in Generated(t) /\ op = "addIdentifier"
                            \/ Row(i) # Absent /\ Row(i).asset = a /\ Holding(t, i)
  <2>1. CASE op = "addIdentifier"
    <3>1. c.key \in NewKeys
      <4>1. c \in {y \in Calls : y.op = "addIdentifier"}
        BY <1>6, <2>1
      <4> QED
        BY <4>1 DEF NewKeys
    <3>2. i \in Generated(t)
      BY <1>2, <2>1, <3>1 DEF Generated
    <3> QED
      BY <1>5, <2>1, <3>2, NotYetThere DEF Base, InventoryOps
  <2>2. CASE op \in {"updateIdentifier", "deleteIdentifier"}
    <3>1. Seen(t, i) # Absent /\ Seen(t, i).asset = a
      BY <1>6, <1>8, <2>2 DEF Owned, Custom, AssignmentTable, ValueTable
    <3>2. Row(i) = Seen(t, i)
      BY <1>6, <1>8, <2>2, <3>1 DEF Base, HeldAsSeen, Snapshots, Indexes, AssetTables
    <3> QED
      BY <1>6, <2>2, <3>1, <3>2 DEF Holding
  <2> QED
    BY <2>1, <2>2 DEF InventoryOps
<1>g. \A r : r[1] # "asset_identifier_key" /\ Row(r)' # Row(r) =>
        r = Asset(a) \/ (r = i /\ op # "updateAsset" /\ i \in DOMAIN V)
  BY <1>7, <1>8, <1>c, <1>d, <1>e
<1>h. Row(Asset(a))' = [stamp |-> t] /\ Row(Asset(a)) # [stamp |-> t]
  BY <1>5, <1>d, <1>e, AuditShows DEF Base, InventoryOps
<1>i. i \in DOMAIN V => Row(i)' = Absent \/ Row(i)'.asset = a
  BY <1>9, <1>c, <1>d, <1>e
<1>j. \A r : Custom(r) => Row(r)' = Row(r)
  BY <1>8, <1>g DEF Custom, AssignmentTable, ValueTable
<1>k. Row(Asset(a)) # Absent
  BY <1>6, <1>8 DEF Base, HeldThere, Guarded, Indexes, AssetTables
<1>10. WritesOn(t, AssetTables)
  <2>1. \A r \in DOMAIN W : r[1] \in AssetTables /\ Named(r)
    BY <1>7, <1>8, <1>c, <1>d DEF AssetTables
  <2> QED
    BY <1>4, <2>1 DEF WritesOn
<1>11. KeepsLocks(t)
  <2>1. Holding(t, Asset(a)) /\ Row(Asset(a))' # Absent
    BY <1>6, <1>h, Contents DEF Holding
  <2>2. i \in DOMAIN V /\ Row(i)' = Absent => <<i, "all">> \in txn[t].held
    BY <1>6, <1>9, <1>c, <1>d, <1>e, <1>8 DEF InventoryOps
  <2> QED
    BY <1>f, <1>g, <2>1, <2>2 DEF KeepsLocks, Guarded, Indexes
<1>12. Audits(t)
  <2>1. \A r : Row(r)' # Row(r) =>
           /\ Custom(r) => r[2] = a
           /\ r[1] = "asset_identifier" =>
                /\ Row(r) # Absent => Row(r).asset = a
                /\ Row(r)' # Absent => Row(r)'.asset = a
    BY <1>8, <1>f, <1>g, <1>i, <1>j
  <2> QED
    BY <1>h, <2>1, AuditsOne
<1>13. Signs(t)
  <2>1. ASSUME NEW r, Row(r)' # Row(r), Row(r)' # Absent
        PROVE  /\ r[1] \in Snapshots \ {"asset_identifier"} => Row(r)'.stamp = t
               /\ Columns(r, Row(r)')
               /\ r[1] = "asset_identifier" /\ Row(r) # Absent => Row(r)'.asset = Row(r).asset
    <3>1. Columns(r, Row(r)')
      BY <1>j, <2>1 DEF Columns, Custom
    <3>2. CASE r = Asset(a)
      BY <1>8, <1>h, <3>1, <3>2
    <3>3. CASE r = i /\ op # "updateAsset" /\ i \in DOMAIN V
      BY <1>8, <1>f, <1>i, <2>1, <3>1, <3>3
    <3>4. CASE r[1] = "asset_identifier_key"
      BY <3>1, <3>4 DEF Snapshots, Indexes
    <3> QED
      BY <1>g, <2>1, <3>2, <3>3, <3>4
  <2> QED
    BY <2>1 DEF Signs
<1>14. Inserts(t)
  <2>1. ASSUME NEW r, Row(r) = Absent, Row(r)' # Absent
        PROVE  /\ ~Custom(r)
               /\ r[1] \in {"asset", "asset_identifier", "asset_custom_field"} => r \in Generated(t)
               /\ r[1] = "asset_identifier" => <<Asset(Row(r)'.asset), "share">> \in txn[t].held
    <3>1. r[1] = "asset_identifier_key" \/ (r = i /\ op = "addIdentifier" /\ i \in DOMAIN V)
      BY <1>f, <1>g, <1>k, <2>1
    <3>2. ~Custom(r)
      BY <1>j, <2>1
    <3> QED
      BY <1>6, <1>8, <1>f, <1>i, <2>1, <3>1, <3>2
  <2> QED
    BY <2>1 DEF Inserts
<1> QED
  BY <1>j, <1>10, <1>11, <1>12, <1>13, <1>14 DEF Effect

\* The commit of a replacement: rows that are inserted, rows that are erased, and
\* the asset, if its audit columns are written.
LEMMA Replacement ==
  ASSUME NEW t, NEW a, NEW new, NEW old, Commit(t, new ++ Erased(old) ++ MaybeAudited(t, a)),
         Asset(a) \notin DOMAIN new \cup old
  PROVE  /\ \A r \in DOMAIN new : Row(r)' = new[r]
         /\ \A r \in old \ DOMAIN new : Row(r)' = Absent
         /\ \A r : r \notin DOMAIN new \cup old \cup {Asset(a)} => Row(r)' = Row(r)
         /\ Row(Asset(a))' = IF Holding(t, Asset(a)) THEN [stamp |-> t] ELSE Row(Asset(a))
         /\ \E W : Commit(t, W) /\ DOMAIN W \subseteq DOMAIN new \cup old \cup {Asset(a)}
<1> DEFINE b == Erased(old)
           d == MaybeAudited(t, a)
           W == new ++ b ++ d
<1>1. DOMAIN b = old /\ \A r \in old : b[r] = Absent
  BY DEF Erased
<1>2. /\ Holding(t, Asset(a)) => DOMAIN d = {Asset(a)} /\ d[Asset(a)] = [stamp |-> t]
      /\ ~Holding(t, Asset(a)) => DOMAIN d = {}
  BY DEF MaybeAudited, Audited, Put, Erased
<1>3. Commit(t, W)
  OBVIOUS
<1> HIDE DEF b, d
<1>4. /\ DOMAIN (new ++ b) = DOMAIN new \cup DOMAIN b
      /\ \A r \in DOMAIN new : (new ++ b)[r] = new[r]
      /\ \A r \in DOMAIN b \ DOMAIN new : (new ++ b)[r] = b[r]
  BY Prevails
<1> DEFINE f == new ++ b
<1>h. /\ DOMAIN f = DOMAIN new \cup old
      /\ \A r \in DOMAIN new : f[r] = new[r]
      /\ \A r \in old \ DOMAIN new : f[r] = Absent
  BY <1>1, <1>4
<1>i. W = f ++ d
  OBVIOUS
<1> HIDE DEF f
<1>5. /\ DOMAIN (f ++ d) = DOMAIN f \cup DOMAIN d
      /\ \A r \in DOMAIN f : (f ++ d)[r] = f[r]
      /\ \A r \in DOMAIN d \ DOMAIN f : (f ++ d)[r] = d[r]
  BY Prevails
<1> HIDE DEF W
<1>6. /\ DOMAIN W = DOMAIN new \cup old \cup DOMAIN d
      /\ \A r \in DOMAIN new : W[r] = new[r]
      /\ \A r \in old \ DOMAIN new : W[r] = Absent
      /\ Asset(a) \in DOMAIN d => W[Asset(a)] = d[Asset(a)]
  BY <1>h, <1>i, <1>5
<1>7. \A r : Row(r)' = IF r \in DOMAIN W THEN W[r] ELSE Row(r)
  BY <1>3, RowAfter
<1>8. /\ \A r \in DOMAIN new : Row(r)' = new[r]
      /\ \A r \in old \ DOMAIN new : Row(r)' = Absent
  BY <1>6, <1>7
<1>9. Row(Asset(a))' = IF Holding(t, Asset(a)) THEN [stamp |-> t] ELSE Row(Asset(a))
  <2>1. CASE Holding(t, Asset(a))
    BY <1>2, <1>6, <1>7, <2>1
  <2>2. CASE ~Holding(t, Asset(a))
    BY <1>2, <1>6, <1>7, <2>2
  <2> QED
    BY <2>1, <2>2
<1>10. DOMAIN W \subseteq DOMAIN new \cup old \cup {Asset(a)}
  BY <1>2, <1>6
<1> QED
  BY <1>3, <1>7, <1>8, <1>9, <1>10

\* An asset that a transaction holds for its audit columns is there.
LEMMA AuditedIsThere ==
  ASSUME Base, NEW t \in Txns, ClaimsOn(t, AssetTables), NEW a, Holding(t, Asset(a))
  PROVE  Row(Asset(a)) # Absent
<1>1. PICK m \in {"nokey", "all", "new"} : <<Asset(a), m>> \in txn[t].held
  BY DEF Holding
<1>2. m # "new"
  BY <1>1, Tables DEF ClaimsOn, Claims, Proper
<1> QED
  BY <1>1, <1>2, Tables DEF Base, HeldThere, Guarded, Indexes, AssetTables

\* The rows that a transaction has locked to erase them.
LEMMA LockedIsHeld ==
  ASSUME WellNamed, NEW t \in Txns, ClaimsOn(t, AssetTables), NEW r \in Locked(t)
  PROVE  /\ <<r, "all">> \in txn[t].held /\ <<r, "all">> \in Claims(t)
         /\ <<r, "all">>[1] = r /\ <<r, "all">>[2] = "all"
         /\ r \in Rows /\ r[1] \in AssetTables /\ Named(r)
<1>1. <<r, "all">> \in txn[t].held /\ r \in Rows /\ r[1] \in AssetTables /\ Named(r)
  BY LockedRows
<1> QED
  BY <1>1 DEF Claims

\* What a replacement does when it holds what it writes, writes well-formed rows
\* of the asset, and leaves its contents alone unless it holds the asset.
LEMMA ReplacementEffect ==
  ASSUME Base, NEW t \in Txns, txn[t].pc # "ended", ClaimsOn(t, AssetTables),
         NEW a, NEW new, Commit(t, new ++ Erased(Locked(t)) ++ MaybeAudited(t, a)),
         \A r \in Locked(t) : Custom(r) /\ r[2] = a,
         \A r \in DOMAIN new :
           /\ Custom(r) /\ r[2] = a /\ Named(r) /\ Holding(t, r)
           /\ new[r] # Absent /\ Columns(r, new[r]) /\ new[r].stamp = t
           /\ {<<Asset(r[2]), "share">>, <<Field(r[3]), "share">>} \subseteq txn[t].held,
         \/ Holding(t, Asset(a))
         \/ /\ Locked(t) \subseteq DOMAIN new
            /\ \A r \in DOMAIN new : Alike(new[r], Row(r))
  PROVE  WritesOn(t, AssetTables) /\ Effect(t)
<1>n. /\ Asset(a)[1] = "asset" /\ Named(Asset(a)) /\ ~Custom(Asset(a))
      /\ \A r : Custom(r) => r[1] \in AssetTables /\ r[1] # "asset_identifier"
  BY Tables, NamesAreNamed DEF Custom, AssignmentTable, ValueTable, AssetTables
<1> DEFINE old == Locked(t)
<1>1. Asset(a) \notin DOMAIN new \cup old
  BY <1>n
<1>2. \A r \in old : Holding(t, r) /\ Named(r)
  BY LockedIsHeld DEF Base, Holding
<1> HIDE DEF old
<1>3. /\ \A r \in DOMAIN new : Row(r)' = new[r]
      /\ \A r \in old \ DOMAIN new : Row(r)' = Absent
      /\ \A r : r \notin DOMAIN new \cup old \cup {Asset(a)} => Row(r)' = Row(r)
      /\ Row(Asset(a))' = IF Holding(t, Asset(a)) THEN [stamp |-> t] ELSE Row(Asset(a))
      /\ \E W : Commit(t, W) /\ DOMAIN W \subseteq DOMAIN new \cup old \cup {Asset(a)}
  BY <1>1, Replacement DEF old
<1>4. WritesOn(t, AssetTables)
  <2>1. PICK W : Commit(t, W) /\ DOMAIN W \subseteq DOMAIN new \cup old \cup {Asset(a)}
    BY <1>3
  <2>2. \A r \in DOMAIN W : r[1] \in AssetTables /\ Named(r)
    BY <1>n, <1>2, <2>1 DEF old, AssetTables
  <2> QED
    BY <2>1, <2>2 DEF WritesOn
<1>5. \A r : Row(r)' # Row(r) =>
        \/ r \in DOMAIN new
        \/ r \in old /\ Row(r)' = Absent
        \/ r = Asset(a) /\ Holding(t, r) /\ Row(r)' = [stamp |-> t]
  BY <1>3
<1>6. KeepsLocks(t)
  <2>1. \A r \in DOMAIN new : Row(r)' # Absent /\ Holding(t, r)
    BY <1>3
  <2>2. \A r \in old : <<r, "all">> \in txn[t].held
    BY LockedIsHeld DEF Base, old
  <2> QED
    BY <1>2, <1>5, <2>1, <2>2, Contents DEF KeepsLocks
<1>7. \A r : Row(r)' # Row(r) => (r = Asset(a) \/ (Custom(r) /\ r[2] = a))
  BY <1>5 DEF old
<1>8. Audits(t)
  <2>1. CASE Holding(t, Asset(a))
    <3>1. Row(Asset(a))' # Row(Asset(a))
      BY <1>3, <2>1, AuditShows DEF Base
    <3>2. \A r : Row(r)' # Row(r) =>
             /\ Custom(r) => r[2] = a
             /\ r[1] = "asset_identifier" =>
                  /\ Row(r) # Absent => Row(r).asset = a
                  /\ Row(r)' # Absent => Row(r)'.asset = a
      BY <1>n, <1>7
    <3> QED
      BY <3>1, <3>2, AuditsOne
  <2>2. CASE ~Holding(t, Asset(a))
    <3>1. \A r : Alike(Row(r)', Row(r))
      BY <1>3, <1>5, <2>2, AlikeLaws DEF old
    <3>2. \A r : r[1] = "asset_identifier" => Row(r)' = Row(r)
      BY <1>n, <1>7
    <3> QED
      BY <3>1, <3>2 DEF Audits
  <2> QED
    BY <2>1, <2>2
<1>9. Signs(t)
  <2>1. ASSUME NEW r, Row(r)' # Row(r), Row(r)' # Absent
        PROVE  /\ Row(r)'.stamp = t
               /\ Columns(r, Row(r)')
               /\ r[1] # "asset_identifier"
    <3>1. CASE r \in DOMAIN new
      BY <1>n, <1>3, <3>1
    <3>2. CASE r = Asset(a) /\ Row(r)' = [stamp |-> t]
      <4>1. ~Custom(r)
        BY <1>n, <3>2
      <4> QED
        BY <1>n, <3>2, <4>1 DEF Columns, Custom
    <3> QED
      BY <1>5, <2>1, <3>1, <3>2
  <2> QED
    BY <2>1 DEF Signs
<1>10. Inserts(t)
  <2>1. ASSUME NEW r, Row(r) = Absent, Row(r)' # Absent
        PROVE  r \in DOMAIN new
    <3>1. r = Asset(a) => ~Holding(t, r)
      BY <2>1, AuditedIsThere
    <3> QED
      BY <1>5, <2>1, <3>1
  <2>2. \A r \in DOMAIN new : r[1] \notin {"asset", "asset_identifier", "asset_custom_field"}
    BY DEF Custom, AssignmentTable, ValueTable
  <2> QED
    BY <2>1, <2>2 DEF Inserts
<1> QED
  BY <1>4, <1>6, <1>8, <1>9, <1>10 DEF Effect

\* A row that is held for writing is as it was seen.
LEMMA HeldSeen ==
  ASSUME Base, NEW t \in Txns, txn[t].level = "repeatable read", NEW r,
         <<r, "all">> \in txn[t].held \/ <<r, "nokey">> \in txn[t].held,
         r[1] \in Snapshots, Seen(t, r) # Absent
  PROVE  Row(r) = Seen(t, r) /\ r \in Rows
<1>1. PICK m \in {"nokey", "all"} : <<r, m>> \in txn[t].held
  OBVIOUS
<1>2. <<r, m>>[1] = r /\ <<r, m>>[2] = m
  OBVIOUS
<1>3. Row(r) = Seen(t, r)
  BY <1>1, <1>2 DEF Base, HeldAsSeen
<1> QED
  BY <1>3 DEF Row

LEMMA WriteAssignmentsEffect ==
  ASSUME Base, Plans, SeenAssigned, NEW t \in Txns, WriteAssignments(t)
  PROVE  WritesOn(t, AssetTables) /\ Effect(t)
<1>0. PICK c : c = txn[t].call
  OBVIOUS
<1> DEFINE a == c.asset
           new == [r \in {Assigned(a, d) : d \in c.fields} |-> [stamp |-> t]]
<1>1. Commit(t, new ++ Erased(Locked(t)) ++ MaybeAudited(t, a))
  BY <1>0 DEF WriteAssignments
<1>2. txn[t].pc = "replaceAssignments" /\ Claims(t) = txn[t].held
  BY ReadyClaims DEF WriteAssignments
<1>3. /\ ClaimsOn(t, AssetTables) /\ txn[t].pc # "ended" /\ txn[t].level = "repeatable read"
  BY <1>2, AssetClaims DEF Base, AssetSteps
<1>4. /\ \A r \in DOMAIN txn[t].seen : Seen(t, r) # Absent /\ Custom(r) /\ r[2] = a =>
           <<r, "all">> \in Claims(t) \/ (r[1] = ValueTable /\ r[3] \in c.fields)
      /\ \A d \in c.fields :
           /\ SawField(t, AssignmentTable, d) \/ <<Assigned(a, d), "new">> \in Claims(t)
           /\ <<Field(d), "share">> \in Claims(t)
           /\ <<Asset(a), "share">> \in Claims(t)
      /\ \/ <<Asset(a), "nokey">> \in Claims(t)
         \/ /\ \A d \in c.fields : SawField(t, AssignmentTable, d)
            /\ \A r \in DOMAIN txn[t].seen :
                 Seen(t, r) # Absent /\ r[1] = AssignmentTable /\ r[2] = a => r[3] \in c.fields
      /\ \A l \in Claims(t) : l[2] = "all" =>
           /\ Seen(t, l[1]) # Absent /\ Custom(l[1]) /\ l[1][2] = a
           /\ l[1][1] = ValueTable => l[1][3] \notin c.fields
  BY <1>0, <1>2 DEF Plans, Plan, AssignmentsPlan
<1>5. /\ \A r \in DOMAIN new : \E d \in c.fields : r = Assigned(a, d) /\ new[r] = [stamp |-> t]
      /\ \A d \in c.fields : Assigned(a, d) \in DOMAIN new
  OBVIOUS
<1> HIDE DEF new
<1>6. ASSUME NEW r \in Locked(t)
      PROVE  /\ Seen(t, r) # Absent /\ Custom(r) /\ r[2] = a /\ Named(r)
             /\ r[1] = ValueTable => r[3] \notin c.fields
  <2>1. /\ <<r, "all">> \in Claims(t) /\ <<r, "all">>[1] = r /\ <<r, "all">>[2] = "all"
        /\ Named(r)
    BY <1>3, LockedIsHeld DEF Base
  <2> QED
    BY <1>4, <2>1
<1>7. ASSUME NEW d \in c.fields, SawField(t, AssignmentTable, d)
      PROVE  /\ <<Assigned(a, d), "all">> \in txn[t].held
             /\ Row(Assigned(a, d)) # Absent
             /\ Row(Assigned(a, d)) = [stamp |-> Row(Assigned(a, d)).stamp]
  <2> DEFINE r == Assigned(a, d)
  <2>1. Seen(t, r) # Absent
    BY <1>0, <1>7, Names DEF SawField, AssignmentTable
  <2>2. r \in DOMAIN txn[t].seen /\ Custom(r) /\ r[2] = a /\ r[1] = AssignmentTable /\ r[1] # ValueTable
    BY <2>1, Tables DEF Seen, Custom, AssignmentTable, ValueTable
  <2> HIDE DEF r
  <2>3. <<r, "all">> \in txn[t].held
    BY <1>2, <1>4, <2>1, <2>2
  <2>4. Row(r) = Seen(t, r) /\ r \in Rows
    BY <1>3, <2>1, <2>2, <2>3, HeldSeen DEF Snapshots, Indexes, AssetTables, AssignmentTable
  <2>5. Columns(r, Row(r))
    BY <2>1, <2>4 DEF Base, WellFormed
  <2> QED
    BY <2>1, <2>2, <2>3, <2>4, <2>5 DEF r, Columns
<1>8. ASSUME NEW r \in DOMAIN new
      PROVE  /\ Custom(r) /\ r[2] = a /\ Named(r) /\ Holding(t, r)
             /\ new[r] # Absent /\ Columns(r, new[r]) /\ new[r].stamp = t
             /\ {<<Asset(r[2]), "share">>, <<Field(r[3]), "share">>} \subseteq txn[t].held
  <2>1. PICK d \in c.fields : r = Assigned(a, d) /\ new[r] = [stamp |-> t]
    BY <1>5
  <2>2. /\ r[1] = AssignmentTable /\ r[2] = a /\ r[3] = d /\ Named(r) /\ Custom(r)
    BY <2>1, Tables, NamesAreNamed DEF Custom
  <2>a. /\ SawField(t, AssignmentTable, d) \/ <<Assigned(a, d), "new">> \in txn[t].held
        /\ <<Field(d), "share">> \in txn[t].held
        /\ <<Asset(a), "share">> \in txn[t].held
    BY <1>2, <1>4
  <2>3. Holding(t, r)
    BY <1>7, <2>1, <2>a DEF Holding
  <2>4. Columns(r, new[r])
    BY <2>1, <2>2 DEF Columns, AssignmentTable, ValueTable
  <2>5. {<<Asset(a), "share">>, <<Field(d), "share">>} \subseteq txn[t].held
    BY <2>a
  <2>6. new[r] # Absent /\ new[r].stamp = t
    BY <2>1 DEF Absent
  <2> QED
    BY <2>2, <2>3, <2>4, <2>5, <2>6
<1>9. \/ Holding(t, Asset(a))
      \/ /\ Locked(t) \subseteq DOMAIN new
         /\ \A r \in DOMAIN new : Alike(new[r], Row(r))
  <2>1. CASE <<Asset(a), "nokey">> \in Claims(t)
    BY <1>2, <2>1 DEF Holding
  <2>2. CASE <<Asset(a), "nokey">> \notin Claims(t)
    <3>1. /\ \A d \in c.fields : SawField(t, AssignmentTable, d)
          /\ \A r \in DOMAIN txn[t].seen :
               Seen(t, r) # Absent /\ r[1] = AssignmentTable /\ r[2] = a => r[3] \in c.fields
      BY <1>4, <2>2
    <3>2. ASSUME NEW r \in DOMAIN new
          PROVE  Alike(new[r], Row(r))
      <4>1. PICK d \in c.fields : r = Assigned(a, d) /\ new[r] = [stamp |-> t]
        BY <1>5
      <4>2. Row(r) = [stamp |-> Row(r).stamp]
        BY <1>7, <3>1, <4>1
      <4> QED
        BY <4>1, <4>2, Contents
    <3>3. ASSUME NEW r \in Locked(t)
          PROVE  r \in DOMAIN new
      <4>1. Seen(t, r) # Absent /\ r \in DOMAIN txn[t].seen /\ Custom(r) /\ r[2] = a /\ Named(r)
        BY <1>6 DEF Seen
      <4>2. CASE r[1] = AssignmentTable
        <5>1. r[3] \in c.fields
          BY <3>1, <4>1, <4>2
        <5>2. r = Assigned(a, r[3])
          BY <4>1, <4>2, Names DEF Named, Triples, AssignmentTable
        <5> QED
          BY <1>5, <5>1, <5>2
      <4>3. CASE r[1] = ValueTable
        <5>1. Seen(t, Assigned(r[2], r[3])) # Absent
          BY <1>2, <4>1, <4>3 DEF SeenAssigned, SawAssigned, AssetOps
        <5>2. r[3] \in c.fields
          BY <3>1, <4>1, <5>1, Tables DEF Seen
        <5> QED
          BY <1>6, <4>3, <5>2
      <4> QED
        BY <4>1, <4>2, <4>3 DEF Custom
    <3> QED
      BY <3>2, <3>3
  <2> QED
    BY <2>1, <2>2
<1> QED
  <2>1. \A r \in Locked(t) : Custom(r) /\ r[2] = a
    BY <1>6
  <2>2. \A r \in DOMAIN new :
           /\ Custom(r) /\ r[2] = a /\ Named(r) /\ Holding(t, r)
           /\ new[r] # Absent /\ Columns(r, new[r]) /\ new[r].stamp = t
           /\ {<<Asset(r[2]), "share">>, <<Field(r[3]), "share">>} \subseteq txn[t].held
    BY <1>8
  <2> HIDE DEF a
  <2> QED
    BY <1>1, <1>3, <1>9, <2>1, <2>2, ReplacementEffect

LEMMA WriteValuesEffect ==
  ASSUME Base, Plans, SeenAssigned, NEW t \in Txns, WriteValues(t)
  PROVE  WritesOn(t, AssetTables) /\ Effect(t)
<1>0. PICK c : c = txn[t].call
  OBVIOUS
<1> DEFINE a == c.asset
           new == [r \in {Value(a, d) : d \in Stored(c)} |->
                     [data |-> c.values[r[3]], stamp |-> t]]
<1>1. Commit(t, new ++ Erased(Locked(t)) ++ MaybeAudited(t, a))
  BY <1>0 DEF WriteValues
<1>2. txn[t].pc = "replaceValues" /\ Claims(t) = txn[t].held
  BY ReadyClaims DEF WriteValues
<1>3. /\ ClaimsOn(t, AssetTables) /\ txn[t].pc # "ended" /\ txn[t].level = "repeatable read"
  BY <1>2, AssetClaims DEF Base, AssetSteps
<1>4. /\ \A r \in DOMAIN txn[t].seen : Seen(t, r) # Absent /\ r[1] = ValueTable /\ r[2] = a =>
           <<r, "all">> \in Claims(t)
      /\ \A d \in Stored(c) :
           /\ SawField(t, ValueTable, d) \/ <<Value(a, d), "new">> \in Claims(t)
           /\ <<Field(d), "share">> \in Claims(t)
           /\ <<Asset(a), "share">> \in Claims(t)
      /\ \/ <<Asset(a), "nokey">> \in Claims(t)
         \/ /\ \A d \in Stored(c) : /\ SawField(t, ValueTable, d)
                                    /\ Seen(t, Value(a, d)).data = c.values[d]
            /\ \A r \in DOMAIN txn[t].seen :
                 Seen(t, r) # Absent /\ r[1] = ValueTable /\ r[2] = a => r[3] \in Stored(c)
      /\ \A l \in Claims(t) : l[2] = "all" =>
           Seen(t, l[1]) # Absent /\ l[1][1] = ValueTable /\ l[1][2] = a
  BY <1>0, <1>2 DEF Plans, Plan, ValuesPlan
<1>5. /\ \A r \in DOMAIN new : \E d \in Stored(c) :
           r = Value(a, d) /\ new[r] = [data |-> c.values[d], stamp |-> t]
      /\ \A d \in Stored(c) : Value(a, d) \in DOMAIN new
  BY Tables
<1> HIDE DEF new
<1>6. ASSUME NEW r \in Locked(t)
      PROVE  Seen(t, r) # Absent /\ r[1] = ValueTable /\ Custom(r) /\ r[2] = a /\ Named(r)
  <2>1. /\ <<r, "all">> \in Claims(t) /\ <<r, "all">>[1] = r /\ <<r, "all">>[2] = "all"
        /\ Named(r)
    BY <1>3, LockedIsHeld DEF Base
  <2> QED
    BY <1>4, <2>1 DEF Custom
<1>7. ASSUME NEW d \in Stored(c), SawField(t, ValueTable, d)
      PROVE  /\ <<Value(a, d), "all">> \in txn[t].held
             /\ Row(Value(a, d)) # Absent /\ Row(Value(a, d)) = Seen(t, Value(a, d))
             /\ Row(Value(a, d)) = [data |-> Row(Value(a, d)).data,
                                    stamp |-> Row(Value(a, d)).stamp]
  <2> DEFINE r == Value(a, d)
  <2>1. Seen(t, r) # Absent
    BY <1>0, <1>7, Names DEF SawField, ValueTable
  <2>2. r \in DOMAIN txn[t].seen /\ r[2] = a /\ r[1] = ValueTable
    BY <2>1, Tables DEF Seen
  <2> HIDE DEF r
  <2>3. <<r, "all">> \in txn[t].held
    BY <1>2, <1>4, <2>1, <2>2
  <2>4. Row(r) = Seen(t, r) /\ r \in Rows
    BY <1>3, <2>1, <2>2, <2>3, HeldSeen DEF Snapshots, Indexes, AssetTables, ValueTable
  <2>5. Columns(r, Row(r))
    BY <2>1, <2>4 DEF Base, WellFormed
  <2> QED
    BY <2>1, <2>2, <2>3, <2>4, <2>5 DEF r, Columns
<1>8. ASSUME NEW r \in DOMAIN new
      PROVE  /\ Custom(r) /\ r[2] = a /\ Named(r) /\ Holding(t, r)
             /\ new[r] # Absent /\ Columns(r, new[r]) /\ new[r].stamp = t
             /\ {<<Asset(r[2]), "share">>, <<Field(r[3]), "share">>} \subseteq txn[t].held
  <2>1. PICK d \in Stored(c) : r = Value(a, d) /\ new[r] = [data |-> c.values[d], stamp |-> t]
    BY <1>5
  <2>2. /\ r[1] = ValueTable /\ r[2] = a /\ r[3] = d /\ Named(r) /\ Custom(r)
    BY <2>1, Tables, NamesAreNamed DEF Custom
  <2>a. /\ SawField(t, ValueTable, d) \/ <<Value(a, d), "new">> \in txn[t].held
        /\ <<Field(d), "share">> \in txn[t].held
        /\ <<Asset(a), "share">> \in txn[t].held
    BY <1>2, <1>4
  <2>3. Holding(t, r)
    BY <1>7, <2>1, <2>a DEF Holding
  <2>4. Columns(r, new[r])
    BY <2>1, <2>2 DEF Columns, AssignmentTable, ValueTable
  <2>5. {<<Asset(a), "share">>, <<Field(d), "share">>} \subseteq txn[t].held
    BY <2>a
  <2>6. new[r] # Absent /\ new[r].stamp = t
    BY <2>1 DEF Absent
  <2> QED
    BY <2>2, <2>3, <2>4, <2>5, <2>6
<1>9. \/ Holding(t, Asset(a))
      \/ /\ Locked(t) \subseteq DOMAIN new
         /\ \A r \in DOMAIN new : Alike(new[r], Row(r))
  <2>1. CASE <<Asset(a), "nokey">> \in Claims(t)
    BY <1>2, <2>1 DEF Holding
  <2>2. CASE <<Asset(a), "nokey">> \notin Claims(t)
    <3>1. /\ \A d \in Stored(c) : /\ SawField(t, ValueTable, d)
                                  /\ Seen(t, Value(a, d)).data = c.values[d]
          /\ \A r \in DOMAIN txn[t].seen :
               Seen(t, r) # Absent /\ r[1] = ValueTable /\ r[2] = a => r[3] \in Stored(c)
      BY <1>4, <2>2
    <3>2. ASSUME NEW r \in DOMAIN new
          PROVE  Alike(new[r], Row(r))
      <4>1. PICK d \in Stored(c) : r = Value(a, d) /\ new[r] = [data |-> c.values[d], stamp |-> t]
        BY <1>5
      <4>2. Row(r) = [data |-> c.values[d], stamp |-> Row(r).stamp]
        BY <1>7, <3>1, <4>1
      <4> QED
        BY <4>1, <4>2, Contents
    <3>3. ASSUME NEW r \in Locked(t)
          PROVE  r \in DOMAIN new
      <4>1. Seen(t, r) # Absent /\ r \in DOMAIN txn[t].seen /\ r[1] = ValueTable /\ r[2] = a /\ Named(r)
        BY <1>6 DEF Seen
      <4>2. r[3] \in Stored(c)
        BY <3>1, <4>1
      <4>3. r = Value(a, r[3])
        BY <4>1, Names DEF Named, Triples, ValueTable
      <4> QED
        BY <1>5, <4>2, <4>3
    <3> QED
      BY <3>2, <3>3
  <2> QED
    BY <2>1, <2>2
<1> QED
  <2>1. \A r \in Locked(t) : Custom(r) /\ r[2] = a
    BY <1>6
  <2>2. \A r \in DOMAIN new :
           /\ Custom(r) /\ r[2] = a /\ Named(r) /\ Holding(t, r)
           /\ new[r] # Absent /\ Columns(r, new[r]) /\ new[r].stamp = t
           /\ {<<Asset(r[2]), "share">>, <<Field(r[3]), "share">>} \subseteq txn[t].held
    BY <1>8
  <2> HIDE DEF a
  <2> QED
    BY <1>1, <1>3, <1>9, <2>1, <2>2, ReplacementEffect

LEMMA AssetEffect ==
  ASSUME Base, Plans, SeenAssigned, NEW t \in Txns, AssetCommit(t)
  PROVE  WritesOn(t, AssetTables) /\ Effect(t)
BY WriteAssetEffect, WriteInventoryEffect, EraseAssetEffect, WriteDefinitionEffect,
   EraseDefinitionEffect, WriteAssignmentsEffect, WriteValuesEffect DEF AssetCommit

-----------------------------------------------------------------------------
\* What the commits of findings and of roles do to the rows.

\* The tables of roles and users that no plan protects.
RoleIndexes == {"role_name", "user_profile_username", "user_profile_email", "user_session"}

\* The commit of rows, of a row that owns them, of entries of indexes and of rows that
\* are erased.
OwnerWrite(W, new, o, x, index, old) ==
  /\ \A r : r \in DOMAIN W <=> r \in DOMAIN new \/ r = o \/ r \in index \/ r \in old
  /\ \A r \in DOMAIN new : W[r] = new[r]
  /\ o \notin DOMAIN new => W[o] = x
  /\ \A r \in old : r \notin DOMAIN new /\ r # o /\ r \notin index => W[r] = Absent

LEMMA OwnerWritten ==
  ASSUME NEW new, NEW o, NEW x, NEW g, NEW h, NEW old
  PROVE  /\ OwnerWrite(new ++ Put(o, x) ++ g ++ Erased(old), new, o, x, DOMAIN g, old)
         /\ OwnerWrite(new ++ Put(o, x) ++ g ++ h ++ Erased(old), new, o, x,
                       DOMAIN g \cup DOMAIN h, old)
<1> DEFINE b == Put(o, x)
           d == Erased(old)
           f == new ++ b
           e == f ++ g
           i == e ++ h
<1>1. DOMAIN b = {o} /\ b[o] = x /\ DOMAIN d = old /\ \A r \in old : d[r] = Absent
  BY DEF Put, Erased
<1> HIDE DEF b, d
<1>2. /\ DOMAIN f = DOMAIN new \cup {o} /\ (o \notin DOMAIN new => f[o] = x)
      /\ \A r \in DOMAIN new : f[r] = new[r]
  <2>1. /\ DOMAIN f = DOMAIN new \cup DOMAIN b
        /\ \A r \in DOMAIN new : f[r] = new[r]
        /\ \A r \in DOMAIN b \ DOMAIN new : f[r] = b[r]
    BY Prevails, Zenon
  <2> QED
    BY <1>1, <2>1
<1> HIDE DEF f
<1>3. DOMAIN e = DOMAIN f \cup DOMAIN g /\ \A r \in DOMAIN f : e[r] = f[r]
  BY Prevails
<1> HIDE DEF e
<1>4. DOMAIN i = DOMAIN e \cup DOMAIN h /\ \A r \in DOMAIN e : i[r] = e[r]
  BY Prevails
<1> HIDE DEF i
<1>5. /\ DOMAIN (e ++ d) = DOMAIN e \cup old
      /\ \A r \in DOMAIN e : (e ++ d)[r] = e[r]
      /\ \A r \in old \ DOMAIN e : (e ++ d)[r] = Absent
  <2>1. /\ DOMAIN (e ++ d) = DOMAIN e \cup DOMAIN d
        /\ \A r \in DOMAIN e : (e ++ d)[r] = e[r]
        /\ \A r \in DOMAIN d \ DOMAIN e : (e ++ d)[r] = d[r]
    BY Prevails, Zenon
  <2> QED
    BY <1>1, <2>1
<1>6. /\ DOMAIN (i ++ d) = DOMAIN i \cup old
      /\ \A r \in DOMAIN i : (i ++ d)[r] = i[r]
      /\ \A r \in old \ DOMAIN i : (i ++ d)[r] = Absent
  <2>1. /\ DOMAIN (i ++ d) = DOMAIN i \cup DOMAIN d
        /\ \A r \in DOMAIN i : (i ++ d)[r] = i[r]
        /\ \A r \in DOMAIN d \ DOMAIN i : (i ++ d)[r] = d[r]
    BY Prevails, Zenon
  <2> QED
    BY <1>1, <2>1
<1>7. OwnerWrite(e ++ d, new, o, x, DOMAIN g, old)
  BY <1>2, <1>3, <1>5 DEF OwnerWrite
<1>8. OwnerWrite(i ++ d, new, o, x, DOMAIN g \cup DOMAIN h, old)
  BY <1>2, <1>3, <1>4, <1>6 DEF OwnerWrite
<1> QED
  BY <1>7, <1>8 DEF b, d, f, e, i

\* The rows of an owner, in a table of pairs, after a replacement as a whole.
Rewritten(t, table, owner, o) ==
  /\ \A r : Row(r)' # Row(r) =>
       \/ r[1] = table /\ r[2] = owner /\ Row(r)' \in {[stamp |-> t], Absent}
       \/ r = o /\ Row(r)' = [stamp |-> t]
       \/ r[1] \in RoleIndexes
  /\ \A r : r[1] = table /\ r[2] = owner => Row(r)' \in {[stamp |-> t], Absent}
  /\ Row(o)' = [stamp |-> t]

LEMMA RewrittenRows ==
  ASSUME Base, NEW t \in Txns, ClaimsOn(t, RoleTables), Claims(t) = txn[t].held,
         NEW table \in {PermissionTable, HoldsTable}, NEW owner, NEW o, NEW new,
         NEW index, NEW W, Commit(t, W),
         OwnerWrite(W, new, o, [stamp |-> t], index, Locked(t)),
         \A r \in index : r[1] \in RoleIndexes /\ Named(r),
         o[1] \in {"role", "user_profile"}, Named(o), Holding(t, o),
         \A r \in DOMAIN new :
           r[1] = table /\ r[2] = owner /\ Named(r) /\ new[r] = [stamp |-> t],
         \A r \in Locked(t) : r = o \/ (r[1] = table /\ r[2] = owner) \/ r[1] \in RoleIndexes,
         AllClaimed(t, table, owner)
  PROVE  WritesOn(t, RoleTables) /\ KeepsLocks(t) /\ Rewritten(t, table, owner, o)
<1>o. PICK old : old = Locked(t)
  OBVIOUS
<1>1. \A r \in old : <<r, "all">> \in txn[t].held /\ Named(r)
  BY <1>o, LockedRows DEF Base
<1>t. /\ table \in RoleTables /\ table \notin Guarded /\ table # o[1] /\ o[1] \in RoleTables
      /\ \A x \in RoleIndexes : x \in RoleTables /\ x \notin Guarded /\ x # o[1] /\ x # table
  BY DEF RoleIndexes, RoleTables, Guarded, Indexes, AssetTables, PermissionTable, HoldsTable, AssignmentTable, ValueTable
<1>2. \A r : Row(r) # Absent /\ r[1] = table /\ r[2] = owner => r \in old
  <2>1. ASSUME NEW r, Row(r) # Absent, r[1] = table, r[2] = owner
        PROVE  r \in old
    <3>1. <<r, "all">> \in txn[t].held
      BY <2>1 DEF AllClaimed, Row
    <3> QED
      BY <1>o, <3>1 DEF Locked
  <2> QED
    BY <2>1
<1>w. /\ \A r : r \in DOMAIN W <=> r \in DOMAIN new \/ r = o \/ r \in index \/ r \in old
      /\ \A r \in DOMAIN new : W[r] = new[r]
      /\ o \notin DOMAIN new => W[o] = [stamp |-> t]
      /\ \A r \in old : r \notin DOMAIN new /\ r # o /\ r \notin index => W[r] = Absent
  BY <1>o DEF OwnerWrite
<1>i. o \notin index /\ \A r \in index : r[1] # table
  BY <1>t
<1>3. /\ \A r : r \in DOMAIN new => Row(r)' = new[r]
      /\ o \notin DOMAIN new => Row(o)' = [stamp |-> t]
      /\ \A r : r \in old /\ r \notin DOMAIN new /\ r # o /\ r \notin index => Row(r)' = Absent
      /\ \A r : r \notin DOMAIN new /\ r # o /\ r \notin index /\ r \notin old => Row(r)' = Row(r)
  <2>1. \A r : Row(r)' = IF r \in DOMAIN W THEN W[r] ELSE Row(r)
    BY RowAfter
  <2> QED
    BY <1>w, <2>1
<1>4. \A r \in old : r = o \/ (r[1] = table /\ r[2] = owner) \/ r[1] \in RoleIndexes
  BY <1>o
<1>5. o \notin DOMAIN new
  BY <1>t
<1>6. WritesOn(t, RoleTables)
  <2>1. \A r \in DOMAIN W : r[1] \in RoleTables /\ Named(r)
    BY <1>1, <1>4, <1>t, <1>w
  <2> QED
    BY <2>1 DEF WritesOn
<1>7. \A r : Row(r)' # Row(r) =>
        \/ r[1] = table /\ r[2] = owner /\ Row(r)' \in {[stamp |-> t], Absent}
        \/ r = o /\ Row(r)' = [stamp |-> t]
        \/ r[1] \in RoleIndexes
  BY <1>3, <1>4, <1>5
<1>8. KeepsLocks(t)
  BY <1>7, <1>t, Contents DEF KeepsLocks
<1>9. ASSUME NEW r, r[1] = table, r[2] = owner
      PROVE  Row(r)' \in {[stamp |-> t], Absent}
  <2>1. r # o /\ r \notin index
    BY <1>9, <1>t, <1>i
  <2>2. CASE r \in DOMAIN new
    BY <1>3, <2>2
  <2>3. CASE r \notin DOMAIN new /\ r \in old
    BY <1>3, <2>1, <2>3
  <2>4. CASE r \notin DOMAIN new /\ r \notin old
    BY <1>2, <1>3, <1>9, <2>1, <2>4
  <2> QED
    BY <2>2, <2>3, <2>4
<1> QED
  BY <1>3, <1>5, <1>6, <1>7, <1>8, <1>9 DEF Rewritten

\* A foreign key finds nothing where its row is not there.
LEMMA NoneOfNew ==
  ASSUME Base, References, NEW t \in Txns, NEW x
  PROVE  /\ <<Role(x), "new">> \in txn[t].held => AllClaimed(t, PermissionTable, x)
         /\ <<User(x), "new">> \in txn[t].held => AllClaimed(t, HoldsTable, x)
<1>1. /\ <<Role(x), "new">> \in txn[t].held => Row(Role(x)) = Absent
      /\ <<User(x), "new">> \in txn[t].held => Row(User(x)) = Absent
  BY Names DEF Base, HeldThere, Guarded
<1> QED
  BY <1>1 DEF AllClaimed, References

LEMMA RoleClaims ==
  ASSUME Reach, NEW t \in Txns, txn[t].pc \in RoleSteps
  PROVE  ClaimsOn(t, RoleTables) /\ txn[t].pc # "ended"
BY DEF Reach, FindingSteps, AssetSteps, RoleSteps

\* A row that a transaction holds to delete it, of those it has claimed.
LEMMA LockedClaim ==
  ASSUME WellNamed, NEW t \in Txns, ClaimsOn(t, RoleTables), NEW r \in Locked(t)
  PROVE  /\ <<r, "all">> \in Claims(t)
         /\ <<r, "all">>[1] = r /\ <<r, "all">>[2] = "all"
         /\ r[1] \in RoleTables /\ Named(r)
<1>1. <<r, "all">> \in txn[t].held /\ r[1] \in RoleTables /\ Named(r)
  BY LockedRows
<1> QED
  BY <1>1 DEF Claims

LEMMA WriteRoleEffect ==
  ASSUME Base, Plans, References, NEW t \in Txns, WriteRole(t)
  PROVE  /\ WritesOn(t, RoleTables) /\ KeepsLocks(t)
         /\ \E role : Rewritten(t, PermissionTable, role, Role(role)) /\ Holding(t, Role(role))
<1>0. PICK c : c = txn[t].call
  OBVIOUS
<1>p. PICK role : role = RoleOf(t, c)
  OBVIOUS
<1> DEFINE new == [r \in {Permission(role, p) : p \in c.permissions} |-> [stamp |-> t]]
           name == Put(RoleName(c.name), Entry(role, t))
           W == new ++ Put(Role(role), [stamp |-> t]) ++ name ++ Erased(Locked(t))
<1>1. Commit(t, W)
  BY <1>0, <1>p DEF WriteRole
<1>2. txn[t].pc = "write role" /\ Claims(t) = txn[t].held
  BY ReadyClaims DEF WriteRole
<1>3. ClaimsOn(t, RoleTables)
  BY <1>2, RoleClaims DEF Base, RoleSteps
<1>4. /\ \/ <<Role(role), "new">> \in Claims(t)
         \/ Holding(t, Role(role)) /\ AllClaimed(t, PermissionTable, role)
      /\ \A l \in Claims(t) : l[2] = "all" =>
           \/ l[1] = Role(role) \/ (l[1][1] = PermissionTable /\ l[1][2] = role)
           \/ l[1][1] \in RoleIndexes
  BY <1>0, <1>p, <1>2 DEF Plans, Plan, RolePlan, RoleIndexes
<1>5. Holding(t, Role(role)) /\ AllClaimed(t, PermissionTable, role)
  BY <1>2, <1>4, NoneOfNew DEF Holding
<1>6. \A r \in Locked(t) : r = Role(role) \/ (r[1] = PermissionTable /\ r[2] = role)
                            \/ r[1] \in RoleIndexes
  <2>1. ASSUME NEW r \in Locked(t)
        PROVE  r = Role(role) \/ (r[1] = PermissionTable /\ r[2] = role) \/ r[1] \in RoleIndexes
    <3>1. <<r, "all">> \in Claims(t) /\ <<r, "all">>[1] = r /\ <<r, "all">>[2] = "all"
      BY <1>3, LockedClaim DEF Base
    <3> QED
      BY <1>4, <3>1
  <2> QED
    BY <2>1
<1>7. \A r \in DOMAIN new :
        r[1] = PermissionTable /\ r[2] = role /\ Named(r) /\ new[r] = [stamp |-> t]
  BY Names, NamesAreNamed DEF PermissionTable
<1>8. Role(role)[1] \in {"role", "user_profile"} /\ Named(Role(role))
  BY Names, NamesAreNamed
<1>9. PICK o : o = Role(role)
  OBVIOUS
<1>d. \A r \in DOMAIN name : r[1] \in RoleIndexes /\ Named(r)
  BY Names, NamesAreNamed DEF Put, RoleIndexes
<1> HIDE DEF new, name
<1>w. OwnerWrite(W, new, Role(role), [stamp |-> t], DOMAIN name, Locked(t))
  BY OwnerWritten
<1> HIDE DEF W
<1>10. WritesOn(t, RoleTables) /\ KeepsLocks(t) /\ Rewritten(t, PermissionTable, role, o)
  BY <1>1, <1>2, <1>3, <1>5, <1>6, <1>7, <1>8, <1>9, <1>d, <1>w, RewrittenRows
<1> QED
  BY <1>5, <1>9, <1>10

LEMMA WriteUserEffect ==
  ASSUME Base, Plans, References, NEW t \in Txns, WriteUser(t)
  PROVE  /\ WritesOn(t, RoleTables) /\ KeepsLocks(t)
         /\ \E user : Rewritten(t, HoldsTable, user, User(user)) /\ Holding(t, User(user))
<1>0. PICK c : c = txn[t].call
  OBVIOUS
<1>p. PICK user : user = UserOf(t, c)
  OBVIOUS
<1> DEFINE new == [x \in {Holds(user, r) : r \in c.roles} |-> [stamp |-> t]]
           email == Put(Email(c.email), Entry(user, t))
           name == IF c.op = "updateUser" THEN Erased({})
                                          ELSE Put(Username(c.username), Entry(user, t))
           W == new ++ Put(User(user), [stamp |-> t]) ++ email ++ name ++ Erased(Locked(t))
<1>1. Commit(t, W)
  BY <1>0, <1>p DEF WriteUser
<1>2. txn[t].pc = "write user" /\ Claims(t) = txn[t].held
  BY ReadyClaims DEF WriteUser
<1>3. ClaimsOn(t, RoleTables)
  BY <1>2, RoleClaims DEF Base, RoleSteps
<1>4. /\ \/ <<User(user), "new">> \in Claims(t)
         \/ Holding(t, User(user)) /\ AllClaimed(t, HoldsTable, user)
      /\ \A l \in Claims(t) : l[2] = "all" =>
           \/ l[1] = User(user) \/ (l[1][1] = HoldsTable /\ l[1][2] = user)
           \/ l[1][1] \in RoleIndexes
  BY <1>0, <1>p, <1>2 DEF Plans, Plan, UserPlan, RoleIndexes
<1>5. Holding(t, User(user)) /\ AllClaimed(t, HoldsTable, user)
  BY <1>2, <1>4, NoneOfNew DEF Holding
<1>6. \A r \in Locked(t) : r = User(user) \/ (r[1] = HoldsTable /\ r[2] = user)
                            \/ r[1] \in RoleIndexes
  <2>1. ASSUME NEW r \in Locked(t)
        PROVE  r = User(user) \/ (r[1] = HoldsTable /\ r[2] = user) \/ r[1] \in RoleIndexes
    <3>1. <<r, "all">> \in Claims(t) /\ <<r, "all">>[1] = r /\ <<r, "all">>[2] = "all"
      BY <1>3, LockedClaim DEF Base
    <3> QED
      BY <1>4, <3>1
  <2> QED
    BY <2>1
<1>7. \A r \in DOMAIN new :
        r[1] = HoldsTable /\ r[2] = user /\ Named(r) /\ new[r] = [stamp |-> t]
  BY Names, NamesAreNamed DEF HoldsTable
<1>8. User(user)[1] \in {"role", "user_profile"} /\ Named(User(user))
  BY Names, NamesAreNamed
<1>9. PICK o : o = User(user)
  OBVIOUS
<1>d. \A r \in DOMAIN email \cup DOMAIN name : r[1] \in RoleIndexes /\ Named(r)
  <2>1. \A r \in DOMAIN email : r = Email(c.email)
    BY DEF Put
  <2>2. \A r \in DOMAIN name : r = Username(c.username)
    BY DEF Put, Erased
  <2> HIDE DEF email, name
  <2>3. \A x : Email(x)[1] = "user_profile_email" /\ Named(Email(x))
    BY Names, NamesAreNamed
  <2>4. \A x : Username(x)[1] = "user_profile_username" /\ Named(Username(x))
    BY Names, NamesAreNamed
  <2> QED
    BY <2>1, <2>2, <2>3, <2>4 DEF RoleIndexes
<1> HIDE DEF new, email, name
<1>w. OwnerWrite(W, new, User(user), [stamp |-> t], DOMAIN email \cup DOMAIN name, Locked(t))
  BY OwnerWritten
<1> HIDE DEF W
<1>10. WritesOn(t, RoleTables) /\ KeepsLocks(t) /\ Rewritten(t, HoldsTable, user, o)
  BY <1>1, <1>2, <1>3, <1>5, <1>6, <1>7, <1>8, <1>9, <1>d, <1>w, RewrittenRows
<1> QED
  BY <1>5, <1>9, <1>10

\* The deletion of a role leaves none of its permissions.
LEMMA EraseRoleEffect ==
  ASSUME Base, Plans, NEW t \in Txns, EraseRole(t)
  PROVE  /\ WritesOn(t, RoleTables) /\ KeepsLocks(t)
         /\ \A r : Row(r)' # Row(r) => Row(r)' = Absent /\ r[1] # "user_profile"
         /\ \A r : r[1] = "role" /\ Row(r)' # Row(r) =>
              \A x : x[1] = PermissionTable /\ Role(x[2]) = r => Row(x)' = Absent
<1>0. PICK role : role = txn[t].call.role
  OBVIOUS
<1> DEFINE W == Erased(Locked(t))
<1>1. Commit(t, W)
  BY DEF EraseRole
<1>2. txn[t].pc = "erase role" /\ Claims(t) = txn[t].held
  BY ReadyClaims DEF EraseRole
<1>3. ClaimsOn(t, RoleTables)
  BY <1>2, RoleClaims DEF Base, RoleSteps
<1>4. /\ AllClaimed(t, PermissionTable, role)
      /\ \A l \in Claims(t) : l[2] = "all" =>
           \/ l[1] = Role(role)
           \/ l[1][1] \in {PermissionTable, HoldsTable} \cup RoleIndexes
  <2>1. RoleOf(t, txn[t].call) = role
    BY <1>0, <1>2 DEF Plans, Plan, RolePlan
  <2> QED
    BY <1>2, <2>1 DEF Plans, Plan, RolePlan, RoleIndexes
<1>5. DOMAIN W = Locked(t) /\ \A r \in DOMAIN W : W[r] = Absent
  BY DEF Erased
<1> HIDE DEF W
<1>6. \A r : Row(r)' = IF r \in Locked(t) THEN Absent ELSE Row(r)
  BY <1>1, <1>5, RowAfter
<1>7. ASSUME NEW r \in Locked(t)
      PROVE  /\ <<r, "all">> \in txn[t].held /\ r[1] \in RoleTables /\ Named(r)
             /\ r = Role(role) \/ r[1] \in {PermissionTable, HoldsTable} \cup RoleIndexes
  <2>1. /\ <<r, "all">> \in Claims(t) /\ <<r, "all">>[1] = r /\ <<r, "all">>[2] = "all"
        /\ r[1] \in RoleTables /\ Named(r)
    BY <1>3, LockedClaim DEF Base
  <2> QED
    BY <1>2, <1>4, <2>1
<1>8. WritesOn(t, RoleTables)
  BY <1>1, <1>5, <1>7 DEF WritesOn
<1>9. \A r : Row(r)' # Row(r) => Row(r)' = Absent /\ r \in Locked(t)
  BY <1>6
<1>10. KeepsLocks(t)
  <2>1. \A r : r \in Locked(t) => <<r, "all">> \in txn[t].held /\ Holding(t, r)
    BY <1>7 DEF Holding
  <2> QED
    BY <1>9, <2>1 DEF KeepsLocks
<1>11. \A r : Row(r)' # Row(r) => r[1] # "user_profile"
  <2>1. Role(role)[1] # "user_profile" /\ "user_profile" \notin {PermissionTable, HoldsTable} \cup RoleIndexes
    BY Names DEF PermissionTable, HoldsTable, RoleIndexes
  <2> QED
    BY <1>7, <1>9, <2>1
<1>12. ASSUME NEW r, r[1] = "role", Row(r)' # Row(r), NEW x, x[1] = PermissionTable, Role(x[2]) = r
       PROVE  Row(x)' = Absent
  <2>1. r = Role(role)
    BY <1>7, <1>9, <1>12 DEF PermissionTable, HoldsTable, RoleIndexes
  <2>2. x[2] = role
    BY <1>12, <2>1, Names
  <2>3. CASE Row(x) = Absent
    BY <1>6, <2>3
  <2>4. CASE Row(x) # Absent
    <3>1. <<x, "all">> \in txn[t].held
      BY <1>2, <1>4, <1>12, <2>2, <2>4 DEF AllClaimed, Row
    <3>2. x \in Locked(t)
      BY <3>1 DEF Locked
    <3> QED
      BY <1>6, <3>2
  <2> QED
    BY <2>3, <2>4
<1> QED
  BY <1>8, <1>9, <1>10, <1>11, <1>12

\* Commits of findings and of roles leave assets alone.
LEMMA Elsewhere ==
  ASSUME NEW t, NEW tables \in {FindingTables, RoleTables}, WritesOn(t, tables), NEW r,
         r[1] \notin tables
  PROVE  Row(r)' = Row(r)
BY RowAfter DEF WritesOn

LEMMA ElsewhereEffect ==
  ASSUME NEW t, NEW tables \in {FindingTables, RoleTables}, WritesOn(t, tables),
         tables = RoleTables => KeepsLocks(t)
  PROVE  Effect(t)
<1>1. \A r : r[1] \notin tables => Row(r)' = Row(r)
  BY Elsewhere
<1>2. \A r : Row(r)' # Row(r) => r[1] \notin AssetTables
  BY <1>1 DEF FindingTables, RoleTables, AssetTables, AssignmentTable, ValueTable
<1>3. \A r : Row(r)' # Row(r) => ~Custom(r) /\ r[1] \notin Snapshots
  BY <1>2 DEF Custom, Snapshots, Indexes, AssetTables
<1>4. KeepsLocks(t)
  <2>1. CASE tables = FindingTables
    BY <1>1, <2>1 DEF KeepsLocks, Guarded, FindingTables, Indexes, AssetTables, AssignmentTable, ValueTable
  <2> QED
    BY <2>1
<1>5. Audits(t)
  <2>1. \A r : Custom(r) \/ r[1] = "asset_identifier" => Row(r)' = Row(r)
    BY <1>3 DEF Snapshots, Indexes, AssetTables
  <2> QED
    BY <2>1, AlikeLaws DEF Audits
<1>6. Signs(t)
  BY <1>3 DEF Signs, Columns, Custom, Snapshots, Indexes, AssetTables
<1>7. Inserts(t)
  BY <1>3 DEF Inserts, Snapshots, Indexes, AssetTables
<1> QED
  BY <1>4, <1>5, <1>6, <1>7 DEF Effect

-----------------------------------------------------------------------------
\* What a transaction plans stays as it is while others step.

\* The transaction itself does not step.
Still(t) == txn'[t] = txn[t]

LEMMA StillFacts ==
  ASSUME NEW t, Still(t)
  PROVE  /\ txn'[t].pc = txn[t].pc /\ txn'[t].call = txn[t].call
         /\ txn'[t].level = txn[t].level /\ txn'[t].held = txn[t].held
         /\ txn'[t].seen = txn[t].seen
         /\ Claims(t)' = Claims(t)
         /\ \A r : Seen(t, r)' = Seen(t, r)
         /\ \A r : Holding(t, r)' <=> Holding(t, r)
BY DEF Still, Claims, Left, Seen, Holding

\* A plan that says nothing of the rows there are.
LEMMA PlanStays ==
  ASSUME NEW t, Plan(t), Still(t)
  PROVE  /\ EditPlan(t)' /\ CreationPlan(t)' /\ InventoryPlan(t)' /\ DefinitionPlan(t)'
         /\ AssignmentsPlan(t)' /\ ValuesPlan(t)' /\ (SawAssigned(t) => SawAssigned(t)')
<1>1. /\ txn'[t].pc = txn[t].pc /\ txn'[t].call = txn[t].call
      /\ txn'[t].level = txn[t].level /\ txn'[t].seen = txn[t].seen
      /\ Claims(t)' = Claims(t)
      /\ \A r : Seen(t, r)' = Seen(t, r)
  BY StillFacts
<1>2. EditPlan(t)' /\ CreationPlan(t)'
  BY <1>1 DEF Plan, EditPlan, CreationPlan
<1>s. Snapped(t)' <=> Snapped(t)
  BY <1>1 DEF Snapped
<1>f. \A x, d : SawField(t, x, d)' <=> SawField(t, x, d)
  BY <1>1 DEF SawField
<1>3. InventoryPlan(t)'
  BY <1>1, <1>s DEF Plan, InventoryPlan
<1>4. DefinitionPlan(t)'
  BY <1>1 DEF Plan, DefinitionPlan
<1>5. AssignmentsPlan(t)'
  BY <1>1, <1>s, <1>f DEF Plan, AssignmentsPlan
<1>6. ValuesPlan(t)'
  BY <1>1, <1>s, <1>f DEF Plan, ValuesPlan
<1>7. SawAssigned(t) => SawAssigned(t)'
  BY <1>1 DEF SawAssigned
<1> QED
  BY <1>2, <1>3, <1>4, <1>5, <1>6, <1>7

-----------------------------------------------------------------------------
\* The invariant, and what a commit does to it.

\* StoredValuesAreAssigned and ReplacementsAreWhole, as claims on all rows.
AssignedRows ==
  \A r : r[1] = ValueTable /\ Row(r) # Absent => Row(Assigned(r[2], r[3])) # Absent
WholeTable(table) ==
  \A x, y : /\ x[1] = table /\ y[1] = table /\ x[2] = y[2]
            /\ Row(x) # Absent /\ Row(y) # Absent
            => Row(x).stamp = Row(y).stamp
WholeRows == \A table \in Replaced : WholeTable(table)

LEMMA RowsOfTables ==
  /\ StoredValuesAreAssigned <=> AssignedRows
  /\ ReplacementsAreWhole <=> WholeRows
<1>1. \A r : Present(r) <=> Row(r) # Absent
  BY DEF Present, Known, Row
<1>2. \A r, table : r \in Table(table) <=> r[1] = table /\ Row(r) # Absent
  BY <1>1 DEF Table, Present, Known
<1>3. \A r \in Rows : Present(r) => db[r] = Row(r)
  BY DEF Row
<1>4. StoredValuesAreAssigned <=> AssignedRows
  BY <1>1, <1>2 DEF StoredValuesAreAssigned, AssignedRows, ValueTable
<1>5. ReplacementsAreWhole <=> WholeRows
  <2>1. \A table : \A r \in Table(table) : db[r] = Row(r)
    BY <1>2 DEF Row
  <2>2. ASSUME ReplacementsAreWhole PROVE WholeRows
    BY <1>2, <2>1, <2>2 DEF ReplacementsAreWhole, WholeRows, WholeTable
  <2>3. ASSUME WholeRows PROVE ReplacementsAreWhole
    BY <1>2, <2>1, <2>3 DEF ReplacementsAreWhole, WholeRows, WholeTable
  <2> QED
    BY <2>2, <2>3
<1> QED
  BY <1>4, <1>5

Ends(t) == /\ Shape' /\ Others(t)
           /\ txn'[t].pc = "ended" /\ txn'[t].held = {} /\ txn'[t].seen = <<>>
           /\ Claims(t)' = {}

\* New permissions and new roles of a user are under the lock of their owner.
Owners(t) ==
  \A r : Row(r) = Absent /\ Row(r)' # Absent =>
    /\ r[1] = PermissionTable => Holding(t, Role(r[2]))
    /\ r[1] = HoldsTable => Holding(t, User(r[2]))

Commits(t) ==
  /\ Ends(t) /\ Effect(t) /\ Owners(t)
  /\ txn[t].pc # "ended"
  /\ Rows \subseteq Rows'
  /\ \A r \in Rows' : r \in Rows \/ Named(r)

LEMMA WritesCommit ==
  ASSUME Shape, NEW t \in Txns, NEW tables, WritesOn(t, tables)
  PROVE  /\ Ends(t) /\ Rows \subseteq Rows'
         /\ \A r \in Rows' : r \in Rows \/ Named(r)
<1>1. PICK W : Commit(t, W) /\ \A r \in DOMAIN W : r[1] \in tables /\ Named(r)
  BY DEF WritesOn
<1>2. txn' = [txn EXCEPT ![t] = Ended] /\ Rows' = Rows \cup DOMAIN W
  BY <1>1, RowAfter DEF Commit
<1>3. Ends(t)
  BY <1>2, EndedEffect DEF Ends
<1> QED
  BY <1>1, <1>2, <1>3

LEMMA OtherTables ==
  ASSUME NEW t, NEW tables \in {FindingTables, AssetTables}, WritesOn(t, tables)
  PROVE  \A r : r[1] \in RoleTables => Row(r)' = Row(r)
<1>1. \A x \in RoleTables : x \notin tables
  BY DEF RoleTables, FindingTables, AssetTables, AssignmentTable, ValueTable
<1> QED
  BY <1>1, RowAfter DEF WritesOn

\* What a replacement as a whole leaves of roles and users.
LEMMA RewrittenEffect ==
  ASSUME References, WholeTable(PermissionTable), WholeTable(HoldsTable), NEW t,
         NEW table, NEW owner, NEW o,
         \/ table = PermissionTable /\ o = Role(owner)
         \/ table = HoldsTable /\ o = User(owner),
         Rewritten(t, table, owner, o), Holding(t, o)
  PROVE  /\ Owners(t)
         /\ WholeTable(PermissionTable)' /\ WholeTable(HoldsTable)'
         /\ \A r : r[1] = PermissionTable /\ Row(r)' # Absent => Row(Role(r[2]))' # Absent
         /\ \A r : r[1] = HoldsTable /\ Row(r)' # Absent => Row(User(r[2]))' # Absent
<1>1. /\ \A r : Row(r)' # Row(r) =>
           \/ r[1] = table /\ r[2] = owner /\ Row(r)' \in {[stamp |-> t], Absent}
           \/ r = o /\ Row(r)' = [stamp |-> t]
           \/ r[1] \in RoleIndexes
      /\ \A r : r[1] = table /\ r[2] = owner => Row(r)' \in {[stamp |-> t], Absent}
      /\ Row(o)' = [stamp |-> t]
  BY DEF Rewritten
<1>2. [stamp |-> t] # Absent /\ [stamp |-> t].stamp = t
  BY Contents
<1>3. /\ PermissionTable # HoldsTable /\ o[1] \notin {PermissionTable, HoldsTable}
      /\ RoleIndexes \cap {PermissionTable, HoldsTable, "role", "user_profile"} = {}
  BY Names DEF PermissionTable, HoldsTable, RoleIndexes
<1>4. \A r : /\ r[1] = PermissionTable /\ Row(r) # Absent => Row(Role(r[2])) # Absent
             /\ r[1] = HoldsTable /\ Row(r) # Absent => Row(User(r[2])) # Absent
  BY DEF References, Row
<1>5. Owners(t)
  BY <1>1, <1>3 DEF Owners
<1>6. \A x : Role(x)[1] \notin {PermissionTable, HoldsTable}
                /\ User(x)[1] \notin {PermissionTable, HoldsTable}
                /\ Role(x)[1] \notin RoleIndexes /\ User(x)[1] \notin RoleIndexes
  BY Names DEF PermissionTable, HoldsTable, RoleIndexes
<1>7. \A x : Row(Role(x)) # Absent => Row(Role(x))' # Absent
  BY <1>1, <1>2, <1>3, <1>6
<1>8. \A x : Row(User(x)) # Absent => Row(User(x))' # Absent
  BY <1>1, <1>2, <1>3, <1>6
<1>9. ASSUME NEW r, r[1] = PermissionTable, Row(r)' # Absent
      PROVE  Row(Role(r[2]))' # Absent
  BY <1>1, <1>2, <1>3, <1>4, <1>7, <1>9
<1>10. ASSUME NEW r, r[1] = HoldsTable, Row(r)' # Absent
       PROVE  Row(User(r[2]))' # Absent
  BY <1>1, <1>2, <1>3, <1>4, <1>8, <1>10
<1>11. ASSUME NEW x, NEW y, x[1] = y[1], x[1] \in {PermissionTable, HoldsTable}, x[2] = y[2],
              Row(x)' # Absent, Row(y)' # Absent
       PROVE  Row(x)'.stamp = Row(y)'.stamp
  <2>1. CASE x[1] = table /\ x[2] = owner
    <3>1. Row(x)' = [stamp |-> t] /\ Row(y)' = [stamp |-> t]
      BY <1>1, <1>11, <2>1
    <3> QED
      BY <3>1
  <2>2. CASE ~(x[1] = table /\ x[2] = owner)
    <3>1. Row(x)' = Row(x) /\ Row(y)' = Row(y)
      BY <1>1, <1>3, <1>11, <2>2
    <3> QED
      BY <1>11, <3>1 DEF WholeTable
  <2> QED
    BY <2>1, <2>2
<1>12. WholeTable(PermissionTable)' /\ WholeTable(HoldsTable)'
  BY <1>11 DEF WholeTable
<1> QED
  BY <1>5, <1>9, <1>10, <1>12

\* Roles and users after any commit.
LEMMA RolesAfter ==
  ASSUME Base, Plans, References, WholeTable(PermissionTable), WholeTable(HoldsTable),
         NEW t \in Txns,
         \/ \E tables \in {FindingTables, AssetTables} : WritesOn(t, tables)
         \/ RoleCommit(t)
  PROVE  /\ Owners(t)
         /\ WholeTable(PermissionTable)' /\ WholeTable(HoldsTable)'
         /\ References'
<1> DEFINE Refer == /\ \A r : r[1] = PermissionTable /\ Row(r) # Absent => Row(Role(r[2])) # Absent
                    /\ \A r : r[1] = HoldsTable /\ Row(r) # Absent => Row(User(r[2])) # Absent
<1>0. Refer
  BY DEF References, Row
<1>1. CASE \E tables \in {FindingTables, AssetTables} : WritesOn(t, tables)
  <2>1. \A r : r[1] \in RoleTables => Row(r)' = Row(r)
    BY <1>1, OtherTables
  <2>2. \A x : Role(x)[1] \in RoleTables /\ User(x)[1] \in RoleTables
    BY Names DEF RoleTables
  <2>3. PermissionTable \in RoleTables /\ HoldsTable \in RoleTables
    BY DEF RoleTables, PermissionTable, HoldsTable
  <2>4. Owners(t)
    BY <2>1, <2>3 DEF Owners
  <2>5. WholeTable(PermissionTable)' /\ WholeTable(HoldsTable)'
    BY <2>1, <2>3 DEF WholeTable
  <2>6. References'
    BY <1>0, <2>1, <2>2, <2>3 DEF References
  <2> QED
    BY <2>4, <2>5, <2>6
<1>2. CASE WriteRole(t)
  <2>1. PICK role : Rewritten(t, PermissionTable, role, Role(role)) /\ Holding(t, Role(role))
    BY <1>2, WriteRoleEffect
  <2> QED
    BY <2>1, RewrittenEffect DEF References
<1>3. CASE WriteUser(t)
  <2>1. PICK user : Rewritten(t, HoldsTable, user, User(user)) /\ Holding(t, User(user))
    BY <1>3, WriteUserEffect
  <2> QED
    BY <2>1, RewrittenEffect DEF References
<1>4. CASE EraseRole(t)
  <2>1. /\ \A r : Row(r)' # Row(r) => Row(r)' = Absent /\ r[1] # "user_profile"
        /\ \A r : r[1] = "role" /\ Row(r)' # Row(r) =>
             \A x : x[1] = PermissionTable /\ Role(x[2]) = r => Row(x)' = Absent
    BY <1>4, EraseRoleEffect
  <2>2. Owners(t)
    BY <2>1 DEF Owners
  <2>3. WholeTable(PermissionTable)' /\ WholeTable(HoldsTable)'
    BY <2>1 DEF WholeTable
  <2>4. ASSUME NEW r, r[1] = PermissionTable, Row(r)' # Absent
        PROVE  Row(Role(r[2]))' # Absent
    <3>1. Row(r)' = Row(r)
      BY <2>1, <2>4
    <3>2. Row(Role(r[2]))' = Row(Role(r[2]))
      BY <2>1, <2>4, Names
    <3> QED
      BY <1>0, <2>4, <3>1, <3>2
  <2>5. ASSUME NEW r, r[1] = HoldsTable, Row(r)' # Absent
        PROVE  Row(User(r[2]))' # Absent
    <3>1. Row(r)' = Row(r)
      BY <2>1, <2>5
    <3>2. Row(User(r[2]))' = Row(User(r[2]))
      BY <2>1, Names
    <3> QED
      BY <1>0, <2>5, <3>1, <3>2
  <2>6. References'
    BY <2>4, <2>5 DEF References
  <2> QED
    BY <2>2, <2>3, <2>6
<1> QED
  BY <1>1, <1>2, <1>3, <1>4 DEF RoleCommit

LEMMA CommitKinds ==
  ASSUME Base, Plans, References, SeenAssigned, WholeRows, NEW t \in Txns,
         FindingCommit(t) \/ AssetCommit(t) \/ RoleCommit(t)
  PROVE  \/ GivesUp(t)
         \/ Commits(t) /\ References' /\ WholeTable(PermissionTable)' /\ WholeTable(HoldsTable)'
<1>w. WholeTable(PermissionTable) /\ WholeTable(HoldsTable)
  BY DEF WholeRows, Replaced, Triples, PermissionTable, HoldsTable
<1>s. Shape /\ WellNamed /\ Reach
  BY DEF Base
<1>1. CASE FindingCommit(t)
  <2>1. GivesUp(t) \/ WritesOn(t, FindingTables)
    BY <1>s, <1>1, FindingWrites DEF Plans, Plan
  <2>2. txn[t].pc # "ended"
    BY <1>1 DEF FindingCommit, WriteEdit, WriteCreated, TouchLinked, InsertVulnerability,
                WriteVulnerability, WritePlan, Ready
  <2>3. ASSUME WritesOn(t, FindingTables) PROVE Effect(t)
    BY <2>3, ElsewhereEffect DEF FindingTables, RoleTables
  <2>4. ASSUME WritesOn(t, FindingTables)
        PROVE  /\ Owners(t) /\ References'
               /\ WholeTable(PermissionTable)' /\ WholeTable(HoldsTable)'
    BY <1>w, <2>4, RolesAfter
  <2>5. ASSUME WritesOn(t, FindingTables)
        PROVE  Ends(t) /\ Rows \subseteq Rows' /\ \A r \in Rows' : r \in Rows \/ Named(r)
    BY <1>s, <2>5, WritesCommit
  <2> QED
    BY <2>1, <2>2, <2>3, <2>4, <2>5 DEF Commits
<1>2. CASE AssetCommit(t)
  <2>1. WritesOn(t, AssetTables) /\ Effect(t)
    BY <1>2, AssetEffect
  <2>2. txn[t].pc # "ended"
    BY <1>2 DEF AssetCommit, WriteAsset, WriteInventory, EraseAsset, WriteDefinition,
                EraseDefinition, WriteAssignments, WriteValues, Ready
  <2>3. /\ Owners(t) /\ References'
        /\ WholeTable(PermissionTable)' /\ WholeTable(HoldsTable)'
    BY <1>w, <2>1, RolesAfter
  <2>4. Ends(t) /\ Rows \subseteq Rows' /\ \A r \in Rows' : r \in Rows \/ Named(r)
    BY <1>s, <2>1, WritesCommit
  <2> QED
    BY <2>1, <2>2, <2>3, <2>4 DEF Commits
<1>3. CASE RoleCommit(t)
  <2>1. WritesOn(t, RoleTables) /\ KeepsLocks(t)
    BY <1>3, WriteRoleEffect, WriteUserEffect, EraseRoleEffect DEF RoleCommit
  <2>2. txn[t].pc # "ended"
    BY <1>3 DEF RoleCommit, WriteRole, EraseRole, WriteUser, Ready
  <2>3. Effect(t)
    BY <2>1, ElsewhereEffect DEF FindingTables, RoleTables
  <2>4. /\ Owners(t) /\ References'
        /\ WholeTable(PermissionTable)' /\ WholeTable(HoldsTable)'
    BY <1>w, <1>3, RolesAfter
  <2>5. Ends(t) /\ Rows \subseteq Rows' /\ \A r \in Rows' : r \in Rows \/ Named(r)
    BY <1>s, <2>1, WritesCommit
  <2> QED
    BY <2>1, <2>2, <2>3, <2>4, <2>5 DEF Commits
<1> QED
  BY <1>1, <1>2, <1>3

-----------------------------------------------------------------------------
\* Every step keeps Base.

\* A step as it shows in the transactions and in the rows.
LockStep(t) == Shape' /\ Others(t) /\ db' = db /\ SameCall(t) /\ (Taken(t) \/ PassedOver(t))
Moves(t) == \/ MovesOn(t, FindingSteps, FindingTables, "read committed")
            \/ MovesOn(t, AssetSteps, AssetTables, "repeatable read")
            \/ MovesOn(t, RoleSteps, RoleTables, "read committed")
Stepped(t) == \/ Ends(t) /\ db' = db
              \/ LockStep(t)
              \/ Moves(t)
              \/ Commits(t)

LEMMA SteppedOthers ==
  ASSUME NEW t \in Txns, Stepped(t)
  PROVE  /\ Shape'
         /\ \A u \in Txns \ {t} : Still(u)
         /\ db' = db \/ Commits(t)
         /\ Rows \subseteq Rows'
BY DEF Stepped, Ends, LockStep, Moves, MovesOn, Commits, Others, Still, Rows

LEMMA SameRows ==
  ASSUME db' = db
  PROVE  Rows' = Rows /\ \A r : Row(r)' = Row(r)
BY DEF Rows, Row

LEMMA WellNamedStays ==
  ASSUME Base, NEW t \in Txns, Stepped(t)
  PROVE  WellNamed'
<1>1. /\ \A u \in Txns \ {t} : Still(u)
      /\ db' = db \/ Commits(t)
      /\ Rows \subseteq Rows'
  BY SteppedOthers
<1>2. /\ \A r \in Rows : Named(r)
      /\ \A u \in Txns : /\ DOMAIN txn[u].seen \subseteq Rows
                         /\ \A l \in txn[u].held : l[2] # "new" => l[1] \in Rows
  BY DEF Base, WellNamed, Named
<1>3. \A r \in Rows' : Named(r)
  BY <1>1, <1>2, SameRows DEF Commits
<1>4. ASSUME NEW u \in Txns
      PROVE  /\ DOMAIN txn'[u].seen \subseteq Rows'
             /\ \A l \in txn'[u].held : l[2] # "new" => l[1] \in Rows'
  <2>1. CASE u # t
    BY <1>1, <1>2, <2>1, StillFacts
  <2>2. CASE u = t /\ Ends(t)
    BY <2>2 DEF Ends
  <2>3. CASE u = t /\ LockStep(t)
    <3>1. txn'[t].seen = txn[t].seen
      BY <2>3 DEF LockStep, SameCall
    <3>2. \A l : Visible(l) /\ l[2] # "new" => l[1] \in Rows
      BY DEF Visible, Present, Known
    <3>3. \A l \in txn'[t].held : l \in txn[t].held \/ Visible(l)
      BY <2>3 DEF LockStep, Taken, PassedOver
    <3> QED
      BY <1>1, <1>2, <2>3, <3>1, <3>2, <3>3
  <2>4. CASE u = t /\ Moves(t)
    <3>1. /\ txn'[t].held = {} \/ txn'[t].held = txn[t].held
          /\ \/ txn'[t].seen = txn[t].seen
             \/ \E scope \in SUBSET Rows : txn'[t].seen = [r \in scope |-> db[r]]
      BY <2>4 DEF Moves, MovesOn
    <3> QED
      BY <1>1, <1>2, <2>4, <3>1
  <2> QED
    BY <2>1, <2>2, <2>3, <2>4 DEF Stepped, Commits
<1> QED
  BY <1>3, <1>4 DEF WellNamed, Named

LEMMA WellFormedStays ==
  ASSUME Base, NEW t \in Txns, Stepped(t)
  PROVE  WellFormed'
<1>1. db' = db \/ Commits(t)
  BY SteppedOthers
<1>2. \A r : Row(r) # Absent => Columns(r, Row(r))
  BY DEF Base, WellFormed, Row
<1>3. CASE db' = db
  BY <1>2, <1>3, SameRows DEF WellFormed
<1>4. CASE Commits(t)
  <2>1. \A r : Row(r)' # Row(r) /\ Row(r)' # Absent => Columns(r, Row(r)')
    BY <1>4 DEF Commits, Effect, Signs
  <2>2. \A r : Row(r)' # Absent => Columns(r, Row(r)')
    BY <1>2, <2>1
  <2> QED
    BY <2>2 DEF WellFormed, Columns
<1> QED
  BY <1>1, <1>3, <1>4

LEMMA ReachStays ==
  ASSUME Base, NEW t \in Txns, Stepped(t)
  PROVE  Reach'
<1> DEFINE At(u) ==
      \/ txn[u].pc \in {"idle", "ended"} /\ Claims(u) = {} /\ txn[u].seen = <<>>
      \/ txn[u].pc \in FindingSteps /\ ClaimsOn(u, FindingTables)
                                    /\ txn[u].level = "read committed"
      \/ txn[u].pc \in AssetSteps /\ ClaimsOn(u, AssetTables)
                                  /\ txn[u].level = "repeatable read"
      \/ txn[u].pc \in RoleSteps /\ ClaimsOn(u, RoleTables)
                                 /\ txn[u].level = "read committed"
<1>1. \A u \in Txns : At(u)
  BY DEF Base, Reach
<1>2. \A u \in Txns \ {t} : Still(u)
  BY SteppedOthers
<1>3. ASSUME NEW u \in Txns \ {t} PROVE At(u)'
  <2>1. /\ txn'[u].pc = txn[u].pc /\ txn'[u].level = txn[u].level
        /\ txn'[u].seen = txn[u].seen /\ Claims(u)' = Claims(u)
    BY <1>2, StillFacts
  <2> QED
    BY <1>1, <2>1 DEF ClaimsOn
<1>4. At(t)'
  <2>1. CASE Ends(t)
    BY <2>1 DEF Ends
  <2>2. CASE LockStep(t)
    <3>1. /\ txn'[t].pc = txn[t].pc /\ txn'[t].level = txn[t].level
          /\ txn'[t].seen = txn[t].seen
      BY <2>2 DEF LockStep, SameCall
    <3>2. Claims(t)' \subseteq Claims(t)
      BY <2>2 DEF LockStep, Taken, PassedOver
    <3> QED
      BY <1>1, <3>1, <3>2 DEF ClaimsOn
  <2>3. CASE Moves(t)
    <3>1. FindingSteps \cap AssetSteps = {} /\ FindingSteps \cap RoleSteps = {}
          /\ AssetSteps \cap RoleSteps = {}
          /\ {"idle", "ended"} \cap (FindingSteps \cup AssetSteps \cup RoleSteps) = {}
      BY DEF FindingSteps, AssetSteps, RoleSteps
    <3>2. At(t)
      BY <1>1
    <3>3. CASE MovesOn(t, FindingSteps, FindingTables, "read committed")
      BY <3>1, <3>2, <3>3 DEF MovesOn
    <3>4. CASE MovesOn(t, AssetSteps, AssetTables, "repeatable read")
      BY <3>1, <3>2, <3>4 DEF MovesOn
    <3>5. CASE MovesOn(t, RoleSteps, RoleTables, "read committed")
      BY <3>1, <3>2, <3>5 DEF MovesOn
    <3> QED
      BY <2>3, <3>3, <3>4, <3>5 DEF Moves
  <2> QED
    BY <2>1, <2>2, <2>3 DEF Stepped, Commits
<1>5. \A u \in Txns : At(u)'
  BY <1>3, <1>4
<1> QED
  BY <1>5 DEF Reach

LEMMA ExclusiveStays ==
  ASSUME Base, NEW t \in Txns, Stepped(t)
  PROVE  Exclusive'
<1>1. \A u \in Txns \ {t} : txn'[u].held = txn[u].held
  BY SteppedOthers, StillFacts
<1>2. \A m, n : Compatible(m, n) <=> Compatible(n, m)
  BY DEF Compatible
<1>3. ASSUME NEW u \in Txns \ {t}, NEW h \in txn'[u].held, NEW k \in txn'[t].held, h[1] = k[1]
      PROVE  Compatible(h[2], k[2])
  <2>1. h \in txn[u].held
    BY <1>1, <1>3
  <2>2. CASE k \in txn[t].held
    BY <1>3, <2>1, <2>2 DEF Base, Exclusive
  <2>3. CASE k \notin txn[t].held
    <3>1. k \in txn'[t].held /\ txn'[t].held # {} /\ txn'[t].held # txn[t].held
      BY <1>3, <2>3
    <3>2. LockStep(t)
      BY <3>1 DEF Stepped, Commits, Ends, Moves, MovesOn
    <3>3. ~Blocks(u, k)
      BY <2>3, <3>2 DEF LockStep, Taken, PassedOver
    <3> QED
      BY <1>3, <2>1, <3>3 DEF Blocks
  <2> QED
    BY <2>2, <2>3
<1>4. ASSUME NEW u \in Txns, NEW v \in Txns, u # v,
             NEW h \in txn'[u].held, NEW k \in txn'[v].held, h[1] = k[1]
      PROVE  Compatible(h[2], k[2])
  <2>1. CASE u = t
    BY <1>2, <1>3, <1>4, <2>1
  <2>2. CASE v = t
    BY <1>3, <1>4, <2>2
  <2>3. CASE u # t /\ v # t
    BY <1>1, <1>4, <2>3 DEF Base, Exclusive
  <2> QED
    BY <2>1, <2>2, <2>3
<1> QED
  BY <1>4 DEF Exclusive, Compatible

\* What a transaction has locked no other changes, but for the columns that are
\* no key under a share lock.
LEMMA Undisturbed ==
  ASSUME Base, NEW t \in Txns, Commits(t), NEW u \in Txns \ {t}, NEW l \in txn[u].held,
         l[1][1] \in Guarded
  PROVE  /\ Row(l[1])' = Absent <=> Row(l[1]) = Absent
         /\ l[2] # "share" => Row(l[1])' = Row(l[1])
<1>1. CASE Row(l[1])' = Row(l[1])
  BY <1>1
<1>2. CASE Row(l[1])' # Row(l[1])
  <2>1. /\ Holding(t, l[1]) \/ l[1] \in Generated(t)
        /\ Row(l[1])' = Absent => <<l[1], "all">> \in txn[t].held
    BY <1>2 DEF Commits, Effect, KeepsLocks
  <2>2. ASSUME NEW m, <<l[1], m>> \in txn[t].held
        PROVE  Compatible(l[2], m)
    <3>1. <<l[1], m>>[1] = l[1] /\ <<l[1], m>>[2] = m
      OBVIOUS
    <3> QED
      BY <2>2, <3>1 DEF Base, Exclusive
  <2>3. Row(l[1])' # Absent
    BY <2>1, <2>2 DEF Compatible
  <2>4. CASE Holding(t, l[1])
    <3>1. PICK m \in {"nokey", "all", "new"} : <<l[1], m>> \in txn[t].held
      BY <2>4 DEF Holding
    <3>2. l[2] = "share"
      BY <2>2, <3>1 DEF Compatible
    <3>3. Row(l[1]) # Absent
      BY <3>2 DEF Base, HeldThere
    <3> QED
      BY <2>3, <3>2, <3>3
  <2>5. CASE l[1] \in Generated(t)
    <3>1. Row(l[1]) = Absent
      BY <2>5, NotYetThere DEF Base, Commits
    <3>2. l[2] = "new"
      BY <3>1 DEF Base, HeldThere
    <3>3. l[1][1] \in {"asset", "asset_identifier", "asset_custom_field"}
      BY <2>5, Tables, NewNames DEF Generated
    <3>4. \E tables : Proper(l, tables)
      BY DEF Base, Reach, ClaimsOn, Claims
    <3> QED
      BY <3>2, <3>3, <3>4 DEF Proper
  <2> QED
    BY <2>1, <2>4, <2>5
<1> QED
  BY <1>1, <1>2

LEMMA HeldThereStays ==
  ASSUME Base, NEW t \in Txns, Stepped(t)
  PROVE  HeldThere'
<1>1. /\ \A u \in Txns \ {t} : txn'[u].held = txn[u].held
      /\ db' = db \/ Commits(t)
  BY SteppedOthers, StillFacts
<1>2. ASSUME NEW u \in Txns \ {t}, NEW l \in txn'[u].held, l[1][1] \in Guarded
      PROVE  Row(l[1])' = Absent <=> l[2] = "new"
  <2>1. l \in txn[u].held
    BY <1>1, <1>2
  <2>2. Row(l[1]) = Absent <=> l[2] = "new"
    BY <1>2, <2>1 DEF Base, HeldThere
  <2>3. Row(l[1])' = Absent <=> Row(l[1]) = Absent
    BY <1>1, <1>2, <2>1, SameRows, Undisturbed
  <2> QED
    BY <2>2, <2>3
<1>3. ASSUME NEW l \in txn'[t].held, l[1][1] \in Guarded
      PROVE  Row(l[1])' = Absent <=> l[2] = "new"
  <2>1. ~Commits(t) /\ db' = db
    BY <1>1, <1>3 DEF Commits, Ends
  <2>2. Row(l[1])' = Row(l[1])
    BY <2>1, SameRows
  <2>3. CASE l \in txn[t].held
    BY <1>3, <2>2, <2>3 DEF Base, HeldThere
  <2>4. CASE l \notin txn[t].held
    <3>1. LockStep(t)
      BY <1>3, <2>1, <2>4 DEF Stepped, Ends, Moves, MovesOn
    <3>2. Visible(l) /\ ~Refused(l)
      BY <1>3, <2>4, <3>1 DEF LockStep, Taken, PassedOver
    <3>3. Present(l[1]) <=> Row(l[1]) # Absent
      BY DEF Present, Known, Row
    <3> QED
      BY <2>2, <3>2, <3>3 DEF Visible, Refused
  <2> QED
    BY <2>3, <2>4
<1>4. \A u \in Txns : \A l \in txn'[u].held :
        l[1][1] \in Guarded => (Row(l[1])' = Absent <=> l[2] = "new")
  BY <1>2, <1>3
<1> QED
  BY <1>4 DEF HeldThere

LEMMA HeldAsSeenStays ==
  ASSUME Base, NEW t \in Txns, Stepped(t)
  PROVE  HeldAsSeen'
<1> DEFINE Same(u, l) ==
      /\ txn[u].level = "repeatable read"
      /\ l[2] \in {"nokey", "all"}
      /\ l[1][1] \in Snapshots
      /\ Seen(u, l[1]) # Absent
      => Row(l[1]) = Seen(u, l[1])
<1>g. Snapshots \subseteq Guarded
  BY DEF Snapshots, Guarded
<1>1. /\ \A u \in Txns \ {t} : Still(u)
      /\ db' = db \/ Commits(t)
  BY SteppedOthers
<1>2. ASSUME NEW u \in Txns \ {t}, NEW l \in txn'[u].held PROVE Same(u, l)'
  <2>1. l \in txn[u].held /\ txn'[u].level = txn[u].level /\ Seen(u, l[1])' = Seen(u, l[1])
    BY <1>1, <1>2, StillFacts
  <2>2. Same(u, l)
    BY <2>1 DEF Base, HeldAsSeen
  <2>3. l[1][1] \in Snapshots /\ l[2] # "share" => Row(l[1])' = Row(l[1])
    BY <1>1, <1>g, <2>1, SameRows, Undisturbed
  <2> QED
    BY <2>1, <2>2, <2>3
<1>3. ASSUME NEW l \in txn'[t].held PROVE Same(t, l)'
  <2>1. ~Commits(t) /\ db' = db
    BY <1>1, <1>3 DEF Commits, Ends
  <2>2. Row(l[1])' = Row(l[1])
    BY <2>1, SameRows
  <2>3. CASE LockStep(t)
    <3>1. txn'[t].level = txn[t].level /\ Seen(t, l[1])' = Seen(t, l[1])
      BY <2>3 DEF LockStep, SameCall, Seen
    <3>2. CASE l \in txn[t].held
      BY <2>2, <3>1, <3>2 DEF Base, HeldAsSeen
    <3>3. CASE l \notin txn[t].held
      <4>1. Visible(l) /\ ~Outdated(t, l)
        BY <1>3, <2>3, <3>3 DEF LockStep, Taken, PassedOver
      <4>2. l[2] # "new" => Row(l[1]) = db[l[1]]
        BY <4>1 DEF Visible, Present, Known, Row
      <4> QED
        BY <2>2, <3>1, <4>1, <4>2 DEF Outdated, Seen
    <3> QED
      BY <3>2, <3>3
  <2>4. CASE Moves(t)
    <3>1. txn'[t].held = txn[t].held /\ txn'[t].level = txn[t].level
      BY <1>3, <2>4 DEF Moves, MovesOn
    <3>2. CASE MovesOn(t, AssetSteps, AssetTables, "repeatable read")
      <4>1. Seen(t, l[1])' = Seen(t, l[1])
        BY <1>3, <3>2 DEF MovesOn, Seen
      <4> QED
        BY <1>3, <2>2, <3>1, <4>1 DEF Base, HeldAsSeen
    <3>3. CASE ~MovesOn(t, AssetSteps, AssetTables, "repeatable read")
      <4>1. Reach'
        BY ReachStays
      <4>2. txn'[t].pc \in FindingSteps \cup RoleSteps
        BY <2>4, <3>3 DEF Moves, MovesOn
      <4>3. txn'[t].level = "read committed"
        BY <4>1, <4>2 DEF Reach, FindingSteps, AssetSteps, RoleSteps
      <4> QED
        BY <4>3
    <3> QED
      BY <3>2, <3>3
  <2> QED
    BY <1>3, <2>1, <2>3, <2>4 DEF Stepped, Ends
<1>4. \A u \in Txns : \A l \in txn'[u].held : Same(u, l)'
  BY <1>2, <1>3
<1> QED
  BY <1>4 DEF HeldAsSeen

\* What appears in a commit is not of a transaction that has not ended.
LEMMA FreshRow ==
  ASSUME Base, NEW t \in Txns, Commits(t), NEW u \in Txns \ {t}, txn[u].pc # "ended",
         NEW r, Row(r)' # Absent
  PROVE  NotOf(u, r, Row(r)')
<1>1. \A q : Row(q) # Absent => NotOf(u, q, Row(q))
  BY DEF Base, Fresh, Row
<1>e. KeepsLocks(t) /\ Signs(t) /\ Inserts(t)
  BY DEF Commits, Effect
<1>2. CASE Row(r)' = Row(r)
  BY <1>1, <1>2
<1>3. CASE Row(r)' # Row(r)
  <2>1. r[1] \in Snapshots \ {"asset_identifier"} => Row(r)'.stamp = t
    BY <1>3, <1>e DEF Signs
  <2>2. CASE Row(r) # Absent
    <3>1. NotOf(u, r, Row(r))
      BY <1>1, <2>2
    <3> QED
      BY <2>1, <3>1 DEF NotOf
  <2>3. CASE Row(r) = Absent
    <3>1. /\ Custom(r) => {<<Asset(r[2]), "share">>, <<Field(r[3]), "share">>} \subseteq txn[t].held
          /\ r[1] \in {"asset", "asset_identifier", "asset_custom_field"} => r \in Generated(t)
      BY <2>3, <1>e DEF Inserts
    <3>2. CASE Custom(r)
      <4>1. \A q : <<q, "share">> \in txn[t].held /\ q[1] \in Guarded => Row(q) # Absent
        BY DEF Base, HeldThere
      <4>2. Row(Asset(r[2])) # Absent /\ Row(Field(r[3])) # Absent
        BY <3>1, <3>2, <4>1, Tables DEF Guarded, Indexes, AssetTables
      <4>3. r[2] # u /\ r[3] # u
        <5>1. NotOf(u, Asset(r[2]), Row(Asset(r[2]))) /\ NotOf(u, Field(r[3]), Row(Field(r[3])))
          BY <1>1, <4>2
        <5> QED
          BY <5>1, Tables DEF NotOf, Snapshots, Indexes, AssetTables
      <4>4. r \notin {NewIdentifier(u, k) : k \in NewKeys}
        BY <3>2, NewNames DEF Custom, AssignmentTable, ValueTable
      <4> QED
        BY <2>1, <4>3, <4>4 DEF NotOf
    <3>3. CASE r[1] \in {"asset", "asset_custom_field"}
      <4>1. r \in {Asset(t), Field(t)}
        BY <3>1, <3>3, NewNames DEF Generated
      <4>2. r[2] = t /\ ~Custom(r)
        BY <3>3, <4>1, Tables DEF Custom, AssignmentTable, ValueTable
      <4>3. r \notin {NewIdentifier(u, k) : k \in NewKeys}
        BY <3>3, NewNames
      <4> QED
        BY <2>1, <4>2, <4>3 DEF NotOf
    <3>4. CASE r[1] = "asset_identifier"
      <4>1. PICK k \in NewKeys : r = NewIdentifier(t, k)
        BY <3>1, <3>4, Tables DEF Generated
      <4>2. \A j : NewIdentifier(u, j) # r
        BY <4>1 DEF NewIdentifier, Identifier
      <4> QED
        BY <3>4, <4>2 DEF NotOf
    <3>5. CASE ~Custom(r) /\ r[1] \notin {"asset", "asset_custom_field", "asset_identifier"}
      <4>1. r[1] \notin Snapshots
        BY <3>5 DEF Custom, Snapshots, Indexes, AssetTables
      <4>2. r \notin {NewIdentifier(u, k) : k \in NewKeys}
        BY <3>5, NewNames
      <4> QED
        BY <4>1, <4>2 DEF NotOf
    <3> QED
      BY <3>2, <3>3, <3>4, <3>5
  <2> QED
    BY <2>2, <2>3
<1> QED
  BY <1>2, <1>3

LEMMA FreshStays ==
  ASSUME Base, NEW t \in Txns, Stepped(t)
  PROVE  Fresh'
<1>1. /\ \A u \in Txns \ {t} : Still(u)
      /\ db' = db \/ Commits(t)
      /\ Rows \subseteq Rows'
  BY SteppedOthers
<1>2. ASSUME NEW u \in Txns, txn'[u].pc # "ended"
      PROVE  /\ \A r : Row(r)' # Absent => NotOf(u, r, Row(r)')
             /\ \A v \in Txns : \A r \in DOMAIN txn'[v].seen :
                  Seen(v, r)' # Absent => NotOf(u, r, Seen(v, r)')
  <2>0. ~(u = t /\ Commits(t))
    BY <1>2 DEF Commits, Ends
  <2>1. txn[u].pc # "ended"
    <3>1. CASE u # t
      BY <1>1, <1>2, <3>1, StillFacts
    <3>2. CASE u = t /\ LockStep(t)
      BY <1>2, <3>2 DEF LockStep, SameCall
    <3>3. CASE u = t /\ Moves(t)
      BY <3>3 DEF Moves, MovesOn, FindingSteps, AssetSteps, RoleSteps
    <3> QED
      BY <1>2, <2>0, <3>1, <3>2, <3>3 DEF Stepped, Ends
  <2>2. /\ \A r : Row(r) # Absent => NotOf(u, r, Row(r))
        /\ \A v \in Txns : \A r : Seen(v, r) # Absent => NotOf(u, r, Seen(v, r))
    BY <2>1 DEF Base, Fresh, Row, Seen
  <2>3. \A r : Row(r)' # Absent => NotOf(u, r, Row(r)')
    <3>1. CASE db' = db
      BY <2>2, <3>1, SameRows
    <3>2. CASE Commits(t)
      BY <2>0, <2>1, <3>2, FreshRow
    <3> QED
      BY <1>1, <3>1, <3>2
  <2>4. ASSUME NEW v \in Txns, NEW r \in DOMAIN txn'[v].seen, Seen(v, r)' # Absent
        PROVE  NotOf(u, r, Seen(v, r)')
    <3>1. CASE txn'[v].seen = txn[v].seen
      <4>1. Seen(v, r)' = Seen(v, r)
        BY <3>1 DEF Seen
      <4> QED
        BY <2>2, <2>4, <4>1
    <3>2. CASE txn'[v].seen # txn[v].seen
      <4>1. v = t /\ Moves(t)
        <5>1. v = t
          BY <1>1, <3>2, StillFacts
        <5> QED
          BY <2>4, <3>2, <5>1 DEF Stepped, Commits, Ends, LockStep, SameCall
      <4>2. /\ \E scope \in SUBSET Rows : txn'[t].seen = [q \in scope |-> db[q]]
            /\ db' = db
        BY <3>2, <4>1 DEF Moves, MovesOn
      <4>3. Seen(v, r)' = Row(r)'
        <5>1. Row(r)' = Row(r)
          BY <4>2, SameRows
        <5> QED
          BY <2>4, <4>1, <4>2, <5>1 DEF Seen, Row
      <4> QED
        BY <2>3, <2>4, <4>3
    <3> QED
      BY <3>1, <3>2
  <2> QED
    BY <2>3, <2>4
<1> QED
  BY <1>2 DEF Fresh, NotOf

LEMMA BaseStays ==
  ASSUME Base, NEW t \in Txns, Stepped(t)
  PROVE  Base'
<1>1. Shape'
  BY SteppedOthers
<1> QED
  BY <1>1, WellNamedStays, WellFormedStays, FreshStays, ReachStays, ExclusiveStays,
     HeldThereStays, HeldAsSeenStays
  DEF Base

\* Locks of two transactions that exclude one another.
LEMMA Conflict ==
  ASSUME Exclusive, NEW t \in Txns, NEW u \in Txns \ {t}, NEW r, NEW m, NEW n,
         <<r, m>> \in txn[t].held, <<r, n>> \in txn[u].held
  PROVE  Compatible(m, n)
<1>1. <<r, m>>[1] = <<r, n>>[1] /\ <<r, m>>[2] = m /\ <<r, n>>[2] = n
  OBVIOUS
<1> QED
  BY <1>1 DEF Exclusive

LEMMA DeletionPlanStays ==
  ASSUME Base, Plans, NEW t \in Txns, Stepped(t), NEW u \in Txns \ {t}
  PROVE  DeletionPlan(u)'
<1>0. SUFFICES ASSUME txn'[u].pc \in {"deleteAsset", "erase asset"}
               PROVE  DeletionPlan(u)'
  BY DEF DeletionPlan
<1>1. PICK a : a = txn[u].call.asset
  OBVIOUS
<1>2. /\ txn'[u].pc = txn[u].pc /\ txn'[u].call = txn[u].call
      /\ txn'[u].level = txn[u].level /\ txn'[u].held = txn[u].held
      /\ txn'[u].seen = txn[u].seen
      /\ Claims(u)' = Claims(u)
      /\ \A r : Seen(u, r)' = Seen(u, r)
  BY SteppedOthers, StillFacts
<1>3. /\ Snapped(u)
      /\ <<Asset(a), "all">> \in Claims(u)
      /\ txn[u].pc = "erase asset" =>
           /\ <<Asset(a), "all">> \in txn[u].held
           /\ \A r \in Rows : Row(r) # Absent /\ Owned(a, r, Row(r)) => <<r, "all">> \in Claims(u)
      /\ \A l \in Claims(u) : l[2] = "all" =>
           \/ l[1] = Asset(a)
           \/ Custom(l[1]) /\ l[1][2] = a
           \/ /\ l[1][1] = "asset_identifier"
              /\ Seen(u, l[1]) # Absent
              /\ Row(l[1]) = Absent \/ Owned(a, l[1], Row(l[1]))
  BY <1>0, <1>1, <1>2 DEF Plans, Plan, DeletionPlan
<1>4. Snapped(u)' /\ Seen(u, Asset(a)) # Absent
  BY <1>1, <1>2, <1>3 DEF Snapped
<1>5. CASE db' = db
  <2>1. Rows' = Rows /\ \A r : Row(r)' = Row(r)
    BY <1>5, SameRows
  <2> QED
    BY <1>1, <1>2, <1>3, <1>4, <2>1, ZenonT(60) DEF DeletionPlan, Owned
<1>6. CASE Commits(t)
  <2>e. Signs(t) /\ Inserts(t) /\ txn[t].pc # "ended"
    BY <1>6 DEF Commits, Effect
  <2>1. \A r : r[1] = "asset_identifier" /\ Row(r) # Absent /\ Row(r)' # Absent
                 => Row(r)'.asset = Row(r).asset
    BY <2>e DEF Signs
  <2>2. \A r : Seen(u, r) # Absent => NotOf(t, r, Seen(u, r))
    BY <2>e DEF Base, Fresh, Seen
  <2>3. a # t
    <3>1. NotOf(t, Asset(a), Seen(u, Asset(a)))
      BY <1>4, <2>2
    <3> QED
      BY <3>1, Tables DEF NotOf, Snapshots, Indexes, AssetTables
  <2>4. ASSUME txn[u].pc = "erase asset", NEW r, Row(r) = Absent, Row(r)' # Absent
        PROVE  ~Owned(a, r, Row(r)')
    <3>1. <<Asset(a), "share">> \notin txn[t].held
      BY <1>3, <2>4, Conflict DEF Base, Compatible
    <3>2. /\ Custom(r) => <<Asset(r[2]), "share">> \in txn[t].held
          /\ r[1] = "asset_identifier" => \/ Row(r)'.asset = t
                                          \/ <<Asset(Row(r)'.asset), "share">> \in txn[t].held
      BY <2>e, <2>4 DEF Inserts
    <3> QED
      BY <2>3, <3>1, <3>2 DEF Owned
  <2>5. \A r : Row(r) # Absent /\ Row(r)' # Absent /\ Owned(a, r, Row(r)') => Owned(a, r, Row(r))
    BY <2>1 DEF Owned
  <2>6. \A r : Row(r) # Absent /\ Row(r)' # Absent /\ Owned(a, r, Row(r)) => Owned(a, r, Row(r)')
    BY <2>1 DEF Owned
  <2>7. txn[u].pc = "erase asset" =>
          \A r : Row(r)' # Absent /\ Owned(a, r, Row(r)') => <<r, "all">> \in Claims(u)
    <3>1. \A r : Row(r) # Absent => r \in Rows
      BY DEF Row
    <3> QED
      BY <1>3, <2>4, <2>5, <3>1
  <2>8. \A r : r[1] = "asset_identifier" /\ Row(r) = Absent /\ Row(r)' # Absent
                 => Seen(u, r) = Absent
    <3>1. ASSUME NEW r, r[1] = "asset_identifier", Row(r) = Absent, Row(r)' # Absent,
                 Seen(u, r) # Absent
          PROVE  FALSE
      <4>1. r \in Generated(t)
        BY <2>e, <3>1 DEF Inserts
      <4>2. r \in {NewIdentifier(t, k) : k \in NewKeys}
        BY <3>1, <4>1, Tables DEF Generated
      <4>3. NotOf(t, r, Seen(u, r))
        BY <2>2, <3>1
      <4> QED
        BY <4>2, <4>3 DEF NotOf
    <3> QED
      BY <3>1
  <2>9. \A l \in Claims(u) : l[2] = "all" =>
           \/ l[1] = Asset(a)
           \/ Custom(l[1]) /\ l[1][2] = a
           \/ /\ l[1][1] = "asset_identifier"
              /\ Seen(u, l[1]) # Absent
              /\ Row(l[1])' = Absent \/ Owned(a, l[1], Row(l[1])')
    BY <1>3, <2>6, <2>8
  <2> QED
    BY <1>1, <1>2, <1>3, <1>4, <2>7, <2>9, ZenonT(60) DEF DeletionPlan, Owned
<1> QED
  BY <1>5, <1>6, SteppedOthers

LEMMA SweepPlanStays ==
  ASSUME Base, Plans, NEW t \in Txns, Stepped(t), NEW u \in Txns \ {t}
  PROVE  SweepPlan(u)'
<1>0. SUFFICES ASSUME txn'[u].pc \in {"deleteDefinition", "erase definition"}
               PROVE  SweepPlan(u)'
  BY DEF SweepPlan
<1>1. PICK d : d = txn[u].call.field
  OBVIOUS
<1>2. /\ txn'[u].pc = txn[u].pc /\ txn'[u].call = txn[u].call
      /\ txn'[u].level = txn[u].level /\ txn'[u].held = txn[u].held
      /\ txn'[u].seen = txn[u].seen
      /\ Claims(u)' = Claims(u)
      /\ \A r : Seen(u, r)' = Seen(u, r)
  BY SteppedOthers, StillFacts
<1>3. /\ txn[u].level = "repeatable read"
      /\ Seen(u, Field(d)) # Absent
      /\ <<Field(d), "all">> \in Claims(u)
      /\ txn[u].pc = "erase definition" =>
            /\ <<Field(d), "all">> \in txn[u].held
            /\ \A r \in Rows : Row(r) # Absent /\ Custom(r) /\ r[3] = d => <<r, "all">> \in Claims(u)
      /\ \A l \in Claims(u) : l[2] = "all" =>
            \/ l[1] = Field(d) \/ (Custom(l[1]) /\ l[1][3] = d)
            \/ l[1][1] = "asset_custom_field_key"
  BY <1>0, <1>1, <1>2 DEF Plans, Plan, SweepPlan
<1>4. txn[u].pc = "erase definition" =>
        \A r : Row(r)' # Absent /\ Custom(r) /\ r[3] = d => <<r, "all">> \in Claims(u)
  <2>1. ASSUME txn[u].pc = "erase definition", NEW r, Row(r)' # Absent, Custom(r), r[3] = d
        PROVE  Row(r) # Absent
    <3>1. CASE db' = db
      BY <2>1, <3>1, SameRows
    <3>2. CASE Commits(t)
      <4>1. <<Field(d), "share">> \notin txn[t].held
        BY <1>3, <2>1, Conflict DEF Base, Compatible
      <4>2. Row(r) = Absent => <<Field(r[3]), "share">> \in txn[t].held
        BY <2>1, <3>2 DEF Commits, Effect, Inserts
      <4> QED
        BY <2>1, <4>1, <4>2
    <3> QED
      BY <3>1, <3>2, SteppedOthers
  <2>2. \A r : Row(r) # Absent => r \in Rows
    BY DEF Row
  <2> QED
    BY <1>3, <2>1, <2>2
<1> QED
  BY <1>1, <1>2, <1>3, <1>4 DEF SweepPlan

LEMMA OwnersStay ==
  ASSUME Base, NEW t \in Txns, Stepped(t), NEW u \in Txns \ {t}, NEW x
  PROVE  /\ /\ Holding(u, Role(x)) /\ AllClaimed(u, PermissionTable, x)
            => /\ Holding(u, Role(x))' /\ AllClaimed(u, PermissionTable, x)'
         /\ /\ Holding(u, User(x)) /\ AllClaimed(u, HoldsTable, x)
            => /\ Holding(u, User(x))' /\ AllClaimed(u, HoldsTable, x)'
<1>1. Claims(u)' = Claims(u) /\ \A r : Holding(u, r)' <=> Holding(u, r)
  BY SteppedOthers, StillFacts
<1>2. \A r : ~(Holding(t, r) /\ Holding(u, r))
  <2>1. ASSUME NEW r, Holding(t, r), Holding(u, r) PROVE FALSE
    <3>1. PICK m \in {"nokey", "all", "new"} : <<r, m>> \in txn[t].held
      BY <2>1 DEF Holding
    <3>2. PICK n \in {"nokey", "all", "new"} : <<r, n>> \in txn[u].held
      BY <2>1 DEF Holding
    <3> QED
      BY <3>1, <3>2, Conflict DEF Base, Compatible
  <2> QED
    BY <2>1
<1>3. ASSUME NEW r, Row(r) = Absent, Row(r)' # Absent
      PROVE  /\ r[1] = PermissionTable => ~Holding(u, Role(r[2]))
             /\ r[1] = HoldsTable => ~Holding(u, User(r[2]))
  <2>1. Commits(t)
    BY <1>3, SteppedOthers, SameRows
  <2> QED
    BY <1>2, <1>3, <2>1 DEF Commits, Owners
<1>4. \A r : Row(r) # Absent => r \in Rows
  BY DEF Row
<1>5. ASSUME Holding(u, Role(x)), AllClaimed(u, PermissionTable, x)
      PROVE  AllClaimed(u, PermissionTable, x)'
  BY <1>1, <1>3, <1>4, <1>5 DEF AllClaimed
<1>6. ASSUME Holding(u, User(x)), AllClaimed(u, HoldsTable, x)
      PROVE  AllClaimed(u, HoldsTable, x)'
  BY <1>1, <1>3, <1>4, <1>6 DEF AllClaimed
<1> QED
  BY <1>1, <1>5, <1>6

LEMMA PlansOfOthers ==
  ASSUME Base, Plans, NEW t \in Txns, Stepped(t), NEW u \in Txns \ {t}
  PROVE  Plan(u)'
<1>1. Still(u)
  BY SteppedOthers
<1>2. /\ EditPlan(u)' /\ CreationPlan(u)' /\ InventoryPlan(u)' /\ DefinitionPlan(u)'
      /\ AssignmentsPlan(u)' /\ ValuesPlan(u)'
  BY <1>1, PlanStays DEF Plans
<1>3. /\ txn'[u].pc = txn[u].pc /\ txn'[u].call = txn[u].call
      /\ Claims(u)' = Claims(u)
  BY <1>1, StillFacts
<1>4. RolePlan(u)'
  <2>1. RolePlan(u)
    BY DEF Plans, Plan
  <2>2. \A x : Holding(u, Role(x)) /\ AllClaimed(u, PermissionTable, x)
                => Holding(u, Role(x))' /\ AllClaimed(u, PermissionTable, x)'
    BY OwnersStay
  <2>r. PICK role : role = RoleOf(u, txn[u].call)
    OBVIOUS
  <2>3. txn[u].pc \in {"replace permissions", "write role", "cascade role", "erase role"} =>
          /\ txn[u].pc # "write role" => role = txn[u].call.role
          /\ txn[u].pc = "write role" =>
               \/ <<Role(role), "new">> \in Claims(u)
               \/ Holding(u, Role(role))' /\ AllClaimed(u, PermissionTable, role)'
          /\ txn[u].pc = "erase role" =>
               Holding(u, Role(role))' /\ AllClaimed(u, PermissionTable, role)'
          /\ \A l \in Claims(u) : l[2] = "all" =>
               \/ l[1] = Role(role)
               \/ l[1][1] = PermissionTable /\ l[1][2] = role
               \/ l[1][1] \in {"role_name", "user_session"}
               \/ l[1][1] = HoldsTable /\ txn[u].pc = "erase role"
    BY <2>1, <2>2, <2>r DEF RolePlan
  <2> QED
    BY <1>3, <2>3, <2>r DEF RolePlan, Holding, AllClaimed
<1>5. UserPlan(u)'
  <2>1. UserPlan(u)
    BY DEF Plans, Plan
  <2>2. \A x : Holding(u, User(x)) /\ AllClaimed(u, HoldsTable, x)
                => Holding(u, User(x))' /\ AllClaimed(u, HoldsTable, x)'
    BY OwnersStay
  <2>r. PICK user : user = UserOf(u, txn[u].call)
    OBVIOUS
  <2>3. txn[u].pc \in {"replace roles", "write user"} =>
          /\ txn[u].pc = "replace roles" => user = txn[u].call.user
          /\ txn[u].pc = "write user" =>
               \/ <<User(user), "new">> \in Claims(u)
               \/ Holding(u, User(user))' /\ AllClaimed(u, HoldsTable, user)'
          /\ \A l \in Claims(u) : l[2] = "all" =>
               \/ l[1] = User(user) \/ (l[1][1] = HoldsTable /\ l[1][2] = user)
               \/ l[1][1] \in {"user_profile_email", "user_session"}
    BY <2>1, <2>2, <2>r DEF UserPlan
  <2> QED
    BY <1>3, <2>3, <2>r DEF UserPlan, Holding, AllClaimed
<1> QED
  BY <1>2, <1>4, <1>5, DeletionPlanStays, SweepPlanStays DEF Plan

-----------------------------------------------------------------------------
\* A lock that is taken or passed over leaves the plan as it is.

LEMMA KeptClaims ==
  ASSUME Base, NEW t \in Txns, LockStep(t)
  PROVE  /\ txn'[t].pc = txn[t].pc /\ txn'[t].call = txn[t].call
         /\ txn'[t].level = txn[t].level /\ txn'[t].seen = txn[t].seen
         /\ \A r : Seen(t, r)' = Seen(t, r)
         /\ Rows' = Rows /\ \A r : Row(r)' = Row(r)
         /\ Claims(t)' \subseteq Claims(t) /\ txn[t].held \subseteq txn'[t].held
         /\ \A r, m : /\ <<r, m>> \in Claims(t)
                      /\ \/ m \in {"new", "share"} \/ Row(r) # Absent
                         \/ /\ txn[t].level = "repeatable read" /\ Seen(t, r) # Absent
                            /\ m \in {"nokey", "all"}
                      => <<r, m>> \in Claims(t)'
<1>1. /\ txn'[t].pc = txn[t].pc /\ txn'[t].call = txn[t].call
      /\ txn'[t].level = txn[t].level /\ txn'[t].seen = txn[t].seen
      /\ \A r : Seen(t, r)' = Seen(t, r)
  BY DEF LockStep, SameCall, Seen
<1>2. Rows' = Rows /\ \A r : Row(r)' = Row(r)
  BY SameRows DEF LockStep
<1>3. Claims(t)' \subseteq Claims(t) /\ txn[t].held \subseteq txn'[t].held
  BY DEF LockStep, Taken, PassedOver
<1>4. ASSUME NEW r, NEW m, <<r, m>> \in Claims(t),
             \/ m \in {"new", "share"} \/ Row(r) # Absent
             \/ /\ txn[t].level = "repeatable read" /\ Seen(t, r) # Absent
                /\ m \in {"nokey", "all"}
      PROVE  <<r, m>> \in Claims(t)'
  <2>1. CASE Taken(t)
    BY <1>4, <2>1 DEF Taken
  <2>2. CASE PassedOver(t)
    <3>1. PICK l \in Left(t) : /\ ~Visible(l) /\ ~Outdated(t, l) /\ ~Refused(l)
                               /\ Claims(t) \subseteq Claims(t)' \cup {l}
      BY <2>2 DEF PassedOver
    <3>2. SUFFICES ASSUME l = <<r, m>> PROVE FALSE
      BY <1>4, <3>1
    <3>3. l[1] = r /\ l[2] = m
      BY <3>2
    <3>4. ~Present(r) /\ m # "new" /\ m # "share"
      BY <3>1, <3>3 DEF Visible, Refused
    <3>5. Row(r) = Absent
      BY <3>4 DEF Present, Known, Row
    <3>6. /\ txn[t].level = "repeatable read" /\ Seen(t, r) # Absent
          /\ m \in {"nokey", "all"}
      BY <1>4, <3>4, <3>5
    <3>7. r \in DOMAIN txn[t].seen /\ txn[t].seen[r] # Absent
      BY <3>6 DEF Seen
    <3>8. r \in Rows
      BY <3>7 DEF Base, WellNamed
    <3>9. db[r] = txn[t].seen[r]
      BY <3>1, <3>3, <3>6, <3>7 DEF Outdated
    <3> QED
      BY <3>5, <3>7, <3>8, <3>9 DEF Row
  <2> QED
    BY <2>1, <2>2 DEF LockStep
<1> QED
  BY <1>1, <1>2, <1>3, <1>4

LEMMA LockKeepsPlan ==
  ASSUME Base, NEW t \in Txns, Plan(t), LockStep(t)
  PROVE  Plan(t)'
<1>1. /\ txn'[t].pc = txn[t].pc /\ txn'[t].call = txn[t].call
      /\ txn'[t].level = txn[t].level /\ txn'[t].seen = txn[t].seen
      /\ \A r : Seen(t, r)' = Seen(t, r)
      /\ Rows' = Rows /\ \A r : Row(r)' = Row(r)
      /\ Claims(t)' \subseteq Claims(t) /\ txn[t].held \subseteq txn'[t].held
  BY KeptClaims
<1>2. /\ \A r : <<r, "new">> \in Claims(t) => <<r, "new">> \in Claims(t)'
      /\ \A r : <<r, "share">> \in Claims(t) => <<r, "share">> \in Claims(t)'
      /\ \A r : <<r, "all">> \in Claims(t) /\ Row(r) # Absent => <<r, "all">> \in Claims(t)'
  BY KeptClaims
<1>3. txn[t].level = "repeatable read" =>
        \A r : Seen(t, r) # Absent =>
          /\ <<r, "nokey">> \in Claims(t) => <<r, "nokey">> \in Claims(t)'
          /\ <<r, "all">> \in Claims(t) => <<r, "all">> \in Claims(t)'
  BY KeptClaims
<1>s. /\ Snapped(t)' <=> Snapped(t)
      /\ \A x, d : SawField(t, x, d)' <=> SawField(t, x, d)
      /\ \A r : Holding(t, r) => Holding(t, r)'
  BY <1>1 DEF Snapped, SawField, Holding
<1>a. Snapped(t) => txn[t].level = "repeatable read" /\ Seen(t, Asset(txn[t].call.asset)) # Absent
  BY DEF Snapped
<1>4. EditPlan(t)' /\ CreationPlan(t)'
  BY <1>1 DEF Plan, EditPlan, CreationPlan
<1>5. InventoryPlan(t)'
  <2>0. SUFFICES ASSUME txn[t].pc \in InventoryOps
                 PROVE  InventoryPlan(t)'
    BY <1>1 DEF InventoryPlan
  <2>1. PICK c : c = txn[t].call
    OBVIOUS
  <2>2. PICK i : i = Identifier(c.identifier)
    OBVIOUS
  <2>3. /\ Snapped(t)
        /\ c.op = txn[t].pc
        /\ <<Asset(c.asset), "nokey">> \in Claims(t)
        /\ c.op = "addIdentifier" => <<Asset(c.asset), "share">> \in Claims(t)
        /\ c.op \in {"updateIdentifier", "deleteIdentifier"} =>
             /\ Owned(c.asset, i, Seen(t, i))
             /\ <<i, IF c.op = "deleteIdentifier" THEN "all" ELSE "nokey">> \in Claims(t)
    BY <2>0, <2>1, <2>2 DEF Plan, InventoryPlan
  <2>4. Owned(c.asset, i, Seen(t, i)) => Seen(t, i) # Absent
    BY <2>2, Tables DEF Owned, Custom, AssignmentTable, ValueTable
  <2>5. /\ <<Asset(c.asset), "nokey">> \in Claims(t)'
        /\ c.op = "addIdentifier" => <<Asset(c.asset), "share">> \in Claims(t)'
        /\ c.op \in {"updateIdentifier", "deleteIdentifier"} =>
             /\ Owned(c.asset, i, Seen(t, i)')
             /\ <<i, IF c.op = "deleteIdentifier" THEN "all" ELSE "nokey">> \in Claims(t)'
    BY <1>1, <1>2, <1>3, <1>a, <2>1, <2>3, <2>4
  <2> QED
    BY <1>1, <1>s, <2>1, <2>2, <2>3, <2>5 DEF InventoryPlan, Owned
<1>6. DeletionPlan(t)'
  <2>0. SUFFICES ASSUME txn[t].pc \in {"deleteAsset", "erase asset"}
                 PROVE  DeletionPlan(t)'
    BY <1>1 DEF DeletionPlan
  <2>1. PICK a : a = txn[t].call.asset
    OBVIOUS
  <2>2. /\ Snapped(t)
        /\ <<Asset(a), "all">> \in Claims(t)
        /\ txn[t].pc = "erase asset" =>
             /\ <<Asset(a), "all">> \in txn[t].held
             /\ \A r \in Rows : Row(r) # Absent /\ Owned(a, r, Row(r)) => <<r, "all">> \in Claims(t)
        /\ \A l \in Claims(t) : l[2] = "all" =>
             \/ l[1] = Asset(a)
             \/ Custom(l[1]) /\ l[1][2] = a
             \/ /\ l[1][1] = "asset_identifier"
                /\ Seen(t, l[1]) # Absent
                /\ Row(l[1]) = Absent \/ Owned(a, l[1], Row(l[1]))
    BY <2>0, <2>1 DEF Plan, DeletionPlan
  <2>3. /\ <<Asset(a), "all">> \in Claims(t)'
        /\ txn[t].pc = "erase asset" =>
             /\ <<Asset(a), "all">> \in txn'[t].held
             /\ \A r \in Rows : Row(r) # Absent /\ Owned(a, r, Row(r)) => <<r, "all">> \in Claims(t)'
        /\ \A l \in Claims(t)' : l[2] = "all" =>
             \/ l[1] = Asset(a)
             \/ Custom(l[1]) /\ l[1][2] = a
             \/ /\ l[1][1] = "asset_identifier"
                /\ Seen(t, l[1]) # Absent
                /\ Row(l[1]) = Absent \/ Owned(a, l[1], Row(l[1]))
    BY <1>1, <1>2, <1>3, <1>a, <2>1, <2>2
  <2> QED
    BY <1>1, <1>s, <2>1, <2>2, <2>3 DEF DeletionPlan, Owned
<1>7. DefinitionPlan(t)'
  <2>0. SUFFICES ASSUME txn[t].pc = "write definition"
                 PROVE  DefinitionPlan(t)'
    BY <1>1 DEF DefinitionPlan
  <2>1. PICK c : c = txn[t].call
    OBVIOUS
  <2>2. IF c.op = "createDefinition"
        THEN \A l \in Claims(t)' : l[1][1] = "asset_custom_field_key"
        ELSE /\ \A l \in Claims(t)' :
                  l[2] = "all" => l[1] = Field(c.field) \/ l[1][1] = "asset_custom_field_key"
             /\ txn[t].level = "repeatable read"
             /\ Seen(t, Field(c.field)) # Absent
             /\ <<Field(c.field), "nokey">> \in Claims(t)' \/ <<Field(c.field), "all">> \in Claims(t)'
    BY <1>1, <1>3, <2>0, <2>1 DEF Plan, DefinitionPlan
  <2> QED
    BY <1>1, <2>1, <2>2 DEF DefinitionPlan
<1>8. SweepPlan(t)'
  <2>0. SUFFICES ASSUME txn[t].pc \in {"deleteDefinition", "erase definition"}
                 PROVE  SweepPlan(t)'
    BY <1>1 DEF SweepPlan
  <2>1. PICK d : d = txn[t].call.field
    OBVIOUS
  <2>2. /\ txn[t].level = "repeatable read"
        /\ Seen(t, Field(d)) # Absent
        /\ <<Field(d), "all">> \in Claims(t)'
        /\ txn[t].pc = "erase definition" =>
             /\ <<Field(d), "all">> \in txn'[t].held
             /\ \A r \in Rows : Row(r) # Absent /\ Custom(r) /\ r[3] = d => <<r, "all">> \in Claims(t)'
        /\ \A l \in Claims(t)' : l[2] = "all" =>
             \/ l[1] = Field(d) \/ (Custom(l[1]) /\ l[1][3] = d)
             \/ l[1][1] = "asset_custom_field_key"
    BY <1>1, <1>2, <1>3, <2>0, <2>1 DEF Plan, SweepPlan
  <2> QED
    BY <1>1, <2>1, <2>2 DEF SweepPlan
<1>9. AssignmentsPlan(t)'
  <2>0. SUFFICES ASSUME txn[t].pc = "replaceAssignments"
                 PROVE  AssignmentsPlan(t)'
    BY <1>1 DEF AssignmentsPlan
  <2>1. PICK c : c = txn[t].call
    OBVIOUS
  <2>2. PICK a : a = c.asset
    OBVIOUS
  <2>3. /\ Snapped(t)
        /\ \A r \in DOMAIN txn[t].seen : Seen(t, r) # Absent /\ Custom(r) /\ r[2] = a =>
             <<r, "all">> \in Claims(t) \/ (r[1] = ValueTable /\ r[3] \in c.fields)
        /\ \A d \in c.fields :
             /\ SawField(t, AssignmentTable, d) \/ <<Assigned(a, d), "new">> \in Claims(t)
             /\ <<Field(d), "share">> \in Claims(t)
             /\ <<Asset(a), "share">> \in Claims(t)
        /\ \/ <<Asset(a), "nokey">> \in Claims(t)
           \/ /\ \A d \in c.fields : SawField(t, AssignmentTable, d)
              /\ \A r \in DOMAIN txn[t].seen :
                   Seen(t, r) # Absent /\ r[1] = AssignmentTable /\ r[2] = a => r[3] \in c.fields
        /\ \A l \in Claims(t) : l[2] = "all" =>
             /\ Seen(t, l[1]) # Absent /\ Custom(l[1]) /\ l[1][2] = a
             /\ l[1][1] = ValueTable => l[1][3] \notin c.fields
    BY <2>0, <2>1, <2>2 DEF Plan, AssignmentsPlan
  <2>4. /\ \A r \in DOMAIN txn[t].seen : Seen(t, r) # Absent /\ Custom(r) /\ r[2] = a =>
             <<r, "all">> \in Claims(t)' \/ (r[1] = ValueTable /\ r[3] \in c.fields)
        /\ \A d \in c.fields :
             /\ SawField(t, AssignmentTable, d) \/ <<Assigned(a, d), "new">> \in Claims(t)'
             /\ <<Field(d), "share">> \in Claims(t)'
             /\ <<Asset(a), "share">> \in Claims(t)'
        /\ \/ <<Asset(a), "nokey">> \in Claims(t)'
           \/ /\ \A d \in c.fields : SawField(t, AssignmentTable, d)
              /\ \A r \in DOMAIN txn[t].seen :
                   Seen(t, r) # Absent /\ r[1] = AssignmentTable /\ r[2] = a => r[3] \in c.fields
        /\ \A l \in Claims(t)' : l[2] = "all" =>
             /\ Seen(t, l[1]) # Absent /\ Custom(l[1]) /\ l[1][2] = a
             /\ l[1][1] = ValueTable => l[1][3] \notin c.fields
    <3>1. txn[t].level = "repeatable read" /\ Seen(t, Asset(a)) # Absent
      BY <1>a, <2>1, <2>2, <2>3
    <3>2. \A r \in DOMAIN txn[t].seen : Seen(t, r) # Absent /\ Custom(r) /\ r[2] = a =>
             <<r, "all">> \in Claims(t)' \/ (r[1] = ValueTable /\ r[3] \in c.fields)
      BY <1>3, <2>3, <3>1
    <3>3. \A d \in c.fields :
            /\ SawField(t, AssignmentTable, d) \/ <<Assigned(a, d), "new">> \in Claims(t)'
            /\ <<Field(d), "share">> \in Claims(t)'
            /\ <<Asset(a), "share">> \in Claims(t)'
      BY <1>2, <1>3, <2>3, <3>1
    <3>4. <<Asset(a), "nokey">> \in Claims(t) => <<Asset(a), "nokey">> \in Claims(t)'
      BY <1>3, <3>1
    <3> QED
      BY <1>1, <2>3, <3>2, <3>3, <3>4
  <2> QED
    BY <1>1, <1>s, <2>1, <2>2, <2>3, <2>4 DEF AssignmentsPlan
<1>10. ValuesPlan(t)'
  <2>0. SUFFICES ASSUME txn[t].pc = "replaceValues"
                 PROVE  ValuesPlan(t)'
    BY <1>1 DEF ValuesPlan
  <2>1. PICK c : c = txn[t].call
    OBVIOUS
  <2>2. PICK a : a = c.asset
    OBVIOUS
  <2>3. /\ Snapped(t)
        /\ \A d \in Stored(c) : SawField(t, AssignmentTable, d)
        /\ \A r \in DOMAIN txn[t].seen : Seen(t, r) # Absent /\ r[1] = ValueTable /\ r[2] = a =>
             <<r, "all">> \in Claims(t)
        /\ \A d \in Stored(c) :
             /\ SawField(t, ValueTable, d) \/ <<Value(a, d), "new">> \in Claims(t)
             /\ <<Field(d), "share">> \in Claims(t)
             /\ <<Asset(a), "share">> \in Claims(t)
        /\ \/ <<Asset(a), "nokey">> \in Claims(t)
           \/ /\ \A d \in Stored(c) : /\ SawField(t, ValueTable, d)
                                      /\ Seen(t, Value(a, d)).data = c.values[d]
              /\ \A r \in DOMAIN txn[t].seen :
                   Seen(t, r) # Absent /\ r[1] = ValueTable /\ r[2] = a => r[3] \in Stored(c)
        /\ \A l \in Claims(t) : l[2] = "all" =>
             Seen(t, l[1]) # Absent /\ l[1][1] = ValueTable /\ l[1][2] = a
    BY <2>0, <2>1, <2>2 DEF Plan, ValuesPlan
  <2>4. txn[t].level = "repeatable read" /\ Seen(t, Asset(a)) # Absent
    BY <1>a, <2>1, <2>2, <2>3
  <2>5. /\ \A r \in DOMAIN txn[t].seen : Seen(t, r) # Absent /\ r[1] = ValueTable /\ r[2] = a =>
             <<r, "all">> \in Claims(t)'
        /\ \A d \in Stored(c) :
             /\ SawField(t, ValueTable, d) \/ <<Value(a, d), "new">> \in Claims(t)'
             /\ <<Field(d), "share">> \in Claims(t)'
             /\ <<Asset(a), "share">> \in Claims(t)'
        /\ <<Asset(a), "nokey">> \in Claims(t) => <<Asset(a), "nokey">> \in Claims(t)'
        /\ \A l \in Claims(t)' : l[2] = "all" =>
             Seen(t, l[1]) # Absent /\ l[1][1] = ValueTable /\ l[1][2] = a
    BY <1>1, <1>2, <1>3, <2>3, <2>4
  <2> QED
    BY <1>1, <1>s, <2>1, <2>2, <2>3, <2>5 DEF ValuesPlan
<1>11. RolePlan(t)'
  <2>1. PICK role : role = RoleOf(t, txn[t].call)
    OBVIOUS
  <2>2. AllClaimed(t, PermissionTable, role) => AllClaimed(t, PermissionTable, role)'
    BY <1>1, <1>2 DEF AllClaimed
  <2>3. txn[t].pc \in {"replace permissions", "write role", "cascade role", "erase role"} =>
          /\ txn[t].pc # "write role" => role = txn[t].call.role
          /\ txn[t].pc = "write role" =>
               \/ <<Role(role), "new">> \in Claims(t)'
               \/ Holding(t, Role(role))' /\ AllClaimed(t, PermissionTable, role)'
          /\ txn[t].pc = "erase role" =>
               Holding(t, Role(role))' /\ AllClaimed(t, PermissionTable, role)'
          /\ \A l \in Claims(t)' : l[2] = "all" =>
               \/ l[1] = Role(role)
               \/ l[1][1] = PermissionTable /\ l[1][2] = role
               \/ l[1][1] \in {"role_name", "user_session"}
               \/ l[1][1] = HoldsTable /\ txn[t].pc = "erase role"
    BY <1>1, <1>2, <1>s, <2>1, <2>2 DEF Plan, RolePlan
  <2> QED
    BY <1>1, <2>1, <2>3 DEF RolePlan, Holding, AllClaimed
<1>12. UserPlan(t)'
  <2>1. PICK user : user = UserOf(t, txn[t].call)
    OBVIOUS
  <2>2. AllClaimed(t, HoldsTable, user) => AllClaimed(t, HoldsTable, user)'
    BY <1>1, <1>2 DEF AllClaimed
  <2>3. txn[t].pc \in {"replace roles", "write user"} =>
          /\ txn[t].pc = "replace roles" => user = txn[t].call.user
          /\ txn[t].pc = "write user" =>
               \/ <<User(user), "new">> \in Claims(t)'
               \/ Holding(t, User(user))' /\ AllClaimed(t, HoldsTable, user)'
          /\ \A l \in Claims(t)' : l[2] = "all" =>
               \/ l[1] = User(user) \/ (l[1][1] = HoldsTable /\ l[1][2] = user)
               \/ l[1][1] \in {"user_profile_email", "user_session"}
    BY <1>1, <1>2, <1>s, <2>1, <2>2 DEF Plan, UserPlan
  <2> QED
    BY <1>1, <2>1, <2>3 DEF UserPlan, Holding, AllClaimed
<1> QED
  BY <1>4, <1>5, <1>6, <1>7, <1>8, <1>9, <1>10, <1>11, <1>12 DEF Plan

-----------------------------------------------------------------------------
\* What a transaction plans when it starts, and when it cascades.

\* Each plan is of some statements only.
LEMMA PlansElsewhere ==
  ASSUME NEW t
  PROVE  /\ txn'[t].pc \notin {"edit", "write edit"} => EditPlan(t)'
         /\ txn'[t].pc # "create" => CreationPlan(t)'
         /\ txn'[t].pc \notin InventoryOps => InventoryPlan(t)'
         /\ txn'[t].pc \notin {"deleteAsset", "erase asset"} => DeletionPlan(t)'
         /\ txn'[t].pc # "write definition" => DefinitionPlan(t)'
         /\ txn'[t].pc \notin {"deleteDefinition", "erase definition"} => SweepPlan(t)'
         /\ txn'[t].pc # "replaceAssignments" => AssignmentsPlan(t)'
         /\ txn'[t].pc # "replaceValues" => ValuesPlan(t)'
         /\ txn'[t].pc \notin {"replace permissions", "write role", "cascade role", "erase role"}
              => RolePlan(t)'
         /\ txn'[t].pc \notin {"replace roles", "write user"} => UserPlan(t)'
         /\ txn'[t].pc \notin AssetOps => Chain(t)' /\ SawAssigned(t)' /\ Marks(t)'
<1>1. txn'[t].pc \notin {"edit", "write edit"} => EditPlan(t)'
  BY DEF EditPlan
<1>2. txn'[t].pc # "create" => CreationPlan(t)'
  BY DEF CreationPlan
<1>3. txn'[t].pc \notin InventoryOps => InventoryPlan(t)'
  BY DEF InventoryPlan
<1>4. txn'[t].pc \notin {"deleteAsset", "erase asset"} => DeletionPlan(t)'
  BY DEF DeletionPlan
<1>5. txn'[t].pc # "write definition" => DefinitionPlan(t)'
  BY DEF DefinitionPlan
<1>6. txn'[t].pc \notin {"deleteDefinition", "erase definition"} => SweepPlan(t)'
  BY DEF SweepPlan
<1>7. txn'[t].pc # "replaceAssignments" => AssignmentsPlan(t)'
  BY DEF AssignmentsPlan
<1>8. txn'[t].pc # "replaceValues" => ValuesPlan(t)'
  BY DEF ValuesPlan
<1>9. txn'[t].pc \notin {"replace permissions", "write role", "cascade role", "erase role"}
        => RolePlan(t)'
  BY DEF RolePlan
<1>10. txn'[t].pc \notin {"replace roles", "write user"} => UserPlan(t)'
  BY DEF UserPlan
<1>11. txn'[t].pc \notin AssetOps => Chain(t)' /\ SawAssigned(t)' /\ Marks(t)'
  BY DEF Chain, SawAssigned, Marks, AssetOps, InventoryOps
<1> QED
  BY <1>1, <1>2, <1>3, <1>4, <1>5, <1>6, <1>7, <1>8, <1>9, <1>10, <1>11

\* All that is planned, and all that is known of the snapshot.
PlanSeen(t) == Plan(t) /\ Chain(t) /\ SawAssigned(t) /\ Marks(t)

LEMMA EndsPlanSeen == ASSUME NEW t, txn'[t].pc = "ended" PROVE PlanSeen(t)'
BY PlansElsewhere DEF PlanSeen, Plan, InventoryOps, AssetOps

\* A snapshot of the asset that it has just read.
Snaps(t, c) ==
  /\ txn'[t].call = c
  /\ txn'[t].level = "repeatable read"
  /\ txn'[t].held = {}
  /\ db' = db
  /\ Row(Asset(c.asset)) # Absent
  /\ DOMAIN txn'[t].seen = Snapshot(c.asset)
  /\ \A r : Seen(t, r)' = IF r \in Snapshot(c.asset) THEN Row(r) ELSE Absent

LEMMA OpenForEffect ==
  ASSUME Shape, NEW t \in Txns, NEW c \in Calls, NEW ok, NEW locks, OpenFor(t, c, ok, locks)
  PROVE  \/ Rollback(t)
         \/ /\ ok /\ Snaps(t, c) /\ txn'[t].pc = c.op /\ Claims(t)' = LeftIn(locks)
            /\ Snapped(t)'
<1>1. SUFFICES ASSUME ~Rollback(t)
               PROVE  /\ ok /\ Snaps(t, c) /\ txn'[t].pc = c.op /\ Claims(t)' = LeftIn(locks)
                      /\ Snapped(t)'
  OBVIOUS
<1>2. /\ Present(Asset(c.asset)) /\ ok
      /\ OpenRepeatable(t, c, c.op, locks, Snapshot(c.asset))
  BY <1>1 DEF OpenFor
<1>3. /\ db' = db
      /\ txn'[t].pc = c.op /\ txn'[t].call = c /\ txn'[t].level = "repeatable read"
      /\ txn'[t].held = {} /\ txn'[t].seen = [r \in Snapshot(c.asset) |-> db[r]]
      /\ Claims(t)' = LeftIn(locks)
  BY <1>2, OpenRepeatableEffect
<1>4. Snapshot(c.asset) \subseteq Rows
  BY SnapshotRows
<1>5. Row(Asset(c.asset)) # Absent /\ Asset(c.asset) \in Snapshot(c.asset)
  BY <1>2 DEF Present, Known, Row, Snapshot
<1>6. Snaps(t, c)
  <2>1. ASSUME NEW r PROVE Seen(t, r)' = IF r \in Snapshot(c.asset) THEN Row(r) ELSE Absent
    BY <1>3, <1>4 DEF Seen, Row
  <2>2. DOMAIN txn'[t].seen = Snapshot(c.asset)
    BY <1>3
  <2> QED
    BY <1>3, <1>5, <2>1, <2>2 DEF Snaps
<1>7. Snapped(t)'
  BY <1>3, <1>5, <1>6 DEF Snapped, Snaps
<1> QED
  BY <1>2, <1>3, <1>6, <1>7

\* The rows of a snapshot of an asset.
LEMMA InSnapshots ==
  ASSUME NEW a, NEW r, Row(r) # Absent
  PROVE  /\ Custom(r) => (r \in Snapshot(a) <=> r[2] = a)
         /\ r[1] = "asset_identifier" => r \in Snapshot(a)
         /\ r \in Rows /\ Present(r) /\ db[r] = Row(r)
BY Tables DEF Row, Snapshot, Custom, AssignmentTable, ValueTable, Present, Known

LEMMA SnapsPlanSeen ==
  ASSUME Base, AssignedRows, NEW t \in Txns, NEW c, Snaps(t, c)
  PROVE  Chain(t)' /\ SawAssigned(t)' /\ Marks(t)'
<1>1. PICK a : a = c.asset
  OBVIOUS
<1>2. /\ txn'[t].call = c
      /\ DOMAIN txn'[t].seen = Snapshot(a)
      /\ \A r : Seen(t, r)' = IF r \in Snapshot(a) THEN Row(r) ELSE Absent
      /\ Rows' = Rows /\ \A r : Row(r)' = Row(r)
  BY <1>1, SameRows DEF Snaps
<1>3. \A r : Custom(r) /\ r[2] = a => Seen(t, r)' = Row(r)
  BY <1>2, InSnapshots
<1>4. \A r : r[1] = "asset_identifier" => Seen(t, r)' = Row(r)
  BY <1>2, InSnapshots
<1>5. Chain(t)'
  <2>1. ASSUME NEW r PROVE /\ Custom(r) /\ r[2] = a => Alike(Row(r)', Seen(t, r)')
                           /\ Owned(a, r, Row(r)') \/ Owned(a, r, Seen(t, r)') =>
                                Custom(r) \/ Row(r)' = Seen(t, r)'
    BY <1>2, <1>3, <1>4, AlikeLaws DEF Owned
  <2> QED
    BY <1>1, <1>2, <2>1 DEF Chain
<1>6. \A r \in Snapshot(a) : Custom(r) => r[2] = a
  BY Tables DEF Snapshot, Custom, AssignmentTable, ValueTable
<1>7. SawAssigned(t)'
  <2>1. ASSUME NEW r \in Snapshot(a), Seen(t, r)' # Absent, r[1] = ValueTable
        PROVE  Seen(t, Assigned(r[2], r[3]))' # Absent
    <3>1. r[2] = a /\ Row(r) # Absent
      BY <1>2, <1>6, <2>1 DEF Custom
    <3>2. Row(Assigned(r[2], r[3])) # Absent
      BY <2>1, <3>1 DEF AssignedRows
    <3>3. Custom(Assigned(r[2], r[3])) /\ Assigned(r[2], r[3])[2] = a
      BY <3>1, Tables DEF Custom
    <3> QED
      BY <1>3, <3>2, <3>3
  <2> QED
    BY <1>1, <1>2, <1>6, <2>1 DEF SawAssigned
<1>8. Marks(t)'
  <2>1. ASSUME NEW r, NEW q \in Snapshot(a), Custom(r), Custom(q), r[2] = q[2]
        PROVE  Row(r)' = Seen(t, r)'
    BY <1>2, <1>3, <1>6, <2>1
  <2> QED
    BY <1>2, <2>1 DEF Marks
<1> QED
  BY <1>5, <1>7, <1>8

\* What a call that finds no other plan at its statement has to show.
LEMMA StartInventory ==
  ASSUME Base, NEW t \in Txns, NEW c \in Calls,
         \/ UpdateAsset(t, c) \/ AddIdentifier(t, c)
         \/ UpdateIdentifier(t, c) \/ DeleteIdentifier(t, c)
  PROVE  Rollback(t) \/ (Snaps(t, c) /\ Plan(t)')
<1>0. SUFFICES ASSUME ~Rollback(t) PROVE Snaps(t, c) /\ Plan(t)'
  OBVIOUS
<1>s. Shape
  BY DEF Base
<1>1. PICK a : a = c.asset
  OBVIOUS
<1>2. PICK i : i = Identifier(c.identifier)
  OBVIOUS
<1> DEFINE Good == /\ Snaps(t, c) /\ Snapped(t)' /\ txn'[t].pc = c.op
                   /\ c.op \in InventoryOps
                   /\ <<Asset(a), "nokey">> \in Claims(t)'
                   /\ c.op = "addIdentifier" => <<Asset(a), "share">> \in Claims(t)'
                   /\ c.op \in {"updateIdentifier", "deleteIdentifier"} =>
                        /\ Owned(a, i, Seen(t, i)')
                        /\ <<i, IF c.op = "deleteIdentifier" THEN "all" ELSE "nokey">> \in Claims(t)'
<1>a. <<Asset(a), "nokey">> \in AuditLock(a)
  BY DEF AuditLock
<1>b. ASSUME i \in Identifiers(a), Snaps(t, c)
      PROVE  Owned(a, i, Seen(t, i)')
  <2>1. i \in Rows /\ i[1] = "asset_identifier" /\ db[i] # Absent /\ db[i].asset = a
    BY <1>b DEF Identifiers, Table, Present
  <2>2. Row(i) = db[i] /\ i \in Snapshot(a)
    BY <2>1 DEF Row, Snapshot
  <2> QED
    BY <1>1, <1>b, <2>1, <2>2 DEF Snaps, Owned
<1>3. ASSUME UpdateAsset(t, c) PROVE Good
  <2>1. OpenFor(t, c, c.changes, <<AuditLock(a)>>) /\ c.op = "updateAsset"
    BY <1>1, <1>3 DEF UpdateAsset
  <2>2. Snaps(t, c) /\ txn'[t].pc = c.op /\ Claims(t)' = AuditLock(a) /\ Snapped(t)'
    BY <1>0, <1>s, <2>1, OpenForEffect, LeftOfOne
  <2> QED
    BY <1>a, <2>1, <2>2 DEF InventoryOps
<1>4. ASSUME AddIdentifier(t, c) PROVE Good
  <2> DEFINE x == Locks({Key(c.key)}, "new")
             y == Locks({Asset(a)}, "share")
             z == AuditLock(a)
             ok == TRUE
  <2>1. OpenFor(t, c, ok, <<x, y, z>>) /\ c.op = "addIdentifier"
    BY <1>1, <1>4 DEF AddIdentifier
  <2>y. <<Asset(a), "share">> \in y
    BY DEF Locks
  <2> HIDE DEF x, y, z, ok
  <2>2. Snaps(t, c) /\ txn'[t].pc = c.op /\ Claims(t)' = x \cup y \cup z /\ Snapped(t)'
    BY <1>0, <1>s, <2>1, OpenForEffect, LeftOfThree
  <2> QED
    BY <1>a, <2>1, <2>2, <2>y DEF InventoryOps, z
<1>5. ASSUME UpdateIdentifier(t, c) PROVE Good
  <2> DEFINE w == {<<i, "nokey">>}
             x == {<<Key(db[i].key), "all">>}
             y == {<<Key(c.key), "new">>}
             z == AuditLock(a)
             ok == i \in Identifiers(a) /\ db[i].key # c.key
  <2>1. OpenFor(t, c, ok, <<w, x, y, z>>) /\ c.op = "updateIdentifier"
    BY <1>1, <1>2, <1>5 DEF UpdateIdentifier
  <2>w. <<i, "nokey">> \in w
    OBVIOUS
  <2>o. ok => i \in Identifiers(a)
    OBVIOUS
  <2> HIDE DEF w, x, y, z, ok
  <2>2. ok /\ Snaps(t, c) /\ txn'[t].pc = c.op /\ Claims(t)' = w \cup x \cup y \cup z /\ Snapped(t)'
    BY <1>0, <1>s, <2>1, OpenForEffect, LeftOfFour
  <2>3. Owned(a, i, Seen(t, i)')
    BY <1>b, <2>2, <2>o
  <2> QED
    BY <1>a, <2>1, <2>2, <2>3, <2>w DEF InventoryOps, z
<1>6. ASSUME DeleteIdentifier(t, c) PROVE Good
  <2> DEFINE x == {<<i, "all">>}
             y == {<<Key(db[i].key), "all">>}
             z == AuditLock(a)
             ok == i \in Identifiers(a)
  <2>1. OpenFor(t, c, ok, <<x, y, z>>) /\ c.op = "deleteIdentifier"
    BY <1>1, <1>2, <1>6 DEF DeleteIdentifier
  <2>x. <<i, "all">> \in x
    OBVIOUS
  <2>o. ok => i \in Identifiers(a)
    OBVIOUS
  <2> HIDE DEF x, y, z, ok
  <2>2. ok /\ Snaps(t, c) /\ txn'[t].pc = c.op /\ Claims(t)' = x \cup y \cup z /\ Snapped(t)'
    BY <1>0, <1>s, <2>1, OpenForEffect, LeftOfThree
  <2>3. Owned(a, i, Seen(t, i)')
    BY <1>b, <2>2, <2>o
  <2> QED
    BY <1>a, <2>1, <2>2, <2>3, <2>x DEF InventoryOps, z
<1>7. Good
  BY <1>3, <1>4, <1>5, <1>6
<1>8. InventoryPlan(t)'
  BY <1>1, <1>2, <1>7 DEF InventoryPlan, Snaps, Owned
<1>9. Plan(t)'
  <2>1. txn'[t].pc \in {"updateAsset", "addIdentifier", "updateIdentifier", "deleteIdentifier"}
    BY <1>7 DEF InventoryOps
  <2> QED
    BY <1>8, <2>1, PlansElsewhere DEF Plan
<1> QED
  BY <1>7, <1>9

LEMMA StartDeletion ==
  ASSUME Base, NEW t \in Txns, NEW c \in Calls, DeleteAsset(t, c)
  PROVE  Rollback(t) \/ (Snaps(t, c) /\ PlanSeen(t)')
<1>0. SUFFICES ASSUME ~Rollback(t) PROVE Snaps(t, c) /\ PlanSeen(t)'
  OBVIOUS
<1>1. PICK a : a = c.asset
  OBVIOUS
<1> DEFINE x == Locks({Asset(a)}, "all")
           ok == Referring(a) = {}
<1>2. OpenFor(t, c, ok, <<x>>) /\ c.op = "deleteAsset"
  BY <1>1 DEF DeleteAsset
<1>3. /\ <<Asset(a), "all">> \in x
      /\ \A l \in x : l[1] = Asset(a)
  BY DEF Locks
<1> HIDE DEF x, ok
<1>4. Snaps(t, c) /\ txn'[t].pc = c.op /\ Claims(t)' = x /\ Snapped(t)'
  BY <1>0, <1>2, OpenForEffect, LeftOfOne DEF Base
<1>5. DeletionPlan(t)'
  BY <1>1, <1>2, <1>3, <1>4 DEF DeletionPlan, Snaps
<1> QED
  BY <1>2, <1>4, <1>5, PlansElsewhere DEF PlanSeen, Plan, InventoryOps, AssetOps

LEMMA StartDefinition ==
  ASSUME Base, NEW t \in Txns, NEW c \in Calls,
         \/ CreateAsset(t, c) \/ CreateDefinition(t, c)
         \/ UpdateDefinition(t, c) \/ DeleteDefinition(t, c)
  PROVE  Rollback(t) \/ (db' = db /\ PlanSeen(t)')
<1>0. SUFFICES ASSUME ~Rollback(t) PROVE db' = db /\ PlanSeen(t)'
  OBVIOUS
<1>s. Shape
  BY DEF Base
<1>1. CASE CreateAsset(t, c)
  <2>x. PICK locks : locks = <<Locks({Key(k) : k \in c.keys}, "new")>>
    OBVIOUS
  <2>1. OpenRepeatable(t, c, "create", locks, {}) /\ c.op = "create"
    BY <1>1, <2>x DEF CreateAsset
  <2>p. PICK p, scope : p = "create" /\ scope = {}
    OBVIOUS
  <2>o. OpenRepeatable(t, c, p, locks, scope)
    BY <2>1, <2>p
  <2>2. db' = db /\ txn'[t].pc = "create" /\ txn'[t].call = c
    BY <1>s, <2>o, <2>p, OpenRepeatableEffect
  <2>3. CreationPlan(t)'
    BY <2>1, <2>2 DEF CreationPlan
  <2> QED
    BY <2>2, <2>3, PlansElsewhere DEF PlanSeen, Plan, InventoryOps, AssetOps
<1>2. CASE CreateDefinition(t, c)
  <2>k. PICK key : key = FieldKey(c.key)
    OBVIOUS
  <2>x. PICK x : x = {<<key, "new">>}
    OBVIOUS
  <2>1. OpenRepeatable(t, c, "write definition", <<x>>, {}) /\ c.op = "createDefinition"
    BY <1>2, <2>k, <2>x DEF CreateDefinition
  <2>2. /\ db' = db /\ txn'[t].pc = "write definition" /\ txn'[t].call = c
        /\ Claims(t)' = x
    BY <1>s, <2>1, OpenRepeatableEffect, LeftOfOne, ZenonT(60)
  <2>3. \A l \in x : l[1][1] = "asset_custom_field_key"
    BY <2>k, <2>x, Tables
  <2>4. DefinitionPlan(t)'
    BY <2>1, <2>2, <2>3 DEF DefinitionPlan
  <2> QED
    BY <2>2, <2>4, PlansElsewhere DEF PlanSeen, Plan, InventoryOps, AssetOps
<1>3. CASE UpdateDefinition(t, c)
  <2>d. PICK d : d = c.field
    OBVIOUS
  <2>k. PICK key : key = FieldKey(c.key)
    OBVIOUS
  <2>1. PICK mode \in {"nokey", "all"} :
          OpenRepeatable(t, c, "write definition",
                         <<{<<Field(d), mode>>}, Freed(key, d), Claimed(key, d)>>, {Field(d)})
    BY <1>0, <1>3, <2>d, <2>k DEF UpdateDefinition, UpdateModes
  <2>x. PICK x, y, z : x = {<<Field(d), mode>>} /\ y = Freed(key, d) /\ z = Claimed(key, d)
    OBVIOUS
  <2>p. Row(Field(d)) # Absent /\ Field(d) \in Rows /\ c.op = "updateDefinition"
    BY <1>0, <1>3, <2>d DEF UpdateDefinition, Present, Known, Row
  <2>o. OpenRepeatable(t, c, "write definition", <<x, y, z>>, {Field(d)})
    BY <2>1, <2>x
  <2>2. /\ db' = db /\ txn'[t].pc = "write definition" /\ txn'[t].call = c
        /\ txn'[t].level = "repeatable read"
        /\ txn'[t].seen = [r \in {Field(d)} |-> db[r]]
        /\ Claims(t)' = x \cup y \cup z
    <3>1. LeftIn(<<x, y, z>>) = x \cup y \cup z
      BY LeftOfThree
    <3> QED
      BY <1>s, <2>o, <3>1, OpenRepeatableEffect
  <2>3. Seen(t, Field(d))' # Absent
    BY <2>2, <2>p DEF Seen, Row
  <2>4. /\ \A l \in x : l[1] = Field(d)
        /\ \A l \in y \cup z : l[1][1] = "asset_custom_field_key"
    BY <2>k, <2>x, FreedClaimed, Tables
  <2>5. <<Field(d), mode>> \in x
    BY <2>x
  <2>6. DefinitionPlan(t)'
    BY <2>2, <2>3, <2>4, <2>5, <2>d, <2>p DEF DefinitionPlan
  <2> QED
    BY <2>2, <2>6, PlansElsewhere DEF PlanSeen, Plan, InventoryOps, AssetOps
<1>4. CASE DeleteDefinition(t, c)
  <2>d. PICK d : d = c.field
    OBVIOUS
  <2> DEFINE x == Locks({Field(d)}, "all")
             scope == {r \in Rows : r = Field(d)
                                      \/ /\ r[1] \in {"asset_custom_field_assignment",
                                                      "asset_custom_field_value"}
                                         /\ r[3] = d}
  <2>1. OpenRepeatable(t, c, "deleteDefinition", <<x>>, scope)
    BY <1>0, <1>4, <2>d DEF DeleteDefinition
  <2>p. Row(Field(d)) # Absent /\ Field(d) \in scope /\ c.op = "deleteDefinition"
    BY <1>0, <1>4, <2>d DEF DeleteDefinition, Present, Known, Row
  <2>x. /\ <<Field(d), "all">> \in x
        /\ \A l \in x : l[1] = Field(d)
    BY DEF Locks
  <2>r. scope \subseteq Rows
    OBVIOUS
  <2>l. PICK locks : locks = <<x>>
    OBVIOUS
  <2>o. PICK rows : rows = scope
    OBVIOUS
  <2>y. LeftIn(locks) = x
    BY <2>l, LeftOfOne
  <2> HIDE DEF x, scope
  <2>z. OpenRepeatable(t, c, "deleteDefinition", locks, rows)
    BY <2>1, <2>l, <2>o
  <2>2. /\ db' = db /\ txn'[t].pc = "deleteDefinition" /\ txn'[t].call = c
        /\ txn'[t].level = "repeatable read"
        /\ txn'[t].seen = [r \in scope |-> db[r]]
        /\ Claims(t)' = x
    BY <1>s, <2>z, <2>o, <2>y, OpenRepeatableEffect
  <2>3. Seen(t, Field(d))' # Absent
    BY <2>2, <2>p, <2>r DEF Seen, Row
  <2>4. SweepPlan(t)'
    BY <2>2, <2>3, <2>d, <2>x DEF SweepPlan
  <2> QED
    BY <2>2, <2>4, PlansElsewhere DEF PlanSeen, Plan, InventoryOps, AssetOps
<1> QED
  BY <1>1, <1>2, <1>3, <1>4

\* The custom fields of an asset.
LEMMA OwnCustom ==
  ASSUME Base, NEW a
  PROVE  /\ \A r : r \in Values(a) <=> r[1] = ValueTable /\ r[2] = a /\ Row(r) # Absent
         /\ \A r : r \in Assignments(a) <=> r[1] = AssignmentTable /\ r[2] = a /\ Row(r) # Absent
         /\ \A r : r[1] = ValueTable /\ r[2] = a /\ Row(r) # Absent => r = Value(a, r[3])
         /\ \A r : r[1] = AssignmentTable /\ r[2] = a /\ Row(r) # Absent => r = Assigned(a, r[3])
         /\ \A d : d \in AssignedFields(a) <=> Row(Assigned(a, d)) # Absent
<1>1. \A r : Row(r) # Absent <=> r \in Rows /\ Present(r)
  BY DEF Row, Present, Known
<1>2. \A r : r \in Values(a) <=> r[1] = ValueTable /\ r[2] = a /\ Row(r) # Absent
  BY <1>1 DEF Values, Table, ValueTable
<1>3. \A r : r \in Assignments(a) <=> r[1] = AssignmentTable /\ r[2] = a /\ Row(r) # Absent
  BY <1>1 DEF Assignments, Table, AssignmentTable
<1>4. \A r : r \in Rows /\ r[1] \in {ValueTable, AssignmentTable} => r = <<r[1], r[2], r[3]>>
  BY DEF Base, WellNamed, Triples, ValueTable, AssignmentTable
<1>5. /\ \A r : r[1] = ValueTable /\ r[2] = a /\ Row(r) # Absent => r = Value(a, r[3])
      /\ \A r : r[1] = AssignmentTable /\ r[2] = a /\ Row(r) # Absent => r = Assigned(a, r[3])
  BY <1>1, <1>4, Names DEF ValueTable, AssignmentTable
<1>6. \A d : d \in AssignedFields(a) <=> Row(Assigned(a, d)) # Absent
  BY <1>3, <1>5, Tables DEF AssignedFields
<1> QED
  BY <1>2, <1>3, <1>5, <1>6

LEMMA SnapsCustom ==
  ASSUME NEW t, NEW c, Snaps(t, c), NEW r, Custom(r), r[2] = c.asset
  PROVE  Seen(t, r)' = Row(r)
BY InSnapshots DEF Snaps

LEMMA StartAssignments ==
  ASSUME Base, NEW t \in Txns, NEW c \in Calls, ReplaceAssignments(t, c)
  PROVE  Rollback(t) \/ (Snaps(t, c) /\ Plan(t)')
<1>0. SUFFICES ASSUME ~Rollback(t) PROVE Snaps(t, c) /\ Plan(t)'
  OBVIOUS
<1>1. PICK a : a = c.asset
  OBVIOUS
<1>f. PICK fs : fs = c.fields
  OBVIOUS
<1> DEFINE A == Locks(Values(a) \ {Value(a, d) : d \in fs}, "all")
           B == Locks(Assignments(a), "all")
           E == Locks({Assigned(a, d) : d \in fs} \ Assignments(a), "new")
           F == IF fs = {} THEN {} ELSE Locks({Asset(a)} \cup {Field(d) : d \in fs}, "share")
           G == IF AssignedFields(a) = fs THEN {} ELSE AuditLock(a)
           ok == \A d \in fs : Present(Field(d))
<1>2. OpenFor(t, c, ok, <<A, B, E, F, G>>) /\ c.op = "replaceAssignments"
  BY <1>1, <1>f DEF ReplaceAssignments, ReplaceAssignmentsLocks
<1>3. /\ \A r : <<r, "all">> \in A <=> r \in Values(a) /\ r \notin {Value(a, d) : d \in fs}
      /\ \A l \in A : l[1] \in Values(a) /\ l[1] \notin {Value(a, d) : d \in fs}
      /\ \A r : <<r, "all">> \in B <=> r \in Assignments(a)
      /\ \A l \in B : l[1] \in Assignments(a)
      /\ \A d \in fs : Assigned(a, d) \notin Assignments(a) => <<Assigned(a, d), "new">> \in E
      /\ \A l \in E : l[2] = "new"
      /\ \A d \in fs : <<Field(d), "share">> \in F /\ <<Asset(a), "share">> \in F
      /\ \A l \in F : l[2] = "share"
      /\ <<Asset(a), "nokey">> \in G \/ AssignedFields(a) = fs
      /\ \A l \in G : l[2] = "nokey"
  BY DEF Locks, AuditLock
<1> HIDE DEF A, B, E, F, G, ok
<1>4. /\ Snaps(t, c) /\ txn'[t].pc = c.op /\ Snapped(t)'
      /\ Claims(t)' = A \cup B \cup E \cup F \cup G
  BY <1>0, <1>2, OpenForEffect, LeftOfFive DEF Base
<1>5. /\ \A r : r \in Values(a) <=> r[1] = ValueTable /\ r[2] = a /\ Row(r) # Absent
      /\ \A r : r \in Assignments(a) <=> r[1] = AssignmentTable /\ r[2] = a /\ Row(r) # Absent
      /\ \A r : r[1] = ValueTable /\ r[2] = a /\ Row(r) # Absent => r = Value(a, r[3])
      /\ \A r : r[1] = AssignmentTable /\ r[2] = a /\ Row(r) # Absent => r = Assigned(a, r[3])
      /\ \A d : d \in AssignedFields(a) <=> Row(Assigned(a, d)) # Absent
  BY OwnCustom
<1>6. \A r : Custom(r) /\ r[2] = a => Seen(t, r)' = Row(r)
  BY <1>1, <1>4, SnapsCustom
<1>7. \A d : /\ SawField(t, AssignmentTable, d)' <=> Row(Assigned(a, d)) # Absent
             /\ Assigned(a, d)[1] = AssignmentTable /\ Assigned(a, d)[2] = a
  <2>1. ASSUME NEW d PROVE /\ SawField(t, AssignmentTable, d)' <=> Row(Assigned(a, d)) # Absent
                           /\ Assigned(a, d)[1] = AssignmentTable /\ Assigned(a, d)[2] = a
    <3>1. /\ Custom(Assigned(a, d)) /\ Assigned(a, d)[2] = a /\ Assigned(a, d)[1] = AssignmentTable
          /\ Assigned(a, d) = <<AssignmentTable, a, d>>
      BY Tables, Names DEF Custom, AssignmentTable
    <3>2. txn'[t].call.asset = a
      BY <1>1, <1>4 DEF Snaps
    <3> QED
      BY <1>6, <3>1, <3>2 DEF SawField
  <2> QED
    BY <2>1
<1>8. \A r : Seen(t, r)' # Absent /\ Custom(r) /\ r[2] = a =>
        <<r, "all">> \in Claims(t)' \/ (r[1] = ValueTable /\ r[3] \in fs)
  <2>1. ASSUME NEW r, Seen(t, r)' # Absent, Custom(r), r[2] = a, <<r, "all">> \notin Claims(t)'
        PROVE  r[1] = ValueTable /\ r[3] \in fs
    <3>1. Row(r) # Absent
      BY <1>6, <2>1
    <3>2. r \notin Assignments(a)
      BY <1>3, <1>4, <2>1
    <3>3. r[1] = ValueTable /\ r \in Values(a)
      BY <1>5, <2>1, <3>1, <3>2 DEF Custom
    <3>4. r \in {Value(a, d) : d \in fs}
      BY <1>3, <1>4, <2>1, <3>3
    <3> QED
      BY <3>3, <3>4, Tables
  <2> QED
    BY <2>1
<1>9. \A d \in fs :
        /\ SawField(t, AssignmentTable, d)' \/ <<Assigned(a, d), "new">> \in Claims(t)'
        /\ <<Field(d), "share">> \in Claims(t)'
        /\ <<Asset(a), "share">> \in Claims(t)'
  BY <1>3, <1>4, <1>5, <1>7
<1>10. \/ <<Asset(a), "nokey">> \in Claims(t)'
       \/ /\ \A d \in fs : SawField(t, AssignmentTable, d)'
          /\ \A r : Seen(t, r)' # Absent /\ r[1] = AssignmentTable /\ r[2] = a => r[3] \in fs
  <2>1. CASE AssignedFields(a) = fs
    <3>1. \A d \in fs : SawField(t, AssignmentTable, d)'
      BY <1>5, <1>7, <2>1
    <3>2. ASSUME NEW r, Seen(t, r)' # Absent, r[1] = AssignmentTable, r[2] = a
          PROVE  r[3] \in fs
      <4>1. Row(r) # Absent
        BY <1>6, <3>2 DEF Custom
      <4> QED
        BY <1>5, <2>1, <3>2, <4>1
    <3> QED
      BY <3>1, <3>2
  <2> QED
    BY <1>3, <1>4, <2>1
<1>11. \A l \in Claims(t)' : l[2] = "all" =>
         /\ Seen(t, l[1])' # Absent /\ Custom(l[1]) /\ l[1][2] = a
         /\ l[1][1] = ValueTable => l[1][3] \notin fs
  <2>1. ASSUME NEW l \in Claims(t)', l[2] = "all"
        PROVE  /\ Seen(t, l[1])' # Absent /\ Custom(l[1]) /\ l[1][2] = a
               /\ l[1][1] = ValueTable => l[1][3] \notin fs
    <3>1. \/ l[1] \in Values(a) /\ l[1] \notin {Value(a, d) : d \in fs}
          \/ l[1] \in Assignments(a)
      BY <1>3, <1>4, <2>1
    <3>2. l[1][1] \in {ValueTable, AssignmentTable} /\ l[1][2] = a /\ Row(l[1]) # Absent
      BY <1>5, <3>1
    <3>3. Custom(l[1]) /\ Seen(t, l[1])' # Absent
      BY <1>6, <3>2 DEF Custom
    <3>4. l[1][1] = ValueTable => l[1][3] \notin fs
      <4>1. l[1] \in Assignments(a) => l[1][1] # ValueTable
        BY <1>5 DEF AssignmentTable, ValueTable
      <4>2. l[1][1] = ValueTable => l[1] = Value(a, l[1][3])
        BY <1>5, <3>2
      <4> QED
        BY <3>1, <4>1, <4>2
    <3> QED
      BY <3>2, <3>3, <3>4
  <2> QED
    BY <2>1
<1>12. txn'[t].call = c
  BY <1>4 DEF Snaps
<1>13. AssignmentsPlan(t)'
  BY <1>1, <1>f, <1>4, <1>8, <1>9, <1>10, <1>11, <1>12 DEF AssignmentsPlan
<1> QED
  BY <1>2, <1>4, <1>13, PlansElsewhere DEF Plan, InventoryOps

LEMMA StartValues ==
  ASSUME Base, NEW t \in Txns, NEW c \in Calls, ReplaceValues(t, c)
  PROVE  Rollback(t) \/ (Snaps(t, c) /\ Plan(t)')
<1>0. SUFFICES ASSUME ~Rollback(t) PROVE Snaps(t, c) /\ Plan(t)'
  OBVIOUS
<1>1. PICK a : a = c.asset
  OBVIOUS
<1>f. PICK fs : fs = Stored(c)
  OBVIOUS
<1> DEFINE A == Locks(Values(a), "all")
           E == Locks({Value(a, d) : d \in fs} \ Values(a), "new")
           F == IF fs = {} THEN {} ELSE Locks({Asset(a)} \cup {Field(d) : d \in fs}, "share")
           G == IF SameValues(c) THEN {} ELSE AuditLock(a)
           ok == /\ DOMAIN c.values = AssignedFields(a)
                 /\ \A d \in fs : c.values[d] \in db[Field(d)].allows
<1>2. OpenFor(t, c, ok, <<A, E, F, G>>) /\ c.op = "replaceValues"
  BY <1>1, <1>f DEF ReplaceValues, ReplaceValuesLocks
<1>3. /\ \A r : r \in Values(a) => <<r, "all">> \in A
      /\ \A l \in A : l[1] \in Values(a)
      /\ \A d \in fs : Value(a, d) \notin Values(a) => <<Value(a, d), "new">> \in E
      /\ \A l \in E : l[2] = "new"
      /\ \A d \in fs : <<Field(d), "share">> \in F /\ <<Asset(a), "share">> \in F
      /\ \A l \in F : l[2] = "share"
      /\ <<Asset(a), "nokey">> \in G \/ SameValues(c)
      /\ \A l \in G : l[2] = "nokey"
  BY DEF Locks, AuditLock
<1>o. ok => \A d \in fs : d \in AssignedFields(a)
  BY <1>f DEF Stored
<1> HIDE DEF A, E, F, G, ok
<1>4. /\ Snaps(t, c) /\ txn'[t].pc = c.op /\ Snapped(t)' /\ ok
      /\ Claims(t)' = A \cup E \cup F \cup G
  BY <1>0, <1>2, OpenForEffect, LeftOfFour DEF Base
<1>5. /\ \A r : r \in Values(a) <=> r[1] = ValueTable /\ r[2] = a /\ Row(r) # Absent
      /\ \A r : r[1] = ValueTable /\ r[2] = a /\ Row(r) # Absent => r = Value(a, r[3])
      /\ \A d : d \in AssignedFields(a) <=> Row(Assigned(a, d)) # Absent
  BY OwnCustom
<1>6. \A r : Custom(r) /\ r[2] = a => Seen(t, r)' = Row(r)
  BY <1>1, <1>4, SnapsCustom
<1>7. \A d : /\ SawField(t, AssignmentTable, d)' <=> Row(Assigned(a, d)) # Absent
             /\ SawField(t, ValueTable, d)' <=> Row(Value(a, d)) # Absent
             /\ Seen(t, Value(a, d))' = Row(Value(a, d))
             /\ Value(a, d)[1] = ValueTable /\ Value(a, d)[2] = a /\ Value(a, d)[3] = d
  <2>1. ASSUME NEW d
        PROVE  /\ SawField(t, AssignmentTable, d)' <=> Row(Assigned(a, d)) # Absent
               /\ SawField(t, ValueTable, d)' <=> Row(Value(a, d)) # Absent
               /\ Seen(t, Value(a, d))' = Row(Value(a, d))
               /\ Value(a, d)[1] = ValueTable /\ Value(a, d)[2] = a /\ Value(a, d)[3] = d
    <3>1. /\ Custom(Assigned(a, d)) /\ Assigned(a, d)[2] = a
          /\ Assigned(a, d) = <<AssignmentTable, a, d>>
          /\ Custom(Value(a, d)) /\ Value(a, d)[1] = ValueTable
          /\ Value(a, d)[2] = a /\ Value(a, d)[3] = d
          /\ Value(a, d) = <<ValueTable, a, d>>
      BY Tables, Names DEF Custom, AssignmentTable, ValueTable
    <3>2. txn'[t].call.asset = a
      BY <1>1, <1>4 DEF Snaps
    <3> QED
      BY <1>6, <3>1, <3>2 DEF SawField
  <2> QED
    BY <2>1
<1>8. \A d \in fs : SawField(t, AssignmentTable, d)'
  BY <1>4, <1>5, <1>7, <1>o
<1>9. \A r : Seen(t, r)' # Absent /\ r[1] = ValueTable /\ r[2] = a =>
        r \in Values(a) /\ <<r, "all">> \in Claims(t)'
  BY <1>3, <1>4, <1>5, <1>6 DEF Custom
<1>10. \A d \in fs :
         /\ SawField(t, ValueTable, d)' \/ <<Value(a, d), "new">> \in Claims(t)'
         /\ <<Field(d), "share">> \in Claims(t)'
         /\ <<Asset(a), "share">> \in Claims(t)'
  BY <1>3, <1>4, <1>5, <1>7
<1>11. \/ <<Asset(a), "nokey">> \in Claims(t)'
       \/ /\ \A d \in fs : SawField(t, ValueTable, d)'
          /\ \A d \in fs : Seen(t, Value(a, d))'.data = c.values[d]
          /\ \A r : Seen(t, r)' # Absent /\ r[1] = ValueTable /\ r[2] = a => r[3] \in fs
  <2>1. CASE SameValues(c)
    <3>1. /\ Values(a) = {Value(a, d) : d \in fs}
          /\ \A d \in fs : db[Value(a, d)].data = c.values[d]
      BY <1>1, <1>f, <2>1 DEF SameValues
    <3>2. \A d \in fs : Value(a, d) \in Values(a) /\ Row(Value(a, d)) # Absent
      BY <1>5, <3>1
    <3>3. \A d \in fs : Row(Value(a, d)) = db[Value(a, d)]
      BY <3>2 DEF Row
    <3>4. \A r \in Values(a) : r[3] \in fs
      BY <1>7, <3>1
    <3> QED
      BY <1>7, <1>9, <3>1, <3>2, <3>3, <3>4
  <2> QED
    BY <1>3, <1>4, <2>1
<1>12. \A l \in Claims(t)' : l[2] = "all" =>
         Seen(t, l[1])' # Absent /\ l[1][1] = ValueTable /\ l[1][2] = a
  BY <1>3, <1>4, <1>5, <1>6 DEF Custom
<1>13. txn'[t].call = c
  BY <1>4 DEF Snaps
<1>14. ValuesPlan(t)'
  BY <1>1, <1>f, <1>4, <1>8, <1>9, <1>10, <1>11, <1>12, <1>13 DEF ValuesPlan
<1> QED
  BY <1>2, <1>4, <1>14, PlansElsewhere DEF Plan, InventoryOps

LEMMA CascadeAssetPlans ==
  ASSUME Base, NEW t \in Txns, Plan(t), CascadeAsset(t)
  PROVE  Rollback(t) \/ (db' = db /\ PlanSeen(t)')
<1>0. SUFFICES ASSUME ~Rollback(t) PROVE db' = db /\ PlanSeen(t)'
  OBVIOUS
<1>1. PICK a : a = txn[t].call.asset
  OBVIOUS
<1> DEFINE x == Locks(OwnRows(a), "all")
<1>2. InSnapshot(t, OwnRows(a)) /\ Advance(t, "erase asset", <<x>>)
  BY <1>0, <1>1 DEF CascadeAsset
<1>3. txn[t].pc = "deleteAsset" /\ Claims(t) = txn[t].held
  BY ReadyClaims DEF CascadeAsset
<1>4. /\ Snapped(t)
      /\ <<Asset(a), "all">> \in Claims(t)
      /\ \A l \in Claims(t) : l[2] = "all" =>
           \/ l[1] = Asset(a)
           \/ Custom(l[1]) /\ l[1][2] = a
           \/ /\ l[1][1] = "asset_identifier"
              /\ Seen(t, l[1]) # Absent
              /\ Row(l[1]) = Absent \/ Owned(a, l[1], Row(l[1]))
  BY <1>1, <1>3 DEF Plan, DeletionPlan
<1>5. /\ \A r \in OwnRows(a) : <<r, "all">> \in x
      /\ \A l \in x : l[1] \in OwnRows(a)
  BY DEF Locks
<1>6. \A r \in OwnRows(a) : Seen(t, r) # Absent
  BY <1>2 DEF InSnapshot, Seen
<1>7. \A r : r \in OwnRows(a) <=> Row(r) # Absent /\ Owned(a, r, Row(r))
  <2>1. \A r : r \in Identifiers(a) <=> /\ Row(r) # Absent /\ r[1] = "asset_identifier"
                                        /\ Row(r).asset = a
    BY DEF Identifiers, Table, Present, Known, Row
  <2> QED
    BY <2>1, OwnCustom
    DEF OwnRows, Owned, Custom, AssignmentTable, ValueTable
<1> HIDE DEF x
<1>8. /\ db' = db /\ txn'[t].pc = "erase asset" /\ txn'[t].call = txn[t].call
      /\ txn'[t].level = txn[t].level /\ txn'[t].held = txn[t].held
      /\ txn'[t].seen = txn[t].seen
      /\ Claims(t)' = txn[t].held \cup x
  BY <1>2, AdvanceEffect, LeftOfOne DEF Base
<1>9. Rows' = Rows /\ \A r : Row(r)' = Row(r)
  BY <1>8, SameRows
<1>10. Snapped(t)' /\ \A r : Seen(t, r)' = Seen(t, r)
  BY <1>4, <1>8 DEF Snapped, Seen
<1>11. \A r : Row(r) # Absent /\ Owned(a, r, Row(r)) => <<r, "all">> \in Claims(t)'
  BY <1>5, <1>7, <1>8
<1>12. \A l \in Claims(t)' : l[2] = "all" =>
           \/ l[1] = Asset(a)
           \/ Custom(l[1]) /\ l[1][2] = a
           \/ /\ l[1][1] = "asset_identifier"
              /\ Seen(t, l[1]) # Absent
              /\ Row(l[1]) = Absent \/ Owned(a, l[1], Row(l[1]))
  <2>1. ASSUME NEW l \in x
        PROVE  \/ Custom(l[1]) /\ l[1][2] = a
               \/ /\ l[1][1] = "asset_identifier"
                  /\ Seen(t, l[1]) # Absent
                  /\ Owned(a, l[1], Row(l[1]))
    BY <1>5, <1>6, <1>7, <2>1 DEF Owned
  <2> QED
    BY <1>3, <1>4, <1>8, <2>1
<1>13. DeletionPlan(t)'
  BY <1>1, <1>3, <1>4, <1>8, <1>9, <1>10, <1>11, <1>12 DEF DeletionPlan, Owned
<1> QED
  BY <1>8, <1>13, PlansElsewhere DEF PlanSeen, Plan, InventoryOps, AssetOps

LEMMA CascadeDefinitionPlans ==
  ASSUME Base, NEW t \in Txns, Plan(t), CascadeDefinition(t)
  PROVE  Rollback(t) \/ (db' = db /\ PlanSeen(t)')
<1>0. SUFFICES ASSUME ~Rollback(t) PROVE db' = db /\ PlanSeen(t)'
  OBVIOUS
<1>1. PICK d : d = txn[t].call.field
  OBVIOUS
<1> DEFINE x == Locks(Entries("asset_custom_field_key", d) \cup UsesOf(d), "all")
<1>2. Advance(t, "erase definition", <<x>>)
  BY <1>0, <1>1 DEF CascadeDefinition
<1>3. txn[t].pc = "deleteDefinition" /\ Claims(t) = txn[t].held
  BY ReadyClaims DEF CascadeDefinition
<1>4. /\ txn[t].level = "repeatable read"
      /\ Seen(t, Field(d)) # Absent
      /\ <<Field(d), "all">> \in Claims(t)
      /\ \A l \in Claims(t) : l[2] = "all" =>
            \/ l[1] = Field(d) \/ (Custom(l[1]) /\ l[1][3] = d)
            \/ l[1][1] = "asset_custom_field_key"
  BY <1>1, <1>3 DEF Plan, SweepPlan
<1>5. /\ \A r \in UsesOf(d) : <<r, "all">> \in x
      /\ \A l \in x : l[1] \in UsesOf(d) \/ l[1][1] = "asset_custom_field_key"
  BY EntriesIn DEF Locks
<1>6. \A r : r \in UsesOf(d) <=> Row(r) # Absent /\ Custom(r) /\ r[3] = d
  BY DEF UsesOf, Table, Present, Known, Row, Custom, AssignmentTable, ValueTable
<1> HIDE DEF x
<1>7. /\ db' = db /\ txn'[t].pc = "erase definition" /\ txn'[t].call = txn[t].call
      /\ txn'[t].level = txn[t].level /\ txn'[t].held = txn[t].held
      /\ txn'[t].seen = txn[t].seen
      /\ Claims(t)' = txn[t].held \cup x
  BY <1>2, AdvanceEffect, LeftOfOne DEF Base
<1>8. Rows' = Rows /\ \A r : Row(r)' = Row(r)
  BY <1>7, SameRows
<1>9. \A r : Seen(t, r)' = Seen(t, r)
  BY <1>7 DEF Seen
<1>a. \A r \in Rows' : Row(r)' # Absent /\ Custom(r) /\ r[3] = d => <<r, "all">> \in Claims(t)'
  BY <1>5, <1>6, <1>7, <1>8
<1>b. \A l \in Claims(t)' : l[2] = "all" =>
        \/ l[1] = Field(d) \/ (Custom(l[1]) /\ l[1][3] = d)
        \/ l[1][1] = "asset_custom_field_key"
  <2>1. \A l \in x : (Custom(l[1]) /\ l[1][3] = d) \/ l[1][1] = "asset_custom_field_key"
    BY <1>5, <1>6
  <2> QED
    BY <1>3, <1>4, <1>7, <2>1
<1>10. SweepPlan(t)'
  BY <1>1, <1>3, <1>4, <1>7, <1>9, <1>a, <1>b DEF SweepPlan
<1> QED
  BY <1>7, <1>10, PlansElsewhere DEF PlanSeen, Plan, InventoryOps, AssetOps

\* A call opens at read committed, whether it keeps what it read or not.
Opening(t, c, p, locks) ==
  Open(t, c, p, locks) \/ \E scope : OpenReading(t, c, p, locks, scope)

LEMMA OpeningEffect ==
  ASSUME Shape, NEW t \in Txns, NEW c, NEW p, NEW locks, Opening(t, c, p, locks)
  PROVE  /\ db' = db /\ txn'[t].pc = p /\ txn'[t].call = c
         /\ Claims(t)' = LeftIn(locks)
<1>1. CASE Open(t, c, p, locks)
  BY <1>1, OpenEffect
<1>2. CASE \E scope : OpenReading(t, c, p, locks, scope)
  BY <1>2, OpenReadingEffect
<1> QED
  BY <1>1, <1>2 DEF Opening

LEMMA StartRolePlans ==
  ASSUME Base, NEW t \in Txns, NEW c \in Calls, StartRoleCall(t, c)
  PROVE  Rollback(t) \/ (db' = db /\ PlanSeen(t)')
<1>0. SUFFICES ASSUME ~Rollback(t) PROVE db' = db /\ PlanSeen(t)'
  OBVIOUS
<1>s. Shape
  BY DEF Base
<1>r. ASSUME NEW p \in {"write role", "replace permissions", "cascade role"}, NEW locks,
             Opening(t, c, p, locks),
             p # "write role" => RoleOf(t, c) = c.role,
             p = "write role" => <<Role(RoleOf(t, c)), "new">> \in LeftIn(locks),
             \A l \in LeftIn(locks) : l[2] = "all" => l[1] = Role(RoleOf(t, c))
      PROVE  db' = db /\ PlanSeen(t)'
  <2>1. /\ db' = db /\ txn'[t].pc = p /\ txn'[t].call = c /\ Claims(t)' = LeftIn(locks)
    BY <1>s, <1>r, OpeningEffect
  <2>2. RolePlan(t)'
    BY <1>r, <2>1 DEF RolePlan
  <2> QED
    BY <2>1, <2>2, PlansElsewhere DEF PlanSeen, Plan, InventoryOps, AssetOps
<1>u. ASSUME NEW p \in {"write user", "replace roles"}, NEW locks, Opening(t, c, p, locks),
             p = "replace roles" => UserOf(t, c) = c.user,
             p = "write user" => <<User(UserOf(t, c)), "new">> \in LeftIn(locks),
             \A l \in LeftIn(locks) : l[2] = "all" => l[1] = User(UserOf(t, c))
      PROVE  db' = db /\ PlanSeen(t)'
  <2>1. /\ db' = db /\ txn'[t].pc = p /\ txn'[t].call = c /\ Claims(t)' = LeftIn(locks)
    BY <1>s, <1>u, OpeningEffect
  <2>2. UserPlan(t)'
    BY <1>u, <2>1 DEF UserPlan
  <2> QED
    BY <2>1, <2>2, PlansElsewhere DEF PlanSeen, Plan, InventoryOps, AssetOps
<1>1. CASE CreateRole(t, c)
  <2> DEFINE x == {<<Role(t), "new">>}
             y == {<<RoleName(c.name), "new">>}
             z == Locks({Permission(t, p) : p \in c.permissions}, "new")
  <2>1. Opening(t, c, "write role", <<x, y, z>>) /\ RoleOf(t, c) = t
    BY <1>1 DEF CreateRole, Opening, RoleOf
  <2>2. <<Role(t), "new">> \in x /\ \A l \in x \cup y \cup z : l[2] = "new"
    BY LocksOf
  <2> HIDE DEF x, y, z
  <2>3. LeftIn(<<x, y, z>>) = x \cup y \cup z
    BY LeftOfThree
  <2> QED
    BY <1>r, <2>1, <2>2, <2>3
<1>2. CASE UpdateRole(t, c)
  <2>1. PICK mode \in {"nokey", "all"} :
          OpenReading(t, c, "replace permissions", <<{<<Role(c.role), mode>>}>>,
                      Permissions(c.role) \cup Holders(c.role))
    BY <1>0, <1>2 DEF UpdateRole, UpdateModes
  <2>2. \A l \in LeftIn(<<{<<Role(c.role), mode>>}>>) : l[1] = Role(c.role)
    BY LeftOfOne
  <2>3. RoleOf(t, c) = c.role
    BY <1>2 DEF UpdateRole, RoleOf
  <2>4. Opening(t, c, "replace permissions", <<{<<Role(c.role), mode>>}>>)
    BY <2>1 DEF Opening
  <2> QED
    BY <1>r, <2>2, <2>3, <2>4
<1>3. CASE DeleteRole(t, c)
  <2> DEFINE x == Locks({Role(c.role)}, "all")
  <2>1. Opening(t, c, "cascade role", <<x>>) /\ RoleOf(t, c) = c.role
    BY <1>0, <1>3 DEF DeleteRole, Opening, RoleOf
  <2>2. \A l \in x : l[1] = Role(c.role)
    BY DEF Locks
  <2> HIDE DEF x
  <2>3. LeftIn(<<x>>) = x
    BY LeftOfOne
  <2> QED
    BY <1>r, <2>1, <2>2, <2>3
<1>4. CASE CreateUser(t, c) \/ CreateInitialAdmin(t, c)
  <2> DEFINE x == {<<User(t), "new">>}
             y == {<<Username(c.username), "new">>}
             z == {<<Email(c.email), "new">>}
             w == Locks({Role(r) : r \in c.roles}, "share")
  <2>1. Opening(t, c, "write user", <<x, y, z, w>>) /\ UserOf(t, c) = t
    BY <1>0, <1>4 DEF CreateUser, CreateInitialAdmin, InsertLocks, Opening, UserOf
  <2>2. <<User(t), "new">> \in x /\ \A l \in x \cup y \cup z \cup w : l[2] # "all"
    BY LocksOf
  <2> HIDE DEF x, y, z, w
  <2>3. LeftIn(<<x, y, z, w>>) = x \cup y \cup z \cup w
    BY LeftOfFour
  <2> QED
    BY <1>u, <2>1, <2>2, <2>3
<1>5. CASE UpdateUser(t, c)
  <2>1. PICK mode \in {"nokey", "all"} :
          OpenReading(t, c, "replace roles", <<{<<User(c.user), mode>>}>>, RolesOf(c.user))
    BY <1>0, <1>5 DEF UpdateUser, UpdateModes
  <2>2. \A l \in LeftIn(<<{<<User(c.user), mode>>}>>) : l[1] = User(c.user)
    BY LeftOfOne
  <2>3. UserOf(t, c) = c.user
    BY <1>5 DEF UpdateUser, UserOf
  <2>4. Opening(t, c, "replace roles", <<{<<User(c.user), mode>>}>>)
    BY <2>1 DEF Opening
  <2> QED
    BY <1>u, <2>2, <2>3, <2>4
<1> QED
  BY <1>1, <1>2, <1>3, <1>4, <1>5 DEF StartRoleCall

LEMMA OwnedPairs ==
  ASSUME NEW x
  PROVE  /\ \A r : r \in Permissions(x) <=> /\ r[1] = PermissionTable /\ r[2] = x
                                            /\ Row(r) # Absent
         /\ \A r : r \in RolesOf(x) <=> r[1] = HoldsTable /\ r[2] = x /\ Row(r) # Absent
         /\ \A r : r \in Holders(x) => r[1] = HoldsTable
BY DEF Permissions, RolesOf, Holders, Table, Present, Known, Row, PermissionTable, HoldsTable

LEMMA RoleMovesPlan ==
  ASSUME Base, NEW t \in Txns, Plan(t),
         ReplacePermissions(t) \/ CascadeRole(t) \/ ReplaceRoles(t)
  PROVE  Rollback(t) \/ (db' = db /\ PlanSeen(t)')
<1>0. SUFFICES ASSUME ~Rollback(t) PROVE db' = db /\ PlanSeen(t)'
  OBVIOUS
<1>s. Shape
  BY DEF Base
<1>c. PICK c : c = txn[t].call
  OBVIOUS
<1>1. CASE ReplacePermissions(t)
  <2>1. PICK role : role = c.role
    OBVIOUS
  <2>l. PICK locks : locks = PermissionLocks(t)
    OBVIOUS
  <2>2. Holding(t, Role(role)) /\ Advance(t, "write role", locks)
    BY <1>0, <1>1, <1>c, <2>1, <2>l DEF ReplacePermissions, PermissionLocks
  <2>3. txn[t].pc = "replace permissions" /\ Claims(t) = txn[t].held
    BY <1>1, ReadyClaims DEF ReplacePermissions
  <2>r. RoleOf(t, c) = role
    BY <1>c, <2>1, <2>3 DEF Plan, RolePlan
  <2>4. \A l \in Claims(t) : l[2] = "all" =>
          \/ l[1] = Role(role) \/ (l[1][1] = PermissionTable /\ l[1][2] = role)
          \/ l[1][1] \in {"role_name", "user_session"}
    BY <1>c, <2>r, <2>3 DEF Plan, RolePlan
  <2>5. \A l \in LeftIn(locks) : l[2] = "all" =>
          l[1][1] \in {"role_name", "user_session"} \/ l[1] \in Permissions(role)
    BY <1>c, <2>1, <2>l, PermissionLocksTaken
  <2>a. \A r \in Permissions(role) : <<r, "all">> \in LeftIn(locks)
    <3>1. locks[3] = Locks(Permissions(role), "all") /\ 3 \in DOMAIN locks
      BY <1>c, <2>1, <2>l DEF PermissionLocks
    <3> QED
      BY <3>1 DEF LeftIn, Locks
  <2>6. /\ db' = db /\ txn'[t].pc = "write role" /\ txn'[t].call = c
        /\ txn'[t].held = txn[t].held /\ Claims(t)' = txn[t].held \cup LeftIn(locks)
    BY <1>c, <1>s, <2>2, AdvanceEffect
  <2>7. Rows' = Rows /\ (\A r : Row(r)' = Row(r)) /\ Holding(t, Role(role))'
    BY <2>2, <2>6, SameRows DEF Holding
  <2>8. AllClaimed(t, PermissionTable, role)'
    BY <2>a, <2>6, <2>7, OwnedPairs DEF AllClaimed
  <2>9. \A l \in Claims(t)' : l[2] = "all" =>
          \/ l[1] = Role(role) \/ (l[1][1] = PermissionTable /\ l[1][2] = role)
          \/ l[1][1] \in {"role_name", "user_session"}
    <3>1. \A r \in Permissions(role) : r[1] = PermissionTable /\ r[2] = role
      BY OwnedPairs
    <3> QED
      BY <2>3, <2>4, <2>5, <2>6, <3>1
  <2>10. RolePlan(t)'
    BY <2>r, <2>6, <2>7, <2>8, <2>9 DEF RolePlan
  <2> QED
    BY <2>6, <2>10, PlansElsewhere DEF PlanSeen, Plan, InventoryOps, AssetOps
<1>2. CASE CascadeRole(t)
  <2>1. PICK role : role = c.role
    OBVIOUS
  <2> DEFINE x == Locks(Entries("role_name", role) \cup Permissions(role) \cup Holders(role), "all")
  <2>2. Holding(t, Role(role)) /\ Advance(t, "erase role", <<x>>)
    BY <1>0, <1>2, <1>c, <2>1 DEF CascadeRole
  <2>3. txn[t].pc = "cascade role" /\ Claims(t) = txn[t].held
    BY <1>2, ReadyClaims DEF CascadeRole
  <2>r. RoleOf(t, c) = role
    BY <1>c, <2>1, <2>3 DEF Plan, RolePlan
  <2>4. \A l \in Claims(t) : l[2] = "all" =>
          \/ l[1] = Role(role) \/ (l[1][1] = PermissionTable /\ l[1][2] = role)
          \/ l[1][1] \in {"role_name", "user_session"}
    BY <1>c, <2>r, <2>3 DEF Plan, RolePlan
  <2>5. /\ \A r \in Permissions(role) : <<r, "all">> \in x
        /\ \A l \in x : \/ l[1] \in Permissions(role) \/ l[1] \in Holders(role)
                       \/ l[1][1] = "role_name"
    BY EntriesIn DEF Locks
  <2> HIDE DEF x
  <2>6. /\ db' = db /\ txn'[t].pc = "erase role" /\ txn'[t].call = c
        /\ txn'[t].held = txn[t].held /\ Claims(t)' = txn[t].held \cup x
    BY <1>c, <1>s, <2>2, AdvanceEffect, LeftOfOne
  <2>7. Rows' = Rows /\ (\A r : Row(r)' = Row(r)) /\ Holding(t, Role(role))'
    BY <2>2, <2>6, SameRows DEF Holding
  <2>8. AllClaimed(t, PermissionTable, role)'
    BY <2>5, <2>6, <2>7, OwnedPairs DEF AllClaimed
  <2>9. \A l \in Claims(t)' : l[2] = "all" =>
          \/ l[1] = Role(role) \/ (l[1][1] = PermissionTable /\ l[1][2] = role)
          \/ l[1][1] \in {"role_name", "user_session"}
          \/ l[1][1] = HoldsTable
    <3>1. /\ \A r \in Permissions(role) : r[1] = PermissionTable /\ r[2] = role
          /\ \A r \in Holders(role) : r[1] = HoldsTable
      BY OwnedPairs
    <3>2. \A l \in x : \/ l[1][1] = PermissionTable /\ l[1][2] = role
                       \/ l[1][1] \in {"role_name", HoldsTable}
      BY <2>5, <3>1
    <3> QED
      BY <2>3, <2>4, <2>6, <3>2
  <2>10. RolePlan(t)'
    BY <2>1, <2>r, <2>6, <2>7, <2>8, <2>9 DEF RolePlan
  <2> QED
    BY <2>6, <2>10, PlansElsewhere DEF PlanSeen, Plan, InventoryOps, AssetOps
<1>3. CASE ReplaceRoles(t)
  <2>1. PICK user : user = c.user
    OBVIOUS
  <2>l. PICK locks : locks = AssignmentLocks(t)
    OBVIOUS
  <2>2. Holding(t, User(user)) /\ Advance(t, "write user", locks)
    BY <1>0, <1>3, <1>c, <2>1, <2>l DEF ReplaceRoles, AssignmentLocks
  <2>3. txn[t].pc = "replace roles" /\ Claims(t) = txn[t].held
    BY <1>3, ReadyClaims DEF ReplaceRoles
  <2>r. UserOf(t, c) = user
    BY <1>c, <2>1, <2>3 DEF Plan, UserPlan
  <2>4. \A l \in Claims(t) : l[2] = "all" =>
          \/ l[1] = User(user) \/ (l[1][1] = HoldsTable /\ l[1][2] = user)
          \/ l[1][1] \in {"user_profile_email", "user_session"}
    BY <1>c, <2>r, <2>3 DEF Plan, UserPlan
  <2>5. \A l \in LeftIn(locks) : l[2] = "all" =>
          l[1][1] \in {"user_profile_email", "user_session"} \/ l[1] \in RolesOf(user)
    BY <1>c, <2>1, <2>l, AssignmentLocksTaken
  <2>a. \A r \in RolesOf(user) : <<r, "all">> \in LeftIn(locks)
    <3>1. locks[3] = Locks(RolesOf(user), "all") /\ 3 \in DOMAIN locks
      BY <1>c, <2>1, <2>l DEF AssignmentLocks
    <3> QED
      BY <3>1 DEF LeftIn, Locks
  <2>6. /\ db' = db /\ txn'[t].pc = "write user" /\ txn'[t].call = c
        /\ txn'[t].held = txn[t].held /\ Claims(t)' = txn[t].held \cup LeftIn(locks)
    BY <1>c, <1>s, <2>2, AdvanceEffect
  <2>7. Rows' = Rows /\ (\A r : Row(r)' = Row(r)) /\ Holding(t, User(user))'
    BY <2>2, <2>6, SameRows DEF Holding
  <2>8. AllClaimed(t, HoldsTable, user)'
    BY <2>a, <2>6, <2>7, OwnedPairs DEF AllClaimed
  <2>9. \A l \in Claims(t)' : l[2] = "all" =>
          \/ l[1] = User(user) \/ (l[1][1] = HoldsTable /\ l[1][2] = user)
          \/ l[1][1] \in {"user_profile_email", "user_session"}
    <3>1. \A r \in RolesOf(user) : r[1] = HoldsTable /\ r[2] = user
      BY OwnedPairs
    <3> QED
      BY <2>3, <2>4, <2>5, <2>6, <3>1
  <2>10. UserPlan(t)'
    BY <2>r, <2>6, <2>7, <2>8, <2>9 DEF UserPlan
  <2> QED
    BY <2>6, <2>10, PlansElsewhere DEF PlanSeen, Plan, InventoryOps, AssetOps
<1> QED
  BY <1>1, <1>2, <1>3

LEMMA FindingMovesPlan ==
  ASSUME Base, NEW t \in Txns, Plan(t),
         \/ txn[t].pc = "idle" /\ \E c \in Calls : StartFindingCall(t, c)
         \/ FindingStep(t) /\ ~FindingCommit(t)
  PROVE  GivesUp(t) \/ (db' = db /\ PlanSeen(t)')
<1>0. SUFFICES ASSUME ~GivesUp(t) PROVE db' = db /\ PlanSeen(t)'
  OBVIOUS
<1>s. Shape /\ ~Rollback(t)
  BY <1>0, RollbackGivesUp DEF Base
<1>o. ASSUME NEW c, NEW p, NEW locks, Open(t, c, p, locks),
             p \notin AssetSteps \cup RoleSteps \cup {"write edit"},
             p = "edit" => c.op \in Edits
      PROVE  db' = db /\ PlanSeen(t)'
  <2>1. db' = db /\ txn'[t].pc = p /\ txn'[t].call = c
    BY <1>s, <1>o, OpenEffect
  <2>2. EditPlan(t)'
    BY <1>o, <2>1 DEF EditPlan
  <2> QED
    BY <1>o, <2>1, <2>2, PlansElsewhere
    DEF PlanSeen, Plan, InventoryOps, AssetOps, AssetSteps, RoleSteps
<1>a. ASSUME NEW p, NEW locks, Advance(t, p, locks),
             p \in {"touch", "write vulnerability", "record"}
      PROVE  db' = db /\ PlanSeen(t)'
  <2>1. db' = db /\ txn'[t].pc = p
    BY <1>s, <1>a, AdvanceEffect
  <2> QED
    BY <1>a, <2>1, PlansElsewhere DEF PlanSeen, Plan, InventoryOps, AssetOps
<1> DEFINE far(p) == p \notin AssetSteps \cup RoleSteps \cup {"write edit"}
<1>f. \A p \in {"edit", "createManual", "linkVulnerability", "unlinkVulnerability",
                "insert vulnerability", "rename vulnerability", "unlink all", "lock plan"} : far(p)
  BY DEF AssetSteps, RoleSteps
<1>1. CASE txn[t].pc = "idle" /\ \E c \in Calls : StartFindingCall(t, c)
  <2>1. PICK c \in Calls : StartFindingCall(t, c)
    BY <1>1
  <2>2. CASE StartEdit(t, c)
    BY <1>f, <1>o, <2>2 DEF StartEdit
  <2>3. CASE CreateManual(t, c)
    <3>1. \E locks : Open(t, c, "createManual", locks)
      BY <1>s, <2>3 DEF CreateManual
    <3> QED
      BY <1>f, <1>o, <3>1
  <2>4. CASE MutateVulnerabilityLink(t, c)
    <3>1. \E locks : Open(t, c, c.op, locks)
      BY <1>s, <2>4 DEF MutateVulnerabilityLink
    <3>2. far(c.op) /\ c.op # "edit"
      BY <1>f, <2>4 DEF MutateVulnerabilityLink
    <3> HIDE DEF far
    <3>3. PICK p : p = c.op
      OBVIOUS
    <3>4. PICK locks : Open(t, c, p, locks)
      BY <3>1, <3>3
    <3>5. far(p) /\ p # "edit"
      BY <3>2, <3>3
    <3>6. p \notin AssetSteps \cup RoleSteps \cup {"write edit"} /\ (p = "edit" => c.op \in Edits)
      BY <3>5 DEF far
    <3> QED
      BY <1>o, <3>4, <3>6
  <2>5. CASE CreateVulnerability(t, c)
    <3>1. \E locks : Open(t, c, "insert vulnerability", locks)
      BY <2>5 DEF CreateVulnerability
    <3> QED
      BY <1>f, <1>o, <3>1
  <2>6. CASE UpdateVulnerability(t, c)
    <3>1. \E locks : Open(t, c, "rename vulnerability", locks)
      BY <1>s, <2>6 DEF UpdateVulnerability
    <3> QED
      BY <1>f, <1>o, <3>1
  <2>7. CASE DeleteVulnerability(t, c)
    <3>1. \E locks : Open(t, c, "unlink all", locks)
      BY <2>7 DEF DeleteVulnerability
    <3> QED
      BY <1>f, <1>o, <3>1
  <2>8. CASE RecordPlan(t, c)
    <3>1. \E locks : Open(t, c, "lock plan", locks)
      BY <2>8 DEF RecordPlan
    <3> QED
      BY <1>f, <1>o, <3>1
  <2> QED
    BY <2>1, <2>2, <2>3, <2>4, <2>5, <2>6, <2>7, <2>8 DEF StartFindingCall
<1>2. CASE ReadEdit(t)
  <2> DEFINE own == Restricted(UNION {Of(f) \cup EntriesOf(f) : f \in Parents(txn[t].call)})
             locks == IF txn[t].call.op = "deleteByID"
                      THEN <<Locks(LinksOf(txn[t].call.finding), "all")>>
                      ELSE <<>>
  <2>0. /\ txn' = [txn EXCEPT ![t].pc = "write edit", ![t].seen = own, ![t].todo = locks]
        /\ db' = db
    BY <1>s, <1>2 DEF ReadEdit
  <2> HIDE DEF own, locks
  <2>1. /\ db' = db /\ txn'[t].pc = "write edit" /\ txn'[t].call = txn[t].call
    BY <1>s, <2>0 DEF Shape, Fields
  <2>2. txn[t].call.op \in Edits
    BY <1>2 DEF ReadEdit, Ready, Plan, EditPlan
  <2>3. EditPlan(t)'
    BY <2>1, <2>2 DEF EditPlan
  <2> QED
    BY <2>1, <2>3, PlansElsewhere DEF PlanSeen, Plan, InventoryOps, AssetOps
<1>3. CASE LinkInserted(t)
  <2>1. \E locks : Advance(t, "touch", locks)
    BY <1>3 DEF LinkInserted
  <2> QED
    BY <1>a, <2>1
<1>4. CASE LinkDeleted(t)
  <2>1. \E locks : Advance(t, "touch", locks)
    BY <1>4, <1>s DEF LinkDeleted
  <2> QED
    BY <1>a, <2>1
<1>5. CASE UnlinkAll(t)
  <2>1. \E locks : Advance(t, "write vulnerability", locks)
    BY <1>5, <1>s DEF UnlinkAll
  <2> QED
    BY <1>a, <2>1
<1>6. CASE LockPlan(t)
  <2>1. \E locks : Advance(t, "record", locks)
    BY <1>6, <1>s DEF LockPlan
  <2> QED
    BY <1>a, <2>1
<1>7. CASE RenameVulnerability(t)
  <2>1. \E locks : Advance(t, "write vulnerability", locks)
    BY <1>7, <1>s DEF RenameVulnerability
  <2> QED
    BY <1>a, <2>1
<1> QED
  BY <1>1, <1>2, <1>3, <1>4, <1>5, <1>6, <1>7 DEF FindingStep, FindingCommit

LEMMA AssetMovesPlan ==
  ASSUME Base, AssignedRows, NEW t \in Txns, Plan(t),
         \/ txn[t].pc = "idle" /\ \E c \in Calls : StartAssetCall(t, c)
         \/ AssetStep(t) /\ ~AssetCommit(t)
  PROVE  GivesUp(t) \/ (db' = db /\ PlanSeen(t)')
<1>0. SUFFICES ASSUME ~GivesUp(t) PROVE db' = db /\ PlanSeen(t)'
  OBVIOUS
<1>s. ~Rollback(t)
  BY <1>0, RollbackGivesUp
<1>p. ASSUME NEW c, Snaps(t, c), Plan(t)' PROVE db' = db /\ PlanSeen(t)'
  BY <1>p, SnapsPlanSeen DEF PlanSeen, Snaps
<1>1. ASSUME NEW c \in Calls, StartAssetCall(t, c) PROVE db' = db /\ PlanSeen(t)'
  <2>1. CASE \/ UpdateAsset(t, c) \/ AddIdentifier(t, c)
             \/ UpdateIdentifier(t, c) \/ DeleteIdentifier(t, c)
    BY <1>s, <1>p, <2>1, StartInventory
  <2>2. CASE DeleteAsset(t, c)
    BY <1>s, <2>2, StartDeletion DEF Snaps
  <2>3. CASE \/ CreateAsset(t, c) \/ CreateDefinition(t, c)
             \/ UpdateDefinition(t, c) \/ DeleteDefinition(t, c)
    BY <1>s, <2>3, StartDefinition
  <2>4. CASE ReplaceAssignments(t, c)
    BY <1>s, <1>p, <2>4, StartAssignments
  <2>5. CASE ReplaceValues(t, c)
    BY <1>s, <1>p, <2>5, StartValues
  <2> QED
    BY <1>1, <2>1, <2>2, <2>3, <2>4, <2>5 DEF StartAssetCall
<1>2. CASE CascadeAsset(t)
  BY <1>s, <1>2, CascadeAssetPlans
<1>3. CASE CascadeDefinition(t)
  BY <1>s, <1>3, CascadeDefinitionPlans
<1> QED
  BY <1>1, <1>2, <1>3 DEF AssetStep, AssetCommit

\* The same rows, and the same call with the same snapshot.
LEMMA SeenStays ==
  ASSUME NEW t, db' = db, txn'[t].pc = txn[t].pc, txn'[t].call = txn[t].call,
         txn'[t].seen = txn[t].seen, Chain(t), SawAssigned(t), Marks(t)
  PROVE  Chain(t)' /\ SawAssigned(t)' /\ Marks(t)'
<1>1. /\ Rows' = Rows /\ \A r : Row(r)' = Row(r)
      /\ \A r : Seen(t, r)' = Seen(t, r)
  BY SameRows DEF Seen
<1>2. Chain(t)'
  BY <1>1 DEF Chain, Swept, Owned
<1>3. SawAssigned(t)'
  BY <1>1 DEF SawAssigned
<1>4. Marks(t)'
  BY <1>1 DEF Marks
<1> QED
  BY <1>2, <1>3, <1>4

LEMMA ChainOfOthers ==
  ASSUME Base, Plans, NEW t \in Txns, Commits(t), NEW u \in Txns \ {t}, Still(u), Chain(u)
  PROVE  Chain(u)'
<1>1. /\ txn'[u].pc = txn[u].pc /\ txn'[u].call = txn[u].call
      /\ txn'[u].seen = txn[u].seen
      /\ \A r : Seen(u, r)' = Seen(u, r)
  BY StillFacts
<1>a. PICK a : a = txn[u].call.asset
  OBVIOUS
<1>2. SUFFICES ASSUME txn[u].pc \in AssetOps, Row(Asset(a))' = Seen(u, Asset(a)), NEW r
               PROVE  /\ Custom(r) /\ r[2] = a => Alike(Row(r)', Seen(u, r)) \/ Swept(r)'
                      /\ Owned(a, r, Row(r)') \/ Owned(a, r, Seen(u, r)) =>
                           Custom(r) \/ Row(r)' = Seen(u, r)
  BY <1>1, <1>a DEF Chain, Owned
<1>e. /\ Audits(t) /\ Signs(t) /\ Inserts(t) /\ txn[t].pc # "ended"
  BY DEF Commits, Effect
<1>3. Seen(u, Asset(a)) # Absent
  BY <1>a, <1>2 DEF AssetOps, Plans, Plan, InventoryPlan, AssignmentsPlan, ValuesPlan, Snapped
<1>4. \A q : Seen(u, q) # Absent => NotOf(t, q, Seen(u, q)) /\ q \in Rows
  BY <1>e DEF Base, Fresh, Seen, WellNamed
<1>5. Row(Asset(a))' = Row(Asset(a))
  <2>1. SUFFICES ASSUME Row(Asset(a))' # Row(Asset(a)) PROVE FALSE
    OBVIOUS
  <2>2. Asset(a)[1] = "asset" /\ "asset" \in Snapshots \ {"asset_identifier"}
    BY Tables DEF Snapshots, Indexes, AssetTables
  <2>3. Row(Asset(a))'.stamp = t
    BY <1>2, <1>3, <1>e, <2>1, <2>2 DEF Signs
  <2>4. Seen(u, Asset(a)).stamp # t
    BY <1>3, <1>4, <2>2 DEF NotOf
  <2> QED
    BY <1>2, <2>3, <2>4
<1>6. /\ Custom(r) /\ r[2] = a => Alike(Row(r), Seen(u, r)) \/ Swept(r)
      /\ Owned(a, r, Row(r)) \/ Owned(a, r, Seen(u, r)) => Custom(r) \/ Row(r) = Seen(u, r)
  <2>1. CASE r \in Rows
    BY <1>2, <1>5, <1>a, <2>1 DEF Chain
  <2>2. CASE r \notin Rows
    <3>1. Row(r) = Absent /\ Seen(u, r) = Absent
      BY <1>4, <2>2 DEF Row
    <3> QED
      BY <3>1, AlikeLaws DEF Owned
  <2> QED
    BY <2>1, <2>2
<1>7. ASSUME Custom(r), r[2] = a PROVE Alike(Row(r)', Seen(u, r)) \/ Swept(r)'
  <2>1. Alike(Row(r)', Row(r)) \/ Swept(r)'
    BY <1>5, <1>7, <1>e DEF Audits
  <2>2. CASE Alike(Row(r)', Row(r)) /\ Alike(Row(r), Seen(u, r))
    BY <2>2, AlikeLaws
  <2>3. CASE Alike(Row(r)', Row(r)) /\ Swept(r)
    <3>1. Row(r)' = Absent /\ Row(Field(r[3])) = Absent
      BY <2>3 DEF Alike, Swept
    <3>2. CASE Row(Field(r[3]))' = Absent
      BY <1>7, <3>1, <3>2 DEF Swept
    <3>3. CASE Row(Field(r[3]))' # Absent
      <4>1. Field(r[3]) \in Generated(t)
        BY <1>e, <3>1, <3>3, Tables DEF Inserts
      <4>2. r[3] = t
        BY <4>1, Tables, NewNames DEF Generated
      <4>3. Seen(u, r) = Absent
        <5>1. SUFFICES ASSUME Seen(u, r) # Absent PROVE FALSE
          OBVIOUS
        <5>2. NotOf(t, r, Seen(u, r))
          BY <1>4, <5>1
        <5>3. r[1] \in Snapshots \ {"asset_identifier"}
          BY <1>7 DEF Custom, Snapshots, Indexes, AssetTables, AssignmentTable, ValueTable
        <5> QED
          BY <1>7, <4>2, <5>2, <5>3 DEF NotOf
      <4> QED
        BY <3>1, <4>3, AlikeLaws
    <3> QED
      BY <3>2, <3>3
  <2> QED
    BY <1>6, <1>7, <2>1, <2>2, <2>3
<1>8. ASSUME ~Custom(r), Owned(a, r, Row(r)') \/ Owned(a, r, Seen(u, r))
      PROVE  Row(r)' = Seen(u, r)
  <2>1. r[1] = "asset_identifier"
    BY <1>8 DEF Owned
  <2>2. Owned(a, r, Row(r)) \/ Owned(a, r, Row(r)') => Row(r)' = Row(r)
    BY <1>5, <1>e, <2>1 DEF Audits
  <2> QED
    BY <1>6, <1>8, <2>2
<1> QED
  BY <1>7, <1>8

LEMMA MarksOfOthers ==
  ASSUME Base, NEW t \in Txns, Commits(t), NEW u \in Txns \ {t}, Still(u), Marks(u)
  PROVE  Marks(u)'
<1>1. /\ txn'[u].pc = txn[u].pc /\ txn'[u].seen = txn[u].seen
      /\ \A r : Seen(u, r)' = Seen(u, r)
  BY StillFacts
<1>2. SUFFICES ASSUME txn[u].pc \in {"replaceAssignments", "replaceValues"},
                      NEW r, NEW q \in DOMAIN txn[u].seen,
                      Custom(r), Custom(q), r[2] = q[2],
                      Row(r)' # Absent, Row(r)' # Seen(u, r), Seen(u, q) # Absent
               PROVE  Row(r)'.stamp # Seen(u, q).stamp
  BY <1>1 DEF Marks
<1>3. CASE Row(r)' = Row(r)
  <2>1. r \in Rows
    BY <1>2, <1>3 DEF Row
  <2> QED
    BY <1>2, <1>3, <2>1 DEF Marks
<1>4. CASE Row(r)' # Row(r)
  <2>1. {r[1], q[1]} \subseteq Snapshots \ {"asset_identifier"}
    BY <1>2 DEF Custom, Snapshots, Indexes, AssetTables, AssignmentTable, ValueTable
  <2>2. Row(r)'.stamp = t
    BY <1>2, <1>4, <2>1 DEF Commits, Effect, Signs
  <2>3. NotOf(t, q, Seen(u, q))
    BY <1>2 DEF Base, Fresh, Commits
  <2> QED
    BY <2>1, <2>2, <2>3 DEF NotOf
<1> QED
  BY <1>3, <1>4

-----------------------------------------------------------------------------
\* Every step keeps the plans and what they rest on.

LEMMA GivingUp ==
  ASSUME Shape, NEW t \in Txns, GivesUp(t)
  PROVE  db' = db /\ Ends(t) /\ PlanSeen(t)'
BY EndedEffect, EndsPlanSeen DEF GivesUp, Ends

CommitStep(t) == FindingCommit(t) \/ AssetCommit(t) \/ RoleCommit(t)

\* A step of the transaction: the rows stay as they are, or it commits.
Proceeds(t) ==
  /\ Stepped(t)
  /\ PlanSeen(t)'
  /\ \/ db' = db
     \/ /\ CommitStep(t) /\ Commits(t) /\ References'
        /\ WholeTable(PermissionTable)' /\ WholeTable(HoldsTable)'

LEMMA OwnStep ==
  ASSUME Base, Plans, References, Chained, SeenAssigned, Marked, AssignedRows, WholeRows,
         NEW t \in Txns, StepOf(t)
  PROVE  Proceeds(t)
<1>s. Shape /\ Reach /\ PlanSeen(t) /\ Plan(t)
  BY DEF Base, Plans, Chained, SeenAssigned, Marked, PlanSeen
<1>g. ASSUME GivesUp(t) PROVE Proceeds(t)
  BY <1>g, <1>s, GivingUp DEF Proceeds, Stepped
<1>r. ASSUME Rollback(t) PROVE Proceeds(t)
  BY <1>g, <1>r, RollbackGivesUp
<1>c. ASSUME CommitStep(t) PROVE Proceeds(t)
  <2>1. \/ GivesUp(t)
        \/ /\ Commits(t) /\ References'
           /\ WholeTable(PermissionTable)' /\ WholeTable(HoldsTable)'
    BY <1>c, CommitKinds DEF CommitStep
  <2>2. ASSUME Commits(t) PROVE PlanSeen(t)'
    BY <2>2, EndsPlanSeen DEF Commits, Ends
  <2> QED
    BY <1>c, <1>g, <2>1, <2>2 DEF Proceeds, Stepped
<1>m. ASSUME db' = db, PlanSeen(t)', ~CommitStep(t) PROVE Proceeds(t)
  <2>1. StepKind(t)
    BY <1>s, StepKinds
  <2>2. LockStep(t) \/ Moves(t) \/ GivesUp(t)
    BY <1>m, <2>1 DEF StepKind, LockStep, Moves, CommitStep
  <2> QED
    BY <1>g, <1>m, <2>2 DEF Proceeds, Stepped
<1>1. CASE Begin(t)
  <2>1. PICK c \in Calls : \/ StartFindingCall(t, c)
                           \/ StartAssetCall(t, c)
                           \/ StartRoleCall(t, c)
    BY <1>1 DEF Begin
  <2>2. txn[t].pc = "idle"
    BY <1>1 DEF Begin
  <2>3. GivesUp(t) \/ Rollback(t) \/ (db' = db /\ PlanSeen(t)')
    BY <1>s, <2>1, <2>2, FindingMovesPlan, AssetMovesPlan, StartRolePlans
  <2> QED
    BY <1>c, <1>g, <1>m, <1>r, <2>3
<1>2. CASE Lock(t)
  <2>1. Rollback(t) \/ LockStep(t)
    BY <1>s, <1>2, LockEffect DEF LockStep
  <2>2. ASSUME LockStep(t) PROVE db' = db /\ PlanSeen(t)'
    BY <1>s, <2>2, LockKeepsPlan, SeenStays DEF LockStep, SameCall, PlanSeen
  <2> QED
    BY <1>c, <1>m, <1>r, <2>1, <2>2
<1>3. CASE Fail(t)
  BY <1>3, <1>r DEF Fail
<1>4. CASE FindingStep(t)
  <2>1. FindingCommit(t) \/ GivesUp(t) \/ (db' = db /\ PlanSeen(t)')
    BY <1>s, <1>4, FindingMovesPlan
  <2> QED
    BY <1>c, <1>g, <1>m, <2>1 DEF CommitStep
<1>5. CASE AssetStep(t)
  <2>1. AssetCommit(t) \/ GivesUp(t) \/ (db' = db /\ PlanSeen(t)')
    BY <1>s, <1>5, AssetMovesPlan
  <2> QED
    BY <1>c, <1>g, <1>m, <2>1 DEF CommitStep
<1>6. CASE RoleStep(t)
  <2>1. RoleCommit(t) \/ ReplacePermissions(t) \/ CascadeRole(t) \/ ReplaceRoles(t)
    BY <1>6 DEF RoleStep, RoleCommit
  <2>2. RoleCommit(t) \/ Rollback(t) \/ (db' = db /\ PlanSeen(t)')
    BY <1>s, <2>1, RoleMovesPlan
  <2> QED
    BY <1>c, <1>m, <1>r, <2>2 DEF CommitStep
<1> QED
  BY <1>1, <1>2, <1>3, <1>4, <1>5, <1>6 DEF StepOf

LEMMA OthersStep ==
  ASSUME Base, Plans, Chained, SeenAssigned, Marked, NEW t \in Txns, Proceeds(t),
         NEW u \in Txns \ {t}
  PROVE  PlanSeen(u)'
<1>1. Stepped(t) /\ (db' = db \/ Commits(t)) /\ Plan(u) /\ Still(u)
  BY SteppedOthers DEF Proceeds, Plans
<1>2. Plan(u)'
  BY <1>1, PlansOfOthers
<1>3. Chain(u) /\ SawAssigned(u) /\ Marks(u)
  BY DEF Chained, SeenAssigned, Marked
<1>4. SawAssigned(u)'
  BY <1>1, <1>3, PlanStays
<1>5. CASE db' = db
  BY <1>1, <1>2, <1>3, <1>5, SeenStays, StillFacts DEF PlanSeen
<1>6. CASE Commits(t)
  BY <1>1, <1>2, <1>3, <1>4, <1>6, ChainOfOthers, MarksOfOthers DEF PlanSeen
<1> QED
  BY <1>1, <1>5, <1>6

LEMMA StepKeepsPlans ==
  ASSUME Base, Plans, References, Chained, SeenAssigned, Marked, AssignedRows, WholeRows,
         NEW t \in Txns, StepOf(t)
  PROVE  Base' /\ Plans' /\ References' /\ Chained' /\ SeenAssigned' /\ Marked'
<1>1. Proceeds(t)
  BY OwnStep
<1>2. Base'
  BY <1>1, BaseStays DEF Proceeds
<1>3. \A u \in Txns : PlanSeen(u)'
  BY <1>1, OthersStep DEF Proceeds
<1>4. Plans' /\ Chained' /\ SeenAssigned' /\ Marked'
  BY <1>3 DEF Plans, Chained, SeenAssigned, Marked, PlanSeen
<1>5. References'
  <2>1. CASE db' = db
    BY <2>1, SameRows DEF References
  <2> QED
    BY <1>1, <2>1 DEF Proceeds
<1> QED
  BY <1>2, <1>4, <1>5

-----------------------------------------------------------------------------
\* What the commits of assets do to assignments and values.

\* The values of an asset are of fields assigned to it, the assignments of an
\* asset are of one call, and so are its values.
CustomWhole == AssignedRows /\ WholeTable(AssignmentTable) /\ WholeTable(ValueTable)

LEMMA CustomKept ==
  ASSUME CustomWhole, \A r : Custom(r) => Row(r)' = Row(r)
  PROVE  CustomWhole'
<1>1. \A r : r[1] = ValueTable \/ r[1] = AssignmentTable => Row(r)' = Row(r)
  BY DEF Custom
<1>2. AssignedRows'
  BY <1>1, Tables DEF CustomWhole, AssignedRows
<1>3. WholeTable(AssignmentTable)' /\ WholeTable(ValueTable)'
  BY <1>1 DEF CustomWhole, WholeTable
<1> QED
  BY <1>2, <1>3 DEF CustomWhole

\* A deletion takes the value with the assignment.
LEMMA CustomErased ==
  ASSUME CustomWhole,
         \A r : Custom(r) => Row(r)' \in {Row(r), Absent},
         \A r : /\ r[1] = ValueTable /\ Row(r) # Absent
                /\ Row(Assigned(r[2], r[3]))' # Row(Assigned(r[2], r[3]))
                => Row(r)' = Absent
  PROVE  CustomWhole'
<1>1. \A r : r[1] = ValueTable \/ r[1] = AssignmentTable => Row(r)' \in {Row(r), Absent}
  BY DEF Custom
<1>2. ASSUME NEW r, r[1] = ValueTable, Row(r)' # Absent
      PROVE  Row(Assigned(r[2], r[3]))' # Absent
  <2>1. Row(r)' = Row(r) /\ Row(r) # Absent
    BY <1>1, <1>2
  <2>2. Row(Assigned(r[2], r[3])) # Absent
    BY <1>2, <2>1 DEF CustomWhole, AssignedRows
  <2> QED
    BY <1>2, <2>1, <2>2
<1>3. AssignedRows'
  BY <1>2 DEF AssignedRows
<1>4. WholeTable(AssignmentTable)' /\ WholeTable(ValueTable)'
  BY <1>1 DEF CustomWhole, WholeTable
<1> QED
  BY <1>3, <1>4 DEF CustomWhole

LEMMA ErasedRows ==
  ASSUME NEW t, NEW old, Commit(t, Erased(old))
  PROVE  \A r : Row(r)' = IF r \in old THEN Absent ELSE Row(r)
<1> DEFINE W == Erased(old)
<1>1. Commit(t, W) /\ DOMAIN W = old /\ \A r \in old : W[r] = Absent
  BY DEF Erased
<1> HIDE DEF W
<1> QED
  BY <1>1, RowAfter

LEMMA CustomOfInventory ==
  ASSUME Base, Plans, CustomWhole, NEW t \in Txns,
         WriteAsset(t) \/ WriteInventory(t) \/ WriteDefinition(t)
  PROVE  CustomWhole'
<1>k. \A r : Custom(r) => /\ r[1] \in {AssignmentTable, ValueTable}
                          /\ \A x : /\ r # Asset(x) /\ r # Field(x)
                                    /\ r # Key(x) /\ r # Identifier(x)
  BY Tables DEF Custom, AssignmentTable, ValueTable
<1>1. CASE WriteAsset(t)
  <2> DEFINE keys == txn[t].call.keys
             K == [r \in {Key(k) : k \in keys} |-> [stamp |-> t]]
             N == [r \in {NewIdentifier(t, k) : k \in keys} |->
                     [asset |-> t, key |-> r[2][2], stamp |-> t]]
             A == Audited(t, t)
             W == K ++ N ++ A
  <2>1. Commit(t, W)
    BY <1>1 DEF WriteAsset
  <2>2. /\ DOMAIN K = {Key(k) : k \in keys} /\ DOMAIN N = {NewIdentifier(t, k) : k \in keys}
        /\ DOMAIN A = {Asset(t)}
    BY DEF Audited, Put
  <2>3. \A r \in DOMAIN K \cup DOMAIN N \cup DOMAIN A : ~Custom(r)
    BY <1>k, <2>2 DEF NewIdentifier
  <2> HIDE DEF K, N, A
  <2>4. DOMAIN W = DOMAIN K \cup DOMAIN N \cup DOMAIN A
    <3> DEFINE f == K ++ N
    <3>1. DOMAIN f = DOMAIN K \cup DOMAIN N
      BY Prevails
    <3>2. W = f ++ A
      OBVIOUS
    <3> HIDE DEF f, W
    <3>3. DOMAIN W = DOMAIN f \cup DOMAIN A
      BY <3>2, Prevails
    <3> QED
      BY <3>1, <3>3
  <2> HIDE DEF W
  <2>5. \A r : Custom(r) => Row(r)' = Row(r)
    BY <2>1, <2>3, <2>4, RowAfter
  <2> QED
    BY <2>5, CustomKept
<1>2. CASE WriteDefinition(t)
  <2>1. \A r : Custom(r) => Row(r)' = Row(r)
    BY <1>2, WriteDefinitionEffect
  <2> QED
    BY <2>1, CustomKept
<1>3. CASE WriteInventory(t)
  <2>1. \A r : Custom(r) => Row(r)' = Row(r)
    BY <1>3, WriteInventoryEffect
  <2> QED
    BY <2>1, CustomKept
<1> QED
  BY <1>1, <1>2, <1>3

LEMMA CustomOfDeletion ==
  ASSUME Base, Plans, CustomWhole, NEW t \in Txns, EraseAsset(t)
  PROVE  CustomWhole'
<1>0. PICK a : a = txn[t].call.asset
  OBVIOUS
<1>1. PICK keys : /\ keys = {Key(db[i].key) : i \in Locked(t) \cap Identifiers(a)}
                  /\ Commit(t, Erased(Locked(t) \cup keys))
  BY <1>0 DEF EraseAsset
<1>2. txn[t].pc = "erase asset" /\ Claims(t) = txn[t].held /\ ClaimsOn(t, AssetTables)
  BY ReadyClaims, AssetClaims DEF EraseAsset, Base, AssetSteps
<1>3. \A r \in keys : ~Custom(r)
  BY <1>1, Tables DEF Custom, AssignmentTable, ValueTable
<1>4. \A r : Row(r)' = IF r \in Locked(t) \cup keys THEN Absent ELSE Row(r)
  BY <1>1, ErasedRows
<1>5. /\ \A r \in Rows : Row(r) # Absent /\ Owned(a, r, Row(r)) => <<r, "all">> \in txn[t].held
      /\ \A l \in txn[t].held : l[2] = "all" =>
           \/ l[1] = Asset(a)
           \/ Custom(l[1]) /\ l[1][2] = a
           \/ l[1][1] = "asset_identifier"
  BY <1>0, <1>2 DEF Plans, Plan, DeletionPlan
<1>6. ASSUME NEW r, r[1] = ValueTable, Row(r) # Absent,
             Row(Assigned(r[2], r[3]))' # Row(Assigned(r[2], r[3]))
      PROVE  Row(r)' = Absent
  <2> DEFINE p == Assigned(r[2], r[3])
  <2>1. p[1] = AssignmentTable /\ p[2] = r[2] /\ Custom(p)
    BY Tables DEF Custom
  <2>2. p \in Locked(t)
    BY <1>3, <1>4, <1>6, <2>1
  <2> HIDE DEF p
  <2>3. <<p, "all">> \in txn[t].held /\ <<p, "all">>[1] = p /\ <<p, "all">>[2] = "all"
    BY <1>2, <2>2, LockedIsHeld DEF Base
  <2>4. p # Asset(a) /\ p[1] # "asset_identifier"
    BY <2>1, Tables DEF AssignmentTable
  <2>5. p[2] = a
    BY <1>5, <2>3, <2>4
  <2>6. r \in Rows /\ Owned(a, r, Row(r))
    BY <1>6, <2>1, <2>5 DEF Row, Owned, Custom
  <2>7. <<r, "all">> \in txn[t].held
    BY <1>5, <1>6, <2>6
  <2>8. r \in Locked(t)
    BY <2>7 DEF Locked
  <2> QED
    BY <1>4, <2>8
<1> QED
  BY <1>4, <1>6, CustomErased

LEMMA CustomOfSweep ==
  ASSUME Base, Plans, CustomWhole, NEW t \in Txns, EraseDefinition(t)
  PROVE  CustomWhole'
<1>0. PICK d : d = txn[t].call.field
  OBVIOUS
<1>2. txn[t].pc = "erase definition" /\ Claims(t) = txn[t].held /\ ClaimsOn(t, AssetTables)
  BY ReadyClaims, AssetClaims DEF EraseDefinition, Base, AssetSteps
<1>4. \A r : Row(r)' = IF r \in Locked(t) THEN Absent ELSE Row(r)
  BY ErasedRows DEF EraseDefinition
<1>5. /\ \A r \in Rows : Row(r) # Absent /\ Custom(r) /\ r[3] = d => <<r, "all">> \in txn[t].held
      /\ \A l \in txn[t].held : l[2] = "all" =>
           \/ l[1] = Field(d)
           \/ Custom(l[1]) /\ l[1][3] = d
           \/ l[1][1] = "asset_custom_field_key"
  BY <1>0, <1>2 DEF Plans, Plan, SweepPlan
<1>6. ASSUME NEW r, r[1] = ValueTable, Row(r) # Absent,
             Row(Assigned(r[2], r[3]))' # Row(Assigned(r[2], r[3]))
      PROVE  Row(r)' = Absent
  <2> DEFINE p == Assigned(r[2], r[3])
  <2>1. p[1] = AssignmentTable /\ p[3] = r[3]
    BY Tables
  <2>2. p \in Locked(t)
    BY <1>4, <1>6
  <2> HIDE DEF p
  <2>3. <<p, "all">> \in txn[t].held /\ <<p, "all">>[1] = p /\ <<p, "all">>[2] = "all"
    BY <1>2, <2>2, LockedIsHeld DEF Base
  <2>4. p # Field(d) /\ p[1] # "asset_custom_field_key"
    BY <2>1, Tables DEF AssignmentTable
  <2>5. p[3] = d
    BY <1>5, <2>3, <2>4
  <2>6. r \in Rows /\ Custom(r)
    BY <1>6 DEF Row, Custom
  <2>7. <<r, "all">> \in txn[t].held
    BY <1>5, <1>6, <2>1, <2>5, <2>6
  <2>8. r \in Locked(t)
    BY <2>7 DEF Locked
  <2> QED
    BY <1>4, <2>8
<1> QED
  BY <1>4, <1>6, CustomErased

\* The rows after a replacement.
LEMMA CustomReplaced ==
  ASSUME NEW t, NEW a, NEW new, NEW old,
         Commit(t, new ++ Erased(old) ++ MaybeAudited(t, a)),
         \A r \in DOMAIN new \cup old : Custom(r)
  PROVE  \A r : Custom(r) =>
           Row(r)' = IF r \in DOMAIN new THEN new[r] ELSE IF r \in old THEN Absent ELSE Row(r)
<1>1. ~Custom(Asset(a))
  BY Tables DEF Custom, AssignmentTable, ValueTable
<1>2. Asset(a) \notin DOMAIN new \cup old
  BY <1>1
<1>3. /\ \A r \in DOMAIN new : Row(r)' = new[r]
      /\ \A r \in old \ DOMAIN new : Row(r)' = Absent
      /\ \A r : r \notin DOMAIN new \cup old \cup {Asset(a)} => Row(r)' = Row(r)
  BY <1>2, Replacement
<1> QED
  BY <1>1, <1>3

\* While it holds the asset for the audit columns, the asset's custom fields are as
\* they were seen, or swept.
LEMMA HeldChain ==
  ASSUME Base, NEW t \in Txns, Chain(t), Snapped(t),
         txn[t].pc \in {"replaceAssignments", "replaceValues"},
         <<Asset(txn[t].call.asset), "nokey">> \in txn[t].held,
         NEW r, Custom(r), r[2] = txn[t].call.asset
  PROVE  Alike(Row(r), Seen(t, r)) \/ Swept(r)
<1>0. PICK a : a = txn[t].call.asset
  OBVIOUS
<1>1. Row(Asset(a)) = Seen(t, Asset(a))
  <2>1. /\ txn[t].level = "repeatable read" /\ Seen(t, Asset(a)) # Absent
        /\ <<Asset(a), "nokey">> \in txn[t].held /\ Asset(a)[1] \in Snapshots
    BY <1>0, Tables DEF Snapped, Snapshots, Indexes, AssetTables
  <2> QED
    BY <2>1, HeldSeen
<1>2. CASE r \in Rows
  BY <1>0, <1>1, <1>2 DEF Chain, AssetOps
<1>3. CASE r \notin Rows
  <2>1. Row(r) = Absent /\ Seen(t, r) = Absent
    BY <1>3 DEF Row, Seen, Base, WellNamed
  <2> QED
    BY <2>1, AlikeLaws
<1> QED
  BY <1>2, <1>3

\* A replacement of all rows that an asset has in a table: one that is kept was
\* seen, and then replaced, or came later, and then it is refused.
LEMMA WholeReplaced ==
  ASSUME Base, NEW t \in Txns, Chain(t), Marks(t), Snapped(t),
         txn[t].pc \in {"replaceAssignments", "replaceValues"},
         NEW table \in {AssignmentTable, ValueTable}, WholeTable(table),
         NEW a, a = txn[t].call.asset,
         NEW rows, \A r \in rows : r[1] = table /\ r[2] = a /\ Row(r)'.stamp = t,
         \A r : r[1] = table /\ r \notin rows =>
           Row(r)' = IF r \in Locked(t) THEN Absent ELSE Row(r),
         \A r \in DOMAIN txn[t].seen : Seen(t, r) # Absent /\ r[1] = table /\ r[2] = a =>
           <<r, "all">> \in txn[t].held,
         <<Asset(a), "nokey">> \in txn[t].held \/ \A r \in rows : Seen(t, r) # Absent
  PROVE  WholeTable(table)'
<1>1. \A r : r[1] = table => Custom(r) /\ r[1] \in Snapshots
  BY DEF Custom, Snapshots, Indexes, AssetTables, AssignmentTable, ValueTable
<1>2. ASSUME NEW x \in rows, NEW y, y[1] = table, x[2] = y[2], y \notin rows, Row(y)' # Absent
      PROVE  FALSE
  <2>1. y \notin Locked(t) /\ Row(y) # Absent /\ y[2] = a /\ x[1] = table
    BY <1>2
  <2>2. Seen(t, y) = Absent
    <3>1. SUFFICES ASSUME Seen(t, y) # Absent PROVE FALSE
      OBVIOUS
    <3>2. <<y, "all">> \in txn[t].held
      BY <1>2, <2>1, <3>1 DEF Seen
    <3>3. y \in Locked(t)
      BY <3>2 DEF Locked
    <3> QED
      BY <2>1, <3>3
  <2>3. CASE <<Asset(a), "nokey">> \in txn[t].held
    <3>1. Alike(Row(y), Seen(t, y)) \/ Swept(y)
      BY <1>1, <1>2, <2>1, <2>3, HeldChain
    <3> QED
      BY <2>1, <2>2, <3>1 DEF Alike, Swept
  <2>4. CASE \A r \in rows : Seen(t, r) # Absent
    <3>1. Seen(t, x) # Absent /\ x \in DOMAIN txn[t].seen
      BY <2>4 DEF Seen
    <3>2. <<x, "all">> \in txn[t].held
      BY <2>1, <3>1
    <3>3. Row(x) = Seen(t, x)
      BY <1>1, <2>1, <3>1, <3>2, HeldSeen DEF Snapped
    <3>4. y \in Rows /\ Row(y) # Seen(t, y)
      BY <2>1, <2>2 DEF Row
    <3>5. Row(y).stamp # Seen(t, x).stamp
      BY <1>1, <1>2, <2>1, <3>1, <3>4 DEF Marks
    <3> QED
      BY <1>2, <2>1, <3>1, <3>3, <3>5 DEF WholeTable
  <2> QED
    BY <2>3, <2>4
<1>3. ASSUME NEW x, NEW y, x[1] = table, y[1] = table, x[2] = y[2],
             Row(x)' # Absent, Row(y)' # Absent
      PROVE  Row(x)'.stamp = Row(y)'.stamp
  <2>1. CASE x \in rows /\ y \in rows
    BY <2>1
  <2>2. CASE x \notin rows /\ y \notin rows
    <3>1. Row(x)' = Row(x) /\ Row(y)' = Row(y)
      BY <1>3, <2>2
    <3> QED
      BY <1>3, <3>1 DEF WholeTable
  <2> QED
    BY <1>2, <1>3, <2>1, <2>2
<1> QED
  BY <1>3 DEF WholeTable

LEMMA CustomOfAssignments ==
  ASSUME Base, Plans, SeenAssigned, Chained, Marked, CustomWhole,
         NEW t \in Txns, WriteAssignments(t)
  PROVE  CustomWhole'
<1>0. PICK c : c = txn[t].call
  OBVIOUS
<1>a. PICK a : a = c.asset
  OBVIOUS
<1> DEFINE new == [r \in {Assigned(a, d) : d \in c.fields} |-> [stamp |-> t]]
<1>1. Commit(t, new ++ Erased(Locked(t)) ++ MaybeAudited(t, a))
  BY <1>0, <1>a DEF WriteAssignments
<1>2. txn[t].pc = "replaceAssignments" /\ Claims(t) = txn[t].held /\ ClaimsOn(t, AssetTables)
  BY ReadyClaims, AssetClaims DEF WriteAssignments, Base, AssetSteps
<1>4. /\ Snapped(t) /\ Chain(t) /\ Marks(t)
      /\ \A r \in DOMAIN txn[t].seen : Seen(t, r) # Absent /\ Custom(r) /\ r[2] = a =>
           <<r, "all">> \in txn[t].held \/ (r[1] = ValueTable /\ r[3] \in c.fields)
      /\ \/ <<Asset(a), "nokey">> \in txn[t].held
         \/ /\ \A d \in c.fields : SawField(t, AssignmentTable, d)
            /\ \A r \in DOMAIN txn[t].seen :
                 Seen(t, r) # Absent /\ r[1] = AssignmentTable /\ r[2] = a => r[3] \in c.fields
      /\ \A l \in txn[t].held : l[2] = "all" =>
           Seen(t, l[1]) # Absent /\ Custom(l[1]) /\ l[1][2] = a
  <2>1. AssignmentsPlan(t) /\ Chain(t) /\ Marks(t)
    BY DEF Plans, Plan, Chained, Marked
  <2>2. Snapped(t)
    BY <1>2, <2>1 DEF AssignmentsPlan
  <2>3. \A r \in DOMAIN txn[t].seen : Seen(t, r) # Absent /\ Custom(r) /\ r[2] = a =>
          <<r, "all">> \in txn[t].held \/ (r[1] = ValueTable /\ r[3] \in c.fields)
    BY <1>0, <1>a, <1>2, <2>1 DEF AssignmentsPlan
  <2>4. \/ <<Asset(a), "nokey">> \in txn[t].held
        \/ /\ \A d \in c.fields : SawField(t, AssignmentTable, d)
           /\ \A r \in DOMAIN txn[t].seen :
                Seen(t, r) # Absent /\ r[1] = AssignmentTable /\ r[2] = a => r[3] \in c.fields
    BY <1>0, <1>a, <1>2, <2>1 DEF AssignmentsPlan
  <2>5. \A l \in txn[t].held : l[2] = "all" =>
          Seen(t, l[1]) # Absent /\ Custom(l[1]) /\ l[1][2] = a
    BY <1>0, <1>a, <1>2, <2>1 DEF AssignmentsPlan
  <2> QED
    BY <2>1, <2>2, <2>3, <2>4, <2>5
<1>5. /\ \A r \in DOMAIN new : \E d \in c.fields : r = Assigned(a, d)
      /\ \A d \in c.fields : Assigned(a, d) \in DOMAIN new
      /\ \A r \in DOMAIN new : new[r] = [stamp |-> t]
  OBVIOUS
<1> HIDE DEF new
<1>6. \A r \in DOMAIN new : Custom(r) /\ r[1] = AssignmentTable /\ r[2] = a
  BY <1>5, Tables DEF Custom
<1>7. ASSUME NEW r \in Locked(t)
      PROVE  Seen(t, r) # Absent /\ Custom(r) /\ r[2] = a
  <2>1. <<r, "all">> \in txn[t].held /\ <<r, "all">>[1] = r /\ <<r, "all">>[2] = "all"
    BY <1>2, LockedIsHeld DEF Base
  <2> QED
    BY <1>4, <2>1
<1>8. \A r : Custom(r) =>
        Row(r)' = IF r \in DOMAIN new THEN new[r]
                  ELSE IF r \in Locked(t) THEN Absent ELSE Row(r)
  <2>1. \A r \in DOMAIN new \cup Locked(t) : Custom(r)
    BY <1>6, <1>7
  <2> QED
    BY <1>1, <2>1, CustomReplaced
<1>9. \A r : r[1] = ValueTable => r \notin DOMAIN new /\ Custom(r)
  BY <1>6 DEF Custom, AssignmentTable, ValueTable
<1>10. ASSUME NEW r, r[1] = ValueTable, Row(r)' # Absent
       PROVE  Row(Assigned(r[2], r[3]))' # Absent
  <2>0. PICK p : p = Assigned(r[2], r[3])
    OBVIOUS
  <2>1. p[1] = AssignmentTable /\ p[2] = r[2] /\ p[3] = r[3] /\ Custom(p)
    BY <2>0, Tables DEF Custom
  <2>2. r \notin Locked(t) /\ Row(r) # Absent
    BY <1>8, <1>9, <1>10
  <2>3. Row(p) # Absent
    BY <1>10, <2>0, <2>2 DEF CustomWhole, AssignedRows
  <2>4. p \in DOMAIN new \/ r[2] # a \/ r[3] \notin c.fields
    BY <1>5, <2>0
  <2>5. CASE p \in DOMAIN new
    BY <1>5, <1>8, <2>0, <2>1, <2>5, Contents
  <2>6. CASE p \notin DOMAIN new /\ p \in Locked(t)
    <3>1. Seen(t, p) # Absent /\ r[2] = a /\ r[3] \notin c.fields /\ p \in DOMAIN txn[t].seen
      BY <1>7, <2>1, <2>4, <2>6 DEF Seen
    <3>2. <<Asset(a), "nokey">> \in txn[t].held
      BY <1>4, <2>1, <3>1
    <3>3. Alike(Row(r), Seen(t, r)) \/ Swept(r)
      BY <1>0, <1>a, <1>2, <1>4, <1>9, <1>10, <3>1, <3>2, HeldChain DEF Chained
    <3>4. Seen(t, r) # Absent /\ r \in DOMAIN txn[t].seen
      BY <2>2, <3>3 DEF Alike, Swept, Seen
    <3>5. <<r, "all">> \in txn[t].held
      BY <1>4, <1>9, <1>10, <3>1, <3>4
    <3>6. r \in Locked(t)
      BY <3>5 DEF Locked
    <3> QED
      BY <2>2, <3>6
  <2>7. CASE p \notin DOMAIN new /\ p \notin Locked(t)
    BY <1>8, <2>0, <2>1, <2>3, <2>7
  <2> QED
    BY <2>5, <2>6, <2>7
<1>11. AssignedRows'
  BY <1>10 DEF AssignedRows
<1>12. WholeTable(ValueTable)'
  <2>1. \A r : r[1] = ValueTable => Row(r)' \in {Row(r), Absent}
    BY <1>8, <1>9
  <2> QED
    BY <2>1 DEF CustomWhole, WholeTable
<1>13. WholeTable(AssignmentTable)'
  <2> DEFINE rows == DOMAIN new
  <2>k. \A r : r[1] = AssignmentTable => Custom(r) /\ r[1] # ValueTable
    BY DEF Custom, AssignmentTable, ValueTable
  <2>1. \A r \in rows : r[1] = AssignmentTable /\ r[2] = a /\ Row(r)'.stamp = t
    BY <1>5, <1>6, <1>8
  <2>2. \A r : r[1] = AssignmentTable /\ r \notin rows =>
          Row(r)' = IF r \in Locked(t) THEN Absent ELSE Row(r)
    BY <1>8, <2>k
  <2>3. \A r \in DOMAIN txn[t].seen :
          Seen(t, r) # Absent /\ r[1] = AssignmentTable /\ r[2] = a => <<r, "all">> \in txn[t].held
    BY <1>4, <2>k
  <2>4. <<Asset(a), "nokey">> \in txn[t].held \/ \A r \in rows : Seen(t, r) # Absent
    BY <1>0, <1>a, <1>4, <1>5, Names DEF SawField, AssignmentTable
  <2>5. WholeTable(AssignmentTable)
    BY DEF CustomWhole
  <2> HIDE DEF rows
  <2> QED
    BY <1>0, <1>a, <1>2, <1>4, <2>1, <2>2, <2>3, <2>4, <2>5, WholeReplaced, SMTT(30)
<1> QED
  BY <1>11, <1>12, <1>13 DEF CustomWhole

LEMMA CustomOfValues ==
  ASSUME Base, Plans, SeenAssigned, Chained, Marked, CustomWhole,
         NEW t \in Txns, WriteValues(t)
  PROVE  CustomWhole'
<1>0. PICK c : c = txn[t].call
  OBVIOUS
<1>a. PICK a : a = c.asset
  OBVIOUS
<1> DEFINE new == [r \in {Value(a, d) : d \in Stored(c)} |->
                     [data |-> c.values[r[3]], stamp |-> t]]
<1>1. Commit(t, new ++ Erased(Locked(t)) ++ MaybeAudited(t, a))
  BY <1>0, <1>a DEF WriteValues
<1>2. txn[t].pc = "replaceValues" /\ Claims(t) = txn[t].held /\ ClaimsOn(t, AssetTables)
  BY ReadyClaims, AssetClaims DEF WriteValues, Base, AssetSteps
<1>4. /\ Snapped(t) /\ Chain(t) /\ Marks(t)
      /\ \A d \in Stored(c) : SawField(t, AssignmentTable, d)
      /\ \A r \in DOMAIN txn[t].seen : Seen(t, r) # Absent /\ r[1] = ValueTable /\ r[2] = a =>
           <<r, "all">> \in txn[t].held
      /\ \A d \in Stored(c) : <<Field(d), "share">> \in txn[t].held
      /\ <<Asset(a), "nokey">> \in txn[t].held \/ \A d \in Stored(c) : SawField(t, ValueTable, d)
      /\ \A l \in txn[t].held : l[2] = "all" =>
           Seen(t, l[1]) # Absent /\ l[1][1] = ValueTable /\ l[1][2] = a
  BY <1>0, <1>a, <1>2 DEF Plans, Plan, ValuesPlan, Chained, Marked
<1>5. /\ \A r \in DOMAIN new : \E d \in Stored(c) : r = Value(a, d)
      /\ \A d \in Stored(c) : Value(a, d) \in DOMAIN new
      /\ \A r \in DOMAIN new : new[r] # Absent /\ new[r].stamp = t
  BY Contents DEF Absent
<1> HIDE DEF new
<1>6. \A r \in DOMAIN new : Custom(r) /\ r[1] = ValueTable /\ r[2] = a
  BY <1>5, Tables DEF Custom
<1>7. ASSUME NEW r \in Locked(t)
      PROVE  Seen(t, r) # Absent /\ r[1] = ValueTable /\ Custom(r) /\ r[2] = a
  <2>1. <<r, "all">> \in txn[t].held /\ <<r, "all">>[1] = r /\ <<r, "all">>[2] = "all"
    BY <1>2, LockedIsHeld DEF Base
  <2> QED
    BY <1>4, <2>1 DEF Custom
<1>8. \A r : Custom(r) =>
        Row(r)' = IF r \in DOMAIN new THEN new[r]
                  ELSE IF r \in Locked(t) THEN Absent ELSE Row(r)
  <2>1. \A r \in DOMAIN new \cup Locked(t) : Custom(r)
    BY <1>6, <1>7
  <2> QED
    BY <1>1, <2>1, CustomReplaced
<1>9. \A r : r[1] = AssignmentTable =>
        r \notin DOMAIN new /\ r \notin Locked(t) /\ Custom(r) /\ Row(r)' = Row(r)
  BY <1>6, <1>7, <1>8 DEF Custom, AssignmentTable, ValueTable
<1>10. ASSUME NEW d \in Stored(c)
       PROVE  Row(Assigned(a, d)) # Absent
  <2> DEFINE p == Assigned(a, d)
             r == Value(a, d)
  <2>1. /\ Custom(p) /\ p[2] = a /\ p[3] = d
        /\ r[1] = ValueTable /\ r[2] = a /\ r[3] = d /\ Custom(r)
    BY Tables DEF Custom
  <2>2. Seen(t, p) # Absent
    BY <1>0, <1>a, <1>4, Names DEF SawField, AssignmentTable
  <2>3. CASE <<Asset(a), "nokey">> \in txn[t].held
    <3>1. Alike(Row(p), Seen(t, p)) \/ Swept(p)
      BY <1>0, <1>a, <1>2, <1>4, <2>1, <2>3, HeldChain
    <3>2. <<Field(d), "share">> \in txn[t].held /\ Field(d)[1] \in Guarded
          /\ <<Field(d), "share">>[1] = Field(d) /\ <<Field(d), "share">>[2] = "share"
      BY <1>4, Tables DEF Guarded, Indexes, AssetTables
    <3>3. Row(Field(d)) # Absent
      BY <3>2 DEF Base, HeldThere
    <3>4. ~Swept(p)
      BY <2>1, <3>3 DEF Swept
    <3> QED
      BY <2>2, <3>1, <3>4 DEF Alike
  <2>4. CASE SawField(t, ValueTable, d)
    <3>1. Seen(t, r) # Absent /\ r \in DOMAIN txn[t].seen
      BY <1>0, <1>a, <2>4, Names DEF SawField, ValueTable, Seen
    <3> HIDE DEF r
    <3>2. <<r, "all">> \in txn[t].held
      BY <1>4, <2>1, <3>1
    <3>3. Row(r) # Absent
      BY <1>4, <2>1, <3>1, <3>2, HeldSeen DEF Snapped, Snapshots, Indexes, AssetTables, ValueTable
    <3> QED
      BY <2>1, <3>3 DEF CustomWhole, AssignedRows
  <2> QED
    BY <1>4, <2>3, <2>4
<1>11. ASSUME NEW r, r[1] = ValueTable, Row(r)' # Absent
       PROVE  Row(Assigned(r[2], r[3]))' # Absent
  <2> DEFINE p == Assigned(r[2], r[3])
  <2>1. Row(p)' = Row(p)
    BY <1>9, Tables
  <2>2. Row(p) # Absent
    <3>1. CASE r \in DOMAIN new
      <4>1. PICK d \in Stored(c) : r = Value(a, d)
        BY <1>5, <3>1
      <4>2. r[2] = a /\ r[3] = d
        BY <4>1, Tables
      <4> QED
        BY <1>10, <4>2
    <3>2. CASE r \notin DOMAIN new
      <4>1. Row(r) # Absent
        BY <1>8, <1>11, <3>2 DEF Custom
      <4> QED
        BY <1>11, <4>1 DEF CustomWhole, AssignedRows
    <3> QED
      BY <3>1, <3>2
  <2> QED
    BY <2>1, <2>2
<1>12. AssignedRows'
  BY <1>11 DEF AssignedRows
<1>13. WholeTable(AssignmentTable)'
  BY <1>9 DEF CustomWhole, WholeTable
<1>14. WholeTable(ValueTable)'
  <2> DEFINE rows == DOMAIN new
  <2>k. \A r : r[1] = ValueTable => Custom(r)
    BY DEF Custom
  <2>1. \A r \in rows : r[1] = ValueTable /\ r[2] = a /\ Row(r)'.stamp = t
    BY <1>5, <1>6, <1>8
  <2>2. \A r : r[1] = ValueTable /\ r \notin rows =>
          Row(r)' = IF r \in Locked(t) THEN Absent ELSE Row(r)
    BY <1>8, <2>k
  <2>3. \A r \in DOMAIN txn[t].seen :
          Seen(t, r) # Absent /\ r[1] = ValueTable /\ r[2] = a => <<r, "all">> \in txn[t].held
    BY <1>4
  <2>4. <<Asset(a), "nokey">> \in txn[t].held \/ \A r \in rows : Seen(t, r) # Absent
    BY <1>0, <1>a, <1>4, <1>5, Names DEF SawField, ValueTable
  <2>5. WholeTable(ValueTable)
    BY DEF CustomWhole
  <2> HIDE DEF rows
  <2> QED
    BY <1>0, <1>a, <1>2, <1>4, <2>1, <2>2, <2>3, <2>4, <2>5, WholeReplaced, SMTT(30)
<1> QED
  BY <1>12, <1>13, <1>14 DEF CustomWhole

LEMMA AssetCommitKeepsCustom ==
  ASSUME Base, Plans, SeenAssigned, Chained, Marked, CustomWhole,
         NEW t \in Txns, AssetCommit(t)
  PROVE  CustomWhole'
BY CustomOfInventory, CustomOfDeletion, CustomOfSweep, CustomOfAssignments, CustomOfValues
   DEF AssetCommit

-----------------------------------------------------------------------------
\* The inductive invariant.

IInv == /\ Base /\ Plans /\ References
        /\ Chained /\ SeenAssigned /\ Marked
        /\ CustomWhole /\ WholeTable(PermissionTable) /\ WholeTable(HoldsTable)

LEMMA WholeByTable ==
  WholeRows <=> /\ WholeTable(AssignmentTable) /\ WholeTable(ValueTable)
                /\ WholeTable(PermissionTable) /\ WholeTable(HoldsTable)
<1>1. \A x : x \in Replaced <=> x \in {AssignmentTable, ValueTable, PermissionTable, HoldsTable}
  BY DEF Replaced, Triples, AssignmentTable, ValueTable, PermissionTable, HoldsTable
<1> QED
  BY <1>1 DEF WholeRows

LEMMA InvariantRows ==
  IInv => StoredValuesAreAssigned /\ ReplacementsAreWhole
BY RowsOfTables, WholeByTable DEF IInv, CustomWhole

LEMMA IdleAtFirst ==
  ASSUME Init
  PROVE  /\ Shape /\ Consistent(db)
         /\ \A t \in Txns : /\ txn[t].pc = "idle" /\ txn[t].held = {} /\ txn[t].seen = <<>>
                            /\ DOMAIN txn[t].seen = {}
                            /\ Claims(t) = {}
<1>1. Consistent(db)
  BY WorldsAreConsistent DEF Init
<1>2. ASSUME NEW t \in Txns
      PROVE  /\ txn[t].pc = "idle" /\ txn[t].held = {} /\ txn[t].seen = <<>>
             /\ txn[t].todo = <<>> /\ DOMAIN txn[t] = Fields
  BY DEF Init, Idle, Fields
<1>3. Shape
  BY <1>2 DEF Init, Shape
<1>4. ASSUME NEW t \in Txns PROVE Claims(t) = {}
  <2>1. Left(t) = LeftIn(<<>>)
    BY <1>2 DEF Left, LeftIn
  <2> QED
    BY <1>2, <2>1, LeftOfNone DEF Claims
<1> QED
  BY <1>1, <1>2, <1>3, <1>4

LEMMA RowsAtFirst ==
  ASSUME Consistent(db)
  PROVE  /\ \A r \in Rows : Named(r)
         /\ \A r : Row(r) # Absent =>
              /\ Row(r).stamp \notin Txns
              /\ r[2] \notin Txns
              /\ r[1] \in Triples => r[3] \notin Txns
              /\ \A t \in Txns, k \in NewKeys : r # NewIdentifier(t, k)
              /\ Columns(r, Row(r))
         /\ CustomWhole /\ References
         /\ WholeTable(PermissionTable) /\ WholeTable(HoldsTable)
<1> DEFINE there == {r \in DOMAIN db : db[r] # Absent}
<1>1. \A r : Row(r) # Absent => r \in there /\ db[r] = Row(r)
  BY DEF Row, Rows
<1>2. \A r \in there : Row(r) = db[r] /\ Row(r) # Absent
  BY DEF Row, Rows
<1>3. \A r \in Rows : Named(r)
  BY DEF Consistent, Named, Rows
<1>4. \A r \in there : /\ db[r].stamp \notin Txns
                       /\ r[2] \notin Txns
                       /\ r[1] \in Triples => r[3] \notin Txns
                       /\ r \notin {NewIdentifier(t, k) : t \in Txns, k \in NewKeys}
  BY DEF Consistent
<1>5. \A r \in there :
          /\ r[1] = AssignmentTable => db[r] = [stamp |-> db[r].stamp]
          /\ r[1] = ValueTable => db[r] = [data |-> db[r].data, stamp |-> db[r].stamp]
  BY DEF Consistent, AssignmentTable, ValueTable
<1>6. \A r \in there :
          /\ r[1] = ValueTable => Assigned(r[2], r[3]) \in there
          /\ r[1] = PermissionTable => Role(r[2]) \in there
          /\ r[1] = HoldsTable => User(r[2]) \in there
  BY DEF Consistent, ValueTable, PermissionTable, HoldsTable
<1>7. \A x, y \in there : x[1] \in Replaced /\ y[1] = x[1] /\ y[2] = x[2] =>
        db[x].stamp = db[y].stamp
  BY DEF Consistent
<1> HIDE DEF there
<1>8. \A x \in {AssignmentTable, ValueTable, PermissionTable, HoldsTable} : x \in Replaced
  BY DEF Replaced, Triples, AssignmentTable, ValueTable, PermissionTable, HoldsTable
<1>9. \A table \in {AssignmentTable, ValueTable, PermissionTable, HoldsTable} : WholeTable(table)
  BY <1>1, <1>7, <1>8 DEF WholeTable
<1>10. AssignedRows
  BY <1>1, <1>2, <1>6 DEF AssignedRows
<1>11. References
  BY <1>1, <1>2, <1>6 DEF References
<1>12. ASSUME NEW r, Row(r) # Absent
       PROVE  /\ Row(r).stamp \notin Txns
              /\ r[2] \notin Txns
              /\ r[1] \in Triples => r[3] \notin Txns
              /\ \A t \in Txns, k \in NewKeys : r # NewIdentifier(t, k)
              /\ Columns(r, Row(r))
  <2>1. r \in there /\ db[r] = Row(r)
    BY <1>1, <1>12
  <2>2. Columns(r, Row(r))
    BY <1>5, <2>1 DEF Columns
  <2> QED
    BY <1>4, <2>1, <2>2
<1> QED
  BY <1>3, <1>9, <1>10, <1>11, <1>12 DEF CustomWhole

LEMMA InitIInv == Init => IInv
<1> SUFFICES ASSUME Init PROVE IInv
  OBVIOUS
<1>1. /\ Shape /\ Consistent(db)
      /\ \A t \in Txns : /\ txn[t].pc = "idle" /\ txn[t].held = {} /\ txn[t].seen = <<>>
                         /\ DOMAIN txn[t].seen = {}
                         /\ Claims(t) = {}
  BY IdleAtFirst
<1>2. /\ \A r \in Rows : Named(r)
      /\ \A r : Row(r) # Absent =>
           /\ Row(r).stamp \notin Txns
           /\ r[2] \notin Txns
           /\ r[1] \in Triples => r[3] \notin Txns
           /\ \A t \in Txns, k \in NewKeys : r # NewIdentifier(t, k)
           /\ Columns(r, Row(r))
      /\ CustomWhole /\ References
      /\ WholeTable(PermissionTable) /\ WholeTable(HoldsTable)
  BY <1>1, RowsAtFirst
<1>3. WellNamed
  BY <1>1, <1>2 DEF WellNamed, Named
<1>4. WellFormed
  BY <1>2 DEF WellFormed
<1>5. Fresh
  <2>1. ASSUME NEW t \in Txns, NEW r, Row(r) # Absent PROVE NotOf(t, r, Row(r))
    <3>1. Custom(r) => r[1] \in Triples
      BY DEF Custom, Triples, AssignmentTable, ValueTable
    <3> QED
      BY <1>2, <2>1, <3>1 DEF NotOf
  <2> QED
    BY <1>1, <2>1 DEF Fresh
<1>6. Reach
  BY <1>1 DEF Reach
<1>7. Exclusive /\ HeldThere /\ HeldAsSeen
  BY <1>1 DEF Exclusive, HeldThere, HeldAsSeen
<1>8. Plans
  <2>1. ASSUME NEW t \in Txns PROVE Plan(t)
    <3>1. txn[t].pc = "idle"
      BY <1>1
    <3> QED
      BY <3>1 DEF Plan, EditPlan, CreationPlan, InventoryPlan, DeletionPlan, DefinitionPlan,
                  SweepPlan, AssignmentsPlan, ValuesPlan, RolePlan, UserPlan, InventoryOps
  <2> QED
    BY <2>1 DEF Plans
<1>9. Chained /\ SeenAssigned /\ Marked
  BY <1>1 DEF Chained, Chain, SeenAssigned, SawAssigned, Marked, Marks, AssetOps, InventoryOps
<1> QED
  BY <1>1, <1>2, <1>3, <1>4, <1>5, <1>6, <1>7, <1>8, <1>9 DEF IInv, Base

LEMMA OtherCommits ==
  ASSUME Base, Plans, References, NEW t \in Txns, FindingCommit(t) \/ RoleCommit(t)
  PROVE  \A r : Custom(r) => Row(r)' = Row(r)
<1>1. \A r : Custom(r) => r[1] \notin FindingTables /\ r[1] \notin RoleTables
  BY DEF Custom, FindingTables, RoleTables, AssignmentTable, ValueTable
<1>2. CASE FindingCommit(t)
  <2>1. GivesUp(t) \/ WritesOn(t, FindingTables)
    BY <1>2, FindingWrites DEF Base, Plans, Plan
  <2>2. CASE GivesUp(t)
    BY <2>2, SameRows DEF GivesUp
  <2>3. CASE WritesOn(t, FindingTables)
    BY <1>1, <2>3, Elsewhere
  <2> QED
    BY <2>1, <2>2, <2>3
<1>3. CASE RoleCommit(t)
  <2>1. WritesOn(t, RoleTables)
    BY <1>3, WriteRoleEffect, WriteUserEffect, EraseRoleEffect DEF RoleCommit
  <2> QED
    BY <1>1, <2>1, Elsewhere
<1> QED
  BY <1>2, <1>3

LEMMA StepIInv == ASSUME IInv, NEW t \in Txns, StepOf(t) PROVE IInv'
<1>1. /\ Base /\ Plans /\ References /\ Chained /\ SeenAssigned /\ Marked
      /\ CustomWhole /\ WholeTable(PermissionTable) /\ WholeTable(HoldsTable)
      /\ AssignedRows /\ WholeRows
  BY WholeByTable DEF IInv, CustomWhole
<1>2. Base' /\ Plans' /\ References' /\ Chained' /\ SeenAssigned' /\ Marked'
  BY <1>1, StepKeepsPlans
<1>3. Proceeds(t)
  BY <1>1, OwnStep
<1>4. CASE db' = db
  <2>1. \A r : Row(r)' = Row(r)
    BY <1>4, SameRows
  <2>2. CustomWhole'
    BY <1>1, <2>1, CustomKept
  <2>3. WholeTable(PermissionTable)' /\ WholeTable(HoldsTable)'
    BY <1>1, <2>1 DEF WholeTable
  <2> QED
    BY <1>2, <2>2, <2>3 DEF IInv
<1>5. CASE CommitStep(t) /\ WholeTable(PermissionTable)' /\ WholeTable(HoldsTable)'
  <2>1. CASE AssetCommit(t)
    BY <1>1, <1>2, <1>5, <2>1, AssetCommitKeepsCustom DEF IInv
  <2>2. CASE FindingCommit(t) \/ RoleCommit(t)
    <3>1. \A r : Custom(r) => Row(r)' = Row(r)
      BY <1>1, <2>2, OtherCommits
    <3>2. CustomWhole'
      BY <1>1, <3>1, CustomKept
    <3> QED
      BY <1>2, <1>5, <3>2 DEF IInv
  <2> QED
    BY <1>5, <2>1, <2>2 DEF CommitStep
<1> QED
  BY <1>3, <1>4, <1>5 DEF Proceeds

\* A step of nobody.
LEMMA SameLocks ==
  ASSUME UNCHANGED vars, NEW t
  PROVE  /\ Still(t) /\ Left(t)' = Left(t) /\ Claims(t)' = Claims(t)
         /\ \A r : Holding(t, r)' <=> Holding(t, r)
         /\ \A r : Seen(t, r)' = Seen(t, r) /\ Row(r)' = Row(r)
         /\ Rows' = Rows
BY StillFacts, SameRows DEF vars, Still, Left

LEMMA StutterIInv == ASSUME IInv, UNCHANGED vars PROVE IInv'
<1>1. db' = db /\ txn' = txn /\ Rows' = Rows
  BY SameRows DEF vars
<1>2. /\ \A r : Row(r)' = Row(r)
      /\ \A t : Claims(t)' = Claims(t)
      /\ \A t, r : Seen(t, r)' = Seen(t, r) /\ (Holding(t, r)' <=> Holding(t, r))
  BY SameLocks
<1>3. Base'
  <2>1. Base
    BY DEF IInv
  <2>2. Shape' /\ WellNamed' /\ WellFormed'
    BY <1>1, <1>2, <2>1 DEF Base, Shape, WellNamed, WellFormed
  <2>3. Fresh'
    BY <1>1, <1>2, <2>1 DEF Base, Fresh
  <2>4. Reach'
    BY <1>1, <1>2, <2>1 DEF Base, Reach, ClaimsOn
  <2>5. Exclusive' /\ HeldThere' /\ HeldAsSeen'
    BY <1>1, <1>2, <2>1 DEF Base, Exclusive, HeldThere, HeldAsSeen
  <2> QED
    BY <2>2, <2>3, <2>4, <2>5 DEF Base
<1>4. ASSUME NEW t \in Txns PROVE PlanSeen(t)'
  <2>1. PlanSeen(t) /\ Plan(t) /\ Still(t)
    BY <1>1 DEF IInv, Plans, Chained, SeenAssigned, Marked, PlanSeen, Still
  <2>2. /\ EditPlan(t)' /\ CreationPlan(t)' /\ InventoryPlan(t)' /\ DefinitionPlan(t)'
        /\ AssignmentsPlan(t)' /\ ValuesPlan(t)'
    BY <2>1, PlanStays
  <2>3. DeletionPlan(t)'
    BY <1>1, <1>2, <2>1 DEF Plan, DeletionPlan, Snapped
  <2>4. SweepPlan(t)'
    BY <1>1, <1>2, <2>1 DEF Plan, SweepPlan
  <2>5. RolePlan(t)' /\ UserPlan(t)'
    BY <1>1, <1>2, <2>1 DEF Plan, RolePlan, UserPlan, AllClaimed
  <2>6. Chain(t)' /\ SawAssigned(t)' /\ Marks(t)'
    BY <1>1, <2>1, SeenStays DEF PlanSeen
  <2> QED
    BY <2>2, <2>3, <2>4, <2>5, <2>6 DEF PlanSeen, Plan
<1>5. Plans' /\ Chained' /\ SeenAssigned' /\ Marked'
  BY <1>4 DEF PlanSeen, Plans, Chained, SeenAssigned, Marked
<1>6. References'
  BY <1>1, <1>2 DEF IInv, References
<1>7. CustomWhole'
  BY <1>2, CustomKept DEF IInv
<1>8. WholeTable(PermissionTable)' /\ WholeTable(HoldsTable)'
  BY <1>2 DEF IInv, WholeTable
<1> QED
  BY <1>3, <1>5, <1>6, <1>7, <1>8 DEF IInv

THEOREM Inductive == Spec => []IInv
<1>1. ASSUME IInv, Next PROVE IInv'
  BY <1>1, StepIInv DEF Next, StepOf
<1>2. IInv /\ [Next]_vars => IInv'
  BY <1>1, StutterIInv
<1> QED
  BY InitIInv, <1>2, PTL DEF Spec

-----------------------------------------------------------------------------
\* Theorems

\* No call stores a value of a custom field that another call detaches from the
\* asset, or that goes with its definition, whatever the two read before they
\* took their locks.
THEOREM ValuesStayAssigned == Spec => []StoredValuesAreAssigned
<1>1. IInv => StoredValuesAreAssigned
  BY InvariantRows
<1> QED
  BY <1>1, Inductive, PTL

\* The permissions of a role, the roles of a user, the fields of an asset and its
\* values are those of one call, however many replace them at a time.
THEOREM ReplacementsStayWhole == Spec => []ReplacementsAreWhole
<1>1. IInv => ReplacementsAreWhole
  BY InvariantRows
<1> QED
  BY <1>1, Inductive, PTL

-----------------------------------------------------------------------------
\* What a commit does to findings.

\* A change of what belongs to a finding shows in its row, which is locked or new;
\* but for a link that goes with its vulnerability.
Touches(t) ==
  \A r, f :
    /\ Row(r)' # Row(r)
    /\ Belongs(f, r, Row(r)) \/ Belongs(f, r, Row(r)')
    => \/ /\ Row(Finding(f))' = Absent \/ Row(Finding(f))'.stamp = t
          /\ Holding(t, Finding(f)) \/ f = t
       \/ /\ r[1] = LinkTable /\ Row(r)' = Absent
          /\ Row(Vulnerability(r[3])) # Absent /\ Row(Vulnerability(r[3]))' = Absent

\* What is new has a new id and refers to what is there.
Adds(t) ==
  \A r : Row(r) = Absent /\ Row(r)' # Absent =>
    /\ r[1] = "finding" => r = Finding(t)
    /\ r[1] = "vulnerability" => r = Vulnerability(t)
    /\ r[1] = LinkTable => /\ r[2] = t \/ Holding(t, Finding(r[2]))
                           /\ <<Vulnerability(r[3]), "share">> \in txn[t].held
    /\ r[1] = "observation" => \E f : r = NewObservation(t, f)

Erases(t) ==
  \A r : Row(r) # Absent /\ Row(r)' = Absent /\ r[1] \in {"finding", "vulnerability"} =>
    <<r, "all">> \in txn[t].held

StampedBy(t, x) == x = [asset |-> x.asset, stamp |-> t]
Stamps(t) ==
  \A r : r[1] = "finding" /\ Row(r)' # Row(r) /\ Row(r)' # Absent => StampedBy(t, Row(r)')

FindingEffect(t) == Touches(t) /\ Adds(t) /\ Erases(t) /\ Stamps(t)

LEMMA StampShows ==
  ASSUME NEW t, NEW x, StampedBy(t, x)
  PROVE  x.stamp = t /\ x # Absent
<1>1. PICK a : x = [asset |-> a, stamp |-> t]
  BY DEF StampedBy
<1> QED
  BY <1>1 DEF Absent

\* The names of these tables differ.
LEMMA FindingNames ==
  \A x, y :
    /\ Finding(x)[1] = "finding" /\ Finding(x)[2] = x
    /\ Observation(x)[1] = "observation" /\ Observation(x)[2] = x
    /\ Link(x, y)[1] = LinkTable /\ Link(x, y)[2] = x /\ Link(x, y)[3] = y
    /\ Vulnerability(x)[1] = "vulnerability" /\ Vulnerability(x)[2] = x
    /\ VulnerabilityKey(x)[1] = "vulnerability_key"
    /\ Ingestion(x)[1] = "ingestion"
BY Names DEF LinkTable

LEMMA HeldStands ==
  ASSUME Standing, NEW t \in Txns, NEW r, Holding(t, r), r[1] \in {"finding", "vulnerability"}
  PROVE  Row(r) # Absent
<1>1. PICK m : <<r, m>> \in txn[t].held
  BY DEF Holding
<1>2. <<r, m>>[1] = r
  OBVIOUS
<1> QED
  BY <1>1, <1>2 DEF Standing

LEMMA BelongsToOne ==
  ASSUME NEW f, NEW g, NEW r, NEW x
  PROVE  /\ r = Finding(g) /\ Belongs(f, r, x) => f = g
         /\ r[1] = "observation" /\ Belongs(f, r, x) => x # Absent /\ x.finding = f
         /\ r[1] = LinkTable /\ Belongs(f, r, x) => x # Absent /\ r[2] = f
         /\ r[1] \notin {"finding", "observation", LinkTable} => ~Belongs(f, r, x)
BY FindingNames DEF Belongs, LinkTable

\* A transaction that leaves the tables of findings alone.
LEMMA Apart ==
  ASSUME NEW t, \A r : r[1] \in {"finding", "observation", LinkTable, "vulnerability"} =>
                         Row(r)' = Row(r)
  PROVE  FindingEffect(t)
<1>1. \A r, f, x : r[1] \notin {"finding", "observation", LinkTable} => ~Belongs(f, r, x)
  BY BelongsToOne
<1>2. Touches(t)
  BY <1>1 DEF Touches
<1> QED
  BY <1>2 DEF FindingEffect, Adds, Erases, Stamps

\* A transaction that writes findings, all of which it holds or creates, and what
\* belongs to them.
LEMMA WritesParts ==
  ASSUME Standing, NEW t \in Txns, NEW fs, NEW W, Commit(t, W),
         \A f \in fs :
           /\ Holding(t, Finding(f)) \/ f = t
           /\ Finding(f) \in DOMAIN W
           /\ \/ W[Finding(f)] = Absent /\ <<Finding(f), "all">> \in txn[t].held
              \/ StampedBy(t, W[Finding(f)]),
         \A r \in DOMAIN W :
           \/ r[1] = "ingestion"
           \/ \E f \in fs : r = Finding(f)
           \/ /\ r[1] = "observation"
              /\ Row(r) = Absent => \E f : r = NewObservation(t, f)
              /\ Row(r) # Absent => Row(r).finding \in fs
              /\ W[r] # Absent => W[r].finding \in fs
           \/ /\ r[1] = LinkTable /\ r[2] \in fs
              /\ W[r] # Absent => <<Vulnerability(r[3]), "share">> \in txn[t].held
  PROVE  FindingEffect(t)
<1> DEFINE InFinding(r) == \E f \in fs : r = Finding(f)
           InObservation(r) == /\ r[1] = "observation"
                               /\ Row(r) = Absent => \E f : r = NewObservation(t, f)
                               /\ Row(r) # Absent => Row(r).finding \in fs
                               /\ Row(r)' # Absent => Row(r)'.finding \in fs
           InLink(r) == /\ r[1] = LinkTable /\ r[2] \in fs
                        /\ Row(r)' # Absent => <<Vulnerability(r[3]), "share">> \in txn[t].held
<1>1. \A r : Row(r)' = IF r \in DOMAIN W THEN W[r] ELSE Row(r)
  BY RowAfter
<1>2. ASSUME NEW r, Row(r)' # Row(r)
      PROVE  r[1] = "ingestion" \/ InFinding(r) \/ InObservation(r) \/ InLink(r)
  <2>1. r \in DOMAIN W /\ Row(r)' = W[r]
    BY <1>1, <1>2
  <2> QED
    BY <2>1
<1>3. ASSUME NEW f \in fs
      PROVE  /\ \/ Row(Finding(f))' = Absent /\ <<Finding(f), "all">> \in txn[t].held
                \/ StampedBy(t, Row(Finding(f))')
             /\ Holding(t, Finding(f)) \/ f = t
  <2>1. Finding(f) \in DOMAIN W /\ Row(Finding(f))' = W[Finding(f)]
    BY <1>1
  <2> QED
    BY <2>1
<1>s. ASSUME NEW f \in fs
      PROVE  Row(Finding(f))' = Absent \/ Row(Finding(f))'.stamp = t
  BY <1>3, StampShows
<1>n. LinkTable \notin {"ingestion", "observation", "finding", "vulnerability"}
  BY DEF LinkTable
<1> HIDE DEF InFinding, InObservation, InLink
<1>4. Touches(t)
  <2>1. SUFFICES ASSUME NEW r, NEW f, Row(r)' # Row(r),
                        Belongs(f, r, Row(r)) \/ Belongs(f, r, Row(r)')
                 PROVE  f \in fs
    BY <1>3, <1>s DEF Touches
  <2>2. r[1] # "ingestion"
    BY <1>n, <2>1, BelongsToOne
  <2>3. CASE InFinding(r)
    BY <2>1, <2>3, BelongsToOne DEF InFinding
  <2>4. CASE InObservation(r)
    BY <2>1, <2>4, BelongsToOne DEF InObservation
  <2>5. CASE InLink(r)
    BY <2>1, <2>5, BelongsToOne DEF InLink
  <2> QED
    BY <1>2, <2>1, <2>2, <2>3, <2>4, <2>5
<1>5. Adds(t)
  <2>1. SUFFICES ASSUME NEW r, Row(r) = Absent, Row(r)' # Absent
                 PROVE  /\ r[1] = "finding" => r = Finding(t)
                        /\ r[1] = "vulnerability" => r = Vulnerability(t)
                        /\ r[1] = LinkTable => /\ r[2] = t \/ Holding(t, Finding(r[2]))
                                               /\ <<Vulnerability(r[3]), "share">> \in txn[t].held
                        /\ r[1] = "observation" => \E f : r = NewObservation(t, f)
    BY DEF Adds
  <2>2. r[1] = "ingestion" \/ InFinding(r) \/ InObservation(r) \/ InLink(r)
    BY <1>2, <2>1
  <2>3. CASE InFinding(r)
    <3>1. PICK f \in fs : r = Finding(f)
      BY <2>3 DEF InFinding
    <3>2. ~Holding(t, Finding(f))
      BY <2>1, <3>1, HeldStands, FindingNames
    <3>3. f = t
      BY <1>3, <3>2
    <3> QED
      BY <1>n, <3>1, <3>3, FindingNames
  <2>4. CASE InObservation(r)
    BY <1>n, <2>1, <2>4 DEF InObservation
  <2>5. CASE InLink(r)
    BY <1>n, <1>3, <2>1, <2>5 DEF InLink
  <2>6. CASE r[1] = "ingestion"
    BY <1>n, <2>6
  <2> QED
    BY <2>2, <2>3, <2>4, <2>5, <2>6
<1>6. ASSUME NEW r, Row(r)' # Row(r), r[1] \in {"finding", "vulnerability"}
      PROVE  InFinding(r)
  BY <1>2, <1>6, <1>n DEF InObservation, InLink
<1>7. Erases(t)
  <2>1. SUFFICES ASSUME NEW r, Row(r) # Absent, Row(r)' = Absent,
                        r[1] \in {"finding", "vulnerability"}
                 PROVE  <<r, "all">> \in txn[t].held
    BY DEF Erases
  <2>2. PICK f \in fs : r = Finding(f)
    BY <1>6, <2>1 DEF InFinding
  <2> QED
    BY <1>3, <2>1, <2>2, StampShows
<1>8. Stamps(t)
  <2>1. SUFFICES ASSUME NEW r, r[1] = "finding", Row(r)' # Row(r), Row(r)' # Absent
                 PROVE  StampedBy(t, Row(r)')
    BY DEF Stamps
  <2>2. PICK f \in fs : r = Finding(f)
    BY <1>6, <2>1 DEF InFinding
  <2> QED
    BY <1>3, <2>1, <2>2
<1> QED
  BY <1>4, <1>5, <1>7, <1>8 DEF FindingEffect

-----------------------------------------------------------------------------
\* The commits of calls on findings and vulnerabilities.

LEMMA TouchedRows ==
  ASSUME Shaped, NEW t, NEW fs, \A f \in fs : Row(Finding(f)) # Absent
  PROVE  /\ DOMAIN Touched(t, fs) = {Finding(f) : f \in fs}
         /\ \A f \in fs : StampedBy(t, Touched(t, fs)[Finding(f)])
<1>1. DOMAIN Touched(t, fs) = {Finding(f) : f \in fs}
  BY DEF Touched
<1>2. ASSUME NEW f \in fs
      PROVE  StampedBy(t, Touched(t, fs)[Finding(f)])
  <2>1. Finding(f) \in Rows /\ Row(Finding(f)) = db[Finding(f)] /\ Finding(f)[1] = "finding"
    BY FindingNames DEF Row
  <2>2. PICK x : x = db[Finding(f)]
    OBVIOUS
  <2>3. x = [asset |-> x.asset, stamp |-> x.stamp]
    BY <2>1, <2>2 DEF Shaped
  <2>4. [x EXCEPT !.stamp = t] = [asset |-> x.asset, stamp |-> t]
    BY <2>3
  <2>5. Touched(t, fs)[Finding(f)] = [x EXCEPT !.stamp = t]
    BY <2>2 DEF Touched
  <2>6. PICK y : y = [x EXCEPT !.stamp = t]
    OBVIOUS
  <2>7. y = [asset |-> y.asset, stamp |-> t]
    BY <2>4, <2>6
  <2> QED
    BY <2>5, <2>6, <2>7 DEF StampedBy
<1> QED
  BY <1>1, <1>2

\* A generated id is of a row that is not there yet.
LEMMA NotYetBorn ==
  ASSUME Unborn, NEW t \in Txns, txn[t].pc # "ended"
  PROVE  /\ Row(Finding(t)) = Absent /\ Row(Vulnerability(t)) = Absent
         /\ \A f \in NewParents : Row(NewObservation(t, f)) = Absent
         /\ \A r : Row(r) # Absent /\ r[1] = LinkTable => r[2] # t /\ r[3] # t
<1>1. \A r : Row(r) # Absent => r \in Rows /\ Foreign(t, r)
  BY DEF Unborn, Row
<1>2. Row(Finding(t)) = Absent /\ Row(Vulnerability(t)) = Absent
  BY <1>1, FindingNames DEF Foreign
<1>3. \A f \in NewParents : Row(NewObservation(t, f)) = Absent
  BY <1>1 DEF Foreign
<1>4. \A r : Row(r) # Absent /\ r[1] = LinkTable => r[2] # t /\ r[3] # t
  BY <1>1 DEF Foreign
<1> QED
  BY <1>2, <1>3, <1>4

\* What belongs to a finding, by the rows that are there.
LEMMA OwnRowsOf ==
  ASSUME NEW f
  PROVE  \A r : r \in Of(f) <=> r \in Rows /\ Belongs(f, r, Row(r))
BY DEF Of, Belongs, Present, Known, Row

\* An observation is written, and the findings it was and is of are touched.
LEMMA WritesObservation ==
  ASSUME Shaped, Standing, NEW t \in Txns, NEW fs, NEW o, NEW x,
         Commit(t, Put(o, x) ++ Touched(t, fs)),
         \A f \in fs : Holding(t, Finding(f)), o[1] = "observation",
         Row(o) = Absent => \E f : o = NewObservation(t, f),
         Row(o) # Absent => Row(o).finding \in fs,
         x # Absent => x.finding \in fs
  PROVE  FindingEffect(t)
<1>1. \A f \in fs : Row(Finding(f)) # Absent
  BY HeldStands, FindingNames
<1>2. PICK T : T = Touched(t, fs)
  OBVIOUS
<1>3. /\ DOMAIN T = {Finding(f) : f \in fs}
      /\ \A f \in fs : StampedBy(t, T[Finding(f)])
  BY <1>1, <1>2, TouchedRows
<1>4. PICK N : N = Put(o, x)
  OBVIOUS
<1>5. DOMAIN N = {o} /\ N[o] = x
  BY <1>4 DEF Put
<1>6. PICK W : W = N ++ T
  OBVIOUS
<1>7. /\ DOMAIN W = DOMAIN N \cup DOMAIN T
      /\ \A r \in DOMAIN N : W[r] = N[r]
      /\ \A r \in DOMAIN T \ DOMAIN N : W[r] = T[r]
  BY <1>6 DEF ++
<1>8. \A f : Finding(f) # o
  BY FindingNames
<1>9. W[o] = x /\ \A r \in DOMAIN W : r = o \/ \E f \in fs : r = Finding(f)
  BY <1>3, <1>5, <1>7
<1>10. ASSUME NEW f \in fs
       PROVE  Finding(f) \in DOMAIN W /\ StampedBy(t, W[Finding(f)])
  <2>1. Finding(f) \in DOMAIN T \ DOMAIN N
    BY <1>3, <1>5, <1>8
  <2>2. W[Finding(f)] = T[Finding(f)] /\ Finding(f) \in DOMAIN W
    BY <1>7, <2>1
  <2> QED
    BY <1>3, <2>2
<1>11. Commit(t, W)
  BY <1>2, <1>4, <1>6
<1> QED
  BY <1>9, <1>10, <1>11, WritesParts

LEMMA WriteEditEffect ==
  ASSUME IInv, FInv, NEW t \in Txns, WriteEdit(t)
  PROVE  FindingEffect(t)
<1>c. PICK c : c = txn[t].call
  OBVIOUS
<1>1. txn[t].pc = "write edit" /\ txn[t].pc # "ended" /\ Commit(t, Edited(t, c))
  BY <1>c DEF WriteEdit, Ready
<1>2. c.op \in Edits
  BY <1>c, <1>1 DEF IInv, Plans, Plan, EditPlan
<1>3. Unborn /\ Shaped /\ Standing /\ EditClaims(t) /\ SeenOfEdit(t)
  BY DEF FInv, FindingPlan
<1>4. ASSUME NEW f \in Parents(c)
      PROVE  /\ <<Finding(f), "all">> \in txn[t].held /\ Holding(t, Finding(f))
             /\ Row(Finding(f)) # Absent
  <2>1. <<Finding(f), "all">> \in txn[t].held
    BY <1>c, <1>1, <1>3 DEF SeenOfEdit
  <2>2. Holding(t, Finding(f))
    BY <2>1 DEF Holding
  <2> QED
    BY <1>3, <2>1, <2>2, HeldStands, FindingNames
<1> DEFINE o == Observation(c.observation)
<1>5. ASSUME c.op \in {"updateObservation", "deleteObservation", "moveObservation"}
      PROVE  Row(o) # Absent /\ Row(o).finding = c.finding
  <2>1. Belongs(c.finding, o, Seen(t, o))
    BY <1>c, <1>1, <1>3, <1>5 DEF SeenOfEdit
  <2>2. o[1] = "observation" /\ ~ByCatalog(o)
    BY FindingNames DEF ByCatalog, Catalogs
  <2>3. Seen(t, o) # Absent /\ Seen(t, o).finding = c.finding
    BY <2>1, <2>2, BelongsToOne
  <2>4. o \in DOMAIN txn[t].seen
    BY <2>3 DEF Seen
  <2>5. Row(o) = Seen(t, o)
    BY <1>c, <1>1, <1>3, <2>2, <2>4 DEF SeenOfEdit
  <2> QED
    BY <2>3, <2>5
<1>o. o[1] = "observation"
  BY FindingNames
<1>6. ASSUME c.op # "moveObservation" PROVE Parents(c) = {c.finding}
  BY <1>6 DEF Parents
<1>8. CASE c.op = "updateByID"
  <2>1. PICK T : T = Touched(t, {c.finding})
    OBVIOUS
  <2>2. Commit(t, T) /\ Parents(c) = {c.finding}
    BY <1>1, <1>6, <1>8, <2>1 DEF Edited
  <2>3. \A f \in {c.finding} : Row(Finding(f)) # Absent /\ Holding(t, Finding(f))
    BY <1>4, <2>2
  <2>4. /\ DOMAIN T = {Finding(f) : f \in {c.finding}}
        /\ \A f \in {c.finding} : StampedBy(t, T[Finding(f)])
    BY <1>3, <2>1, <2>3, TouchedRows
  <2>5. PICK fs : fs = {c.finding}
    OBVIOUS
  <2>6. /\ \A f \in fs : /\ Holding(t, Finding(f)) /\ Finding(f) \in DOMAIN T
                         /\ StampedBy(t, T[Finding(f)])
        /\ \A r \in DOMAIN T : \E f \in fs : r = Finding(f)
    BY <2>3, <2>4, <2>5
  <2> QED
    BY <1>3, <2>2, <2>6, WritesParts
<1>9. CASE c.op = "deleteByID"
  <2>1. PICK W : W = Erased(Of(c.finding))
    OBVIOUS
  <2>2. Commit(t, W) /\ Parents(c) = {c.finding}
    BY <1>1, <1>6, <1>9, <2>1 DEF Edited
  <2>3. DOMAIN W = Of(c.finding) /\ \A r \in DOMAIN W : W[r] = Absent
    BY <2>1 DEF Erased
  <2>4. /\ Row(Finding(c.finding)) # Absent /\ Holding(t, Finding(c.finding))
        /\ <<Finding(c.finding), "all">> \in txn[t].held
    BY <1>4, <2>2
  <2>5. Finding(c.finding) \in DOMAIN W
    BY <2>3, <2>4, OwnRowsOf DEF Belongs, Row
  <2>6. ASSUME NEW r \in DOMAIN W
        PROVE  \/ r = Finding(c.finding)
               \/ r[1] = "observation" /\ Row(r) # Absent /\ Row(r).finding = c.finding
               \/ r[1] = LinkTable /\ r[2] = c.finding
    BY <2>3, <2>6, OwnRowsOf DEF Belongs, LinkTable
  <2>7. PICK fs : fs = {c.finding}
    OBVIOUS
  <2>8. \A f \in fs : /\ Holding(t, Finding(f)) /\ Finding(f) \in DOMAIN W
                       /\ W[Finding(f)] = Absent /\ <<Finding(f), "all">> \in txn[t].held
    BY <2>3, <2>4, <2>5, <2>7
  <2>9. ASSUME NEW r \in DOMAIN W
        PROVE  \/ \E f \in fs : r = Finding(f)
               \/ r[1] = "observation" /\ Row(r) # Absent /\ Row(r).finding \in fs
               \/ r[1] = LinkTable /\ r[2] \in fs
    <3>1. PICK f : f = c.finding /\ f \in fs
      BY <2>7
    <3>2. \/ r = Finding(f)
          \/ r[1] = "observation" /\ Row(r) # Absent /\ Row(r).finding = f
          \/ r[1] = LinkTable /\ r[2] = f
      BY <2>6, <3>1
    <3> QED
      BY <3>1, <3>2
  <2> QED
    BY <1>3, <2>2, <2>3, <2>8, <2>9, WritesParts
<1>10. CASE c.op = "createManualObservation"
  <2>1. PICK n : n = NewObservation(t, c.finding)
    OBVIOUS
  <2>2. PICK x : x = [finding |-> c.finding, stamp |-> t]
    OBVIOUS
  <2>3. PICK fs : fs = {c.finding}
    OBVIOUS
  <2>4. Commit(t, Put(n, x) ++ Touched(t, fs)) /\ Parents(c) = fs
    BY <1>1, <1>6, <1>10, <2>1, <2>2, <2>3 DEF Edited
  <2>5. n[1] = "observation"
    BY <2>1, FindingNames DEF NewObservation
  <2>6. c \in Calls
    BY <1>c, <1>1, <1>3 DEF EditClaims
  <2>7. Row(n) = Absent
    BY <1>1, <1>3, <1>10, <2>1, <2>6, NotYetBorn DEF NewParents
  <2>8. x.finding \in fs /\ \A f \in fs : Holding(t, Finding(f))
    BY <1>4, <2>2, <2>3, <2>4
  <2> QED
    BY <1>3, <2>1, <2>4, <2>5, <2>7, <2>8, WritesObservation
<1>11. CASE c.op \in {"updateObservation", "deleteObservation", "moveObservation"}
  <2>1. PICK x : x = CASE c.op = "updateObservation" -> [finding |-> c.finding, stamp |-> t]
                       [] c.op = "deleteObservation" -> Absent
                       [] c.op = "moveObservation" -> [finding |-> c.target, stamp |-> t]
    OBVIOUS
  <2>2. Commit(t, Put(o, x) ++ Touched(t, Parents(c)))
    <3>1. Erased({o}) = Put(o, Absent)
      BY DEF Erased, Put
    <3> HIDE DEF o
    <3> QED
      BY <1>1, <1>11, <2>1, <3>1 DEF Edited, Parents, o
  <2>3. c.finding \in Parents(c) /\ (x # Absent => x.finding \in Parents(c))
    BY <1>11, <2>1 DEF Parents
  <2>4. Row(o) # Absent /\ Row(o).finding \in Parents(c)
    BY <1>5, <1>11, <2>3
  <2>5. \A f \in Parents(c) : Holding(t, Finding(f))
    BY <1>4
  <2> HIDE DEF o
  <2> QED
    BY <1>3, <1>o, <2>2, <2>3, <2>4, <2>5, WritesObservation
<1> QED
  BY <1>2, <1>8, <1>9, <1>10, <1>11 DEF Edits

LEMMA WriteCreatedEffect ==
  ASSUME IInv, FInv, NEW t \in Txns, WriteCreated(t)
  PROVE  FindingEffect(t)
<1>c. PICK c : c = txn[t].call
  OBVIOUS
<1>1. /\ txn[t].pc = "createManual" /\ txn[t].pc # "ended"
      /\ Claims(t) = txn[t].held
  BY ReadyClaims DEF WriteCreated, Ready
<1>2. Unborn /\ Standing /\ CreatedClaims(t)
  BY DEF FInv, FindingPlan
<1>3. PICK n : n = NewObservation(t, t)
  OBVIOUS
<1>4. PICK F : F = [r \in {Finding(t)} |-> [asset |-> c.asset, stamp |-> t]]
  OBVIOUS
<1>5. PICK O : O = [r \in {n} |-> [finding |-> t, stamp |-> t]]
  OBVIOUS
<1>6. PICK L : L = [r \in {Link(t, v) : v \in c.vulnerabilities} |-> [stamp |-> t]]
  OBVIOUS
<1>7. PICK W : W = F ++ O ++ L
  OBVIOUS
<1>8. Commit(t, W)
  BY <1>c, <1>3, <1>4, <1>5, <1>6, <1>7 DEF WriteCreated
<1>9. /\ DOMAIN W = DOMAIN F \cup DOMAIN O \cup DOMAIN L
      /\ \A r \in DOMAIN F : W[r] = F[r]
      /\ \A r \in DOMAIN O \ DOMAIN F : W[r] = O[r]
  BY <1>7 DEF ++
<1>10. /\ DOMAIN F = {Finding(t)} /\ DOMAIN O = {n}
       /\ DOMAIN L = {Link(t, v) : v \in c.vulnerabilities}
       /\ O[n] = [finding |-> t, stamp |-> t]
  BY <1>4, <1>5, <1>6
<1>11. StampedBy(t, F[Finding(t)])
  BY <1>4 DEF StampedBy
<1>12. n[1] = "observation" /\ Finding(t)[1] = "finding"
  BY <1>3, FindingNames DEF NewObservation
<1>13. Row(n) = Absent
  BY <1>1, <1>2, <1>3, NotYetBorn DEF NewParents
<1>14. ASSUME NEW r \in DOMAIN L
       PROVE  r[1] = LinkTable /\ r[2] = t /\ <<Vulnerability(r[3]), "share">> \in txn[t].held
  <2>1. PICK v \in c.vulnerabilities : r = Link(t, v)
    BY <1>10
  <2>2. r[1] = LinkTable /\ r[2] = t /\ r[3] = v
    BY <2>1, FindingNames
  <2>3. <<Vulnerability(v), "share">> \in txn[t].held
    BY <1>c, <1>1, <1>2 DEF CreatedClaims
  <2> QED
    BY <2>2, <2>3
<1>15. W[Finding(t)] = F[Finding(t)] /\ W[n].finding = t /\ Finding(t) \in DOMAIN W
  BY <1>9, <1>10, <1>12
<1>16. PICK fs : fs = {t}
  OBVIOUS
<1>17. \A f \in fs : f = t /\ Finding(f) \in DOMAIN W /\ StampedBy(t, W[Finding(f)])
  BY <1>11, <1>15, <1>16
<1>18. ASSUME NEW r \in DOMAIN W
       PROVE  \/ \E f \in fs : r = Finding(f)
              \/ /\ r[1] = "observation" /\ Row(r) = Absent /\ W[r].finding \in fs
                 /\ \E f : r = NewObservation(t, f)
              \/ r[1] = LinkTable /\ r[2] \in fs /\ <<Vulnerability(r[3]), "share">> \in txn[t].held
  <2>1. CASE r = Finding(t)
    BY <2>1, <1>16
  <2>2. CASE r = n
    BY <2>2, <1>3, <1>12, <1>13, <1>15, <1>16
  <2>3. CASE r \in DOMAIN L
    BY <2>3, <1>14, <1>16
  <2> QED
    BY <1>9, <1>10, <2>1, <2>2, <2>3
<1> QED
  BY <1>2, <1>8, <1>17, <1>18, WritesParts

\* Rows that nobody writes.
LEMMA NoEffect == ASSUME NEW t, db' = db PROVE FindingEffect(t)
BY SameRows, Apart

LEMMA TouchLinkedEffect ==
  ASSUME IInv, FInv, NEW t \in Txns, TouchLinked(t)
  PROVE  FindingEffect(t)
<1>c. PICK c : c = txn[t].call
  OBVIOUS
<1>1. /\ txn[t].pc = "touch" /\ Claims(t) = txn[t].held
  BY ReadyClaims DEF TouchLinked, Ready
<1>2. Shaped /\ Standing /\ LinkClaims(t)
  BY DEF FInv, FindingPlan
<1>3. PICK link : link = Link(c.finding, c.vulnerability)
  OBVIOUS
<1>4. PICK x : x = IF c.op = "linkVulnerability" THEN [stamp |-> t] ELSE Absent
  OBVIOUS
<1>5. CASE Rollback(t)
  BY <1>5, NoEffect DEF Rollback
<1>6. CASE ~Rollback(t)
  <2>1. PICK T : T = Touched(t, {c.finding})
    OBVIOUS
  <2>2. PICK N : N = Put(link, x)
    OBVIOUS
  <2>3. PICK W : W = N ++ T
    OBVIOUS
  <2>4. Commit(t, W) /\ Holding(t, Finding(c.finding))
    BY <1>c, <1>3, <1>4, <1>6, <2>1, <2>2, <2>3 DEF TouchLinked
  <2>5. \A f \in {c.finding} : Row(Finding(f)) # Absent
    BY <1>2, <2>4, HeldStands, FindingNames
  <2>6. /\ DOMAIN T = {Finding(f) : f \in {c.finding}}
        /\ \A f \in {c.finding} : StampedBy(t, T[Finding(f)])
    BY <1>2, <2>1, <2>5, TouchedRows
  <2>7. DOMAIN N = {link} /\ N[link] = x
    BY <2>2 DEF Put
  <2>8. /\ DOMAIN W = DOMAIN N \cup DOMAIN T
        /\ \A r \in DOMAIN N : W[r] = N[r]
        /\ \A r \in DOMAIN T \ DOMAIN N : W[r] = T[r]
    BY <2>3 DEF ++
  <2>9. /\ link[1] = LinkTable /\ link[2] = c.finding /\ link[3] = c.vulnerability
        /\ Finding(c.finding) # link
    BY <1>3, FindingNames DEF LinkTable
  <2>10. Finding(c.finding) \in DOMAIN W /\ W[Finding(c.finding)] = T[Finding(c.finding)]
    BY <2>6, <2>7, <2>8, <2>9
  <2>11. x # Absent => <<Vulnerability(link[3]), "share">> \in txn[t].held
    BY <1>c, <1>1, <1>2, <1>4, <2>9 DEF LinkClaims
  <2>12. W[link] = x
    BY <2>7, <2>8
  <2>13. PICK fs : fs = {c.finding}
    OBVIOUS
  <2>14. \A f \in fs : /\ Holding(t, Finding(f)) /\ Finding(f) \in DOMAIN W
                       /\ StampedBy(t, W[Finding(f)])
    BY <2>4, <2>6, <2>10, <2>13
  <2>15. ASSUME NEW r \in DOMAIN W
         PROVE  \/ \E f \in fs : r = Finding(f)
                \/ /\ r[1] = LinkTable /\ r[2] \in fs
                   /\ W[r] # Absent => <<Vulnerability(r[3]), "share">> \in txn[t].held
    <3>1. CASE r = link
      BY <2>9, <2>11, <2>12, <2>13, <3>1
    <3>2. CASE r = Finding(c.finding)
      BY <2>13, <3>2
    <3> QED
      BY <2>6, <2>7, <2>8, <3>1, <3>2
  <2> QED
    BY <1>2, <2>4, <2>14, <2>15, WritesParts
<1> QED
  BY <1>5, <1>6

\* A transaction that writes an entry of the catalog, and names of entries.
LEMMA WritesEntry ==
  ASSUME NEW t, NEW v, v[1] = "vulnerability", v = Vulnerability(t) \/ Row(v) # Absent,
         Row(v)' # Absent, \A r : Row(r)' # Row(r) => r = v \/ r[1] = "vulnerability_key"
  PROVE  FindingEffect(t)
<1>n. LinkTable # "vulnerability" /\ LinkTable # "vulnerability_key"
  BY DEF LinkTable
<1>1. \A r, f, x : r[1] \in {"vulnerability", "vulnerability_key"} => ~Belongs(f, r, x)
  BY <1>n, BelongsToOne
<1>2. \A r : Row(r)' # Row(r) => r[1] \in {"vulnerability", "vulnerability_key"}
  OBVIOUS
<1>3. Touches(t)
  BY <1>1, <1>2 DEF Touches
<1>4. Adds(t)
  BY <1>n, <1>2 DEF Adds
<1>5. Erases(t)
  BY <1>2 DEF Erases
<1>6. Stamps(t)
  BY <1>2 DEF Stamps
<1> QED
  BY <1>3, <1>4, <1>5, <1>6 DEF FindingEffect

LEMMA InsertVulnerabilityEffect ==
  ASSUME NEW t, InsertVulnerability(t)
  PROVE  FindingEffect(t)
<1>1. PICK k : k = VulnerabilityKey(txn[t].call.key)
  OBVIOUS
<1>v. PICK v : v = Vulnerability(t)
  OBVIOUS
<1>2. PICK V : V = Put(v, [stamp |-> t])
  OBVIOUS
<1>3. PICK K : K = Put(k, Entry(t, t))
  OBVIOUS
<1>4. PICK W : W = V ++ K
  OBVIOUS
<1>5. Commit(t, W)
  BY <1>1, <1>v, <1>2, <1>3, <1>4 DEF InsertVulnerability
<1>6. DOMAIN V = {v} /\ V[v] = [stamp |-> t] /\ DOMAIN K = {k}
  BY <1>2, <1>3 DEF Put
<1>7. DOMAIN W = DOMAIN V \cup DOMAIN K /\ \A r \in DOMAIN V : W[r] = V[r]
  BY <1>4, Prevails
<1>n. v[1] = "vulnerability" /\ k[1] = "vulnerability_key"
  BY <1>1, <1>v, FindingNames
<1>8. \A r : Row(r)' = IF r \in DOMAIN W THEN W[r] ELSE Row(r)
  BY <1>5, RowAfter
<1>9. \A r : Row(r)' # Row(r) => r = v \/ r[1] = "vulnerability_key"
  BY <1>6, <1>7, <1>8, <1>n
<1>10. Row(v)' # Absent
  BY <1>6, <1>7, <1>8, Contents
<1> QED
  BY <1>v, <1>n, <1>9, <1>10, WritesEntry

LEMMA WriteVulnerabilityEffect ==
  ASSUME IInv, FInv, NEW t \in Txns, WriteVulnerability(t)
  PROVE  FindingEffect(t)
<1>c. PICK c : c = txn[t].call
  OBVIOUS
<1>v. PICK v : v = Vulnerability(c.vulnerability)
  OBVIOUS
<1>1. txn[t].pc = "write vulnerability" /\ Claims(t) = txn[t].held
  BY ReadyClaims DEF WriteVulnerability, Ready
<1>2. Standing /\ CatalogClaims(t)
  BY DEF FInv, FindingPlan
<1>n. LinkTable \notin {"vulnerability", "vulnerability_key", "finding"} /\ v[1] = "vulnerability"
  BY <1>v, FindingNames DEF LinkTable
<1>b. \A f, x : ~Belongs(f, v, x)
  BY <1>n, BelongsToOne
<1>3. CASE Rollback(t)
  BY <1>3, NoEffect DEF Rollback
<1>4. CASE ~Rollback(t) /\ c.op # "deleteVulnerability"
  <2>0. PICK k : k = VulnerabilityKey(c.key)
    OBVIOUS
  <2>1. PICK V : V = Put(v, [stamp |-> t])
    OBVIOUS
  <2>2. PICK K : K = Put(k, Entry(c.vulnerability, t))
    OBVIOUS
  <2>3. PICK E : E = Erased(Locked(t))
    OBVIOUS
  <2>4. PICK W : W = V ++ K ++ E
    OBVIOUS
  <2>5. Commit(t, W) /\ Holding(t, v)
    BY <1>c, <1>v, <1>4, <2>0, <2>1, <2>2, <2>3, <2>4 DEF WriteVulnerability
  <2>6. DOMAIN V = {v} /\ V[v] = [stamp |-> t] /\ DOMAIN K = {k} /\ DOMAIN E = Locked(t)
    BY <2>1, <2>2, <2>3 DEF Put, Erased
  <2>7. /\ DOMAIN W = DOMAIN V \cup DOMAIN K \cup DOMAIN E
        /\ \A r \in DOMAIN V : W[r] = V[r]
    BY <2>4 DEF ++
  <2>8. \A r : Row(r)' = IF r \in DOMAIN W THEN W[r] ELSE Row(r)
    BY <2>5, RowAfter
  <2>9. \A l \in txn[t].held : l[1] = v \/ l[1][1] = "vulnerability_key"
    BY <1>c, <1>v, <1>1, <1>2, <1>4 DEF CatalogClaims
  <2>10. \A r \in Locked(t) : r = v \/ r[1] = "vulnerability_key"
    BY <2>9 DEF Locked
  <2>11. k[1] = "vulnerability_key"
    BY <2>0, FindingNames
  <2>12. \A r : Row(r)' # Row(r) => r = v \/ r[1] = "vulnerability_key"
    BY <2>6, <2>7, <2>8, <2>10, <2>11
  <2>13. Row(v)' # Absent
    BY <2>6, <2>7, <2>8, Contents
  <2>14. Row(v) # Absent
    BY <1>2, <1>n, <2>5, HeldStands
  <2> QED
    BY <1>n, <2>12, <2>13, <2>14, WritesEntry
<1>5. CASE ~Rollback(t) /\ c.op = "deleteVulnerability"
  <2>1. PICK W : W = Erased(Locked(t))
    OBVIOUS
  <2>2. Commit(t, W) /\ Holding(t, v)
    BY <1>c, <1>v, <1>5, <2>1 DEF WriteVulnerability
  <2>3. DOMAIN W = Locked(t) /\ \A r \in Locked(t) : W[r] = Absent
    BY <2>1 DEF Erased
  <2>4. \A r : Row(r)' = IF r \in Locked(t) THEN Absent ELSE Row(r)
    BY <2>2, <2>3, RowAfter
  <2>5. ASSUME NEW l \in txn[t].held
        PROVE  /\ l[2] = "all"
               /\ \/ l[1] = v \/ l[1][1] = "vulnerability_key"
                  \/ l[1][1] = LinkTable /\ l[1][3] = c.vulnerability
    BY <1>c, <1>v, <1>1, <1>2, <1>5 DEF CatalogClaims
  <2>6. ASSUME NEW r \in Locked(t)
        PROVE  r = v \/ r[1] = "vulnerability_key" \/ (r[1] = LinkTable /\ r[3] = c.vulnerability)
    BY <2>5 DEF Locked
  <2>7. PICK m : <<v, m>> \in txn[t].held
    BY <2>2 DEF Holding
  <2>8. <<v, m>>[2] = m /\ <<v, m>>[1] = v
    OBVIOUS
  <2>9. v \in Locked(t) /\ <<v, "all">> \in txn[t].held
    <3>1. m = "all"
      BY <2>5, <2>7, <2>8
    <3> QED
      BY <2>7, <2>8, <3>1 DEF Locked
  <2>10. Row(v) # Absent /\ Row(v)' = Absent
    BY <1>2, <1>n, <2>2, <2>4, <2>9, HeldStands
  <2>11. Touches(t)
    <3>1. SUFFICES ASSUME NEW r, NEW f, Row(r)' # Row(r),
                          Belongs(f, r, Row(r)) \/ Belongs(f, r, Row(r)')
                   PROVE  /\ r[1] = LinkTable /\ Row(r)' = Absent
                          /\ Row(Vulnerability(r[3])) # Absent
                          /\ Row(Vulnerability(r[3]))' = Absent
      BY DEF Touches
    <3>2. r \in Locked(t) /\ Row(r)' = Absent
      BY <2>4, <3>1
    <3>3. r # v /\ r[1] # "vulnerability_key"
      BY <1>b, <1>n, <3>1, BelongsToOne
    <3> QED
      BY <1>v, <2>6, <2>10, <3>2, <3>3
  <2>12. Adds(t) /\ Stamps(t)
    BY <2>4 DEF Adds, Stamps
  <2>13. Erases(t)
    <3>1. SUFFICES ASSUME NEW r, Row(r) # Absent, Row(r)' = Absent,
                          r[1] \in {"finding", "vulnerability"}
                   PROVE  <<r, "all">> \in txn[t].held
      BY DEF Erases
    <3>2. r \in Locked(t)
      BY <2>4, <3>1
    <3> QED
      BY <1>n, <2>6, <2>9, <3>1, <3>2
  <2> QED
    BY <2>11, <2>12, <2>13 DEF FindingEffect
<1> QED
  BY <1>3, <1>4, <1>5

LEMMA WritePlanEffect ==
  ASSUME IInv, FInv, NEW t \in Txns, WritePlan(t)
  PROVE  FindingEffect(t)
<1>c. PICK c : c = txn[t].call
  OBVIOUS
<1>1. txn[t].pc = "record" /\ txn[t].pc # "ended"
  BY DEF WritePlan, Ready
<1>2. Unborn /\ Shaped /\ Standing /\ c \in Calls /\ c.op = "record"
  BY <1>c, <1>1 DEF FInv, FindingPlan, RecordClaims
<1>3. CASE Rollback(t)
  BY <1>3, NoEffect DEF Rollback
<1>4. CASE ~Rollback(t)
  <2>1. PICK fs : fs = c.findings \cup {t}
    OBVIOUS
  <2>2. PICK A : A = [r \in {NewObservation(t, f) : f \in fs} |-> [finding |-> r[2][2], stamp |-> t]]
    OBVIOUS
  <2>3. PICK F : F = Put(Finding(t), [asset |-> c.asset, stamp |-> t])
    OBVIOUS
  <2>4. PICK T : T = Touched(t, c.findings)
    OBVIOUS
  <2>5. PICK I : I = Put(Ingestion(c.ingestion), [status |-> "completed", stamp |-> t])
    OBVIOUS
  <2>6. PICK W : W = A ++ F ++ T ++ I
    OBVIOUS
  <2>7. Commit(t, W) /\ \A f \in c.findings : Holding(t, Finding(f))
    BY <1>c, <1>4, <2>1, <2>2, <2>3, <2>4, <2>5, <2>6 DEF WritePlan
  <2>8. \A f \in c.findings : Row(Finding(f)) # Absent
    BY <1>2, <2>7, HeldStands, FindingNames
  <2>9. /\ DOMAIN T = {Finding(f) : f \in c.findings}
        /\ \A f \in c.findings : StampedBy(t, T[Finding(f)])
    BY <1>2, <2>4, <2>8, TouchedRows
  <2>10. DOMAIN F = {Finding(t)} /\ StampedBy(t, F[Finding(t)])
    BY <2>3 DEF Put, StampedBy
  <2>11. DOMAIN I = {Ingestion(c.ingestion)}
    BY <2>5 DEF Put
  <2>12. ASSUME NEW r \in DOMAIN A
         PROVE  /\ r[1] = "observation" /\ A[r].finding \in fs /\ Row(r) = Absent
                /\ \E f : r = NewObservation(t, f)
    <3>1. PICK f \in fs : r = NewObservation(t, f)
      BY <2>2
    <3>2. r = <<"observation", <<t, f>>>>
      BY <3>1, Names DEF NewObservation
    <3>3. A[r] = [finding |-> f, stamp |-> t]
      BY <2>2, <3>2
    <3>4. f \in NewParents
      BY <1>2, <2>1 DEF NewParents
    <3>5. Row(r) = Absent
      BY <1>1, <1>2, <3>1, <3>4, NotYetBorn
    <3>6. A[r].finding = f
      BY <3>3
    <3>7. A[r].finding \in fs
      BY <3>1, <3>6
    <3>8. r[1] = "observation"
      BY <3>2
    <3>9. \E g : r = NewObservation(t, g)
      BY <3>1
    <3> QED
      BY <3>5, <3>7, <3>8, <3>9
  <2>13. /\ DOMAIN W = DOMAIN A \cup DOMAIN F \cup DOMAIN T \cup DOMAIN I
         /\ \A r \in DOMAIN A : W[r] = A[r]
         /\ \A r \in DOMAIN F : r \notin DOMAIN A => W[r] = F[r]
         /\ \A r \in DOMAIN T : r \notin DOMAIN A \cup DOMAIN F => W[r] = T[r]
    BY <2>6 DEF ++
  <2>14. \A f : Finding(f) \notin DOMAIN A
    BY <2>12, FindingNames
  <2>15. ASSUME NEW f \in fs
         PROVE  Finding(f) \in DOMAIN W /\ StampedBy(t, W[Finding(f)])
    <3>1. CASE Finding(f) = Finding(t)
      BY <2>10, <2>13, <2>14, <3>1
    <3>2. CASE Finding(f) # Finding(t)
      <4>1. f \in c.findings
        BY <2>1, <3>2
      <4>2. Finding(f) \in DOMAIN T /\ Finding(f) \notin DOMAIN A \cup DOMAIN F
        BY <2>9, <2>10, <2>14, <3>2, <4>1
      <4> QED
        BY <2>9, <2>13, <4>1, <4>2
    <3> QED
      BY <3>1, <3>2
  <2>16. ASSUME NEW r \in DOMAIN W
         PROVE  \/ r[1] = "ingestion"
                \/ \E f \in fs : r = Finding(f)
                \/ /\ r[1] = "observation" /\ Row(r) = Absent /\ W[r].finding \in fs
                   /\ \E f : r = NewObservation(t, f)
    <3>1. CASE r \in DOMAIN A
      BY <2>12, <2>13, <3>1
    <3>2. CASE r \in DOMAIN F \cup DOMAIN T
      BY <2>1, <2>9, <2>10, <3>2
    <3>3. CASE r \in DOMAIN I
      BY <2>11, <3>3, FindingNames
    <3> QED
      BY <2>13, <3>1, <3>2, <3>3
  <2>17. \A f \in fs : Holding(t, Finding(f)) \/ f = t
    BY <2>1, <2>7
  <2> QED
    BY <1>2, <2>7, <2>15, <2>16, <2>17, WritesParts
<1> QED
  BY <1>3, <1>4

\* Whatever a transaction commits.
LEMMA CommitEffects ==
  ASSUME IInv, FInv, NEW t \in Txns, CommitStep(t)
  PROVE  FindingEffect(t)
<1>1. CASE FindingCommit(t)
  BY <1>1, WriteEditEffect, WriteCreatedEffect, TouchLinkedEffect, InsertVulnerabilityEffect,
     WriteVulnerabilityEffect, WritePlanEffect
  DEF FindingCommit
<1>2. ASSUME NEW tables \in {AssetTables, RoleTables}, WritesOn(t, tables)
      PROVE  FindingEffect(t)
  <2>1. \A r : r[1] \notin tables => Row(r)' = Row(r)
    BY <1>2, RowAfter DEF WritesOn
  <2>2. \A x \in {"finding", "observation", LinkTable, "vulnerability"} : x \notin tables
    BY DEF AssetTables, RoleTables, LinkTable, AssignmentTable, ValueTable
  <2> QED
    BY <2>1, <2>2, Apart
<1>3. CASE AssetCommit(t)
  BY <1>2, <1>3, AssetEffect DEF IInv
<1>4. CASE RoleCommit(t)
  BY <1>2, <1>4, WriteRoleEffect, WriteUserEffect, EraseRoleEffect DEF RoleCommit, IInv
<1> QED
  BY <1>1, <1>3, <1>4 DEF CommitStep


-----------------------------------------------------------------------------
\* Every step keeps the rows as the invariant has them.

\* The rows stay as they are, or the transaction commits what it should.
LEMMA Progress ==
  ASSUME IInv, FInv, NEW t \in Txns, StepOf(t)
  PROVE  /\ Stepped(t) /\ IInv' /\ Shape'
         /\ \A u \in Txns \ {t} : Still(u)
         /\ \A u \in Txns : txn'[u].pc # "ended" => txn[u].pc # "ended"
         /\ \/ db' = db
            \/ Commits(t) /\ CommitStep(t) /\ FindingEffect(t) /\ txn'[t].pc = "ended"
<1>1. /\ Base /\ Plans /\ References /\ Chained /\ SeenAssigned /\ Marked
      /\ AssignedRows /\ WholeRows
  BY WholeByTable DEF IInv, CustomWhole
<1>2. Proceeds(t)
  BY <1>1, OwnStep
<1>3. Stepped(t) /\ Shape' /\ \A u \in Txns \ {t} : Still(u)
  BY <1>2, SteppedOthers DEF Proceeds
<1>4. db' = db \/ (Commits(t) /\ CommitStep(t) /\ FindingEffect(t) /\ txn'[t].pc = "ended")
  BY <1>2, CommitEffects DEF Proceeds, Commits, Ends
<1>5. txn'[t].pc # "ended" => txn[t].pc # "ended"
  BY <1>3 DEF Stepped, Ends, Commits, LockStep, SameCall, Moves, MovesOn, FindingSteps,
              AssetSteps, RoleSteps
<1>6. \A u \in Txns : txn'[u].pc # "ended" => txn[u].pc # "ended"
  BY <1>3, <1>5, StillFacts
<1> QED
  BY <1>3, <1>4, <1>6, StepIInv

LEMMA ForeignNames ==
  ASSUME NEW t, NEW u, t # u
  PROVE  /\ Foreign(u, Finding(t)) /\ Foreign(u, Vulnerability(t))
         /\ \A f : Foreign(u, NewObservation(t, f))
<1>1. LinkTable \notin {"finding", "vulnerability", "observation"}
  BY DEF LinkTable
<1>2. \A f : NewObservation(u, f)[1] = "observation"
  BY FindingNames DEF NewObservation
<1>3. Foreign(u, Finding(t)) /\ Foreign(u, Vulnerability(t))
  BY <1>1, <1>2, FindingNames DEF Foreign
<1>4. ASSUME NEW f PROVE Foreign(u, NewObservation(t, f))
  <2>1. NewObservation(t, f)[1] = "observation"
    BY FindingNames DEF NewObservation
  <2>2. ASSUME NEW g PROVE NewObservation(t, f) # NewObservation(u, g)
    <3>1. NewObservation(t, f)[2] = <<t, f>> /\ NewObservation(u, g)[2] = <<u, g>>
      BY FindingNames DEF NewObservation
    <3> QED
      BY <3>1
  <2> QED
    BY <1>1, <2>1, <2>2 DEF Foreign
<1> QED
  BY <1>3, <1>4

LEMMA UnbornStays ==
  ASSUME IInv, FInv, NEW t \in Txns, StepOf(t)
  PROVE  Unborn'
<1>0. Unborn /\ Standing
  BY DEF FInv
<1>1. SUFFICES ASSUME NEW u \in Txns, txn'[u].pc # "ended", NEW r, Row(r)' # Absent
               PROVE  Foreign(u, r) /\ (r[1] = "finding" => Row(r)'.stamp # u)
  BY DEF Unborn, Foreign
<1>2. txn[u].pc # "ended"
  BY <1>1, Progress
<1>3. ASSUME NEW q, Row(q) # Absent
      PROVE  Foreign(u, q) /\ (q[1] = "finding" => Row(q).stamp # u)
  <2>1. q \in Rows
    BY <1>3 DEF Row
  <2> QED
    BY <1>0, <1>2, <1>3, <2>1 DEF Unborn
<1>4. CASE db' = db
  <2>1. Row(r)' = Row(r)
    BY <1>4, SameRows
  <2> QED
    BY <1>1, <1>3, <2>1
<1>5. CASE Commits(t) /\ FindingEffect(t) /\ txn'[t].pc = "ended"
  <2>1. t # u /\ Adds(t) /\ Stamps(t)
    BY <1>1, <1>5 DEF FindingEffect
  <2>2. r[1] = "finding" => Row(r)'.stamp # u
    <3>1. CASE Row(r)' = Row(r)
      BY <1>1, <1>3, <3>1
    <3>2. CASE r[1] = "finding" /\ Row(r)' # Row(r)
      <4>1. StampedBy(t, Row(r)')
        BY <1>1, <2>1, <3>2 DEF Stamps
      <4>2. Row(r)'.stamp = t
        BY <4>1, StampShows
      <4> QED
        BY <2>1, <4>2
    <3> QED
      BY <3>1, <3>2
  <2>3. CASE Row(r) # Absent
    BY <1>3, <2>2, <2>3
  <2>4. CASE Row(r) = Absent
    <3>1. /\ r[1] = "finding" => r = Finding(t)
          /\ r[1] = "vulnerability" => r = Vulnerability(t)
          /\ r[1] = LinkTable => /\ r[2] = t \/ Holding(t, Finding(r[2]))
                                 /\ <<Vulnerability(r[3]), "share">> \in txn[t].held
          /\ r[1] = "observation" => \E f : r = NewObservation(t, f)
      BY <1>1, <2>1, <2>4 DEF Adds
    <3>2. ASSUME r[1] = LinkTable PROVE r[2] # u /\ r[3] # u
      <4>1. r[2] = t \/ Foreign(u, Finding(r[2]))
        <5>1. CASE Holding(t, Finding(r[2]))
          <6>1. Row(Finding(r[2])) # Absent
            BY <1>0, <5>1, HeldStands, FindingNames
          <6> QED
            BY <1>3, <6>1
        <5> QED
          BY <3>1, <3>2, <5>1
      <4>2. Row(Vulnerability(r[3])) # Absent
        <5>1. PICK l : l = <<Vulnerability(r[3]), "share">>
          OBVIOUS
        <5>2. l \in txn[t].held /\ l[1] = Vulnerability(r[3])
          BY <3>1, <3>2, <5>1
        <5> QED
          BY <1>0, <5>2, FindingNames DEF Standing
      <4>3. Foreign(u, Vulnerability(r[3]))
        BY <1>3, <4>2
      <4> QED
        BY <2>1, <4>1, <4>3, FindingNames DEF Foreign
    <3>3. \A f : r[1] # "observation" => r # NewObservation(u, f)
      BY FindingNames DEF NewObservation
    <3>4. LinkTable \notin {"finding", "vulnerability", "observation"}
      BY DEF LinkTable
    <3>5. CASE r[1] \in {"finding", "vulnerability", "observation"}
      BY <2>1, <2>2, <3>1, <3>5, ForeignNames
    <3>6. CASE r[1] \notin {"finding", "vulnerability", "observation"}
      BY <2>2, <3>2, <3>3, <3>6 DEF Foreign
    <3> QED
      BY <3>5, <3>6
  <2> QED
    BY <2>3, <2>4
<1> QED
  BY <1>4, <1>5, Progress

LEMMA ShapedStays ==
  ASSUME IInv, FInv, NEW t \in Txns, StepOf(t)
  PROVE  Shaped'
<1>1. SUFFICES ASSUME NEW r, Row(r)' # Absent, r[1] = "finding"
               PROVE  Row(r)' = [asset |-> Row(r)'.asset, stamp |-> Row(r)'.stamp]
  BY DEF Shaped
<1>2. CASE Row(r)' = Row(r)
  <2>1. r \in Rows
    BY <1>1, <1>2 DEF Row
  <2> QED
    BY <1>1, <1>2, <2>1 DEF FInv, Shaped
<1>3. CASE Row(r)' # Row(r)
  <2>1. FindingEffect(t)
    BY <1>3, SameRows, Progress
  <2>2. PICK x : x = Row(r)'
    OBVIOUS
  <2>3. StampedBy(t, x)
    BY <1>1, <1>3, <2>1, <2>2 DEF FindingEffect, Stamps
  <2>4. x = [asset |-> x.asset, stamp |-> t]
    BY <2>3 DEF StampedBy
  <2>5. x.stamp = t
    BY <2>3, StampShows
  <2> QED
    BY <2>2, <2>4, <2>5
<1> QED
  BY <1>2, <1>3

LEMMA StandingStays ==
  ASSUME IInv, FInv, NEW t \in Txns, StepOf(t)
  PROVE  Standing'
<1>0. Standing /\ Exclusive /\ Base
  BY DEF FInv, IInv, Base
<1>1. SUFFICES ASSUME NEW u \in Txns, NEW l \in txn'[u].held,
                      l[1][1] \in {"finding", "vulnerability"}
               PROVE  Row(l[1])' # Absent
  BY DEF Standing
<1>2. CASE u # t
  <2>1. l \in txn[u].held
    BY <1>1, <1>2, Progress, StillFacts
  <2>2. Row(l[1]) # Absent
    BY <1>0, <1>1, <2>1 DEF Standing
  <2>3. SUFFICES ASSUME Row(l[1])' = Absent PROVE FALSE
    OBVIOUS
  <2>4. FindingEffect(t)
    BY <2>2, <2>3, SameRows, Progress
  <2>5. PICK h : h = <<l[1], "all">>
    OBVIOUS
  <2>6. h \in txn[t].held /\ h[1] = l[1] /\ h[2] = "all"
    BY <1>1, <2>2, <2>3, <2>4, <2>5 DEF FindingEffect, Erases
  <2>7. Compatible(h[2], l[2])
    BY <1>0, <1>2, <2>1, <2>6 DEF Exclusive
  <2> QED
    BY <2>6, <2>7 DEF Compatible
<1>3. CASE u = t
  <2>1. Stepped(t)
    BY Progress
  <2>2. CASE LockStep(t)
    <3>1. \A r : Row(r)' = Row(r)
      BY <1>0, <2>2, KeptClaims
    <3>2. CASE l \in txn[t].held
      BY <1>0, <1>1, <3>1, <3>2 DEF Standing
    <3>3. CASE l \notin txn[t].held
      <4>1. Visible(l) /\ l \in Left(t)
        BY <1>1, <1>3, <2>2, <3>3 DEF LockStep, Taken, PassedOver
      <4>2. \E tables : Proper(l, tables)
        BY <1>0, <4>1 DEF Base, Reach, ClaimsOn, Claims
      <4>3. l[2] # "new"
        BY <1>1, <4>2 DEF Proper
      <4>4. Row(l[1]) # Absent
        BY <4>1, <4>3 DEF Visible, Present, Known, Row
      <4> QED
        BY <3>1, <4>4
    <3> QED
      BY <3>2, <3>3
  <2>3. CASE Moves(t)
    <3>1. l \in txn[t].held /\ db' = db
      BY <1>1, <1>3, <2>3 DEF Moves, MovesOn
    <3> QED
      BY <1>0, <1>1, <3>1, SameRows DEF Standing
  <2> QED
    BY <1>1, <1>3, <2>1, <2>2, <2>3 DEF Stepped, Ends, Commits
<1> QED
  BY <1>2, <1>3

-----------------------------------------------------------------------------
\* Every step keeps what the changes of findings claim.

ClaimsPlan(t) == /\ EditClaims(t) /\ CreatedClaims(t) /\ LinkClaims(t) /\ CatalogClaims(t)
                 /\ RecordClaims(t)

\* Where nothing is said of what it claims.
LEMMA ClaimsElsewhere ==
  ASSUME NEW t
  PROVE  /\ txn'[t].pc \notin {"edit", "write edit"} => EditClaims(t)'
         /\ txn'[t].pc # "createManual" => CreatedClaims(t)'
         /\ txn'[t].pc \notin {"unlinkVulnerability", "touch"} => LinkClaims(t)'
         /\ txn'[t].pc \notin {"unlink all", "rename vulnerability", "write vulnerability"}
              => CatalogClaims(t)'
         /\ txn'[t].pc \notin {"lock plan", "record"} => RecordClaims(t)'
<1>1. txn'[t].pc \notin {"edit", "write edit"} => EditClaims(t)'
  BY DEF EditClaims
<1>2. txn'[t].pc # "createManual" => CreatedClaims(t)'
  BY DEF CreatedClaims
<1>3. txn'[t].pc \notin {"unlinkVulnerability", "touch"} => LinkClaims(t)'
  BY DEF LinkClaims
<1>4. txn'[t].pc \notin {"unlink all", "rename vulnerability", "write vulnerability"}
              => CatalogClaims(t)'
  BY DEF CatalogClaims
<1>5. txn'[t].pc \notin {"lock plan", "record"} => RecordClaims(t)'
  BY DEF RecordClaims
<1> QED
  BY <1>1, <1>2, <1>3, <1>4, <1>5

LEMMA ClaimsOfEnded ==
  ASSUME NEW t, txn'[t].pc \notin FindingSteps
  PROVE  ClaimsPlan(t)'
BY ClaimsElsewhere DEF ClaimsPlan, FindingSteps

LEMMA ClaimsOfOthers ==
  ASSUME NEW t, Still(t), ClaimsPlan(t)
  PROVE  ClaimsPlan(t)'
<1>1. txn'[t].pc = txn[t].pc /\ txn'[t].call = txn[t].call /\ Claims(t)' = Claims(t)
  BY StillFacts
<1>2. EditClaims(t)' /\ CreatedClaims(t)' /\ LinkClaims(t)' /\ CatalogClaims(t)'
  BY <1>1 DEF ClaimsPlan, EditClaims, CreatedClaims, LinkClaims, CatalogClaims
<1>3. RecordClaims(t)'
  BY <1>1 DEF ClaimsPlan, RecordClaims
<1> QED
  BY <1>2, <1>3 DEF ClaimsPlan

LEMMA ClaimsOfLock ==
  ASSUME Base, NEW t \in Txns, LockStep(t), ClaimsPlan(t)
  PROVE  ClaimsPlan(t)'
<1>1. /\ txn'[t].pc = txn[t].pc /\ txn'[t].call = txn[t].call
      /\ Claims(t)' \subseteq Claims(t)
      /\ \A r, m : <<r, m>> \in Claims(t) /\ m = "share" => <<r, m>> \in Claims(t)'
  BY KeptClaims
<1>2. EditClaims(t)'
  BY <1>1 DEF ClaimsPlan, EditClaims
<1>3. CreatedClaims(t)'
  BY <1>1 DEF ClaimsPlan, CreatedClaims
<1>4. LinkClaims(t)'
  BY <1>1 DEF ClaimsPlan, LinkClaims
<1>5. CatalogClaims(t)'
  BY <1>1 DEF ClaimsPlan, CatalogClaims
<1>6. RecordClaims(t)'
  BY <1>1 DEF ClaimsPlan, RecordClaims
<1> QED
  BY <1>2, <1>3, <1>4, <1>5, <1>6 DEF ClaimsPlan

LEMMA LocksIn ==
  ASSUME NEW rows, NEW mode, NEW r
  PROVE  <<r, mode>> \in Locks(rows, mode) <=> r \in rows
<1>1. \A x : <<x, mode>> = <<r, mode>> <=> x = r
  OBVIOUS
<1> QED
  BY <1>1 DEF Locks

\* A call begins.
LEMMA ClaimsOfStart ==
  ASSUME Shape, NEW t \in Txns, NEW c \in Calls, StartFindingCall(t, c), ~Rollback(t)
  PROVE  ClaimsPlan(t)' /\ txn'[t].pc # "write edit"
<1>1. CASE StartEdit(t, c)
  <2>1. Open(t, c, "edit", EditLocks(c))
    BY <1>1 DEF StartEdit
  <2>2. /\ txn'[t].pc = "edit" /\ txn'[t].call = c
        /\ Claims(t)' = LeftIn(EditLocks(c))
    BY <2>1, OpenEffect
  <2>3. \A l \in LeftIn(EditLocks(c)) : l[2] = "all"
    BY DEF LeftIn, EditLocks, InOrder
  <2>4. EditClaims(t)'
    BY <2>2, <2>3 DEF EditClaims
  <2> QED
    BY <2>2, <2>4, ClaimsElsewhere DEF ClaimsPlan
<1>2. CASE CreateManual(t, c)
  <2>1. PICK a : a = Locks({Asset(c.asset)}, "share")
    OBVIOUS
  <2>2. PICK b : b = Locks({Vulnerability(v) : v \in c.vulnerabilities}, "share")
    OBVIOUS
  <2>3. Open(t, c, "createManual", <<a, b>>)
    BY <1>2, <2>1, <2>2 DEF CreateManual
  <2>4. /\ txn'[t].pc = "createManual" /\ txn'[t].call = c
        /\ Claims(t)' = a \cup b
    BY <2>3, OpenEffect, LeftOfTwo
  <2>5. \A v \in c.vulnerabilities : <<Vulnerability(v), "share">> \in b
    BY <2>2, LocksIn
  <2>6. CreatedClaims(t)'
    BY <2>4, <2>5 DEF CreatedClaims
  <2> QED
    BY <2>4, <2>6, ClaimsElsewhere DEF ClaimsPlan
<1>3. CASE MutateVulnerabilityLink(t, c)
  <2>1. \E locks : Open(t, c, c.op, locks)
    BY <1>3 DEF MutateVulnerabilityLink
  <2>o. c.op \in {"linkVulnerability", "unlinkVulnerability"}
    BY <1>3 DEF MutateVulnerabilityLink
  <2>p. txn'[t].pc = c.op /\ txn'[t].call = c
    BY <2>1, OpenEffect
  <2>2. txn'[t].pc \in {"linkVulnerability", "unlinkVulnerability"} /\ txn'[t].call.op = txn'[t].pc
    BY <2>o, <2>p
  <2>3. LinkClaims(t)'
    BY <2>2 DEF LinkClaims
  <2> QED
    BY <2>2, <2>3, ClaimsElsewhere DEF ClaimsPlan
<1>4. CASE CreateVulnerability(t, c)
  <2>1. txn'[t].pc = "insert vulnerability"
    BY <1>4, OpenEffect DEF CreateVulnerability
  <2> QED
    BY <2>1, ClaimsElsewhere DEF ClaimsPlan
<1>5. CASE UpdateVulnerability(t, c)
  <2>1. PICK mode : Open(t, c, "rename vulnerability", <<{<<Vulnerability(c.vulnerability), mode>>}>>)
    BY <1>5 DEF UpdateVulnerability
  <2>2. PICK a : a = {<<Vulnerability(c.vulnerability), mode>>}
    OBVIOUS
  <2>4. txn'[t].pc = "rename vulnerability" /\ txn'[t].call = c /\ Claims(t)' = a
    BY <2>1, <2>2, OpenEffect, LeftOfOne
  <2>o. c.op = "updateVulnerability"
    BY <1>5 DEF UpdateVulnerability
  <2>5. \A l \in a : l[1] = Vulnerability(c.vulnerability)
    BY <2>2
  <2>3. CatalogClaims(t)'
    BY <2>o, <2>4, <2>5 DEF CatalogClaims
  <2> QED
    BY <2>3, <2>4, ClaimsElsewhere DEF ClaimsPlan
<1>6. CASE DeleteVulnerability(t, c)
  <2>1. PICK a : a = Locks({Vulnerability(c.vulnerability)}, "all")
    OBVIOUS
  <2>2. Open(t, c, "unlink all", <<a>>)
    BY <1>6, <2>1 DEF DeleteVulnerability
  <2>3. txn'[t].pc = "unlink all" /\ txn'[t].call = c /\ Claims(t)' = a
    BY <2>2, OpenEffect, LeftOfOne
  <2>o. c.op = "deleteVulnerability"
    BY <1>6 DEF DeleteVulnerability
  <2>4. \A l \in a : l[2] = "all" /\ l[1] = Vulnerability(c.vulnerability)
    BY <2>1, LocksOf
  <2>5. CatalogClaims(t)'
    BY <2>o, <2>3, <2>4 DEF CatalogClaims
  <2> QED
    BY <2>3, <2>5, ClaimsElsewhere DEF ClaimsPlan
<1>7. CASE RecordPlan(t, c)
  <2>1. \E locks : Open(t, c, "lock plan", locks)
    BY <1>7 DEF RecordPlan
  <2>2. txn'[t].pc = "lock plan" /\ txn'[t].call = c
    BY <2>1, OpenEffect
  <2>3. RecordClaims(t)'
    BY <1>7, <2>2 DEF RecordClaims, RecordPlan
  <2> QED
    BY <2>2, <2>3, ClaimsElsewhere DEF ClaimsPlan
<1> QED
  BY <1>1, <1>2, <1>3, <1>4, <1>5, <1>6, <1>7 DEF StartFindingCall

\* A call goes on.
LEMMA ClaimsOfMove ==
  ASSUME Shape, NEW t \in Txns, FindingStep(t), ~FindingCommit(t), ~Rollback(t), ClaimsPlan(t)
  PROVE  ClaimsPlan(t)' /\ (ReadEdit(t) \/ txn'[t].pc # "write edit")
<1>c. PICK c : c = txn[t].call
  OBVIOUS
<1>1. CASE ReadEdit(t)
  <2>1. PICK own : own = Restricted(UNION {Of(f) \cup EntriesOf(f) : f \in Parents(c)})
    OBVIOUS
  <2>2. PICK b : b = Locks(LinksOf(c.finding), "all")
    OBVIOUS
  <2>3. PICK locks : locks = IF c.op = "deleteByID" THEN <<b>> ELSE <<>>
    OBVIOUS
  <2>4. txn' = [txn EXCEPT ![t].pc = "write edit", ![t].seen = own, ![t].todo = locks]
    BY <1>c, <1>1, <2>1, <2>2, <2>3 DEF ReadEdit
  <2>5. /\ txn'[t].pc = "write edit" /\ txn'[t].call = c
        /\ txn'[t].held = txn[t].held /\ txn'[t].todo = locks
    BY <1>c, <2>4 DEF Shape, Fields
  <2>6. Left(t)' = LeftIn(locks)
    BY <2>5 DEF Left, LeftIn
  <2>7. \A l \in LeftIn(locks) : l \in b
    BY <2>3, LeftOfOne, LeftOfNone
  <2>8. \A l \in b : l[2] = "all"
    BY <2>2, LocksOf
  <2>9. c \in Calls /\ \A l \in txn[t].held : l[2] = "all"
    BY <1>c, <1>1 DEF ClaimsPlan, EditClaims, ReadEdit, Ready, Claims
  <2>10. EditClaims(t)'
    BY <2>5, <2>6, <2>7, <2>8, <2>9 DEF EditClaims, Claims
  <2> QED
    BY <1>1, <2>5, <2>10, ClaimsElsewhere DEF ClaimsPlan
<1>2. CASE LinkInserted(t)
  <2>1. PICK b : b = {<<Vulnerability(c.vulnerability), "share">>}
    OBVIOUS
  <2>2. PICK a, d : Advance(t, "touch", <<a, b, d>>)
    BY <1>c, <1>2, <2>1 DEF LinkInserted
  <2>3. /\ txn'[t].pc = "touch" /\ txn'[t].call = c
        /\ Claims(t)' = txn[t].held \cup LeftIn(<<a, b, d>>)
    BY <1>c, <2>2, AdvanceEffect
  <2>4. LinkClaims(t)'
    BY <2>1, <2>3, LeftOfThree DEF LinkClaims
  <2> QED
    BY <2>3, <2>4, ClaimsElsewhere DEF ClaimsPlan
<1>3. CASE LinkDeleted(t)
  <2>1. PICK locks : Advance(t, "touch", locks)
    BY <1>3 DEF LinkDeleted
  <2>2. txn'[t].pc = "touch" /\ txn'[t].call = c
    BY <1>c, <2>1, AdvanceEffect
  <2>3. c.op = "unlinkVulnerability"
    BY <1>c, <1>3 DEF LinkDeleted, Ready, ClaimsPlan, LinkClaims
  <2>4. LinkClaims(t)'
    BY <2>2, <2>3 DEF LinkClaims
  <2> QED
    BY <2>2, <2>4, ClaimsElsewhere DEF ClaimsPlan
<1>4. CASE UnlinkAll(t)
  <2>0. PICK v : v = c.vulnerability
    OBVIOUS
  <2>1. PICK rows : rows = Entries("vulnerability_key", v) \cup LinksTo(v)
    OBVIOUS
  <2>b. PICK b : b = Locks(rows, "all")
    OBVIOUS
  <2>2. Advance(t, "write vulnerability", <<b>>)
    BY <1>c, <1>4, <2>0, <2>1, <2>b DEF UnlinkAll
  <2>3. /\ txn'[t].pc = "write vulnerability" /\ txn'[t].call = c
        /\ Claims(t)' = txn[t].held \cup b
    BY <1>c, <2>2, AdvanceEffect, LeftOfOne
  <2>r. \A r \in rows : r[1] = "vulnerability_key" \/ (r[1] = LinkTable /\ r[3] = v)
    BY <2>1, EntriesIn DEF LinksTo, Table, LinkTable
  <2>4. \A l \in b : /\ l[2] = "all"
                     /\ l[1][1] = "vulnerability_key" \/ (l[1][1] = LinkTable /\ l[1][3] = v)
    BY <2>b, <2>r, LocksOf
  <2>5. /\ c.op = "deleteVulnerability"
        /\ \A l \in txn[t].held :
             /\ l[2] = "all"
             /\ \/ l[1] = Vulnerability(v) \/ l[1][1] = "vulnerability_key"
                \/ l[1][1] = LinkTable /\ l[1][3] = v
    BY <1>c, <1>4, <2>0 DEF UnlinkAll, Ready, ClaimsPlan, CatalogClaims, Claims
  <2>6. CatalogClaims(t)'
    BY <2>0, <2>3, <2>4, <2>5 DEF CatalogClaims
  <2> QED
    BY <2>3, <2>6, ClaimsElsewhere DEF ClaimsPlan
<1>6. CASE RenameVulnerability(t)
  <2>0. PICK v : v = c.vulnerability
    OBVIOUS
  <2>1. PICK key : key = VulnerabilityKey(c.key)
    OBVIOUS
  <2>a. PICK a : a = Freed(key, v)
    OBVIOUS
  <2>b. PICK b : b = Claimed(key, v)
    OBVIOUS
  <2>2. Advance(t, "write vulnerability", <<a, b>>)
    BY <1>c, <1>6, <2>0, <2>1, <2>a, <2>b DEF RenameVulnerability
  <2>l. LeftIn(<<a, b>>) = a \cup b
    BY LeftOfTwo, Zenon
  <2>3. /\ txn'[t].pc = "write vulnerability" /\ txn'[t].call = c
        /\ Claims(t)' = txn[t].held \cup (a \cup b)
    BY <1>c, <2>2, <2>l, AdvanceEffect
  <2>k. key[1] = "vulnerability_key"
    BY <2>1, FindingNames
  <2>4. \A l \in a \cup b : l[1][1] = "vulnerability_key"
    <3>1. ASSUME NEW l \in b PROVE l[1] = key
      BY <2>b, FreedClaimed
    <3> QED
      BY <2>a, <2>k, <3>1, FreedClaimed
  <2>5. /\ c.op = "updateVulnerability"
        /\ \A l \in txn[t].held : l[1] = Vulnerability(v) \/ l[1][1] = "vulnerability_key"
    BY <1>c, <1>6, <2>0 DEF RenameVulnerability, Ready, ClaimsPlan, CatalogClaims, Claims
  <2>6. CatalogClaims(t)'
    BY <2>0, <2>3, <2>4, <2>5 DEF CatalogClaims
  <2> QED
    BY <2>3, <2>6, ClaimsElsewhere DEF ClaimsPlan
<1>5. CASE LockPlan(t)
  <2>1. PICK locks : Advance(t, "record", locks)
    BY <1>5 DEF LockPlan
  <2>2. txn'[t].pc = "record" /\ txn'[t].call = c
    BY <1>c, <2>1, AdvanceEffect
  <2>3. RecordClaims(t)'
    BY <1>c, <1>5, <2>2 DEF LockPlan, Ready, ClaimsPlan, RecordClaims
  <2> QED
    BY <2>2, <2>3, ClaimsElsewhere DEF ClaimsPlan
<1> QED
  BY <1>1, <1>2, <1>3, <1>4, <1>5, <1>6 DEF FindingStep, FindingCommit

-----------------------------------------------------------------------------
\* Every step keeps what an edit has seen.

\* The edit reads its findings, which it has locked.
LEMMA SeenByRead ==
  ASSUME IInv, FInv, NEW t \in Txns, ReadEdit(t), ~Rollback(t),
         \A u \in Txns : txn'[u].pc # "ended" => txn[u].pc # "ended"
  PROVE  SeenOfEdit(t)'
<1>c. PICK c : c = txn[t].call
  OBVIOUS
<1>0. Unborn /\ EditClaims(t) /\ Shape
  BY DEF FInv, FindingPlan, IInv, Base
<1>1. PICK own : own = UNION {Of(f) \cup EntriesOf(f) : f \in Parents(c)}
  OBVIOUS
<1>2. PICK locks : locks = IF c.op = "deleteByID" THEN <<Locks(LinksOf(c.finding), "all")>>
                                                  ELSE <<>>
  OBVIOUS
<1>3. /\ txn' = [txn EXCEPT ![t].pc = "write edit", ![t].seen = Restricted(own),
                            ![t].todo = locks]
      /\ db' = db /\ Editable(t, c) /\ txn[t].pc = "edit"
  BY <1>c, <1>1, <1>2 DEF ReadEdit, Ready
<1>4. /\ txn'[t].call = c /\ txn'[t].held = txn[t].held
      /\ txn'[t].seen = Restricted(own)
  BY <1>0, <1>c, <1>3 DEF Shape, Fields
<1>5. /\ \A r \in own : /\ r \in Rows
                        /\ r[1] = "vulnerability" \/ \E f \in Parents(c) : Belongs(f, r, Row(r))
      /\ \A f \in Parents(c) : \A r \in Rows : Belongs(f, r, Row(r)) => r \in own
  <2>1. \A f : \A r \in EntriesOf(f) : r \in Rows /\ r[1] = "vulnerability"
    BY DEF EntriesOf, Table
  <2>2. \A f : \A r : r \in Of(f) <=> r \in Rows /\ Belongs(f, r, Row(r))
    BY OwnRowsOf
  <2> QED
    BY <1>1, <2>1, <2>2
<1>6. DOMAIN txn'[t].seen = own /\ \A r \in own : Seen(t, r)' = Row(r)
  <2>1. DOMAIN Restricted(own) = own /\ \A r \in own : Restricted(own)[r] = db[r]
    BY DEF Restricted
  <2>2. \A r \in own : Row(r) = db[r]
    BY <1>5 DEF Row
  <2> QED
    BY <1>4, <2>1, <2>2 DEF Seen
<1>7. Rows' = Rows /\ \A r : Row(r)' = Row(r)
  BY <1>3, SameRows
<1>8. ASSUME NEW f \in Parents(c) PROVE <<Finding(f), "all">> \in txn[t].held
  <2>1. PICK m : <<Finding(f), m>> \in txn[t].held
    BY <1>3 DEF Editable, Holding
  <2>2. PICK l : l = <<Finding(f), m>>
    OBVIOUS
  <2>3. l[2] = "all"
    BY <1>0, <1>3, <2>1, <2>2 DEF EditClaims, Claims
  <2> QED
    BY <2>1, <2>2, <2>3
<1>9. ASSUME c.op \in {"updateObservation", "deleteObservation", "moveObservation"}
      PROVE  Belongs(c.finding, Observation(c.observation), Seen(t, Observation(c.observation))')
  <2>1. Observation(c.observation) \in Of(c.finding)
    BY <1>3, <1>9 DEF Editable
  <2>2. c.finding \in Parents(c)
    BY DEF Parents
  <2>3. PICK o : o = Observation(c.observation)
    OBVIOUS
  <2>4. o \in Rows /\ Belongs(c.finding, o, Row(o))
    BY <2>1, <2>3, OwnRowsOf
  <2>5. o \in own
    BY <1>5, <2>2, <2>4
  <2> QED
    BY <1>6, <2>3, <2>4, <2>5
<1>10. ASSUME NEW r \in own, r[1] = LinkTable, NEW u \in Txns, txn'[u].pc # "ended"
       PROVE  r[3] # u
  <2>1. PICK f : r \in Rows /\ Belongs(f, r, Row(r))
    BY <1>5, <1>10 DEF LinkTable
  <2>2. Row(r) # Absent
    BY <1>10, <2>1, BelongsToOne
  <2>3. txn[u].pc # "ended"
    BY <1>10
  <2> QED
    BY <1>0, <1>10, <2>1, <2>2, <2>3 DEF Unborn, Foreign
<1>11. \A r \in own :
         r[1] = "vulnerability" \/ \E f \in Parents(c) : Belongs(f, r, Seen(t, r)')
  BY <1>5, <1>6
<1>12. \A f \in Parents(c) : \A r \in Rows' : Belongs(f, r, Row(r)') => r \in own
  BY <1>5, <1>7
<1> QED
  BY <1>4, <1>6, <1>7, <1>8, <1>9, <1>10, <1>11, <1>12 DEF SeenOfEdit

\* No commit of another call changes what belongs to the findings of an edit, but for
\* links that go with their vulnerability.
LEMMA ParentsKept ==
  ASSUME IInv, FInv, NEW t \in Txns, Commits(t), Touches(t), NEW u \in Txns \ {t},
         NEW f, <<Finding(f), "all">> \in txn[u].held,
         NEW r, Row(r)' # Row(r), Belongs(f, r, Row(r)) \/ Belongs(f, r, Row(r)')
  PROVE  r[1] = LinkTable /\ Row(r)' = Absent /\ Row(Vulnerability(r[3]))' = Absent
<1>0. Unborn /\ Standing /\ Exclusive /\ txn[t].pc # "ended"
  BY DEF FInv, IInv, Base, Commits
<1>1. ~Holding(t, Finding(f))
  <2>1. SUFFICES ASSUME NEW m \in {"nokey", "all", "new"}, <<Finding(f), m>> \in txn[t].held
                 PROVE  FALSE
    BY DEF Holding
  <2>2. Compatible(m, "all")
    BY <1>0, <2>1, Conflict
  <2> QED
    BY <2>2 DEF Compatible
<1>2. f # t
  <2>1. Row(Finding(t)) = Absent
    BY <1>0, NotYetBorn
  <2>2. Holding(u, Finding(f))
    BY DEF Holding
  <2>3. Row(Finding(f)) # Absent
    BY <1>0, <2>2, HeldStands, FindingNames
  <2> QED
    BY <2>1, <2>3
<1> QED
  BY <1>1, <1>2 DEF Touches

LEMMA SeenOfOthers ==
  ASSUME IInv, FInv, NEW t \in Txns, StepOf(t), NEW u \in Txns \ {t}
  PROVE  SeenOfEdit(u)'
<1>c. PICK c : c = txn[u].call
  OBVIOUS
<1>0. PICK seen : seen = txn[u].seen
  OBVIOUS
<1>o. PICK o : o = Observation(c.observation)
  OBVIOUS
<1>1. /\ txn'[u].pc = txn[u].pc /\ txn'[u].call = c /\ txn'[u].held = txn[u].held
      /\ txn'[u].seen = seen /\ \A r : Seen(u, r)' = Seen(u, r)
  BY <1>c, <1>0, Progress, StillFacts
<1>2. SUFFICES ASSUME txn[u].pc = "write edit" PROVE SeenOfEdit(u)'
  BY <1>1 DEF SeenOfEdit
<1>3. /\ \A f \in Parents(c) : <<Finding(f), "all">> \in txn[u].held
      /\ c.op \in {"updateObservation", "deleteObservation", "moveObservation"} =>
           Belongs(c.finding, o, Seen(u, o))
      /\ \A r \in DOMAIN seen :
           /\ r[1] = "vulnerability" \/ \E f \in Parents(c) : Belongs(f, r, Seen(u, r))
           /\ Row(r) = Seen(u, r) \/ ByCatalog(r)
           /\ r[1] = LinkTable => \A v \in Txns : txn[v].pc # "ended" => r[3] # v
      /\ \A f \in Parents(c) : \A r \in Rows : Belongs(f, r, Row(r)) => r \in DOMAIN seen
  BY <1>c, <1>0, <1>2, <1>o DEF FInv, FindingPlan, SeenOfEdit
<1>4. \A v \in Txns : txn'[v].pc # "ended" => txn[v].pc # "ended"
  BY Progress
<1>b. \A r : r[1] = LinkTable => (ByCatalog(r) <=> Row(Vulnerability(r[3])) = Absent)
  BY DEF ByCatalog, Catalogs, Present, Known, Row, LinkTable
<1>p. \A r : r[1] = LinkTable => (ByCatalog(r)' <=> Row(Vulnerability(r[3]))' = Absent)
  BY DEF ByCatalog, Catalogs, Present, Known, Row, Rows, LinkTable, Vulnerability
<1>x. \A r, f : Belongs(f, r, Seen(u, r)) => ~Custom(r)
  BY BelongsToOne DEF Custom, AssignmentTable, ValueTable, LinkTable
<1>5. ASSUME NEW r \in DOMAIN seen
      PROVE  Row(r)' = Seen(u, r) \/ ByCatalog(r)'
  <2>c. CASE r[1] = "vulnerability"
    BY <2>c DEF ByCatalog, Catalogs
  <2>0. SUFFICES ASSUME r[1] # "vulnerability" PROVE Row(r)' = Seen(u, r) \/ ByCatalog(r)'
    BY <2>c
  <2>1. PICK f \in Parents(c) : Belongs(f, r, Seen(u, r))
    BY <1>3, <1>5, <2>0
  <2>2. CASE db' = db
    BY <1>3, <1>5, <2>2, SameRows DEF ByCatalog, Catalogs, Present, Known, Rows
  <2>3. CASE Commits(t) /\ FindingEffect(t)
    <3>1. CASE Row(r) = Seen(u, r) /\ Row(r)' # Row(r)
      BY <1>3, <1>p, <2>1, <2>3, <3>1, ParentsKept DEF FindingEffect
    <3>2. CASE ByCatalog(r)
      <4>1. r[1] = LinkTable
        <5>1. ~Custom(r) /\ r[1] # "asset_custom_field"
          BY <1>x, <2>1, BelongsToOne DEF LinkTable
        <5> QED
          BY <2>0, <3>2, <5>1 DEF ByCatalog, Catalogs, Custom, AssignmentTable, ValueTable, LinkTable
      <4>2. Row(Vulnerability(r[3])) = Absent
        BY <1>b, <3>2, <4>1
      <4>3. txn[t].pc # "ended"
        BY <2>3 DEF Commits
      <4>4. r[3] # t
        BY <1>3, <1>5, <4>1, <4>3
      <4>5. Vulnerability(r[3]) # Vulnerability(t) /\ Vulnerability(r[3])[1] = "vulnerability"
        BY <4>4, FindingNames
      <4>6. Row(Vulnerability(r[3]))' = Absent
        BY <2>3, <4>2, <4>5 DEF FindingEffect, Adds
      <4> QED
        BY <1>p, <4>1, <4>6
    <3> QED
      BY <1>3, <1>5, <3>1, <3>2
  <2> QED
    BY <2>2, <2>3, Progress
<1>6. ASSUME NEW f \in Parents(c), NEW r \in Rows', Belongs(f, r, Row(r)')
      PROVE  r \in DOMAIN seen
  <2>1. CASE Row(r)' = Row(r)
    <3>1. Belongs(f, r, Row(r))
      BY <1>6, <2>1
    <3>2. Row(r) # Absent
      <4>1. CASE r = Finding(f)
        <5>1. Holding(u, Finding(f)) /\ Standing
          BY <1>3 DEF Holding, FInv
        <5> QED
          BY <4>1, <5>1, HeldStands, FindingNames
      <4>2. CASE r # Finding(f)
        BY <3>1, <4>2 DEF Belongs
      <4> QED
        BY <4>1, <4>2
    <3>3. r \in Rows
      BY <3>2 DEF Row
    <3> QED
      BY <1>3, <3>1, <3>3
  <2>2. CASE Row(r)' # Row(r)
    <3>1. Commits(t) /\ Touches(t)
      BY <2>2, Progress, SameRows DEF FindingEffect
    <3>2. r[1] = LinkTable /\ Row(r)' = Absent
      BY <1>3, <1>6, <2>2, <3>1, ParentsKept
    <3> QED
      BY <1>6, <3>2, BelongsToOne
  <2> QED
    BY <2>1, <2>2
<1>7. \A r \in DOMAIN seen : r[1] = LinkTable =>
        \A v \in Txns : txn'[v].pc # "ended" => r[3] # v
  BY <1>3, <1>4
<1> QED
  BY <1>1, <1>3, <1>5, <1>6, <1>7, <1>o DEF SeenOfEdit

LEMMA SeenOfLock ==
  ASSUME Base, NEW t \in Txns, LockStep(t), SeenOfEdit(t),
         \A u \in Txns : txn'[u].pc # "ended" => txn[u].pc # "ended"
  PROVE  SeenOfEdit(t)'
<1>c. PICK c : c = txn[t].call
  OBVIOUS
<1>0. PICK seen : seen = txn[t].seen
  OBVIOUS
<1>o. PICK o : o = Observation(c.observation)
  OBVIOUS
<1>1. /\ txn'[t].pc = txn[t].pc /\ txn'[t].call = c /\ txn'[t].seen = seen
      /\ \A r : Seen(t, r)' = Seen(t, r)
      /\ Rows' = Rows /\ \A r : Row(r)' = Row(r)
      /\ txn[t].held \subseteq txn'[t].held
  BY <1>c, <1>0, KeptClaims
<1>2. SUFFICES ASSUME txn[t].pc = "write edit" PROVE SeenOfEdit(t)'
  BY <1>1 DEF SeenOfEdit
<1>3. /\ \A f \in Parents(c) : <<Finding(f), "all">> \in txn[t].held
      /\ c.op \in {"updateObservation", "deleteObservation", "moveObservation"} =>
           Belongs(c.finding, o, Seen(t, o))
      /\ \A r \in DOMAIN seen :
           /\ r[1] = "vulnerability" \/ \E f \in Parents(c) : Belongs(f, r, Seen(t, r))
           /\ Row(r) = Seen(t, r) \/ ByCatalog(r)
           /\ r[1] = LinkTable => \A v \in Txns : txn[v].pc # "ended" => r[3] # v
      /\ \A f \in Parents(c) : \A r \in Rows : Belongs(f, r, Row(r)) => r \in DOMAIN seen
  BY <1>c, <1>0, <1>2, <1>o DEF SeenOfEdit
<1>4. \A r : ByCatalog(r)' <=> ByCatalog(r)
  BY DEF LockStep, ByCatalog, Catalogs, Present, Known, Rows
<1>5. \A r \in DOMAIN seen : r[1] = LinkTable =>
        \A v \in Txns : txn'[v].pc # "ended" => r[3] # v
  BY <1>3
<1> QED
  BY <1>1, <1>3, <1>4, <1>5, <1>o DEF SeenOfEdit

\* What the transaction that steps claims, and what it has seen.
LEMMA OwnFindingPlan ==
  ASSUME IInv, FInv, NEW t \in Txns, StepOf(t)
  PROVE  ClaimsPlan(t)' /\ SeenOfEdit(t)'
<1>0. /\ Base /\ Shape /\ Reach /\ ClaimsPlan(t) /\ SeenOfEdit(t)
      /\ \A u \in Txns : txn'[u].pc # "ended" => txn[u].pc # "ended"
  BY Progress DEF IInv, Base, FInv, FindingPlan, ClaimsPlan
<1>1. ASSUME txn'[t].pc \notin FindingSteps
      PROVE  ClaimsPlan(t)' /\ SeenOfEdit(t)'
  BY <1>1, ClaimsOfEnded DEF SeenOfEdit, FindingSteps
<1>2. ASSUME GivesUp(t) PROVE ClaimsPlan(t)' /\ SeenOfEdit(t)'
  BY <1>0, <1>1, <1>2, EndedEffect DEF GivesUp, FindingSteps
<1>3. ASSUME Rollback(t) PROVE ClaimsPlan(t)' /\ SeenOfEdit(t)'
  BY <1>2, <1>3, RollbackGivesUp
<1>4. ASSUME CommitStep(t) PROVE ClaimsPlan(t)' /\ SeenOfEdit(t)'
  <2>1. GivesUp(t) \/ Commits(t)
    BY <1>4, CommitKinds, WholeByTable DEF IInv, CustomWhole, CommitStep
  <2>2. ASSUME Commits(t) PROVE txn'[t].pc \notin FindingSteps
    BY <2>2 DEF Commits, Ends, FindingSteps
  <2> QED
    BY <1>1, <1>2, <2>1, <2>2
<1>5. ASSUME \/ MovesOn(t, AssetSteps, AssetTables, "repeatable read")
             \/ MovesOn(t, RoleSteps, RoleTables, "read committed")
      PROVE  ClaimsPlan(t)' /\ SeenOfEdit(t)'
  <2>1. AssetSteps \cap FindingSteps = {} /\ RoleSteps \cap FindingSteps = {}
    BY DEF FindingSteps, AssetSteps, RoleSteps
  <2> QED
    BY <1>1, <1>5, <2>1 DEF MovesOn
<1>6. CASE Begin(t)
  <2>1. PICK c \in Calls : \/ StartFindingCall(t, c)
                           \/ StartAssetCall(t, c)
                           \/ StartRoleCall(t, c)
    BY <1>6 DEF Begin
  <2>2. txn[t].pc = "idle"
    BY <1>6 DEF Begin
  <2>3. CASE StartFindingCall(t, c) /\ ~Rollback(t)
    BY <1>0, <2>3, ClaimsOfStart DEF SeenOfEdit
  <2> QED
    BY <1>0, <1>2, <1>3, <1>5, <2>1, <2>2, <2>3, StartAsset, StartRole
<1>7. CASE Lock(t)
  <2>1. Rollback(t) \/ LockStep(t)
    BY <1>0, <1>7, LockEffect DEF LockStep
  <2> QED
    BY <1>0, <1>3, <2>1, ClaimsOfLock, SeenOfLock
<1>8. CASE FindingStep(t) /\ ~FindingCommit(t) /\ ~Rollback(t)
  <2>1. ClaimsPlan(t)' /\ (ReadEdit(t) \/ txn'[t].pc # "write edit")
    BY <1>0, <1>8, ClaimsOfMove
  <2> QED
    BY <1>0, <1>8, <2>1, SeenByRead DEF SeenOfEdit
<1>9. CASE AssetStep(t)
  BY <1>0, <1>2, <1>4, <1>5, <1>9, AssetKinds DEF CommitStep
<1>10. CASE RoleStep(t)
  BY <1>0, <1>2, <1>4, <1>5, <1>10, RoleKinds DEF CommitStep
<1> QED
  BY <1>3, <1>4, <1>6, <1>7, <1>8, <1>9, <1>10 DEF StepOf, Fail, CommitStep

LEMMA StepFInv ==
  ASSUME IInv, FInv, NEW t \in Txns, StepOf(t)
  PROVE  FInv'
<1>1. ASSUME NEW u \in Txns \ {t} PROVE ClaimsPlan(u)' /\ SeenOfEdit(u)'
  <2>1. ClaimsPlan(u) /\ Still(u)
    BY Progress DEF FInv, FindingPlan, ClaimsPlan
  <2> QED
    BY <2>1, ClaimsOfOthers, SeenOfOthers
<1>2. \A u \in Txns : ClaimsPlan(u)' /\ SeenOfEdit(u)'
  BY <1>1, OwnFindingPlan
<1>3. \A u \in Txns : FindingPlan(u)'
  BY <1>2 DEF FindingPlan, ClaimsPlan
<1> QED
  BY <1>3, UnbornStays, ShapedStays, StandingStays DEF FInv

LEMMA StutterFInv == ASSUME FInv, UNCHANGED vars PROVE FInv'
<1>1. txn' = txn /\ db' = db /\ Rows' = Rows
  BY SameRows DEF vars
<1>2. /\ \A r : Row(r)' = Row(r)
      /\ \A t : Claims(t)' = Claims(t)
      /\ \A t, r : Seen(t, r)' = Seen(t, r)
      /\ \A t : Still(t)
  BY SameLocks
<1>3. Unborn'
  BY <1>1, <1>2 DEF FInv, Unborn, Foreign
<1>4. Shaped' /\ Standing'
  BY <1>1, <1>2 DEF FInv, Shaped, Standing
<1>5. ASSUME NEW t \in Txns PROVE ClaimsPlan(t)'
  BY <1>2, ClaimsOfOthers DEF FInv, FindingPlan, ClaimsPlan
<1>6. ASSUME NEW t \in Txns PROVE SeenOfEdit(t)'
  <2>1. \A r : ByCatalog(r)' <=> ByCatalog(r)
    BY <1>1 DEF ByCatalog, Catalogs, Present, Known, Rows
  <2>2. SeenOfEdit(t)
    BY DEF FInv, FindingPlan
  <2> QED
    BY <1>1, <1>2, <2>1, <2>2 DEF SeenOfEdit
<1> QED
  BY <1>3, <1>4, <1>5, <1>6 DEF FInv, FindingPlan, ClaimsPlan

LEMMA InitFInv == Init => FInv
<1> SUFFICES ASSUME Init PROVE FInv
  OBVIOUS
<1>1. /\ Consistent(db)
      /\ \A t \in Txns : txn[t].pc = "idle" /\ txn[t].held = {}
  BY IdleAtFirst
<1>2. ASSUME NEW r, Row(r) # Absent
      PROVE  /\ Row(r).stamp \notin Txns /\ r[2] \notin Txns
             /\ r[1] \in Triples => r[3] \notin Txns
             /\ \A t \in Txns, f \in NewParents : r # NewObservation(t, f)
             /\ r[1] = "finding" => Row(r) = [asset |-> Row(r).asset, stamp |-> Row(r).stamp]
  <2>1. r \in DOMAIN db /\ db[r] # Absent /\ Row(r) = db[r]
    BY <1>2 DEF Row, Rows
  <2>2. Row(r).stamp \notin Txns /\ r[2] \notin Txns /\ (r[1] \in Triples => r[3] \notin Txns)
    BY <1>1, <1>2, RowsAtFirst
  <2>3. \A t \in Txns, f \in NewParents : r # NewObservation(t, f)
    BY <1>1, <2>1 DEF Consistent
  <2>4. r[1] = "finding" => db[r] = [asset |-> db[r].asset, stamp |-> db[r].stamp]
    BY <1>1, <2>1 DEF Consistent
  <2> QED
    BY <2>1, <2>2, <2>3, <2>4
<1>3. LinkTable \in Triples
  BY DEF LinkTable, Triples
<1>4. Unborn /\ Shaped
  BY <1>2, <1>3 DEF Unborn, Foreign, Shaped
<1>5. Standing
  BY <1>1 DEF Standing
<1>6. ASSUME NEW t \in Txns PROVE FindingPlan(t)
  BY <1>1 DEF FindingPlan, EditClaims, CreatedClaims, LinkClaims, CatalogClaims, RecordClaims,
              SeenOfEdit
<1> QED
  BY <1>4, <1>5, <1>6 DEF FInv

THEOREM FindingsInductive == Spec => [](IInv /\ FInv)
<1>1. ASSUME IInv, FInv, Next PROVE FInv'
  <2>1. PICK t \in Txns : StepOf(t)
    BY <1>1 DEF Next, StepOf
  <2> QED
    BY <1>1, <2>1, StepFInv
<1>2. IInv /\ FInv /\ [Next]_vars => FInv'
  BY <1>1, StutterFInv
<1> QED
  BY InitFInv, <1>2, Inductive, PTL DEF Spec

-----------------------------------------------------------------------------
\* What is reported as the previous state.

LEMMA FindingsChain ==
  ASSUME IInv, FInv, NEW t \in Txns, txn[t].pc = "write edit",
         NEW f \in Parents(txn[t].call)
  PROVE  /\ \A r \in DOMAIN txn[t].seen : db[r] = txn[t].seen[r] \/ ByCatalog(r)
         /\ Of(f) \subseteq DOMAIN txn[t].seen
<1>1. SeenOfEdit(t) /\ WellNamed
  BY DEF FInv, FindingPlan, IInv, Base
<1>2. \A r \in DOMAIN txn[t].seen : Row(r) = Seen(t, r) \/ ByCatalog(r)
  BY <1>1 DEF SeenOfEdit
<1>3. \A r \in DOMAIN txn[t].seen : Row(r) = db[r] /\ Seen(t, r) = txn[t].seen[r]
  BY <1>1 DEF WellNamed, Row, Seen
<1>4. \A r \in Rows : Belongs(f, r, Row(r)) => r \in DOMAIN txn[t].seen
  BY <1>1 DEF SeenOfEdit
<1>5. Of(f) \subseteq DOMAIN txn[t].seen
  BY <1>4, OwnRowsOf
<1> QED
  BY <1>2, <1>3, <1>5

LEMMA AssetsChain ==
  ASSUME IInv, NEW t \in Txns, txn[t].pc \in AssetOps, NEW a, a = txn[t].call.asset,
         Holding(t, Asset(a)), NEW seen, seen = txn[t].seen,
         NEW r, \/ r \in OwnRows(a)
                \/ r \in DOMAIN seen /\ r[1] = "asset_identifier" /\ seen[r] # Absent
                     /\ seen[r].asset = a
                \/ r \in DOMAIN seen /\ (Custom(r) \/ r[1] = "asset_custom_field")
  PROVE  Content(db[r]) = Content(seen[r]) \/ ByCatalog(r)
<1>1. Base /\ Plan(t) /\ Chain(t) /\ SawAssigned(t) /\ WellNamed
  BY DEF IInv, Base, Plans, Chained, SeenAssigned
<1>2. Snapped(t)
  BY <1>1 DEF AssetOps, Plan, InventoryPlan, AssignmentsPlan, ValuesPlan
<1>3. Row(Asset(a)) = Seen(t, Asset(a))
  <2>1. PICK m \in {"nokey", "all", "new"} : <<Asset(a), m>> \in txn[t].held
    BY DEF Holding
  <2>2. txn[t].level = "repeatable read" /\ Seen(t, Asset(a)) # Absent
    BY <1>2 DEF Snapped
  <2>3. Asset(a)[1] = "asset" /\ Asset(a)[1] \in Snapshots
    BY Tables DEF Snapshots, Indexes, AssetTables
  <2>4. PICK l : l = <<Asset(a), m>>
    OBVIOUS
  <2>5. l \in txn[t].held /\ l[1] = Asset(a) /\ l[2] = m
    BY <2>1, <2>4
  <2>6. \E tables : Proper(l, tables)
    BY <1>1, <2>5 DEF Base, Reach, ClaimsOn, Claims
  <2>7. m # "new"
    BY <2>3, <2>5, <2>6 DEF Proper
  <2>8. <<Asset(a), "all">> \in txn[t].held \/ <<Asset(a), "nokey">> \in txn[t].held
    BY <2>1, <2>7
  <2> QED
    BY <1>1, <2>2, <2>3, <2>8, HeldSeen
<1>4. r \in Rows => /\ Custom(r) /\ r[2] = a => Alike(Row(r), Seen(t, r)) \/ Swept(r)
                    /\ Owned(a, r, Row(r)) \/ Owned(a, r, Seen(t, r)) =>
                         Custom(r) \/ Row(r) = Seen(t, r)
  BY <1>1, <1>3 DEF Chain
<1>5. r \in DOMAIN seen => r \in Rows /\ Seen(t, r) = seen[r]
  BY <1>1 DEF WellNamed, Seen
<1>6. Seen(t, r) # Absent => r \in DOMAIN seen
  BY DEF Seen
<1>7. r \in Rows => Row(r) = db[r]
  BY DEF Row
<1>8. Swept(r) => ByCatalog(r)
  <2>1. Row(Field(r[3])) = Absent => ~Present(Field(r[3]))
    BY DEF Row, Present, Known
  <2> QED
    BY <2>1 DEF Swept, ByCatalog, Custom, AssignmentTable, ValueTable
<1>c. r[1] = "asset_custom_field" => ByCatalog(r)
  BY DEF ByCatalog, Catalogs
<1>9. ASSUME r \in Rows, Custom(r), r[2] = a, Row(r) # Absent \/ r \in DOMAIN seen
      PROVE  Content(db[r]) = Content(seen[r]) \/ ByCatalog(r)
  <2>1. CASE Swept(r)
    BY <1>8, <2>1
  <2>2. CASE Alike(Row(r), Seen(t, r))
    <3>1. r \in DOMAIN seen
      BY <1>6, <1>9, <2>2 DEF Alike
    <3> QED
      BY <1>5, <1>7, <2>2, <3>1 DEF Alike
  <2> QED
    BY <1>4, <1>9, <2>1, <2>2
<1>10. ASSUME r \in Rows, r[1] = "asset_identifier",
              Owned(a, r, Row(r)) \/ Owned(a, r, Seen(t, r))
       PROVE  Content(db[r]) = Content(seen[r])
  <2>1. ~Custom(r)
    BY <1>10 DEF Custom, AssignmentTable, ValueTable
  <2>2. Row(r) = Seen(t, r) /\ Seen(t, r) # Absent
    BY <1>4, <1>10, <2>1 DEF Owned
  <2> QED
    BY <1>5, <1>6, <1>7, <2>2
<1>11. CASE r \in OwnRows(a)
  <2>1. CASE r \in Identifiers(a)
    <3>1. r \in Rows /\ r[1] = "asset_identifier" /\ db[r] # Absent /\ db[r].asset = a
      BY <2>1 DEF Identifiers, Table, Present, Known
    <3>2. Owned(a, r, Row(r))
      BY <1>7, <3>1 DEF Owned
    <3> QED
      BY <1>10, <3>1, <3>2
  <2>2. CASE r \in Assignments(a) \cup Values(a)
    <3>1. r \in Rows /\ Custom(r) /\ db[r] # Absent /\ r[2] = a
      BY <2>2 DEF Assignments, Values, Table, Present, Known, Custom, AssignmentTable, ValueTable
    <3> QED
      BY <1>7, <1>9, <3>1
  <2> QED
    BY <1>11, <2>1, <2>2 DEF OwnRows
<1>12. CASE r \in DOMAIN seen /\ r[1] = "asset_identifier" /\ seen[r] # Absent
              /\ seen[r].asset = a
  <2>1. Owned(a, r, Seen(t, r))
    BY <1>5, <1>12 DEF Owned
  <2> QED
    BY <1>5, <1>10, <1>12, <2>1
<1>13. CASE r \in DOMAIN seen /\ Custom(r)
  <2>1. r[2] = a
    BY <1>1, <1>13 DEF SawAssigned
  <2> QED
    BY <1>5, <1>9, <1>13, <2>1
<1> QED
  BY <1>11, <1>12, <1>13, <1>c

LEMMA Chains == IInv /\ FInv => OutcomesChain
<1> SUFFICES ASSUME IInv, FInv PROVE OutcomesChain
  OBVIOUS
<1>1. ASSUME NEW t \in Txns, Ready(t, "write edit"), NEW f \in Parents(txn[t].call)
      PROVE  /\ \A r \in DOMAIN txn[t].seen : db[r] = txn[t].seen[r] \/ ByCatalog(r)
             /\ Of(f) \subseteq DOMAIN txn[t].seen
  BY <1>1, FindingsChain DEF Ready
<1>2. ASSUME NEW t \in Txns, NEW op \in {"updateAsset", "addIdentifier", "updateIdentifier",
                                          "deleteIdentifier", "replaceAssignments",
                                          "replaceValues"},
             Ready(t, op), Holding(t, Asset(txn[t].call.asset)),
             NEW r \in OwnRows(txn[t].call.asset)
                     \cup {q \in DOMAIN txn[t].seen :
                             q[1] = "asset_identifier" /\ txn[t].seen[q] # Absent
                               /\ txn[t].seen[q].asset = txn[t].call.asset}
                     \cup {q \in DOMAIN txn[t].seen :
                             q[1] \in {"asset_custom_field_assignment",
                                       "asset_custom_field_value", "asset_custom_field"}}
      PROVE  Content(db[r]) = Content(txn[t].seen[r]) \/ ByCatalog(r)
  <2>1. txn[t].pc \in AssetOps
    BY <1>2 DEF Ready, AssetOps, InventoryOps
  <2>2. PICK a : a = txn[t].call.asset
    OBVIOUS
  <2>3. PICK seen : seen = txn[t].seen
    OBVIOUS
  <2>4. \/ r \in OwnRows(a)
        \/ r \in DOMAIN seen /\ r[1] = "asset_identifier" /\ seen[r] # Absent
             /\ seen[r].asset = a
        \/ r \in DOMAIN seen /\ (Custom(r) \/ r[1] = "asset_custom_field")
    BY <1>2, <2>2, <2>3 DEF Custom, AssignmentTable, ValueTable
  <2>5. Content(db[r]) = Content(seen[r]) \/ ByCatalog(r)
    BY <1>2, <2>1, <2>2, <2>3, <2>4, AssetsChain
  <2> QED
    BY <2>3, <2>5
<1> QED
  BY <1>1, <1>2 DEF OutcomesChain

\* The previous state that an edit of a finding or a change of an asset reports is
\* the one that the last call left, whatever other calls did since it was read, but
\* for what the entries of the catalogs say and for the cascades of their deletion.
THEOREM OutcomesStayChained == Spec => []OutcomesChain
BY Chains, FindingsInductive, PTL

-----------------------------------------------------------------------------
\* What shows in the audit columns.

\* A row by its name and content, and what it is a part of.
PartOf(owner, r, x) ==
  /\ x # Absent
  /\ \/ r[1] = "observation" /\ Finding(x.finding) = owner
     \/ r[1] = "asset_identifier" /\ Asset(x.asset) = owner
     \/ r[1] = "finding_vulnerability" /\ Finding(r[2]) = owner
     \/ /\ r[1] \in {"asset_custom_field_assignment", "asset_custom_field_value"}
        /\ Asset(r[2]) = owner

\* What the parts show of a row.
Shown(r, x) == IF r[1] \in Replaced THEN Content(x) ELSE x

LEMMA SameParts ==
  ASSUME NEW owner,
         \A r : PartOf(owner, r, Row(r)) <=> PartOf(owner, r, Row(r)'),
         \A r : PartOf(owner, r, Row(r)) => Shown(r, Row(r)) = Shown(r, Row(r)')
  PROVE  Parts(db, owner) = Parts(db', owner)
<1>1. PICK d : d = db
  OBVIOUS
<1>2. PICK e : e = db'
  OBVIOUS
<1>3. PICK R : R = {r \in DOMAIN d : PartOf(owner, r, d[r])}
  OBVIOUS
<1>4. PICK S : S = {r \in DOMAIN e : PartOf(owner, r, e[r])}
  OBVIOUS
<1>5. \A r : Row(r) = IF r \in DOMAIN d THEN d[r] ELSE Absent
  BY <1>1 DEF Row, Rows
<1>6. \A r : Row(r)' = IF r \in DOMAIN e THEN e[r] ELSE Absent
  BY <1>2 DEF Row, Rows
<1>7. \A r : ~PartOf(owner, r, Absent)
  BY DEF PartOf
<1>8. \A r : r \in R <=> PartOf(owner, r, Row(r))
  BY <1>3, <1>5, <1>7
<1>9. \A r : r \in S <=> PartOf(owner, r, Row(r)')
  BY <1>4, <1>6, <1>7
<1>10. R = S
  BY <1>8, <1>9
<1>11. \A r \in R : Shown(r, d[r]) = Shown(r, e[r])
  BY <1>3, <1>4, <1>5, <1>6, <1>8, <1>10
<1>12. Parts(d, owner) = [r \in R |-> Shown(r, d[r])]
  BY <1>3 DEF Parts, PartOf, Shown
<1>13. Parts(e, owner) = [r \in S |-> Shown(r, e[r])]
  BY <1>4 DEF Parts, PartOf, Shown
<1>14. [r \in R |-> Shown(r, d[r])] = [r \in R |-> Shown(r, e[r])]
  BY <1>11
<1> QED
  BY <1>1, <1>2, <1>10, <1>12, <1>13, <1>14

LEMMA ErasedCatalog ==
  ASSUME Rows \subseteq Rows', NEW r, r[1] \in Catalogs,
         Row(r) # Absent, Row(r)' = Absent
  PROVE  Cascaded
<1>1. r \in Rows /\ Present(r) /\ db'[r] = Absent
  BY DEF Row, Rows, Present, Known
<1> QED
  BY <1>1 DEF Cascaded

\* The parts of a finding stay as they are, unless it is touched.
LEMMA FindingTouched ==
  ASSUME FInv, NEW t \in Txns, txn[t].pc # "ended", Touches(t), Rows \subseteq Rows',
         ~Cascaded, NEW f, Row(Finding(f)) # Absent, Row(Finding(f))' # Absent,
         Row(Finding(f))'.stamp = Row(Finding(f)).stamp
  PROVE  Parts(db, Finding(f)) = Parts(db', Finding(f))
<1>1. Row(Finding(f)).stamp # t
  <2>1. Finding(f) \in Rows /\ Finding(f)[1] = "finding"
    BY FindingNames DEF Row
  <2> QED
    BY <2>1 DEF FInv, Unborn
<1>2. ASSUME NEW r, Belongs(f, r, Row(r)) \/ Belongs(f, r, Row(r)')
      PROVE  Row(r)' = Row(r)
  <2>1. SUFFICES ASSUME Row(r)' # Row(r) PROVE FALSE
    OBVIOUS
  <2>2. PICK v : v = Vulnerability(r[3])
    OBVIOUS
  <2>3. Row(v) # Absent /\ Row(v)' = Absent
    BY <1>1, <1>2, <2>1, <2>2 DEF Touches
  <2> QED
    BY <2>2, <2>3, ErasedCatalog, FindingNames DEF Catalogs
<1>3. ASSUME NEW r, NEW x PROVE PartOf(Finding(f), r, x) => Belongs(f, r, x)
  <2>1. \A y : Asset(y) # Finding(f) /\ (Finding(y) = Finding(f) => y = f)
    BY Names
  <2> QED
    BY <2>1 DEF PartOf, Belongs, LinkTable
<1>4. \A r : PartOf(Finding(f), r, Row(r)) \/ PartOf(Finding(f), r, Row(r)') => Row(r)' = Row(r)
  BY <1>2, <1>3
<1> QED
  BY <1>4, SameParts

\* So do those of an asset.
LEMMA AssetTouched ==
  ASSUME IInv, NEW t \in Txns, Commits(t), ~Cascaded, NEW a,
         Row(Asset(a)) # Absent, Row(Asset(a))' # Absent,
         Row(Asset(a))'.stamp = Row(Asset(a)).stamp
  PROVE  Parts(db, Asset(a)) = Parts(db', Asset(a))
<1>0. /\ Audits(t) /\ Signs(t) /\ txn[t].pc # "ended" /\ Rows \subseteq Rows'
      /\ Fresh /\ HeldThere
  BY DEF Commits, Effect, IInv, Base
<1>1. Row(Asset(a))' = Row(Asset(a))
  <2>1. Asset(a)[1] \in Snapshots \ {"asset_identifier"} /\ Asset(a) \in Rows
    BY Tables DEF Snapshots, Indexes, AssetTables, Row
  <2>2. Row(Asset(a)).stamp # t
    BY <1>0, <2>1 DEF Fresh, NotOf
  <2> QED
    BY <1>0, <2>1, <2>2 DEF Signs
<1>2. ASSUME NEW r, Custom(r), r[2] = a PROVE Alike(Row(r)', Row(r))
  <2>1. CASE Swept(r)' /\ <<Field(r[3]), "all">> \in txn[t].held
    <3>1. PICK d : d = Field(r[3])
      OBVIOUS
    <3>2. Row(d)' = Absent
      BY <2>1, <3>1 DEF Swept, Field
    <3>3. PICK l : l = <<d, "all">>
      OBVIOUS
    <3>4. l \in txn[t].held /\ l[1] = d /\ l[2] = "all"
      BY <2>1, <3>1, <3>3
    <3>5. d[1] = "asset_custom_field" /\ d[1] \in Guarded
      BY <3>1, Tables DEF Guarded, Indexes, AssetTables
    <3>6. Row(d) # Absent
      BY <1>0, <3>4, <3>5 DEF HeldThere
    <3> QED
      BY <1>0, <3>2, <3>5, <3>6, ErasedCatalog DEF Catalogs
  <2> QED
    BY <1>0, <1>1, <1>2, <2>1 DEF Audits
<1>3. ASSUME NEW r, r[1] = "asset_identifier", Owned(a, r, Row(r)) \/ Owned(a, r, Row(r)')
      PROVE  Row(r)' = Row(r)
  BY <1>0, <1>1, <1>3 DEF Audits
<1>4. \A y : Finding(y) # Asset(a) /\ (Asset(y) = Asset(a) <=> y = a)
  BY Names
<1>5. \A r, x : PartOf(Asset(a), r, x) <=>
         /\ x # Absent
         /\ \/ r[1] = "asset_identifier" /\ x.asset = a
            \/ Custom(r) /\ r[2] = a
  BY <1>4 DEF PartOf, Custom, AssignmentTable, ValueTable
<1>6. ASSUME NEW r
      PROVE  /\ PartOf(Asset(a), r, Row(r)) <=> PartOf(Asset(a), r, Row(r)')
             /\ PartOf(Asset(a), r, Row(r)) => Shown(r, Row(r)) = Shown(r, Row(r)')
  <2>1. CASE Custom(r)
    <3>1. r[1] # "asset_identifier"
      BY <2>1 DEF Custom, AssignmentTable, ValueTable
    <3>2. CASE r[2] = a
      <4>1. (Row(r)' = Absent <=> Row(r) = Absent) /\ Content(Row(r)') = Content(Row(r))
        BY <1>2, <2>1, <3>2 DEF Alike
      <4>2. r[1] \in Replaced
        BY <2>1 DEF Custom, AssignmentTable, ValueTable, Replaced, Triples
      <4>3. Shown(r, Row(r)) = Content(Row(r)) /\ Shown(r, Row(r)') = Content(Row(r)')
        BY <4>2 DEF Shown
      <4> QED
        BY <1>5, <2>1, <3>1, <3>2, <4>1, <4>3
    <3> QED
      BY <1>5, <3>1, <3>2
  <2>2. CASE ~Custom(r)
    <3>1. PartOf(Asset(a), r, Row(r)) \/ PartOf(Asset(a), r, Row(r)') => Row(r)' = Row(r)
      BY <1>3, <1>5, <2>2 DEF Owned
    <3> QED
      BY <3>1
  <2> QED
    BY <2>1, <2>2
<1> QED
  BY <1>6, SameParts

LEMMA StepTouches ==
  ASSUME IInv, FInv, NEW t \in Txns, StepOf(t)
  PROVE  Touching
<1>1. SUFFICES ASSUME NEW r \in Table("finding") \cup Table("asset"),
                      db'[r] # Absent, ~Cascaded, db'[r].stamp = db[r].stamp
               PROVE  Parts(db, r) = Parts(db', r)
  BY DEF Touching
<1>2. CASE db' = db
  BY <1>2
<1>3. CASE Commits(t) /\ FindingEffect(t)
  <2>1. r \in Rows /\ r \in Rows' /\ Rows \subseteq Rows' /\ txn[t].pc # "ended"
    BY <1>1, <1>3 DEF Table, Commits
  <2>2. Row(r) = db[r] /\ Row(r)' = db'[r] /\ Row(r) # Absent
    BY <1>1, <2>1 DEF Row, Rows, Table, Present
  <2>3. r[1] \in {"finding", "asset"}
    BY <1>1 DEF Table
  <2>4. r = <<r[1], r[2]>>
    BY <2>1, <2>3 DEF IInv, Base, WellNamed, Triples
  <2>5. CASE r[1] = "finding"
    <3>0. PICK f : f = r[2]
      OBVIOUS
    <3>1. r = Finding(f)
      BY <2>4, <2>5, <3>0 DEF Finding
    <3> QED
      BY <1>1, <1>3, <2>1, <2>2, <3>1, FindingTouched DEF FindingEffect
  <2>6. CASE r[1] = "asset"
    <3>0. PICK a : a = r[2]
      OBVIOUS
    <3>1. r = Asset(a)
      BY <2>4, <2>6, <3>0 DEF Asset
    <3> QED
      BY <1>1, <1>3, <2>2, <3>1, AssetTouched
  <2> QED
    BY <2>3, <2>5, <2>6
<1> QED
  BY <1>2, <1>3, Progress

\* Whatever calls meet, a change of what belongs to a finding or an asset shows in
\* its audit columns, unless it comes from a deletion in a catalog.
THEOREM ChangesStayTouched == Spec => ChangesAreTouched
<1>1. ASSUME IInv, FInv, Next PROVE Touching
  <2>1. PICK t \in Txns : StepOf(t)
    BY <1>1 DEF Next, StepOf
  <2> QED
    BY <1>1, <2>1, StepTouches
<1>2. IInv /\ FInv /\ [Next]_vars => [Touching]_vars
  BY <1>1
<1> QED
  BY <1>2, FindingsInductive, PTL DEF Spec, ChangesAreTouched

-----------------------------------------------------------------------------
\* No circle: what a call waits for is held by one that waits at a later stage.

\* In a finite set that something orders, one element comes last.
LEMMA Ascent ==
  ASSUME NEW S, IsFiniteSet(S), S # {}, NEW R,
         \A x \in S : <<x, x>> \notin R,
         \A x, y, z \in S : <<x, y>> \in R /\ <<y, z>> \in R => <<x, z>> \in R
  PROVE  \E x \in S : \A y \in S : <<x, y>> \notin R
<1> SUFFICES ASSUME \A x \in S : \E y \in S : <<x, y>> \in R
             PROVE  FALSE
  OBVIOUS
<1> DEFINE Endless == {T \in SUBSET S : T # {} /\ \A x \in T : \E y \in T : <<x, y>> \in R}
           Sizes == {Cardinality(T) : T \in Endless}
<1>1. S \in Endless
  OBVIOUS
<1>2. \A T \in Endless : IsFiniteSet(T) /\ Cardinality(T) \in Nat
  BY FS_Subset, FS_CardinalityType
<1>3. Sizes \subseteq Nat /\ Sizes # {}
  BY <1>1, <1>2, SMTT(30)
<1>4. PICK n \in Sizes : \A m \in Sizes : <<m, n>> \notin OpToRel(<, Nat)
  <2> HIDE DEF Sizes
  <2> QED
    BY <1>3, NatLessThanWellFounded, WFMin
<1>5. \A m \in Sizes : ~(m < n)
  BY <1>3, <1>4 DEF OpToRel
<1>6. PICK T \in Endless : n = Cardinality(T)
  BY <1>4
<1>7. PICK x \in T : TRUE
  BY <1>6
<1> DEFINE U == {y \in T : <<x, y>> \in R}
<1>8. U \in Endless
  <2>1. U # {}
    BY <1>6, <1>7
  <2>2. ASSUME NEW y \in U PROVE \E z \in U : <<y, z>> \in R
    <3>1. PICK z \in T : <<y, z>> \in R
      BY <1>6, <2>2
    <3>2. <<x, z>> \in R
      BY <1>6, <1>7, <2>2, <3>1
    <3> QED
      BY <3>1, <3>2
  <2> QED
    BY <1>6, <2>1, <2>2
<1>9. U \subseteq T \ {x}
  BY <1>6, <1>7
<1>10. IsFiniteSet(T \ {x}) /\ Cardinality(T \ {x}) = n - 1 /\ n \in Nat
  BY <1>2, <1>6, <1>7, FS_RemoveElement
<1>11. Cardinality(U) <= n - 1 /\ Cardinality(U) \in Nat
  <2> HIDE DEF U
  <2> QED
    BY <1>2, <1>8, <1>9, <1>10, FS_Subset
<1>12. Cardinality(U) \in Sizes
  BY <1>8
<1> HIDE DEF Sizes, U
<1> QED
  BY <1>5, <1>10, <1>11, <1>12

\* A lock of the next set is not held back by others that a call is still to take.
LEMMA NextInLine ==
  ASSUME NEW t, NEW op, InLine(op, txn[t].todo),
         NEW l \in Turn(t), NEW m \in Left(t), m # l
  PROVE  Precedes(op, l, m)
<1>1. PICK i \in DOMAIN txn[t].todo : IsNext(t, i) /\ l \in txn[t].todo[i]
  BY DEF Turn
<1>2. PICK j \in DOMAIN txn[t].todo : m \in txn[t].todo[j]
  BY DEF Left
<1>3. ~(j < i)
  BY <1>1, <1>2 DEF IsNext
<1>4. i \in Nat /\ j \in Nat
  BY DEF InLine
<1>5. i < j \/ i = j
  BY <1>3, <1>4
<1> QED
  BY <1>1, <1>2, <1>5 DEF InLine

LEMMA TurnIsLeft == \A t : Turn(t) \subseteq Left(t) /\ Left(t) \subseteq Claims(t)
BY DEF Turn, Left, Claims

\* Stages are numbers, and so are the numbers of usual locks.
LEMMA Stages ==
  ASSUME NEW l, Usual(l)
  PROVE  /\ \A op : WaitStage(op, l) \in Nat
         /\ HoldStage(l) \in Nat
         /\ Number(l) \in Nat
<1>1. \A op : WaitStage(op, l) \in Nat
  BY DEF WaitStage
<1>2. HoldStage(l) \in Nat
  BY DEF HoldStage
<1>3. Number(l) \in Nat
  BY DEF Number, Usual
<1> QED
  BY <1>1, <1>2, <1>3

\* Nobody else waits for a permission that a call gives.
LEMMA GivenIsFree ==
  ASSUME NEW t \in Txns, NEW u \in Txns, t # u,
         txn[t].pc \notin {"idle", "ended"}, txn[t].call.op \notin Exempt, Orderly(t),
         txn[u].pc \notin {"idle", "ended"}, txn[u].call.op \notin Exempt, Orderly(u),
         NEW l \in Turn(t), NEW h \in txn[u].held, h[1] = l[1]
  PROVE  l[1][1] \notin {PermissionTable, HoldsTable}
<1>1. l \in Claims(t) /\ h \in Claims(u)
  BY TurnIsLeft DEF Claims
<1>2. l[1][1] # HoldsTable
  BY <1>1 DEF Orderly, Usual
<1>3. l[1][1] = PermissionTable => l[1][2] = t /\ l[1][2] = u
  BY <1>1 DEF Orderly
<1> QED
  BY <1>2, <1>3

\* A lock is waited for at a stage that a call which holds it against others has
\* passed.
LEMMA HeldIsLater ==
  ASSUME Exclusive, NEW t \in Txns, NEW u \in Txns, t # u,
         txn[t].pc \notin {"idle", "ended"}, txn[t].call.op \notin Exempt, Orderly(t),
         txn[u].pc \notin {"idle", "ended"}, txn[u].call.op \notin Exempt, Orderly(u),
         NEW l \in Turn(t), NEW h \in txn[u].held, h[1] = l[1], ~Compatible(h[2], l[2])
  PROVE  \/ WaitStage(txn[t].call.op, l) < HoldStage(h)
         \/ WaitStage(txn[t].call.op, l) = HoldStage(h) /\ Number(l) = Number(h)
<1> DEFINE op == txn[t].call.op
<1>1. l[1][1] \notin {PermissionTable, HoldsTable}
  BY GivenIsFree
<1>2. Usual(l) /\ Usual(h)
  BY TurnIsLeft DEF Orderly, Claims
<1>3. Number(l) = Number(h)
  BY DEF Number
<1>4. ~("share" = h[2] /\ "nokey" = l[2]) /\ ~("nokey" = h[2] /\ "share" = l[2])
      /\ ~("share" = h[2] /\ "share" = l[2])
  BY DEF Compatible
<1>5. CASE l[1][1] \in Early
  BY <1>3, <1>5 DEF WaitStage, HoldStage, Early, PermissionTable, HoldsTable
<1>6. CASE l[1][1] \in {"asset_identifier_key", "user_profile_username", "user_profile_email",
                        "role_name"}
  BY <1>3, <1>6 DEF WaitStage, HoldStage, Early, PermissionTable, HoldsTable
<1>7. CASE l[1][1] = "role"
  BY <1>3, <1>4, <1>7 DEF WaitStage, HoldStage, Early, PermissionTable, HoldsTable
<1>8. CASE l[1][1] = "vulnerability"
  BY <1>3, <1>4, <1>8 DEF WaitStage, HoldStage, Early, PermissionTable, HoldsTable
<1>9. CASE l[1][1] = "asset"
  BY <1>2, <1>3, <1>4, <1>9 DEF WaitStage, HoldStage, Early, PermissionTable, HoldsTable, Usual
<1>10. CASE l[1][1] = "finding"
  <2>1. WaitStage(op, l) = IF l[2] = "nokey" /\ op # "unlinkVulnerability" THEN 5 ELSE 3
    BY <1>10 DEF WaitStage, Early, HoldsTable
  <2>2. HoldStage(h) = IF h[2] = "nokey" THEN 8 ELSE 3
    BY <1>10 DEF HoldStage, Early, HoldsTable, PermissionTable
  <2>3. CASE l[2] = "nokey" /\ op # "unlinkVulnerability"
    <3> DEFINE s == <<l[1], "share">>
    <3>1. s \in Claims(t)
      BY <1>10, <2>3, TurnIsLeft DEF Orderly
    <3>2. s # l /\ s[1] = l[1] /\ s[2] = "share"
      BY <2>3
    <3>3. s \notin Left(t)
      <4>1. SUFFICES ASSUME s \in Left(t) PROVE FALSE
        OBVIOUS
      <4>2. Precedes(op, l, s)
        BY <3>2, <4>1, NextInLine DEF Orderly
      <4>3. HoldStage(l) = 8 /\ WaitStage(op, s) = 3
        BY <1>10, <2>3, <3>2 DEF HoldStage, WaitStage, Early, HoldsTable, PermissionTable
      <4> QED
        BY <4>2, <4>3 DEF Precedes, Before
    <3>4. s \in txn[t].held
      BY <3>1, <3>3 DEF Claims
    <3>5. Compatible(h[2], "share")
      BY <3>4, <3>2 DEF Exclusive
    <3>6. h[2] = "nokey"
      BY <1>4, <2>3, <3>5 DEF Compatible
    <3> QED
      BY <2>1, <2>2, <2>3, <3>6
  <2>4. CASE ~(l[2] = "nokey" /\ op # "unlinkVulnerability")
    BY <1>3, <2>1, <2>2, <2>4
  <2> QED
    BY <2>3, <2>4
<1>11. CASE l[1][1] \notin Early \cup {"asset_identifier_key", "user_profile_username",
                                       "user_profile_email", "role", "role_name",
                                       "vulnerability", "asset", "finding"}
  BY <1>1, <1>11 DEF WaitStage, HoldStage
<1> QED
  BY <1>5, <1>6, <1>7, <1>8, <1>9, <1>10, <1>11

LEMMA Ascends ==
  ASSUME Exclusive, NEW t \in Txns, NEW u \in Txns, t # u,
         txn[t].pc \notin {"idle", "ended"}, txn[t].call.op \notin Exempt, Orderly(t),
         txn[u].pc \notin {"idle", "ended"}, txn[u].call.op \notin Exempt, Orderly(u),
         NEW l \in Turn(t), Blocks(u, l), NEW m \in Turn(u)
  PROVE  Before(WaitStage(txn[t].call.op, l), Number(l),
                WaitStage(txn[u].call.op, m), Number(m))
<1>1. PICK h \in txn[u].held : h[1] = l[1] /\ ~Compatible(h[2], l[2])
  BY DEF Blocks
<1>2. Precedes(txn[u].call.op, h, m)
  BY <1>1, TurnIsLeft DEF Orderly
<1>3. \/ WaitStage(txn[t].call.op, l) < HoldStage(h)
      \/ WaitStage(txn[t].call.op, l) = HoldStage(h) /\ Number(l) = Number(h)
  BY <1>1, HeldIsLater
<1>4. Usual(l) /\ Usual(h) /\ Usual(m)
  BY <1>1, TurnIsLeft DEF Orderly, Claims
<1>5. /\ WaitStage(txn[t].call.op, l) \in Nat /\ WaitStage(txn[u].call.op, m) \in Nat
      /\ HoldStage(h) \in Nat
      /\ Number(l) \in Nat /\ Number(h) \in Nat /\ Number(m) \in Nat
  BY <1>4, Stages
<1> QED
  BY <1>2, <1>3, <1>5 DEF Precedes, Before

LEMMA NoCircle ==
  ASSUME Base, Ordered
  PROVE  OrderedLocks
<1> SUFFICES ASSUME NEW ts \in SUBSET Txns, Entangled(ts),
                    \A t \in ts : txn[t].call.op \notin Exempt
             PROVE  FALSE
  BY DEF OrderedLocks, Exempt
<1>1. /\ ts # {} /\ \A t \in ts : \E u \in ts : Waits(t, u)
  BY DEF Entangled
<1>2. \A t \in ts : \E l \in Turn(t) : \E u \in ts : t # u /\ Blocks(u, l)
  BY <1>1 DEF Waits
<1>3. \A t \in ts : t \in Txns /\ Orderly(t) /\ txn[t].call.op \notin Exempt
  BY DEF Ordered
<1>4. ASSUME NEW t \in ts PROVE txn[t].pc \notin {"idle", "ended"}
  <2>1. Claims(t) # {}
    BY <1>2, TurnIsLeft
  <2> QED
    BY <2>1 DEF Base, Reach, FindingSteps, AssetSteps, RoleSteps
<1> DEFINE W == [t \in ts |-> CHOOSE l \in Turn(t) : \E u \in ts : t # u /\ Blocks(u, l)]
           R == {p \in ts \X ts : Before(WaitStage(txn[p[1]].call.op, W[p[1]]), Number(W[p[1]]),
                                         WaitStage(txn[p[2]].call.op, W[p[2]]), Number(W[p[2]]))}
<1>5. \A t \in ts : W[t] \in Turn(t) /\ \E u \in ts : t # u /\ Blocks(u, W[t])
  BY <1>2
<1> HIDE DEF W
<1>6. ASSUME NEW t \in ts
      PROVE  WaitStage(txn[t].call.op, W[t]) \in Nat /\ Number(W[t]) \in Nat
  <2>1. Usual(W[t])
    BY <1>3, <1>4, <1>5, TurnIsLeft DEF Orderly
  <2> QED
    BY <2>1, Stages
<1>7. \A t, u \in ts : <<t, u>> \in R <=>
        Before(WaitStage(txn[t].call.op, W[t]), Number(W[t]),
               WaitStage(txn[u].call.op, W[u]), Number(W[u]))
  OBVIOUS
<1> HIDE DEF R
<1>8. \A t \in ts : <<t, t>> \notin R
  BY <1>6, <1>7 DEF Before
<1>9. \A t, u, v \in ts : <<t, u>> \in R /\ <<u, v>> \in R => <<t, v>> \in R
  BY <1>6, <1>7 DEF Before
<1>10. IsFiniteSet(ts)
  <2>1. ts \subseteq UnderWay
    BY <1>4 DEF UnderWay
  <2> QED
    BY <2>1, FS_Subset DEF Ordered
<1>11. PICK t \in ts : \A u \in ts : <<t, u>> \notin R
  BY <1>1, <1>8, <1>9, <1>10, Ascent
<1>12. PICK u \in ts : t # u /\ Blocks(u, W[t])
  BY <1>5
<1>13. <<t, u>> \in R
  BY <1>3, <1>4, <1>5, <1>7, <1>12, Ascends DEF Base
<1> QED
  BY <1>11, <1>13

-----------------------------------------------------------------------------
\* Stages of the tables, and sets of locks in line.

LEMMA HoldStages ==
  \A l :
    /\ l[1][1] \in Early \cup {PermissionTable} => HoldStage(l) = 0
    /\ l[1][1] \in {"asset_identifier_key", "user_profile_username"} => HoldStage(l) = 1
    /\ l[1][1] = "user_profile_email" => HoldStage(l) = 2
    /\ l[1][1] = "role" => HoldStage(l) \in {0, 3}
    /\ l[1][1] = "role_name" => HoldStage(l) = 4
    /\ l[1][1] = "role" /\ l[2] = "share" => HoldStage(l) = 0
    /\ l[1][1] = "finding" /\ l[2] # "nokey" => HoldStage(l) = 3
    /\ l[1][1] = "vulnerability" /\ l[2] = "share" => HoldStage(l) = 3
    /\ l[1][1] = "asset" /\ l[2] = "share" => HoldStage(l) = 0
BY DEF HoldStage, Early, PermissionTable, HoldsTable

LEMMA WaitStages ==
  \A op, l :
    /\ l[1][1] \in {"asset_identifier_key", "user_profile_username"} => WaitStage(op, l) = 1
    /\ l[1][1] = "user_profile_email" => WaitStage(op, l) = 2
    /\ l[1][1] = PermissionTable => WaitStage(op, l) = 7
    /\ l[1][1] = "role" /\ l[2] = "share" => WaitStage(op, l) = 3
    /\ l[1][1] = "role_name" => WaitStage(op, l) = 4
    /\ l[1][1] = "finding" => WaitStage(op, l) \in {3, 5}
    /\ l[1][1] = "finding" /\ l[2] # "nokey" => WaitStage(op, l) = 3
    /\ l[1][1] = "finding" /\ l[2] = "nokey" /\ op # "unlinkVulnerability" =>
         WaitStage(op, l) = 5
    /\ l[1][1] = "vulnerability" /\ l[2] = "share" => WaitStage(op, l) = 4
    /\ l[1][1] = "asset" /\ l[2] = "share" => WaitStage(op, l) = 2
    /\ l[1][1] = "asset" /\ l[2] = "nokey" => WaitStage(op, l) = 6
<1> TAKE op, l
<1>1. /\ l[1][1] \in {"asset_identifier_key", "user_profile_username"} => WaitStage(op, l) = 1
      /\ l[1][1] = "user_profile_email" => WaitStage(op, l) = 2
      /\ l[1][1] = PermissionTable => WaitStage(op, l) = 7
      /\ l[1][1] = "role_name" => WaitStage(op, l) = 4
  BY DEF WaitStage, Early, PermissionTable
<1>2. l[1][1] = "role" /\ l[2] = "share" => WaitStage(op, l) = 3
  BY DEF WaitStage, Early
<1>3. l[1][1] = "finding" =>
        WaitStage(op, l) = IF l[2] = "nokey" /\ op # "unlinkVulnerability" THEN 5 ELSE 3
  BY DEF WaitStage, Early
<1>4. l[1][1] = "vulnerability" /\ l[2] = "share" => WaitStage(op, l) = 4
  BY DEF WaitStage, Early
<1>5. /\ l[1][1] = "asset" /\ l[2] = "share" => WaitStage(op, l) = 2
      /\ l[1][1] = "asset" /\ l[2] = "nokey" => WaitStage(op, l) = 6
  BY DEF WaitStage, Early
<1> QED
  BY <1>1, <1>2, <1>3, <1>4, <1>5

Follows(op, a, b) == \A l \in a, m \in b : Precedes(op, l, m)
Together(op, a) == \A l, m \in a : l # m => Precedes(op, l, m)

LEMMA LineOfNone == \A op : InLine(op, <<>>)
BY DEF InLine

LEMMA LineOfOne ==
  ASSUME NEW op, NEW a, Together(op, a)
  PROVE  InLine(op, <<a>>)
BY DEF InLine, Together

LEMMA LineOfTwo ==
  ASSUME NEW op, NEW a, NEW b, Together(op, a), Together(op, b), Follows(op, a, b)
  PROVE  InLine(op, <<a, b>>)
BY DEF InLine, Together, Follows

LEMMA LineOfThree ==
  ASSUME NEW op, NEW a, NEW b, NEW c, Together(op, a), Together(op, b), Together(op, c),
         Follows(op, a, b), Follows(op, a, c), Follows(op, b, c)
  PROVE  InLine(op, <<a, b, c>>)
BY DEF InLine, Together, Follows

LEMMA LineOfFour ==
  ASSUME NEW op, NEW a, NEW b, NEW c, NEW d, Together(op, a), Together(op, b), Together(op, c),
         Together(op, d), Follows(op, a, b), Follows(op, a, c), Follows(op, a, d),
         Follows(op, b, c), Follows(op, b, d), Follows(op, c, d)
  PROVE  InLine(op, <<a, b, c, d>>)
BY DEF InLine, Together, Follows

LEMMA AloneTogether == \A op, l : Together(op, {l})
BY DEF Together

LEMMA ByStage ==
  ASSUME NEW op, NEW l, NEW m, HoldStage(l) < WaitStage(op, m)
  PROVE  Precedes(op, l, m)
BY DEF Precedes, Before

LEMMA OneLock == \A r, mode : Locks({r}, mode) = {<<r, mode>>}
BY DEF Locks

\* Findings in the order of their ids, and something before them.
LEMMA FindingsInLine ==
  ASSUME NEW op, NEW fs, fs \subseteq Nat \ {0}
  PROVE  /\ InLine(op, InOrder(fs, "all"))
         /\ \A l \in LeftIn(InOrder(fs, "all")) :
              l[1][1] = "finding" /\ l[2] = "all" /\ l[1][2] \in Nat
<1>1. ASSUME NEW i \in fs, NEW l \in InOrder(fs, "all")[i]
      PROVE  l[1][1] = "finding" /\ l[2] = "all" /\ l[1][2] = i /\ l = <<Finding(i), "all">>
  BY Names DEF InOrder
<1>2. DOMAIN InOrder(fs, "all") = fs
  BY DEF InOrder
<1>3. ASSUME NEW i \in fs, NEW j \in fs, NEW l \in InOrder(fs, "all")[i],
             NEW m \in InOrder(fs, "all")[j], i < j
      PROVE  Precedes(op, l, m)
  <2>1. HoldStage(l) = 3 /\ WaitStage(op, m) = 3 /\ Number(l) = i /\ Number(m) = j
    BY <1>1, HoldStages, WaitStages DEF Number
  <2> QED
    BY <1>3, <2>1 DEF Precedes, Before
<1>4. ASSUME NEW i \in fs, NEW l \in InOrder(fs, "all")[i], NEW m \in InOrder(fs, "all")[i]
      PROVE  l = m
  BY <1>1
<1>5. InLine(op, InOrder(fs, "all"))
  BY <1>2, <1>3, <1>4 DEF InLine
<1>6. \A l \in LeftIn(InOrder(fs, "all")) :
        l[1][1] = "finding" /\ l[2] = "all" /\ l[1][2] \in Nat
  <2>1. SUFFICES ASSUME NEW l \in LeftIn(InOrder(fs, "all"))
                 PROVE  l[1][1] = "finding" /\ l[2] = "all" /\ l[1][2] \in Nat
    OBVIOUS
  <2>2. PICK i \in fs : l \in InOrder(fs, "all")[i]
    BY <1>2 DEF LeftIn
  <2> QED
    BY <1>1, <2>2
<1> QED
  BY <1>5, <1>6

LEMMA FindingsAfter ==
  ASSUME NEW op, NEW fs, fs \subseteq Nat \ {0}, NEW r,
         r[1] = "asset"
  PROVE  LET todo == Put(0, Locks({r}, "share")) ++ InOrder(fs, "all")
         IN /\ InLine(op, todo)
            /\ \A l \in LeftIn(todo) : \/ l = <<r, "share">>
                                       \/ l[1][1] = "finding" /\ l[2] = "all" /\ l[1][2] \in Nat
<1> DEFINE f == InOrder(fs, "all")
           todo == Put(0, Locks({r}, "share")) ++ f
<1>1. DOMAIN f = fs /\ InLine(op, f)
      /\ \A l \in LeftIn(f) : l[1][1] = "finding" /\ l[2] = "all" /\ l[1][2] \in Nat
  BY FindingsInLine DEF InOrder
<1>2. /\ DOMAIN todo = {0} \cup fs
      /\ todo[0] = {<<r, "share">>}
      /\ \A i \in fs : todo[i] = f[i]
  <2> HIDE DEF f
  <2> QED
    BY <1>1, OneLock DEF Put, ++
<1> HIDE DEF f, todo
<1>3. ASSUME NEW i \in fs, NEW m \in f[i] PROVE Precedes(op, <<r, "share">>, m)
  <2>1. m \in LeftIn(f)
    BY <1>1, <1>3 DEF LeftIn
  <2>2. HoldStage(<<r, "share">>) = 0 /\ WaitStage(op, m) = 3
    BY <1>1, <2>1, HoldStages, WaitStages
  <2> QED
    BY <2>2, ByStage
<1>4. InLine(op, todo)
  <2>1. DOMAIN todo \subseteq Nat
    BY <1>2
  <2>2. ASSUME NEW i \in DOMAIN todo, NEW j \in DOMAIN todo, NEW l \in todo[i], NEW m \in todo[j],
               i < j \/ (i = j /\ l # m)
        PROVE  Precedes(op, l, m)
    <3>1. CASE i \in fs /\ j \in fs
      BY <1>1, <1>2, <2>2, <3>1 DEF InLine
    <3>2. CASE i = 0 /\ j \in fs
      BY <1>2, <1>3, <2>2, <3>2
    <3>3. j # 0
      <4>1. SUFFICES ASSUME j = 0 PROVE FALSE
        OBVIOUS
      <4>2. ~(i < 0)
        <5>1. i \in Nat
          BY <2>1, <2>2
        <5> QED
          BY <5>1
      <4>3. i = 0 /\ l # m
        BY <2>2, <4>1, <4>2
      <4> QED
        BY <1>2, <4>1, <4>3
    <3> QED
      BY <1>2, <3>1, <3>2, <3>3
  <2> QED
    BY <2>1, <2>2 DEF InLine
<1>5. \A l \in LeftIn(todo) : l = <<r, "share">> \/ l \in LeftIn(f)
  BY <1>1, <1>2 DEF LeftIn
<1> QED
  BY <1>1, <1>4, <1>5 DEF f, todo

-----------------------------------------------------------------------------
\* Every step keeps the invariant.

LEMMA OrderlyAtRest ==
  ASSUME NEW t, txn'[t].pc \in {"idle", "ended"}
  PROVE  Orderly(t)' /\ Opened(t)'
BY DEF Orderly, Opened

LEMMA OrderlyOfOthers ==
  ASSUME NEW t, Still(t), Orderly(t), Opened(t)
  PROVE  Orderly(t)' /\ Opened(t)'
<1>1. /\ txn'[t] = txn[t] /\ Claims(t)' = Claims(t) /\ Left(t)' = Left(t)
      /\ \A r : Holding(t, r)' <=> Holding(t, r)
  BY StillFacts DEF Still, Left
<1>2. Orderly(t)'
  BY <1>1 DEF Orderly
<1>3. Opened(t)'
  BY <1>1 DEF Opened
<1> QED
  BY <1>2, <1>3

LEMMA OrderlyOfLock ==
  ASSUME Shape, NEW t \in Txns, Lock(t), ~Rollback(t), Orderly(t), Opened(t)
  PROVE  Orderly(t)' /\ Opened(t)'
<1>1. PICK i \in DOMAIN txn[t].todo : \E l \in txn[t].todo[i] :
         /\ IsNext(t, i)
         /\ ~Refused(l)
         /\ txn' = [txn EXCEPT ![t].todo[i] = @ \ {l},
                               ![t].held = IF Visible(l) THEN @ \cup {l} ELSE @]
  BY DEF Lock
<1>2. PICK l \in txn[t].todo[i] :
         /\ IsNext(t, i)
         /\ ~Refused(l)
         /\ txn' = [txn EXCEPT ![t].todo[i] = @ \ {l},
                               ![t].held = IF Visible(l) THEN @ \cup {l} ELSE @]
  BY <1>1
<1>3. /\ txn'[t].pc = txn[t].pc /\ txn'[t].call = txn[t].call
      /\ txn'[t].todo = [txn[t].todo EXCEPT ![i] = @ \ {l}]
      /\ txn'[t].held = IF Visible(l) THEN txn[t].held \cup {l} ELSE txn[t].held
  BY <1>2 DEF Shape, Fields
<1>4. /\ DOMAIN txn'[t].todo = DOMAIN txn[t].todo
      /\ txn'[t].todo[i] = txn[t].todo[i] \ {l}
      /\ \A j \in DOMAIN txn[t].todo : j # i => txn'[t].todo[j] = txn[t].todo[j]
      /\ \A j \in DOMAIN txn[t].todo : txn'[t].todo[j] \subseteq txn[t].todo[j]
  BY <1>3
<1>5. /\ Left(t)' \subseteq Left(t) /\ Left(t) \subseteq Left(t)' \cup {l}
      /\ l \in Left(t) /\ l \in Turn(t)
  <2>1. Left(t)' = UNION {txn'[t].todo[j] : j \in DOMAIN txn'[t].todo}
    BY DEF Left
  <2>2. l \in Left(t) /\ l \in Turn(t)
    BY <1>2 DEF Left, Turn
  <2>3. Left(t)' \subseteq Left(t)
    BY <1>4, <2>1 DEF Left
  <2>4. Left(t) \subseteq Left(t)' \cup {l}
    BY <1>4, <2>1 DEF Left
  <2> QED
    BY <2>2, <2>3, <2>4
<1>6. /\ Claims(t)' \subseteq Claims(t)
      /\ txn[t].held \subseteq txn'[t].held /\ txn'[t].held \subseteq txn[t].held \cup {l}
      /\ \A m \in Claims(t) : m[2] \in {"new", "share"} => m \in Claims(t)'
  <2>1. /\ txn[t].held \subseteq txn'[t].held /\ txn'[t].held \subseteq txn[t].held \cup {l}
    BY <1>3
  <2>2. Claims(t)' \subseteq Claims(t)
    BY <1>5, <2>1 DEF Claims
  <2>3. ASSUME NEW m \in Claims(t), m[2] \in {"new", "share"}
        PROVE  m \in Claims(t)'
    <3>1. CASE m # l
      BY <1>5, <2>1, <3>1 DEF Claims
    <3>2. CASE m = l
      <4>1. Visible(l)
        BY <1>2, <2>3, <3>2 DEF Refused, Visible
      <4> QED
        BY <1>3, <3>2, <4>1 DEF Claims
    <3> QED
      BY <3>1, <3>2
  <2> QED
    BY <2>1, <2>2, <2>3
<1>7. \A r : Holding(t, r) => Holding(t, r)'
  BY <1>6 DEF Holding
<1>8. Opened(t)'
  BY <1>3, <1>6 DEF Opened
<1>9. ASSUME txn[t].pc \notin {"idle", "ended"}, txn[t].call.op \notin Exempt
      PROVE  Orderly(t)'
  <2> DEFINE op == txn[t].call.op
  <2>1. \A m \in Claims(t)' : Usual(m)
    BY <1>6, <1>9 DEF Orderly
  <2>2. InLine(op, txn[t].todo)
    BY <1>9 DEF Orderly
  <2>3. InLine(op, txn'[t].todo)
    BY <1>4, <2>2 DEF InLine
  <2>4. ASSUME NEW h \in txn'[t].held, NEW m \in Left(t)' PROVE Precedes(op, h, m)
    <3>1. m \in Left(t)
      BY <1>5
    <3>2. CASE h \in txn[t].held
      BY <1>9, <3>1, <3>2 DEF Orderly
    <3>3. CASE h = l
      <4>1. CASE m # l
        BY <1>5, <2>2, <3>1, <3>3, <4>1, NextInLine
      <4>2. CASE m = l
        <5>1. PICK j \in DOMAIN txn[t].todo : l \in txn'[t].todo[j]
          BY <1>4, <2>4, <4>2 DEF Left
        <5>2. j # i /\ l \in txn[t].todo[j]
          BY <1>4, <5>1
        <5>3. i < j
          <6>1. ~(j < i)
            BY <1>2, <5>2 DEF IsNext
          <6> QED
            BY <2>2, <5>2, <6>1 DEF InLine
        <5> QED
          BY <2>2, <3>3, <4>2, <5>2, <5>3 DEF InLine
      <4> QED
        BY <4>1, <4>2
    <3> QED
      BY <1>6, <3>2, <3>3
  <2>5. \A m \in Claims(t)' : m[1][1] = PermissionTable => m[1][2] = t
    BY <1>6, <1>9 DEF Orderly
  <2>6. ASSUME op # "unlinkVulnerability", NEW m \in Claims(t)', m[1][1] = "finding", m[2] = "nokey"
        PROVE  <<m[1], "share">> \in Claims(t)'
    <3>1. <<m[1], "share">> \in Claims(t)
      BY <1>6, <1>9, <2>6 DEF Orderly
    <3> QED
      BY <1>6, <3>1
  <2> HIDE DEF op
  <2>7. txn'[t].call.op = op
    BY <1>3 DEF op
  <2> QED
    BY <2>1, <2>3, <2>4, <2>5, <2>6, <2>7 DEF Orderly
<1>10. CASE txn[t].pc \in {"idle", "ended"} \/ txn[t].call.op \in Exempt
  <2>1. txn'[t].pc \in {"idle", "ended"} \/ txn'[t].call.op \in Exempt
    BY <1>3, <1>10
  <2> QED
    BY <1>8, <2>1 DEF Orderly
<1> QED
  BY <1>8, <1>9, <1>10

-----------------------------------------------------------------------------
\* A call begins.

Starts(t, c, p, locks) ==
  /\ txn'[t].pc = p /\ txn'[t].call = c
  /\ txn'[t].todo = locks /\ txn'[t].held = {}
  /\ Claims(t)' = LeftIn(locks)

LEMMA OpenStarts ==
  ASSUME Shape, NEW t \in Txns, NEW c, NEW p, NEW locks, Open(t, c, p, locks)
  PROVE  Starts(t, c, p, locks)
<1>1. txn'[t].todo = locks
  BY DEF Open, Shape, Idle
<1> QED
  BY <1>1, OpenEffect DEF Starts

LEMMA OpenReadingStarts ==
  ASSUME Shape, NEW t \in Txns, NEW c, NEW p, NEW locks, NEW scope,
         OpenReading(t, c, p, locks, scope)
  PROVE  Starts(t, c, p, locks)
<1>1. txn'[t].todo = locks
  BY DEF OpenReading, Shape, Idle
<1> QED
  BY <1>1, OpenReadingEffect DEF Starts

LEMMA OpenRepeatableStarts ==
  ASSUME Shape, NEW t \in Txns, NEW c, NEW p, NEW locks, NEW scope,
         OpenRepeatable(t, c, p, locks, scope)
  PROVE  Starts(t, c, p, locks)
<1>1. txn'[t].todo = locks
  BY DEF OpenRepeatable, Shape, Idle
<1> QED
  BY <1>1, OpenRepeatableEffect DEF Starts

LEMMA OpenForStarts ==
  ASSUME Shape, NEW t \in Txns, NEW c, NEW ok, NEW locks,
         OpenFor(t, c, ok, locks), ~Rollback(t)
  PROVE  Starts(t, c, c.op, locks)
BY OpenRepeatableStarts DEF OpenFor

\* The first locks of a call that gives permissions to none but its own role, and
\* writes no finding that it has not locked.
LEMMA StartOrderly ==
  ASSUME NEW t, NEW c, NEW p, NEW locks, Starts(t, c, p, locks),
         InLine(c.op, locks),
         \A l \in LeftIn(locks) :
           /\ Usual(l)
           /\ l[1][1] = PermissionTable => l[1][2] = t
           /\ l[1][1] = "finding" => l[2] # "nokey"
  PROVE  Orderly(t)'
<1>1. /\ txn'[t].call = c /\ txn'[t].todo = locks /\ txn'[t].held = {}
      /\ Claims(t)' = LeftIn(locks)
  BY DEF Starts
<1> QED
  BY <1>1 DEF Orderly

LEMMA ExemptOps ==
  /\ \A op \in Deletions : op \in Exempt
  /\ \A op \in AsNamed : op \in Exempt
  /\ \A op \in Renaming : op \in Exempt
BY DEF Exempt

LEMMA NothingOpened ==
  ASSUME NEW t, txn'[t].pc \notin {"unlink all", "deleteAsset", "deleteDefinition",
                                   "cascade role", "linkVulnerability", "unlinkVulnerability",
                                   "lock plan", "rename vulnerability", "replace permissions",
                                   "replace roles"}
  PROVE  Opened(t)'
BY DEF Opened

\* A call that is excepted.
LEMMA ExemptAt ==
  ASSUME NEW t, NEW c, NEW p, txn'[t].pc = p, txn'[t].call = c, c.op \in Exempt,
         p \notin {"linkVulnerability", "unlinkVulnerability", "lock plan"}
  PROVE  Orderly(t)' /\ Opened(t)'
<1>1. Orderly(t)'
  BY DEF Orderly
<1>2. Opened(t)'
  BY DEF Opened
<1> QED
  BY <1>1, <1>2

LEMMA ExemptStarts ==
  ASSUME NEW t, NEW c, NEW p, \E locks : Starts(t, c, p, locks), c.op \in Exempt,
         p \notin {"linkVulnerability", "unlinkVulnerability", "lock plan"}
  PROVE  Orderly(t)' /\ Opened(t)'
BY ExemptAt DEF Starts

\* A lock that asks nothing of what is usual.
LEMMA Unowned ==
  ASSUME NEW l, l[1][1] \notin {"asset", "finding", PermissionTable, HoldsTable}
  PROVE  Usual(l) /\ l[1][1] \notin {PermissionTable, HoldsTable} /\ l[1][1] # "finding"
BY DEF Usual

LEMMA TableNames ==
  PermissionTable = "role_permission_assignment" /\ HoldsTable = "user_role_assignment"
BY DEF PermissionTable, HoldsTable

\* A call that begins with one lock.
LEMMA OneLockOrderly ==
  ASSUME NEW t, NEW c, NEW p, NEW x, Starts(t, c, p, <<{x}>>),
         Usual(x), x[1][1] \notin {"finding", PermissionTable, HoldsTable}
  PROVE  /\ Orderly(t)'
         /\ txn'[t].pc = p /\ txn'[t].call = c
         /\ \A l \in Claims(t)' : l = x
<1>1. \A l \in LeftIn(<<{x}>>) : l = x
  BY LeftOfOne
<1>2. InLine(c.op, <<{x}>>)
  BY LineOfOne, AloneTogether
<1>3. Orderly(t)'
  BY <1>1, <1>2, StartOrderly
<1> QED
  BY <1>1, <1>3 DEF Starts

LEMMA FindingStarts ==
  ASSUME Shape, NEW t \in Txns, NEW c \in Calls, StartFindingCall(t, c), ~Rollback(t)
  PROVE  Orderly(t)' /\ Opened(t)'
<1>1. CASE StartEdit(t, c)
  <2>1. Starts(t, c, "edit", InOrder(Parents(c), "all"))
    BY <1>1, OpenStarts DEF StartEdit, EditLocks
  <2>2. Parents(c) \subseteq Nat \ {0}
    BY <1>1, FindingsAreNumbered DEF StartEdit
  <2>3. /\ InLine(c.op, InOrder(Parents(c), "all"))
        /\ \A l \in LeftIn(InOrder(Parents(c), "all")) :
              l[1][1] = "finding" /\ l[2] = "all" /\ l[1][2] \in Nat
    BY <2>2, FindingsInLine
  <2>4. Orderly(t)'
    BY <2>1, <2>3, StartOrderly, TableNames DEF Usual
  <2> QED
    BY <2>1, <2>4, NothingOpened DEF Starts
<1>2. CASE CreateManual(t, c)
  <2>1. PICK a : a = Locks({Asset(c.asset)}, "share")
    OBVIOUS
  <2>2. PICK b : b = Locks({Vulnerability(v) : v \in c.vulnerabilities}, "share")
    OBVIOUS
  <2>3. Starts(t, c, "createManual", <<a, b>>)
    BY <1>2, <2>1, <2>2, OpenStarts DEF CreateManual
  <2>4. \A l \in a : l = <<Asset(c.asset), "share">>
    BY <2>1, OneLock
  <2>5. \A l \in b : l[1][1] = "vulnerability" /\ l[2] = "share"
    BY <2>2, LocksOf, Names
  <2>6. \A l \in a : l[1][1] = "asset" /\ l[2] = "share" /\ HoldStage(l) = 0
    BY <2>4, HoldStages, Names
  <2>7. \A l \in b : HoldStage(l) = 3 /\ WaitStage(c.op, l) = 4
    BY <2>5, HoldStages, WaitStages
  <2>8. Together(c.op, a) /\ Together(c.op, b) /\ Follows(c.op, a, b)
    BY <2>4, <2>6, <2>7, ByStage DEF Together, Follows
  <2>9. InLine(c.op, <<a, b>>)
    BY <2>8, LineOfTwo
  <2>10. Orderly(t)'
    BY <2>3, <2>5, <2>6, <2>9, StartOrderly, LeftOfTwo, TableNames DEF Usual
  <2> QED
    BY <2>3, <2>10, NothingOpened DEF Starts
<1>3. CASE MutateVulnerabilityLink(t, c)
  <2>1. PICK x : x = <<Link(c.finding, c.vulnerability),
                       IF c.op = "linkVulnerability" THEN "new" ELSE "all">>
    OBVIOUS
  <2>2. Starts(t, c, c.op, <<{x}>>)
    BY <1>3, <2>1, OpenStarts DEF MutateVulnerabilityLink
  <2>3. x[1][1] = "finding_vulnerability"
    BY <2>1, Names
  <2>4. /\ Orderly(t)'
        /\ txn'[t].pc = c.op /\ txn'[t].call = c
        /\ \A l \in Claims(t)' : l = x
    BY <2>2, <2>3, OneLockOrderly, Unowned, TableNames
  <2>5. c.op \in {"linkVulnerability", "unlinkVulnerability"}
    BY <1>3 DEF MutateVulnerabilityLink
  <2>6. Opened(t)'
    BY <2>3, <2>4, <2>5 DEF Opened
  <2> QED
    BY <2>4, <2>6
<1>4. CASE CreateVulnerability(t, c)
  <2>1. PICK x : x = <<VulnerabilityKey(c.key), "new">>
    OBVIOUS
  <2>2. Starts(t, c, "insert vulnerability", <<{x}>>)
    BY <1>4, <2>1, OpenStarts DEF CreateVulnerability
  <2>3. x[1][1] = "vulnerability_key"
    BY <2>1, Names
  <2>4. Orderly(t)'
    BY <2>2, <2>3, OneLockOrderly, Unowned, TableNames
  <2> QED
    BY <2>2, <2>4, NothingOpened DEF Starts
<1>5. CASE UpdateVulnerability(t, c)
  <2>1. \E locks : Starts(t, c, "rename vulnerability", locks)
    BY <1>5, OpenStarts DEF UpdateVulnerability
  <2>2. c.op \in Exempt
    BY <1>5, ExemptOps DEF UpdateVulnerability, Renaming
  <2> QED
    BY <2>1, <2>2, ExemptStarts
<1>6. CASE DeleteVulnerability(t, c)
  <2>1. \E locks : Starts(t, c, "unlink all", locks)
    BY <1>6, OpenStarts DEF DeleteVulnerability
  <2>2. c.op \in Exempt
    BY <1>6, ExemptOps DEF DeleteVulnerability, Deletions
  <2> QED
    BY <2>1, <2>2, ExemptStarts
<1>7. CASE RecordPlan(t, c)
  <2>1. PICK x : x = <<Ingestion(c.ingestion), "all">>
    OBVIOUS
  <2>2. Starts(t, c, "lock plan", <<{x}>>) /\ c.op = "record"
    BY <1>7, <2>1, OneLock, OpenStarts DEF RecordPlan
  <2>3. x[1][1] = "ingestion"
    BY <2>1, Names
  <2>4. /\ Orderly(t)'
        /\ txn'[t].pc = "lock plan" /\ txn'[t].call = c
        /\ \A l \in Claims(t)' : l = x
    BY <2>2, <2>3, OneLockOrderly, Unowned, TableNames
  <2>5. Opened(t)'
    BY <2>2, <2>3, <2>4 DEF Opened
  <2> QED
    BY <2>4, <2>5
<1> QED
  BY <1>1, <1>2, <1>3, <1>4, <1>5, <1>6, <1>7 DEF StartFindingCall

LEMMA AssetStarts ==
  ASSUME Shape, NEW t \in Txns, NEW c \in Calls, StartAssetCall(t, c), ~Rollback(t)
  PROVE  Orderly(t)' /\ Opened(t)'
<1>a. \A a : AuditLock(a) = {<<Asset(a), "nokey">>} /\ Asset(a)[1] = "asset"
  BY Names DEF AuditLock
<1>1. CASE CreateAsset(t, c)
  <2>1. \E locks : Starts(t, c, "create", locks)
    BY <1>1, OpenRepeatableStarts DEF CreateAsset
  <2>2. c.op = "create" /\ c.op \in Exempt
    BY <1>1, ExemptOps DEF CreateAsset, AsNamed
  <2> QED
    BY <2>1, <2>2, ExemptStarts
<1>2. CASE UpdateAsset(t, c)
  <2>1. PICK x : x = <<Asset(c.asset), "nokey">>
    OBVIOUS
  <2>2. Starts(t, c, c.op, <<{x}>>) /\ c.op = "updateAsset"
    BY <1>2, <1>a, <2>1, OpenForStarts DEF UpdateAsset
  <2>3. x[1][1] = "asset" /\ x[2] = "nokey"
    BY <1>a, <2>1
  <2>4. Orderly(t)'
    BY <2>2, <2>3, OneLockOrderly, TableNames DEF Usual
  <2> QED
    BY <2>2, <2>4, NothingOpened DEF Starts
<1>3. CASE AddIdentifier(t, c)
  <2>1. PICK x, y, z : /\ x = <<Key(c.key), "new">> /\ y = <<Asset(c.asset), "share">>
                       /\ z = <<Asset(c.asset), "nokey">>
    OBVIOUS
  <2>2. Starts(t, c, c.op, <<{x}, {y}, {z}>>) /\ c.op = "addIdentifier"
    BY <1>3, <1>a, <2>1, OneLock, OpenForStarts DEF AddIdentifier
  <2>3. /\ x[1][1] = "asset_identifier_key"
        /\ y[1][1] = "asset" /\ y[2] = "share" /\ z[1][1] = "asset" /\ z[2] = "nokey"
    BY <2>1, Names
  <2>4. /\ HoldStage(x) = 1 /\ HoldStage(y) = 0
        /\ WaitStage(c.op, y) = 2 /\ WaitStage(c.op, z) = 6
    BY <2>3, HoldStages, WaitStages
  <2>5. Follows(c.op, {x}, {y}) /\ Follows(c.op, {x}, {z}) /\ Follows(c.op, {y}, {z})
    BY <2>4, ByStage DEF Follows
  <2>6. InLine(c.op, <<{x}, {y}, {z}>>)
    BY <2>5, LineOfThree, AloneTogether
  <2>7. \A l \in LeftIn(<<{x}, {y}, {z}>>) : l = x \/ l = y \/ l = z
    BY LeftOfThree
  <2>8. Orderly(t)'
    BY <2>2, <2>3, <2>6, <2>7, StartOrderly, TableNames DEF Usual
  <2> QED
    BY <2>2, <2>8, NothingOpened DEF Starts
<1>4. CASE UpdateIdentifier(t, c)
  <2>1. \E locks : Starts(t, c, c.op, locks)
    BY <1>4, OpenForStarts DEF UpdateIdentifier
  <2>2. c.op = "updateIdentifier" /\ c.op \in Exempt
    BY <1>4, ExemptOps DEF UpdateIdentifier, Renaming
  <2> QED
    BY <2>1, <2>2, ExemptStarts
<1>5. CASE DeleteIdentifier(t, c)
  <2>1. PICK x, y, z : /\ x = <<Identifier(c.identifier), "all">>
                       /\ y = <<Key(db[Identifier(c.identifier)].key), "all">>
                       /\ z = <<Asset(c.asset), "nokey">>
    OBVIOUS
  <2>2. Starts(t, c, c.op, <<{x}, {y}, {z}>>) /\ c.op = "deleteIdentifier"
    BY <1>5, <1>a, <2>1, OpenForStarts DEF DeleteIdentifier
  <2>3. /\ x[1][1] = "asset_identifier" /\ y[1][1] = "asset_identifier_key"
        /\ z[1][1] = "asset" /\ z[2] = "nokey"
    BY <2>1, Names
  <2>4. /\ HoldStage(x) = 0 /\ HoldStage(y) = 1
        /\ WaitStage(c.op, y) = 1 /\ WaitStage(c.op, z) = 6
    BY <2>3, HoldStages, WaitStages DEF Early
  <2>5. Follows(c.op, {x}, {y}) /\ Follows(c.op, {x}, {z}) /\ Follows(c.op, {y}, {z})
    BY <2>4, ByStage DEF Follows
  <2>6. InLine(c.op, <<{x}, {y}, {z}>>)
    BY <2>5, LineOfThree, AloneTogether
  <2>7. \A l \in LeftIn(<<{x}, {y}, {z}>>) : l = x \/ l = y \/ l = z
    BY LeftOfThree
  <2>8. Orderly(t)'
    BY <2>2, <2>3, <2>6, <2>7, StartOrderly, TableNames DEF Usual
  <2> QED
    BY <2>2, <2>8, NothingOpened DEF Starts
<1>6. CASE DeleteAsset(t, c)
  <2>1. \E locks : Starts(t, c, c.op, locks)
    BY <1>6, OpenForStarts DEF DeleteAsset
  <2>2. c.op = "deleteAsset" /\ c.op \in Exempt
    BY <1>6, ExemptOps DEF DeleteAsset, Deletions
  <2> QED
    BY <2>1, <2>2, ExemptStarts
<1>7. CASE CreateDefinition(t, c)
  <2>1. PICK x : x = <<FieldKey(c.key), "new">>
    OBVIOUS
  <2>2. Starts(t, c, "write definition", <<{x}>>)
    BY <1>7, <2>1, OpenRepeatableStarts DEF CreateDefinition
  <2>3. x[1][1] = "asset_custom_field_key"
    BY <2>1, Names
  <2>4. Orderly(t)'
    BY <2>2, <2>3, OneLockOrderly, Unowned, TableNames
  <2> QED
    BY <2>2, <2>4, NothingOpened DEF Starts
<1>8. CASE UpdateDefinition(t, c)
  <2>1. \E locks : Starts(t, c, "write definition", locks)
    BY <1>8, OpenRepeatableStarts DEF UpdateDefinition
  <2>2. c.op \in Exempt
    BY <1>8, ExemptOps DEF UpdateDefinition, Renaming
  <2> QED
    BY <2>1, <2>2, ExemptStarts
<1>9. CASE DeleteDefinition(t, c)
  <2>1. \E locks : Starts(t, c, c.op, locks)
    BY <1>9, OpenRepeatableStarts DEF DeleteDefinition
  <2>2. c.op = "deleteDefinition" /\ c.op \in Exempt
    BY <1>9, ExemptOps DEF DeleteDefinition, Deletions
  <2> QED
    BY <2>1, <2>2, ExemptStarts
<1>10. CASE ReplaceAssignments(t, c)
  <2>1. \E locks : Starts(t, c, c.op, locks)
    BY <1>10, OpenForStarts DEF ReplaceAssignments
  <2>2. c.op = "replaceAssignments" /\ c.op \in Exempt
    BY <1>10, ExemptOps DEF ReplaceAssignments, AsNamed
  <2> QED
    BY <2>1, <2>2, ExemptStarts
<1>11. CASE ReplaceValues(t, c)
  <2>1. \E locks : Starts(t, c, c.op, locks)
    BY <1>11, OpenForStarts DEF ReplaceValues
  <2>2. c.op = "replaceValues" /\ c.op \in Exempt
    BY <1>11, ExemptOps DEF ReplaceValues, AsNamed
  <2> QED
    BY <2>1, <2>2, ExemptStarts
<1> QED
  BY <1>1, <1>2, <1>3, <1>4, <1>5, <1>6, <1>7, <1>8, <1>9, <1>10, <1>11 DEF StartAssetCall

LEMMA RoleStarts ==
  ASSUME Shape, NEW t \in Txns, NEW c \in Calls, StartRoleCall(t, c), ~Rollback(t)
  PROVE  Orderly(t)' /\ Opened(t)'
<1>u. ASSUME Starts(t, c, "write user", InsertLocks(t, c))
      PROVE  Orderly(t)' /\ Opened(t)'
  <2>1. PICK x, y, z : /\ x = <<User(t), "new">> /\ y = <<Username(c.username), "new">>
                       /\ z = <<Email(c.email), "new">>
    OBVIOUS
  <2>2. PICK b : b = Locks({Role(r) : r \in c.roles}, "share")
    OBVIOUS
  <2>3. Starts(t, c, "write user", <<{x}, {y}, {z}, b>>)
    BY <1>u, <2>1, <2>2 DEF InsertLocks
  <2>4. /\ x[1][1] = "user_profile" /\ y[1][1] = "user_profile_username"
        /\ z[1][1] = "user_profile_email"
    BY <2>1, Names
  <2>5. /\ HoldStage(x) = 0 /\ HoldStage(y) = 1 /\ HoldStage(z) = 2
        /\ WaitStage(c.op, y) = 1 /\ WaitStage(c.op, z) = 2
    BY <2>4, HoldStages, WaitStages DEF Early
  <2>6. \A l \in b : l[1][1] = "role" /\ l[2] = "share"
    BY <2>2, LocksOf, Names
  <2>7. \A l \in b : HoldStage(l) = 0 /\ WaitStage(c.op, l) = 3
    BY <2>6, HoldStages, WaitStages
  <2>8. /\ Together(c.op, b)
        /\ Follows(c.op, {x}, {y}) /\ Follows(c.op, {x}, {z}) /\ Follows(c.op, {x}, b)
        /\ Follows(c.op, {y}, {z}) /\ Follows(c.op, {y}, b) /\ Follows(c.op, {z}, b)
    BY <2>5, <2>7, ByStage DEF Together, Follows
  <2>9. InLine(c.op, <<{x}, {y}, {z}, b>>)
    BY <2>8, LineOfFour, AloneTogether
  <2>10. \A l \in LeftIn(<<{x}, {y}, {z}, b>>) : l \in {x, y, z} \/ l \in b
    BY LeftOfFour
  <2>11. \A l \in LeftIn(<<{x}, {y}, {z}, b>>) :
            Usual(l) /\ l[1][1] \notin {PermissionTable, HoldsTable} /\ l[1][1] # "finding"
    BY <2>4, <2>6, <2>10, Unowned, TableNames
  <2>12. Orderly(t)'
    BY <2>3, <2>9, <2>11, StartOrderly
  <2> QED
    BY <2>3, <2>12, NothingOpened DEF Starts
<1>1. CASE CreateRole(t, c)
  <2>1. PICK x, y : x = <<Role(t), "new">> /\ y = <<RoleName(c.name), "new">>
    OBVIOUS
  <2>2. PICK b : b = Locks({Permission(t, p) : p \in c.permissions}, "new")
    OBVIOUS
  <2>3. Starts(t, c, "write role", <<{x}, {y}, b>>)
    BY <1>1, <2>1, <2>2, OpenStarts DEF CreateRole
  <2>4. x[1][1] = "role" /\ y[1][1] = "role_name"
    BY <2>1, Names
  <2>5. HoldStage(x) \in {0, 3} /\ HoldStage(y) = 4 /\ WaitStage(c.op, y) = 4
    BY <2>4, HoldStages, WaitStages
  <2>6. \A l \in b : l[1][1] = PermissionTable /\ l[1][2] = t
    BY <2>2, LocksOf, Names, TableNames
  <2>7. \A l \in b : HoldStage(l) = 0 /\ WaitStage(c.op, l) = 7
    BY <2>6, HoldStages, WaitStages
  <2>8. /\ Together(c.op, b)
        /\ Follows(c.op, {x}, {y}) /\ Follows(c.op, {x}, b) /\ Follows(c.op, {y}, b)
    BY <2>5, <2>7, ByStage DEF Together, Follows
  <2>9. InLine(c.op, <<{x}, {y}, b>>)
    BY <2>8, LineOfThree, AloneTogether
  <2>10. \A l \in LeftIn(<<{x}, {y}, b>>) : l \in {x, y} \/ l \in b
    BY LeftOfThree
  <2>11. \A l \in {x, y} : Usual(l) /\ l[1][1] \notin {PermissionTable, HoldsTable, "finding"}
    BY <2>4, Unowned, TableNames
  <2>12. \A l \in b : Usual(l) /\ l[1][1] # "finding" /\ l[1][2] = t
    BY <2>6, TableNames DEF Usual
  <2>13. Orderly(t)'
    BY <2>3, <2>9, <2>10, <2>11, <2>12, StartOrderly
  <2> QED
    BY <2>3, <2>13, NothingOpened DEF Starts
<1>2. CASE UpdateRole(t, c)
  <2>1. \E locks : Starts(t, c, "replace permissions", locks)
    BY <1>2, OpenReadingStarts DEF UpdateRole
  <2>2. c.op \in Exempt
    BY <1>2, ExemptOps DEF UpdateRole, Renaming
  <2> QED
    BY <2>1, <2>2, ExemptStarts
<1>3. CASE DeleteRole(t, c)
  <2>1. \E locks : Starts(t, c, "cascade role", locks)
    BY <1>3, OpenStarts DEF DeleteRole
  <2>2. c.op \in Exempt
    BY <1>3, ExemptOps DEF DeleteRole, Deletions
  <2> QED
    BY <2>1, <2>2, ExemptStarts
<1>4. CASE CreateUser(t, c)
  BY <1>4, <1>u, OpenStarts DEF CreateUser
<1>5. CASE CreateInitialAdmin(t, c)
  BY <1>5, <1>u, OpenStarts DEF CreateInitialAdmin
<1>6. CASE UpdateUser(t, c)
  <2>1. \E locks : Starts(t, c, "replace roles", locks)
    BY <1>6, OpenReadingStarts DEF UpdateUser
  <2>2. c.op \in Exempt
    BY <1>6, ExemptOps DEF UpdateUser, Renaming
  <2> QED
    BY <2>1, <2>2, ExemptStarts
<1> QED
  BY <1>1, <1>2, <1>3, <1>4, <1>5, <1>6 DEF StartRoleCall

-----------------------------------------------------------------------------
\* A call goes on.

MovesTo(t, c, p, locks) ==
  /\ txn[t].call = c
  /\ txn'[t].pc = p /\ txn'[t].call = c
  /\ txn'[t].todo = locks /\ txn'[t].held = txn[t].held
  /\ Left(t)' = LeftIn(locks) /\ Claims(t)' = txn[t].held \cup LeftIn(locks)

LEMMA AdvanceMovesTo ==
  ASSUME Shape, NEW t \in Txns, NEW p, NEW locks, Advance(t, p, locks)
  PROVE  MovesTo(t, txn[t].call, p, locks)
<1>1. txn'[t].todo = locks
  BY DEF Advance, Shape, Fields
<1> QED
  BY <1>1, AdvanceEffect DEF MovesTo

\* The locks it goes on to take come after those it holds.
LEMMA MoveOrderly ==
  ASSUME NEW t, NEW c, NEW p, NEW locks, MovesTo(t, c, p, locks),
         InLine(c.op, locks),
         \A h \in txn[t].held, l \in LeftIn(locks) : Precedes(c.op, h, l),
         \A l \in txn[t].held \cup LeftIn(locks) :
           /\ Usual(l)
           /\ l[1][1] = PermissionTable => l[1][2] = t
           /\ c.op # "unlinkVulnerability" /\ l[1][1] = "finding" /\ l[2] = "nokey" =>
                <<l[1], "share">> \in txn[t].held \cup LeftIn(locks)
  PROVE  Orderly(t)'
<1>1. /\ txn'[t].call = c /\ txn'[t].todo = locks /\ txn'[t].held = txn[t].held
      /\ Left(t)' = LeftIn(locks) /\ Claims(t)' = txn[t].held \cup LeftIn(locks)
  BY DEF MovesTo
<1> QED
  BY <1>1 DEF Orderly

LEMMA ExemptMoves ==
  ASSUME Shape, NEW t \in Txns, NEW p, \E locks : Advance(t, p, locks),
         txn[t].call.op \in Exempt,
         p \notin {"linkVulnerability", "unlinkVulnerability", "lock plan"}
  PROVE  Orderly(t)' /\ Opened(t)'
<1>1. PICK c : c = txn[t].call
  OBVIOUS
<1>2. txn'[t].pc = p /\ txn'[t].call = c
  BY <1>1, AdvanceMovesTo DEF MovesTo
<1> QED
  BY <1>1, <1>2, ExemptAt

LEMMA FindingMoves ==
  ASSUME Shape, NEW t \in Txns, FindingStep(t), ~FindingCommit(t), ~Rollback(t),
         Orderly(t), Opened(t)
  PROVE  Orderly(t)' /\ Opened(t)'
<1>c. PICK c : c = txn[t].call
  OBVIOUS
<1>1. CASE ReadEdit(t)
  <2>1. PICK own : own = Restricted(UNION {Of(f) \cup EntriesOf(f) : f \in Parents(c)})
    OBVIOUS
  <2>2. PICK b : b = Locks(LinksOf(c.finding), "all")
    OBVIOUS
  <2>3. PICK locks : locks = IF c.op = "deleteByID" THEN <<b>> ELSE <<>>
    OBVIOUS
  <2>4. txn' = [txn EXCEPT ![t].pc = "write edit", ![t].seen = own, ![t].todo = locks]
    BY <1>c, <1>1, <2>1, <2>2, <2>3 DEF ReadEdit
  <2>5. /\ txn'[t].pc = "write edit" /\ txn'[t].call = c
        /\ txn'[t].held = txn[t].held /\ txn'[t].todo = locks
    BY <1>c, <2>4 DEF Shape, Fields
  <2>6. Left(t)' = LeftIn(locks)
    BY <2>5 DEF Left, LeftIn
  <2>7. MovesTo(t, c, "write edit", locks)
    BY <1>c, <2>5, <2>6 DEF MovesTo, Claims
  <2>8. Claims(t) = txn[t].held /\ txn[t].pc = "edit"
    BY <1>1, ReadyClaims DEF ReadEdit
  <2>10. ASSUME c.op \in Exempt PROVE Orderly(t)'
    BY <2>5, <2>10, ExemptAt
  <2>11. ASSUME c.op \notin Exempt PROVE Orderly(t)'
    <3>1. locks = <<>>
      BY <2>3, <2>11, ExemptOps DEF Deletions
    <3>2. /\ InLine(c.op, locks) /\ LeftIn(locks) = {}
      BY <3>1, LineOfNone, LeftOfNone
    <3>3. \A l \in txn[t].held :
             /\ Usual(l)
             /\ l[1][1] = PermissionTable => l[1][2] = t
             /\ c.op # "unlinkVulnerability" /\ l[1][1] = "finding" /\ l[2] = "nokey" =>
                  <<l[1], "share">> \in txn[t].held
      BY <1>c, <2>8, <2>11 DEF Orderly
    <3> QED
      BY <2>7, <3>2, <3>3, MoveOrderly
  <2>12. Orderly(t)'
    BY <2>10, <2>11
  <2> QED
    BY <2>5, <2>12, NothingOpened
<1>2. CASE LinkInserted(t)
  <2>1. PICK x, y, z : /\ x = <<Finding(c.finding), "share">>
                       /\ y = <<Vulnerability(c.vulnerability), "share">>
                       /\ z = <<Finding(c.finding), "nokey">>
    OBVIOUS
  <2>2. Advance(t, "touch", <<{x}, {y}, {z}>>) /\ Ready(t, "linkVulnerability")
    BY <1>c, <1>2, <2>1 DEF LinkInserted
  <2>3. MovesTo(t, c, "touch", <<{x}, {y}, {z}>>)
    BY <1>c, <2>2, AdvanceMovesTo
  <2>4. Claims(t) = txn[t].held /\ txn[t].pc = "linkVulnerability"
    BY <2>2, ReadyClaims
  <2>5. /\ c \in Calls /\ c.op = "linkVulnerability"
        /\ \A l \in txn[t].held : l[1][1] = "finding_vulnerability"
    BY <1>c, <2>4 DEF Opened
  <2>6. c.finding \in Nat
    BY <2>5, FindingsAreNumbered
  <2>7. /\ x[1][1] = "finding" /\ x[2] = "share" /\ x[1][2] = c.finding
        /\ y[1][1] = "vulnerability" /\ y[2] = "share"
        /\ z[1][1] = "finding" /\ z[2] = "nokey" /\ z[1][2] = c.finding
        /\ x = <<z[1], "share">>
    BY <2>1, Names
  <2>8. /\ HoldStage(x) = 3 /\ HoldStage(y) = 3
        /\ WaitStage(c.op, x) = 3 /\ WaitStage(c.op, y) = 4 /\ WaitStage(c.op, z) = 5
    BY <2>5, <2>7, HoldStages, WaitStages
  <2>9. Follows(c.op, {x}, {y}) /\ Follows(c.op, {x}, {z}) /\ Follows(c.op, {y}, {z})
    BY <2>8, ByStage DEF Follows
  <2>10. InLine(c.op, <<{x}, {y}, {z}>>)
    BY <2>9, LineOfThree, AloneTogether
  <2>11. LeftIn(<<{x}, {y}, {z}>>) = {x, y, z}
    BY LeftOfThree
  <2>12. \A h \in txn[t].held : HoldStage(h) = 0
    BY <2>5, HoldStages DEF Early
  <2>13. \A h \in txn[t].held, l \in {x, y, z} : Precedes(c.op, h, l)
    BY <2>8, <2>12, ByStage
  <2>14. \A l \in txn[t].held : Usual(l) /\ l[1][1] \notin {PermissionTable, HoldsTable, "finding"}
    BY <2>5, Unowned, TableNames
  <2>15. \A l \in {x, y, z} : Usual(l) /\ l[1][1] \notin {PermissionTable, HoldsTable}
    BY <2>6, <2>7, TableNames DEF Usual
  <2>16. \A l \in {x, y, z} : l[1][1] = "finding" /\ l[2] = "nokey" => <<l[1], "share">> \in {x, y, z}
    BY <2>7
  <2>17. Orderly(t)'
    BY <2>3, <2>10, <2>11, <2>13, <2>14, <2>15, <2>16, MoveOrderly, ZenonT(60)
  <2> QED
    BY <2>3, <2>17, NothingOpened DEF MovesTo
<1>3. CASE LinkDeleted(t)
  <2>1. PICK x : x = <<Finding(c.finding), "nokey">>
    OBVIOUS
  <2>2. Advance(t, "touch", <<{x}>>) /\ Ready(t, "unlinkVulnerability")
    BY <1>c, <1>3, <2>1 DEF LinkDeleted
  <2>3. MovesTo(t, c, "touch", <<{x}>>)
    BY <1>c, <2>2, AdvanceMovesTo
  <2>4. Claims(t) = txn[t].held /\ txn[t].pc = "unlinkVulnerability"
    BY <2>2, ReadyClaims
  <2>5. /\ c \in Calls /\ c.op = "unlinkVulnerability"
        /\ \A l \in txn[t].held : l[1][1] = "finding_vulnerability"
    BY <1>c, <2>4 DEF Opened
  <2>6. c.finding \in Nat
    BY <2>5, FindingsAreNumbered
  <2>7. x[1][1] = "finding" /\ x[2] = "nokey" /\ x[1][2] = c.finding
    BY <2>1, Names
  <2>8. WaitStage(c.op, x) \in {3, 5}
    BY <2>7, WaitStages
  <2>9. InLine(c.op, <<{x}>>) /\ LeftIn(<<{x}>>) = {x}
    BY LineOfOne, LeftOfOne, AloneTogether
  <2>10. \A h \in txn[t].held : HoldStage(h) = 0
    BY <2>5, HoldStages DEF Early
  <2>11. \A h \in txn[t].held : Precedes(c.op, h, x)
    BY <2>8, <2>10, ByStage
  <2>12. \A l \in txn[t].held : Usual(l) /\ l[1][1] \notin {PermissionTable, HoldsTable, "finding"}
    BY <2>5, Unowned, TableNames
  <2>13. Usual(x) /\ x[1][1] \notin {PermissionTable, HoldsTable}
    BY <2>6, <2>7, TableNames DEF Usual
  <2>14. Orderly(t)'
    BY <2>3, <2>5, <2>9, <2>11, <2>12, <2>13, MoveOrderly
  <2> QED
    BY <2>3, <2>14, NothingOpened DEF MovesTo
<1>4. CASE UnlinkAll(t)
  <2>1. \E locks : Advance(t, "write vulnerability", locks)
    BY <1>4 DEF UnlinkAll
  <2>2. txn[t].call.op \in Exempt
    BY <1>4 DEF UnlinkAll, Ready, Opened
  <2> QED
    BY <2>1, <2>2, ExemptMoves
<1>6. CASE RenameVulnerability(t)
  <2>1. \E locks : Advance(t, "write vulnerability", locks)
    BY <1>6 DEF RenameVulnerability
  <2>2. txn[t].call.op \in Exempt
    BY <1>6 DEF RenameVulnerability, Ready, Opened
  <2> QED
    BY <2>1, <2>2, ExemptMoves
<1>5. CASE LockPlan(t)
  <2>1. PICK r : r = Asset(c.asset)
    OBVIOUS
  <2>2. PICK locks : locks = Put(0, Locks({r}, "share")) ++ InOrder(c.findings, "all")
    OBVIOUS
  <2>3. Advance(t, "record", locks) /\ Ready(t, "lock plan")
    BY <1>c, <1>5, <2>1, <2>2 DEF LockPlan
  <2>4. MovesTo(t, c, "record", locks)
    BY <1>c, <2>3, AdvanceMovesTo
  <2>5. Claims(t) = txn[t].held /\ txn[t].pc = "lock plan"
    BY <2>3, ReadyClaims
  <2>6. /\ c \in Calls /\ c.op = "record"
        /\ \A l \in txn[t].held : l[1][1] = "ingestion"
    BY <1>c, <2>5 DEF Opened
  <2>7. c.findings \subseteq Nat \ {0} /\ r[1] = "asset"
    BY <2>1, <2>6, FindingsAreNumbered, Names
  <2>8. /\ InLine(c.op, locks)
        /\ \A l \in LeftIn(locks) : \/ l = <<r, "share">>
                                    \/ l[1][1] = "finding" /\ l[2] = "all" /\ l[1][2] \in Nat
    BY <2>2, <2>7, FindingsAfter
  <2>9. \A l \in LeftIn(locks) :
           \/ l[1][1] = "asset" /\ l[2] = "share"
           \/ l[1][1] = "finding" /\ l[2] = "all" /\ l[1][2] \in Nat
    BY <2>7, <2>8
  <2>10. \A l \in LeftIn(locks) : WaitStage(c.op, l) \in {2, 3}
    BY <2>9, WaitStages
  <2>11. \A h \in txn[t].held : HoldStage(h) = 0
    BY <2>6, HoldStages DEF Early
  <2>12. \A h \in txn[t].held, l \in LeftIn(locks) : Precedes(c.op, h, l)
    BY <2>10, <2>11, ByStage
  <2>13. \A l \in txn[t].held : Usual(l) /\ l[1][1] \notin {PermissionTable, HoldsTable, "finding"}
    BY <2>6, Unowned, TableNames
  <2>14. \A l \in LeftIn(locks) :
            Usual(l) /\ l[1][1] \notin {PermissionTable, HoldsTable} /\ ~(l[1][1] = "finding" /\ l[2] = "nokey")
    BY <2>9, TableNames DEF Usual
  <2>15. Orderly(t)'
    BY <2>4, <2>8, <2>12, <2>13, <2>14, MoveOrderly
  <2> QED
    BY <2>4, <2>15, NothingOpened DEF MovesTo
<1> QED
  BY <1>1, <1>2, <1>3, <1>4, <1>5, <1>6 DEF FindingStep, FindingCommit

LEMMA AssetMoves ==
  ASSUME Shape, NEW t \in Txns, AssetStep(t), ~AssetCommit(t), ~Rollback(t), Opened(t)
  PROVE  Orderly(t)' /\ Opened(t)'
<1>1. CASE CascadeAsset(t)
  <2>1. \E locks : Advance(t, "erase asset", locks)
    BY <1>1 DEF CascadeAsset
  <2>2. txn[t].call.op \in Exempt
    BY <1>1 DEF CascadeAsset, Ready, Opened
  <2> QED
    BY <2>1, <2>2, ExemptMoves
<1>2. CASE CascadeDefinition(t)
  <2>1. \E locks : Advance(t, "erase definition", locks)
    BY <1>2 DEF CascadeDefinition
  <2>2. txn[t].call.op \in Exempt
    BY <1>2 DEF CascadeDefinition, Ready, Opened
  <2> QED
    BY <2>1, <2>2, ExemptMoves
<1> QED
  BY <1>1, <1>2 DEF AssetStep, AssetCommit

LEMMA RoleMoves ==
  ASSUME Shape, NEW t \in Txns, RoleStep(t), ~RoleCommit(t), ~Rollback(t), Opened(t)
  PROVE  Orderly(t)' /\ Opened(t)'
<1>1. CASE ReplacePermissions(t)
  <2>1. \E locks : Advance(t, "write role", locks)
    BY <1>1 DEF ReplacePermissions
  <2>2. txn[t].call.op \in Exempt
    BY <1>1 DEF ReplacePermissions, Ready, Opened
  <2> QED
    BY <2>1, <2>2, ExemptMoves
<1>2. CASE CascadeRole(t)
  <2>1. \E locks : Advance(t, "erase role", locks)
    BY <1>2 DEF CascadeRole
  <2>2. txn[t].call.op \in Exempt
    BY <1>2 DEF CascadeRole, Ready, Opened
  <2> QED
    BY <2>1, <2>2, ExemptMoves
<1>3. CASE ReplaceRoles(t)
  <2>1. \E locks : Advance(t, "write user", locks)
    BY <1>3 DEF ReplaceRoles
  <2>2. txn[t].call.op \in Exempt
    BY <1>3 DEF ReplaceRoles, Ready, Opened
  <2> QED
    BY <2>1, <2>2, ExemptMoves
<1> QED
  BY <1>1, <1>2, <1>3 DEF RoleStep, RoleCommit

LEMMA OwnOrder ==
  ASSUME IInv, NEW t \in Txns, StepOf(t), Orderly(t), Opened(t)
  PROVE  Orderly(t)' /\ Opened(t)'
<1>0. Shape
  BY DEF IInv, Base
<1>1. ASSUME GivesUp(t) PROVE Orderly(t)' /\ Opened(t)'
  <2>1. txn'[t].pc = "ended"
    BY <1>0, <1>1, EndedEffect DEF GivesUp
  <2> QED
    BY <2>1, OrderlyAtRest
<1>2. ASSUME Rollback(t) PROVE Orderly(t)' /\ Opened(t)'
  BY <1>1, <1>2, RollbackGivesUp
<1>3. ASSUME CommitStep(t) PROVE Orderly(t)' /\ Opened(t)'
  <2>1. GivesUp(t) \/ Commits(t)
    BY <1>3, CommitKinds, WholeByTable DEF IInv, CustomWhole, CommitStep
  <2>2. ASSUME Commits(t) PROVE txn'[t].pc = "ended"
    BY <2>2 DEF Commits, Ends
  <2> QED
    BY <1>1, <2>1, <2>2, OrderlyAtRest
<1>4. CASE Begin(t)
  <2>1. PICK c \in Calls : \/ StartFindingCall(t, c)
                           \/ StartAssetCall(t, c)
                           \/ StartRoleCall(t, c)
    BY <1>4 DEF Begin
  <2> QED
    BY <1>0, <1>2, <2>1, FindingStarts, AssetStarts, RoleStarts
<1>5. CASE Lock(t)
  BY <1>0, <1>2, <1>5, OrderlyOfLock
<1>6. CASE FindingStep(t)
  BY <1>0, <1>2, <1>3, <1>6, FindingMoves DEF CommitStep
<1>7. CASE AssetStep(t)
  BY <1>0, <1>2, <1>3, <1>7, AssetMoves DEF CommitStep
<1>8. CASE RoleStep(t)
  BY <1>0, <1>2, <1>3, <1>8, RoleMoves DEF CommitStep
<1> QED
  BY <1>2, <1>4, <1>5, <1>6, <1>7, <1>8 DEF StepOf, Fail

LEMMA StepOrdered ==
  ASSUME IInv, Ordered, NEW t \in Txns, StepOf(t)
  PROVE  Ordered'
<1>1. /\ Base /\ Plans /\ References /\ Chained /\ SeenAssigned /\ Marked
      /\ AssignedRows /\ WholeRows
  BY WholeByTable DEF IInv, CustomWhole
<1>2. Stepped(t)
  BY <1>1, OwnStep DEF Proceeds
<1>3. ASSUME NEW u \in Txns \ {t} PROVE Orderly(u)' /\ Opened(u)'
  BY <1>2, SteppedOthers, OrderlyOfOthers DEF Ordered
<1>4. Orderly(t)' /\ Opened(t)'
  BY OwnOrder DEF Ordered
<1>5. \A u \in Txns \ {t} : txn'[u] = txn[u]
  BY <1>2, SteppedOthers DEF Still
<1>6. UnderWay' \subseteq UnderWay \cup {t}
  BY <1>5 DEF UnderWay
<1>7. IsFiniteSet(UnderWay')
  BY <1>6, FS_AddElement, FS_Subset DEF Ordered
<1> QED
  BY <1>3, <1>4, <1>7 DEF Ordered

LEMMA StutterOrdered == ASSUME Ordered, UNCHANGED vars PROVE Ordered'
<1>1. \A t : Still(t)
  BY SameLocks
<1>2. UnderWay' = UnderWay
  BY DEF UnderWay, vars
<1> QED
  BY <1>1, <1>2, OrderlyOfOthers DEF Ordered

LEMMA InitOrdered == Init => Ordered
<1>1. Init => \A t \in Txns : txn[t].pc = "idle"
  BY IdleAtFirst
<1>2. Init => UnderWay = {}
  BY <1>1 DEF UnderWay
<1> QED
  BY <1>1, <1>2, FS_EmptySet DEF Ordered, Orderly, Opened

\* Calls that wait for one another in a circle include a deletion, an insert of
\* several keys or an update that may change one: all the others take their locks
\* in one order.
THEOREM LocksStayOrdered == Spec => []OrderedLocks
<1>1. ASSUME IInv, Ordered, Next PROVE Ordered'
  <2>1. PICK t \in Txns : StepOf(t)
    BY <1>1 DEF Next, StepOf
  <2> QED
    BY <1>1, <2>1, StepOrdered
<1>2. IInv /\ Ordered /\ [Next]_vars => Ordered'
  BY <1>1, StutterOrdered
<1>3. IInv /\ Ordered => OrderedLocks
  BY NoCircle DEF IInv
<1> QED
  BY InitOrdered, <1>2, <1>3, Inductive, PTL DEF Spec
===============================================================================
