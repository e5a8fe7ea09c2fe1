-------------------------- MODULE RecordsInvariants --------------------------
(***************************************************************************)
(* What is always true of the records, in the parts that RecordsProofs     *)
(* proves: of rows and snapshots, of locks, of what each call claims and   *)
(* has seen, and of the order in which calls take their locks.             *)
(***************************************************************************)
EXTENDS Records, FiniteSets

Fields == {"pc", "call", "level", "todo", "held", "seen"}
Shape == DOMAIN txn = Txns /\ \A t \in Txns : DOMAIN txn[t] = Fields

\* The locks a transaction has, and those it is to take.
Claims(t) == txn[t].held \cup Left(t)

-----------------------------------------------------------------------------
\* The invariant: rows and snapshots.

Row(r) == IF r \in Rows THEN db[r] ELSE Absent
Seen(t, r) == IF r \in DOMAIN txn[t].seen THEN txn[t].seen[r] ELSE Absent

AssignmentTable == "asset_custom_field_assignment"
ValueTable == "asset_custom_field_value"
Custom(r) == r[1] \in {AssignmentTable, ValueTable}

FindingTables == {"ingestion", "finding", "observation", "finding_vulnerability",
                  "vulnerability", "vulnerability_key"}
AssetTables == {"asset", "asset_identifier", "asset_identifier_key",
                "asset_custom_field", "asset_custom_field_key", AssignmentTable, ValueTable}
RoleTables == {"role", "role_name", "role_permission_assignment", "user_profile",
               "user_profile_username", "user_profile_email", "user_role_assignment",
               "user_session"}
Indexes == {"asset_identifier_key", "asset_custom_field_key"}

FindingSteps == {"edit", "write edit", "createManual", "linkVulnerability",
                 "unlinkVulnerability", "touch", "insert vulnerability",
                 "rename vulnerability", "unlink all",
                 "write vulnerability", "lock plan", "record"}
AssetSteps == {"create", "updateAsset", "addIdentifier", "updateIdentifier",
               "deleteIdentifier", "deleteAsset", "erase asset", "write definition",
               "deleteDefinition", "erase definition", "replaceAssignments",
               "replaceValues"}
RoleSteps == {"replace permissions", "write role", "cascade role", "erase role",
              "replace roles", "write user"}

\* The tables of which a row changes only while its lock is held.
Guarded == {"role", "user_profile"} \cup (AssetTables \ Indexes)
Snapshots == AssetTables \ Indexes

WellNamed ==
  /\ \A r \in Rows : r = IF r[1] \in Triples THEN <<r[1], r[2], r[3]>> ELSE <<r[1], r[2]>>
  /\ \A t \in Txns : /\ DOMAIN txn[t].seen \subseteq Rows
                     /\ \A l \in txn[t].held : l[2] # "new" => l[1] \in Rows

Columns(r, x) ==
  /\ r[1] = AssignmentTable => x = [stamp |-> x.stamp]
  /\ r[1] = ValueTable => x = [data |-> x.data, stamp |-> x.stamp]
WellFormed == \A r \in Rows : Row(r) # Absent => Columns(r, Row(r))

\* Nothing is of a transaction that has not ended.
NotOf(t, r, x) ==
  /\ r[1] \in Snapshots \ {"asset_identifier"} =>
       x.stamp # t /\ r[2] # t /\ (Custom(r) => r[3] # t)
  /\ r \notin {NewIdentifier(t, k) : k \in NewKeys}

Fresh ==
  \A t \in Txns : txn[t].pc # "ended" =>
    /\ \A r \in Rows : Row(r) # Absent => NotOf(t, r, Row(r))
    /\ \A u \in Txns : \A r \in DOMAIN txn[u].seen :
         Seen(u, r) # Absent => NotOf(t, r, Seen(u, r))

-----------------------------------------------------------------------------
\* The invariant: locks.

\* Locks that delete from no table but these, and insert where calls give names.
Proper(l, tables) ==
  /\ l = <<l[1], l[2]>>
  /\ \/ l[2] \in {"share", "nokey"}
     \/ l[2] = "new" /\ l[1][1] \notin {"asset", "asset_identifier", "asset_custom_field",
                                        "finding", "vulnerability"}
     \/ l[2] = "all" /\ l[1][1] \in tables

ClaimsOn(t, tables) == \A l \in Claims(t) : Proper(l, tables)

Reach ==
  \A t \in Txns :
    \/ txn[t].pc \in {"idle", "ended"} /\ Claims(t) = {} /\ txn[t].seen = <<>>
    \/ txn[t].pc \in FindingSteps /\ ClaimsOn(t, FindingTables)
                                  /\ txn[t].level = "read committed"
    \/ txn[t].pc \in AssetSteps /\ ClaimsOn(t, AssetTables)
                                /\ txn[t].level = "repeatable read"
    \/ txn[t].pc \in RoleSteps /\ ClaimsOn(t, RoleTables)
                               /\ txn[t].level = "read committed"

Exclusive ==
  \A t, u \in Txns : t # u =>
    \A h \in txn[t].held, k \in txn[u].held : h[1] = k[1] => Compatible(h[2], k[2])

\* A row that is locked is there, a name that is taken is free.
HeldThere ==
  \A t \in Txns : \A l \in txn[t].held :
    l[1][1] \in Guarded => (Row(l[1]) = Absent <=> l[2] = "new")

\* At repeatable read a row locked for writing is as it was seen.
HeldAsSeen ==
  \A t \in Txns : \A l \in txn[t].held :
    /\ txn[t].level = "repeatable read"
    /\ l[2] \in {"nokey", "all"}
    /\ l[1][1] \in Snapshots
    /\ Seen(t, l[1]) # Absent
    => Row(l[1]) = Seen(t, l[1])

-----------------------------------------------------------------------------
\* The invariant: what each change of an asset or a definition claims.

InventoryOps == {"updateAsset", "addIdentifier", "updateIdentifier", "deleteIdentifier"}
AssetOps == InventoryOps \cup {"replaceAssignments", "replaceValues"}

\* The snapshot of an asset that was there.
Snapped(t) ==
  /\ txn[t].call \in Calls
  /\ txn[t].level = "repeatable read"
  /\ Seen(t, Asset(txn[t].call.asset)) # Absent

Owned(a, r, x) == \/ Custom(r) /\ r[2] = a
                  \/ r[1] = "asset_identifier" /\ x # Absent /\ x.asset = a

EditPlan(t) ==
  txn[t].pc \in {"edit", "write edit"} => txn[t].call.op \in Edits

CreationPlan(t) ==
  txn[t].pc = "create" =>
    txn[t].call \in Calls /\ txn[t].call.op = "create"

InventoryPlan(t) ==
  txn[t].pc \in InventoryOps =>
    LET c == txn[t].call
        i == Identifier(c.identifier)
    IN /\ Snapped(t)
       /\ c.op = txn[t].pc
       /\ <<Asset(c.asset), "nokey">> \in Claims(t)
       /\ c.op = "addIdentifier" => <<Asset(c.asset), "share">> \in Claims(t)
       /\ c.op \in {"updateIdentifier", "deleteIdentifier"} =>
            /\ Owned(c.asset, i, Seen(t, i))
            /\ <<i, IF c.op = "deleteIdentifier" THEN "all" ELSE "nokey">> \in Claims(t)

DeletionPlan(t) ==
  txn[t].pc \in {"deleteAsset", "erase asset"} =>
    LET a == txn[t].call.asset
    IN /\ Snapped(t)
       /\ <<Asset(a), "all">> \in Claims(t)
       /\ txn[t].pc = "erase asset" =>
            /\ <<Asset(a), "all">> \in txn[t].held
            /\ \A r \in Rows : Row(r) # Absent /\ Owned(a, r, Row(r)) => <<r, "all">> \in Claims(t)
       /\ \A l \in Claims(t) : l[2] = "all" =>
            \/ l[1] = Asset(a)
            \/ Custom(l[1]) /\ l[1][2] = a
            \/ /\ l[1][1] = "asset_identifier"
               /\ Seen(t, l[1]) # Absent
               /\ Row(l[1]) = Absent \/ Owned(a, l[1], Row(l[1]))

DefinitionPlan(t) ==
  txn[t].pc = "write definition" =>
    LET c == txn[t].call
    IN IF c.op = "createDefinition"
       THEN \A l \in Claims(t) : l[1][1] = "asset_custom_field_key"
       ELSE /\ \A l \in Claims(t) :
                 l[2] = "all" => l[1] = Field(c.field) \/ l[1][1] = "asset_custom_field_key"
            /\ txn[t].level = "repeatable read"
            /\ Seen(t, Field(c.field)) # Absent
            /\ <<Field(c.field), "nokey">> \in Claims(t) \/ <<Field(c.field), "all">> \in Claims(t)

SweepPlan(t) ==
  txn[t].pc \in {"deleteDefinition", "erase definition"} =>
    LET d == txn[t].call.field
    IN /\ txn[t].level = "repeatable read"
       /\ Seen(t, Field(d)) # Absent
       /\ <<Field(d), "all">> \in Claims(t)
       /\ txn[t].pc = "erase definition" =>
            /\ <<Field(d), "all">> \in txn[t].held
            /\ \A r \in Rows : Row(r) # Absent /\ Custom(r) /\ r[3] = d => <<r, "all">> \in Claims(t)
       /\ \A l \in Claims(t) : l[2] = "all" =>
            \/ l[1] = Field(d)
            \/ Custom(l[1]) /\ l[1][3] = d
            \/ l[1][1] = "asset_custom_field_key"

\* What it saw of a table with custom fields of its asset.
SawField(t, table, d) == Seen(t, <<table, txn[t].call.asset, d>>) # Absent

AssignmentsPlan(t) ==
  txn[t].pc = "replaceAssignments" =>
    LET c == txn[t].call
        a == c.asset
    IN /\ Snapped(t)
       /\ \A r \in DOMAIN txn[t].seen : Seen(t, r) # Absent /\ Custom(r) /\ r[2] = a =>
            <<r, "all">> \in Claims(t) \/ (r[1] = ValueTable /\ r[3] \in c.fields)
       /\ \A d \in c.fields :
            /\ SawField(t, AssignmentTable, d) \/ <<Assigned(a, d), "new">> \in Claims(t)
            /\ <<Field(d), "share">> \in Claims(t)
            /\ <<Asset(a), "share">> \in Claims(t)
       /\ \/ <<Asset(a), "nokey">> \in Claims(t)
          \/ /\ \A d \in c.fields : SawField(t, AssignmentTable, d)
             /\ \A r \in DOMAIN txn[t].seen :
                  Seen(t, r) # Absent /\ r[1] = AssignmentTable /\ r[2] = a => r[3] \in c.fields
       /\ \A l \in Claims(t) : l[2] = "all" =>
            /\ Seen(t, l[1]) # Absent /\ Custom(l[1]) /\ l[1][2] = a
            /\ l[1][1] = ValueTable => l[1][3] \notin c.fields

ValuesPlan(t) ==
  txn[t].pc = "replaceValues" =>
    LET c == txn[t].call
        a == c.asset
    IN /\ Snapped(t)
       /\ \A d \in Stored(c) : SawField(t, AssignmentTable, d)
       /\ \A r \in DOMAIN txn[t].seen : Seen(t, r) # Absent /\ r[1] = ValueTable /\ r[2] = a =>
            <<r, "all">> \in Claims(t)
       /\ \A d \in Stored(c) :
            /\ SawField(t, ValueTable, d) \/ <<Value(a, d), "new">> \in Claims(t)
            /\ <<Field(d), "share">> \in Claims(t)
            /\ <<Asset(a), "share">> \in Claims(t)
       /\ \/ <<Asset(a), "nokey">> \in Claims(t)
          \/ /\ \A d \in Stored(c) : /\ SawField(t, ValueTable, d)
                                     /\ Seen(t, Value(a, d)).data = c.values[d]
             /\ \A r \in DOMAIN txn[t].seen :
                  Seen(t, r) # Absent /\ r[1] = ValueTable /\ r[2] = a => r[3] \in Stored(c)
       /\ \A l \in Claims(t) : l[2] = "all" =>
            Seen(t, l[1]) # Absent /\ l[1][1] = ValueTable /\ l[1][2] = a

-----------------------------------------------------------------------------
\* The invariant: roles and users.

PermissionTable == "role_permission_assignment"
HoldsTable == "user_role_assignment"

References ==
  \A r \in Rows : Row(r) # Absent =>
    /\ r[1] = PermissionTable => Row(Role(r[2])) # Absent
    /\ r[1] = HoldsTable => Row(User(r[2])) # Absent

\* All rows that are to be replaced, or to go with their owner, are claimed.
AllClaimed(t, table, owner) ==
  \A r \in Rows : Row(r) # Absent /\ r[1] = table /\ r[2] = owner => <<r, "all">> \in Claims(t)

RolePlan(t) ==
  txn[t].pc \in {"replace permissions", "write role", "cascade role", "erase role"} =>
    LET role == RoleOf(t, txn[t].call)
    IN /\ txn[t].pc # "write role" => role = txn[t].call.role
       /\ txn[t].pc = "write role" =>
            \/ <<Role(role), "new">> \in Claims(t)
            \/ Holding(t, Role(role)) /\ AllClaimed(t, PermissionTable, role)
       /\ txn[t].pc = "erase role" =>
            Holding(t, Role(role)) /\ AllClaimed(t, PermissionTable, role)
       /\ \A l \in Claims(t) : l[2] = "all" =>
            \/ l[1] = Role(role)
            \/ l[1][1] = PermissionTable /\ l[1][2] = role
            \/ l[1][1] \in {"role_name", "user_session"}
            \/ l[1][1] = HoldsTable /\ txn[t].pc = "erase role"

UserPlan(t) ==
  txn[t].pc \in {"replace roles", "write user"} =>
    LET user == UserOf(t, txn[t].call)
    IN /\ txn[t].pc = "replace roles" => user = txn[t].call.user
       /\ txn[t].pc = "write user" =>
            \/ <<User(user), "new">> \in Claims(t)
            \/ Holding(t, User(user)) /\ AllClaimed(t, HoldsTable, user)
       /\ \A l \in Claims(t) : l[2] = "all" =>
            \/ l[1] = User(user)
            \/ l[1][1] = HoldsTable /\ l[1][2] = user
            \/ l[1][1] \in {"user_profile_email", "user_session"}

-----------------------------------------------------------------------------
\* The invariant: while the asset is as it was seen, so is what it owns, but for what
\* the deletion of a definition has swept.

Alike(x, y) == Content(x) = Content(y) /\ (x = Absent <=> y = Absent)
Swept(r) == Custom(r) /\ Row(r) = Absent /\ Row(Field(r[3])) = Absent

Chain(t) ==
  txn[t].pc \in AssetOps =>
    LET a == txn[t].call.asset
    IN Row(Asset(a)) = Seen(t, Asset(a)) =>
         \A r \in Rows :
           /\ Custom(r) /\ r[2] = a => Alike(Row(r), Seen(t, r)) \/ Swept(r)
           /\ Owned(a, r, Row(r)) \/ Owned(a, r, Seen(t, r)) =>
                Custom(r) \/ Row(r) = Seen(t, r)
Chained == \A t \in Txns : Chain(t)

\* A snapshot is of one asset, and has no value of a field that is not assigned.
SawAssigned(t) ==
  txn[t].pc \in AssetOps =>
    \A r \in DOMAIN txn[t].seen :
      /\ Custom(r) => r[2] = txn[t].call.asset
      /\ Seen(t, r) # Absent /\ r[1] = ValueTable => Seen(t, Assigned(r[2], r[3])) # Absent
SeenAssigned == \A t \in Txns : SawAssigned(t)

\* A custom field row of an asset that is not the one that was seen is of nobody
\* whose rows of that asset were seen.
Marks(t) ==
  txn[t].pc \in {"replaceAssignments", "replaceValues"} =>
    \A r \in Rows, q \in DOMAIN txn[t].seen :
      /\ Custom(r) /\ Custom(q) /\ r[2] = q[2]
      /\ Row(r) # Absent /\ Row(r) # Seen(t, r)
      /\ Seen(t, q) # Absent
      => Row(r).stamp # Seen(t, q).stamp
Marked == \A t \in Txns : Marks(t)

-----------------------------------------------------------------------------
\* The invariant: rows of findings and of vulnerabilities.

\* What belongs to a finding: a row by its name and its content.
Belongs(f, r, x) ==
  \/ r = Finding(f)
  \/ r[1] = "observation" /\ x # Absent /\ x.finding = f
  \/ r[1] = "finding_vulnerability" /\ x # Absent /\ r[2] = f

LinkTable == "finding_vulnerability"

\* No row has an id that a transaction may still generate, or refers to one.
Foreign(t, r) ==
  /\ r[1] \in {"finding", "vulnerability", LinkTable} => r[2] # t
  /\ r[1] = LinkTable => r[3] # t
  /\ \A f \in NewParents : r # NewObservation(t, f)

Unborn ==
  \A t \in Txns : txn[t].pc # "ended" =>
    \A r \in Rows : Row(r) # Absent =>
      Foreign(t, r) /\ (r[1] = "finding" => Row(r).stamp # t)

Shaped ==
  \A r \in Rows : Row(r) # Absent /\ r[1] = "finding" =>
    Row(r) = [asset |-> Row(r).asset, stamp |-> Row(r).stamp]

\* A finding or a vulnerability that is locked is there.
Standing ==
  \A t \in Txns : \A l \in txn[t].held :
    l[1][1] \in {"finding", "vulnerability"} => Row(l[1]) # Absent

-----------------------------------------------------------------------------
\* The invariant: what each change of a finding claims, and what an edit has seen.

EditClaims(t) ==
  txn[t].pc \in {"edit", "write edit"} =>
    txn[t].call \in Calls /\ \A l \in Claims(t) : l[2] = "all"

CreatedClaims(t) ==
  txn[t].pc = "createManual" =>
    \A v \in txn[t].call.vulnerabilities : <<Vulnerability(v), "share">> \in Claims(t)

LinkClaims(t) ==
  /\ txn[t].pc = "unlinkVulnerability" => txn[t].call.op = txn[t].pc
  /\ txn[t].pc = "touch" /\ txn[t].call.op = "linkVulnerability" =>
       <<Vulnerability(txn[t].call.vulnerability), "share">> \in Claims(t)

CatalogClaims(t) ==
  txn[t].pc \in {"unlink all", "rename vulnerability", "write vulnerability"} =>
    LET c == txn[t].call
    IN /\ txn[t].pc = "unlink all" => c.op = "deleteVulnerability"
       /\ txn[t].pc = "rename vulnerability" => c.op = "updateVulnerability"
       /\ \A l \in Claims(t) :
            \/ l[1] = Vulnerability(c.vulnerability)
            \/ l[1][1] = "vulnerability_key"
            \/ /\ c.op = "deleteVulnerability"
               /\ l[1][1] = LinkTable /\ l[1][3] = c.vulnerability
       /\ c.op = "deleteVulnerability" => \A l \in Claims(t) : l[2] = "all"

RecordClaims(t) ==
  txn[t].pc \in {"lock plan", "record"} =>
    txn[t].call \in Calls /\ txn[t].call.op = "record"

\* Its findings are as they were seen, but for links to deleted vulnerabilities,
\* and nothing was added to them.
SeenOfEdit(t) ==
  txn[t].pc = "write edit" =>
    LET c == txn[t].call
        o == Observation(c.observation)
    IN /\ \A f \in Parents(c) : <<Finding(f), "all">> \in txn[t].held
       /\ c.op \in {"updateObservation", "deleteObservation", "moveObservation"} =>
            Belongs(c.finding, o, Seen(t, o))
       /\ \A r \in DOMAIN txn[t].seen :
            /\ r[1] = "vulnerability" \/ \E f \in Parents(c) : Belongs(f, r, Seen(t, r))
            /\ Row(r) = Seen(t, r) \/ ByCatalog(r)
            /\ r[1] = LinkTable => \A u \in Txns : txn[u].pc # "ended" => r[3] # u
       /\ \A f \in Parents(c) : \A r \in Rows :
            Belongs(f, r, Row(r)) => r \in DOMAIN txn[t].seen

FindingPlan(t) ==
  /\ EditClaims(t) /\ CreatedClaims(t) /\ LinkClaims(t) /\ CatalogClaims(t) /\ RecordClaims(t)
  /\ SeenOfEdit(t)

FInv == Unborn /\ Shaped /\ Standing /\ \A t \in Txns : FindingPlan(t)

-----------------------------------------------------------------------------
\* The order of locks. Each lock has a stage at which a call waits for it and one that
\* a call which holds it has passed; findings of one stage are taken in the order of
\* their ids. A call takes its locks at later stages than those it holds; and what it
\* waits for is held by a call that has passed that stage.

Exempt == Deletions \cup AsNamed \cup Renaming

Early == {"ingestion", "finding_vulnerability", "asset_identifier", "user_profile"}

WaitStage(op, l) ==
  LET table == l[1][1]
      shared == l[2] = "share"
  IN CASE table \in Early -> 0
       [] table \in {"asset_identifier_key", "user_profile_username"} -> 1
       [] table = "user_profile_email" -> 2
       [] table = "role" -> IF shared THEN 3 ELSE 0
       [] table = "role_name" -> 4
       [] table = "finding" -> IF l[2] = "nokey" /\ op # "unlinkVulnerability" THEN 5 ELSE 3
       [] table = "vulnerability" -> IF shared THEN 4 ELSE 3
       [] table = "asset" -> IF shared THEN 2 ELSE 6
       [] OTHER -> 7

\* A call that holds the last lock it takes is past every stage.
HoldStage(l) ==
  LET table == l[1][1]
      shared == l[2] = "share"
  IN CASE table \in Early \cup {PermissionTable} -> 0
       [] table \in {"asset_identifier_key", "user_profile_username"} -> 1
       [] table = "user_profile_email" -> 2
       [] table = "role" -> IF shared THEN 0 ELSE 3
       [] table = "role_name" -> 4
       [] table = "finding" -> IF l[2] = "nokey" THEN 8 ELSE 3
       [] table = "vulnerability" -> IF shared THEN 3 ELSE 8
       [] table = "asset" -> IF shared THEN 0 ELSE 8
       [] OTHER -> 8

Number(l) == IF l[1][1] = "finding" THEN l[1][2] ELSE 0
Before(a, m, b, n) == a < b \/ (a = b /\ m < n)

\* The lock h, once held, comes before the lock l of a call.
Precedes(op, h, l) == Before(HoldStage(h), Number(h), WaitStage(op, l), Number(l))

-----------------------------------------------------------------------------
\* The invariant.

Usual(l) ==
  /\ l[1][1] # HoldsTable
  /\ l[1][1] = "asset" => l[2] \in {"share", "nokey"}
  /\ l[1][1] = "finding" => l[2] \in {"share", "nokey", "all"} /\ l[1][2] \in Nat

InLine(op, todo) ==
  /\ DOMAIN todo \subseteq Nat
  /\ \A i, j \in DOMAIN todo : \A l \in todo[i], m \in todo[j] :
       i < j \/ (i = j /\ l # m) => Precedes(op, l, m)

\* The locks of an ordinary call: those it holds come before those it is to take,
\* and these before each other; it gives permissions only to a role it creates; only
\* an unlinking call writes a finding it has not shared.
Orderly(t) ==
  LET op == txn[t].call.op
  IN txn[t].pc \notin {"idle", "ended"} /\ op \notin Exempt =>
       /\ \A l \in Claims(t) : Usual(l)
       /\ InLine(op, txn[t].todo)
       /\ \A h \in txn[t].held, l \in Left(t) : Precedes(op, h, l)
       /\ \A l \in Claims(t) : l[1][1] = PermissionTable => l[1][2] = t
       /\ op # "unlinkVulnerability" =>
            \A l \in Claims(t) :
              l[1][1] = "finding" /\ l[2] = "nokey" => <<l[1], "share">> \in Claims(t)

\* What the first statements have taken when a call goes on.
Opened(t) ==
  LET c == txn[t].call
      pc == txn[t].pc
  IN /\ pc \in {"unlink all", "deleteAsset", "deleteDefinition", "cascade role",
                "rename vulnerability", "replace permissions", "replace roles"} =>
          c.op \in Exempt
     /\ pc \in {"linkVulnerability", "unlinkVulnerability"} =>
          c \in Calls /\ c.op = pc /\ \A l \in Claims(t) : l[1][1] = "finding_vulnerability"
     /\ pc = "lock plan" =>
          c \in Calls /\ c.op = "record" /\ \A l \in Claims(t) : l[1][1] = "ingestion"

\* Calls come one by one: at no time are more than finitely many under way.
UnderWay == {t \in Txns : txn[t].pc \notin {"idle", "ended"}}

Ordered == IsFiniteSet(UnderWay) /\ \A t \in Txns : Orderly(t) /\ Opened(t)
=============================================================================
