---------------------------- MODULE AssetRecords ----------------------------
(***************************************************************************)
(* The asset inventory and its custom fields as transactions:              *)
(* packages/backend/src/features/assets.  All run at repeatable read: the  *)
(* first statement reads the asset's snapshot, which decides what the call *)
(* does, and a row changed since then cannot be written any more.          *)
(*                                                                         *)
(* A definition holds the values it allows, a value its data; types,       *)
(* options and the rules for definitions are left out.  A generated id is  *)
(* the transaction that generates it.                                      *)
(*                                                                         *)
(* A definition whose name ends in Slip is the one after it with a mistake;*)
(* the specification does not use it.                                      *)
(***************************************************************************)
EXTENDS RowStore

Identifiers(a) == {r \in Table("asset_identifier") : db[r].asset = a}
Assignments(a) == {r \in Table("asset_custom_field_assignment") : r[2] = a}
Values(a) == {r \in Table("asset_custom_field_value") : r[2] = a}

\* What a call on an asset reads: its rows, there or not, with all identifiers
\* and definitions.
Snapshot(a) ==
  {r \in Rows : \/ r = Asset(a)
                \/ r[1] \in {"asset_identifier", "asset_custom_field"}
                \/ /\ r[1] \in {"asset_custom_field_assignment",
                                "asset_custom_field_value"}
                   /\ r[2] = a}

AssignedFields(a) == {r[3] : r \in Assignments(a)}

\* updateAssetAudit, at the end of each change.
AuditLock(a) == {<<Asset(a), "nokey">>}
Audited(t, a) == Put(Asset(a), [stamp |-> t])

NewIdentifier(t, k) == Identifier(<<t, k>>)

\* A call on an asset that is there, and passes its checks.
OpenFor(t, c, ok, locks) ==
  IF Present(Asset(c.asset)) /\ ok
  THEN OpenRepeatable(t, c, c.op, locks, Snapshot(c.asset))
  ELSE Rollback(t)

-----------------------------------------------------------------------------
(***************************************************************************)
(* Assets and their identifiers.  An identifier's key is unique.           *)
(***************************************************************************)

CreateAsset(t, c) ==
  /\ c.op = "create"
  /\ Known(Asset(t))
  /\ OpenRepeatable(t, c, c.op, <<Locks({Key(k) : k \in c.keys}, "new")>>, {})

WriteAsset(t) ==
  /\ Ready(t, "create")
  /\ LET keys == txn[t].call.keys
     IN Commit(t, [r \in {Key(k) : k \in keys} |-> [stamp |-> t]]
                   ++ [r \in {NewIdentifier(t, k) : k \in keys} |->
                         [asset |-> t, key |-> r[2][2], stamp |-> t]]
                   ++ Audited(t, t))

\* An update that changes nothing writes nothing.
UpdateAsset(t, c) ==
  /\ c.op = "updateAsset"
  /\ Known(Asset(c.asset))
  /\ OpenFor(t, c, c.changes, <<AuditLock(c.asset)>>)

AddIdentifier(t, c) ==
  /\ c.op = "addIdentifier"
  /\ Known(Asset(c.asset))
  /\ OpenFor(t, c, TRUE, <<Locks({Key(c.key)}, "new"),
                           Locks({Asset(c.asset)}, "share"),
                           AuditLock(c.asset)>>)

\* The index entry of the old key is freed with the commit.
UpdateIdentifier(t, c) ==
  /\ c.op = "updateIdentifier"
  /\ Known(Asset(c.asset))
  /\ LET i == Identifier(c.identifier)
     IN OpenFor(t, c, i \in Identifiers(c.asset) /\ db[i].key # c.key,
                <<{<<i, "nokey">>}, {<<Key(db[i].key), "all">>},
                  {<<Key(c.key), "new">>}, AuditLock(c.asset)>>)

DeleteIdentifier(t, c) ==
  /\ c.op = "deleteIdentifier"
  /\ Known(Asset(c.asset))
  /\ LET i == Identifier(c.identifier)
     IN OpenFor(t, c, i \in Identifiers(c.asset),
                <<{<<i, "all">>}, {<<Key(db[i].key), "all">>}, AuditLock(c.asset)>>)

WriteInventory(t) ==
  \E op \in {"updateAsset", "addIdentifier", "updateIdentifier", "deleteIdentifier"} :
    /\ Ready(t, op)
    /\ LET c == txn[t].call
           i == IF op = "addIdentifier" THEN NewIdentifier(t, c.key)
                                        ELSE Identifier(c.identifier)
           freed == IF op = "addIdentifier" THEN {} ELSE {Key(txn[t].seen[i].key)}
           named == Put(i, [asset |-> c.asset, key |-> c.key, stamp |-> t])
                      ++ Put(Key(c.key), [stamp |-> t])
       IN Commit(t, Audited(t, c.asset)
                     ++ (CASE op = "updateAsset" -> Erased({})
                           [] op = "deleteIdentifier" -> Erased({i} \cup freed)
                           [] OTHER -> named ++ Erased(freed)))

\* Findings keep an asset from being deleted: the snapshot is asked first, the
\* foreign key in the end.
Referring(a) == {r \in Table("finding") : db[r].asset = a}

DeleteAsset(t, c) ==
  /\ c.op = "deleteAsset"
  /\ Known(Asset(c.asset))
  /\ OpenFor(t, c, Referring(c.asset) = {}, <<Locks({Asset(c.asset)}, "all")>>)

\* Cascading to a row that the snapshot lacks is refused.
OwnRows(a) == Identifiers(a) \cup Assignments(a) \cup Values(a)
InSnapshot(t, rows) ==
  \A r \in rows : r \in DOMAIN txn[t].seen /\ txn[t].seen[r] # Absent

CascadeAsset(t) ==
  /\ Ready(t, "deleteAsset")
  /\ LET a == txn[t].call.asset
     IN IF Holding(t, Asset(a)) /\ Referring(a) = {} /\ InSnapshot(t, OwnRows(a))
        THEN Advance(t, "erase asset", <<Locks(OwnRows(a), "all")>>)
        ELSE Rollback(t)

EraseAsset(t) ==
  /\ Ready(t, "erase asset")
  /\ LET a == txn[t].call.asset
     IN Commit(t, Erased(Locked(t)
                           \cup {Key(db[i].key) : i \in Locked(t) \cap Identifiers(a)}))

-----------------------------------------------------------------------------
(***************************************************************************)
(* Definitions of custom fields.  Their keys are unique.  Stored values are*)
(* not checked against a changed definition; a deletion cascades to        *)
(* assignments and values.                                                 *)
(***************************************************************************)

CreateDefinition(t, c) ==
  /\ c.op = "createDefinition"
  /\ Known(Field(t))
  /\ OpenRepeatable(t, c, "write definition", <<{<<FieldKey(c.key), "new">>}>>, {})

UpdateDefinition(t, c) ==
  /\ c.op = "updateDefinition"
  /\ Known(Field(c.field))
  /\ IF Present(Field(c.field))
     THEN \E mode \in UpdateModes :
            OpenRepeatable(t, c, "write definition",
                           <<{<<Field(c.field), mode>>}, Freed(FieldKey(c.key), c.field),
                             Claimed(FieldKey(c.key), c.field)>>,
                           {Field(c.field)})
     ELSE Rollback(t)

WriteDefinition(t) ==
  /\ Ready(t, "write definition")
  /\ LET c == txn[t].call
         d == IF c.op = "createDefinition" THEN t ELSE c.field
     IN Commit(t, Put(Field(d), [allows |-> c.allows, stamp |-> t])
                   ++ Put(FieldKey(c.key), Entry(d, t))
                   ++ Erased(Locked(t)))

UsesOf(d) == {r \in Table("asset_custom_field_assignment")
                      \cup Table("asset_custom_field_value") : r[3] = d}

DeleteDefinition(t, c) ==
  /\ c.op = "deleteDefinition"
  /\ Known(Field(c.field))
  /\ IF Present(Field(c.field))
     THEN OpenRepeatable(t, c, c.op, <<Locks({Field(c.field)}, "all")>>,
                         {r \in Rows : r = Field(c.field)
                                         \/ /\ r[1] \in {"asset_custom_field_assignment",
                                                         "asset_custom_field_value"}
                                            /\ r[3] = c.field})
     ELSE Rollback(t)

CascadeDefinition(t) ==
  /\ Ready(t, "deleteDefinition")
  /\ LET d == txn[t].call.field
     IN IF InSnapshot(t, UsesOf(d))
        THEN Advance(t, "erase definition",
                     <<Locks(Entries("asset_custom_field_key", d) \cup UsesOf(d), "all")>>)
        ELSE Rollback(t)

EraseDefinition(t) ==
  /\ Ready(t, "erase definition")
  /\ Commit(t, Erased(Locked(t)))

-----------------------------------------------------------------------------
(***************************************************************************)
(* The fields of an asset and their values are replaced as a whole: values *)
(* of detached fields and all assignments are deleted, then the new ones   *)
(* inserted.  The asset is touched only if its effective values change.    *)
(***************************************************************************)

ReplaceAssignmentsLocksSlip(c) ==
  <<Locks(Values(c.asset) \ {Value(c.asset, d) : d \in c.fields}, "all"),
    Locks(Assignments(c.asset), "all"),
    Locks({Assigned(c.asset, d) : d \in c.fields} \ Assignments(c.asset), "new")>>
ReplaceAssignmentsLocks(c) ==
  <<Locks(Values(c.asset) \ {Value(c.asset, d) : d \in c.fields}, "all"),
    Locks(Assignments(c.asset), "all"),
    Locks({Assigned(c.asset, d) : d \in c.fields} \ Assignments(c.asset), "new"),
    IF c.fields = {} THEN {}
    ELSE Locks({Asset(c.asset)} \cup {Field(d) : d \in c.fields}, "share"),
    IF AssignedFields(c.asset) = c.fields THEN {} ELSE AuditLock(c.asset)>>

ReplaceAssignments(t, c) ==
  /\ c.op = "replaceAssignments"
  /\ Known(Asset(c.asset))
  /\ OpenFor(t, c, \A d \in c.fields : Present(Field(d)), ReplaceAssignmentsLocks(c))

\* c.values gives each field its data, or None to clear it.
Stored(c) == {d \in DOMAIN c.values : c.values[d] # None}
SameValues(c) ==
  /\ Values(c.asset) = {Value(c.asset, d) : d \in Stored(c)}
  /\ \A d \in Stored(c) : db[Value(c.asset, d)].data = c.values[d]

ReplaceValuesLocks(c) ==
  <<Locks(Values(c.asset), "all"),
    Locks({Value(c.asset, d) : d \in Stored(c)} \ Values(c.asset), "new"),
    IF Stored(c) = {} THEN {}
    ELSE Locks({Asset(c.asset)} \cup {Field(d) : d \in Stored(c)}, "share"),
    IF SameValues(c) THEN {} ELSE AuditLock(c.asset)>>

\* Every assigned field is submitted, no other is, and with data it allows.
ReplaceValues(t, c) ==
  /\ c.op = "replaceValues"
  /\ Known(Asset(c.asset))
  /\ OpenFor(t, c, /\ DOMAIN c.values = AssignedFields(c.asset)
                   /\ \A d \in Stored(c) : c.values[d] \in db[Field(d)].allows,
             ReplaceValuesLocks(c))

\* The audit columns are written when the lock for them was taken.
MaybeAudited(t, a) == IF Holding(t, Asset(a)) THEN Audited(t, a) ELSE Erased({})

WriteAssignments(t) ==
  /\ Ready(t, "replaceAssignments")
  /\ LET c == txn[t].call
     IN Commit(t, [r \in {Assigned(c.asset, d) : d \in c.fields} |-> [stamp |-> t]]
                   ++ Erased(Locked(t))
                   ++ MaybeAudited(t, c.asset))

WriteValues(t) ==
  /\ Ready(t, "replaceValues")
  /\ LET c == txn[t].call
     IN Commit(t, [r \in {Value(c.asset, d) : d \in Stored(c)} |->
                     [data |-> c.values[r[3]], stamp |-> t]]
                   ++ Erased(Locked(t))
                   ++ MaybeAudited(t, c.asset))

-----------------------------------------------------------------------------
StartAssetCall(t, c) ==
  \/ CreateAsset(t, c)
  \/ UpdateAsset(t, c)
  \/ AddIdentifier(t, c)
  \/ UpdateIdentifier(t, c)
  \/ DeleteIdentifier(t, c)
  \/ DeleteAsset(t, c)
  \/ CreateDefinition(t, c)
  \/ UpdateDefinition(t, c)
  \/ DeleteDefinition(t, c)
  \/ ReplaceAssignments(t, c)
  \/ ReplaceValues(t, c)

AssetStep(t) ==
  \/ WriteAsset(t)
  \/ WriteInventory(t)
  \/ CascadeAsset(t)
  \/ EraseAsset(t)
  \/ WriteDefinition(t)
  \/ CascadeDefinition(t)
  \/ EraseDefinition(t)
  \/ WriteAssignments(t)
  \/ WriteValues(t)
=============================================================================
