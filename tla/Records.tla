------------------------------- MODULE Records -------------------------------
(***************************************************************************)
(* The records of the system under concurrent calls: the transactions of   *)
(* FindingRecords, AssetRecords and RoleRecords over one database.         *)
(***************************************************************************)
EXTENDS FindingRecords, AssetRecords, RoleRecords

Triples == {"asset_custom_field_assignment", "asset_custom_field_value",
            "finding_vulnerability", "role_permission_assignment",
            "user_role_assignment"}
Replaced == Triples \ {"finding_vulnerability"}

\* The keys that calls give to new identifiers.
NewKeys == (UNION {c.keys : c \in {x \in Calls : x.op = "create"}})
             \cup {c.key : c \in {x \in Calls : x.op = "addIdentifier"}}

\* The findings to which they add observations.
NewParents == Txns \cup {c.finding : c \in {x \in Calls : x.op = "createManualObservation"}}
                   \cup (UNION {c.findings : c \in {x \in Calls : x.op = "record"}})

\* The tables are as earlier calls leave them: names are those of RowStore, rows
\* that refer to others find them, nothing is of a transaction yet to come.
Consistent(rows) ==
  LET there == {r \in DOMAIN rows : rows[r] # Absent}
  IN /\ \A r \in DOMAIN rows :
          r = IF r[1] \in Triples THEN <<r[1], r[2], r[3]>> ELSE <<r[1], r[2]>>
     /\ \A r \in there : /\ rows[r].stamp \notin Txns
                         /\ r[2] \notin Txns
                         /\ r[1] \in Triples => r[3] \notin Txns
                         /\ r \notin {NewIdentifier(t, k) : t \in Txns, k \in NewKeys}
                         /\ r \notin {NewObservation(t, f) : t \in Txns, f \in NewParents}
     /\ \A r \in there :
          /\ r[1] = "finding" => rows[r] = [asset |-> rows[r].asset, stamp |-> rows[r].stamp]
          /\ r[1] = "asset_custom_field_assignment" => rows[r] = [stamp |-> rows[r].stamp]
          /\ r[1] = "asset_custom_field_value" =>
               rows[r] = [data |-> rows[r].data, stamp |-> rows[r].stamp]
     /\ \A r \in there :
          CASE r[1] = "asset_custom_field_value" -> Assigned(r[2], r[3]) \in there
            [] r[1] = "role_permission_assignment" -> Role(r[2]) \in there
            [] r[1] = "user_role_assignment" -> User(r[2]) \in there
            [] OTHER -> TRUE
     /\ \A x, y \in there : /\ x[1] \in Replaced
                            /\ y[1] = x[1]
                            /\ y[2] = x[2]
                            => rows[x].stamp = rows[y].stamp

ASSUME WorldsAreConsistent == \A w \in Worlds : Consistent(w)

\* The ids of findings that calls lock are numbers, after that of the asset of a plan.
ASSUME FindingsAreNumbered ==
  \A c \in Calls :
    /\ c.op \in Edits => Parents(c) \subseteq Nat \ {0}
    /\ c.op \in {"linkVulnerability", "unlinkVulnerability"} => c.finding \in Nat \ {0}
    /\ c.op = "record" => c.findings \subseteq Nat \ {0}

Init ==
  /\ db \in Worlds
  /\ txn = [t \in Txns |-> Idle]

Begin(t) ==
  /\ txn[t].pc = "idle"
  /\ \E c \in Calls : \/ StartFindingCall(t, c)
                      \/ StartAssetCall(t, c)
                      \/ StartRoleCall(t, c)

Next ==
  \E t \in Txns :
    \/ Begin(t)
    \/ Lock(t)
    \/ FindingStep(t)
    \/ AssetStep(t)
    \/ RoleStep(t)
    \/ Fail(t)

Spec == Init /\ [][Next]_vars

-----------------------------------------------------------------------------
(***************************************************************************)
(* Outcomes                                                                *)
(***************************************************************************)

\* A row in which a call on a catalog may show: an entry itself, the link to a
\* deleted vulnerability, the use of a deleted definition.
Catalogs == {"vulnerability", "asset_custom_field"}

ByCatalog(r) ==
  \/ r[1] \in Catalogs
  \/ r[1] = "finding_vulnerability" /\ ~Present(Vulnerability(r[3]))
  \/ /\ r[1] \in {"asset_custom_field_assignment", "asset_custom_field_value"}
     /\ ~Present(Field(r[3]))

\* Finding events and asset events form a chain: the previous state that a call
\* reports is the one the last call left, although an edit of a finding reads it
\* at read committed and a change of an asset before it holds any lock.  Only the
\* catalogs of vulnerabilities and of definitions come between: what the linked
\* or assigned entries say is part of the events, but calls on a catalog take no
\* lock on what refers to it, and a deletion takes links or uses with it.
OutcomesChain ==
  \A t \in Txns :
    /\ Ready(t, "write edit") =>
         \A f \in Parents(txn[t].call) :
           /\ \A r \in DOMAIN txn[t].seen : db[r] = txn[t].seen[r] \/ ByCatalog(r)
           /\ Of(f) \subseteq DOMAIN txn[t].seen
    /\ \A op \in {"updateAsset", "addIdentifier", "updateIdentifier", "deleteIdentifier",
                  "replaceAssignments", "replaceValues"} :
         Ready(t, op) /\ Holding(t, Asset(txn[t].call.asset)) =>
           LET seen == txn[t].seen
               a == txn[t].call.asset
               own == OwnRows(a) \cup {r \in DOMAIN seen :
                        r[1] = "asset_identifier" /\ seen[r] # Absent /\ seen[r].asset = a}
                      \cup {r \in DOMAIN seen :
                        r[1] \in {"asset_custom_field_assignment", "asset_custom_field_value",
                                  "asset_custom_field"}}
           IN \A r \in own : Content(db[r]) = Content(seen[r]) \/ ByCatalog(r)

\* A change of what belongs to a finding or to an asset shows in its audit
\* columns, of both findings for a move, unless a cascade made it.  Whoever writes
\* an observation, a link or an identifier again, with its own mark and nothing
\* else that is new, changes it; a replacement of custom fields that stores what
\* was there does not.
Parts(rows, owner) ==
  [r \in {x \in DOMAIN rows : /\ rows[x] # Absent
                              /\ \/ x[1] = "observation" /\ Finding(rows[x].finding) = owner
                                 \/ x[1] = "asset_identifier" /\ Asset(rows[x].asset) = owner
                                 \/ x[1] = "finding_vulnerability" /\ Finding(x[2]) = owner
                                 \/ /\ x[1] \in {"asset_custom_field_assignment",
                                                 "asset_custom_field_value"}
                                    /\ Asset(x[2]) = owner}
     |-> IF r[1] \in Replaced THEN Content(rows[r]) ELSE rows[r]]

Cascaded == \E r \in Rows : /\ r[1] \in Catalogs
                            /\ Present(r) /\ db'[r] = Absent

Touching ==
  \A r \in Table("finding") \cup Table("asset") :
    \/ db'[r] = Absent
    \/ Cascaded
    \/ Parts(db, r) = Parts(db', r)
    \/ db'[r].stamp # db[r].stamp

ChangesAreTouched == [][Touching]_vars

-----------------------------------------------------------------------------
(***************************************************************************)
(* Consistency                                                             *)
(***************************************************************************)

\* A stored value belongs to an assigned field: nothing in the schema says so,
\* and of a call that detaches the field and one that stores a value, each
\* reading the asset as it was before the other, one must not come through.
StoredValuesAreAssigned ==
  \A r \in Table("asset_custom_field_value") : Present(Assigned(r[2], r[3]))

\* The permissions of a role, the roles of a user, the fields of an asset and
\* its values are what one call gave it, never a mixture of two.
ReplacementsAreWhole ==
  \A name \in Replaced : \A x, y \in Table(name) : x[2] = y[2] => db[x].stamp = db[y].stamp

-----------------------------------------------------------------------------
(***************************************************************************)
(* Deadlocks                                                               *)
(***************************************************************************)

\* Deletions take the parent before the rows they cascade to, which others
\* change before the parent.  A call that inserts several keys inserts them in the
\* order in which it names them.  Two calls may each give a record the key that the
\* other's record has: identifiers, roles by their names, users by their e-mails,
\* vulnerabilities and definitions; an update of a role also ends the sessions of
\* several users, in any order.
Deletions == {"deleteByID", "deleteVulnerability", "deleteAsset", "deleteDefinition",
              "deleteRole"}
AsNamed == {"create", "replaceAssignments", "replaceValues"}
Renaming == {"updateIdentifier", "updateRole", "updateUser", "updateVulnerability",
             "updateDefinition"}

\* The locks are ordered: transactions that wait for one another include a
\* deletion, an insert of several keys or an update that may change one.  Moves,
\* edits, links, recorded plans, added and deleted identifiers, updated assets, and
\* created findings, vulnerabilities, definitions, roles and users never do among
\* themselves.
OrderedLocks ==
  \A ts \in SUBSET Txns :
    Entangled(ts) => \E t \in ts : txn[t].call.op \in Deletions \cup AsNamed \cup Renaming
=============================================================================
