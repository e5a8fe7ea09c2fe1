------------------------------ MODULE RowStore ------------------------------
(***************************************************************************)
(* What the record features rely on in PostgreSQL: rows, row locks and     *)
(* transactions at read committed and repeatable read.                     *)
(*                                                                         *)
(* A write is seen by others when its transaction commits, and until then  *)
(* its lock keeps them off the row; so a transaction takes its locks one   *)
(* by one, in the order of its statements, and writes when it commits.     *)
(* Rolling back leaves no trace: every refusal and every error is a        *)
(* rollback here.  A transaction makes one call.                           *)
(***************************************************************************)
EXTENDS Naturals

CONSTANTS
  Txns,      \* the transactions; each serves one call
  Calls,     \* the calls they may be asked to make, as records
  Worlds,    \* the contents the tables may start with
  None       \* nobody, no value

VARIABLES
  db,        \* the committed rows: a function from row names to contents
  txn        \* the state of each transaction

vars == <<db, txn>>

\* Row names.  An entry of a unique index is a row of its own, by the name that no
\* two rows of the index may have.
Ingestion(i) == <<"ingestion", i>>
Asset(a) == <<"asset", a>>
Identifier(i) == <<"asset_identifier", i>>
Key(k) == <<"asset_identifier_key", k>>
Field(d) == <<"asset_custom_field", d>>
FieldKey(k) == <<"asset_custom_field_key", k>>
Assigned(a, d) == <<"asset_custom_field_assignment", a, d>>
Value(a, d) == <<"asset_custom_field_value", a, d>>
Finding(f) == <<"finding", f>>
Observation(o) == <<"observation", o>>
Link(f, v) == <<"finding_vulnerability", f, v>>
Vulnerability(v) == <<"vulnerability", v>>
VulnerabilityKey(k) == <<"vulnerability_key", k>>
Role(r) == <<"role", r>>
RoleName(n) == <<"role_name", n>>
Permission(r, p) == <<"role_permission_assignment", r, p>>
User(u) == <<"user_profile", u>>
Username(n) == <<"user_profile_username", n>>
Email(e) == <<"user_profile_email", e>>
Holds(u, r) == <<"user_role_assignment", u, r>>
Session(s) == <<"user_session", s>>

\* A row that is not there has no columns.
Absent == <<>>

Rows == DOMAIN db
Known(r) == r \in Rows
Present(r) == Known(r) /\ db[r] # Absent

\* The rows of a table that are there, by its name.
Table(name) == {r \in Rows : r[1] = name /\ Present(r)}

\* The entries of an index for the row with an id: one, when the row is there.
Entries(index, x) == {r \in Table(index) : db[r].of = x}
Entry(x, t) == [of |-> x, stamp |-> t]

\* A row without the mark of its last writer.
Content(x) == IF x = Absent THEN x ELSE [x EXCEPT !.stamp = None]

-----------------------------------------------------------------------------
(***************************************************************************)
(* Transactions.  pc says which statement comes next, todo which locks it  *)
(* takes first: sets of locks under numbers, which are taken in the order  *)
(* of their numbers, and those of one set in any order.                    *)
(***************************************************************************)

Idle == [pc |-> "idle", call |-> None, level |-> "read committed",
         todo |-> <<>>, held |-> {}, seen |-> <<>>]
Ended == [Idle EXCEPT !.pc = "ended"]

\* A function of one row, and two functions of which the first prevails.
Put(r, x) == [q \in {r} |-> x]
f ++ g == [r \in DOMAIN f \cup DOMAIN g |-> IF r \in DOMAIN f THEN f[r] ELSE g[r]]

Restricted(rows) == [r \in rows |-> db[r]]
Locks(rows, mode) == {<<r, mode>> : r \in rows}

Open(t, c, pc, locks) ==
  /\ txn' = [txn EXCEPT ![t] = [Idle EXCEPT !.pc = pc, !.call = c, !.todo = locks]]
  /\ UNCHANGED db

\* At read committed the rows that the first statements read decide later ones.
OpenReading(t, c, pc, locks, scope) ==
  /\ txn' = [txn EXCEPT ![t] = [Idle EXCEPT !.pc = pc, !.call = c, !.todo = locks,
                                            !.seen = Restricted(scope)]]
  /\ UNCHANGED db

\* At repeatable read the first statement fixes what all later ones see.
OpenRepeatable(t, c, pc, locks, scope) ==
  /\ txn' = [txn EXCEPT ![t] = [Idle EXCEPT !.pc = pc, !.call = c, !.todo = locks,
                                            !.level = "repeatable read",
                                            !.seen = Restricted(scope)]]
  /\ UNCHANGED db

Advance(t, pc, locks) ==
  /\ txn' = [txn EXCEPT ![t].pc = pc, ![t].todo = locks]
  /\ UNCHANGED db

Rollback(t) == txn' = [txn EXCEPT ![t] = Ended] /\ UNCHANGED db

Erased(rows) == [r \in rows |-> Absent]

Commit(t, writes) ==
  /\ db' = writes ++ db
  /\ txn' = [txn EXCEPT ![t] = Ended]

\* The locks that are left to take, and those of them that are next.
Left(t) == UNION {txn[t].todo[i] : i \in DOMAIN txn[t].todo}
IsNext(t, i) == \A j \in DOMAIN txn[t].todo : j < i => txn[t].todo[j] = {}
Turn(t) == UNION {txn[t].todo[i] : i \in {j \in DOMAIN txn[t].todo : IsNext(t, j)}}

Ready(t, pc) == txn[t].pc = pc /\ Left(t) = {}

\* An update that finds other values in indexed columns locks the row as "all"; it
\* frees the row's old entry in the index, and inserts a new one.  What it finds is
\* what is there when it has the row, so a call may ask for either mode.
UpdateModes == {"nokey", "all"}
Freed(entry, x) == Locks(Entries(entry[1], x) \ {entry}, "all")
Claimed(entry, x) == Locks({entry} \ Entries(entry[1], x), "new")

\* The rows it holds to delete them.
Locked(t) == {l[1] : l \in {h \in txn[t].held : h[2] = "all"}}
Holding(t, r) == \E m \in {"nokey", "all", "new"} : <<r, m>> \in txn[t].held

-----------------------------------------------------------------------------
(***************************************************************************)
(* Locks.  "share": FOR KEY SHARE, which a foreign key takes on the row it *)
(* refers to; "nokey": an update of other columns than a key; "all": FOR   *)
(* UPDATE, a deletion, an update of a key; "new": an insertion, on the     *)
(* name its unique index gives the row.                                    *)
(***************************************************************************)

Compatible(m, n) == "share" \in {m, n} /\ {m, n} \subseteq {"share", "nokey"}

Blocks(u, l) == \E h \in txn[u].held : h[1] = l[1] /\ ~Compatible(h[2], l[2])

\* A statement does not wait for a row it does not see.
Visible(l) == Present(l[1]) \/ l[2] = "new"

Waits(t, u) == t # u /\ \E l \in Turn(t) : Visible(l) /\ Blocks(u, l)

\* A later commit changed a row that this transaction goes on to change.
Outdated(t, l) ==
  /\ txn[t].level = "repeatable read"
  /\ l[2] \in {"nokey", "all"}
  /\ l[1] \in DOMAIN txn[t].seen
  /\ txn[t].seen[l[1]] # db[l[1]]

\* A foreign key that refers to nothing, and a unique index.
Refused(l) == IF l[2] = "share" THEN ~Present(l[1])
                                ELSE l[2] = "new" /\ Present(l[1])

Lock(t) ==
  \E i \in DOMAIN txn[t].todo : \E l \in txn[t].todo[i] :
    /\ IsNext(t, i)
    /\ Visible(l) => \A u \in Txns \ {t} : ~Blocks(u, l)
    /\ IF Outdated(t, l) \/ Refused(l)
       THEN Rollback(t)
       ELSE /\ txn' = [txn EXCEPT ![t].todo[i] = @ \ {l},
                                  ![t].held = IF Visible(l) THEN @ \cup {l} ELSE @]
            /\ UNCHANGED db

\* The connection is lost, a statement times out, a deadlock is broken up.
Fail(t) == txn[t].pc \notin {"idle", "ended"} /\ Rollback(t)

\* The transactions of a set that wait for one another.
Entangled(ts) == ts # {} /\ \A t \in ts : \E u \in ts : Waits(t, u)
=============================================================================
