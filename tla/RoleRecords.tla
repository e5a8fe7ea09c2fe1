----------------------------- MODULE RoleRecords -----------------------------
(***************************************************************************)
(* Roles with their permissions, and users with their roles, as            *)
(* transactions: packages/backend/src/features/identity/roles and users.   *)
(* Permissions and assignments are replaced as a whole.                    *)
(*                                                                         *)
(* Names of roles and users, and e-mails, are entries of unique indexes;    *)
(* other columns are the mark of the transaction that wrote them.  A       *)
(* generated id is the transaction that generates it.  Sessions are rows   *)
(* that a change of permissions, roles or password ends; signing in and    *)
(* out is left out.                                                        *)
(*                                                                         *)
(* A definition whose name ends in Slip is the one after it with a mistake;*)
(* the specification does not use it.                                      *)
(***************************************************************************)
EXTENDS RowStore

Permissions(r) == {x \in Table("role_permission_assignment") : x[2] = r}
Holders(r) == {x \in Table("user_role_assignment") : x[3] = r}
RolesOf(u) == {x \in Table("user_role_assignment") : x[2] = u}
Sessions(users) == {x \in Table("user_session") : db[x].user \in users}

\* What a transaction read of a table before it took any lock.
Read(t, name) == {x \in DOMAIN txn[t].seen : x[1] = name}

-----------------------------------------------------------------------------
(***************************************************************************)
(* Roles                                                                   *)
(***************************************************************************)

\* The role of a call, which has its id from the call that creates it.
RoleOf(t, c) == IF c.op = "createRole" THEN t ELSE c.role

CreateRole(t, c) ==
  /\ c.op = "createRole"
  /\ Known(Role(t))
  /\ Open(t, c, "write role", <<{<<Role(t), "new">>}, {<<RoleName(c.name), "new">>},
                                Locks({Permission(t, p) : p \in c.permissions}, "new")>>)

\* The permissions and the holders are read before the role is locked.
UpdateRoleSlip(t, c) ==
  /\ c.op = "updateRole"
  /\ Known(Role(c.role))
  /\ LET new == {Permission(c.role, p) : p \in c.permissions}
     IN \E mode \in UpdateModes :
          Open(t, c, "write role", <<{<<Role(c.role), mode>>},
                                     Locks(Permissions(c.role), "all"),
                                     Locks(new \ Permissions(c.role), "new")>>)
UpdateRole(t, c) ==
  /\ c.op = "updateRole"
  /\ Known(Role(c.role))
  /\ IF Present(Role(c.role))
     THEN \E mode \in UpdateModes :
            OpenReading(t, c, "replace permissions", <<{<<Role(c.role), mode>>}>>,
                        Permissions(c.role) \cup Holders(c.role))
     ELSE Rollback(t)

\* Other permissions end the sessions of those who held the role.
Affected(t) ==
  IF {x[3] : x \in Read(t, "role_permission_assignment")} = txn[t].call.permissions
  THEN {}
  ELSE {x[2] : x \in Read(t, "user_role_assignment")}

\* Another name waits for the transaction that has it or gives it up.
ReplacePermissions(t) ==
  /\ Ready(t, "replace permissions")
  /\ LET c == txn[t].call
         new == {Permission(c.role, p) : p \in c.permissions}
     IN IF Holding(t, Role(c.role))
        THEN Advance(t, "write role", <<Freed(RoleName(c.name), c.role),
                                        Claimed(RoleName(c.name), c.role),
                                        Locks(Permissions(c.role), "all"),
                                        Locks(new \ Permissions(c.role), "new"),
                                        Locks(Sessions(Affected(t)), "all")>>)
        ELSE Rollback(t)

WriteRole(t) ==
  /\ Ready(t, "write role")
  /\ LET c == txn[t].call
         role == RoleOf(t, c)
     IN Commit(t, [r \in {Permission(role, p) : p \in c.permissions} |-> [stamp |-> t]]
                   ++ Put(Role(role), [stamp |-> t])
                   ++ Put(RoleName(c.name), Entry(role, t))
                   ++ Erased(Locked(t)))

\* Assignments are looked for first, and cascaded to in the end.
DeleteRole(t, c) ==
  /\ c.op = "deleteRole"
  /\ Known(Role(c.role))
  /\ IF Present(Role(c.role)) /\ Holders(c.role) = {}
     THEN Open(t, c, "cascade role", <<Locks({Role(c.role)}, "all")>>)
     ELSE Rollback(t)

CascadeRole(t) ==
  /\ Ready(t, "cascade role")
  /\ LET r == txn[t].call.role
     IN IF Holding(t, Role(r))
        THEN Advance(t, "erase role",
                     <<Locks(Entries("role_name", r) \cup Permissions(r) \cup Holders(r), "all")>>)
        ELSE Rollback(t)

EraseRole(t) ==
  /\ Ready(t, "erase role")
  /\ Commit(t, Erased(Locked(t)))

-----------------------------------------------------------------------------
(***************************************************************************)
(* Users                                                                   *)
(***************************************************************************)

UserOf(t, c) == IF c.op = "updateUser" THEN c.user ELSE t

\* A profile with its two names, then the roles it refers to.
InsertLocks(t, c) ==
  <<{<<User(t), "new">>}, {<<Username(c.username), "new">>}, {<<Email(c.email), "new">>},
    Locks({Role(r) : r \in c.roles}, "share")>>

CreateUser(t, c) ==
  /\ c.op = "createUser"
  /\ Known(User(t))
  /\ Open(t, c, "write user", InsertLocks(t, c))

\* Only while there is no user at all; the name decides between two of them.
CreateInitialAdmin(t, c) ==
  /\ c.op = "createInitialAdmin"
  /\ Known(User(t))
  /\ IF Table("user_profile") = {}
     THEN Open(t, c, "write user", InsertLocks(t, c))
     ELSE Rollback(t)

\* The profile read here is written back, but for what the call changes.
UpdateUser(t, c) ==
  /\ c.op = "updateUser"
  /\ Known(User(c.user))
  /\ IF Present(User(c.user))
     THEN \E mode \in UpdateModes :
            OpenReading(t, c, "replace roles", <<{<<User(c.user), mode>>}>>, RolesOf(c.user))
     ELSE Rollback(t)

\* A new password, a disabled profile and other roles end the user's sessions.
Revokes(t) ==
  LET c == txn[t].call
  IN c.secured \/ {x[3] : x \in Read(t, "user_role_assignment")} # c.roles

ReplaceRoles(t) ==
  /\ Ready(t, "replace roles")
  /\ LET c == txn[t].call
         new == {Holds(c.user, r) : r \in c.roles}
     IN IF Holding(t, User(c.user))
        THEN Advance(t, "write user", <<Freed(Email(c.email), c.user),
                                        Claimed(Email(c.email), c.user),
                                        Locks(RolesOf(c.user), "all"),
                                        Locks(new \ RolesOf(c.user), "new"),
                                        Locks({Role(r) : r \in c.roles}, "share"),
                                        Locks(IF Revokes(t) THEN Sessions({c.user}) ELSE {},
                                              "all")>>)
        ELSE Rollback(t)

\* A profile keeps its user name.
WriteUser(t) ==
  /\ Ready(t, "write user")
  /\ LET c == txn[t].call
         user == UserOf(t, c)
     IN Commit(t, [x \in {Holds(user, r) : r \in c.roles} |-> [stamp |-> t]]
                   ++ Put(User(user), [stamp |-> t])
                   ++ Put(Email(c.email), Entry(user, t))
                   ++ (IF c.op = "updateUser" THEN Erased({})
                                              ELSE Put(Username(c.username), Entry(user, t)))
                   ++ Erased(Locked(t)))

-----------------------------------------------------------------------------
StartRoleCall(t, c) ==
  \/ CreateRole(t, c)
  \/ UpdateRole(t, c)
  \/ DeleteRole(t, c)
  \/ CreateUser(t, c)
  \/ CreateInitialAdmin(t, c)
  \/ UpdateUser(t, c)

RoleStep(t) ==
  \/ ReplacePermissions(t)
  \/ WriteRole(t)
  \/ CascadeRole(t)
  \/ EraseRole(t)
  \/ ReplaceRoles(t)
  \/ WriteUser(t)
=============================================================================
