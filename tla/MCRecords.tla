------------------------------ MODULE MCRecords ------------------------------
(***************************************************************************)
(* Records for TLC: three transactions, and worlds of three kinds with the *)
(* calls that concern them.  In the world of findings two findings share   *)
(* an asset, so that moves, plans and links meet; in that of assets a      *)
(* field is assigned, with a value or without; in that of roles two users  *)
(* hold a role, or none, or there are no users.  Each has two rows of what *)
(* has a unique key, and calls that give one the key of the other.  Calls  *)
(* on a row that a world does not know are not made in it.                 *)
(***************************************************************************)
EXTENDS Records, TLC

CONSTANTS t1, t2, t3, o1, o2, i1, i2

seed == [stamp |-> None]
entry(x) == [of |-> x, stamp |-> None]
Empty(rows) == [r \in rows |-> Absent]

FindingWorlds ==
  { Finding(1) :> [asset |-> "a", stamp |-> None]
      @@ Finding(2) :> [asset |-> "a", stamp |-> None]
      @@ Observation(o1) :> [finding |-> 1, stamp |-> None]
      @@ Observation(o2) :> [finding |-> 2, stamp |-> None]
      @@ Link(1, "v") :> (IF linked THEN seed ELSE Absent)
      @@ Link(2, "v") :> seed
      @@ Vulnerability("v") :> seed
      @@ Vulnerability("w") :> seed
      @@ VulnerabilityKey("c1") :> entry("v")
      @@ VulnerabilityKey("c2") :> entry("w")
      @@ Asset("a") :> seed
      @@ Ingestion("i") :> [status |-> "pending", stamp |-> None]
      @@ Empty({Vulnerability(t) : t \in Txns})
    : linked \in BOOLEAN }

FindingCalls ==
  { [op |-> "updateByID", finding |-> 1],
    [op |-> "deleteByID", finding |-> 1],
    [op |-> "createManualObservation", finding |-> 1],
    [op |-> "updateObservation", finding |-> 1, observation |-> o1],
    [op |-> "deleteObservation", finding |-> 1, observation |-> o1],
    [op |-> "moveObservation", finding |-> 1, target |-> 2, observation |-> o1],
    [op |-> "moveObservation", finding |-> 2, target |-> 1, observation |-> o2],
    [op |-> "createManual", asset |-> "a", vulnerabilities |-> {"v"}],
    [op |-> "linkVulnerability", finding |-> 1, vulnerability |-> "v"],
    [op |-> "unlinkVulnerability", finding |-> 1, vulnerability |-> "v"],
    [op |-> "createVulnerability", key |-> "c1"],
    [op |-> "updateVulnerability", vulnerability |-> "v", key |-> "c2"],
    [op |-> "updateVulnerability", vulnerability |-> "w", key |-> "c1"],
    [op |-> "deleteVulnerability", vulnerability |-> "v"],
    [op |-> "record", ingestion |-> "i", asset |-> "a", findings |-> {1, 2}] }

AssetWorlds ==
  { Asset("b") :> seed
      @@ Identifier(i1) :> [asset |-> "b", key |-> "k1", stamp |-> None]
      @@ Key("k1") :> seed
      @@ Identifier(i2) :> (IF set THEN [asset |-> "b", key |-> "k2", stamp |-> None]
                                   ELSE Absent)
      @@ Key("k2") :> (IF set THEN seed ELSE Absent)
      @@ Field("d1") :> [allows |-> {"x", "y"}, stamp |-> None]
      @@ Field("d2") :> [allows |-> {"x", "y"}, stamp |-> None]
      @@ FieldKey("c1") :> entry("d1")
      @@ FieldKey("c2") :> entry("d2")
      @@ Assigned("b", "d1") :> seed
      @@ Value("b", "d1") :> (IF set THEN [data |-> "x", stamp |-> None] ELSE Absent)
      @@ Empty({Field(t) : t \in Txns} \cup {Asset(t) : t \in Txns})
    : set \in BOOLEAN }

AssetCalls ==
  { [op |-> "create", keys |-> {"k1", "k2"}],
    [op |-> "updateAsset", asset |-> "b", changes |-> TRUE],
    [op |-> "addIdentifier", asset |-> "b", key |-> "k2"],
    [op |-> "updateIdentifier", asset |-> "b", identifier |-> i1, key |-> "k2"],
    [op |-> "updateIdentifier", asset |-> "b", identifier |-> i2, key |-> "k1"],
    [op |-> "deleteIdentifier", asset |-> "b", identifier |-> i1],
    [op |-> "deleteAsset", asset |-> "b"],
    [op |-> "createDefinition", key |-> "c1", allows |-> {"x"}],
    [op |-> "updateDefinition", field |-> "d1", key |-> "c1", allows |-> {"y"}],
    [op |-> "updateDefinition", field |-> "d1", key |-> "c2", allows |-> {"y"}],
    [op |-> "updateDefinition", field |-> "d2", key |-> "c1", allows |-> {"x"}],
    [op |-> "deleteDefinition", field |-> "d1"],
    [op |-> "replaceAssignments", asset |-> "b", fields |-> {}],
    [op |-> "replaceAssignments", asset |-> "b", fields |-> {"d1", "d2"}],
    [op |-> "replaceValues", asset |-> "b", values |-> "d1" :> "x"],
    [op |-> "replaceValues", asset |-> "b", values |-> "d1" :> None],
    [op |-> "replaceValues", asset |-> "b", values |-> "d1" :> "y" @@ "d2" :> "x"] }

RoleWorlds ==
  { Role("r1") :> seed
      @@ Role("r2") :> seed
      @@ RoleName("n1") :> entry("r1")
      @@ RoleName("n2") :> entry("r2")
      @@ Permission("r1", "p") :> seed
      @@ User("u") :> (IF roles = {"none"} THEN Absent ELSE seed)
      @@ User("w") :> (IF roles = {"none"} THEN Absent ELSE seed)
      @@ Email("e") :> (IF roles = {"none"} THEN Absent ELSE entry("u"))
      @@ Email("f") :> (IF roles = {"none"} THEN Absent ELSE entry("w"))
      @@ Session("s") :> (IF roles = {"none"} THEN Absent ELSE [user |-> "u", stamp |-> None])
      @@ Session("z") :> (IF roles = {"none"} THEN Absent ELSE [user |-> "w", stamp |-> None])
      @@ Holds("u", "r1") :> (IF "r1" \in roles THEN seed ELSE Absent)
      @@ Holds("w", "r1") :> (IF "r1" \in roles THEN seed ELSE Absent)
      @@ Empty({Role(t) : t \in Txns} \cup {User(t) : t \in Txns})
    : roles \in {{"none"}, {}, {"r1"}} }

RoleCalls ==
  { [op |-> "createRole", name |-> "n3", permissions |-> {"p"}],
    [op |-> "createRole", name |-> "n1", permissions |-> {}],
    [op |-> "updateRole", role |-> "r1", name |-> "n1", permissions |-> {"p"}],
    [op |-> "updateRole", role |-> "r1", name |-> "n2", permissions |-> {"q"}],
    [op |-> "updateRole", role |-> "r2", name |-> "n1", permissions |-> {"q"}],
    [op |-> "deleteRole", role |-> "r1"],
    [op |-> "createUser", username |-> "x", email |-> "e", roles |-> {"r1"}],
    [op |-> "createInitialAdmin", username |-> "admin", email |-> "g", roles |-> {"r1"}],
    [op |-> "updateUser", user |-> "u", email |-> "e", roles |-> {"r1"}, secured |-> TRUE],
    [op |-> "updateUser", user |-> "u", email |-> "f", roles |-> {"r2"}, secured |-> FALSE],
    [op |-> "updateUser", user |-> "u", email |-> "e", roles |-> {}, secured |-> FALSE],
    [op |-> "updateUser", user |-> "w", email |-> "e", roles |-> {"r1"}, secured |-> FALSE] }

MCCalls == FindingCalls \cup AssetCalls \cup RoleCalls
MCWorlds == FindingWorlds \cup AssetWorlds \cup RoleWorlds
TxnSymmetry == Permutations(Txns)
=============================================================================
