------------------------- MODULE MCIngestionDelivery -------------------------
(***************************************************************************)
(* IngestionDelivery for TLC: a report with a known and a new candidate    *)
(* whose job was published twice, and one that cannot be parsed.           *)
(***************************************************************************)
EXTENDS IngestionDelivery, TLC

CONSTANTS i1, i2, m1, m2, m3, old, new, host1, host2

MCJobOf == m1 :> i1 @@ m2 :> i1 @@ m3 :> i2
MCAssetFor == old :> host1 @@ new :> host2
MCReport == i1 :> {old, new} @@ i2 :> {}

WorkerSymmetry == Permutations(Workers)

=============================================================================
