--------------------------- MODULE MCImportSources ---------------------------
(***************************************************************************)
(* ImportSources for TLC: three requests race for one source, callers      *)
(* delete it, and two calls may land late.  Requests are interchangeable.  *)
(***************************************************************************)
EXTENDS ImportSources, TLC

RequestSymmetry == Permutations(Requests)

=============================================================================
