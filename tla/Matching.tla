------------------------------ MODULE Matching ------------------------------
(***************************************************************************)
(* What imports make of the findings of one asset: each report is matched  *)
(* against them (FindingMatcher), its plan is built and recorded.          *)
(* apps/worker/src/ingestion/plan.ts and                                   *)
(* packages/backend/src/features/ingestions/ingestion-record.ts.           *)
(*                                                                         *)
(* Imports follow one another here; what happens when they overlap is in   *)
(* IngestionDelivery.  New findings of a plan are created at one time, and *)
(* listed in the order of their random identifiers.                        *)
(***************************************************************************)
EXTENDS FindingMatcher

CONSTANTS
  Worlds,      \* the findings there may be at first
  Reports,     \* the batches a scanner may report, by world
  Edits,       \* the fields a user may change of a finding, by world
  MaxImports,  \* bound: imports of a new report
  MaxRescans,  \* bound: imports of the last report once more
  MaxEdits     \* bound: changes by users

ASSUME LimitsAssumption == {MaxImports, MaxRescans, MaxEdits} \subseteq Nat

IsList(s) == s \in Seq({s[k] : k \in DOMAIN s})

\* What the schemas of a finding and of a result ensure: a span is made of numbers, and
\* a weakness names finitely many identifiers in namespaces that have an order.
Numbered(item) ==
  item.resource.type = "sourceCode" =>
    \A part \in SpanDetail \cup {"startLine"} : Part(item.resource.fields, part) \subseteq Int
IsFinding(item) ==
  /\ item = [f \in {"weakness", "resource", "fingerprints", "place", "duplicate"} |-> item[f]]
  /\ Numbered(item)
IsCandidate(item) ==
  /\ Numbered(item)
  /\ IsFiniteSet(DOMAIN item.resource.fields)
  /\ \A ns \in DOMAIN item.weakness :
       /\ \E k \in DOMAIN NamespaceOrder : NamespaceOrder[k] = ns
       /\ IsFiniteSet(item.weakness[ns]) /\ item.weakness[ns] \subseteq Int
FindingsOf(list) == IsList(list) /\ \A f \in DOMAIN list : IsFinding(list[f])
BatchOf(list) == IsList(list) /\ \A n \in DOMAIN list : IsCandidate(list[n])

ASSUME ItemsAssumption ==
  /\ IsList(NamespaceOrder)
  /\ \A w \in DOMAIN Worlds :
       /\ \A list \in Worlds[w] : FindingsOf(list)
       /\ \A batch \in Reports[w] : BatchOf(batch)
       /\ \A fields \in Edits[w] : "resource" \in DOMAIN fields => Numbered(fields)

VARIABLES
  world,    \* which of the worlds this is
  known,    \* the findings of the asset
  report,   \* the last batch imported
  results,  \* what its candidates came to
  target,   \* the finding of each of them, 0 for none
  imports,  \* imports of a new report so far
  rescans,  \* imports of the last report again so far
  edits     \* changes so far

vars == <<world, known, report, results, target, imports, rescans, edits>>

Init ==
  /\ world \in DOMAIN Worlds
  /\ known \in Worlds[world]
  /\ report = <<>>
  /\ results = <<>>
  /\ target = <<>>
  /\ imports = 0
  /\ rescans = 0
  /\ edits = 0

-----------------------------------------------------------------------------
(***************************************************************************)
(* The plan                                                                *)
(***************************************************************************)

\* The candidates of each new group.
NewGroups(matches) ==
  LET new == {n \in DOMAIN matches : matches[n].status = "new"}
  IN {{m \in new : matches[m].group = matches[n].group} : n \in new}

Merged(f, g) ==
  [ns \in DOMAIN f \cup DOMAIN g |->
     (IF ns \in DOMAIN f THEN f[ns] ELSE {}) \cup (IF ns \in DOMAIN g THEN g[ns] ELSE {})]
Fingerprints(batch, ns, start) ==
  FoldLeft(LAMBDA f, n : IF n \in ns THEN Merged(f, batch[n].fingerprints) ELSE f,
           start, [n \in DOMAIN batch |-> n])

\* The first candidate of a group supplies weakness and resource.
Seeded(batch, group) ==
  LET first == batch[Least(group)]
  IN [weakness |-> first.weakness, resource |-> first.resource, place |-> first.place,
      fingerprints |-> Fingerprints(batch, group, <<>>), duplicate |-> FALSE]

\* The finding of candidate n if the new ones are listed as in created.
TargetOf(matches, created, n) ==
  CASE matches[n].status = "matched" -> matches[n].finding
    [] matches[n].status = "new" ->
         Len(known) + (CHOOSE k \in DOMAIN created : n \in created[k])
    [] OTHER -> 0

Recorded(batch, targets, created) ==
  [f \in DOMAIN known |->
     LET attached == {n \in DOMAIN batch : targets[n] = f}
     IN [known[f] EXCEPT !.fingerprints = Fingerprints(batch, attached, @)]]
  \o [k \in DOMAIN created |-> Seeded(batch, created[k])]

RecordPlan(batch, matches) ==
  \E created \in SetToSeqs(NewGroups(matches)) :
    LET targets == [n \in DOMAIN batch |-> TargetOf(matches, created, n)]
    IN /\ results' = matches
       /\ target' = targets
       /\ known' = Recorded(batch, targets, created)

Process(batch) ==
  /\ RecordPlan(batch, Match(known, batch))
  /\ report' = batch
  /\ UNCHANGED <<world, edits>>

Import(batch) ==
  /\ imports < MaxImports
  /\ Process(batch)
  /\ imports' = imports + 1
  /\ UNCHANGED rescans

\* The scanner reports the same again.
Rescan ==
  /\ rescans < MaxRescans /\ report # <<>>
  /\ Process(report)
  /\ rescans' = rescans + 1
  /\ UNCHANGED imports

-----------------------------------------------------------------------------
Changed(f, change) ==
  /\ edits < MaxEdits
  /\ known' = [known EXCEPT ![f] = change]
  /\ results' = <<>>
  /\ target' = <<>>
  /\ edits' = edits + 1
  /\ UNCHANGED <<world, report, imports, rescans>>

\* A user marks a finding as a duplicate, or corrects its weakness or resource.
MarkDuplicate(f) == Changed(f, [known[f] EXCEPT !.duplicate = TRUE])
Correct(f, fields) ==
  Changed(f, [field \in DOMAIN known[f] |->
                IF field \in DOMAIN fields THEN fields[field] ELSE known[f][field]])

Next ==
  \/ \E batch \in Reports[world] : Import(batch)
  \/ Rescan
  \/ \E f \in DOMAIN known : MarkDuplicate(f)
  \/ \E f \in DOMAIN known, fields \in Edits[world] : Correct(f, fields)

Spec == Init /\ [][Next]_vars

-----------------------------------------------------------------------------
(***************************************************************************)
(* Properties                                                              *)
(***************************************************************************)

\* A report imported again attaches each candidate to the finding it came to the
\* first time or abstains: what the first import added, new findings and merged
\* fingerprints, neither draws it to another finding nor makes it new once more.  Only
\* a candidate with partial evidence may go to a finding that now fits it exactly.
Partial(result) == result.status = "matched" /\ result.by = "weak"
NeverReassigned ==
  [][rescans' # rescans =>
       \A n \in DOMAIN target :
         target[n] # 0 =>
           /\ results'[n].status # "new"
           /\ Partial(results[n]) \/ target'[n] \in {0, target[n]}]_vars

\* An import creates no finding with the identity of another, be it there
\* already, created along with it or brought about by a user.
NoTwins ==
  [][edits' = edits =>
       \A f \in DOMAIN known' \ DOMAIN known, g \in DOMAIN known' :
         f # g => ~SameIdentity(known'[f], known'[g])]_vars

\* Candidates that follow moved code keep the order of their findings in the file, if
\* they share the bucket of the same candidates; a bucket stands for its first alone.
MovesKeepOrder ==
  \A n, m \in DOMAIN results :
    LET Moved(k) == results[k].status = "matched" /\ results[k].by = "moved"
        Line(item) == item.resource.fields.startLine
        Meets(k, l) == SameBucket(report[k], report[l])
    IN /\ Moved(n) /\ Moved(m)
       /\ Meets(n, m) /\ \A k \in DOMAIN report : Meets(k, n) <=> Meets(k, m)
       => (Line(report[n]) < Line(report[m]) => Line(known[target[n]]) <= Line(known[target[m]]))
=============================================================================
