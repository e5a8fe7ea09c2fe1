---------------------------- MODULE DriftPairing ----------------------------
(***************************************************************************)
(* The pairing of results with findings after code moved in its file:      *)
(* apps/worker/src/classification/finding-classifiers/drift-pairing.ts.    *)
(*                                                                         *)
(* A location is a function of the parts of its span that are known, of    *)
(* which startLine is always one.                                          *)
(***************************************************************************)
EXTENDS Integers, Sequences, FiniteSets, SequencesExt

\* The value of a part, or nothing.
Part(location, part) == IF part \in DOMAIN location THEN {location[part]} ELSE {}
PartOr0(location, part) == IF part \in DOMAIN location THEN location[part] ELSE 0

LineCount(location) == {n - location.startLine : n \in Part(location, "endLine")}
ColumnWidth(location) ==
  {n - m : n \in Part(location, "endColumn"), m \in Part(location, "startColumn")}

SameShape(l, r) ==
  /\ LineCount(l) = LineCount(r)
  /\ \A part \in {"startColumn", "endColumn"} : Part(l, part) = Part(r, part)

SameWidth(l, r) == LineCount(l) = LineCount(r) /\ ColumnWidth(l) = ColumnWidth(r)

-----------------------------------------------------------------------------
\* A list as it is; its members are computed once.
Once(list) == list \o <<>>

Least(s) == CHOOSE n \in s : \A m \in s : n <= m

\* Whether one tuple of numbers comes before another: less where they first differ.
Before(s, t) == \E k \in DOMAIN s : s[k] < t[k] /\ \A m \in 1..k - 1 : s[m] = t[m]

\* The members of a finite set in the order of their keys.
InOrder(set, key) ==
  Once([k \in 1..Cardinality(set) |->
          CHOOSE x \in set : Cardinality({y \in set : Before(key[y], key[x])}) = k - 1])

Ascending(numbers) == InOrder(numbers, [n \in numbers |-> <<n>>])

ByPosition(location) ==
  <<location.startLine, PartOr0(location, "startColumn"),
    PartOr0(location, "endLine"), PartOr0(location, "endColumn")>>

FileOrderSlip(locations) == [i \in DOMAIN locations |-> i]
\* Positions in the list by position in the file; the earlier of two at one place first.
FileOrder(locations) ==
  InOrder(DOMAIN locations, [i \in DOMAIN locations |-> Append(ByPosition(locations[i]), i)])

\* The pairs of positions, in file order, whose shapes agree, and whose widths do.
\* left, right: the results and the findings in file order.
ShapePairs(results, findings, left, right) ==
  {p \in (DOMAIN left) \X (DOMAIN right) : SameShape(results[left[p[1]]], findings[right[p[2]]])}
WidthPairs(results, findings, left, right) ==
  {p \in (DOMAIN left) \X (DOMAIN right) : SameWidth(results[left[p[1]]], findings[right[p[2]]])}

\* How many pairs a common subsequence of what is left from each position on has.
Lengths(n, m, equal) ==
  LET longest[p \in (1..n + 1) \X (1..m + 1)] ==
        LET i == p[1]
            j == p[2]
        IN IF i > n \/ j > m THEN 0
           ELSE IF p \in equal THEN longest[<<i + 1, j + 1>>] + 1
           ELSE IF longest[<<i + 1, j>>] >= longest[<<i, j + 1>>]
                THEN longest[<<i + 1, j>>] ELSE longest[<<i, j + 1>>]
  IN longest

\* The pairs of the longest common subsequence: where both skip equally well, skip
\* the left.
Walk(n, m, equal, longest) ==
  LET walk[p \in (1..n + 1) \X (1..m + 1)] ==
        LET i == p[1]
            j == p[2]
        IN IF i > n \/ j > m THEN {}
           ELSE IF p \in equal THEN {p} \cup walk[<<i + 1, j + 1>>]
           ELSE IF longest[<<i + 1, j>>] >= longest[<<i, j + 1>>]
                THEN walk[<<i + 1, j>>] ELSE walk[<<i, j + 1>>]
  IN walk[<<1, 1>>]

\* The positions alone between two pairs, on either side.
Lone(pairs) ==
  {<<p[1] + 1, p[2] + 1>> : p \in {q \in pairs : <<q[1] + 2, q[2] + 2>> \in pairs}}

\* The anchors, pairs of equal shape, are a longest common subsequence in file
\* order; a lone result and a lone finding between two of them pair as well, if
\* their widths agree or a symbol encloses both.
Aligned(n, m, anchors, wide, anchored) ==
  anchors \cup {q \in Lone({<<0, 0>>} \cup anchors \cup {<<n + 1, m + 1>>}) : anchored \/ q \in wide}

InFileOrder(results, findings, left, right, equal, anchored) ==
  Aligned(Len(left), Len(right),
          Walk(Len(left), Len(right), equal, Lengths(Len(left), Len(right), equal)),
          WidthPairs(results, findings, left, right), anchored)

Reordered(pairs, left, right) == {<<left[p[1]], right[p[2]]>> : p \in pairs}

Paired(results, findings, left, right, anchored) ==
  Reordered(InFileOrder(results, findings, left, right,
                        ShapePairs(results, findings, left, right), anchored),
            left, right)

\* The pairs are positions in the two lists.
AlignShifted(results, findings, anchored) ==
  Paired(results, findings, FileOrder(results), FileOrder(findings), anchored)
=============================================================================
