--------------------------- MODULE FindingMatcher ---------------------------
(***************************************************************************)
(* Finding matching: which finding of an asset each candidate of a batch   *)
(* belongs to, which new finding it seeds, or that it stays unresolved.    *)
(* apps/worker/src/classification/finding-classifiers.                     *)
(*                                                                         *)
(* A candidate has a weakness, a function from namespaces to identifiers;  *)
(* a resource, its type and the canonical fields that are known;           *)
(* fingerprints, like a weakness; and a location fingerprint or none (a    *)
(* set).  A finding has the same and whether it is marked a duplicate.     *)
(* Findings are listed from the oldest on and named by their place.        *)
(* Explanations are left out.                                              *)
(*                                                                         *)
(* A definition whose name ends in Slip is the one after it with a mistake;*)
(* the specification does not use it.                                      *)
(***************************************************************************)
EXTENDS DriftPairing

CONSTANT NamespaceOrder   \* the namespaces, in canonical order

\* The entries of a function from namespaces to finite sets of numbers, in order, each
\* the place of its namespace and a number.
Entries(f) ==
  LET entries == UNION {{<<k, v>> : v \in f[NamespaceOrder[k]]} :
                          k \in {k \in DOMAIN NamespaceOrder : NamespaceOrder[k] \in DOMAIN f}}
  IN InOrder(entries, [e \in entries |-> e])

-----------------------------------------------------------------------------
(***************************************************************************)
(* Identity                                                                *)
(***************************************************************************)

\* A CWE names a category, every other namespace one weakness.
Specific(weakness) == {ns \in DOMAIN weakness : ns # "cwe" /\ weakness[ns] # {}}

Overlap(l, r, ns) ==
  ns \in DOMAIN l /\ ns \in DOMAIN r /\ l[ns] \cap r[ns] # {}

CompareWeakness(l, r) ==
  LET shared == Specific(l) \cap Specific(r)
  IN IF shared # {}
     THEN IF \A ns \in shared : Overlap(l, r, ns) THEN "same" ELSE "none"
     ELSE IF {} \in {Specific(l), Specific(r)} /\ Overlap(l, r, "cwe")
     THEN "related" ELSE "none"

MinimumFields ==
  [unspecified |-> {}, webEndpoint |-> {"host"}, networkService |-> {"host"},
   sourceCode |-> {"file"}, package |-> {"name"}, containerImage |-> {"repository"},
   cloudResource |-> {"resourceId"}]

Sufficient(resource) == MinimumFields[resource.type] \subseteq DOMAIN resource.fields

\* Where only one side knows a column or the end of a span, that is no difference.
SpanDetail == {"startColumn", "endLine", "endColumn"}

CompareResource(l, r) ==
  LET common == DOMAIN l.fields \cap DOMAIN r.fields
      oneSided == (DOMAIN l.fields \cup DOMAIN r.fields) \ common
      ignored == IF l.type = "sourceCode" THEN SpanDetail ELSE {}
  IN IF \/ l.type # r.type
        \/ ~Sufficient(l) \/ ~Sufficient(r)
        \/ \E field \in common : l.fields[field] # r.fields[field]
     THEN "different"
     ELSE IF oneSided \subseteq ignored THEN "exact" ELSE "compatible"

SameIdentity(l, r) ==
  /\ CompareWeakness(l.weakness, r.weakness) = "same" \/ l.weakness = r.weakness
  /\ CompareResource(l.resource, r.resource) = "exact"

CompatibleIdentity(l, r) ==
  \/ SameIdentity(l, r)
  \/ /\ CompareWeakness(l.weakness, r.weakness) = "same"
     /\ CompareResource(l.resource, r.resource) = "compatible"

SameSourceScope(l, r) ==
  /\ l.type = "sourceCode" /\ r.type = "sourceCode"
  /\ \A field \in {"repository", "file", "symbol"} :
       Part(l.fields, field) = Part(r.fields, field)

HasLocation(resource) ==
  resource.type = "sourceCode" /\ "startLine" \in DOMAIN resource.fields

\* The members of a list that are in a set.
Only(list, set) ==
  LET at == Ascending({k \in DOMAIN list : list[k] \in set})
  IN Once([k \in DOMAIN at |-> list[at[k]]])

\* The places in a list of those that are like none of the firsts before them.
Firsts(list, like) ==
  CHOOSE firsts \in SUBSET DOMAIN list :
    \A n \in DOMAIN list :
      n \in firsts <=> \A f \in firsts : f < n => <<list[f], list[n]>> \notin like

\* Each member of a list put together with the earliest of the firsts it is like; two
\* that are so need not be alike.
Grouped(list, like) ==
  LET firsts == Firsts(list, like)
      order == Ascending(firsts)
      First(n) == Least({f \in firsts : f = n \/ (f < n /\ <<list[f], list[n]>> \in like)})
  IN Once([k \in DOMAIN order |->
             Only(list, {list[n] : n \in {n \in DOMAIN list : First(n) = order[k]}})])

Classes(items, list) ==
  Grouped(list, {p \in ToSet(list) \X ToSet(list) : SameIdentity(items[p[1]], items[p[2]])})

\* A finding that is no duplicate, then the oldest.
Preferred(known, members) ==
  LET originals == {n \in members : ~known[n].duplicate}
      among == IF originals = {} THEN members ELSE originals
  IN Least(among)

-----------------------------------------------------------------------------
(***************************************************************************)
(* The index over the findings                                             *)
(***************************************************************************)

\* The findings hit, in the order in which the keys hit them: by[k] are those of key k.
Hits(by) ==
  LET hits == UNION {by[k] : k \in DOMAIN by}
  IN InOrder(hits, [n \in hits |-> <<Least({k \in DOMAIN by : n \in by[k]}), n>>])

Under(f, entry) ==
  LET ns == NamespaceOrder[entry[1]]
  IN ns \in DOMAIN f /\ entry[2] \in f[ns]

HitBy(known, entries) ==
  [k \in DOMAIN entries |-> {n \in DOMAIN known : Under(known[n].weakness, entries[k])}]
SharingIdentifiersSlip(known, weakness) ==
  Hits(HitBy(known, SubSeq(Entries(weakness), 1, 1)))
SharingIdentifiers(known, weakness) == Hits(HitBy(known, Entries(weakness)))

\* The location fingerprint counts after all others.
Fingerprinted(known, c) ==
  LET entries == Entries(c.fingerprints)
  IN Hits([k \in 1..Len(entries) + 1 |->
             {n \in DOMAIN known :
                IF k \in DOMAIN entries THEN Under(known[n].fingerprints, entries[k])
                                        ELSE known[n].place \cap c.place # {}}])

-----------------------------------------------------------------------------
(***************************************************************************)
(* The decision on one candidate.  reached: all its evidence reaches.      *)
(***************************************************************************)

ClaimOfSlip(strength, classes, reached, conflict) ==
  [status |-> IF conflict THEN "unresolved" ELSE "claim", strength |-> strength,
   members |-> ToSet(classes[1]), reached |-> reached]
ClaimOf(strength, classes, reached, conflict) ==
  IF Len(classes) = 1 /\ ~conflict
  THEN [status |-> "claim", strength |-> strength, members |-> ToSet(classes[1]),
        reached |-> reached]
  ELSE [status |-> "unresolved", reached |-> reached]

Decide(known, c) ==
  LET Weakness(n) == CompareWeakness(c.weakness, known[n].weakness)
      Resource(n) == CompareResource(c.resource, known[n].resource)
      sharing == SharingIdentifiers(known, c.weakness)
      fitting == {n \in ToSet(sharing) : Weakness(n) # "none" /\ Resource(n) # "different"}
      exact == {n \in fitting : Weakness(n) = "same" /\ Resource(n) = "exact"}
      printed == Fingerprinted(known, c)
      reached == fitting \cup ToSet(printed)
      named == Classes(known, printed)
      \* Weakness and resource name another finding than the fingerprints.
      elsewhere == \E n \in exact : /\ n \notin ToSet(named[1])
                                    /\ ~SameIdentity(known[n], known[named[1][1]])
  IN IF printed # <<>>
     THEN ClaimOf("strong", named, reached, Len(named) = 1 /\ elsewhere)
     ELSE IF exact # {}
     THEN ClaimOf("strong", Classes(known, Only(sharing, exact)), reached, FALSE)
     ELSE IF fitting # {}
     THEN ClaimOf("weak", Classes(known, Only(sharing, fitting)), reached, FALSE)
     ELSE [status |-> IF Specific(c.weakness) # {} /\ Sufficient(c.resource)
                      THEN "new" ELSE "unresolved",
           reached |-> reached]

-----------------------------------------------------------------------------
(***************************************************************************)
(* Source code that moved: new candidates and findings that no evidence    *)
(* reached meet in buckets of one file, symbol and weakness.               *)
(***************************************************************************)

SameBucket(l, r) ==
  /\ SameSourceScope(l.resource, r.resource)
  /\ CompareWeakness(l.weakness, r.weakness) = "same"

\* A bucket is the list of its candidates, its first standing for all.
Buckets(batch, located) ==
  Grouped(Ascending(located),
          {p \in located \X located : SameBucket(batch[p[1]], batch[p[2]])})

Orphans(known, reached, first) ==
  LET sharing == SharingIdentifiers(known, first.weakness)
      left == {n \in ToSet(sharing) : n \notin reached /\ SameBucket(first, known[n])}
      classes == Classes(known, Only(sharing, left))
  IN Only(classes, {class \in ToSet(classes) : HasLocation(known[class[1]].resource)})

Place(items, class) ==
  LET fields == items[class[1]].resource.fields
  IN [part \in DOMAIN fields \cap (SpanDetail \cup {"startLine"}) |-> fields[part]]

Placeholder == "n/a"

\* The orphans that fit one bucket only; others are the orphans of all buckets.
Free(orphans, others) ==
  LET Fits(n) == Cardinality({k \in DOMAIN others : \E class \in ToSet(others[k]) :
                                                      n \in ToSet(class)})
  IN Only(orphans, {class \in ToSet(orphans) : \A n \in ToSet(class) : Fits(n) = 1})

Pairs(known, batch, groups, free, symbol) ==
  AlignShifted([g \in DOMAIN groups |-> Place(batch, groups[g])],
               [o \in DOMAIN free |-> Place(known, free[o])],
               symbol \notin {{}, {Placeholder}})

\* The decisions on the candidates of one bucket.  found: the findings of the pairs
\* that each candidate is in.
Placed(known, bucket, found, complete) ==
  [n \in ToSet(bucket) |->
     IF found[n] # {}
     THEN [status |-> "matched", by |-> "moved", finding |-> Preferred(known, found[n])]
     ELSE IF complete THEN [status |-> "new"] ELSE [status |-> "unresolved"]]

InPairs(known, bucket, groups, free, pairs, orphans) ==
  Placed(known, bucket,
         [n \in ToSet(bucket) |->
            UNION {ToSet(free[p[2]]) : p \in {q \in pairs : n \in ToSet(groups[q[1]])}}],
         Len(orphans) = Cardinality(pairs))

InBucket(known, batch, bucket, groups, free, orphans) ==
  InPairs(known, bucket, groups, free,
          Pairs(known, batch, groups, free, Part(batch[bucket[1]].resource.fields, "symbol")),
          orphans)

InBuckets(known, batch, fresh, buckets, orphans) ==
  LET decided == [k \in DOMAIN buckets |->
        InBucket(known, batch, buckets[k], Classes(batch, buckets[k]),
                 Free(orphans[k], orphans), orphans[k])]
  IN [n \in fresh |->
        LET home == {k \in DOMAIN buckets : n \in ToSet(buckets[k])}
        IN IF home = {} THEN [status |-> "new"] ELSE decided[CHOOSE k \in home : TRUE][n]]

AgainstOrphans(known, batch, fresh, reached, buckets) ==
  InBuckets(known, batch, fresh, buckets,
            Once([k \in DOMAIN buckets |-> Orphans(known, reached, batch[buckets[k][1]])]))

PairShifted(known, batch, fresh, reached) ==
  AgainstOrphans(known, batch, fresh, reached,
                 Buckets(batch, {n \in fresh : HasLocation(batch[n].resource)}))

-----------------------------------------------------------------------------
(***************************************************************************)
(* New candidates of one identity form a group; a group joins the single   *)
(* group it is compatible with, those with fewer fields first, and is      *)
(* ambiguous if there are several.  Groups are named by their place.       *)
(***************************************************************************)

\* of: the candidates of each group that is still open.
Joined(batch, of, g) ==
  LET Compatible(s, t) == \A a \in s, b \in t : CompatibleIdentity(batch[a], batch[b])
      targets == {h \in DOMAIN of \ {g} : Compatible(of[g], of[h])}
  IN IF targets = {} THEN of
     ELSE [h \in DOMAIN of \ {g} |-> IF targets = {h} THEN of[h] \cup of[g] ELSE of[h]]

Fold(batch, groups, order) ==
  LET folded[k \in 0..Len(groups)] ==
        IF k = 0 THEN [g \in DOMAIN groups |-> ToSet(groups[g])]
        ELSE Joined(batch, folded[k - 1], order[k])
  IN folded[Len(groups)]

InGroups(fresh, of) ==
  [n \in fresh |->
     LET home == {g \in DOMAIN of : n \in of[g]}
     IN IF home = {} THEN [status |-> "unresolved"]
                     ELSE [status |-> "new", group |-> CHOOSE g \in home : TRUE]]

GroupNew(batch, fresh) ==
  LET groups == Classes(batch, Ascending(fresh))
      Fields(g) == Cardinality(DOMAIN batch[groups[g][1]].resource.fields)
  IN InGroups(fresh, Fold(batch, groups, InOrder(DOMAIN groups,
                                           [g \in DOMAIN groups |-> <<Fields(g), g>>])))

-----------------------------------------------------------------------------
\* Weak claims must be exclusive among the identities of a batch.
Contested(batch, pending, n) ==
  /\ pending[n].strength = "weak"
  /\ \E m \in DOMAIN batch : /\ pending[m].status = "claim"
                             /\ pending[m].members \cap pending[n].members # {}
                             /\ ~SameIdentity(batch[n], batch[m])

Settled(known, batch, pending, n) ==
  IF pending[n].status = "claim" /\ ~Contested(batch, pending, n)
  THEN [status |-> "matched", by |-> pending[n].strength,
        finding |-> Preferred(known, pending[n].members)]
  ELSE [status |-> "unresolved"]

Concluded(known, batch, pending, fresh, shifted) ==
  LET grouped == GroupNew(batch, {n \in fresh : shifted[n].status = "new"})
  IN [n \in DOMAIN batch |->
        IF n \notin fresh THEN Settled(known, batch, pending, n)
        ELSE IF n \in DOMAIN grouped THEN grouped[n] ELSE shifted[n]]

Matched(known, batch, pending, fresh) ==
  Concluded(known, batch, pending, fresh,
            PairShifted(known, batch, fresh, UNION {pending[n].reached : n \in DOMAIN batch}))

Resolved(known, batch, pending) ==
  Matched(known, batch, pending, {n \in DOMAIN batch : pending[n].status = "new"})

Match(known, batch) == 
  Resolved(known, batch, Once([n \in DOMAIN batch |-> Decide(known, batch[n])]))
=============================================================================
