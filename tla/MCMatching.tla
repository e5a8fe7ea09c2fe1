----------------------------- MODULE MCMatching -----------------------------
(***************************************************************************)
(* Matching for TLC, in worlds of three kinds.  Packages and images have   *)
(* resources of which a part may be unknown, weaknesses of several         *)
(* namespaces, and a finding by hand that knows only a CWE.  Code is one   *)
(* file, with spans of several shapes on a few lines.  A report of code    *)
(* has no fingerprints, or all its results have one and no two the same,   *)
(* as the normalizers have it: Semgrep's alone gives fingerprints, which   *)
(* are location fingerprints as well.                                      *)
(***************************************************************************)
EXTENDS Matching

None == <<>>
Item(weakness, type, fields, fingerprints, place) ==
  [weakness |-> weakness, resource |-> [type |-> type, fields |-> fields],
   fingerprints |-> fingerprints, place |-> place]
AsFinding(item) == item @@ [duplicate |-> FALSE]
Findings(items) == [n \in DOMAIN items |-> AsFinding(items[n])]

UpTo(set, length) == UNION {[1..n -> set] : n \in 1..length}

-----------------------------------------------------------------------------
Cve == "cve" :> {1}
CveAndGhsa == "cve" :> {1} @@ "ghsa" :> {1}
Ghsa == "ghsa" :> {1}
Cwe == "cwe" :> {1}
Rule == "semgrep" :> {1}

Package(weakness, path) ==
  Item(weakness, "package", "name" :> 1 @@ [f \in path |-> 1], None, {})
PackageItems ==
  { Package(Cve, {"installationPath"}), Package(Cve, {}),
    Package(CveAndGhsa @@ Cwe, {"installationPath"}),
    Package(Ghsa @@ Cwe, {"installationPath"}), Package(Ghsa, {}),
    Package(Cwe, {"installationPath"}) }
PackageWorlds ==
  { <<>> } \cup {Findings(<<l>>) : l \in PackageItems}
    \cup {Findings(<<Package(Cwe, {"installationPath"}), l>>) : l \in PackageItems}

Image(fields) ==
  Item(Cve, "containerImage", fields @@ "repository" :> 1, None, {})
ImageItems ==
  { Image(fields) : fields \in {None, "registry" :> 1, "registry" :> 2, "digest" :> 1,
                                "registry" :> 1 @@ "digest" :> 1} }
ImageWorlds == { <<>> } \cup {Findings(<<l>>) : l \in ImageItems}

Code(line, column, end, fingerprints, place) ==
  Item(Rule, "sourceCode",
       "file" :> 1 @@ "startLine" :> line @@ "startColumn" :> column @@ end,
       fingerprints, place)
Plain(line, column) == Code(line, column, None, None, {})
Printed(line, print) == Code(line, 1, None, "semgrep" :> {print}, {print})

PlainReports ==
  UpTo({Plain(1, 1), Plain(2, 1), Plain(2, 2), Plain(3, 1),
         Code(2, 1, "endColumn" :> 3, None, {})}, 3)
PrintedReports ==
  {batch \in UpTo({Printed(line, print) : line \in 2..3, print \in 1..3}, 3) :
     \A n, m \in DOMAIN batch : n # m => batch[n].place # batch[m].place}
CodeWorlds ==
  { Findings(<<Plain(2, 1)>>),
    Findings(<<Plain(4, 1), Plain(2, 1)>>),
    Findings(<<Plain(4, 2), Plain(5, 1)>>),
    Findings(<<Printed(4, 1), Plain(5, 1), Printed(6, 3)>>),
    Findings(<<Code(4, 1, "endColumn" :> 4, None, {}), Plain(5, 2), Plain(6, 1)>>) }

-----------------------------------------------------------------------------
MCNamespaceOrder == <<"cve", "cwe", "ghsa", "semgrep">>
MCWorlds == [package |-> PackageWorlds, image |-> ImageWorlds, code |-> CodeWorlds]
MCReports ==
  [package |-> UpTo(PackageItems, 2), image |-> UpTo(ImageItems, 3),
   code |-> PlainReports \cup PrintedReports]

\* A resource given by a user brings its location fingerprint.
Corrections(items) == {[resource |-> item.resource, place |-> item.place] : item \in items}
MCEdits ==
  [package |-> {[weakness |-> Cve]} \cup Corrections({Package(Cve, {})}),
   image |-> Corrections({Image("registry" :> 1)}),
   code |-> Corrections({Plain(1, 1)})]
=============================================================================
