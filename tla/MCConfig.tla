------------------------------ MODULE MCConfig ------------------------------
(* Small configurations for TLC: every short file over a handful of lines,  *)
(* files that include each other, and scans of small trees under every      *)
(* combination of the options that direct a scan.                           *)
EXTENDS Config

CONSTANTS MaxLines,  \* the longest main file
          Oddities   \* whether repositories have settings the list loses

MCStem == [c \in {"a.git", "c.git", "e.git"} |->
             CASE c = "a.git" -> "a" [] c = "c.git" -> "c" [] OTHER -> "e"]

\* One line of each kind, and two where the order of two matters.
Lines ==
  {GlobalLine("section", <<"s1">>), GlobalLine("readme", "R1"),
   GlobalLine("snapshots", {"tar"}), GlobalLine("snapshots", {"all"}),
   RepoLine("url", <<"u1">>), RepoLine("url", <<"u2">>),
   RepoLine("section", <<"s2">>), RepoLine("readme", "R2"),
   RepoLine("snapshots", {"tar", "zip"}),
   GlobalLine("scan-path", "base"), GlobalLine("include", "inc")}

IncludeFiles == {<<>>,
                 <<GlobalLine("include", "inc"), GlobalLine("section", <<"s3">>),
                   GlobalLine("include", "main")>>}

Dir     == [git |-> FALSE, noweb |-> FALSE, export |-> FALSE,
            config |-> <<>>, rc |-> <<>>, desc |-> None]
Git     == [Dir EXCEPT !.git = TRUE, !.export = TRUE]
BaseTree ==
  (<<>> :> Dir) @@ (<<"a.git">> :> Git)
  @@ (<<"b">> :> Dir) @@ (<<"b", ".git">> :> [Git EXCEPT !.export = FALSE])
  @@ (<<"g">> :> Dir) @@ (<<"g", "c.git">> :> Git) @@ (<<"g", "c.git", "e.git">> :> Git)
  @@ (<<".hidden">> :> Dir) @@ (<<".hidden", "e.git">> :> Git)
SmallTree == (<<>> :> Dir) @@ (<<"a.git">> :> Git) @@ (<<"b">> :> Git)

\* Settings of one repository of the tree.
OwnLines ==
  {<<RepoLine("section", <<"s2">>), RepoLine("readme", "R2"), RepoLine("readme", "R3")>>,
   <<RepoLine("name", <<"n">>), RepoLine("owner", "O"), RepoLine("desc", "D"),
     RepoLine("about-filter", "F2"), RepoLine("hide", 1)>>,
   <<RepoLine("snapshots", {"tar"}), RepoLine("enable-blame", 1),
     RepoLine("max-stats", "quarter"), RepoLine("commit-sort", "topo"),
     RepoLine("branch-sort", "age"), RepoLine("ignore", 1)>>}
  \cup IF Oddities
         THEN {<<RepoLine("module-link.", <<"sub", "L">>)>>,
               <<RepoLine("max-stats", "year")>>, <<RepoLine("branch-sort", "name")>>,
               <<RepoLine("about-filter", "")>>}
         ELSE {}
AsConfig(ls) == [i \in DOMAIN ls |-> [name |-> <<"cgit", ls[i].name>>, value |-> ls[i].value]]
GitwebLines  == <<[name |-> <<"gitweb", "owner">>, value |-> "O2"],
                  [name |-> <<"gitweb", "category">>, value |-> <<"s4">>],
                  [name |-> <<"gitweb", "remote">>, value |-> "x"]>>

Trees ==
  {BaseTree, [BaseTree EXCEPT ![<<"a.git">>].noweb = TRUE, ![<<"g", "c.git">>].desc = "D2"]}
  \cup {[BaseTree EXCEPT ![<<"g", "c.git">>].rc = ls] : ls \in OwnLines}
  \cup {[BaseTree EXCEPT ![<<"g", "c.git">>].config = AsConfig(ls) \o GitwebLines,
                         ![<<"a.git">>].rc = ls] : ls \in OwnLines}

Option(n, vs) == {IF v = Cfg0[n] THEN <<>> ELSE <<GlobalLine(n, v)>> : v \in vs}

\* Options, a scan, and a line after it that must not reach the repositories.
ScanFiles ==
  {h \o s \o d \o e \o p \o g \o <<GlobalLine("scan-path", "base"), GlobalLine("max-repo-count", 0)>> :
     h \in Option("scan-hidden-path", {0, 1}), s \in Option("remove-suffix", {0, 1}),
     d \in Option("section-from-path", {0, 1, -1}), e \in Option("strict-export", {None, "ok"}),
     p \in Option("project-list", {None, <<<<"g">>, <<".hidden">>, <<"gone">>>>}),
     g \in {<<>>,
            <<GlobalLine("enable-git-config", 1), GlobalLine("enable-filter-overrides", 1),
              GlobalLine("about-filter", "F1"), GlobalLine("snapshots", {"all"}),
              GlobalLine("branch-sort", "age"), GlobalLine("readme", "R1")>>}}

CachedList == PrintRepolist(Cfg0, Scan(Cfg0, SmallTree, FALSE))

Init ==
  \/ \E main \in UNION {[1..n -> Lines] : n \in 0..MaxLines}, inc \in IncludeFiles :
       InitWith(("main" :> main) @@ ("inc" :> inc), SmallTree, None)
  \/ \E main \in UNION {[1..n -> Lines] : n \in 0..(MaxLines - 1)} :
       InitWith(("main" :> <<GlobalLine("cache-size", 10)>> \o main) @@ ("inc" :> <<>>),
                SmallTree, CachedList)
  \/ \E main \in ScanFiles, t \in Trees :
       InitWith("main" :> main, t, None)

Spec == Init /\ [][Next]_vars
=============================================================================
