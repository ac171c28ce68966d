------------------------------- MODULE Config -------------------------------
(***************************************************************************)
(* Reading the configuration (parse_configfile() and config_cb() of        *)
(* cgit): a stack of open files, each read line by line, of which a line   *)
(* may set a global option, name a repository, set an attribute of the     *)
(* current one, include another file or scan a directory tree, directly or *)
(* through the cached list.                                                *)
(*                                                                         *)
(* files, tree and list do not change while the configuration is read.     *)
(***************************************************************************)
EXTENDS Repos

CONSTANTS MaxNesting,   \* the 8 of parse_configfile()
          Chunk         \* the 8 the array of cgit_add_repo() starts with

ASSUME ConfigAssumption == MaxNesting \in Nat /\ Chunk \in Nat \ {0}

\* Options that may be given several times.
Lists == {"readme", "css", "js"}

VARIABLES files,  \* [name of a file -> its lines]
          tree,   \* the directories below the scanned path
          list,   \* the lines of the cached list, or None when there is none
          stack,  \* the open files and their next lines; its length is "nesting"
          cfg,    \* ctx.cfg
          repos,  \* cgit_repolist
          room,   \* cgit_repolist.length
          cur,    \* the index of ctx.repo, 0 for NULL
          stale,  \* ctx.repo points into an array xrealloc() has given back
          heard,  \* history: what config_cb() was called with, and the scans
          born    \* history: for each repository, the event of heard that added it

\* ctx.cfg as prepare_context() leaves it: the options that are looked at while
\* the configuration is read; "other" stands for all the rest.
Cfg0 ==
  [n \in Flags \cup {"max-stats", "branch-sort", "commit-sort", "cache-size",
                     "enable-filter-overrides", "enable-git-config",
                     "remove-suffix", "section-from-path",
                     "scan-hidden-path"} |-> 0]
  @@ [n \in Filters \cup {"module-link", "clone-url", "project-list",
                          "strict-export", "other"} |-> None]
  @@ [n \in Lists \cup {"section"} |-> <<>>]
  @@ [n \in {"snapshots"} |-> {}] @@ [n \in {"max-repo-count"} |-> 50]

inputs == <<files, tree, list>>
vars   == <<inputs, stack, cfg, repos, room, cur, stale, heard, born>>

Top      == stack[Len(stack)]
NextLine == files[Top.file][Top.pos]
Advanced == [stack EXCEPT ![Len(stack)].pos = @ + 1]
OneMore  == Len(stack) > MaxNesting + 1   \* mutant
TooDeep  == Len(stack) > MaxNesting

AtLine(n) == /\ stack # <<>>
             /\ Top.pos \in DOMAIN files[Top.file]
             /\ NextLine.name = n

\* The array doubles until it holds n repositories.
Grown(n) ==
  IF n <= room THEN room
  ELSE CHOOSE r \in {Chunk * 2^k : k \in 0..n} : r >= n /\ (r = Chunk \/ r \div 2 < n)

(***************************************************************************)
(* The options of config_cb() that only set ctx.cfg, by the way their      *)
(* values are read.  "other" stands for the texts and numbers that are not *)
(* looked at while the configuration is read.                              *)
(***************************************************************************)
SetGlobal(c, n, v) ==
  CASE n \in Lists           -> [c EXCEPT ![n] = Append(@, v)]
    [] n = "snapshots"       -> [c EXCEPT ![n] = Mask(v)]
    [] n = "max-stats"       -> [c EXCEPT ![n] = PeriodOf(v)]
    [] n = "max-repo-count"  -> [c EXCEPT ![n] = IF v <= 0 THEN None ELSE v]
    [] n = "branch-sort"     -> [c EXCEPT ![n] = CASE v = "age" -> 1 [] v = "name" -> 0 [] OTHER -> @]
    [] n = "commit-sort"     -> [c EXCEPT ![n] = CASE v = "date" -> 1 [] v = "topo" -> 2 [] OTHER -> @]
    [] n \in Filters         -> [c EXCEPT ![n] = NewFilter(v)]
    [] n \in DOMAIN c        -> [c EXCEPT ![n] = v]
    [] OTHER                 -> c

GlobalOption ==
  /\ stack # <<>> /\ Top.pos \in DOMAIN files[Top.file]
  /\ ~NextLine.repo \/ (cur = 0 /\ NextLine.name # "url")
  /\ NextLine.name \notin {"scan-path", "include"}
  /\ cfg' = IF NextLine.repo THEN cfg ELSE SetGlobal(cfg, NextLine.name, NextLine.value)
  /\ stack' = Advanced
  /\ heard' = Append(heard, NextLine)
  /\ UNCHANGED <<inputs, repos, room, cur, stale, born>>

\* Whether ctx.repo points into the array after cgit_add_repo(): it returns a
\* pointer into the array it has just moved.
Moved(grown)     == FALSE

\* repo.url: cgit_add_repo(), and ctx.repo points at the new entry.
RepoUrl ==
  /\ AtLine("url") /\ NextLine.repo
  /\ repos' = Append(repos, NewRepo(cfg, NextLine.value))
  /\ room' = Grown(Len(repos'))
  /\ cur' = Len(repos')
  /\ stale' = Moved(room' # room)
  /\ stack' = Advanced
  /\ heard' = Append(heard, NextLine)
  /\ born' = Append(born, Len(heard'))
  /\ UNCHANGED <<inputs, cfg>>

\* Any other repo. line, through ctx.repo.  When that points into an array
\* that was moved, the line is lost.  (repo.path loses its trailing slashes,
\* which a path here does not have.)
RepoSetting(c, r, n, v) == IF n = "path" THEN [r EXCEPT !["path"] = v] ELSE RepoConfig(c, r, n, v)

RepoOption ==
  /\ stack # <<>> /\ Top.pos \in DOMAIN files[Top.file]
  /\ NextLine.repo /\ NextLine.name # "url" /\ cur # 0
  /\ repos' = IF stale THEN repos
              ELSE [repos EXCEPT ![cur] = RepoSetting(cfg, @, NextLine.name, NextLine.value)]
  /\ stack' = Advanced
  /\ heard' = Append(heard, IF stale THEN GlobalLine("lost", NextLine) ELSE NextLine)
  /\ UNCHANGED <<inputs, cfg, room, cur, stale, born>>

\* include, and the limit on its depth.
Include ==
  /\ AtLine("include") /\ ~NextLine.repo
  /\ stack' = IF TooDeep \/ NextLine.value \notin DOMAIN files
                THEN Advanced
                ELSE Append(Advanced, [file |-> NextLine.value, pos |-> 1])
  /\ heard' = Append(heard, NextLine)
  /\ UNCHANGED <<inputs, cfg, repos, room, cur, stale, born>>

EndOfFile ==
  /\ stack # <<>>
  /\ Top.pos \notin DOMAIN files[Top.file]
  /\ stack' = Front(stack)
  /\ UNCHANGED <<inputs, cfg, repos, room, cur, stale, heard, born>>

Cached == cfg["cache-size"] # 0 /\ list # None

\* scan-path without a cached list: scan_tree() or scan_projects(), also as
\* part of generate_cached_repolist().  ctx.repo stays where it points; when
\* xrealloc() moves the array that is no longer an entry of it.
ScanTree ==
  /\ AtLine("scan-path") /\ ~NextLine.repo
  /\ ~Cached
  /\ repos' = repos \o Scan(cfg, tree, TooDeep)
  /\ room' = Grown(Len(repos'))
  /\ stale' \in IF cur # 0 /\ room' # room THEN {stale, TRUE} ELSE {stale}
  /\ stack' = Advanced
  /\ heard' = Append(heard, NextLine)
  /\ born' = born \o [i \in 1..(Len(repos') - Len(repos)) |-> Len(heard')]
  /\ UNCHANGED <<inputs, cfg, cur>>

(***************************************************************************)
(* process_cached_repolist() with a list: the list is a configuration file *)
(* of "repo." lines, so the current repository is its last one afterwards. *)
(***************************************************************************)
ReadList(c, rs, ls) ==
  Fold(LAMBDA s, l : IF l.name = "url" THEN Append(s, NewRepo(c, l.value))
                     ELSE [s EXCEPT ![Len(s)] = RepoSetting(c, @, l.name, l.value)],
       rs, ls)

UrlsIn(ls) == SetToSortSeq({k \in DOMAIN ls : ls[k].name = "url"}, <)

ScanCached ==
  /\ AtLine("scan-path") /\ ~NextLine.repo
  /\ Cached
  /\ IF TooDeep \/ list = <<>>
       THEN UNCHANGED <<repos, room, cur, stale, heard, born>>
       ELSE /\ repos' = ReadList(cfg, repos, list)
            /\ room' = Grown(Len(repos'))
            /\ cur' = Len(repos')
            /\ stale' = FALSE
            /\ heard' = heard \o list
            /\ born' = born \o [i \in DOMAIN UrlsIn(list) |-> Len(heard) + UrlsIn(list)[i]]
  /\ stack' = Advanced
  /\ UNCHANGED <<inputs, cfg>>

InitWith(fs, t, l) ==
  /\ files = fs /\ tree = t /\ list = l
  /\ stack = <<[file |-> "main", pos |-> 1]>>
  /\ cfg = Cfg0
  /\ repos = <<>> /\ room = 0 /\ cur = 0 /\ stale = FALSE
  /\ heard = <<>> /\ born = <<>>

Next == \/ GlobalOption \/ RepoUrl \/ RepoOption \/ Include \/ EndOfFile
        \/ ScanTree \/ ScanCached

-----------------------------------------------------------------------------
\* At most MaxNesting + 1 files are open, the current repository is an entry
\* of the list, and the array holds all of them.
TypeOK ==
  /\ Len(stack) \in 0..(MaxNesting + 1)
  /\ cur \in 0..Len(repos)
  /\ Len(repos) <= room
  /\ Len(born) = Len(repos)
  /\ stale => cur # 0
  /\ \A i \in DOMAIN repos : DOMAIN repos[i] = Attrs

(***************************************************************************)
(* What the files say, told without reading them line by line: a           *)
(* repository has, for each attribute, what the last of its own lines      *)
(* says, and without one what the last global line before it says.  The    *)
(* lines of a repository are those from its repo.url to the next.          *)
(***************************************************************************)
IsUrl(k)  == heard[k].repo /\ heard[k].name = "url"
Own(i, n) == {k \in DOMAIN heard :
                 /\ k > born[i] /\ heard[k].repo /\ heard[k].name = n
                 /\ \A j \in (born[i] + 1)..k : ~IsUrl(j)}
Globals(i, n) == {k \in 1..(born[i] - 1) : ~heard[k].repo /\ heard[k].name = n}
LastOf(ks) == heard[CHOOSE k \in ks : \A j \in ks : j <= k].value

\* The attributes that have a global default.
Defaults == Flags \cup {"section", "module-link", "clone-url"}
NamedRepos == {i \in DOMAIN repos : IsUrl(born[i])}

\* The text attributes and flags of a repository the files name are those of
\* its last line about them, or else of the last global line before it
\* (config_cb(), cgit_add_repo(), cgit_repo_config()).
SettingsAsWritten ==
  \A i \in NamedRepos : \A n \in (Texts \cup Flags) \ {"name", "desc"} :
    repos[i][n] = CASE Own(i, n) # {}                       -> LastOf(Own(i, n))
                    [] n \in Defaults /\ Globals(i, n) # {} -> LastOf(Globals(i, n))
                    [] n \in Defaults                       -> Cfg0[n]
                    [] OTHER                                -> None

\* The readme lines of a repository replace the global ones that stand before
\* it, and a global line that comes later does not reach it, although both
\* lists start as one array (cgit.c:103).
Values(ks) == LET s == SetToSortSeq(ks, <) IN [i \in DOMAIN s |-> heard[s[i]].value]
ReadmeOwnOrShared ==
  \A i \in NamedRepos :
    repos[i]["readme"] = IF Own(i, "readme") # {} THEN Values(Own(i, "readme"))
                         ELSE Values(Globals(i, "readme"))

\* A snapshot format is offered only if it was allowed globally when the line
\* of the repository, or its repo.url, was read.
SnapshotsAllowed ==
  \A i \in NamedRepos :
    LET at == IF Own(i, "snapshots") = {} THEN born[i]
              ELSE CHOOSE k \in Own(i, "snapshots") : \A j \in Own(i, "snapshots") : j <= k
        gs == {k \in 1..at : ~heard[k].repo /\ heard[k].name = "snapshots"}
        allowed == IF gs = {} THEN Cfg0["snapshots"] ELSE Mask(LastOf(gs))
    IN  repos[i]["snapshots"] = IF Own(i, "snapshots") = {} THEN allowed
                                ELSE allowed \cap Mask(LastOf(Own(i, "snapshots")))

\* A "repo." line is lost only when an uncached scan moved the list after the
\* repo.url it belongs to (shared.c:47, cgit.c:135).
LostOnlyAfterScan ==
  \A k \in DOMAIN heard : heard[k].name = "lost" =>
    \E j \in 1..(k - 1) : /\ heard[j].name = "scan-path"
                          /\ \A i \in j..k : ~IsUrl(i)

\* What a repository is after any sequence of lines, in any files that include
\* each other, with scans between: by parts.
SettingsInv ==
  /\ TypeOK
  /\ SettingsAsWritten /\ ReadmeOwnOrShared /\ SnapshotsAllowed /\ LostOnlyAfterScan
-----------------------------------------------------------------------------
(***************************************************************************)
(* Scanning.                                                               *)
(***************************************************************************)
NewOnes == SubSeq(repos', Len(repos) + 1, Len(repos'))
ScanStep == /\ stack # <<>> /\ Top.pos \in DOMAIN files[Top.file]
            /\ NextLine.name = "scan-path" /\ ~NextLine.repo
            /\ repos' # repos

\* Every exported git directory below a start of the scan that is not below
\* another one is listed, once, and nothing else; hidden directories are
\* entered only with scan-hidden-path, except a ".git" itself.
Below(p, d)   == IsPrefix(p, d)
WorkTree(d)   == IF d # <<>> /\ Last(d) = ".git" THEN Front(d) ELSE d
Reached(s, d) ==
  LET w == WorkTree(d)
  IN  /\ Below(s, w) /\ tree[d].git
      /\ w # d => ~tree[w].git
      /\ \A k \in Len(s)..(Len(w) - 1) :
           ~IsGitDir(tree, SubSeq(w, 1, k)) /\ ~IsGitDir(tree, Append(SubSeq(w, 1, k), ".git"))
      /\ \A k \in (Len(s) + 1)..Len(w) : cfg["scan-hidden-path"] = 1 \/ ~Hidden(w[k])
ScanFindsAll ==
  [][ScanStep /\ ~Cached =>
       LET starts == {s \in ToSet(ScanStarts(cfg)) : s \in DOMAIN tree}
           paths  == {NewOnes[i]["path"] : i \in DOMAIN NewOnes}
       IN  /\ paths = {d \in DOMAIN tree :
                          /\ ~tree[d].noweb /\ (tree[d].export \/ cfg["strict-export"] = None)
                          /\ \E s \in starts : Reached(s, d)}
           /\ Len(NewOnes) = Cardinality(paths)]_vars

\* The section taken from the path and the name left over are together the
\* URL: section-from-path and remove-suffix lose nothing of it.
SplitByPath(r) ==
  LET d     == tree[r["path"]]
      named == {d.rc[k].name : k \in DOMAIN d.rc} \cup {GitKey(d.config[k].name) : k \in DOMAIN d.config}
  IN  named \cap {"section", "name"} = {} /\ r["section"] # cfg["section"]
SectionAndName ==
  [][ScanStep /\ ~Cached =>
       \A i \in DOMAIN NewOnes :
         SplitByPath(NewOnes[i]) =>
           NewOnes[i]["section"] \o NewOnes[i]["name"] = NewOnes[i]["url"]]_vars

\* A scan lists what is there, with names and sections that lose nothing.
ScanRight == ScanFindsAll /\ SectionAndName

\* What one request writes into the cached list is what the next one reads:
\* the list read back under the same options gives the repositories of the
\* scan, except for what print_repo() does not write: the path of a submodule,
\* branch-sort=name where the global option is "age", max-stats=year, and that a
\* repository has no filter where there is a global one.
Kept(r) == [a \in Attrs \ {"shared-readme"} |-> r[a]]
Lost(r) ==
  [a \in DOMAIN Kept(r) |->
     CASE a = "submodules"                                     -> <<>>
       [] a = "branch-sort" /\ r[a] = 0                        -> cfg[a]
       [] a = "max-stats" /\ r[a] = 4 /\ cfg["max-stats"] # 4  -> 0
       [] a \in Filters /\ r[a] = None                         -> cfg[a]
       [] OTHER                                                -> r[a]]
ReadBack(rs) == ReadList(cfg, <<>>, PrintRepolist(cfg, rs))
ListKeepsRepos ==
  [][ScanStep /\ ~Cached =>
       \E back \in {ReadBack(NewOnes)} :
         [i \in DOMAIN back |-> Kept(back[i])] = [i \in DOMAIN NewOnes |-> Lost(NewOnes[i])]]_vars

\* cgitrc.5.txt:385: "If caching is enabled, the result will be cached as a
\* cgitrc include-file": the list gives back all of the scan.
ListKeepsAll ==
  [][ScanStep /\ ~Cached =>
       \E back \in {ReadBack(NewOnes)} :
         [i \in DOMAIN back |-> Kept(back[i])] = [i \in DOMAIN NewOnes |-> Kept(NewOnes[i])]]_vars
=============================================================================
