------------------------------- MODULE Repos -------------------------------
(***************************************************************************)
(* The repositories a configuration describes (shared.c, cgit.c and        *)
(* scan-tree.c): what a new repository inherits, what a "repo." line, a    *)
(* git config or the cgitrc file of a repository changes, how a directory  *)
(* tree is scanned, and the lines of the cached list.                      *)
(*                                                                         *)
(* A path, a URL and the name of a repository are sequences of path        *)
(* components; other texts and filters are opaque values.  A snapshot mask *)
(* is the set of its formats.                                              *)
(***************************************************************************)
EXTENDS Integers, Sequences, SequencesExt, FiniteSets

CONSTANTS None,       \* a NULL pointer
          Default,    \* cgit_default_repo_desc
          FileOwner,  \* the name getpwuid() gives for the owner of a directory
          Formats,    \* the snapshot formats this build knows
          Stem        \* [component ending in ".git" -> the component without it]

(***************************************************************************)
(* The attributes of struct cgit_repo, by the way their lines are read.    *)
(***************************************************************************)
Texts   == {"name", "clone-url", "desc", "owner", "homepage", "defbranch",
            "extra-head-content", "module-link", "section",
            "snapshot-prefix", "logo", "logo-link"}
Flags   == {"enable-blame", "enable-commit-graph", "enable-follow-links",
            "enable-log-filecount", "enable-log-linecount",
            "enable-remote-branches", "enable-subject-links",
            "enable-html-serving"}
Hides   == {"hide", "ignore"}
Filters == {"about-filter", "commit-filter", "source-filter",
            "email-filter", "owner-filter"}
Periods == <<"week", "month", "quarter", "year">>

Attrs == Texts \cup Flags \cup Hides \cup Filters
         \cup {"url", "path", "snapshots", "max-stats", "branch-sort",
               "commit-sort", "readme", "shared-readme", "submodules"}

\* What cgit_add_repo() copies from ctx.cfg.
Inherited == Flags \cup Filters \cup
             {"section", "snapshots", "max-stats", "branch-sort",
              "commit-sort", "module-link", "readme", "clone-url"}

\* A fold from the left, and the concatenation of Op(x) for the x of a
\* sequence.  (The sets of one element make TLC evaluate each term once.)
Fold(op(_, _), base, seq) ==
  LET run(s) == LET f[i \in 0..Len(s)] ==
                      IF i = 0 THEN base
                      ELSE CHOOSE w \in {op(t, x) : t \in {f[i - 1]}, x \in {s[i]}} : TRUE
                IN  f[Len(s)]
  IN  CHOOSE w \in {run(s) : s \in {seq}} : TRUE
Concat(Op(_), seq) == Fold(LAMBDA s, x : s \o Op(x), <<>>, seq)

\* cgit_add_repo().  "shared-readme" tells that the list of readmes is still
\* the array of ctx.cfg.readme; the name is the very string of the URL.
NewRepo(cfg, url) ==
  [a \in Attrs |->
     CASE a \in Inherited     -> cfg[a]
       [] a \in Hides         -> 0
       [] a \in {"url", "name"} -> url
       [] a = "desc"          -> Default
       [] a = "shared-readme" -> TRUE
       [] a = "submodules"    -> <<>>
       [] OTHER               -> None]

\* cgit_find_stats_period() and cgit_find_stats_periodname().
PeriodOf(text) == IF \E i \in 1..4 : Periods[i] = text
                    THEN CHOOSE i \in 1..4 : Periods[i] = text ELSE 0
ShortNames(i)  == IF i > 0 /\ i < 3 THEN Periods[i] ELSE ""   \* mutant
PeriodName(i)  == IF i > 0 /\ i < 4 THEN Periods[i] ELSE ""

\* cgit_parse_snapshots_mask(): the word "all" is INT_MAX, which also has bits no format
\* uses ("spare"); any other text is the set of the words in it.
\* build_snapshot_setting() writes the formats of a mask.
Mask(v)      == IF v = {"all"} THEN Formats \cup {"spare"} ELSE v \cap Formats
MaskText(ms) == ms \cap Formats

\* A readme line of a repository: the first takes the place of the shared list.
ReadmeAdded(r, v) == [r EXCEPT !["readme"] = Append(@, v)]   \* mutant: always appended
ReadmeLine(r, v)  == [r EXCEPT !["readme"] = IF r["shared-readme"] THEN <<v>> ELSE Append(@, v),
                               !["shared-readme"] = FALSE]

\* cgit_new_filter(): an empty command is no filter.
NewFilter(v) == IF v = "" THEN None ELSE v

Allowed(cfg, v)    == cfg["snapshots"] \cap Mask(v)

(***************************************************************************)
(* cgit_repo_config(): one setting of one repository.  A "module-link."    *)
(* line carries the path of the submodule in its value.                    *)
(***************************************************************************)
RepoConfig(cfg, r, n, v) ==
  CASE n \in Texts \cup Flags \cup Hides -> [r EXCEPT ![n] = v]
    [] n = "snapshots"    -> [r EXCEPT !["snapshots"] = Allowed(cfg, v)]
    [] n = "max-stats"    -> [r EXCEPT !["max-stats"] = PeriodOf(v)]
    [] n = "branch-sort"  /\ v = "age"  -> [r EXCEPT ![n] = 1]
    [] n = "branch-sort"  /\ v = "name" -> [r EXCEPT ![n] = 0]
    [] n = "commit-sort"  /\ v = "date" -> [r EXCEPT ![n] = 1]
    [] n = "commit-sort"  /\ v = "topo" -> [r EXCEPT ![n] = 2]
    [] n = "module-link." -> [r EXCEPT !["submodules"] = Append(@, v)]
    [] n = "readme"       -> ReadmeLine(r, v)
    [] n \in Filters /\ cfg["enable-filter-overrides"] = 1 -> [r EXCEPT ![n] = NewFilter(v)]
    [] OTHER -> r

\* A line of a cgitrc file: "repo." lines and global ones.
RepoLine(n, v)   == [repo |-> TRUE,  name |-> n, value |-> v]
GlobalLine(n, v) == [repo |-> FALSE, name |-> n, value |-> v]

(***************************************************************************)
(* print_repo(): the lines of one repository in the cached list.  Each     *)
(* attribute has its condition and the text it is written as.              *)
(***************************************************************************)
Writes(cfg, r, a) ==
  CASE a \in Flags \cup Hides \cup {"url", "name", "path"} -> TRUE
    [] a \in Filters -> r[a] # None /\ r[a] # cfg[a]
    [] a \in {"snapshots", "max-stats"} -> r[a] # cfg[a]
    [] a = "branch-sort" -> r[a] = 1
    [] a = "commit-sort" -> r[a] \in {1, 2}
    [] OTHER -> r[a] # None

WrittenAs(r, a) ==
  CASE a = "snapshots"   -> MaskText(r[a])
    [] a = "max-stats"   -> PeriodName(r[a])
    [] a = "branch-sort" -> "age"
    [] a = "commit-sort" -> IF r[a] = 1 THEN "date" ELSE "topo"
    [] OTHER             -> r[a]

Written == <<"url", "name", "path", "owner", "desc", "readme",
             "defbranch", "extra-head-content", "module-link", "section", "homepage", "clone-url">>
           \o <<"enable-blame", "enable-commit-graph", "enable-follow-links",
                "enable-log-filecount", "enable-log-linecount">>
           \o <<"about-filter", "commit-filter", "source-filter",
                "email-filter", "owner-filter", "snapshots",
                "snapshot-prefix", "max-stats", "logo", "logo-link">>
           \o <<"enable-remote-branches", "enable-subject-links",
                "enable-html-serving", "branch-sort", "commit-sort", "hide",
                "ignore">>

LinesOf(cfg, r, a) ==
  CASE a = "readme"      -> [i \in DOMAIN r["readme"] |-> RepoLine("readme", r["readme"][i])]
    [] Writes(cfg, r, a) -> <<RepoLine(a, WrittenAs(r, a))>>
    [] OTHER             -> <<>>

PrintRepo(cfg, r)      == Concat(LAMBDA a : LinesOf(cfg, r, a), Written)
PrintRepolist(cfg, rs) == Concat(LAMBDA r : PrintRepo(cfg, r), rs)

(***************************************************************************)
(* scan-tree.c.  A tree is a function from the directories below the       *)
(* scanned path (and the path itself, <<>>) to what they hold:             *)
(*   git     objects/ and HEAD, so that is_git_dir() says yes              *)
(*   noweb, export   the marker files                                      *)
(*   config, rc      the lines of its git config (key <<section, name>>)   *)
(*                   and of its cgitrc file                                *)
(*   desc    the first line of its description file, or None               *)
(***************************************************************************)
IsGitDir(tree, p) == p \in DOMAIN tree /\ tree[p].git
Hidden(c)         == c \in {".git", ".hidden"}
Children(tree, p) == {d \in DOMAIN tree : Len(d) = Len(p) + 1 /\ Front(d) = p}

\* The directories scan_path() hands to add_repo(), from p down.
ScanPath(tree, hidden, p) ==
  LET entered(d) == hidden = 1 \/ ~Hidden(Last(d))
      visit[q \in DOMAIN tree] ==
        CASE IsGitDir(tree, q)                 -> <<q>>
          [] IsGitDir(tree, Append(q, ".git")) -> <<Append(q, ".git")>>
          [] OTHER -> Concat(LAMBDA d : visit[d],
                             SetToSeq({d \in Children(tree, q) : entered(d)}))
  IN  visit[p]

\* scan_projects() starts one scan at each line of the file, scan_tree() one
\* at the path.
ScanStarts(cfg) == IF cfg["project-list"] = None THEN <<(<<>>)>> ELSE cfg["project-list"]

NoNoweb(cfg, d)  == cfg["strict-export"] # None => d.export   \* mutant
Exported(cfg, d) == /\ cfg["strict-export"] # None => d.export
                    /\ ~d.noweb

\* The suffix ".git" and the slash before it are cut off the URL, in place.
RemoveSuffix(url) ==
  CASE url = <<>>               -> url
    [] Last(url) = ".git"       -> Front(url)
    [] Last(url) \in DOMAIN Stem -> Append(Front(url), Stem[Last(url)])
    [] OTHER                    -> url

\* How many components of rel section-from-path takes, or -1 when it has too
\* few slashes.
SectionDepthFull(n, rel) ==   \* mutant: the whole path may become the section
  IF n > 0 THEN IF Len(rel) >= n THEN n ELSE -1
           ELSE IF Len(rel) > -n THEN Len(rel) + n ELSE -1
SectionDepth(n, rel) ==
  IF n > 0 THEN IF Len(rel) > n THEN n ELSE -1
           ELSE IF Len(rel) > -n THEN Len(rel) + n ELSE -1

ApplyLines(cfg, r, ls) ==
  Fold(LAMBDA s, l : RepoConfig(cfg, s, l.name, l.value), r, ls)

\* gitconfig_config(): the setting a key of a git config stands for.
GitKey(key) ==
  CASE key[1] = "cgit" -> key[2]
    [] key = <<"gitweb", "owner">>       -> "owner"
    [] key = <<"gitweb", "description">> -> "desc"
    [] key = <<"gitweb", "category">>    -> "section"
    [] key = <<"gitweb", "homepage">>    -> "homepage"
    [] OTHER                             -> "none"

GitConfig(cfg, r, ls) ==
  Fold(LAMBDA s, l : RepoConfig(cfg, s, GitKey(l.name), l.value), r, ls)

(***************************************************************************)
(* add_repo(): the git config, the suffix, the path, the owner of the      *)
(* directory, the description file, the section, the cgitrc file.          *)
(***************************************************************************)
WithGitConfig(cfg, r, d) == IF cfg["enable-git-config"] = 1 THEN GitConfig(cfg, r, d.config) ELSE r

WithoutSuffix(cfg, r) ==
  IF cfg["remove-suffix"] = 1
    THEN [r EXCEPT !["url"]  = RemoveSuffix(@),
                   !["name"] = IF r["name"] = r["url"] THEN RemoveSuffix(@) ELSE @]
    ELSE r

WithFiles(r, p, d) ==
  [r EXCEPT !["path"]  = p,
            !["owner"] = IF @ = None THEN FileOwner ELSE @,
            !["desc"]  = IF @ = Default /\ d.desc # None THEN d.desc ELSE @]

WithSection(cfg, r, rel) ==
  LET k == SectionDepth(cfg["section-from-path"], rel)
      s == SubSeq(rel, 1, k)
  IN  IF cfg["section-from-path"] = 0 \/ k = -1 THEN r
      ELSE [r EXCEPT !["section"] = s,
                     !["name"] = IF IsPrefix(s, @) THEN SubSeq(@, k + 1, Len(@)) ELSE @]

\* "deep" tells that parse_configfile() refuses to open one more file.
AddRepo(cfg, tree, p, deep) ==
  LET d == tree[p]
      r == WithFiles(WithoutSuffix(cfg, WithGitConfig(cfg, NewRepo(cfg, p), d)), p, d)
  IN  ApplyLines(cfg, WithSection(cfg, r, p), IF deep THEN <<>> ELSE d.rc)

\* The repositories a scan appends to cgit_repolist.
Scan(cfg, tree, deep) ==
  LET starts == SelectSeq(ScanStarts(cfg), LAMBDA p : p \in DOMAIN tree)
      found  == Concat(LAMBDA p : ScanPath(tree, cfg["scan-hidden-path"], p), starts)
      shown  == SelectSeq(found, LAMBDA p : Exported(cfg, tree[p]))
  IN  Concat(LAMBDA p : <<AddRepo(cfg, tree, p, deep)>>, shown)

\* cgit_get_repoinfo(): the first repository with the URL that is not ignored.
GetRepoInfo(repos, url) ==
  LET is == {i \in DOMAIN repos : repos[i]["ignore"] = 0 /\ repos[i]["url"] = url}
  IN  IF is = {} THEN None ELSE repos[CHOOSE i \in is : \A j \in is : i <= j]
=============================================================================
