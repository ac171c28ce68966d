-------------------------------- MODULE Log --------------------------------
(***************************************************************************)
(* The log page (ui-log.c): the commits of a branch, or of one path in it, *)
(* max-commit-count to a page.  With follow=1 the log goes on past the     *)
(* renames of a file; cgit then looks at every commit itself, and makes    *)
(* the links of a row for the name the file has there.                     *)
(*                                                                         *)
(* The history is one line of commits, in which one file is created,       *)
(* edited and renamed while others change.  A client reads page after page *)
(* and somebody may push in between.                                       *)
(***************************************************************************)
EXTENDS Integers, Sequences, SequencesExt, FiniteSets

CONSTANTS
  None,         \* no path; no link
  Names,        \* the names of the file, in the order it is given them
  Histories,    \* the histories to begin with: a kind for each commit, oldest first
  Count,        \* max-commit-count
  FollowLinks,  \* enable-follow-links
  MaxCommits    \* how long the history gets

\* What a commit does to the file.  A merge is one that changes nothing itself;
\* the root is the first commit, and creates the file unless a later one does.
Kinds == {"root", "create", "edit", "rename", "other", "merge"}

IsHistory(h) ==
  /\ h \in Seq(Kinds) /\ Len(h) > 0
  /\ \A k \in 1..Len(h) :
       /\ (h[k] = "root") <=> (k = 1)
       /\ h[k] \in {"create", "edit", "rename"} =>
            \A j \in (k + 1)..Len(h) : h[j] # "create"
  /\ Cardinality({k \in 1..Len(h) : h[k] = "rename"}) < Len(Names)

Paths    == ToSet(Names) \cup {None}
Requests == [path : Paths, follow : BOOLEAN, ofs : Nat, id : Nat]

\* The file has each name once.
ASSUME LogAssumption ==
  /\ Count \in Nat \ {0} /\ MaxCommits \in Nat \ {0} /\ FollowLinks \in BOOLEAN
  /\ Names \in Seq(ToSet(Names)) /\ Len(Names) > 0
  /\ \A m, n \in 1..Len(Names) : Names[m] = Names[n] => m = n
  /\ None \notin ToSet(Names) /\ None \notin Requests
  /\ \A h \in Histories : IsHistory(h) /\ Len(h) <= MaxCommits

VARIABLES
  hist,     \* the commits of the branch
  req,      \* ctx.qry: path, follow, ofs, and id (0: the head)
  pc,       \* "skip" and "show" are the loops of cgit_print_log(), "away" is elsewhere
  cur,      \* the newest commit the walk has not looked at
  sought,   \* the name the diffs are limited to (git changes it at a rename)
  vpath,    \* ctx.qry.vpath
  i,        \* how many commits this loop has shown
  files,    \* the commits counted in files, add_lines and rem_lines
  counted,  \* lines_counted
  rows,     \* the rows of the page
  links,    \* the links of the pager
  start,    \* what the client began with, and the newest commit then
  want,     \* the commits it has to see
  trail,    \* the commits it has seen, following [next]
  left      \* the rows of the page it left by [prev]

server  == <<req, pc, cur, sought, vpath, i, files, counted, rows, links>>
client  == <<start, want, trail, left>>
logVars == <<hist, server, client>>

NoLinks == [prev |-> None, next |-> None]

\* The names of the file, and the paths a commit changes: a rename changes two.
Creator   == IF \E k \in 1..Len(hist) : hist[k] = "create"
               THEN CHOOSE k \in 1..Len(hist) : hist[k] = "create" ELSE 1
NameIn(k) == Names[1 + Cardinality({j \in 1..k : hist[j] = "rename"})]
Changes(k) ==
  CASE k = Creator        -> {Names[1]}
    [] hist[k] = "edit"   -> {NameIn(k)}
    [] hist[k] = "rename" -> {NameIn(k), NameIn(k - 1)}
    [] OTHER              -> {}

\* The log a client asks for: the commits that change the path and, if the file
\* is followed, its earlier names; then without the root.
Index(n) == CHOOSE k \in 1..Len(Names) : Names[k] = n
LogOf(r, tip) ==
  {k \in 1..tip :
     IF r.path = None THEN TRUE
     ELSE IF r.follow /\ FollowLinks
       THEN k # 1 /\ \E n \in Changes(k) : Index(n) <= Index(r.path)
       ELSE r.path \in Changes(k)}

-----------------------------------------------------------------------------
(* cgit_print_log() *)

\* Everything before the loops.  A log of no path follows nothing.
Opened(r) == [r EXCEPT !.follow = r.follow /\ r.path # None /\ FollowLinks]
Open(r) ==
  /\ req' = Opened(r)
  /\ pc' = "skip" /\ cur' = IF r.id = 0 THEN Len(hist) ELSE r.id
  /\ sought' = r.path /\ vpath' = r.path
  /\ i' = 0 /\ files' = <<>> /\ counted' = FALSE /\ rows' = <<>> /\ links' = NoLinks

LogInit ==
  /\ hist \in Histories
  /\ \E path \in Paths, follow \in BOOLEAN, id \in {0, Len(hist)} :
       /\ path # None => \E k \in 1..Len(hist) : path \in Changes(k)
       /\ LET r == [path |-> path, follow |-> follow, ofs |-> 0, id |-> id]
          IN  /\ start = [req |-> r, tip |-> Len(hist)]
              /\ req = Opened(r)
              /\ want = LogOf(r, Len(hist))
              /\ sought = path /\ vpath = path
  /\ pc = "skip" /\ cur = Len(hist)
  /\ i = 0 /\ files = <<>> /\ counted = FALSE /\ rows = <<>> /\ links = NoLinks
  /\ trail = <<>> /\ left = <<>>

\* get_revision(): the commits that do not change the path are pruned, unless a
\* file is followed.
Walk == {k \in 1..cur : req.path = None \/ req.follow \/ req.path \in Changes(k)}
Revision == CHOOSE k \in Walk : \A j \in Walk : j <= k

\* A diff limited to a name, and the name git looks for in the parents.
Found(k)  == sought \in Changes(k)
Parent(k) == IF hist[k] = "rename" /\ sought = NameIn(k) THEN NameIn(k - 1) ELSE sought

\* inspect_files(), with a count in each row (enable-log-filecount): one more pair of
\* files is counted, for commit k.
Inspect(count, k) == Append(count, k)

\* show_commit() and handle_rename(): a followed file is looked for in each
\* commit but merges and the root, and its diff is counted from zero on the way.
Result(found, path, count, done) == [found |-> found, vpath |-> path, files |-> count, counted |-> done]
ShowNext(k, done) ==   \* mutant: the name is that of the parent
  IF ~req.follow THEN Result(TRUE, vpath, files, done)
  ELSE IF hist[k] = "merge" \/ k = 1 THEN Result(FALSE, vpath, files, done)
  ELSE IF Found(k) THEN Result(TRUE, Parent(k), Inspect(<<>>, k), TRUE) ELSE Result(FALSE, vpath, <<>>, TRUE)
ShowAdds(k, done) ==   \* mutant: the counters are not reset
  IF ~req.follow THEN Result(TRUE, vpath, files, done)
  ELSE IF hist[k] = "merge" \/ k = 1 THEN Result(FALSE, vpath, files, done)
  ELSE IF Found(k) THEN Result(TRUE, sought, Inspect(files, k), TRUE) ELSE Result(FALSE, vpath, files, TRUE)
ShowCommit(k, done) ==
  IF ~req.follow THEN Result(TRUE, vpath, files, done)
  ELSE IF hist[k] = "merge" \/ k = 1 THEN Result(FALSE, vpath, files, done)
  ELSE IF Found(k) THEN Result(TRUE, sought, Inspect(<<>>, k), TRUE) ELSE Result(FALSE, vpath, <<>>, TRUE)

\* print_commit() counts what show_commit() has not.
PrintCommit(k, s) == IF s.counted THEN s ELSE Result(s.found, s.vpath, Inspect(<<>>, k), FALSE)

Looked(k, s) ==
  /\ sought' = IF req.follow /\ s.found THEN Parent(k) ELSE sought
  /\ vpath' = s.vpath /\ files' = s.files /\ counted' = s.counted
  /\ cur' = k - 1
  /\ i' = IF s.found THEN i + 1 ELSE i
  /\ UNCHANGED <<hist, client, req, pc, links>>

\* The commits of the pages before.
SkipMore ==   \* mutant: one too many
  /\ pc = "skip" /\ i <= req.ofs /\ req.ofs > 0 /\ Walk # {}
  /\ Looked(Revision, ShowCommit(Revision, counted))
  /\ UNCHANGED rows
Skip ==
  /\ pc = "skip" /\ i < req.ofs /\ Walk # {}
  /\ Looked(Revision, ShowCommit(Revision, counted))
  /\ UNCHANGED rows

EndSkip ==
  /\ pc = "skip" /\ (i >= req.ofs \/ Walk = {})
  /\ pc' = "show" /\ i' = 0
  /\ UNCHANGED <<hist, client, req, cur, sought, vpath, files, counted, rows, links>>

\* The commits of this page: lines_counted is cleared for each.
Row(k, s) == [id |-> k, path |-> s.vpath, files |-> s.files]
Turned(k) ==
  LET s == ShowCommit(k, FALSE)
  IN  IF s.found THEN PrintCommit(k, s) ELSE s
Show ==
  /\ pc = "show" /\ i < Count /\ Walk # {}
  /\ LET s == Turned(Revision)
     IN  /\ Looked(Revision, s)
         /\ rows' = IF s.found THEN Append(rows, Row(Revision, s)) ELSE rows

\* The links [prev] and [next] are for the name the last commit has left in
\* ctx.qry.vpath.
Link(ofs) == [path |-> vpath, follow |-> req.follow, ofs |-> IF ofs > 0 THEN ofs ELSE 0, id |-> req.id]
PrevLink == IF req.ofs > 0 THEN Link(req.ofs - Count) ELSE None
NextLink == IF Walk # {} THEN Link(req.ofs + Count) ELSE None
Pager ==
  /\ pc = "show" /\ (i >= Count \/ Walk = {})
  /\ pc' = "read" /\ links' = [prev |-> PrevLink, next |-> NextLink]
  /\ trail' = trail \o [k \in 1..Len(rows) |-> rows[k].id]
  /\ UNCHANGED <<hist, start, want, left, req, cur, sought, vpath, i, files, counted, rows>>

-----------------------------------------------------------------------------
(* The client and those who push *)

ClickNext ==
  /\ pc = "read" /\ links.next # None
  /\ Open(links.next)
  /\ left' = <<>>
  /\ UNCHANGED <<hist, start, want, trail>>

\* What has been seen is forgotten.
ClickPrev ==
  /\ pc = "read" /\ links.prev # None
  /\ Open(links.prev)
  /\ left' = [k \in 1..Len(rows) |-> rows[k].id]
  /\ trail' = <<>> /\ want' = {}
  /\ UNCHANGED <<hist, start>>

Push ==
  /\ pc = "read" /\ Len(hist) < MaxCommits
  /\ \E kind \in {"edit", "rename", "other", "merge"} :
       /\ kind = "rename" => NameIn(Len(hist)) # Last(Names)
       /\ hist' = Append(hist, kind)
  /\ UNCHANGED <<server, client>>

Serve == Skip \/ EndSkip \/ Show \/ Pager

-----------------------------------------------------------------------------
(* Properties *)

\* Every variable has its type, and the history stays one.
LogTypeOK ==
  /\ IsHistory(hist) /\ Len(hist) <= MaxCommits
  /\ req \in Requests /\ start \in [req : Requests, tip : 1..Len(hist)]
  /\ pc \in {"skip", "show", "read", "away"} /\ cur \in 0..Len(hist) /\ i \in 0..Len(hist)
  /\ sought \in Paths /\ vpath \in Paths /\ files \in Seq(1..Len(hist)) /\ counted \in BOOLEAN
  /\ rows \in Seq([id : 1..Len(hist), path : Paths, files : Seq(1..Len(hist))])
  /\ Len(rows) <= Count
  /\ links \in [prev : Requests \cup {None}, next : Requests \cup {None}]
  /\ want \subseteq 1..Len(hist) /\ trail \in Seq(1..Len(hist)) /\ left \in Seq(1..Len(hist))

\* What the pager's links are not about: the pages after one with a rename.
Moved == req.path # start.req.path
Still == start.req.id # 0 \/ start.tip = Len(hist)

\* A client that goes from page to page by [next] sees every commit of the log
\* that was there when it began, whatever is pushed meanwhile; if nothing is, or
\* the log is that of a commit, it sees each once and the newest first.
PagesCover ==
  ~Moved =>
    /\ \A k \in 1..Len(rows) : rows[k].id \in LogOf(start.req, Len(hist))
    /\ Still => \A k \in 1..(Len(trail) - 1) : trail[k] > trail[k + 1]
    /\ pc = "read" /\ links.next = None => want \subseteq ToSet(trail)

\* The same past a rename: the pages of a log that follows a file lead through
\* all of its history (cgitrc.5.txt:159).
FollowCovers == pc = "read" /\ links.next = None => want \subseteq ToSet(trail)

\* The page before, by [prev], ends where the one that was left begins.
PrevJoins ==
  pc = "read" /\ left # <<>> /\ Still /\ ~Moved =>
    /\ rows # <<>>
    /\ {k \in LogOf(start.req, Len(hist)) : left[1] < k /\ k < Last(rows).id} = {}

\* [next] never leads to an empty page, unless cgit itself looks for the commits.
NoEmptyPage == pc = "read" /\ ~req.follow /\ req.ofs > 0 => rows # <<>>

\* The links of a row are for a path its commit changes: the name the file has
\* there, or the name that was asked for.
RowNames ==
  \A k \in 1..Len(rows) :
    LET r == rows[k]
    IN  IF req.follow THEN r.path \in Changes(r.id) /\ r.path \in {NameIn(r.id), req.path}
                      ELSE r.path = req.path

\* The files and lines of a row are those of its commit, once, and of no other
\* (ui-log.c:155, 260, 515).
CountsOwn == \A k \in 1..Len(rows) : rows[k].files = <<rows[k].id>>

\* What a client sees that turns the pages of a log, by parts.
LogInv == LogTypeOK /\ PagesCover /\ PrevJoins /\ NoEmptyPage

-----------------------------------------------------------------------------
(* Why these hold: the invariants HistoryProofs proves them from. *)

\* Where the walk of the page begins, and how many commits of its log are newer
\* than n.
Tip      == IF req.id = 0 THEN Len(hist) ELSE req.id
Wanted   == LogOf(req, Tip)
Ahead(n) == Cardinality({k \in Wanted : k > n})
Serving  == pc \in {"skip", "show"}

\* The pages are all of one log, on one path, as long as no rename is passed; the
\* path is a name the file has had.
Earlier(n, m) == n \in ToSet(Names) /\ m \in ToSet(Names) /\ Index(n) <= Index(m)
RequestInv ==
  /\ start.req \in Requests /\ start.tip \in 1..Len(hist) /\ start.req.id \in {0, start.tip}
  /\ req \in Requests /\ Tip \in 1..Len(hist) /\ req.id = start.req.id
  /\ req.follow = (start.req.follow /\ start.req.path # None /\ FollowLinks)
  /\ IF req.follow
       THEN /\ Earlier(vpath, req.path) /\ Earlier(req.path, start.req.path)
            /\ Earlier(req.path, NameIn(Tip))
       ELSE vpath = req.path /\ req.path = start.req.path

\* git looks for the name the file has at the commit the walk is at, or for that
\* of the request if the file only got it earlier.
SoughtInv ==
  Serving =>
    /\ cur \in 0..Tip
    /\ sought = IF req.follow /\ Index(NameIn(cur)) < Index(req.path) THEN NameIn(cur) ELSE req.path

\* A page passes over ofs commits of its log and shows those that come next.
RowOf(k) == rows[k].id \in Wanted /\ rows[k].id > cur /\ Ahead(rows[k].id) = req.ofs + k - 1
PageInv ==
  /\ pc = "skip" => rows = <<>> /\ i = Ahead(cur) /\ i <= req.ofs
  /\ pc = "show" =>
       /\ i = Len(rows) /\ i <= Count
       /\ \/ Ahead(cur) = req.ofs + i
          \/ Ahead(cur) <= req.ofs /\ i = 0 /\ Walk = {}
       /\ \A k \in 1..Len(rows) : RowOf(k)
       /\ \A k \in Wanted : k > cur /\ Ahead(k) >= req.ofs => \E j \in 1..Len(rows) : rows[j].id = k

\* What the pages before have left to this one.
TurnInv(ofs) ==
  /\ \A k \in want \ ToSet(trail) : k \in Wanted /\ Ahead(k) >= ofs
  /\ Still /\ trail # <<>> => Last(trail) \in Wanted /\ Ahead(Last(trail)) < ofs
ClientInv ==
  /\ Serving => /\ ~req.follow /\ req.ofs > 0 => Ahead(0) > req.ofs
                /\ ~Moved => TurnInv(req.ofs)
                /\ ~Moved /\ Still /\ left # <<>> =>
                     left[1] \in Wanted /\ Ahead(left[1]) \in req.ofs..(req.ofs + Count)
  /\ pc = "read" =>
       /\ links.next # None =>
            /\ links.next = Link(req.ofs + Count)
            /\ ~req.follow => Ahead(0) > req.ofs + Count
            /\ ~Moved => TurnInv(req.ofs + Count)
       /\ links.prev # None =>
            /\ req.ofs > 0 /\ links.prev = Link(req.ofs - Count)
            /\ ~req.follow => Ahead(0) > req.ofs
            /\ Still /\ rows # <<>> => rows[1].id \in Wanted /\ Ahead(rows[1].id) = req.ofs
=============================================================================
