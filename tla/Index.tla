-------------------------------- MODULE Index --------------------------------
(***************************************************************************)
(* The list of repositories (ui-repolist.c): which of them are visible,    *)
(* how they are sorted, the headers of the sections, the pager.  Every     *)
(* page is a process of its own, which sorts the list of the configuration *)
(* anew and reads when each repository was changed.  What a client asks    *)
(* for gets into the links of the page and back through the writers and    *)
(* readers of Text.                                                        *)
(***************************************************************************)
EXTENDS Text, FiniteSets

CONSTANTS
  None,
  Alphabet,   \* the texts to sort by, in the order of strcmp()
  Lower,      \* the capital letters, each with its small one
  Sites,      \* the configurations to look at: repos and cfg
  Requests,   \* the requests a client may type
  NewTimes,   \* the times a push may come at
  IntMax,     \* the largest int
  MaxPushes   \* how many pushes there are

VARIABLES
  disk,     \* for each repository the times of its agefile, branch and packed-refs
  cfg,      \* ctx.cfg
  repos,    \* the repositories, in the order of the configuration
  qry,      \* ctx.qry
  pc,       \* where cgit_print_repolist() is
  list,     \* cgit_repolist: indices of repos
  mtime,    \* repo->mtime, -1 before it is read
  sorted,   \* the local variables
  i, hits, last,
  page,     \* the rows that have been printed
  links,    \* what the links of the pager ask for
  pushes,   \* how many pushes there were
  before,   \* what qsort() was given last, and what it made of it
  came,     \* how the client came to this page
  seen      \* the repositories on each page since the search or the order changed

site  == <<disk, cfg, repos>>
ghost == <<before, came, seen>>
vars  == <<site, qry, pc, list, mtime, sorted, i, hits, last, page, links, pushes, ghost>>

Columns == {"section", "name", "desc", "owner", "idle"}

\* The empty text comes first, times are counted from 1970, and the offset behind
\* the last page is an int.
InLower(text) == [n \in DOMAIN text |-> IF text[n] \in DOMAIN Lower THEN Lower[text[n]] ELSE text[n]]
IsKey(text)   == text = None \/ {text, InLower(text)} \subseteq ToSet(Alphabet)
IsQuery(q) ==
  q = [search |-> q.search, url |-> q.url, sort |-> q.sort, ofs |-> q.ofs] /\ q.ofs \in Int /\ q.ofs <= IntMax
IsSite(s) ==
  /\ Len(s.repos) \in Nat /\ s.disk \in [1..Len(s.repos) -> [age : Nat, head : Nat, packed : Nat]]
  /\ \A k \in 1..Len(s.repos) : LET r == s.repos[k] IN \A text \in {r.section, r.name, r.desc, r.owner} : IsKey(text)
  /\ s.cfg.maxCount \in 1..IntMax
  /\ \A o \in 0..(Len(s.repos) - 1) : o % s.cfg.maxCount = 0 => o + s.cfg.maxCount <= IntMax
ASSUME IndexAssumption ==
  /\ IntMax \in Nat /\ MaxPushes \in Nat /\ NewTimes \subseteq Nat
  /\ Len(Alphabet) \in Nat /\ DOMAIN Alphabet = 1..Len(Alphabet) /\ \A m, n \in 1..Len(Alphabet) : Alphabet[m] = Alphabet[n] => m = n
  /\ None \notin ToSet(Alphabet) \cup Columns /\ (<<>> \in ToSet(Alphabet) => Alphabet[1] = <<>>)
  /\ \A q \in Requests : IsQuery(q)
  /\ \A s \in Sites : IsSite(s)

Ids     == 1..Len(repos)

-----------------------------------------------------------------------------
(* What is visible *)

\* strcasestr()
SameCase(c, d) == c = d \/ (c \in DOMAIN Lower /\ Lower[c] = d) \/ (d \in DOMAIN Lower /\ Lower[d] = c)
Has(text) ==
  /\ text # None
  /\ \E n \in 0..(Len(text) - Len(qry.search)) : \A m \in DOMAIN qry.search : SameCase(text[n + m], qry.search[m])
IsMatch(r) == qry.search = None \/ Has(r.url) \/ Has(r.name) \/ Has(r.desc) \/ Has(r.owner)
IsInUrl(r) == qry.url = None \/ IsPrefix(qry.url, r.url)
Visible(r) == ~r.hide /\ IsMatch(r) /\ IsInUrl(r)
VisibleIds == {k \in Ids : Visible(repos[k])}

-----------------------------------------------------------------------------
(* The order *)

\* The difference of two times as an int.
AsInt(d) == ((d + IntMax + 1) % (2 * (IntMax + 1))) - (IntMax + 1)

\* get_repo_modtime(): the first of the three there is; the answer is kept.
OnDisk(k)   == LET d == disk[k] IN IF d.age # 0 THEN d.age ELSE IF d.head # 0 THEN d.head ELSE d.packed
TimeAnew(k) == OnDisk(k)   \* mutant: it is not kept
Time(k)     == IF mtime[k] # -1 THEN mtime[k] ELSE OnDisk(k)

PlaceOf     == [text \in ToSet(Alphabet) |-> CHOOSE n \in 1..Len(Alphabet) : Alphabet[n] = text]
PlaceInLower == [text \in ToSet(Alphabet) |-> PlaceOf[InLower(text)]]
Place(text) == IF cfg.caseSensitive THEN PlaceOf[text] ELSE PlaceInLower[text]
Cmp(s, t) ==
  IF s # None /\ t # None THEN Place(s) - Place(t)
  ELSE IF s # None THEN -1 ELSE IF t # None THEN 1 ELSE 0
SortIdle(time, j, k) == AsInt(time[k] - time[j])
SortSection(time, j, k) ==
  LET bySection == Cmp(repos[j].section, repos[k].section)
      byIdle    == IF bySection = 0 /\ cfg.byAge THEN SortIdle(time, j, k) ELSE bySection
  IN  IF byIdle = 0 THEN Cmp(repos[j].name, repos[k].name) ELSE byIdle
SortBy(column, time, j, k) ==
  CASE column = "section" -> SortSection(time, j, k)
    [] column = "name"    -> Cmp(repos[j].name, repos[k].name)
    [] column = "desc"    -> Cmp(repos[j].desc, repos[k].desc)
    [] column = "owner"   -> Cmp(repos[j].owner, repos[k].owner)
    [] column = "idle"    -> SortIdle(time, j, k)

\* The column the list is sorted by, if it is, and whether a client chose it.
Column ==
  IF qry.sort # None THEN IF Len(qry.sort) = 1 /\ qry.sort[1] \in Columns THEN qry.sort[1] ELSE None
  ELSE IF cfg.sectionSort THEN "section" ELSE None
SameSection(j, k) == Cmp(repos[j].section, repos[k].section) = 0
\* Those whose time sort_idle() is asked for.
Timed ==
  {j \in Ids : \E k \in Ids \ {j} :
     Column = "idle" \/ (Column = "section" /\ cfg.byAge /\ SameSection(j, k))}

-----------------------------------------------------------------------------
(* The links *)

Joined(args) ==
  LET Arg(a) == <<a.name, "=">> \o a.text
  IN  IF args = <<>> THEN <<>>
      ELSE FoldLeft(LAMBDA out, a : out \o <<"&", "amp;">> \o Arg(a), <<"?">> \o Arg(Head(args)), Tail(args))
Given(name, value, text) == IF value = None THEN <<>> ELSE <<[name |-> name, text |-> text]>>

\* site_url(), print_sort_header(), the link of an owner.
SiteUrl(q)    == Joined(Given("q", q.search, HtmlAttr(q.search)) \o Given("s", q.sort, HtmlAttr(q.sort))
                        \o IF q.ofs = 0 THEN <<>> ELSE <<[name |-> "ofs", text |-> <<ToString(q.ofs)>>]>>)
SortHeader(q) == Joined(Given("s", q.sort, q.sort) \o Given("q", q.search, HtmlUrlArg(q.search)))
OwnerLink(q)  == Joined(<<[name |-> "q", text |-> HtmlUrlArg(q.search)]>>)

\* querystring_cb(); the url before the "?" stays as it is.
Atoi(text) == IF \E n \in 0..IntMax : text = <<ToString(n)>> THEN CHOOSE n \in 0..IntMax : text = <<ToString(n)>> ELSE 0
Argument(q, a) ==
  CASE a.name = <<"q">>   -> [q EXCEPT !.search = a.value]
    [] a.name = <<"s">>   -> [q EXCEPT !.sort = a.value]
    [] a.name = <<"ofs">> -> [q EXCEPT !.ofs = a.value]
    [] OTHER              -> q
Arguments(querystring) ==
  FoldLeft(Argument, [search |-> None, sort |-> None, ofs |-> <<>>], ParseQuerystring(querystring))
Asked(querystring) ==
  LET q == Arguments(querystring)
  IN  [search |-> q.search, url |-> qry.url, sort |-> q.sort, ofs |-> Atoi(q.ofs)]

\* The two links of a row to its repository.
SummaryLink(r) == HtmlUrlPath(r.url)
RepoUrl(r)     == HtmlAttr(r.url)
GetRepoInfo(url) == IF \E k \in Ids : repos[k].url = url THEN CHOOSE k \in Ids : repos[k].url = url ELSE 0

\* What a link was made for: a request, or a repository; and what was found.
Came(by, q, id, found) == [by |-> by, qry |-> q, id |-> id, found |-> found]

-----------------------------------------------------------------------------
(* cgit_print_repolist() *)

\* A page is a process of its own.
Ask(q) ==
  /\ qry' = q /\ list' = [k \in Ids |-> k] /\ mtime' = [k \in Ids |-> -1]
  /\ sorted' = FALSE /\ i' = 1 /\ hits' = 0 /\ last' = None /\ page' = <<>> /\ links' = {}

Init ==
  /\ \E s \in Sites : cfg = s.cfg /\ repos = s.repos /\ disk = s.disk
  /\ qry \in Requests
  /\ pc = "begin" /\ list = [k \in Ids |-> k] /\ mtime = [k \in Ids |-> -1]
  /\ sorted = FALSE /\ i = 1 /\ hits = 0 /\ last = None /\ page = <<>> /\ links = {}
  /\ pushes = 0 /\ before = [input |-> <<>>, order |-> <<>>] /\ came = Came("typed", qry, 0, 0) /\ seen = <<>>

Begin ==
  /\ pc = "begin"
  /\ pc' = IF VisibleIds = {} THEN "none" ELSE IF Column = None THEN "rows" ELSE "sort"
  /\ UNCHANGED <<site, qry, list, mtime, sorted, i, hits, last, page, links, pushes, ghost>>

\* sort_idle() reads the times as they are needed.
ReadTime ==
  /\ pc = "sort"
  /\ \E k \in Timed : mtime[k] = -1 /\ mtime' = [mtime EXCEPT ![k] = Time(k)]
  /\ UNCHANGED <<site, qry, pc, list, sorted, i, hits, last, page, links, pushes, ghost>>

\* qsort() leaves the order of equals open, and any order is possible when the
\* comparison contradicts itself; the same array is always sorted the same way.
Consistent(column, time) ==
  \A j \in Ids : \A k \in Ids \ {j} :
    /\ SortBy(column, time, j, k) < 0 <=> SortBy(column, time, k, j) > 0
    /\ \A l \in Ids \ {j, k} :
         SortBy(column, time, j, k) <= 0 /\ SortBy(column, time, k, l) <= 0 => SortBy(column, time, j, l) <= 0
Orders(column, time) ==
  IF Consistent(column, time)
    THEN {seq \in SetToSeqs(Ids) : \A m, n \in Ids : m < n => SortBy(column, time, seq[m], seq[n]) <= 0}
    ELSE SetToSeqs(Ids)
SortRepolist ==
  /\ pc = "sort" /\ \A k \in Timed : mtime[k] # -1
  /\ LET input == <<Column, mtime>>
     IN  \E seq \in IF before.input = input THEN {before.order} ELSE Orders(Column, mtime) :
           list' = seq /\ before' = [input |-> input, order |-> seq]
  /\ sorted' = (qry.sort # None)
  /\ pc' = "rows"
  /\ UNCHANGED <<site, qry, mtime, i, hits, last, page, links, pushes, came, seen>>

\* The sum of ofs and max-repo-count may be more than an int holds.
BelowLess(h) == IF qry.ofs + cfg.maxCount > IntMax THEN BOOLEAN ELSE {h < qry.ofs + cfg.maxCount}   \* mutant: one row less
Below(h)   == IF qry.ofs + cfg.maxCount > IntMax THEN BOOLEAN ELSE {h <= qry.ofs + cfg.maxCount}
Section(r) == IF r.section = <<>> THEN None ELSE r.section
Header(r) ==
  IF ~sorted /\ Section(r) # last THEN <<[kind |-> "section", name |-> Section(r)]>> ELSE <<>>
ShowRepo(k) ==
  LET header == Header(repos[k])
  IN  /\ page' = page \o header \o <<[kind |-> "repo", id |-> k, idle |-> Time(k)]>>
      /\ last' = IF header = <<>> THEN last ELSE Section(repos[k])
      /\ mtime' = [mtime EXCEPT ![k] = Time(k)]
Counted(k) == Visible(repos[k])
Row ==
  /\ pc = "rows" /\ i <= Len(list)
  /\ i' = i + 1
  /\ hits' = IF Counted(list[i]) THEN hits + 1 ELSE hits
  /\ \E below \in Below(hits + 1) :
       IF Visible(repos[list[i]]) /\ hits' > qry.ofs /\ below
         THEN ShowRepo(list[i])
         ELSE UNCHANGED <<page, last, mtime>>
  /\ UNCHANGED <<site, qry, pc, list, sorted, links, pushes, ghost>>

Pager(items)        == {[qry EXCEPT !.ofs = n * cfg.maxCount] : n \in 0..((items - 1) \div cfg.maxCount)}
Shown == {page[n].id : n \in {m \in 1..Len(page) : page[m].kind = "repo"}}
PrintPager ==
  /\ pc = "rows" /\ i = Len(list) + 1
  /\ links' = IF hits > cfg.maxCount THEN Pager(hits) ELSE {}
  /\ pc' = "read"
  /\ seen' = IF qry.ofs >= 0 /\ qry.ofs % cfg.maxCount = 0
               THEN [o \in DOMAIN seen \cup {qry.ofs} |-> IF o = qry.ofs THEN Shown ELSE seen[o]]
               ELSE seen
  /\ UNCHANGED <<site, qry, list, mtime, sorted, i, hits, last, page, pushes, before, came>>

-----------------------------------------------------------------------------
(* The client, and the others *)

ClickPage ==
  /\ pc = "read"
  /\ \E q \in links : \E arrived \in {Asked(QueryString(SiteUrl(q)))} :
       /\ Ask(arrived) /\ pc' = "begin"
       /\ came' = Came("pager", q, 0, 0)
       /\ seen' = IF arrived.search = qry.search /\ arrived.sort = qry.sort THEN seen ELSE <<>>
  /\ UNCHANGED <<site, pushes, before>>

\* A link or a form that begins another list.
Begins(by, q, id, querystring) ==
  /\ \E arrived \in {Asked(querystring)} : Ask(arrived)
  /\ pc' = "begin" /\ seen' = <<>>
  /\ came' = Came(by, q, id, 0)
  /\ UNCHANGED <<site, pushes, before>>

ClickSort ==
  /\ pc = "read"
  /\ \E column \in Columns \ {"section"} : \E q \in {[qry EXCEPT !.sort = <<column>>, !.ofs = 0]} :
       Begins("sort", q, 0, QueryString(SortHeader(q)))

\* The name of an owner is a link that searches for it.
ClickOwner ==
  /\ pc = "read"
  /\ \E k \in Shown :
       \E q \in {[qry EXCEPT !.search = IF repos[k].owner = None THEN <<>> ELSE repos[k].owner, !.sort = None, !.ofs = 0]} :
         Begins("owner", q, k, QueryString(OwnerLink(q)))

\* The form has the search of the page, and is sent as it is.
SendSearch ==
  /\ pc = "read"
  /\ \E q \in {[qry EXCEPT !.search = IF qry.search = None THEN <<>> ELSE qry.search, !.sort = None, !.ofs = 0]} :
       Begins("form", q, 0, Submitted(<<"q">>, Attribute(HtmlAttr(q.search))))

\* The name and the description of a repository are links to it.
OpenRepo ==
  /\ pc = "read"
  /\ \E k \in Shown, by \in {"name", "desc"} :
       came' = Came(by, qry, k, GetRepoInfo(PathInfo(IF by = "name" THEN SummaryLink(repos[k]) ELSE RepoUrl(repos[k]))))
  /\ Ask([search |-> None, url |-> None, sort |-> None, ofs |-> 0]) /\ pc' = "opened" /\ seen' = <<>>
  /\ UNCHANGED <<site, pushes, before>>

\* A push writes the file of the branch.
PushAny ==
  /\ pushes < MaxPushes /\ pushes' = pushes + 1
  /\ \E k \in Ids, t \in NewTimes : disk' = [disk EXCEPT ![k].head = t]
  /\ UNCHANGED <<cfg, repos, qry, pc, list, mtime, sorted, i, hits, last, page, links, ghost>>

Next ==
  \/ Begin \/ ReadTime \/ SortRepolist \/ Row \/ PrintPager
  \/ ClickPage \/ ClickSort \/ ClickOwner \/ SendSearch \/ OpenRepo \/ PushAny
Spec == Init /\ [][Next]_vars

-----------------------------------------------------------------------------
(* Properties *)

\* The types; what is counted is visible (ui-repolist.c:299), and each repository
\* is in the list once, whatever the comparison says.
TypeOK ==
  /\ pc \in {"begin", "none", "sort", "rows", "read", "opened"} /\ sorted \in BOOLEAN
  /\ i \in 1..(Len(list) + 1) /\ hits <= Cardinality(VisibleIds)
  /\ Cardinality(ToSet(list)) = Len(repos)
  /\ mtime \in [Ids -> {-1} \cup Nat] /\ pushes \in 0..MaxPushes

\* Without a push, the pages of the pager are disjoint and together show every
\* visible repository, although each of them is sorted anew and counts again
\* (ui-repolist.c:301, 164).
PagesOnce ==
  pushes = 0 =>
    /\ \A o, p \in DOMAIN seen : o # p => seen[o] \cap seen[p] = {}
    /\ LET all == IF links = {} THEN {0} ELSE {q.ofs : q \in links}
       IN  pc = "read" /\ all \subseteq DOMAIN seen => UNION {seen[o] : o \in all} = VisibleIds

\* What the page offers is not empty: each link of the pager and of the header of
\* the table leads to rows, also after a push.
LinksShowRows == pc = "read" /\ came.by # "typed" => Shown # {}

\* A link or a form asks for the search, the order and the page it was made for,
\* whatever characters they have (ui-repolist.c:137, 343, html.c:172, 214).  Only
\* the pager writes the search like an attribute (ui-shared.c:223), so that there
\* a "&", a "+" or a "#" and what looks like an escape do not arrive.
Plain(text) ==
  text # None => \A n \in DOMAIN text :
    text[n] \notin {"&", "+", "#"} /\ (text[n] = "%" /\ n < Len(text) => \A c \in DOMAIN DigitsOf : text[n + 1] # DigitsOf[c])
RequestArrives ==
  pc = "begin" /\ (came.by \in {"sort", "owner", "form"} \/ (came.by = "pager" /\ Plain(came.qry.search)))
  => qry = came.qry

\* Both links of a row open its repository (ui-repolist.c:324, 327): the name,
\* unless its url has what looks like an entity, for html_url_path() leaves a "&"
\* as it is; the description, if its url needs no escape (ui-shared.c:125).
RowOpens ==
  pc = "opened" =>
    LET url == repos[came.id].url
        entity == \E n \in 1..(Len(url) - 1) : url[n] = "&" /\ \E c \in DOMAIN EntityOf : url[n + 1] = EntityOf[c]
        escape == \E n \in DOMAIN url : url[n] \in {"?", "#", "%"}
    IN  (IF came.by = "name" THEN ~entity ELSE ~escape) => came.found = came.id

\* The owner in a row leads to a list that has this row (ui-repolist.c:342, 95).
OwnerFound == came.by = "owner" => pc # "none" /\ came.id \in VisibleIds

\* On a page that is not sorted for the client, what is printed above a repository
\* is the header of its section, wherever the page begins (ui-repolist.c:311).
Above(rows, n) ==
  LET over == {m \in 1..n : rows[m].kind = "section"}
  IN  IF over = {} THEN None ELSE rows[CHOOSE m \in over : \A o \in over : o <= m].name
SectionAbove ==
  \A n \in 1..Len(page) : page[n].kind = "repo" =>
    Above(page, n) = IF sorted THEN None ELSE Section(repos[page[n].id])

\* In a list sorted by section no section comes twice, unless its name is written
\* in two ways that only differ by case and the order ignores it, or the times of
\* a section are so far apart that their differences are no ints and qsort() has
\* no order to go by (ui-repolist.c:229, 315).
IntTimes == \A j, k \in Timed : mtime[j] - mtime[k] <= IntMax
SectionOnce ==
  Column = "section" /\ ~sorted /\ IntTimes =>
    \A m, n \in 1..Len(page) :
      /\ m < n /\ page[m].kind = "section" /\ page[n].kind = "section" /\ page[m].name = page[n].name
      => \E j, k \in Ids : repos[j].section # repos[k].section /\ SameSection(j, k)

\* The idle times stand in their order, newest first, on the whole page or in each
\* section, although pushes come while the list is sorted and printed: each time
\* is read once (ui-repolist.c:41).  This needs times whose differences are ints.
IdleOrder ==
  LET timed == Timed
  IN  IntTimes =>
        \A m, n \in 1..Len(page) :
          /\ m < n /\ page[m].kind = "repo" /\ page[n].kind = "repo"
          /\ {page[m].id, page[n].id} \subseteq timed
          /\ Column = "idle" \/ SameSection(page[m].id, page[n].id)
          => page[m].idle >= page[n].idle

\* The pages of the list, sorted and counted one by one, lose no repository and
\* show none twice.
PagesInv == TypeOK /\ PagesOnce

\* What a client sends by a link or a form is what the next process reads, and it
\* finds what the link was made for.
TextsArrive == RequestArrives /\ RowOpens /\ LinksShowRows /\ OwnerFound

\* Every row stands in its section and in its order, although each page begins
\* anew and pushes come in between.
OrderInv == SectionAbove /\ SectionOnce /\ IdleOrder

-----------------------------------------------------------------------------
(* Why PagesInv and OrderInv hold: the invariants IndexProofs proves them from. *)

\* The list has each repository once; what is sorted has known times and stands in
\* its order, if the times have one.
AsConfigured == [k \in Ids |-> k]
Fresh == page = <<>> /\ last = None /\ sorted = FALSE /\ i = 1 /\ hits = 0 /\ links = {} /\ list = AsConfigured
InPlace(j, k) ==
  /\ Column = "section" => Cmp(repos[j].section, repos[k].section) <= 0 /\ (cfg.byAge /\ SameSection(j, k) => mtime[k] <= mtime[j])
  /\ Column = "idle" => mtime[k] <= mtime[j]
Remembered == before.input # <<>> => before.order \in Orders(before.input[1], before.input[2])
ListInv ==
  /\ IsSite([disk |-> disk, repos |-> repos, cfg |-> cfg]) /\ IsQuery(qry) /\ list \in SetToSeqs(Ids)
  /\ Remembered
  /\ pc \in {"begin", "none", "sort", "opened"} => Fresh
  /\ pc = "sort" => Column # None
  /\ pc \in {"rows", "read"} =>
       IF Column = None THEN ~sorted /\ list = AsConfigured
       ELSE /\ \A k \in Timed : mtime[k] # -1
            /\ IntTimes => \A m, n \in Ids : m < n => InPlace(list[m], list[n])

\* Each row stands below the header of its section, and each header above a row;
\* the rows are in the order of the list.
Follows(m, n) == \E j, k \in 1..(i - 1) : j < k /\ list[j] = page[m].id /\ list[k] = page[n].id
RowInv(n) ==
  IF page[n].kind = "section"
    THEN /\ ~sorted /\ page[n].name # Above(page, n - 1)
         /\ n < Len(page) /\ page[n + 1].kind = "repo" /\ page[n].name = Section(repos[page[n + 1].id])
    ELSE /\ page[n].kind = "repo" /\ page[n].id \in {list[j] : j \in 1..(i - 1)}
         /\ Above(page, n) = IF sorted THEN None ELSE Section(repos[page[n].id])
         /\ page[n].id \in Timed => page[n].idle = mtime[page[n].id]
PageInv ==
  /\ last = Above(page, Len(page))
  /\ \A n \in 1..Len(page) : RowInv(n)
  /\ \A m, n \in 1..Len(page) : m < n /\ page[m].kind = "repo" /\ page[n].kind = "repo" => Follows(m, n)

\* A page shows the visible repositories whose number is above its offset, as many
\* as it may.  If the sum overflows it may be any of these.
Number(s, n)    == Cardinality({m \in 1..n : s[m] \in VisibleIds})
Behind(s, o, n) == {m \in 1..n : s[m] \in VisibleIds /\ o < Number(s, m)}
OnPage(s, o, n) == {m \in Behind(s, o, n) : Number(s, m) <= o + cfg.maxCount}
Shows(s, o, n, ids) ==
  /\ ids \subseteq {s[m] : m \in Behind(s, o, n)}
  /\ o + cfg.maxCount <= IntMax => ids = {s[m] : m \in OnPage(s, o, n)}
CountInv ==
  /\ pc \in {"rows", "read"} => hits = Number(list, i - 1) /\ Shows(list, qry.ofs, i - 1, Shown)
  /\ pc = "read" => i = Len(repos) + 1 /\ links = IF hits > cfg.maxCount THEN Pager(hits) ELSE {}

\* Without a push each page sorts by the same times, and so into the same order.
Times == [k \in Ids |-> IF k \in Timed THEN OnDisk(k) ELSE -1]
Known == Column # None => before.input = <<Column, Times>>
Order == IF Column = None THEN AsConfigured ELSE before.order
TimesRead == pc \in {"begin", "sort"} => \A k \in Ids : mtime[k] \in {-1, Times[k]}
SameOrder == pc \in {"rows", "read"} => Known /\ list = Order
SeenPages ==
  \A o \in DOMAIN seen : Known /\ o \in 0..IntMax /\ o % cfg.maxCount = 0 /\ Shows(Order, o, Len(repos), seen[o])
SeenInv == pushes = 0 => TimesRead /\ SameOrder /\ SeenPages
=============================================================================
