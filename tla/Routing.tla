------------------------------ MODULE Routing ------------------------------
(***************************************************************************)
(* How a request names a page and how the pages name each other: the query *)
(* string and the URL are parsed (cgit.c, parsing.c), the page is chosen,  *)
(* its branch is found, and its links and forms lead a client to the next  *)
(* request (ui-shared.c and the pages that call it).                       *)
(*                                                                         *)
(* A client types a request, follows a link, sends a form, or is sent back *)
(* by the login page of an auth-filter or by a redirection.  A text with   *)
(* slashes is the sequence of its components, so that <<"a", "">> is "a/"; *)
(* other values are opaque (Text has the escapes they are written with).   *)
(* ctx.cfg.virtual_root is never NULL when a page is printed: cmd_main()   *)
(* takes script-name for it.  So links never have the form "?url=...",     *)
(* which clients may still ask for.                                        *)
(***************************************************************************)
EXTENDS Integers, Sequences, SequencesExt

CONSTANTS
  None,        \* a NULL pointer, an argument that was not given
  RepoList,    \* the repositories, in the order of cgit_repolist
  Sha,         \* object names
  Typed,       \* the requests a client may type
  DiffType,    \* side-by-side-diffs
  MaxOfs,      \* bound on "ofs"
  MaxPath      \* bound on the components of a path that links are followed to

Commands == {"HEAD", "atom", "about", "blame", "blob", "commit", "diff", "info",
             "log", "ls_cache", "objects", "patch", "plain", "rawdiff", "refs",
             "repolist", "snapshot", "stats", "summary", "tag", "tree"}
WantRepo  == Commands \ {"about", "ls_cache", "repolist"}
WantVpath == {"blame", "commit", "diff", "log", "patch", "rawdiff", "stats", "tree"}
NoLayout  == {"HEAD", "atom", "blob", "info", "ls_cache", "objects", "patch",
              "plain", "rawdiff", "snapshot"}

\* The arguments that are only stored, and what they are when not given.
Args   == {"h", "id", "id2", "ofs", "q", "qt", "s", "showmsg", "follow", "dt", "context", "ignorews"}
Number(v) == IF v = None THEN 0 ELSE v

(***************************************************************************)
(* A repository has its URL, its attributes, the branches in the order of  *)
(* git, its tags, and the branch HEAD refers to.                           *)
(***************************************************************************)
ASSUME RoutingAssumption ==
  /\ {MaxOfs, MaxPath} \subseteq Nat /\ DiffType \in 0..1
  /\ \A i \in 1..Len(RepoList) : LET r == RepoList[i] IN
       /\ DOMAIN r = {"url", "ignore", "defbranch", "HEAD", "branches", "tags",
                      "readme", "homepage", "follow"}
       /\ r.url # <<>> /\ Last(r.url) # ""
  /\ \A t \in Typed : DOMAIN t = {"url", "args"}

VARIABLES
  server,    \* how the server passes the URL on: in PATH_INFO, or rewritten to "url="
  request,   \* [url, args]: what the client asked for
  qry,       \* ctx.qry when the page is printed, with the answer
  call       \* the call that printed the link the client followed

vars == <<server, request, qry, call>>

Repo(i) == RepoList[i]
Leading(url) == {SubSeq(url, 1, k) : k \in 1..Len(url)}

-----------------------------------------------------------------------------
(* Parsing *)

\* cgit_get_repoinfo(): the first repository with this URL, or 0.
GetRepoInfo(url) ==
  LET at == {i \in 1..Len(RepoList) : Repo(i).url = url /\ ~Repo(i).ignore}
  IN  IF at = {} THEN 0 ELSE CHOOSE i \in at : \A j \in at : i <= j

\* trim_end(): the text without the slashes at its end; NULL if there is no more.
TrimEnd(text) ==
  LET solid == {k \in 1..Len(text) : text[k] # ""}
  IN  IF solid = {} THEN None ELSE SubSeq(text, 1, Max(solid))

\* cgit_parse_url(): the text before each slash in turn may be a repository;
\* the page and the path come behind the last that is one.
FirstSlash(k, best, url) ==   \* mutant: the search ends at the first repository
  IF best = 0 /\ GetRepoInfo(SubSeq(url, 1, k)) # 0 THEN k ELSE best
AtSlash(k, best, url) == IF GetRepoInfo(SubSeq(url, 1, k)) # 0 THEN k ELSE best

ParsedAt(q, url, k) ==
  LET rest == SubSeq(url, k + 1, Len(url))
      path == Tail(rest)
  IN  [q EXCEPT !.repo = GetRepoInfo(SubSeq(url, 1, k)),
                !.page = IF rest[1] = "" THEN None ELSE rest[1],
                !.path = IF path \in {<<>>, <<"">>} THEN @ ELSE TrimEnd(path)]

ParseUrl(q, url) ==
  LET cut == FoldLeftDomain(LAMBDA best, k : IF k = Len(url) THEN best ELSE AtSlash(k, best, url),
                            0, url)
  IN  IF url = <<"">> THEN q
      ELSE IF GetRepoInfo(url) # 0 THEN [q EXCEPT !.repo = GetRepoInfo(url), !.page = None]
      ELSE IF cut = 0 THEN [q EXCEPT !.repo = 0, !.page = None]
      ELSE ParsedAt(q, url, cut)

SetUrl(q, url) == ParseUrl([q EXCEPT !.url = url], url)

\* querystring_cb()
Argument(q, name, v) ==
  CASE name = "r"    -> [q EXCEPT !.repo = GetRepoInfo(v)]
    [] name = "p"    -> [q EXCEPT !.page = v]
    [] name = "url"  -> SetUrl(q, IF Len(v) > 1 /\ v[1] = "" THEN Tail(v) ELSE v)
    [] name = "path" -> [q EXCEPT !.path = TrimEnd(v)]
    [] OTHER         -> [q EXCEPT !.val[name] = v]

NoQuery == [url |-> None, repo |-> 0, page |-> None, path |-> None,
            val |-> [a \in Args |-> None]]

\* cmd_main(): the query string, then PATH_INFO if no "url=" was in it.
QueryString(srv, r) ==
  IF srv = "rewrite" THEN <<<<"url", r.url>>>> \o r.args ELSE r.args
Parsed(srv, r) ==
  LET q == FoldLeft(LAMBDA s, a : Argument(s, a[1], a[2]), NoQuery, QueryString(srv, r))
  IN  IF srv = "path-info" /\ q.url = None THEN SetUrl(q, r.url) ELSE q

-----------------------------------------------------------------------------
(* Answering: process_request() *)

\* refs_resolve_ref_unsafe(): the full name of the branch HEAD refers to, as a
\* prefix and a name.
ResolveRef(i) == <<"refs/heads/", Repo(i).HEAD>>

\* guess_defbranch(), prepare_repo_cmd() and find_default_branch().
GuessDefbranch(i) ==
  IF ResolveRef(i)[1] = "ref: refs/heads/" THEN ResolveRef(i)[2] ELSE "master"
Defbranch(i) == IF Repo(i).defbranch # None THEN Repo(i).defbranch ELSE GuessDefbranch(i)

FindDefaultBranch(i) ==
  LET branches == Repo(i).branches
  IN  IF Defbranch(i) \in ToSet(branches) THEN Defbranch(i)
      ELSE IF branches = <<>> THEN None ELSE branches[1]

Exists(i, name) == name \in ToSet(Repo(i).branches) \cup Repo(i).tags \cup Sha

\* cgit_get_cmd()
Page(q) == IF q.page # None THEN q.page ELSE IF q.repo # 0 THEN "summary" ELSE "repolist"

\* about_fn() sends a client on: to the URL with a slash, to the home page, or,
\* for want of a readme, one directory up.
AboutKind(q) ==
  IF q.path = None /\ Last(q.url) # "" THEN "add-slash"
  ELSE IF Repo(q.repo).readme THEN "page"
  ELSE IF Repo(q.repo).homepage THEN "homepage" ELSE "up"

\* What the client gets, and ctx.qry when it is printed.
Served(q) ==
  LET page == Page(q)
      head == IF q.val["h"] # None THEN q.val["h"] ELSE FindDefaultBranch(q.repo)
      r    == [url |-> q.url, repo |-> q.repo, page |-> page, path |-> q.path,
               vpath |-> IF page \in WantVpath THEN q.path ELSE None,
               head |-> q.val["h"], val |-> q.val]
      answer(kind) == [kind |-> kind] @@ r
  IN  IF page \notin Commands \/ (page \in WantRepo /\ q.repo = 0) THEN answer("error")
      ELSE IF q.repo = 0 THEN answer("page")
      ELSE IF head = None THEN answer("empty")
      ELSE IF ~Exists(q.repo, head)
             THEN [answer("badbranch") EXCEPT !.head = Defbranch(q.repo)]
      ELSE [answer(IF page = "about" THEN AboutKind(q) ELSE "page") EXCEPT !.head = head]

\* (A set of one element makes TLC evaluate its element once.)
Answer(srv, r) == CHOOSE a \in {Served(q) : q \in {Parsed(srv, r)}} : TRUE

-----------------------------------------------------------------------------
(* Links.  A call has the page, the branch, the object, the path and the   *)
(* other arguments it was asked to lead to.                                *)

NoArgs == [a \in Args |-> None]
Second(q) == [NoArgs EXCEPT !["id2"] = q.val["id2"]]
Call(i, page, head, rev, path, val) ==
  [by |-> "link", repo |-> i, page |-> page, head |-> head, rev |-> rev, path |-> path, val |-> val]

\* A list with one argument, if it is to be written.
Arg(name, v, written) == IF written THEN <<<<name, v>>>> ELSE <<>>

\* repolink()
RepoPath(c) ==
  Repo(c.repo).url \o (IF c.page = None THEN <<"">>
                       ELSE <<c.page>> \o IF c.path = None THEN <<"">> ELSE c.path)
\* The default branch a page knows of: the list of repositories does not look
\* for the one of a repository that names none.
KnownDefault(q, i) == IF q.repo = i /\ q.kind # "error" THEN Defbranch(i) ELSE Repo(i).defbranch
AnyBranch(q, c) == Arg("h", c.head, c.head # None /\ c.head # "main")   \* mutant: not the default of this repository
HeadArg(q, c)   == Arg("h", c.head, c.head # None /\ KnownDefault(q, c.repo) \notin {None, c.head})

\* reporevlink(): the object is left out if it is the branch of this page.
RevArg(q, c) == Arg("id", c.rev, c.rev # None /\ q.head \notin {None, c.rev})

\* cgit_log_link(), cgit_commit_link(), cgit_diff_link()
Qualifiers(q, c) ==
  CASE c.page = "log" ->
         (IF None \in {c.val["qt"], c.val["q"]} THEN <<>>
          ELSE Arg("qt", c.val["qt"], TRUE) \o Arg("q", c.val["q"], TRUE))
         \o Arg("ofs", c.val["ofs"], Number(c.val["ofs"]) > 0)
         \o Arg("showmsg", 1, Number(c.val["showmsg"]) # 0)
         \o Arg("follow", 1, Number(c.val["follow"]) # 0)
    [] c.page \in {"commit", "diff"} ->
         Arg("id2", c.val["id2"], c.page = "diff" /\ c.val["id2"] # None)
         \o Arg("dt", q.val["dt"], Number(q.val["dt"]) # 0)
         \o Arg("context", q.val["context"], Number(q.val["context"]) \notin {0, 3})
         \o Arg("ignorews", 1, Number(q.val["ignorews"]) # 0)
         \o Arg("follow", 1, Number(q.val["follow"]) # 0)
    [] OTHER -> <<>>

Href(q, c) ==
  [url  |-> RepoPath(c),
   args |-> HeadArg(q, c) \o RevArg(q, c) \o Qualifiers(q, c)]

\* site_url() and the headers of the list: the list itself, or the page the
\* client is at, with what it searched for.
HrefAlwaysRoot(q, root, val) ==   \* mutant
  [url |-> <<"">>, args |-> Arg("q", val["q"], val["q"] # None) \o Arg("s", val["s"], val["s"] # None)
                            \o Arg("ofs", val["ofs"], Number(val["ofs"]) # 0)]
IndexHref(q, root, val) ==
  [url  |-> IF root \/ q.url = None THEN <<"">> ELSE q.url,
   args |-> Arg("q", val["q"], val["q"] # None) \o Arg("s", val["s"], val["s"] # None)
            \o Arg("ofs", val["ofs"], Number(val["ofs"]) # 0)]

\* What cgit_self_link() calls to link to the page itself with another path.
SelfCall(q, path) ==
  LET rev == IF q.page = "diff" \/ {q.val["id"], q.val["id2"]} # {None} THEN q.val["id"] ELSE None
      val == CASE q.page = "log" -> q.val [] q.page = "diff" -> Second(q) [] OTHER -> NoArgs
  IN  Call(q.repo, q.page, q.head, IF q.page = "stats" THEN None ELSE rev, path, val)

\* cgit_print_pageheader(): the tabs of a repository page.
TabCalls(q) ==
  LET tab(page, rev, path, val) == Call(q.repo, page, q.head, rev, path, val)
      listed == [a \in Args |-> IF a \in {"showmsg", "follow"} THEN q.val[a] ELSE None]
  IN  {tab("about", None, None, NoArgs), tab(None, None, None, NoArgs),
       tab("refs", q.val["id"], None, NoArgs),
       tab("log", None, q.vpath, listed),
       tab(IF q.page = "blame" THEN "blame" ELSE "tree", q.val["id"], q.vpath, NoArgs),
       tab("commit", q.val["id"], q.vpath, NoArgs), tab("diff", q.val["id"], q.vpath, Second(q)),
       tab("stats", None, q.vpath, NoArgs)}

\* cgit_print_path_crumbs(): one link for every directory of the path.
Crumbs(path) == Leading(path)
CrumbCalls(q) == IF q.vpath = None THEN {}
                 ELSE {SelfCall(q, p) : p \in {None} \cup Crumbs(q.vpath)}

\* The other pages of results of a log, with and without its messages, and
\* the renames followed or not.
LogCalls(q) ==
  LET again(val) == Call(q.repo, "log", q.head, q.val["id"], q.vpath, val)
      ofs == Number(q.val["ofs"])
      moved(n)   == [q.val EXCEPT !["ofs"] = n]
  IN  {again(moved(n)) : n \in {ofs - 1, ofs + 1} \cap 0..MaxOfs}
      \cup {again([q.val EXCEPT !["showmsg"] = 1 - Number(@)])}
      \cup IF q.vpath = None \/ ~Repo(q.repo).follow THEN {}
           ELSE {SelfCall([q EXCEPT !.val["follow"] = 1 - Number(@)], q.vpath)}

Objects(q) == {Call(q.repo, page, q.head, sha, None, NoArgs) : page \in {"commit", "tag"}, sha \in Sha}

\* The links of one page: to a branch and a tag (refs and summary), to a commit
\* and its parts, to an entry of a tree.
Entries(path) == {p \in {(IF path = None THEN <<>> ELSE path) \o <<"x">>} : Len(p) <= MaxPath}
ContentCalls(q) ==
  LET i    == q.repo
      to(page, obj, path) == Call(i, page, q.head, obj, path, NoArgs)
      rev  == IF q.val["id"] # None THEN q.val["id"] ELSE q.head
      plain == [a \in Args |-> IF a = "showmsg" THEN q.val[a] ELSE None]
      branches == ToSet(Repo(i).branches)
  IN  CASE q.page \in {"refs", "summary"} ->
             {Call(i, page, b, None, None, plain) : page \in {"log", "commit"}, b \in branches}
             \cup {Call(i, "tag", t, None, None, NoArgs) : t \in Repo(i).tags} \cup Objects(q)
        [] q.page = "tag"    -> Objects(q)
        [] q.page = "log"    ->
             LogCalls(q) \cup {to("commit", sha, q.vpath) : sha \in Sha}
             \cup {Call(i, "log", b, None, q.vpath, plain) : b \in branches}
             \cup {Call(i, "log", None, sha, q.vpath, plain) : sha \in Sha}
        [] q.page = "commit" ->
             {to("commit", sha, q.path) : sha \in Sha}
             \cup {to("tree", sha, p) : sha \in Sha, p \in {None, q.path}}
             \cup {Call(i, "patch", None, sha, q.path, NoArgs) : sha \in Sha}
             \cup {Call(i, "diff", q.head, sha, q.path, [NoArgs EXCEPT !["id2"] = "old"]) : sha \in Sha}
        [] q.page = "diff"   -> {Call(i, "diff", q.head, q.val["id"], p, Second(q)) : p \in {None} \cup Entries(None)}
                                \cup {to("tree", sha, p) : sha \in Sha, p \in Entries(None)}
        [] q.page = "tree"   ->
             {Call(i, page, q.head, rev, p, plain) :
                page \in {"tree", "log", "plain", "blame"}, p \in Entries(q.path)}
             \cup {Call(i, "stats", q.head, None, p, NoArgs) : p \in Entries(q.path)}
        [] q.page = "blame" /\ q.path # None ->
             {to(page, rev, q.path) : page \in {"tree", "plain"}}
             \cup {to(page, sha, q.path) : page \in {"blame", "commit"}, sha \in Sha}
        [] OTHER -> {}

\* The rows of the list of repositories.
RowCalls == {Call(i, page, None, None, None, NoArgs) :
               page \in {None, "log", "tree"},
               i \in {j \in 1..Len(RepoList) : ~Repo(j).ignore}}

Redirects == {"add-slash", "homepage", "up"}
HasLayout(q) == q.kind \notin Redirects /\ (q.kind # "page" \/ q.page \notin NoLayout)

Calls(q) ==
  IF q.kind = "page" /\ q.page = "plain"
    THEN {Call(q.repo, "plain", q.head, q.val["id"], p, NoArgs) : p \in Entries(q.path)}
  ELSE IF ~HasLayout(q) THEN {}
  ELSE (IF q.repo = 0 THEN {} ELSE TabCalls(q) \cup CrumbCalls(q))
       \cup (IF q.kind = "page" /\ q.repo # 0 THEN ContentCalls(q) ELSE {})
       \cup (IF q.kind = "page" /\ q.page = "repolist" THEN RowCalls ELSE {})

-----------------------------------------------------------------------------
(* What a client does *)

By(step) == [by |-> step]
Ask(asked) ==
  /\ \E r \in {asked} : request' = r /\ qry' = Answer(server, r)
  /\ UNCHANGED server

Init ==
  /\ server \in {"path-info", "rewrite"}
  /\ request \in Typed
  /\ qry = Answer(server, request)
  /\ call = By("typed")

Follow == \E c \in Calls(qry) : Ask(Href(qry, c)) /\ call' = c

IndexPage == qry.kind = "page" /\ qry.page = "repolist" /\ qry.repo = 0

\* A client turns the pages of the list, or sorts it.
TurnPage ==
  /\ IndexPage
  /\ \E ofs \in 0..MaxOfs : Ask(IndexHref(qry, FALSE, [qry.val EXCEPT !["ofs"] = ofs]))
  /\ call' = By("turn-page")
Sort ==
  /\ IndexPage
  /\ Ask(IndexHref(qry, FALSE, [NoArgs EXCEPT !["s"] = "idle", !["q"] = qry.val["q"]]))
  /\ call' = By("sort")

\* cgit_add_hidden_formfields(): the form that chooses another branch for the
\* page at the same URL, and the one that searches the log.
Hidden(names) ==
  FlattenSeq([k \in 1..Len(names) |->
    LET v == qry.val[names[k]]
    IN  Arg(names[k], v, IF names[k] = "showmsg" THEN Number(v) # 0 ELSE v # None)])
SwitchBranch ==
  /\ HasLayout(qry) /\ qry.repo # 0
  /\ \E b \in ToSet(Repo(qry.repo).branches) :
       Ask([url |-> request.url,
            args |-> Hidden(<<"id", "id2", "showmsg", "qt", "q">>) \o <<<<"h", b>>>>])
  /\ call' = By("switch")
SearchLog ==
  /\ HasLayout(qry) /\ qry.repo # 0
  /\ Ask([url |-> Repo(qry.repo).url \o <<"log">> \o (IF qry.vpath = None THEN <<"">> ELSE qry.vpath),
          args |-> HeadArg(qry, Call(qry.repo, "log", qry.head, None, None, NoArgs))
                   \o Hidden(<<"id", "id2", "showmsg">>)
                   \o <<<<"qt", "grep">>, <<"q", "word">>>>])
  /\ call' = By("search")

\* cgit_currentfullurl(): where the login page of an auth-filter sends the client.
NoQueryUrl ==   \* mutant: as cgit_currenturl()
  [url  |-> IF qry.url = None THEN <<"">> ELSE qry.url, args |-> <<>>]
CurrentFullUrl ==
  [url  |-> IF qry.url = None THEN <<"">> ELSE qry.url,
   args |-> SelectSeq(request.args, LAMBDA a : a[1] # "url")]
Login == Ask(CurrentFullUrl) /\ call' = By("login")

\* The browser goes where about_fn() sends it; it takes "x/../" out of a URL.
UpTwo(url) ==   \* mutant
  IF Last(url) = "" THEN Front(Front(Front(url))) \o <<"">> ELSE Append(url, "")
Same(url) == IF Last(url) = "" THEN url ELSE Append(url, "")   \* mutant: not one directory up
Up(url) ==
  IF Last(url) = "" THEN Front(Front(url)) \o <<"">>
  ELSE SubSeq(url, 1, Len(url) - 1) \o <<Last(url) \o "..", "">>
Redirect ==
  /\ qry.kind \in {"add-slash", "up"}
  /\ Ask([url |-> IF qry.kind = "up" THEN Up(qry.url) ELSE Append(qry.url, ""), args |-> <<>>])
  /\ call' = By("redirect")

Next == Follow \/ TurnPage \/ Sort \/ SwitchBranch \/ SearchLog \/ Login \/ Redirect

\* A browser follows a redirection.
Spec == Init /\ [][Next]_vars /\ WF_vars(Redirect)

-----------------------------------------------------------------------------
(* Properties *)

TypeOK ==
  /\ server \in {"path-info", "rewrite"}
  /\ DOMAIN request = {"url", "args"} /\ request.url # <<>>
  /\ qry.repo \in 0..Len(RepoList)
  /\ qry.path # None => qry.path # <<>> /\ Last(qry.path) # ""
  /\ qry.kind \in {"page", "error", "empty", "badbranch"} \cup Redirects
  /\ qry.kind \in {"page", "empty", "badbranch"} =>
       qry.page \in Commands /\ (qry.page \in WantRepo => qry.repo # 0)

\* A URL is the repository with the longest URL it begins with, whatever other
\* repositories are in directories above it or below it.
LongestRepo ==
  LET url  == qry.url
      at   == {i \in 1..Len(RepoList) : ~Repo(i).ignore /\ Repo(i).url \in Leading(url)}
  IN  url # <<"">> =>
        IF at = {} THEN qry.repo = 0
        ELSE qry.repo \in at /\ \A i \in at : Len(Repo(i).url) <= Len(Repo(qry.repo).url)

\* The object a page is about: "id", or else its branch.
Rev(q) == IF q.val["id"] # None THEN q.val["id"] ELSE q.head
Side(q) == IF q.val["dt"] = None THEN DiffType ELSE q.val["dt"]

\* The links where cgit leaves out something it needs: the branch a page names
\* is the default branch that the repository has not got, the object is the
\* branch of the page but the call names none.  (A page may also name a branch
\* that is not there, and the error page of an unknown page has not looked for it.)  And a repository may have the
\* URL of a page of another.
Shadowed(c) ==
  \E i \in 1..Len(RepoList) : i # c.repo /\ Repo(i).url \in Leading(RepoPath(c))
                              /\ Len(Repo(i).url) > Len(Repo(c.repo).url)
LeavesOut(q, c) ==
  \/ c.head = Defbranch(c.repo) /\ c.head \notin ToSet(Repo(c.repo).branches)
  \/ c.head = None /\ c.rev # None /\ c.rev = q.head
  \/ c.rev # None /\ q.head = None
  \/ c.head # None /\ (q.kind = "error" \/ ~Exists(c.repo, c.head))

\* A link leads to the page, the repository, the path, the branch, the object
\* and the search it was made for.
Arrives(c, q) ==
  /\ q.repo = c.repo
  /\ q.page = (IF c.page = None THEN "summary" ELSE c.page)
  /\ q.path = (IF c.page = None THEN None ELSE c.path)
  /\ q.kind \in {"page", "empty"} \cup Redirects
  /\ c.head # None => q.head = c.head
  /\ c.head = None => q.head = FindDefaultBranch(c.repo)
  /\ Rev(q) = (IF c.rev # None THEN c.rev ELSE q.head)
  /\ c.page = "log" =>
       /\ None \notin {c.val["q"], c.val["qt"]} => q.val["q"] = c.val["q"] /\ q.val["qt"] = c.val["qt"]
       /\ \A a \in {"ofs", "showmsg", "follow"} : Number(q.val[a]) = Number(c.val[a])
  /\ c.page = "diff" => q.val["id2"] = c.val["id2"]
LinkArrives ==
  [][call'.by = "link" /\ ~Shadowed(call') /\ ~LeavesOut(qry, call')
     => Arrives(call', qry')]_vars

\* Another page of the list of repositories, or its other order, shows the same
\* directory and the same search.
PagingKeeps ==
  [][call'.by \in {"turn-page", "sort"}
     => /\ qry'.kind = "page" /\ qry'.page = "repolist" /\ qry'.repo = 0
        /\ qry'.val["q"] = qry.val["q"]
        /\ qry.url \notin {None, <<"">>} => qry'.url = qry.url
        /\ call'.by = "turn-page" => qry'.val["s"] = qry.val["s"]]_vars

\* The forms of a page stay in its repository and at its path, and show the
\* branch that was chosen: of the page itself, if its URL and not its query
\* string names it, and of its log.
FormStays ==
  [][/\ call'.by = "switch" /\ qry.url # <<"">> /\ qry.kind = "page"
        => /\ <<qry'.repo, qry'.page, qry'.path>> = <<qry.repo, qry.page, qry.path>>
           /\ qry'.head \in ToSet(Repo(qry.repo).branches)
           /\ qry'.val["id"] = qry.val["id"]
     /\ call'.by = "search" /\ qry.kind = "page"
        => <<qry'.repo, qry'.page, qry'.path, Rev(qry')>> = <<qry.repo, "log", qry.vpath, Rev(qry)>>]_vars

\* After a login the client gets the page it had asked for.
LoginReturns == [][call'.by = "login" => qry' = qry]_vars

\* The redirections of the page "about" come to an end, in the repository they
\* began in.
RedirectsEnd  == [](qry.kind \in {"add-slash", "up"} => <>(qry.kind \notin {"add-slash", "up"}))
RedirectsStay == [][call'.by = "redirect" => qry'.repo = qry.repo]_vars

\* The repository of a request, whatever the request.
RepoInv == TypeOK /\ LongestRepo

\* What is no link to another page - the pager and the orders of the index, the
\* forms, the login - leaves a client where it is, with all it had asked for.
PageStays == PagingKeeps /\ FormStays /\ LoginReturns

\* A redirected client arrives, and in the repository it was sent from.
RedirectsRight == RedirectsEnd /\ RedirectsStay

\* The branch of a page whose request names none is the branch that HEAD refers
\* to, if the repository sets no other (cgitrc.5.txt, repo.defbranch).
DefaultIsHead ==
  qry.kind = "page" /\ qry.repo # 0 /\ qry.val["h"] = None /\ Repo(qry.repo).defbranch = None
    => qry.head = Repo(qry.repo).HEAD
=============================================================================
