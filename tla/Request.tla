------------------------------ MODULE Request ------------------------------
(***************************************************************************)
(* The life of a request in cmd_main() (cgit.c): the query is parsed, the  *)
(* cookie authenticated, the time-to-live of the page chosen, and the page *)
(* served through the cache by process_request().                          *)
(*                                                                         *)
(* The keys of the requests share one cache slot, whose calls are atomic   *)
(* here (CacheSlot has their interleavings).  A process of the set Proc    *)
(* serves one request after another, so that requests never run out, and   *)
(* the slot has an age in place of a clock.  A repository is as old as the *)
(* number of pushes it has seen; the first of them makes it: before, its   *)
(* path is that of no git directory.                                       *)
(***************************************************************************)
EXTENDS Integers

CONSTANTS
  Proc,             \* the CGI processes that may run at a time
  Request,          \* the requests of the clients
  NoPage,           \* no page, no process, no answer
  AuthFilter,       \* an auth-filter is configured
  EnableHttpClone,  \* enable-http-clone
  CacheSize,        \* cache-size
  RootTtl, RepoTtl, AboutTtl, SnapshotTtl, StaticTtl, DynamicTtl,   \* cache-*-ttl
  MaxPush,          \* bound on the pushes to the repository
  MaxAge,           \* bound on the age of the slot: all ages above are one
  MaxFaults         \* bound on failures

(***************************************************************************)
(* What the query string says: whether it names a repository, the page,    *)
(* the branch ("h") and the object ("id"), which is a SHA1 or, as          *)
(* everywhere in git, the name of a branch.                                *)
(***************************************************************************)
Commands == {"about", "blame", "info", "repolist", "snapshot", "summary", "tree"}
WantRepo == Commands \ {"about", "repolist"}
IsClone  == {"info"}
TakesId  == {"blame", "snapshot", "tree"}

Branch == {"main", "topic"}
Query  == [repo : BOOLEAN, page : Commands \cup {"none", "login"},
           h : Branch \cup {"none"}, id : Branch \cup {"none", "sha"}]
Ttls   == {RootTtl, RepoTtl, AboutTtl, SnapshotTtl, StaticTtl, DynamicTtl}

\* What a client may be shown: a page as it is after n pushes, or one that is
\* the same after every push.
Login    == <<"login", 0>>
Headers  == <<"headers", 0>>
Content  == {<<"page", n>> : n \in 0..MaxPush} \cup {<<"error", 0>>, <<"empty", 0>>, Login}
PageType == [key : Query, content : Content, push : 0..MaxPush]

ASSUME RequestAssumption ==
  /\ Request \subseteq [query : Query, method : {"GET", "HEAD", "POST"}, cookie : BOOLEAN]
  /\ NoPage \notin Proc \cup PageType \cup Content \cup {Headers, <<"posted", 0>>}
  /\ {AuthFilter, EnableHttpClone} \subseteq BOOLEAN
  /\ CacheSize \in Int /\ Ttls \subseteq Int
  /\ {MaxPush, MaxAge, MaxFaults} \subseteq Nat
  /\ \A ttl \in Ttls : ttl < MaxAge

\* The repository and its names, and the pushes that brought them.
Born == [git |-> 1, main |-> 2, topic |-> 3, sha |-> 2]
Exists(name, n) == Born[name] <= n

VARIABLES
  push,           \* pushes to the repository so far
  slot,           \* the page in the cache slot
  age,            \* the age of the page in the slot and of the one in its lock file
  holder,         \* the process that holds the lock of the slot
  faults,         \* failures so far
  pc,             \* where a process is in cmd_main()
  req,            \* the request it serves
  authenticated,  \* ctx.env.authenticated
  seen,           \* the expired page in the slot when the process locked it
  out,            \* the page the process generated
  answer          \* what its client has received

procVars == <<pc, req, authenticated, seen, out, answer>>
vars     == <<push, slot, age, holder, faults, procVars>>

Goto(p, label)  == pc' = [pc EXCEPT ![p] = label]
Reply(p, kind)  == answer' = [answer EXCEPT ![p] = kind]
Fault           == faults < MaxFaults /\ faults' = faults + 1

Init ==
  /\ push = 0
  /\ slot = NoPage
  /\ age = [slot |-> 0, lock |-> 0]
  /\ holder = NoPage
  /\ faults = 0
  /\ pc = [p \in Proc |-> "idle"]
  /\ req \in [Proc -> Request]
  /\ authenticated = [p \in Proc |-> FALSE]
  /\ seen = [p \in Proc |-> NoPage]
  /\ out = [p \in Proc |-> NoPage]
  /\ answer = [p \in Proc |-> NoPage]

-----------------------------------------------------------------------------
(* process_request() *)

Cmd(q) == IF q.page # "none" THEN q.page ELSE IF q.repo THEN "summary" ELSE "repolist"

Refused(q) == Cmd(q) \notin Commands \/ (Cmd(q) \in IsClone /\ ~EnableHttpClone)

\* The branch of the query, or else the default branch, which is "main" here, or
\* else the first one of the repository.
Head(q, n) ==
  IF q.h # "none" THEN q.h ELSE IF Exists("main", n) THEN "main" ELSE "none"

\* The page cmd->fn() prints: an object named by its SHA1 is the same after
\* every push.
RepoPage(q, n) ==
  IF q.id = "none" \/ Cmd(q) \notin TakesId THEN <<"page", n>>
  ELSE IF ~Exists(q.id, n) THEN <<"error", 0>>
  ELSE IF q.id = "sha" THEN <<"page", 0>> ELSE <<"page", n>>

\* prepare_repo_cmd() ends the page of a path that is no git directory, of an
\* empty repository and of a branch that is not there.
PrepareRepoCmd(q, n) ==
  IF ~Exists("git", n) THEN <<"error", 0>>
  ELSE IF Head(q, n) = "none" THEN <<"empty", 0>>
  ELSE IF ~Exists(Head(q, n), n) THEN <<"error", 0>>
  ELSE RepoPage(q, n)

\* What an authenticated client is shown after n pushes.  The index has a column
\* with the time of the last.
Page(q, n) ==
  IF Refused(q) \/ (Cmd(q) \in WantRepo /\ ~q.repo) THEN <<"error", 0>>
  ELSE IF q.repo THEN PrepareRepoCmd(q, n)
  ELSE <<"page", IF Cmd(q) = "repolist" THEN n ELSE 0>>

\* One run of process_request().
Output(p) == IF authenticated[p] THEN Page(req[p].query, push) ELSE Login

-----------------------------------------------------------------------------
(* cmd_main() *)

Arrive(p, r) ==
  /\ pc[p] \in {"idle", "done"}
  /\ req' = [req EXCEPT ![p] = r]
  /\ authenticated' = [authenticated EXCEPT ![p] = FALSE]
  /\ answer' = [answer EXCEPT ![p] = NoPage]
  /\ seen' = [seen EXCEPT ![p] = NoPage]
  /\ out' = [out EXCEPT ![p] = NoPage]
  /\ Goto(p, "authenticate")
  /\ UNCHANGED <<push, slot, age, holder, faults>>

\* authenticate_cookie(); a POST to the login page is answered by the filter.
Posted(r) == r.method = "POST" /\ r.query.page = "login" /\ ~r.query.repo

Authenticate(p) ==
  /\ pc[p] = "authenticate"
  /\ \/ /\ AuthFilter /\ Posted(req[p])
        /\ Reply(p, <<"posted", 0>>)
        /\ Goto(p, "done") /\ UNCHANGED authenticated
     \/ /\ ~(AuthFilter /\ Posted(req[p]))
        /\ authenticated' = [authenticated EXCEPT ![p] = ~AuthFilter \/ req[p].cookie]
        /\ Goto(p, "cache") /\ UNCHANGED answer
  /\ UNCHANGED <<push, slot, age, holder, faults, req, seen, out>>

\* Mutant: a branch is taken for a fixed object.
RefTtlIsStatic(q) ==
  IF ~q.repo THEN RootTtl ELSE IF q.id # "none" \/ q.h # "none" THEN StaticTtl ELSE RepoTtl

CalcTtl(q) ==
  IF ~q.repo THEN RootTtl
  ELSE IF q.page = "none" THEN RepoTtl
  ELSE IF q.page = "about" THEN AboutTtl
  ELSE IF q.page = "snapshot" THEN SnapshotTtl
  ELSE IF q.id # "none" THEN StaticTtl
  ELSE IF q.h # "none" THEN DynamicTtl ELSE RepoTtl

\* Mutants: the login page or a HEAD request goes through the cache.
CachesLogin(p) ==
  CacheSize > 0 /\ CalcTtl(req[p].query) # 0 /\ req[p].method # "HEAD"
CachesHead(p) ==
  CacheSize > 0 /\ CalcTtl(req[p].query) # 0 /\ authenticated[p]

\* cache_size is set to 0 for these requests.
Caches(p) ==
  /\ CacheSize > 0 /\ CalcTtl(req[p].query) # 0
  /\ authenticated[p] /\ req[p].method # "HEAD"

Matches(p) == slot # NoPage /\ slot.key = req[p].query
Expired(p) == LET ttl == CalcTtl(req[p].query) IN ttl >= 0 /\ age.slot > ttl

NoLock     == TRUE             \* mutant: the slot is not locked
LockIsFree == holder = NoPage

\* Mutant: print_slot() does not seek past the key.
PrintedWithKey(page) == <<"key", page.push>>
\* What print_slot() sends of the file.
Printed(page) == page.content

CacheProcess(p) ==
  /\ pc[p] = "cache"
  /\ \/ /\ ~Caches(p)
        /\ Goto(p, "direct") /\ UNCHANGED <<holder, seen, answer>>
     \/ /\ Caches(p) /\ Matches(p)
        /\ ~Expired(p) \/ ~LockIsFree   \* fresh, or somebody else refreshes it
        /\ Reply(p, Printed(slot))
        /\ Goto(p, "done") /\ UNCHANGED <<holder, seen>>
     \/ /\ Caches(p) /\ ~Matches(p) /\ ~LockIsFree
        /\ Goto(p, "direct") /\ UNCHANGED <<holder, seen, answer>>
     \/ /\ Caches(p) /\ (~Matches(p) \/ Expired(p)) /\ LockIsFree
        /\ holder' = p
        /\ seen' = IF Matches(p) THEN [seen EXCEPT ![p] = slot] ELSE seen
        /\ Goto(p, "fill") /\ UNCHANGED answer
  /\ UNCHANGED <<push, slot, age, faults, req, authenticated, out>>

\* cgit_print_http_headers() ends the process of a HEAD request.
Direct(p) ==
  /\ pc[p] = "direct"
  /\ Reply(p, IF req[p].method = "HEAD" THEN Headers ELSE Output(p))
  /\ Goto(p, "done")
  /\ UNCHANGED <<push, slot, age, holder, faults, req, authenticated, seen, out>>

\* process_request() with stdout redirected to the lock file.  The process of
\* a HEAD request would end there: its headers stay in the lock file.
Fill(p) ==
  /\ pc[p] = "fill"
  /\ out' = [out EXCEPT ![p] = [key |-> req[p].query, content |-> Output(p), push |-> push]]
  /\ age' = [age EXCEPT !.lock = 0]
  /\ IF req[p].method = "HEAD" THEN holder' = NoPage /\ Goto(p, "done")
     ELSE Goto(p, "replace") /\ UNCHANGED holder
  /\ UNCHANGED <<push, slot, faults, req, authenticated, seen, answer>>

Replace(p) ==
  /\ pc[p] = "replace"
  /\ slot' = out[p]
  /\ age' = [age EXCEPT !.slot = age.lock]
  /\ holder' = NoPage
  /\ Reply(p, Printed(out[p]))
  /\ Goto(p, "done")
  /\ UNCHANGED <<push, faults, req, authenticated, seen, out>>

\* fill_slot() fails: the old page is served, or process_request() runs again.
FillFails(p) ==
  /\ pc[p] \in {"fill", "replace"}
  /\ Fault
  /\ holder' = NoPage
  /\ \/ seen[p] # NoPage /\ Reply(p, Printed(seen[p])) /\ Goto(p, "done")
     \/ seen[p] = NoPage /\ Goto(p, "direct") /\ UNCHANGED answer
  /\ UNCHANGED <<push, slot, age, req, authenticated, seen, out>>

\* die() or a signal: what was printed is lost with the lock file, or the
\* client gets the error page.
Die(p) ==
  /\ pc[p] \in {"authenticate", "cache", "direct", "fill", "replace"}
  /\ Fault
  /\ holder' = IF holder = p THEN NoPage ELSE holder
  /\ \/ pc[p] = "direct" /\ Reply(p, IF req[p].method = "HEAD" THEN Headers ELSE <<"error", 0>>)
     \/ UNCHANGED answer
  /\ Goto(p, "done")
  /\ UNCHANGED <<push, slot, age, req, authenticated, seen, out>>

Push ==
  /\ push < MaxPush
  /\ push' = push + 1
  /\ UNCHANGED <<slot, age, holder, faults, procVars>>

Tick ==
  /\ age' = [a \in DOMAIN age |-> IF age[a] < MaxAge THEN age[a] + 1 ELSE MaxAge]
  /\ UNCHANGED <<push, slot, holder, faults, procVars>>

Step(p) ==
  Authenticate(p) \/ CacheProcess(p) \/ Direct(p) \/ Fill(p) \/ Replace(p)

Next ==
  \/ \E p \in Proc : Step(p) \/ FillFails(p) \/ Die(p) \/ (\E r \in Request : Arrive(p, r))
  \/ Push \/ Tick

Spec == Init /\ [][Next]_vars

\* Processes run on and time goes on.
Fairness == WF_vars(Tick) /\ \A p \in Proc : WF_vars(Step(p))
FairSpec == Spec /\ Fairness

-----------------------------------------------------------------------------
Labels == {"idle", "done", "authenticate", "cache", "direct", "fill", "replace"}

\* Every variable has its type.
TypeOK ==
  /\ push \in 0..MaxPush
  /\ slot \in PageType \cup {NoPage}
  /\ age \in [{"slot", "lock"} -> 0..MaxAge]
  /\ holder \in Proc \cup {NoPage}
  /\ faults \in 0..MaxFaults
  /\ pc \in [Proc -> Labels]
  /\ req \in [Proc -> Request]
  /\ authenticated \in [Proc -> BOOLEAN]
  /\ seen \in [Proc -> PageType \cup {NoPage}]
  /\ out \in [Proc -> PageType \cup {NoPage}]
  /\ answer \in [Proc -> Content \cup {NoPage, Headers, <<"posted", 0>>}]

\* Without a valid cookie a client sees the login page and nothing that was
\* made for others, and with one never the login page, whatever the slot
\* holds ("This should never be cached").
LoginNeverCached ==
  \A p \in Proc : answer[p] # NoPage =>
    IF authenticated[p] THEN answer[p] # Login
    ELSE answer[p] \in {Login, Headers, <<"posted", 0>>, <<"error", 0>>}

\* Every request that ends without a failure has an answer, and a HEAD request
\* gets the headers and leaves no part of a page behind in the slot: the process
\* ends in cgit_print_http_headers() before anything else is printed.
HeadAnswered ==
  \A p \in Proc : pc[p] = "done" =>
    /\ answer[p] = NoPage => faults > 0
    /\ answer[p] # NoPage => (answer[p] = Headers <=> req[p].method = "HEAD")

\* The slot never goes back to an earlier state of the repository, although a
\* slow process may have looked at it long ago.
SlotNeverOlder ==
  [][slot # NoPage /\ slot' # slot => slot'.push >= slot.push]_slot

Outdated(q)  == slot # NoPage /\ slot.key = q /\ slot.content # Page(q, push)
Requested(q) == \E p \in Proc, r \in Request :
                  r.query = q /\ r.cookie /\ r.method = "GET" /\ Arrive(p, r)
Asked        == {r.query : r \in {x \in Request : x.cookie /\ x.method = "GET"}}
Refreshed(q) == []<><<Requested(q)>>_vars => (Outdated(q) ~> ~Outdated(q))

\* A page that names no object does not stay in the slot after a push changed
\* it, if it is requested again and again (calc_ttl() and is_expired()).
RefPagesRefreshed == \A q \in Asked : q.id = "none" => Refreshed(q)

\* The same for all pages but those "accessed with a fixed SHA1".
OnlyFixedPagesStay == \A q \in Asked : q.id # "sha" => Refreshed(q)

\* A page of a repository "accessed without a fixed SHA1" is not served from the
\* slot when it is older than cache-dynamic-ttl and nobody refreshes it; the
\* summary, about and snapshot pages have a time-to-live of their own.
DynamicTtlHolds ==
  [][\A p \in Proc : LET q == req[p].query IN
       pc[p] = "cache" /\ pc'[p] = "done" /\ faults' = faults /\ holder = NoPage
         /\ q.repo /\ q.page \notin {"none", "summary", "about", "snapshot"} /\ q.id # "sha"
         => age.slot <= DynamicTtl]_vars

-----------------------------------------------------------------------------
(* Why LoginNeverCached and SlotNeverOlder hold *)

Filling == {"fill", "replace"}

\* What goes into the slot was made for an authenticated client.
LoginInv ==
  /\ slot # NoPage => slot.content # Login
  /\ \A p \in Proc :
       /\ pc[p] \in Labels \ {"idle", "done"} => answer[p] = NoPage
       /\ pc[p] = "authenticate" => ~authenticated[p]
       /\ pc[p] \in Filling => authenticated[p]
       /\ seen[p] # NoPage => seen[p].content # Login
       /\ pc[p] = "replace" => out[p] # NoPage /\ out[p].content # Login

\* The page being generated is at least as new as the one it will replace.
PushInv ==
  /\ slot # NoPage => slot.push <= push
  /\ \A p \in Proc :
       /\ pc[p] \in Filling => holder = p
       /\ pc[p] = "replace" =>
            /\ out[p] # NoPage /\ out[p].push <= push
            /\ slot # NoPage => slot.push <= out[p].push

\* The page of a HEAD request is never on its way to the slot, and a process
\* has not answered before it is done: behind HeadAnswered.
HeadInv ==
  \A p \in Proc :
    /\ pc[p] \in Labels \ {"idle", "done"} => answer[p] = NoPage
    /\ pc[p] \in Filling => req[p].method # "HEAD"
=============================================================================
