--------------------------- MODULE RequestProofs ---------------------------
(***************************************************************************)
(* Theorems about the requests served through one slot, for any set of     *)
(* requests, processes, times-to-live and pushes.                          *)
(***************************************************************************)
EXTENDS Request, TLAPS

LEMMA Numbers ==
  /\ MaxPush \in Nat /\ MaxAge \in Nat /\ MaxFaults \in Nat
  /\ NoPage \notin Proc /\ NoPage \notin PageType
  /\ \A r \in Request : r.query \in Query
  BY RequestAssumption

\* What process_request() prints once it has passed the test of
\* ctx.env.authenticated is never the login page.
LEMMA PageContent ==
  ASSUME NEW q \in Query, NEW n \in 0..MaxPush
  PROVE  Page(q, n) \in Content /\ Page(q, n) # Login
  <1>1. RepoPage(q, n) \in Content /\ RepoPage(q, n) # Login
    BY Numbers DEF RepoPage, Content, Login
  <1>2. PrepareRepoCmd(q, n) \in Content /\ PrepareRepoCmd(q, n) # Login
    BY <1>1, Numbers DEF PrepareRepoCmd, Content, Login
  <1> QED
    BY <1>2, Numbers DEF Page, Content, Login

LEMMA OutputContent ==
  ASSUME TypeOK, NEW p \in Proc
  PROVE  /\ Output(p) \in Content
         /\ Output(p) = Login <=> ~authenticated[p]
  <1>1. Page(req[p].query, push) \in Content /\ Page(req[p].query, push) # Login
    BY PageContent, Numbers DEF TypeOK
  <1> QED
    BY <1>1 DEF Output, Content

\* The possible answers that are not pages.
LEMMA Replies ==
  {<<"error", 0>>, Headers, <<"posted", 0>>} \subseteq Content \cup {Headers, <<"posted", 0>>}
  BY DEF Content

\* A process that is about to replace the slot has a page.
Ready   == \A p \in Proc : pc[p] = "replace" => out[p] # NoPage
TypeInv == TypeOK /\ Ready

LEMMA InitType == Init => TypeInv
  BY Numbers DEF Init, TypeInv, TypeOK, Ready, Labels

LEMMA NextType == TypeInv /\ [Next]_vars => TypeInv'
  <1> SUFFICES ASSUME TypeOK, Ready, [Next]_vars PROVE TypeOK' /\ Ready'
    BY DEF TypeInv
  <1> USE Numbers
  <1>a. /\ answer \in [Proc -> Content \cup {NoPage, Headers, <<"posted", 0>>}]
        /\ pc \in [Proc -> Labels] /\ seen \in [Proc -> PageType \cup {NoPage}]
    BY DEF TypeOK
  <1>b. \A x \in PageType : x.content \in Content
    BY DEF PageType
  <1>1. ASSUME NEW p \in Proc, NEW r \in Request, Arrive(p, r) PROVE TypeOK' /\ Ready'
    BY <1>1 DEF Arrive, TypeOK, Ready, Labels, Goto
  <1>2. ASSUME NEW p \in Proc, Authenticate(p) PROVE TypeOK' /\ Ready'
    BY <1>2 DEF Authenticate, TypeOK, Ready, Labels, Goto, Reply
  <1>3. ASSUME NEW p \in Proc, CacheProcess(p) PROVE TypeOK' /\ Ready'
    <2>1. slot # NoPage => slot \in PageType /\ slot.content \in Content
      BY <1>b DEF TypeOK
    <2>2. pc' \in [Proc -> Labels]
      BY <1>3, <1>a DEF CacheProcess, Goto, Labels
    <2>3. answer' \in [Proc -> Content \cup {NoPage, Headers, <<"posted", 0>>}]
      BY <1>3, <1>a, <2>1 DEF CacheProcess, Matches, Reply, Printed
    <2>4. seen' \in [Proc -> PageType \cup {NoPage}] /\ holder' \in Proc \cup {NoPage}
      BY <1>3, <1>a, <2>1 DEF CacheProcess, Matches, TypeOK
    <2>5. Ready'
      BY <1>3, <1>a DEF CacheProcess, Ready, Goto
    <2> QED
      BY <1>3, <2>2, <2>3, <2>4, <2>5 DEF CacheProcess, TypeOK
  <1>4. ASSUME NEW p \in Proc, Direct(p) PROVE TypeOK' /\ Ready'
    <2>1. Output(p) \in Content
      BY OutputContent
    <2> QED
      BY <1>4, <2>1 DEF Direct, TypeOK, Ready, Labels, Goto, Reply
  <1>5. ASSUME NEW p \in Proc, Fill(p) PROVE TypeOK' /\ Ready'
    <2>1. [key |-> req[p].query, content |-> Output(p), push |-> push] \in PageType
      BY OutputContent DEF TypeOK, PageType
    <2>2. [key |-> req[p].query, content |-> Output(p), push |-> push] # NoPage
      BY <2>1
    <2> QED
      BY <1>5, <2>1, <2>2 DEF Fill, TypeOK, Ready, Labels, Goto
  <1>6. ASSUME NEW p \in Proc, Replace(p) PROVE TypeOK' /\ Ready'
    <2>1. out[p] \in PageType /\ out[p].content \in Content
      BY <1>6, <1>b DEF Replace, TypeOK, Ready
    <2> QED
      BY <1>6, <2>1 DEF Replace, TypeOK, Ready, Labels, Goto, Reply, Printed
  <1>7. ASSUME NEW p \in Proc, FillFails(p) PROVE TypeOK' /\ Ready'
    <2>1. seen[p] # NoPage => seen[p].content \in Content
      BY <1>a, <1>b
    <2>2. pc' \in [Proc -> Labels]
      BY <1>7, <1>a DEF FillFails, Goto, Labels
    <2>3. answer' \in [Proc -> Content \cup {NoPage, Headers, <<"posted", 0>>}]
      BY <1>7, <1>a, <2>1 DEF FillFails, Reply, Printed
    <2>4. faults' \in 0..MaxFaults
      BY <1>7 DEF FillFails, Fault, TypeOK
    <2>5. Ready'
      BY <1>7, <1>a DEF FillFails, Ready, Goto
    <2> QED
      BY <1>7, <2>2, <2>3, <2>4, <2>5 DEF FillFails, TypeOK
  <1>8. ASSUME NEW p \in Proc, Die(p) PROVE TypeOK' /\ Ready'
    BY <1>8, Replies DEF Die, TypeOK, Ready, Labels, Goto, Reply, Fault
  <1>9. CASE Push
    BY <1>9 DEF Push, TypeOK, Ready, procVars
  <1>10. CASE Tick
    BY <1>10 DEF Tick, TypeOK, Ready, procVars
  <1>11. CASE UNCHANGED vars
    BY <1>11 DEF TypeOK, Ready, vars, procVars
  <1> QED
    BY <1>1, <1>2, <1>3, <1>4, <1>5, <1>6, <1>7, <1>8, <1>9, <1>10, <1>11 DEF Next, Step

\* The type invariant for all requests, processes and times-to-live.
THEOREM TypeCorrect == Spec => []TypeOK
  <1>1. TypeInv => TypeOK
    BY DEF TypeInv
  <1> QED
    BY <1>1, InitType, NextType, PTL DEF Spec
-----------------------------------------------------------------------------
(* The login page *)

Secret == LoginInv /\ LoginNeverCached

LEMMA InitLogin == Init => Secret
  BY Numbers DEF Init, Secret, LoginInv, LoginNeverCached, Filling, Labels

LEMMA NextLogin == TypeOK /\ Secret /\ [Next]_vars => Secret'
  <1> SUFFICES ASSUME TypeOK, LoginInv, LoginNeverCached, [Next]_vars
               PROVE  LoginInv' /\ LoginNeverCached'
    BY DEF Secret
  <1>a. /\ answer \in [Proc -> Content \cup {NoPage, Headers, <<"posted", 0>>}]
        /\ pc \in [Proc -> Labels] /\ seen \in [Proc -> PageType \cup {NoPage}]
        /\ authenticated \in [Proc -> BOOLEAN] /\ out \in [Proc -> PageType \cup {NoPage}]
    BY DEF TypeOK
  <1>b. Headers # Login /\ <<"posted", 0>> # Login /\ <<"error", 0>> # Login
    BY DEF Headers, Login
  <1>1. ASSUME NEW p \in Proc, NEW r \in Request, Arrive(p, r) PROVE LoginInv' /\ LoginNeverCached'
    BY <1>1, <1>a DEF Arrive, LoginInv, LoginNeverCached, Filling, Labels, Goto
  <1>2. ASSUME NEW p \in Proc, Authenticate(p) PROVE LoginInv' /\ LoginNeverCached'
    BY <1>2, <1>a, <1>b DEF Authenticate, LoginInv, LoginNeverCached, Filling, Labels, Goto, Reply
  <1>3. ASSUME NEW p \in Proc, CacheProcess(p) PROVE LoginInv' /\ LoginNeverCached'
    <2>1. LoginInv'
      BY <1>3, <1>a DEF CacheProcess, LoginInv, Filling, Labels, Goto, Reply, Printed, Caches, Matches
    <2>2. LoginNeverCached'
      BY <1>3, <1>a DEF CacheProcess, LoginInv, LoginNeverCached, Goto, Reply, Printed, Caches, Matches
    <2> QED
      BY <2>1, <2>2
  <1>4. ASSUME NEW p \in Proc, Direct(p) PROVE LoginInv' /\ LoginNeverCached'
    <2>1. authenticated[p] => Output(p) # Login
      BY OutputContent
    <2>2. ~authenticated[p] => Output(p) = Login
      BY OutputContent
    <2> QED
      BY <1>4, <1>a, <1>b, <2>1, <2>2
      DEF Direct, LoginInv, LoginNeverCached, Filling, Labels, Goto, Reply
  <1>5. ASSUME NEW p \in Proc, Fill(p) PROVE LoginInv' /\ LoginNeverCached'
    <2>1. Output(p) # Login
      BY <1>5, OutputContent DEF Fill, LoginInv, Filling
    <2>2. [key |-> req[p].query, content |-> Output(p), push |-> push] \in PageType
      BY OutputContent, Numbers DEF TypeOK, PageType
    <2>3. [key |-> req[p].query, content |-> Output(p), push |-> push] # NoPage
      BY <2>2, Numbers
    <2> QED
      BY <1>5, <1>a, <2>1, <2>3 DEF Fill, LoginInv, LoginNeverCached, Filling, Labels, Goto
  <1>6. ASSUME NEW p \in Proc, Replace(p) PROVE LoginInv' /\ LoginNeverCached'
    BY <1>6, <1>a DEF Replace, LoginInv, LoginNeverCached, Filling, Labels, Goto, Reply, Printed
  <1>7. ASSUME NEW p \in Proc, FillFails(p) PROVE LoginInv' /\ LoginNeverCached'
    BY <1>7, <1>a DEF FillFails, LoginInv, LoginNeverCached, Filling, Labels, Goto, Reply, Printed
  <1>8. ASSUME NEW p \in Proc, Die(p) PROVE LoginInv' /\ LoginNeverCached'
    BY <1>8, <1>a, <1>b DEF Die, LoginInv, LoginNeverCached, Filling, Labels, Goto, Reply
  <1>9. CASE Push \/ Tick \/ UNCHANGED vars
    BY <1>9 DEF Push, Tick, vars, procVars, LoginInv, LoginNeverCached
  <1> QED
    BY <1>1, <1>2, <1>3, <1>4, <1>5, <1>6, <1>7, <1>8, <1>9 DEF Next, Step

\* A client without a valid cookie never sees a page made for others, and one
\* with a valid cookie never the login page, for every mix of requests.
THEOREM NeverCachesLogin == Spec => []LoginNeverCached
  <1>1. TypeInv => TypeOK
    BY DEF TypeInv
  <1>2. Secret => LoginNeverCached
    BY DEF Secret
  <1> QED
    BY <1>1, <1>2, InitType, NextType, InitLogin, NextLogin, PTL DEF Spec

-----------------------------------------------------------------------------
(* The age of the slot *)

LEMMA InitPush == Init => PushInv
  BY Numbers DEF Init, PushInv, Filling

\* A page is replaced by one that was generated later.
LEMMA NextPush ==
  TypeOK /\ PushInv /\ [Next]_vars =>
    PushInv' /\ (slot # NoPage /\ slot' # slot => slot'.push >= slot.push)
  <1> SUFFICES ASSUME TypeOK, PushInv, [Next]_vars
               PROVE  PushInv' /\ (slot # NoPage /\ slot' # slot => slot'.push >= slot.push)
    OBVIOUS
  <1>a. /\ pc \in [Proc -> Labels] /\ out \in [Proc -> PageType \cup {NoPage}]
        /\ push \in Nat /\ (slot # NoPage => slot.push \in Nat)
        /\ \A p \in Proc : out[p] # NoPage => out[p].push \in Nat
    BY Numbers DEF TypeOK, PageType
  <1>b. NoPage \notin Proc
    BY Numbers
  <1>1. ASSUME NEW p \in Proc, NEW r \in Request, Arrive(p, r) PROVE PushInv' /\ slot' = slot
    BY <1>1, <1>a DEF Arrive, PushInv, Filling, Goto
  <1>2. ASSUME NEW p \in Proc, Authenticate(p) PROVE PushInv' /\ slot' = slot
    BY <1>2, <1>a DEF Authenticate, PushInv, Filling, Goto
  <1>3. ASSUME NEW p \in Proc, CacheProcess(p) PROVE PushInv' /\ slot' = slot
    BY <1>3, <1>a, <1>b DEF CacheProcess, PushInv, Filling, Goto, LockIsFree
  <1>4. ASSUME NEW p \in Proc, Direct(p) PROVE PushInv' /\ slot' = slot
    BY <1>4, <1>a DEF Direct, PushInv, Filling, Goto
  <1>5. ASSUME NEW p \in Proc, Fill(p) PROVE PushInv' /\ slot' = slot
    <2>1. [key |-> req[p].query, content |-> Output(p), push |-> push] \in PageType
      BY OutputContent, Numbers DEF TypeOK, PageType
    <2>2. [key |-> req[p].query, content |-> Output(p), push |-> push] # NoPage
      BY <2>1, Numbers
    <2> QED
      BY <1>5, <1>a, <1>b, <2>2 DEF Fill, PushInv, Filling, Goto
  <1>6. ASSUME NEW p \in Proc, Replace(p)
        PROVE  PushInv' /\ (slot # NoPage => slot'.push >= slot.push)
    BY <1>6, <1>a, <1>b DEF Replace, PushInv, Filling, Goto
  <1>7. ASSUME NEW p \in Proc, FillFails(p) PROVE PushInv' /\ slot' = slot
    BY <1>7, <1>a, <1>b DEF FillFails, PushInv, Filling, Goto
  <1>8. ASSUME NEW p \in Proc, Die(p) PROVE PushInv' /\ slot' = slot
    BY <1>8, <1>a, <1>b DEF Die, PushInv, Filling, Goto
  <1>9. CASE Push
    BY <1>9, <1>a DEF Push, procVars, PushInv
  <1>10. CASE Tick \/ UNCHANGED vars
    BY <1>10 DEF Tick, vars, procVars, PushInv
  <1> QED
    <2>1. CASE Push \/ Tick \/ UNCHANGED vars
      BY <2>1, <1>9, <1>10 DEF Push, Tick, vars
    <2>2. CASE \E p \in Proc : Step(p) \/ FillFails(p) \/ Die(p) \/ (\E r \in Request : Arrive(p, r))
      BY <2>2, <1>1, <1>2, <1>3, <1>4, <1>5, <1>6, <1>7, <1>8 DEF Step
    <2> QED
      BY <2>1, <2>2 DEF Next

\* The slot never goes back to an earlier state of the repository, however
\* slowly a page is generated and however many pushes happen meanwhile.
THEOREM NeverGoesBack == Spec => SlotNeverOlder
  <1>1. TypeInv => TypeOK
    BY DEF TypeInv
  <1>2. TypeOK /\ PushInv /\ [Next]_vars =>
          [slot # NoPage /\ slot' # slot => slot'.push >= slot.push]_slot
    BY NextPush
  <1> QED
    BY <1>1, <1>2, InitType, NextType, InitPush, NextPush, PTL DEF Spec, SlotNeverOlder

-----------------------------------------------------------------------------
(* The answers *)

Answered == HeadInv /\ HeadAnswered

\* What is in a page is neither the headers alone nor nothing.
LEMMA Answers ==
  /\ \A c \in Content : c # Headers /\ c # NoPage
  /\ \A x \in PageType : x.content \in Content
  /\ Headers # NoPage /\ <<"posted", 0>> # NoPage /\ <<"posted", 0>> # Headers
  /\ <<"error", 0>> \in Content
  <1>1. \A c \in Content : c # Headers
    BY DEF Content, Login, Headers
  <1> QED
    BY <1>1, RequestAssumption DEF Headers, PageType, Content

LEMMA NextHead == TypeInv /\ Answered /\ [Next]_vars => Answered'
  <1> SUFFICES ASSUME TypeOK, Ready, HeadInv, HeadAnswered, [Next]_vars
               PROVE  HeadInv' /\ HeadAnswered'
    BY DEF TypeInv, Answered
  <1>a. /\ answer \in [Proc -> Content \cup {NoPage, Headers, <<"posted", 0>>}]
        /\ pc \in [Proc -> Labels] /\ seen \in [Proc -> PageType \cup {NoPage}]
        /\ req \in [Proc -> Request] /\ out \in [Proc -> PageType \cup {NoPage}]
        /\ faults \in Nat /\ slot \in PageType \cup {NoPage}
    BY Numbers DEF TypeOK
  <1> USE DEF Goto, Reply, HeadInv, HeadAnswered, Filling, Labels
  <1>1. ASSUME NEW p \in Proc, NEW r \in Request, Arrive(p, r) PROVE HeadInv' /\ HeadAnswered'
    BY <1>1, <1>a DEF Arrive
  <1>2. ASSUME NEW p \in Proc, Authenticate(p) PROVE HeadInv' /\ HeadAnswered'
    BY <1>2, <1>a, Answers DEF Authenticate, Posted
  <1>3. ASSUME NEW p \in Proc, CacheProcess(p) PROVE HeadInv' /\ HeadAnswered'
    BY <1>3, <1>a, Answers DEF CacheProcess, Printed, Caches, Matches
  <1>4. ASSUME NEW p \in Proc, Direct(p) PROVE HeadInv' /\ HeadAnswered'
    BY <1>4, <1>a, Answers, OutputContent DEF Direct
  <1>5. ASSUME NEW p \in Proc, Fill(p) PROVE HeadInv' /\ HeadAnswered'
    BY <1>5, <1>a DEF Fill
  <1>6. ASSUME NEW p \in Proc, Replace(p) PROVE HeadInv' /\ HeadAnswered'
    BY <1>6, <1>a, Answers DEF Replace, Printed, Ready
  <1>7. ASSUME NEW p \in Proc, FillFails(p) PROVE HeadInv' /\ HeadAnswered'
    BY <1>7, <1>a, Answers DEF FillFails, Printed, Fault
  <1>8. ASSUME NEW p \in Proc, Die(p) PROVE HeadInv' /\ HeadAnswered'
    BY <1>8, <1>a, Answers DEF Die, Fault
  <1>9. CASE Push \/ Tick \/ UNCHANGED vars
    BY <1>9 DEF Push, Tick, vars, procVars
  <1> QED
    BY <1>1, <1>2, <1>3, <1>4, <1>5, <1>6, <1>7, <1>8, <1>9 DEF Next, Step

\* Every request that ends without a failure is answered, a HEAD request with
\* the headers and no other one: for every mix of requests in one slot.
THEOREM EveryoneAnswered == Spec => []HeadAnswered
  <1>1. Init => Answered
    BY DEF Init, Answered, HeadInv, HeadAnswered, Filling, Labels
  <1>2. Answered => HeadAnswered
    BY DEF Answered
  <1> QED
    BY <1>1, <1>2, InitType, NextType, NextHead, PTL DEF Spec
=============================================================================
