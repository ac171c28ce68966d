----------------------------- MODULE AtomicSlot -----------------------------
(***************************************************************************)
(* What a cache slot promises (the comments of process_slot() in cache.c): *)
(* the slot is a cell that holds one whole page or nothing and changes in  *)
(* one step.  A request looks at the cell once; it answers with the page   *)
(* it saw there, if that has its key, or with a page of its own, which it  *)
(* may store in the cell.  A request that dies gives no answer.  All this  *)
(* is promised as long as the locks of the slot are kept.                  *)
(***************************************************************************)
CONSTANTS
  Proc,    \* the requests
  Past,    \* the request that left the page found at the start
  KeyOf,   \* the key of every request
  None,    \* no page
  Lost     \* the answer of a request that died

VARIABLES
  page,    \* the request whose page the slot holds, or None
  seen,    \* the page a request holds: the one it saw, or its own
  answer,  \* the page the client of a request was given
  kept     \* the locks have been kept so far

vars == <<page, seen, answer, kept>>
Page == Proc \cup {Past}

Init ==
  /\ page \in {None, Past}
  /\ seen = [p \in Proc |-> None]
  /\ answer = [p \in Proc |-> None]
  /\ kept = TRUE

Look(p) ==
  /\ answer[p] = None /\ seen[p] = None /\ page # None
  /\ seen' = [seen EXCEPT ![p] = page]
  /\ UNCHANGED <<page, answer>>

Forget(p) ==
  /\ answer[p] = None /\ seen[p] # None
  /\ seen' = [seen EXCEPT ![p] = None]
  /\ UNCHANGED <<page, answer>>

Store(p) ==
  /\ answer[p] = None /\ seen[p] # p
  /\ page' = p
  /\ seen' = [seen EXCEPT ![p] = p]
  /\ UNCHANGED answer

Answer(p) ==
  /\ answer[p] = None
  /\ \E r \in {seen[p], p} \ {None} :
       KeyOf[r] = KeyOf[p] /\ answer' = [answer EXCEPT ![p] = r]
  /\ seen' = [seen EXCEPT ![p] = None]
  /\ UNCHANGED page

Lose(p) ==
  /\ answer[p] = None
  /\ answer' = [answer EXCEPT ![p] = Lost]
  /\ seen' = [seen EXCEPT ![p] = None]
  /\ UNCHANGED page

Next ==
  kept' => kept /\ \E p \in Proc : Look(p) \/ Forget(p) \/ Store(p) \/ Answer(p) \/ Lose(p)

Spec == Init /\ [][Next]_vars
=============================================================================
