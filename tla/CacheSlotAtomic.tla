-------------------------- MODULE CacheSlotAtomic --------------------------
(***************************************************************************)
(* The system calls of process_slot() (CacheSlot) implement an atomic slot *)
(* (AtomicSlot): the slot is the page in the file the cache name refers    *)
(* to, a request sees the page of the descriptor it has open, and it has   *)
(* answered when its last chunk is sent.                                   *)
(***************************************************************************)
EXTENDS CacheSlot

CONSTANT Lost, Torn   \* no answer; a file that is no page of any request

PageIn(i) ==
  IF i = NoFile THEN NoFile
  ELSE IF \E r \in Req : IsPageOf(i, r) THEN CHOOSE r \in Req : IsPageOf(i, r) ELSE Torn

PageSent(p) ==
  IF \E r \in Req : sent[p] = Body(r) THEN CHOOSE r \in Req : sent[p] = Body(r) ELSE Torn

AbsPage == PageIn(cacheName)
AbsSeen == [p \in Proc |-> PageIn(cacheFd[p])]
AbsAnswer ==
  [p \in Proc |-> CASE pc[p] \in {"exit", "done"} -> PageSent(p)
                    [] pc[p] = "dead"             -> Lost
                    [] OTHER                      -> NoFile]

Atomic == INSTANCE AtomicSlot WITH page <- AbsPage, seen <- AbsSeen, answer <- AbsAnswer,
                                   kept <- (slips = {}), None <- NoFile

\* As long as no lock has failed to protect its file, every step of
\* process_slot() is a step of the atomic slot or none at all.
ImplementsAtomicSlot == Atomic!Spec
=============================================================================
