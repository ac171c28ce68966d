---------------------------- MODULE MCCacheSlot ----------------------------
(* Instances of CacheSlot for TLC: three requests, two of them for the same *)
(* key, against a slot that may hold a page of either key.                  *)
EXTENDS CacheSlotAtomic, TLC

CONSTANTS p1, p2, p3, past, k1, k2

MCProc2 == {p1, p2}
MCProc3 == {p1, p2, p3}

\* p1 and p2 ask for the same page, p3 for another one in the same slot.
MCKeyOf3 == p1 :> k1 @@ p2 :> k1 @@ p3 :> k2 @@ past :> k1
MCKeyOf2 == p1 :> k1 @@ p2 :> k1 @@ past :> k1

MCPageLen == k1 :> 1 @@ k2 :> 2
MCTtl == k1 :> 1 @@ k2 :> -1

=============================================================================
