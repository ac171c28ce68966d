---------------------------- MODULE HistoryProofs ----------------------------
(***************************************************************************)
(* Theorems about the log a client of History reads, for every history,    *)
(* every number of commits to a page and every way it turns the pages,     *)
(* while others push: the pages cover the log, and a row leads to the page *)
(* of its commit.  A page is told how many commits to pass over, so the    *)
(* proofs count, for a commit, those of the log that are newer than it     *)
(* (Ahead).                                                                *)
(***************************************************************************)
EXTENDS History, SequenceTheorems, FiniteSetTheorems, TLAPS

-----------------------------------------------------------------------------
(* Sets of commits *)

Beyond(W, n) == {k \in W : k > n}

LEMMA BeyondFinite ==
  ASSUME NEW t \in Nat, NEW W \in SUBSET (1..t), NEW n \in Int
  PROVE  IsFiniteSet(Beyond(W, n)) /\ Cardinality(Beyond(W, n)) \in 0..t
  <1>1. IsFiniteSet(1..t) /\ Cardinality(1..t) = t
    BY FS_Interval
  <1>2. Beyond(W, n) \subseteq 1..t
    BY DEF Beyond
  <1> QED
    BY <1>1, <1>2, FS_Subset, FS_CardinalityType

LEMMA LargestOf ==
  ASSUME NEW t \in Nat, NEW W \in SUBSET (1..t), W # {}
  PROVE  \E m \in W : \A k \in W : k <= m
  <1> DEFINE R    == StrictSubsetOrdering(1..t)
             tops == {Beyond(W, k) : k \in W}
  <1>1. IsWellFoundedOn(R, FiniteSubsetsOf(1..t))
    BY FS_StrictSubsetOrderingWellFounded
  <1>2. tops \subseteq FiniteSubsetsOf(1..t) /\ tops # {}
    <2>1. ASSUME NEW k \in W PROVE Beyond(W, k) \in FiniteSubsetsOf(1..t)
      <3>1. IsFiniteSet(Beyond(W, k))
        BY BeyondFinite, k \in Int
      <3>2. Beyond(W, k) \subseteq 1..t
        BY DEF Beyond
      <3> QED
        BY <3>1, <3>2 DEF FiniteSubsetsOf
    <2> QED
      BY <2>1
  <1> HIDE DEF R
  <1>3. \E x \in tops : \A y \in tops : ~(<<y, x>> \in R)
    BY <1>1, <1>2, WFMin
  <1>4. PICK m \in W : \A y \in tops : ~(<<y, Beyond(W, m)>> \in R)
    BY <1>3
  <1>5. ASSUME NEW k \in W, m < k PROVE FALSE
    <2>1. k \in Beyond(W, m) /\ k \notin Beyond(W, k)
      BY <1>5 DEF Beyond
    <2>2. \A j \in Beyond(W, k) : j \in Beyond(W, m)
      BY <1>5, \A j \in W : j \in Int DEF Beyond
    <2>3. <<Beyond(W, k), Beyond(W, m)>> \in R
      BY <2>1, <2>2 DEF R, StrictSubsetOrdering, Beyond
    <2> QED
      BY <1>4, <2>3
  <1> QED
    BY <1>5

\* The further, the fewer.
LEMMA BeyondFewer ==
  ASSUME NEW t \in Nat, NEW W \in SUBSET (1..t), NEW m \in Int, NEW n \in Int, m <= n
  PROVE  Cardinality(Beyond(W, n)) <= Cardinality(Beyond(W, m))
  <1>1. ASSUME NEW j \in Beyond(W, n) PROVE j \in Beyond(W, m)
    BY <1>1, \A k \in W : k \in Int DEF Beyond
  <1> QED
    BY <1>1, BeyondFinite, FS_Subset

LEMMA BeyondOne ==
  ASSUME NEW t \in Nat, NEW W \in SUBSET (1..t), NEW c \in Int, NEW k \in W,
         \A j \in W : k < j => c < j, k <= c
  PROVE  Cardinality(Beyond(W, k - 1)) = Cardinality(Beyond(W, c)) + 1
  <1>0. \A j \in W : j \in Int
    OBVIOUS
  <1>1. ASSUME NEW j \in W PROVE j > k - 1 <=> j > c \/ j = k
    BY <1>0, <1>1
  <1>2. Beyond(W, k - 1) = Beyond(W, c) \cup {k} /\ k \notin Beyond(W, c)
    <2>1. ASSUME NEW j PROVE j \in Beyond(W, k - 1) <=> j \in Beyond(W, c) \cup {k}
      BY <1>1, Zenon DEF Beyond
    <2>2. ~(k > c)
      BY <1>0
    <2> QED
      BY <2>1, <2>2 DEF Beyond
  <1>3. IsFiniteSet(Beyond(W, c))
    BY BeyondFinite
  <1> QED
    BY <1>2, <1>3, FS_AddElement

LEMMA BeyondStrict ==
  ASSUME NEW t \in Nat, NEW W \in SUBSET (1..t), NEW m \in Int, NEW k \in W, m < k
  PROVE  Cardinality(Beyond(W, k)) < Cardinality(Beyond(W, m))
  <1>1. k \in Int /\ k - 1 \in Int /\ m <= k - 1 /\ \A j \in W : j \in Int
    OBVIOUS
  <1>2. Cardinality(Beyond(W, k - 1)) = Cardinality(Beyond(W, k)) + 1
    <2>1. \A j \in W : k < j => k < j
      OBVIOUS
    <2>2. k <= k
      BY <1>1
    <2> QED
      BY <1>1, <2>1, <2>2, BeyondOne
  <1>3. Cardinality(Beyond(W, k - 1)) <= Cardinality(Beyond(W, m))
    BY <1>1, BeyondFewer
  <1> QED
    <2>1. Cardinality(Beyond(W, k)) \in Nat /\ Cardinality(Beyond(W, m)) \in Nat
      BY <1>1, BeyondFinite
    <2> QED
      BY <1>2, <1>3, <2>1

LEMMA BeyondMore ==
  ASSUME NEW t \in Nat, NEW V \in SUBSET (1..t), NEW W \in SUBSET V, NEW n \in Int
  PROVE  Cardinality(Beyond(W, n)) <= Cardinality(Beyond(V, n))
  <1>1. Beyond(W, n) \subseteq Beyond(V, n)
    BY DEF Beyond
  <1> QED
    BY <1>1, BeyondFinite, FS_Subset

-----------------------------------------------------------------------------
(* The names of the file *)

LEMMA NamesIndex ==
  /\ \A n \in 1..Len(Names) : Index(Names[n]) = n
  /\ \A n \in ToSet(Names) : Index(n) \in 1..Len(Names) /\ Names[Index(n)] = n
  <1>1. Names \in Seq(ToSet(Names)) /\ \A m, n \in 1..Len(Names) : Names[m] = Names[n] => m = n
    BY LogAssumption
  <1>2. DOMAIN Names = 1..Len(Names)
    BY <1>1
  <1>3. ASSUME NEW n \in 1..Len(Names) PROVE Index(Names[n]) = n
    BY <1>1, <1>3 DEF Index
  <1>4. ASSUME NEW n \in ToSet(Names) PROVE \E k \in 1..Len(Names) : n = Names[k]
    BY <1>2 DEF ToSet
  <1> QED
    BY <1>3, <1>4

\* How many renames there are up to a commit: at each it is one more, and there is
\* a name for each.
Renamed(k) == Cardinality({j \in 1..k : hist[j] = "rename"})

LEMMA RenamedSteps ==
  ASSUME IsHistory(hist)
  PROVE  /\ \A k \in 0..Len(hist) : Renamed(k) \in 0..(Len(Names) - 1)
         /\ \A k \in 1..Len(hist) : Renamed(k) = IF hist[k] = "rename" THEN Renamed(k - 1) + 1 ELSE Renamed(k - 1)
         /\ \A j, k \in 0..Len(hist) : j <= k => Renamed(j) <= Renamed(k)
  <1> DEFINE Upto(k) == {j \in 1..k : hist[j] = "rename"}
  <1>1. Len(hist) \in Nat /\ Len(Names) \in Nat
    BY LogAssumption DEF IsHistory
  <1>2. ASSUME NEW k \in 0..Len(hist) PROVE IsFiniteSet(Upto(k)) /\ Cardinality(Upto(k)) \in Nat
    BY <1>1, <1>2, FS_Interval, FS_Subset, FS_CardinalityType, IsFiniteSet(1..k), Upto(k) \subseteq 1..k
  <1>3. ASSUME NEW j \in 0..Len(hist), NEW k \in 0..Len(hist), j <= k
        PROVE  Cardinality(Upto(j)) <= Cardinality(Upto(k))
    BY <1>1, <1>2, <1>3, FS_Subset, Upto(j) \subseteq Upto(k)
  <1>4. ASSUME NEW k \in 1..Len(hist)
        PROVE  Cardinality(Upto(k)) = IF hist[k] = "rename" THEN Cardinality(Upto(k - 1)) + 1 ELSE Cardinality(Upto(k - 1))
    <2>1. IsFiniteSet(Upto(k - 1)) /\ k \notin Upto(k - 1)
      BY <1>1, <1>2
    <2>2. CASE hist[k] = "rename"
      BY <2>1, <2>2, FS_AddElement, Upto(k) = Upto(k - 1) \cup {k}
    <2>3. CASE hist[k] # "rename"
      BY <2>3, Upto(k) = Upto(k - 1)
    <2> QED
      BY <2>2, <2>3
  <1>5. Cardinality(Upto(Len(hist))) < Len(Names)
    BY DEF IsHistory
  <1>6. \A k \in 0..Len(hist) : Renamed(k) = Cardinality(Upto(k))
    BY DEF Renamed
  <1> HIDE DEF Upto
  <1> QED
    BY <1>1, <1>2, <1>3, <1>4, <1>5, <1>6

LEMMA NameOf ==
  ASSUME IsHistory(hist), NEW k \in 0..Len(hist)
  PROVE  NameIn(k) \in ToSet(Names) /\ Index(NameIn(k)) = 1 + Renamed(k) /\ NameIn(k) = Names[1 + Renamed(k)]
  <1>1. NameIn(k) = Names[1 + Renamed(k)]
    BY DEF NameIn, Renamed
  <1>2. 1 + Renamed(k) \in 1..Len(Names)
    BY RenamedSteps, LogAssumption
  <1> QED
    BY <1>1, <1>2, NamesIndex, LogAssumption DEF ToSet

\* Nothing happens to the file before the commit that creates it.
LEMMA CreatorIs ==
  ASSUME IsHistory(hist)
  PROVE  /\ Creator \in 1..Len(hist) /\ hist[Creator] \in {"root", "create"} /\ Renamed(Creator) = 0
         /\ \A k \in 1..Len(hist) : hist[k] = "create" => k = Creator
  <1>1. Len(hist) \in Nat \ {0} /\ hist[1] = "root"
    BY DEF IsHistory
  <1>2. \A k, j \in 1..Len(hist) : hist[k] \in {"create", "edit", "rename"} /\ k < j => hist[j] # "create"
    BY <1>1 DEF IsHistory
  <1>3. Creator \in 1..Len(hist) /\ hist[Creator] \in {"root", "create"}
    BY <1>1 DEF Creator
  <1>4. \A k \in 1..Len(hist) : hist[k] = "create" => k = Creator
    BY <1>1, <1>2 DEF Creator
  <1>5. {j \in 1..Creator : hist[j] = "rename"} = {}
    BY <1>1, <1>2, <1>3 DEF Creator
  <1> QED
    BY <1>3, <1>4, <1>5, FS_EmptySet DEF Renamed

LEMMA ChangesAre ==
  ASSUME IsHistory(hist), NEW k \in 1..Len(hist)
  PROVE  /\ Changes(k) \subseteq ToSet(Names)
         /\ Changes(k) # {} => NameIn(k) \in Changes(k)
         /\ \A n \in Changes(k) : n = NameIn(k) \/ (hist[k] = "rename" /\ n = NameIn(k - 1))
         /\ hist[k] = "rename" => k # 1 /\ Changes(k) = {NameIn(k), NameIn(k - 1)}
         /\ hist[k] = "merge" => Changes(k) = {}
  <1>1. Len(hist) \in Nat \ {0} /\ hist[1] = "root"
    BY DEF IsHistory
  <1>2. NameIn(k) \in ToSet(Names) /\ NameIn(k - 1) \in ToSet(Names)
    BY <1>1, NameOf
  <1>3. CASE k = Creator
    <2>1. NameIn(k) = Names[1]
      BY <1>3, CreatorIs, NameOf
    <2>2. Changes(k) = {Names[1]} /\ hist[k] \notin {"rename", "merge"}
      BY <1>3, CreatorIs DEF Changes
    <2> QED
      BY <1>2, <2>1, <2>2
  <1>4. CASE k # Creator
    <2>1. CASE hist[k] = "edit"
      BY <1>2, <1>4, <2>1 DEF Changes
    <2>2. CASE hist[k] = "rename"
      BY <1>1, <1>2, <1>4, <2>2 DEF Changes
    <2>3. CASE hist[k] \notin {"edit", "rename"}
      BY <1>4, <2>3 DEF Changes
    <2> QED
      BY <2>1, <2>2, <2>3
  <1> QED
    BY <1>3, <1>4

-----------------------------------------------------------------------------
(* The log of a request *)

LEMMA WantedIs ==
  ASSUME LogTypeOK, RequestInv
  PROVE  /\ Len(hist) \in Nat \ {0} /\ Tip \in 1..Len(hist) /\ Wanted \subseteq 1..Tip
         /\ req.follow => req.path \in ToSet(Names) /\ req.path # None
         /\ Wanted = IF req.follow
                       THEN {k \in 1..Tip : k # 1 /\ \E n \in Changes(k) : Index(n) <= Index(req.path)}
                       ELSE {k \in 1..Tip : req.path = None \/ req.path \in Changes(k)}
  <1>1. Len(hist) \in Nat \ {0} /\ Tip \in 1..Len(hist) /\ None \notin ToSet(Names)
    BY LogAssumption DEF LogTypeOK, IsHistory, RequestInv
  <1>2. req.follow => req.path \in ToSet(Names) /\ FollowLinks
    BY DEF RequestInv, Earlier
  <1>3. Wanted = {k \in 1..Tip : IF req.path = None THEN TRUE
                                 ELSE IF req.follow /\ FollowLinks
                                   THEN k # 1 /\ \E n \in Changes(k) : Index(n) <= Index(req.path)
                                   ELSE req.path \in Changes(k)}
    BY DEF Wanted, LogOf
  <1> QED
    BY <1>1, <1>2, <1>3

\* What counting the commits ahead of one comes to.
LEMMA AheadIs ==
  ASSUME LogTypeOK, RequestInv
  PROVE  /\ \A n \in Int : Ahead(n) \in 0..Tip
         /\ \A m, n \in Int : m <= n => Ahead(n) <= Ahead(m)
         /\ \A m \in Int, k \in Wanted : m < k => Ahead(k) < Ahead(m)
         /\ Ahead(Tip) = 0
  <1>1. Wanted \in SUBSET (1..Tip) /\ Tip \in Nat /\ \A k \in Wanted : k \in Int
    BY WantedIs
  <1>2. \A n : Ahead(n) = Cardinality(Beyond(Wanted, n))
    BY DEF Ahead, Beyond
  <1>3. ASSUME NEW n \in Int PROVE Cardinality(Beyond(Wanted, n)) \in 0..Tip
    BY <1>1, BeyondFinite
  <1>4. ASSUME NEW m \in Int, NEW n \in Int, m <= n
        PROVE  Cardinality(Beyond(Wanted, n)) <= Cardinality(Beyond(Wanted, m))
    BY <1>1, <1>4, BeyondFewer
  <1>5. ASSUME NEW m \in Int, NEW k \in Wanted, m < k
        PROVE  Cardinality(Beyond(Wanted, k)) < Cardinality(Beyond(Wanted, m))
    BY <1>1, <1>5, BeyondStrict
  <1>6. Beyond(Wanted, Tip) = {}
    <2>1. \A k \in Wanted : ~(k > Tip)
      BY <1>1
    <2> QED
      BY <2>1 DEF Beyond
  <1> QED
    BY <1>1, <1>2, <1>3, <1>4, <1>5, <1>6, FS_EmptySet

LEMMA RowsAre ==
  ASSUME LogTypeOK
  PROVE  /\ Len(rows) \in Nat /\ (rows = <<>> <=> Len(rows) = 0)
         /\ \A k \in 1..Len(rows) : rows[k].id \in 1..Len(hist)
  <1> DEFINE S == [id : 1..Len(hist), path : Paths, files : Seq(1..Len(hist))]
  <1>1. rows \in Seq(S)
    BY DEF LogTypeOK
  <1>2. \A r \in S : r.id \in 1..Len(hist)
    OBVIOUS
  <1> HIDE DEF S
  <1>3. \A k \in 1..Len(rows) : rows[k] \in S
    BY <1>1, ElementOfSeq
  <1> QED
    BY <1>1, <1>2, <1>3, EmptySeq

\* What is a number.
LEMMA LogNumbers ==
  ASSUME LogTypeOK, RequestInv
  PROVE  /\ req.ofs \in Nat /\ Count \in Nat \ {0} /\ i \in Nat /\ cur \in Nat
         /\ Len(hist) \in Nat \ {0} /\ Tip \in 1..Len(hist) /\ Tip \in Nat
         /\ Wanted \subseteq 1..Tip /\ \A k \in Wanted : k \in Nat /\ Ahead(k) \in Nat
         /\ Ahead(cur) \in Nat /\ Ahead(0) \in Nat
         /\ Len(rows) \in Nat /\ Len(trail) \in Nat
  <1>1. Len(hist) \in Nat \ {0} /\ Tip \in 1..Len(hist) /\ Wanted \subseteq 1..Tip
    BY WantedIs
  <1>2. req.ofs \in Nat /\ i \in 0..Len(hist) /\ cur \in 0..Len(hist)
    BY DEF LogTypeOK, Requests
  <1>3. Len(rows) \in Nat /\ Len(trail) \in Nat
    BY DEF LogTypeOK
  <1>4. Count \in Nat \ {0}
    BY LogAssumption
  <1>5. i \in Nat /\ cur \in Nat /\ Tip \in Nat
    BY <1>1, <1>2
  <1>6. \A k \in Wanted : k \in Nat
    BY <1>1, <1>5
  <1>7. ASSUME NEW n \in Nat PROVE Ahead(n) \in Nat
    <2>1. Ahead(n) \in 0..Tip
      BY AheadIs
    <2> QED
      BY <1>5, <2>1
  <1> QED
    BY <1>1, <1>2, <1>3, <1>4, <1>5, <1>6, <1>7

\* Looking at one more commit of the log.
LEMMA AheadOne ==
  ASSUME LogTypeOK, RequestInv, NEW c \in Int, NEW k \in Int, k <= c,
         \A j \in Wanted : j <= c => j <= k
  PROVE  /\ Ahead(k) = Ahead(c)
         /\ Ahead(k - 1) = IF k \in Wanted THEN Ahead(c) + 1 ELSE Ahead(c)
  <1>1. Wanted \in SUBSET (1..Tip) /\ Tip \in Nat /\ \A j \in Wanted : j \in Int
    BY WantedIs
  <1>2. \A n : Ahead(n) = Cardinality(Beyond(Wanted, n))
    BY DEF Ahead, Beyond
  <1>3. Beyond(Wanted, k) = Beyond(Wanted, c)
    <2>1. ASSUME NEW j \in Wanted PROVE j > k <=> j > c
      BY <1>1, <2>1
    <2> QED
      BY <2>1 DEF Beyond
  <1>4. CASE k \in Wanted
    BY <1>1, <1>2, <1>3, <1>4, BeyondOne, \A j \in Wanted : k < j => c < j
  <1>5. CASE k \notin Wanted
    <2>1. ASSUME NEW j \in Wanted PROVE j > k - 1 <=> j > c
      BY <1>1, <1>5, <2>1
    <2>2. Beyond(Wanted, k - 1) = Beyond(Wanted, c)
      BY <2>1 DEF Beyond
    <2> QED
      BY <1>2, <1>3, <1>5, <2>2
  <1> QED
    BY <1>2, <1>3, <1>4, <1>5

-----------------------------------------------------------------------------
(* One turn of the loops *)

\* The name git looks for when the walk is at a commit.
SoughtAt(k) == IF req.follow /\ Index(NameIn(k)) < Index(req.path) THEN NameIn(k) ELSE req.path

\* The commit get_revision() gives is the newest of the walk, and none of the log
\* is passed over.
LEMMA NextRevision ==
  ASSUME LogTypeOK, RequestInv, SoughtInv, Serving
  PROVE  /\ cur \in 0..Tip /\ Walk \subseteq 1..cur
         /\ \A j \in Wanted : j <= cur => j \in Walk
         /\ ~req.follow => Walk \subseteq Wanted
         /\ req.follow => Walk = 1..cur
         /\ Walk # {} => Revision \in Walk /\ \A j \in Walk : j <= Revision
  <1>1. cur \in 0..Tip /\ Tip \in Nat
    BY WantedIs DEF SoughtInv
  <1>2. Walk \subseteq 1..cur /\ (req.follow => Walk = 1..cur)
    BY DEF Walk
  <1>3. (\A j \in Wanted : j <= cur => j \in Walk) /\ (~req.follow => Walk \subseteq Wanted)
    BY <1>1, WantedIs DEF Walk
  <1>4. ASSUME Walk # {} PROVE Revision \in Walk /\ \A j \in Walk : j <= Revision
    <2>1. Walk \in SUBSET (1..cur) /\ cur \in Nat
      BY <1>1, <1>2
    <2>2. \E k \in Walk : \A j \in Walk : j <= k
      BY <1>4, <2>1, LargestOf
    <2> QED
      BY <2>2 DEF Revision
  <1> QED
    BY <1>1, <1>2, <1>3, <1>4

\* A file that is followed is found in the commits of its log, and then looked for
\* under the name it had before.
LEMMA FollowsName ==
  ASSUME LogTypeOK, RequestInv, req.follow, NEW k \in 1..Tip, sought = SoughtAt(k)
  PROVE  /\ sought \in {NameIn(k), req.path} /\ Earlier(sought, req.path)
         /\ hist[k] # "merge" /\ k # 1 => (Found(k) <=> k \in Wanted)
         /\ hist[k] = "merge" \/ k = 1 => k \notin Wanted
         /\ SoughtAt(k - 1) = IF hist[k] # "merge" /\ k # 1 /\ Found(k) THEN Parent(k) ELSE sought
  <1> DEFINE x == Index(NameIn(k))
             y == Index(NameIn(k - 1))
             q == Index(req.path)
  <1>1. IsHistory(hist) /\ k \in 1..Len(hist) /\ k - 1 \in 0..Len(hist) /\ k \in 0..Len(hist) /\ hist[1] = "root"
    <2>1. IsHistory(hist) /\ hist[1] = "root"
      BY DEF LogTypeOK, IsHistory
    <2>2. Tip \in 1..Len(hist) /\ Len(hist) \in Nat
      BY WantedIs
    <2> QED
      BY <2>1, <2>2
  <1>2. /\ NameIn(k) \in ToSet(Names) /\ NameIn(k - 1) \in ToSet(Names) /\ req.path \in ToSet(Names)
        /\ x \in Nat /\ y \in Nat /\ q \in Nat
        /\ x = IF hist[k] = "rename" THEN y + 1 ELSE y
    <2>1. Renamed(k) \in Nat /\ Renamed(k - 1) \in Nat
          /\ Renamed(k) = IF hist[k] = "rename" THEN Renamed(k - 1) + 1 ELSE Renamed(k - 1)
      BY <1>1, RenamedSteps
    <2>2. req.path \in ToSet(Names) /\ q \in Nat
      BY WantedIs, NamesIndex
    <2>3. x = 1 + Renamed(k) /\ y = 1 + Renamed(k - 1) /\ NameIn(k) \in ToSet(Names) /\ NameIn(k - 1) \in ToSet(Names)
      BY <1>1, NameOf
    <2> QED
      BY <2>1, <2>2, <2>3
  <1>3. \A m, n \in ToSet(Names) : Index(m) = Index(n) => m = n
    BY NamesIndex
  <1>4. sought = (IF x < q THEN NameIn(k) ELSE req.path) /\ Index(sought) = (IF x < q THEN x ELSE q)
    BY DEF SoughtAt
  <1>5. sought \in {NameIn(k), req.path} /\ Earlier(sought, req.path)
    BY <1>2, <1>4 DEF Earlier
  <1>6. k \in Wanted <=> k # 1 /\ \E n \in Changes(k) : Index(n) <= q
    BY WantedIs
  <1>7. hist[k] = "merge" \/ k = 1 => k \notin Wanted
    BY <1>1, <1>6, ChangesAre
  <1>8. ASSUME hist[k] # "merge", k # 1 PROVE sought \in Changes(k) <=> k \in Wanted
    <2>1. ASSUME sought \in Changes(k) PROVE k \in Wanted
      BY <1>2, <1>4, <1>6, <1>8, <2>1
    <2>2. ASSUME NEW n \in Changes(k), Index(n) <= q PROVE sought \in Changes(k)
      <3>1. NameIn(k) \in Changes(k) /\ (n = NameIn(k) \/ (hist[k] = "rename" /\ n = NameIn(k - 1)))
        BY <1>1, ChangesAre
      <3>2. CASE x <= q
        BY <1>2, <1>3, <1>4, <3>1, <3>2
      <3>3. CASE x > q
        BY <1>2, <1>3, <1>4, <2>2, <3>1, <3>3
      <3> QED
        BY <1>2, <3>2, <3>3
    <2> QED
      BY <1>6, <2>1, <2>2
  <1>9. SoughtAt(k - 1) = IF hist[k] # "merge" /\ k # 1 /\ sought \in Changes(k) THEN Parent(k) ELSE sought
    <2>1. SoughtAt(k - 1) = IF y < q THEN NameIn(k - 1) ELSE req.path
      BY DEF SoughtAt
    <2>2. CASE hist[k] # "rename"
      <3>1. Parent(k) = sought /\ x = y /\ NameIn(k) = NameIn(k - 1)
        BY <1>2, <1>3, <2>2 DEF Parent
      <3> HIDE DEF x, y, q
      <3> QED
        BY <1>4, <2>1, <3>1
    <2>3. CASE hist[k] = "rename"
      <3>1. k # 1 /\ Changes(k) = {NameIn(k), NameIn(k - 1)} /\ x = y + 1
        BY <1>1, <1>2, <2>3, ChangesAre
      <3>2. Parent(k) = IF sought = NameIn(k) THEN NameIn(k - 1) ELSE sought
        BY <2>3 DEF Parent
      <3>3. CASE x <= q
        BY <1>2, <1>3, <1>4, <2>1, <2>3, <3>1, <3>2, <3>3
      <3>4. CASE y = q
        BY <1>2, <1>3, <1>4, <2>1, <2>3, <3>1, <3>2, <3>4
      <3>5. CASE y > q
        BY <1>2, <1>3, <1>4, <2>1, <2>3, <3>1, <3>2, <3>5
      <3> QED
        BY <1>2, <3>1, <3>3, <3>4, <3>5
    <2> QED
      BY <2>2, <2>3
  <1> QED
    BY <1>5, <1>7, <1>8, <1>9 DEF Found

\* What a turn of a loop gives for it: show_commit() in the first, print_commit()
\* after it in the second.
LEMMA LooksAt ==
  ASSUME LogTypeOK, RequestInv, SoughtInv, Serving, Walk # {},
         NEW k, k = Revision, NEW s, s = ShowCommit(k, counted) \/ s = Turned(k)
  PROVE  /\ k \in 1..cur /\ \A j \in Wanted : j <= cur => j <= k
         /\ s.found \in BOOLEAN /\ (s.found <=> k \in Wanted)
         /\ s.found /\ s = Turned(k) => s.files = <<k>>
         /\ s.files \in Seq(1..Len(hist)) /\ s.counted \in BOOLEAN
         /\ IF req.follow THEN Earlier(s.vpath, req.path) ELSE s.vpath = vpath
         /\ s.found /\ req.follow => s.vpath \in Changes(k) /\ s.vpath \in {NameIn(k), req.path}
         /\ SoughtAt(k - 1) = IF req.follow /\ s.found THEN Parent(k) ELSE sought
  <1>1. k \in Walk /\ k \in 1..cur /\ cur \in 0..Tip /\ k \in 1..Tip /\ Tip \in 1..Len(hist)
        /\ Len(hist) \in Nat /\ \A j \in Wanted : j <= cur => j <= k
    BY NextRevision, WantedIs
  <1>2. sought = SoughtAt(cur)
    BY DEF SoughtInv, SoughtAt
  <1>3. /\ files \in Seq(1..Len(hist)) /\ counted \in BOOLEAN /\ k \in 1..Len(hist)
        /\ Inspect(<<>>, k) = <<k>> /\ <<k>> \in Seq(1..Len(hist)) /\ <<>> \in Seq(1..Len(hist))
    BY <1>1 DEF LogTypeOK, Inspect
  <1>4. CASE ~req.follow
    <2>1. ShowCommit(k, FALSE) = Result(TRUE, vpath, files, FALSE)
      BY <1>4 DEF ShowCommit
    <2>2. Turned(k) = Result(TRUE, vpath, <<k>>, FALSE)
      <3> DEFINE t == Result(TRUE, vpath, files, FALSE)
      <3>1. t.found /\ ~t.counted /\ t.found = TRUE /\ t.vpath = vpath
        BY DEF Result
      <3>2. Turned(k) = IF t.found THEN PrintCommit(k, t) ELSE t
        BY <2>1 DEF Turned
      <3> HIDE DEF t
      <3>3. PrintCommit(k, t) = Result(TRUE, vpath, <<k>>, FALSE)
        BY <1>3, <3>1 DEF PrintCommit
      <3> QED
        BY <3>1, <3>2, <3>3
    <2>3. k \in Wanted /\ SoughtAt(k - 1) = sought
      BY <1>1, <1>2, <1>4, NextRevision DEF SoughtAt
    <2>4. s = Turned(k) \/ s = Result(TRUE, vpath, files, counted)
      BY <1>4 DEF ShowCommit
    <2>5. CASE s = Turned(k)
      BY <1>1, <1>3, <1>4, <2>2, <2>3, <2>5 DEF Result
    <2>6. CASE s # Turned(k) /\ s = Result(TRUE, vpath, files, counted)
      BY <1>1, <1>3, <1>4, <2>3, <2>6 DEF Result
    <2> QED
      BY <2>4, <2>5, <2>6
  <1>5. CASE req.follow
    <2>1. k = cur /\ sought = SoughtAt(k)
      BY <1>1, <1>2, <1>5, NextRevision
    <2>2. /\ sought \in {NameIn(k), req.path} /\ Earlier(sought, req.path)
          /\ hist[k] # "merge" /\ k # 1 => (Found(k) <=> k \in Wanted)
          /\ hist[k] = "merge" \/ k = 1 => k \notin Wanted
          /\ SoughtAt(k - 1) = IF hist[k] # "merge" /\ k # 1 /\ Found(k) THEN Parent(k) ELSE sought
      BY <1>1, <1>5, <2>1, FollowsName
    <2>3. Earlier(vpath, req.path)
      BY <1>5 DEF RequestInv
    <2>4. CASE hist[k] = "merge" \/ k = 1
      <3>1. /\ ShowCommit(k, FALSE) = Result(FALSE, vpath, files, FALSE)
            /\ ShowCommit(k, counted) = Result(FALSE, vpath, files, counted)
        BY <1>5, <2>4 DEF ShowCommit
      <3>2. Turned(k) = ShowCommit(k, FALSE)
        <4> DEFINE t == Result(FALSE, vpath, files, FALSE)
        <4>1. ~t.found
          BY DEF Result
        <4>2. Turned(k) = IF t.found THEN PrintCommit(k, t) ELSE t
          BY <3>1 DEF Turned
        <4> HIDE DEF t
        <4> QED
          BY <3>1, <4>1, <4>2 DEF t
      <3>3. PICK done \in BOOLEAN : s = Result(FALSE, vpath, files, done)
        BY <1>3, <3>1, <3>2
      <3> QED
        BY <1>1, <1>3, <1>5, <2>2, <2>3, <2>4, <3>3 DEF Result
    <2>5. CASE ~(hist[k] = "merge" \/ k = 1) /\ Found(k)
      <3>1. /\ ShowCommit(k, FALSE) = Result(TRUE, sought, <<k>>, TRUE)
            /\ ShowCommit(k, counted) = Result(TRUE, sought, <<k>>, TRUE)
        BY <1>3, <1>5, <2>5 DEF ShowCommit
      <3>2. Turned(k) = ShowCommit(k, FALSE)
        <4> DEFINE t == Result(TRUE, sought, <<k>>, TRUE)
        <4>1. t.found /\ t.counted
          BY DEF Result
        <4>2. Turned(k) = IF t.found THEN PrintCommit(k, t) ELSE t
          BY <3>1 DEF Turned
        <4> HIDE DEF t
        <4>3. t.counted => PrintCommit(k, t) = t
          BY DEF PrintCommit
        <4> QED
          BY <3>1, <4>1, <4>2, <4>3 DEF t
      <3>3. s = Result(TRUE, sought, <<k>>, TRUE) /\ sought \in Changes(k)
        BY <2>5, <3>1, <3>2 DEF Found
      <3> QED
        BY <1>1, <1>3, <1>5, <2>2, <2>5, <3>3 DEF Result
    <2>6. CASE ~(hist[k] = "merge" \/ k = 1) /\ ~Found(k)
      <3>1. /\ ShowCommit(k, FALSE) = Result(FALSE, vpath, <<>>, TRUE)
            /\ ShowCommit(k, counted) = Result(FALSE, vpath, <<>>, TRUE)
        BY <1>5, <2>6 DEF ShowCommit
      <3>2. Turned(k) = ShowCommit(k, FALSE)
        <4> DEFINE t == Result(FALSE, vpath, <<>>, TRUE)
        <4>1. ~t.found
          BY DEF Result
        <4>2. Turned(k) = IF t.found THEN PrintCommit(k, t) ELSE t
          BY <3>1 DEF Turned
        <4> HIDE DEF t
        <4> QED
          BY <3>1, <4>1, <4>2 DEF t
      <3>3. s = Result(FALSE, vpath, <<>>, TRUE)
        BY <3>1, <3>2
      <3> QED
        BY <1>1, <1>3, <1>5, <2>2, <2>3, <2>6, <3>3 DEF Result
    <2> QED
      BY <2>4, <2>5, <2>6
  <1> QED
    BY <1>4, <1>5

-----------------------------------------------------------------------------
(* The inductive invariant *)

LogIInv ==
  /\ LogTypeOK /\ RequestInv /\ SoughtInv /\ PageInv /\ ClientInv
  /\ PagesCover /\ PrevJoins /\ NoEmptyPage /\ RowNames /\ CountsOwn

\* The log is the same as long as the request and the history are.
LEMMA SameLog ==
  ASSUME hist' = hist, req' = req
  PROVE  /\ Tip' = Tip /\ Wanted' = Wanted /\ \A n : Ahead(n)' = Ahead(n)
         /\ \A k : Changes(k)' = Changes(k) /\ NameIn(k)' = NameIn(k) /\ SoughtAt(k)' = SoughtAt(k)
         /\ \A r, t : LogOf(r, t)' = LogOf(r, t)
  <1>1. \A k : NameIn(k)' = NameIn(k)
    BY DEF NameIn
  <1>2. Creator' = Creator
    BY DEF Creator
  <1>3. \A k : Changes(k)' = Changes(k)
    BY <1>1, <1>2 DEF Changes
  <1>4. \A r, t : LogOf(r, t)' = LogOf(r, t)
    BY <1>3 DEF LogOf
  <1>5. Tip' = Tip
    BY DEF Tip
  <1>6. Wanted' = Wanted
    BY <1>4, <1>5 DEF Wanted
  <1>7. \A n : Ahead(n)' = Ahead(n)
    BY <1>6 DEF Ahead
  <1>8. \A k : SoughtAt(k)' = SoughtAt(k)
    BY <1>1 DEF SoughtAt
  <1> QED
    BY <1>1, <1>3, <1>4, <1>5, <1>6, <1>7, <1>8

\* What a turn of a loop does beside the rows.
LEMMA LookedStep ==
  ASSUME LogIInv, Serving, Walk # {}, NEW s, Looked(Revision, s),
         s = ShowCommit(Revision, counted) \/ s = Turned(Revision)
  PROVE  /\ RequestInv' /\ SoughtInv'
         /\ cur' \in 0..Len(hist) /\ sought' \in Paths /\ vpath' \in Paths /\ files' \in Seq(1..Len(hist)) /\ counted' \in BOOLEAN
  <1> DEFINE k == Revision
  <1> USE DEF LogIInv
  <1>1. /\ sought' = (IF req.follow /\ s.found THEN Parent(k) ELSE sought)
        /\ vpath' = s.vpath /\ files' = s.files /\ counted' = s.counted /\ cur' = k - 1
        /\ hist' = hist /\ req' = req /\ start' = start
    BY DEF Looked, client
  <1>2. /\ k \in 1..cur /\ s.files \in Seq(1..Len(hist)) /\ s.counted \in BOOLEAN
        /\ IF req.follow THEN Earlier(s.vpath, req.path) ELSE s.vpath = vpath
        /\ SoughtAt(k - 1) = IF req.follow /\ s.found THEN Parent(k) ELSE sought
    BY LooksAt
  <1>3. /\ cur \in 0..Tip /\ Tip \in 1..Len(hist) /\ Len(hist) \in Nat
        /\ req.path \in Paths /\ vpath \in Paths
    BY WantedIs, NextRevision DEF LogTypeOK, Requests
  <1>4. Tip' = Tip /\ \A n : NameIn(n)' = NameIn(n) /\ SoughtAt(n)' = SoughtAt(n)
    BY <1>1, SameLog
  <1> HIDE DEF k
  <1>5. k - 1 \in 0..Tip /\ k - 1 \in 0..Len(hist)
    BY <1>2, <1>3
  <1>6. sought' = SoughtAt(k - 1)
    BY <1>1, <1>2
  <1>7. sought' \in Paths
    <2>1. NameIn(k - 1) \in ToSet(Names)
      BY <1>5, NameOf DEF LogTypeOK
    <2> QED
      BY <1>3, <1>6, <2>1 DEF SoughtAt, Paths
  <1>8. RequestInv'
    <2>1. NameIn(Tip)' = NameIn(Tip)
      BY <1>1, <1>4 DEF NameIn
    <2> QED
      BY <1>1, <1>2, <1>4, <2>1 DEF RequestInv, Earlier, Index
  <1>9. SoughtInv'
    <2>1. sought' = SoughtAt(cur')
      BY <1>1, <1>6
    <2>2. NameIn(cur)' = NameIn(cur')
      BY <1>1 DEF NameIn
    <2> QED
      BY <1>1, <1>4, <1>5, <2>1, <2>2 DEF SoughtInv, SoughtAt, Index
  <1>10. s.vpath \in Paths
    BY <1>2, <1>3 DEF Earlier, Paths
  <1> QED
    BY <1>1, <1>2, <1>5, <1>7, <1>8, <1>9, <1>10

LEMMA ClientStays ==
  ASSUME LogIInv, Serving, Serving', hist' = hist, client' = client, req' = req
  PROVE  ClientInv'
  <1>1. /\ start' = start /\ want' = want /\ trail' = trail /\ left' = left
        /\ pc \in {"skip", "show"} /\ pc' \in {"skip", "show"}
    BY DEF client, Serving
  <1>2. Tip' = Tip /\ Wanted' = Wanted /\ \A n : Ahead(n)' = Ahead(n)
    BY SameLog
  <1>3. Moved' = Moved /\ Still' = Still
    BY <1>1 DEF Moved, Still
  <1>4. /\ ~req.follow /\ req.ofs > 0 => Ahead(0) > req.ofs
        /\ ~Moved => TurnInv(req.ofs)
        /\ ~Moved /\ Still /\ left # <<>> =>
             left[1] \in Wanted /\ Ahead(left[1]) \in req.ofs..(req.ofs + Count)
    BY DEF LogIInv, ClientInv
  <1>5. Ahead(0)' = Ahead(0)
    BY <1>2 DEF Ahead
  <1>6. TurnInv(req.ofs) => TurnInv(req.ofs)'
    BY <1>1, <1>2, <1>3 DEF TurnInv, Ahead
  <1>7. Ahead(left[1])' = Ahead(left[1])
    BY <1>1, <1>2 DEF Ahead
  <1> QED
    BY <1>1, <1>2, <1>3, <1>4, <1>5, <1>6, <1>7 DEF ClientInv

-----------------------------------------------------------------------------
(* The steps *)

LEMMA SkipStep ==
  ASSUME LogIInv, Skip
  PROVE  LogIInv'
  <1> DEFINE k == Revision
             s == ShowCommit(k, counted)
  <1> USE DEF LogIInv
  <1>1. /\ pc = "skip" /\ i < req.ofs /\ Walk # {} /\ Serving /\ Looked(Revision, ShowCommit(Revision, counted))
        /\ rows' = rows /\ hist' = hist /\ client' = client /\ req' = req /\ pc' = pc /\ links' = links
        /\ cur' = k - 1 /\ i' = IF s.found THEN i + 1 ELSE i
    BY DEF Skip, Looked, Serving
  <1>2. start' = start /\ want' = want /\ trail' = trail /\ left' = left
    BY <1>1 DEF client
  <1>3. /\ RequestInv' /\ SoughtInv'
        /\ cur' \in 0..Len(hist) /\ sought' \in Paths /\ vpath' \in Paths /\ files' \in Seq(1..Len(hist)) /\ counted' \in BOOLEAN
    BY <1>1, LookedStep
  <1>4. /\ k \in 1..cur /\ \A j \in Wanted : j <= cur => j <= k
        /\ s.found \in BOOLEAN /\ (s.found <=> k \in Wanted)
    BY <1>1, LooksAt
  <1>5. Tip' = Tip /\ Wanted' = Wanted /\ \A n : Ahead(n)' = Ahead(n)
    BY <1>1, SameLog
  <1>6. req.ofs \in Nat /\ cur \in Int /\ i \in Int
    BY DEF LogTypeOK, Requests
  <1>7. rows = <<>> /\ i = Ahead(cur)
    BY <1>1 DEF PageInv
  <1> HIDE DEF k, s
  <1>8. i' = Ahead(k - 1)
    <2>1. k \in Int /\ k <= cur
      BY <1>4, <1>6
    <2>2. Ahead(k - 1) = IF k \in Wanted THEN Ahead(cur) + 1 ELSE Ahead(cur)
      BY <1>4, <1>6, <2>1, AheadOne
    <2> QED
      BY <1>1, <1>4, <1>7, <2>2
  <1>9. i' <= req.ofs /\ i' \in 0..Len(hist)
    <2>1. k - 1 \in Int /\ Tip \in 1..Len(hist) /\ Len(hist) \in Nat
      BY <1>4, <1>6, WantedIs
    <2>2. Ahead(k - 1) \in 0..Tip
      BY <2>1, AheadIs
    <2>3. i' <= req.ofs
      BY <1>1, <1>6
    <2> QED
      BY <1>8, <2>1, <2>2, <2>3
  <1>10. LogTypeOK'
    BY <1>1, <1>2, <1>3, <1>9 DEF LogTypeOK
  <1>11. PageInv'
    <2>1. Ahead(cur)' = Ahead(k - 1)
      BY <1>1, <1>5 DEF Ahead
    <2> QED
      BY <1>1, <1>7, <1>8, <1>9, <2>1 DEF PageInv
  <1>12. ClientInv'
    BY <1>1, ClientStays DEF Serving
  <1>13. PagesCover' /\ PrevJoins' /\ NoEmptyPage'
    <2>1. Moved' = Moved /\ Still' = Still
      BY <1>1, <1>2 DEF Moved, Still
    <2>2. Len(rows) = 0
      BY <1>7
    <2> QED
      BY <1>1, <1>2, <2>1, <2>2 DEF PagesCover, PrevJoins, NoEmptyPage
  <1>14. RowNames' /\ CountsOwn'
    BY <1>1, <1>7 DEF RowNames, CountsOwn
  <1> QED
    BY <1>3, <1>10, <1>11, <1>12, <1>13, <1>14

LEMMA EndSkipStep ==
  ASSUME LogIInv, EndSkip
  PROVE  LogIInv'
  <1> USE DEF LogIInv
  <1>1. /\ pc = "skip" /\ (i >= req.ofs \/ Walk = {}) /\ pc' = "show" /\ i' = 0 /\ Serving /\ Serving'
        /\ hist' = hist /\ client' = client /\ req' = req /\ cur' = cur /\ sought' = sought /\ vpath' = vpath
        /\ files' = files /\ counted' = counted /\ rows' = rows /\ links' = links
    BY DEF EndSkip, Serving
  <1>2. start' = start /\ want' = want /\ trail' = trail /\ left' = left
    BY <1>1 DEF client
  <1>3. Tip' = Tip /\ Wanted' = Wanted /\ \A n : Ahead(n)' = Ahead(n) /\ NameIn(n)' = NameIn(n)
    BY <1>1, SameLog
  <1>4. req.ofs \in Nat /\ cur \in Int /\ Count \in Nat \ {0} /\ Len(hist) \in Nat
    BY LogAssumption, WantedIs DEF LogTypeOK, Requests
  <1>5. rows = <<>> /\ i = Ahead(cur) /\ i <= req.ofs
    BY <1>1 DEF PageInv
  <1>6. LogTypeOK'
    BY <1>1, <1>2, <1>4 DEF LogTypeOK
  <1>7. RequestInv' /\ SoughtInv'
    <2>1. NameIn(Tip)' = NameIn(Tip) /\ NameIn(cur)' = NameIn(cur)
      BY <1>1, <1>3 DEF NameIn
    <2>2. RequestInv'
      BY <1>1, <1>2, <1>3, <2>1 DEF RequestInv, Earlier
    <2>3. SoughtInv'
      BY <1>1, <1>3, <2>1 DEF SoughtInv
    <2> QED
      BY <2>2, <2>3
  <1>8. PageInv'
    <2>1. Walk' = Walk
      <3>1. \A n : Changes(n)' = Changes(n)
        BY <1>1, SameLog
      <3> QED
        BY <1>1, <3>1 DEF Walk
    <2>2. Ahead(cur)' = Ahead(cur)
      BY <1>1, <1>3 DEF Ahead
    <2>3. Ahead(cur) = req.ofs + 0 \/ (Ahead(cur) <= req.ofs /\ Walk = {})
      BY <1>1, <1>4, <1>5 DEF LogTypeOK
    <2>4. ASSUME NEW k \in Wanted, k > cur PROVE ~(Ahead(k) >= req.ofs)
      <3>1. cur \in Int /\ k \in Int /\ Ahead(k) \in Nat /\ Ahead(cur) \in Nat
        BY LogNumbers
      <3>2. Ahead(k) < Ahead(cur)
        BY <2>4, <3>1, AheadIs
      <3> QED
        BY <1>4, <1>5, <3>1, <3>2
    <2>5. \A k : Ahead(k)' = Ahead(k)
      BY <1>3
    <2>6. ~ \E k \in Wanted : k > cur /\ Ahead(k)' >= req.ofs
      BY <2>4, <2>5
    <2> QED
      BY <1>1, <1>3, <1>4, <1>5, <2>1, <2>2, <2>3, <2>6 DEF PageInv
  <1>9. ClientInv'
    BY <1>1, ClientStays
  <1>10. PagesCover' /\ PrevJoins' /\ NoEmptyPage'
    <2>1. Moved' = Moved /\ Still' = Still
      BY <1>1, <1>2 DEF Moved, Still
    <2>2. Len(rows) = 0
      BY <1>5
    <2> QED
      BY <1>1, <1>2, <2>1, <2>2 DEF PagesCover, PrevJoins, NoEmptyPage
  <1>11. RowNames' /\ CountsOwn'
    BY <1>1, <1>5 DEF RowNames, CountsOwn
  <1> QED
    BY <1>6, <1>7, <1>8, <1>9, <1>10, <1>11

\* The log of the request is the one the client asked for, up to where the walk
\* begins.
LEMMA SameRequest ==
  ASSUME LogTypeOK, RequestInv, ~Moved
  PROVE  Wanted = {k \in LogOf(start.req, Len(hist)) : k <= Tip}
  <1>1. req.path = start.req.path /\ req.follow = (start.req.follow /\ start.req.path # None /\ FollowLinks)
    BY DEF Moved, RequestInv
  <1>2. Tip \in 1..Len(hist) /\ Len(hist) \in Nat
    BY WantedIs
  <1>3. ASSUME NEW k PROVE k \in Wanted <=> k \in LogOf(start.req, Len(hist)) /\ k <= Tip
    <2>1. k \in 1..Tip <=> k \in 1..Len(hist) /\ k <= Tip
      BY <1>2
    <2>2. CASE req.path = None
      BY <1>1, <2>1, <2>2 DEF Wanted, LogOf
    <2>3. CASE req.path # None /\ req.follow
      BY <1>1, <2>1, <2>3 DEF Wanted, LogOf
    <2>4. CASE req.path # None /\ ~req.follow
      BY <1>1, <2>1, <2>4 DEF Wanted, LogOf
    <2> QED
      BY <2>2, <2>3, <2>4
  <1> QED
    BY <1>3

LEMMA ShowStep ==
  ASSUME LogIInv, Show
  PROVE  LogIInv'
  <1> DEFINE k == Revision
             s == Turned(k)
             n == Len(rows)
  <1> USE DEF LogIInv
  <1>1. /\ pc = "show" /\ i < Count /\ Walk # {} /\ Serving /\ Serving' /\ Looked(Revision, Turned(Revision))
        /\ hist' = hist /\ client' = client /\ req' = req /\ pc' = pc /\ links' = links
        /\ cur' = k - 1 /\ (i' = IF s.found THEN i + 1 ELSE i)
        /\ rows' = IF s.found THEN Append(rows, Row(k, s)) ELSE rows
    BY DEF Show, Looked, Serving
  <1>2. start' = start /\ want' = want /\ trail' = trail /\ left' = left
    BY <1>1 DEF client
  <1>3. /\ RequestInv' /\ SoughtInv'
        /\ cur' \in 0..Len(hist) /\ sought' \in Paths /\ vpath' \in Paths /\ files' \in Seq(1..Len(hist)) /\ counted' \in BOOLEAN
        /\ vpath' = s.vpath
    BY <1>1, LookedStep DEF Looked
  <1>4. /\ k \in 1..cur /\ \A j \in Wanted : j <= cur => j <= k
        /\ s.found \in BOOLEAN /\ (s.found <=> k \in Wanted)
        /\ s.found => s.files = <<k>>
        /\ IF req.follow THEN Earlier(s.vpath, req.path) ELSE s.vpath = vpath
        /\ s.found /\ req.follow => s.vpath \in Changes(k) /\ s.vpath \in {NameIn(k), req.path}
    BY <1>1, LooksAt
  <1>5. Tip' = Tip /\ Wanted' = Wanted /\ \A m : Ahead(m)' = Ahead(m)
    BY <1>1, SameLog
  <1>6. /\ req.ofs \in Nat /\ cur \in 0..Len(hist) /\ i \in Int /\ Count \in Nat \ {0} /\ n \in Nat
        /\ Tip \in 1..Len(hist) /\ Len(hist) \in Nat /\ Wanted \subseteq 1..Tip
        /\ rows \in Seq([id : 1..Len(hist), path : Paths, files : Seq(1..Len(hist))])
    <2>1. cur \in 0..Len(hist) /\ rows \in Seq([id : 1..Len(hist), path : Paths, files : Seq(1..Len(hist))])
      BY DEF LogTypeOK
    <2> QED
      BY <2>1, LogNumbers
  <1>7. /\ i = n /\ n <= Count /\ Ahead(cur) = req.ofs + n
        /\ \A j \in 1..n : RowOf(j)
        /\ \A j \in Wanted : j > cur /\ Ahead(j) >= req.ofs => \E m \in 1..n : rows[m].id = j
    BY <1>1 DEF PageInv
  <1> HIDE DEF k, s
  <1>8. k \in Int /\ k - 1 \in Int /\ k <= cur /\ k \in 1..Len(hist) /\ s.vpath \in Paths
        /\ cur \in Int /\ k - 1 < k /\ \A j \in Wanted : j \in Int
    <2>1. cur \in Int /\ \A j \in Wanted : j \in Int
      BY LogNumbers
    <2>2. k \in Int /\ k - 1 \in Int /\ k <= cur /\ k - 1 < k /\ k \in 1..Len(hist)
      BY <1>4, <1>6
    <2>3. s.vpath \in Paths
      BY <1>3
    <2> QED
      BY <2>1, <2>2, <2>3
  <1>9. Ahead(k) = Ahead(cur) /\ Ahead(k - 1) = IF k \in Wanted THEN Ahead(cur) + 1 ELSE Ahead(cur)
    BY <1>4, <1>6, <1>8, AheadOne
  <1>10. Ahead(cur)' = Ahead(k - 1)
    BY <1>1, <1>5 DEF Ahead
  <1>11. CASE ~s.found
    <2>1. rows' = rows /\ i' = i /\ Ahead(k - 1) = req.ofs + n /\ k \notin Wanted
      BY <1>1, <1>4, <1>7, <1>9, <1>11
    <2>2. LogTypeOK'
      BY <1>1, <1>2, <1>3, <2>1 DEF LogTypeOK
    <2>3. PageInv'
      <3>1. ASSUME NEW j \in 1..n
            PROVE  rows[j].id \in Wanted /\ rows[j].id > k - 1 /\ Ahead(rows[j].id) = req.ofs + j - 1
        <4>1. rows[j].id \in Wanted /\ rows[j].id > cur /\ Ahead(rows[j].id) = req.ofs + j - 1
          BY <1>7 DEF RowOf
        <4> QED
          BY <1>8, <4>1
      <3>2. \A j \in 1..n : RowOf(j)'
        BY <1>1, <1>5, <2>1, <3>1 DEF RowOf, Ahead
      <3>3. ASSUME NEW j \in Wanted, j > k - 1 PROVE j > cur
        <4>1. j \in Int /\ j # k /\ (j <= cur => j <= k)
          BY <1>4, <1>8, <2>1
        <4> QED
          BY <1>8, <3>3, <4>1
      <3>4. \A j \in Wanted : j > k - 1 /\ Ahead(j) >= req.ofs => \E m \in 1..n : rows[m].id = j
        BY <1>7, <3>3
      <3> QED
        BY <1>1, <1>5, <1>7, <1>10, <2>1, <3>2, <3>4 DEF PageInv
    <2>4. PagesCover' /\ PrevJoins' /\ NoEmptyPage' /\ RowNames' /\ CountsOwn'
      <3>1. Moved' = Moved /\ Still' = Still /\ \A r, t : LogOf(r, t)' = LogOf(r, t)
        BY <1>1, <1>2, SameLog DEF Moved, Still
      <3>2. \A j : Changes(j)' = Changes(j) /\ NameIn(j)' = NameIn(j)
        BY <1>1, SameLog
      <3>3. PagesCover'
        BY <1>1, <1>2, <2>1, <3>1 DEF PagesCover
      <3>4. PrevJoins' /\ NoEmptyPage' /\ CountsOwn'
        BY <1>1, <2>1 DEF PrevJoins, NoEmptyPage, CountsOwn
      <3>5. RowNames'
        BY <1>1, <2>1, <3>2 DEF RowNames
      <3> QED
        BY <3>3, <3>4, <3>5
    <2>5. ClientInv'
      BY <1>1, ClientStays
    <2> QED
      BY <1>3, <2>2, <2>3, <2>4, <2>5
  <1>12. CASE s.found
    <2> DEFINE new == Row(k, s)
    <2>1. new.id = k /\ new.path = s.vpath /\ new.files = <<k>>
          /\ new \in [id : 1..Len(hist), path : Paths, files : Seq(1..Len(hist))]
      <3>1. <<k>> \in Seq(1..Len(hist)) /\ s.files = <<k>>
        BY <1>4, <1>8, <1>12
      <3> QED
        BY <1>8, <3>1 DEF Row
    <2> HIDE DEF new
    <2>2. rows' = Append(rows, new) /\ i' = n + 1 /\ Ahead(k - 1) = req.ofs + (n + 1) /\ k \in Wanted
      <3>1. rows' = Append(rows, new) /\ i' = i + 1 /\ k \in Wanted
        BY <1>1, <1>4, <1>12 DEF new
      <3>2. Ahead(k - 1) = req.ofs + n + 1
        BY <1>7, <1>9, <3>1
      <3>3. req.ofs + n + 1 = req.ofs + (n + 1)
        <4>1. req.ofs \in Int /\ n \in Int
          BY LogNumbers
        <4> HIDE DEF n
        <4> QED
          BY <4>1
      <3> QED
        BY <1>7, <3>1, <3>2, <3>3
    <2>3. /\ rows' \in Seq([id : 1..Len(hist), path : Paths, files : Seq(1..Len(hist))])
          /\ Len(rows') = n + 1 /\ (\A j \in 1..n : rows'[j] = rows[j]) /\ rows'[n + 1] = new
      BY <1>6, <2>1, <2>2, AppendProperties
    <2>4. n + 1 <= Count /\ i' = Len(rows') /\ i' \in 0..Len(hist)
      <3>1. Ahead(k - 1) \in 0..Tip
        BY <1>8, AheadIs
      <3>2. n + 1 <= Count
        BY <1>1, <1>6, <1>7
      <3>3. n + 1 \in 0..Len(hist)
        <4>1. Tip <= Len(hist) /\ Tip \in Nat /\ Len(hist) \in Nat /\ req.ofs \in Nat /\ n \in Nat
          BY LogNumbers
        <4>2. req.ofs + (n + 1) \in 0..Tip
          BY <2>2, <3>1
        <4> HIDE DEF n
        <4> QED
          BY <4>1, <4>2
      <3> QED
        BY <2>2, <2>3, <3>2, <3>3
    <2>5. \A j \in 1..(n + 1) : j \in 1..n \/ j = n + 1
      BY <1>6
    <2>6. LogTypeOK'
      BY <1>1, <1>2, <1>3, <2>3, <2>4 DEF LogTypeOK
    <2>7. PageInv'
      <3>1. ASSUME NEW j \in 1..n
            PROVE  rows[j].id \in Wanted /\ rows[j].id > k - 1 /\ Ahead(rows[j].id) = req.ofs + j - 1
        <4>1. rows[j].id \in Wanted /\ rows[j].id > cur /\ Ahead(rows[j].id) = req.ofs + j - 1
          BY <1>7 DEF RowOf
        <4> QED
          BY <1>8, <4>1
      <3>2. Ahead(k) = req.ofs + (n + 1) - 1 /\ k > k - 1
        BY <1>6, <1>7, <1>8, <1>9
      <3>3. \A j \in 1..(n + 1) : rows'[j].id \in Wanted /\ rows'[j].id > k - 1 /\ Ahead(rows'[j].id) = req.ofs + j - 1
        BY <2>1, <2>2, <2>3, <2>5, <3>1, <3>2
      <3>4. \A j \in 1..(n + 1) : RowOf(j)'
        BY <1>1, <1>5, <3>3 DEF RowOf, Ahead
      <3>5. ASSUME NEW j \in Wanted, j > k - 1, Ahead(j) >= req.ofs PROVE \E m \in 1..(n + 1) : rows'[m].id = j
        <4>1. j > cur \/ j = k
          BY <1>4, <1>6, <1>8, <3>5
        <4>2. n + 1 \in 1..(n + 1) /\ \A m \in 1..n : m \in 1..(n + 1)
          BY <1>6
        <4> QED
          BY <1>7, <2>1, <2>3, <3>5, <4>1, <4>2
      <3>6. \A j \in Wanted : j > k - 1 /\ Ahead(j)' >= req.ofs => \E m \in 1..(n + 1) : rows'[m].id = j
        BY <1>5, <3>5
      <3> QED
        BY <1>1, <1>5, <1>10, <2>2, <2>3, <2>4, <3>4, <3>6 DEF PageInv
    <2>8. PagesCover'
      <3>1. Moved' = Moved /\ Still' = Still /\ \A r, t : LogOf(r, t)' = LogOf(r, t)
        BY <1>1, <1>2, SameLog DEF Moved, Still
      <3>2. ~Moved => k \in LogOf(start.req, Len(hist))
        BY <2>2, SameRequest
      <3>3. ~Moved => \A j \in 1..(n + 1) : rows'[j].id \in LogOf(start.req, Len(hist))
        BY <2>1, <2>3, <2>5, <3>2 DEF PagesCover
      <3> QED
        BY <1>1, <1>2, <2>3, <3>1, <3>3 DEF PagesCover
    <2>9. PrevJoins' /\ NoEmptyPage'
      BY <1>1 DEF PrevJoins, NoEmptyPage
    <2>10. RowNames' /\ CountsOwn'
      <3>1. \A j : Changes(j)' = Changes(j) /\ NameIn(j)' = NameIn(j)
        BY <1>1, SameLog
      <3>2. IF req.follow THEN new.path \in Changes(k) /\ new.path \in {NameIn(k), req.path}
                          ELSE new.path = req.path
        BY <1>4, <1>12, <2>1 DEF RequestInv
      <3>3. RowNames'
        <4>1. ASSUME NEW j \in 1..n
              PROVE  IF req.follow THEN rows'[j].path \in Changes(rows'[j].id) /\ rows'[j].path \in {NameIn(rows'[j].id), req.path}
                                   ELSE rows'[j].path = req.path
          BY <1>1, <2>3 DEF RowNames
        <4>2. IF req.follow THEN rows'[n + 1].path \in Changes(rows'[n + 1].id)
                                 /\ rows'[n + 1].path \in {NameIn(rows'[n + 1].id), req.path}
                            ELSE rows'[n + 1].path = req.path
          BY <2>1, <2>3, <3>2
        <4>3. Len(rows') = n + 1 /\ req' = req
          BY <1>1, <2>3
        <4> QED
          BY <2>5, <3>1, <4>1, <4>2, <4>3 DEF RowNames
      <3>4. CountsOwn'
        BY <2>1, <2>3, <2>5 DEF CountsOwn
      <3> QED
        BY <3>3, <3>4
    <2>11. ClientInv'
      BY <1>1, ClientStays
    <2> QED
      BY <1>3, <2>6, <2>7, <2>8, <2>9, <2>10, <2>11
  <1> QED
    BY <1>4, <1>11, <1>12

\* The pages of one log: as long as no rename is passed the links keep its path.
LEMMA SamePath ==
  ASSUME LogTypeOK, RequestInv, NEW ofsTo \in Nat
  PROVE  LET r == Opened(Link(ofsTo))
         IN  /\ r \in Requests /\ r.path = vpath /\ r.follow = req.follow /\ r.ofs = ofsTo /\ r.id = req.id
             /\ r.path = start.req.path => req.path = start.req.path /\ r.path = req.path
             /\ req.follow => Earlier(vpath, start.req.path) /\ Earlier(vpath, NameIn(Tip)) /\ Earlier(vpath, vpath)
  <1> DEFINE r == Opened(Link(ofsTo))
  <1>1. /\ Link(ofsTo) = [path |-> vpath, follow |-> req.follow, ofs |-> ofsTo, id |-> req.id]
        /\ vpath \in Paths /\ req.follow \in BOOLEAN /\ req.id \in Nat
    BY DEF Link, LogTypeOK, Requests
  <1>2. req.follow => FollowLinks /\ vpath \in ToSet(Names) /\ vpath # None
    BY LogAssumption DEF RequestInv, Earlier
  <1>3. r \in Requests /\ r.path = vpath /\ r.follow = req.follow /\ r.ofs = ofsTo /\ r.id = req.id
    BY <1>1, <1>2 DEF Opened, Requests
  <1>4. ASSUME req.follow
        PROVE  /\ Earlier(vpath, req.path) /\ Earlier(req.path, start.req.path) /\ Earlier(req.path, NameIn(Tip))
               /\ Index(vpath) \in Int /\ Index(req.path) \in Int /\ Index(start.req.path) \in Int
               /\ Index(NameIn(Tip)) \in Int
    BY <1>4, NamesIndex DEF RequestInv, Earlier
  <1>5. req.follow => Earlier(vpath, start.req.path) /\ Earlier(vpath, NameIn(Tip)) /\ Earlier(vpath, vpath)
    BY <1>4 DEF Earlier
  <1>6. vpath = start.req.path => req.path = start.req.path /\ vpath = req.path
    <2>1. CASE ~req.follow
      BY <2>1 DEF RequestInv
    <2>2. CASE req.follow /\ vpath = start.req.path
      <3>1. Index(vpath) = Index(req.path)
        BY <1>4, <2>2 DEF Earlier
      <3>2. Names[Index(vpath)] = vpath /\ Names[Index(req.path)] = req.path
        BY <1>4, <2>2, NamesIndex DEF Earlier
      <3> QED
        BY <2>2, <3>1, <3>2
    <2> QED
      BY <1>1, <2>1, <2>2
  <1> HIDE DEF r
  <1>7. /\ r \in Requests /\ r.path = vpath /\ r.follow = req.follow /\ r.ofs = ofsTo /\ r.id = req.id
        /\ r.path = start.req.path => req.path = start.req.path /\ r.path = req.path
        /\ req.follow => Earlier(vpath, start.req.path) /\ Earlier(vpath, NameIn(Tip)) /\ Earlier(vpath, vpath)
    BY <1>3, <1>5, <1>6
  <1> QED
    BY <1>7 DEF r

\* The page is done: its rows and its links are those the next page builds on.
LEMMA PagerLinks ==
  ASSUME LogIInv, Pager
  PROVE  /\ pc = "show" /\ pc' = "read" /\ Serving
         /\ hist' = hist /\ start' = start /\ want' = want /\ left' = left /\ req' = req /\ cur' = cur
         /\ sought' = sought /\ vpath' = vpath /\ i' = i /\ files' = files /\ counted' = counted /\ rows' = rows
         /\ links' = [prev |-> PrevLink, next |-> NextLink]
         /\ (links'.next # None <=> Walk # {}) /\ (links'.prev # None <=> req.ofs > 0)
         /\ links'.next # None => links'.next = Link(req.ofs + Count)
         /\ links'.prev # None => links'.prev = Link(req.ofs - Count)
         /\ links' \in [prev : Requests \cup {None}, next : Requests \cup {None}]
  <1> USE DEF LogIInv
  <1>1. /\ pc = "show" /\ pc' = "read" /\ Serving
        /\ hist' = hist /\ start' = start /\ want' = want /\ left' = left /\ req' = req /\ cur' = cur
        /\ sought' = sought /\ vpath' = vpath /\ i' = i /\ files' = files /\ counted' = counted /\ rows' = rows
        /\ links' = [prev |-> PrevLink, next |-> NextLink]
    BY DEF Pager, Serving
  <1>2. None \notin Requests
    BY LogAssumption
  <1>3. ASSUME NEW n \in Int PROVE Link(n) \in Requests
    BY DEF Link, LogTypeOK, Requests
  <1>4. req.ofs + Count \in Int /\ req.ofs - Count \in Int
    BY LogAssumption DEF LogTypeOK, Requests
  <1>5. Link(req.ofs + Count) \in Requests /\ Link(req.ofs - Count) \in Requests
    BY <1>3, <1>4
  <1>6. NextLink = (IF Walk # {} THEN Link(req.ofs + Count) ELSE None)
        /\ PrevLink = IF req.ofs > 0 THEN Link(req.ofs - Count) ELSE None
    BY DEF NextLink, PrevLink
  <1> QED
    BY <1>1, <1>2, <1>5, <1>6

\* What the client has seen with this page: the commits of the pages before, then
\* those of its rows, which come next in the log.
LEMMA PageShown ==
  ASSUME LogIInv, Pager
  PROVE  /\ trail' \in Seq(1..Len(hist)) /\ Len(trail') = Len(trail) + Len(rows)
         /\ \A k \in 1..Len(trail) : trail'[k] = trail[k]
         /\ \A k \in 1..Len(rows) : trail'[Len(trail) + k] = rows[k].id
         /\ ToSet(trail') = ToSet(trail) \cup {rows[k].id : k \in 1..Len(rows)}
  <1> DEFINE ids == [k \in 1..Len(rows) |-> rows[k].id]
             m   == Len(trail)
             n   == Len(rows)
  <1>1. trail \in Seq(1..Len(hist)) /\ m \in Nat /\ n \in Nat
        /\ rows \in Seq([id : 1..Len(hist), path : Paths, files : Seq(1..Len(hist))])
    BY DEF LogIInv, LogTypeOK
  <1>2. \A k \in 1..n : rows[k].id \in 1..Len(hist)
    <2>1. \A k \in 1..n : rows[k] \in [id : 1..Len(hist), path : Paths, files : Seq(1..Len(hist))]
      BY <1>1, ElementOfSeq
    <2> QED
      BY <2>1
  <1>3. ids \in Seq(1..Len(hist)) /\ Len(ids) = n /\ \A k \in 1..n : ids[k] = rows[k].id
    BY <1>1, <1>2, IsASeq
  <1>4. trail' = trail \o ids
    BY DEF Pager
  <1> HIDE DEF ids
  <1>5. /\ trail' \in Seq(1..Len(hist)) /\ Len(trail') = m + n
        /\ \A k \in 1..(m + n) : trail'[k] = IF k <= m THEN trail[k] ELSE ids[k - m]
    <2>1. Len(trail) = m /\ Len(ids) = n
      BY <1>3
    <2> HIDE DEF m, n
    <2>2. /\ trail \o ids \in Seq(1..Len(hist)) /\ Len(trail \o ids) = Len(trail) + Len(ids)
          /\ \A k \in 1..(Len(trail) + Len(ids)) :
               (trail \o ids)[k] = IF k <= Len(trail) THEN trail[k] ELSE ids[k - Len(trail)]
      BY <1>1, <1>3, ConcatProperties
    <2> QED
      BY <1>4, <2>1, <2>2
  <1> HIDE DEF m, n
  <1>6. ASSUME NEW k \in 1..m PROVE trail'[k] = trail[k] /\ k \in 1..(m + n)
    <2>1. k \in 1..(m + n) /\ k <= m
      BY <1>1
    <2> QED
      BY <1>5, <2>1
  <1>7. ASSUME NEW k \in 1..n PROVE trail'[m + k] = rows[k].id /\ m + k \in 1..(m + n)
    <2>1. m + k \in 1..(m + n) /\ ~(m + k <= m) /\ (m + k) - m = k
      BY <1>1
    <2> QED
      BY <1>3, <1>5, <2>1
  <1>8. \A k \in 1..(m + n) : k \in 1..m \/ \E j \in 1..n : k = m + j
    <2>1. ASSUME NEW k \in 1..(m + n), k \notin 1..m PROVE k - m \in 1..n /\ k = m + (k - m)
      BY <1>1, <2>1
    <2> QED
      BY <2>1
  <1>9. ToSet(trail') = ToSet(trail) \cup {rows[k].id : k \in 1..n}
    <2>1. ToSet(trail') = {trail'[k] : k \in 1..(m + n)}
      BY <1>5 DEF ToSet
    <2>2. ToSet(trail) = {trail[k] : k \in 1..m}
      BY <1>1 DEF ToSet, m
    <2> QED
      BY <1>6, <1>7, <1>8, <2>1, <2>2
  <1> QED
    BY <1>5, <1>6, <1>7, <1>9 DEF m, n

\* The commits of the log that the page has not shown.
LEMMA PageLeaves ==
  ASSUME LogIInv, Pager
  PROVE  /\ Walk # {} => Len(rows) = Count /\ Ahead(cur) = req.ofs + Count
         /\ rows = <<>> => Walk = {}
         /\ \A k \in Wanted : k <= cur => Walk # {}
         /\ \A k \in Wanted : k > cur /\ Ahead(k) >= req.ofs => \E j \in 1..Len(rows) : rows[j].id = k
         /\ \A j \in 1..Len(rows) : /\ rows[j].id \in Wanted /\ rows[j].id > cur
                                    /\ Ahead(rows[j].id) = req.ofs + j - 1
         /\ Ahead(cur) <= req.ofs + Len(rows)
  <1> USE DEF LogIInv
  <1>1. pc = "show" /\ Serving /\ (i >= Count \/ Walk = {})
    BY DEF Pager, Serving
  <1>2. /\ i = Len(rows) /\ i <= Count
        /\ \/ Ahead(cur) = req.ofs + i
           \/ Ahead(cur) <= req.ofs /\ i = 0 /\ Walk = {}
        /\ \A k \in 1..Len(rows) : RowOf(k)
        /\ \A k \in Wanted : k > cur /\ Ahead(k) >= req.ofs => \E j \in 1..Len(rows) : rows[j].id = k
    BY <1>1 DEF PageInv
  <1>3. req.ofs \in Nat /\ Count \in Nat \ {0} /\ i \in Nat /\ cur \in Int /\ Ahead(cur) \in Nat
    BY LogNumbers
  <1>4. \A k \in Wanted : k <= cur => k \in Walk
    BY <1>1, NextRevision
  <1>5. rows = <<>> => i = 0
    BY <1>2
  <1>6. Walk # {} => i = Count /\ Ahead(cur) = req.ofs + Count
    BY <1>1, <1>2, <1>3
  <1>7. Ahead(cur) <= req.ofs + i
    BY <1>2, <1>3
  <1> QED
    BY <1>1, <1>2, <1>3, <1>4, <1>5, <1>6, <1>7 DEF RowOf

LEMMA PagerCovers ==
  ASSUME LogIInv, Pager
  PROVE  PagesCover'
  <1> DEFINE m == Len(trail)
             n == Len(rows)
  <1> USE DEF LogIInv
  <1>1. /\ pc' = "read" /\ Serving /\ hist' = hist /\ start' = start /\ want' = want /\ req' = req /\ rows' = rows
        /\ (links'.next # None <=> Walk # {})
    BY PagerLinks
  <1>2. Moved' = Moved /\ Still' = Still /\ LogOf(start.req, Len(hist))' = LogOf(start.req, Len(hist))
    BY <1>1, SameLog DEF Moved, Still, LogOf
  <1>3. /\ Len(trail') = m + n /\ \A k \in 1..m : trail'[k] = trail[k]
        /\ \A k \in 1..n : trail'[m + k] = rows[k].id
        /\ ToSet(trail') = ToSet(trail) \cup {rows[k].id : k \in 1..n}
    BY PageShown
  <1>4. /\ \A k \in Wanted : k <= cur => Walk # {}
        /\ \A k \in Wanted : k > cur /\ Ahead(k) >= req.ofs => \E j \in 1..n : rows[j].id = k
        /\ \A j \in 1..n : /\ rows[j].id \in Wanted /\ Ahead(rows[j].id) = req.ofs + j - 1
    BY PageLeaves
  <1>5. m \in Nat /\ n \in Nat /\ req.ofs \in Nat /\ cur \in Int /\ \A k \in Wanted : k \in Int
    BY WantedIs DEF LogTypeOK, Requests
  <1>6. \A j, k \in Wanted : Ahead(j) < Ahead(k) => k < j
    <2>1. \A j, k \in Wanted : j <= k => Ahead(k) <= Ahead(j)
      BY <1>5, AheadIs
    <2>2. \A j \in Wanted : Ahead(j) \in Int
      BY <1>5, AheadIs, WantedIs
    <2> QED
      BY <1>5, <2>1, <2>2
  <1> HIDE DEF m, n
  <1>7. ~Moved => \A k \in 1..n : rows[k].id \in LogOf(start.req, Len(hist))
    BY DEF PagesCover, n
  <1>8. ASSUME ~Moved, Still, NEW k \in 1..(m + n - 1)
        PROVE  trail'[k] > trail'[k + 1]
    <2>1. CASE k < m
      <3>1. k \in 1..m /\ k + 1 \in 1..m /\ k \in 1..(m - 1)
        BY <1>5, <2>1
      <3>2. trail[k] > trail[k + 1]
        BY <1>8, <3>1 DEF PagesCover, m
      <3> QED
        BY <1>3, <3>1, <3>2
    <2>2. CASE k = m
      <3>1. m \in 1..m /\ 1 \in 1..n
        BY <1>5, <1>8, <2>2
      <3>2. trail'[k] = trail[m] /\ trail'[k + 1] = rows[1].id
        BY <1>3, <2>2, <3>1
      <3>3. trail # <<>> /\ Last(trail) = trail[m]
        BY <3>1 DEF Last, m
      <3>4. trail[m] \in Wanted /\ Ahead(trail[m]) < req.ofs
        BY <1>1, <1>8, <3>3 DEF ClientInv, TurnInv
      <3>5. rows[1].id \in Wanted /\ Ahead(rows[1].id) = req.ofs
        BY <1>4, <1>5, <3>1
      <3>6. rows[1].id < trail[m]
        BY <1>6, <3>4, <3>5
      <3> QED
        BY <1>5, <3>2, <3>4, <3>5, <3>6
    <2>3. CASE k > m
      <3>1. k - m \in 1..n /\ k - m + 1 \in 1..n /\ k = m + (k - m) /\ k + 1 = m + (k - m + 1)
        BY <1>5, <1>8, <2>3
      <3> DEFINE j == k - m
      <3>2. j \in 1..n /\ j + 1 \in 1..n /\ j \in Int /\ trail'[k] = rows[j].id /\ trail'[k + 1] = rows[j + 1].id
        BY <1>3, <3>1
      <3> HIDE DEF j
      <3>3. rows[j].id \in Wanted /\ rows[j + 1].id \in Wanted
            /\ Ahead(rows[j].id) = req.ofs + j - 1 /\ Ahead(rows[j + 1].id) = req.ofs + (j + 1) - 1
        BY <1>4, <3>2
      <3>4. Ahead(rows[j].id) < Ahead(rows[j + 1].id)
        BY <1>5, <3>2, <3>3
      <3> QED
        BY <1>5, <1>6, <3>2, <3>3, <3>4
    <2> QED
      BY <1>5, <2>1, <2>2, <2>3
  <1>9. ASSUME ~Moved, Walk = {}, NEW k \in want PROVE k \in ToSet(trail')
    <2>1. CASE k \in ToSet(trail)
      BY <1>3, <2>1
    <2>2. CASE k \notin ToSet(trail)
      <3>1. k \in Wanted /\ Ahead(k) >= req.ofs
        BY <1>1, <1>9, <2>2 DEF ClientInv, TurnInv
      <3>2. k > cur
        BY <1>4, <1>5, <1>9, <3>1
      <3> QED
        BY <1>3, <1>4, <3>1, <3>2
    <2> QED
      BY <2>1, <2>2
  <1>10. ASSUME ~Moved
         PROVE  /\ \A k \in 1..Len(rows') : rows'[k].id \in LogOf(start.req, Len(hist))'
                /\ Still => \A k \in 1..(Len(trail') - 1) : trail'[k] > trail'[k + 1]
                /\ links'.next = None => want' \subseteq ToSet(trail')
    <2>1. \A k \in 1..Len(rows') : rows'[k].id \in LogOf(start.req, Len(hist))'
      BY <1>1, <1>2, <1>7, <1>10 DEF n
    <2>2. Still => \A k \in 1..(Len(trail') - 1) : trail'[k] > trail'[k + 1]
      <3>1. Len(trail') - 1 = m + n - 1
        <4>1. Len(trail') = m + n
          BY <1>3
        <4> QED
          BY <1>5, <4>1
      <3>2. Still => \A k \in 1..(m + n - 1) : trail'[k] > trail'[k + 1]
        BY <1>8, <1>10
      <3> QED
        BY <3>1, <3>2
    <2>3. links'.next = None => want' \subseteq ToSet(trail')
      BY <1>1, <1>9, <1>10
    <2> QED
      BY <2>1, <2>2, <2>3
  <1> QED
    BY <1>2, <1>10 DEF PagesCover

LEMMA PagerJoins ==
  ASSUME LogIInv, Pager
  PROVE  PrevJoins' /\ NoEmptyPage'
  <1> DEFINE n == Len(rows)
  <1> USE DEF LogIInv
  <1>1. /\ pc = "show" /\ Serving /\ hist' = hist /\ start' = start /\ left' = left /\ req' = req /\ rows' = rows
    BY PagerLinks
  <1>2. Moved' = Moved /\ Still' = Still /\ LogOf(start.req, Len(hist))' = LogOf(start.req, Len(hist))
    BY <1>1, SameLog DEF Moved, Still, LogOf
  <1>3. /\ Walk # {} => n = Count /\ rows = rows
        /\ rows = <<>> => Walk = {}
        /\ \A k \in Wanted : k <= cur => Walk # {}
        /\ \A k \in Wanted : k > cur /\ Ahead(k) >= req.ofs => \E j \in 1..n : rows[j].id = k
        /\ \A j \in 1..n : rows[j].id \in Wanted /\ Ahead(rows[j].id) = req.ofs + j - 1
        /\ Ahead(cur) <= req.ofs + n
    BY PageLeaves
  <1>4. /\ n \in Nat /\ req.ofs \in Nat /\ Count \in Nat \ {0} /\ cur \in Nat /\ \A k \in Wanted : k \in Nat
        /\ (n = 0 <=> rows = <<>>) /\ Wanted \subseteq 1..Tip
    BY LogNumbers, RowsAre
  <1>5. /\ \A j, k \in Wanted : j < k => Ahead(k) < Ahead(j)
        /\ \A k \in Wanted : Ahead(k) \in Nat
    <2>1. ASSUME NEW j \in Wanted, NEW k \in Wanted, j < k PROVE Ahead(k) < Ahead(j)
      <3>1. j \in Int
        BY <1>4
      <3> QED
        BY <2>1, <3>1, AheadIs
    <2>2. \A k \in Wanted : Ahead(k) \in Nat
      BY LogNumbers
    <2> QED
      BY <2>1, <2>2
  <1>6. ASSUME left # <<>>, Still, ~Moved
        PROVE  rows # <<>> /\ {k \in LogOf(start.req, Len(hist)) : left[1] < k /\ k < Last(rows).id} = {}
    <2>1. left[1] \in Wanted /\ Ahead(left[1]) >= req.ofs /\ Ahead(left[1]) <= req.ofs + Count
      BY <1>1, <1>4, <1>6 DEF ClientInv
    <2>2. rows # <<>>
      <3>1. ASSUME n = 0 PROVE FALSE
        <4>1. Walk = {}
          BY <1>3, <1>4, <3>1
        <4>2. left[1] > cur
          <5>1. ~(left[1] <= cur)
            BY <1>3, <2>1, <4>1
          <5>2. left[1] \in Nat /\ cur \in Nat
            BY <1>4, <2>1
          <5> QED
            BY <5>1, <5>2
        <4> QED
          BY <1>3, <2>1, <3>1, <4>2
      <3> QED
        BY <1>4, <3>1
    <2>3. /\ n \in 1..n /\ Last(rows) = rows[n]
          /\ rows[n].id \in Wanted /\ Ahead(rows[n].id) = req.ofs + n - 1
      BY <1>3, <1>4, <2>2 DEF Last
    <2> HIDE DEF n
    <2>4. ASSUME NEW k \in LogOf(start.req, Len(hist)), left[1] < k, k < rows[n].id
          PROVE  FALSE
      <3>1. k \in Int
        BY WantedIs DEF LogOf
      <3>2. k \in Wanted
        <4>1. k <= Tip
          BY <1>4, <2>3, <2>4, <3>1, WantedIs
        <4> QED
          BY <1>6, <4>1, SameRequest
      <3>3. Ahead(rows[n].id) < Ahead(k) /\ Ahead(k) < Ahead(left[1])
        BY <1>5, <2>1, <2>3, <2>4, <3>2
      <3>4. Ahead(k) >= req.ofs + n /\ Ahead(k) < req.ofs + Count /\ Ahead(k) \in Nat
        <4>1. Ahead(rows[n].id) \in Nat /\ Ahead(k) \in Nat /\ Ahead(left[1]) \in Nat
          BY <1>5, <2>1, <2>3, <3>2
        <4> QED
          BY <1>4, <2>1, <2>3, <3>3, <4>1
      <3>5. n < Count /\ Walk = {}
        BY <1>3, <1>4, <3>4
      <3>6. k > cur /\ Ahead(k) >= req.ofs
        BY <1>3, <1>4, <3>2, <3>4, <3>5
      <3>7. PICK j \in 1..n : rows[j].id = k
        BY <1>3, <3>2, <3>6
      <3>8. Ahead(k) = req.ofs + j - 1
        BY <1>3, <3>7
      <3> QED
        BY <1>4, <3>4, <3>8
    <2> QED
      BY <2>2, <2>3, <2>4
  <1>7. ASSUME ~req.follow, req.ofs > 0 PROVE rows # <<>>
    <2>1. SUFFICES ASSUME n = 0 PROVE FALSE
      BY <1>4
    <2>2. Walk = {} /\ Ahead(0) > req.ofs
      BY <1>1, <1>3, <1>4, <1>7, <2>1 DEF ClientInv
    <2>3. \A k \in Wanted : ~(k <= cur)
      BY <1>3, <2>2
    <2>4. Ahead(0) = Ahead(cur)
      <3>1. \A k \in Wanted : k > 0 <=> k > cur
        BY <1>4, <2>3
      <3> QED
        BY <3>1 DEF Ahead
    <2> QED
      BY <1>3, <1>4, <2>1, <2>2, <2>4, AheadIs, WantedIs
  <1> QED
    <2>1. PrevJoins'
      BY <1>1, <1>2, <1>6 DEF PrevJoins
    <2>2. NoEmptyPage'
      BY <1>1, <1>7 DEF NoEmptyPage
    <2> QED
      BY <2>1, <2>2

LEMMA PagerStep ==
  ASSUME LogIInv, Pager
  PROVE  LogIInv'
  <1> DEFINE n == Len(rows)
  <1> USE DEF LogIInv
  <1>1. /\ pc = "show" /\ pc' = "read" /\ Serving
        /\ hist' = hist /\ start' = start /\ want' = want /\ left' = left /\ req' = req /\ cur' = cur
        /\ sought' = sought /\ vpath' = vpath /\ i' = i /\ files' = files /\ counted' = counted /\ rows' = rows
        /\ (links'.next # None <=> Walk # {}) /\ (links'.prev # None <=> req.ofs > 0)
        /\ links'.next # None => links'.next = Link(req.ofs + Count)
        /\ links'.prev # None => links'.prev = Link(req.ofs - Count)
        /\ links' \in [prev : Requests \cup {None}, next : Requests \cup {None}]
    BY PagerLinks
  <1>2. /\ Tip' = Tip /\ Wanted' = Wanted /\ \A m : Ahead(m)' = Ahead(m)
        /\ \A k : Changes(k)' = Changes(k) /\ NameIn(k)' = NameIn(k)
    BY <1>1, SameLog
  <1>3. Moved' = Moved /\ Still' = Still
    BY <1>1 DEF Moved, Still
  <1>4. /\ trail' \in Seq(1..Len(hist)) /\ Len(trail') = Len(trail) + n
        /\ \A k \in 1..n : trail'[Len(trail) + k] = rows[k].id
        /\ ToSet(trail') = ToSet(trail) \cup {rows[k].id : k \in 1..n}
    BY PageShown
  <1>5. /\ Walk # {} => n = Count /\ Ahead(cur) = req.ofs + Count
        /\ \A k \in Wanted : k > cur /\ Ahead(k) >= req.ofs => \E j \in 1..n : rows[j].id = k
        /\ \A j \in 1..n : rows[j].id \in Wanted /\ Ahead(rows[j].id) = req.ofs + j - 1
    BY PageLeaves
  <1>6. /\ n \in Nat /\ Len(trail) \in Nat /\ req.ofs \in Nat /\ Count \in Nat \ {0} /\ cur \in Nat
        /\ Wanted \subseteq 1..Tip /\ Tip \in Nat /\ (n = 0 <=> rows = <<>>)
        /\ \A k \in Wanted : k \in Nat
    <2>1. n \in Nat /\ (n = 0 <=> rows = <<>>)
      BY EmptySeq DEF LogTypeOK
    <2>2. Len(trail) \in Nat /\ req.ofs \in Nat /\ Count \in Nat \ {0}
      BY LogAssumption DEF LogTypeOK, Requests
    <2>3. Wanted \subseteq 1..Tip /\ Tip \in Nat /\ cur \in Nat
      BY WantedIs DEF LogTypeOK
    <2> QED
      BY <2>1, <2>2, <2>3
  <1>7. LogTypeOK'
    BY <1>1, <1>4 DEF LogTypeOK
  <1>8. RequestInv'
    <2>1. NameIn(Tip)' = NameIn(Tip)
      BY <1>1, <1>2 DEF NameIn
    <2> QED
      BY <1>1, <1>2, <2>1 DEF RequestInv, Earlier
  <1>9. SoughtInv' /\ PageInv'
    BY <1>1 DEF SoughtInv, PageInv, Serving
  <1>10. ASSUME Walk # {}, ~req.follow PROVE Ahead(0) > req.ofs + Count
    <2>1. PICK k \in Walk : TRUE
      BY <1>10
    <2>2. k \in Wanted /\ k \in 1..cur
      BY <1>1, <1>10, NextRevision
    <2>3. Ahead(cur) <= Ahead(k) /\ Ahead(k) < Ahead(0)
      BY <1>6, <2>2, AheadIs
    <2>4. Ahead(k) \in Int /\ Ahead(0) \in Int
      BY <1>6, <2>2, AheadIs
    <2> QED
      BY <1>5, <1>6, <1>10, <2>3, <2>4
  <1>11. ASSUME Walk # {}, ~Moved, NEW k \in want, k \notin ToSet(trail')
         PROVE  k \in Wanted /\ Ahead(k) >= req.ofs + Count
    <2>1. k \notin ToSet(trail)
      BY <1>4, <1>11
    <2>2. k \in Wanted /\ Ahead(k) >= req.ofs
      BY <1>1, <1>11, <2>1 DEF ClientInv, TurnInv
    <2>3. ~(k > cur)
      BY <1>4, <1>5, <1>11, <2>2
    <2>4. Ahead(cur) <= Ahead(k)
      BY <1>6, <2>2, <2>3, AheadIs
    <2> QED
      BY <1>5, <1>11, <2>2, <2>4
  <1>12. ASSUME Walk # {} PROVE Last(trail') \in Wanted /\ Ahead(Last(trail')) < req.ofs + Count
    <2>1. n = Count /\ n \in 1..n
      BY <1>5, <1>6, <1>12
    <2>2. Last(trail') = rows[n].id
      BY <1>4, <2>1 DEF Last
    <2>3. rows[n].id \in Wanted /\ Ahead(rows[n].id) = req.ofs + n - 1
      BY <1>5, <2>1
    <2> HIDE DEF n
    <2> QED
      BY <1>6, <2>1, <2>2, <2>3
  <1>13. ASSUME rows # <<>> PROVE rows[1].id \in Wanted /\ Ahead(rows[1].id) = req.ofs
    <2>1. 1 \in 1..n
      BY <1>6, <1>13
    <2>2. rows[1].id \in Wanted /\ Ahead(rows[1].id) = req.ofs + 1 - 1
      BY <1>5, <2>1
    <2> QED
      BY <1>6, <2>2
  <1>14. ClientInv'
    <2>1. ASSUME links'.next # None
          PROVE  /\ links'.next = Link(req.ofs + Count)'
                 /\ ~req.follow => Ahead(0)' > req.ofs + Count
                 /\ ~Moved => TurnInv(req.ofs + Count)'
      <3>1. Walk # {} /\ Link(req.ofs + Count)' = Link(req.ofs + Count)
        BY <1>1, <2>1 DEF Link
      <3>2. Ahead(0)' = Ahead(0)
        BY <1>2
      <3>3. ASSUME ~Moved PROVE TurnInv(req.ofs + Count)'
        <4>1. \A k \in want \ ToSet(trail') : k \in Wanted /\ Ahead(k) >= req.ofs + Count
          BY <1>11, <3>1, <3>3
        <4>2. \A k : Ahead(k)' = Ahead(k)
          BY <1>2
        <4>3. \A k \in want' \ ToSet(trail') : k \in Wanted' /\ Ahead(k)' >= req'.ofs + Count
          BY <1>1, <1>2, <4>1, <4>2
        <4>4. Last(trail') \in Wanted' /\ Ahead(Last(trail))' < req'.ofs + Count
          BY <1>1, <1>2, <1>12, <3>1 DEF Ahead
        <4> QED
          BY <4>3, <4>4 DEF TurnInv
      <3> QED
        BY <1>1, <1>10, <2>1, <3>1, <3>2, <3>3
    <2>2. ASSUME links'.prev # None
          PROVE  /\ req.ofs > 0 /\ links'.prev = Link(req.ofs - Count)'
                 /\ ~req.follow => Ahead(0)' > req.ofs
                 /\ rows # <<>> => rows[1].id \in Wanted' /\ Ahead(rows[1].id)' = req.ofs
      <3>1. req.ofs > 0 /\ Link(req.ofs - Count)' = Link(req.ofs - Count)
        BY <1>1, <2>2 DEF Link
      <3>2. ~req.follow => Ahead(0) > req.ofs
        BY <1>1, <3>1 DEF ClientInv
      <3>3. Ahead(0)' = Ahead(0) /\ Ahead(rows[1].id)' = Ahead(rows[1].id)
        BY <1>1, <1>2 DEF Ahead
      <3> QED
        BY <1>1, <1>2, <1>13, <2>2, <3>1, <3>2, <3>3
    <2> QED
      BY <1>1, <1>3, <2>1, <2>2 DEF ClientInv, Serving
  <1>15. RowNames'
    BY <1>1, <1>2 DEF RowNames
  <1>16. CountsOwn'
    BY <1>1 DEF CountsOwn
  <1> QED
    BY <1>7, <1>8, <1>9, <1>14, <1>15, <1>16, PagerCovers, PagerJoins

\* The client opens the page of a link.
LEMMA OpenStep ==
  ASSUME LogIInv, pc = "read", NEW ofsTo \in Nat,
         Open([path |-> vpath, follow |-> req.follow, ofs |-> ofsTo, id |-> req.id]),
         hist' = hist, start' = start, want' \in {want, {}}, trail' \in {trail, <<>>},
         left' \in Seq(1..Len(hist))
  PROVE  /\ pc' = "skip" /\ req'.ofs = ofsTo /\ req'.follow = req.follow
         /\ Still' = Still /\ (~Moved' => ~Moved /\ Wanted' = Wanted)
         /\ ~req.follow => Wanted' = Wanted
         /\ LogTypeOK' /\ RequestInv' /\ SoughtInv' /\ PageInv'
         /\ PrevJoins' /\ NoEmptyPage' /\ RowNames' /\ CountsOwn'
  <1> USE DEF LogIInv
  <1> DEFINE r == Opened(Link(ofsTo))
  <1>1. Link(ofsTo) = [path |-> vpath, follow |-> req.follow, ofs |-> ofsTo, id |-> req.id]
    BY DEF Link
  <1>2. /\ r \in Requests /\ r.path = vpath /\ r.follow = req.follow /\ r.ofs = ofsTo /\ r.id = req.id
        /\ r.path = start.req.path => req.path = start.req.path /\ r.path = req.path
        /\ req.follow => Earlier(vpath, start.req.path) /\ Earlier(vpath, NameIn(Tip)) /\ Earlier(vpath, vpath)
    BY SamePath
  <1>3. /\ req' = r /\ pc' = "skip" /\ cur' = (IF r.id = 0 THEN Len(hist) ELSE r.id)
        /\ sought' = r.path /\ vpath' = r.path
        /\ i' = 0 /\ files' = <<>> /\ counted' = FALSE /\ rows' = <<>> /\ links' = NoLinks
    BY <1>1, <1>2 DEF Open, Opened
  <1> HIDE DEF r
  <1>4. Tip' = Tip /\ cur' = Tip /\ Tip \in 1..Len(hist) /\ Len(hist) \in Nat
    BY <1>2, <1>3, WantedIs DEF Tip
  <1>5. /\ \A k : NameIn(k)' = NameIn(k) /\ Changes(k)' = Changes(k)
        /\ NameIn(Tip)' = NameIn(Tip) /\ NameIn(cur)' = NameIn(Tip)
    <2>1. \A k : NameIn(k)' = NameIn(k)
      BY DEF NameIn
    <2>2. Creator' = Creator
      BY DEF Creator
    <2>3. \A k : Changes(k)' = Changes(k)
      BY <2>1, <2>2 DEF Changes
    <2>4. NameIn(Tip)' = NameIn(Tip) /\ NameIn(cur)' = NameIn(Tip)
      BY <1>4 DEF NameIn
    <2> QED
      BY <2>1, <2>3, <2>4
  <1>6. ~req.follow => vpath = req.path
    BY DEF RequestInv
  <1>7. ASSUME vpath = req.path PROVE Wanted' = Wanted
    BY <1>2, <1>3, <1>4, <1>5, <1>7 DEF Wanted, LogOf
  <1>8. (Still' = Still) /\ (~Moved' => ~Moved /\ Wanted' = Wanted)
    BY <1>2, <1>3, <1>7 DEF Still, Moved
  <1>9. RequestInv'
    <2>1. req' \in Requests /\ req'.id = start.req.id /\ req'.follow = req.follow /\ vpath' = req'.path /\ req'.path = vpath
      BY <1>2, <1>3 DEF RequestInv
    <2>2. CASE req.follow
      BY <1>2, <1>4, <1>5, <2>1, <2>2 DEF RequestInv, Earlier
    <2>3. CASE ~req.follow
      BY <1>4, <1>6, <2>1, <2>3 DEF RequestInv
    <2> QED
      BY <2>2, <2>3
  <1>10. SoughtInv'
    <2>1. sought' = req'.path /\ req'.path = vpath /\ req'.follow = req.follow /\ cur' \in 0..Tip
      BY <1>2, <1>3, <1>4
    <2>2. req.follow => ~(Index(NameIn(Tip)) < Index(vpath))
      BY <1>2, NamesIndex DEF Earlier
    <2>3. req'.follow => ~(Index(NameIn(cur)) < Index(req.path))'
      BY <1>5, <2>1, <2>2 DEF Index
    <2> QED
      BY <1>4, <2>1, <2>3 DEF SoughtInv
  <1>11. PageInv'
    <2>1. ~ \E k \in Wanted' : k > cur'
      <3>1. Wanted' \subseteq 1..Tip'
        BY DEF Wanted, LogOf
      <3> QED
        BY <1>4, <3>1
    <2>2. Ahead(cur)' = 0
      <3>1. {k \in Wanted' : k > cur'} = {}
        BY <2>1
      <3> QED
        BY <3>1, FS_EmptySet DEF Ahead
    <2> QED
      BY <1>2, <1>3, <2>2 DEF PageInv
  <1>12. LogTypeOK'
    <2>1. req' \in Requests /\ sought' \in Paths /\ vpath' \in Paths
      BY <1>2, <1>3 DEF LogTypeOK
    <2>2. cur' \in 0..Len(hist) /\ i' \in 0..Len(hist) /\ files' \in Seq(1..Len(hist)) /\ counted' \in BOOLEAN
      <3>1. files' \in Seq(1..Len(hist)) /\ counted' \in BOOLEAN
        BY <1>3, EmptySeq
      <3> QED
        BY <1>3, <1>4, <3>1
    <2>3. /\ rows' \in Seq([id : 1..Len(hist), path : Paths, files : Seq(1..Len(hist))])
          /\ Len(rows') <= Count /\ links' \in [prev : Requests \cup {None}, next : Requests \cup {None}]
      BY <1>3, LogAssumption, EmptySeq DEF NoLinks
    <2>4. want' \subseteq 1..Len(hist) /\ trail' \in Seq(1..Len(hist))
      <3>1. want \subseteq 1..Len(hist) /\ trail \in Seq(1..Len(hist)) /\ <<>> \in Seq(1..Len(hist))
        BY EmptySeq DEF LogTypeOK
      <3> QED
        BY <3>1
    <2> QED
      BY <1>3, <2>1, <2>2, <2>3, <2>4 DEF LogTypeOK
  <1>13. PrevJoins' /\ NoEmptyPage'
    BY <1>3 DEF PrevJoins, NoEmptyPage
  <1>14. RowNames' /\ CountsOwn'
    BY <1>3, Len(<<>>) = 0 DEF RowNames, CountsOwn
  <1>15. req'.ofs = ofsTo /\ req'.follow = req.follow
    BY <1>2, <1>3
  <1> QED
    BY <1>3, <1>6, <1>7, <1>8, <1>9, <1>10, <1>11, <1>12, <1>13, <1>14, <1>15

LEMMA ClickNextStep ==
  ASSUME LogIInv, ClickNext
  PROVE  LogIInv'
  <1> USE DEF LogIInv
  <1>1. /\ pc = "read" /\ links.next # None /\ Open(links.next) /\ left' = <<>>
        /\ hist' = hist /\ start' = start /\ want' = want /\ trail' = trail
    BY DEF ClickNext
  <1>2. /\ links.next = Link(req.ofs + Count)
        /\ ~req.follow => Ahead(0) > req.ofs + Count
        /\ ~Moved => TurnInv(req.ofs + Count)
    BY <1>1 DEF ClientInv
  <1>3. req.ofs + Count \in Nat /\ req.ofs + Count > 0
    BY LogNumbers
  <1>4. links.next = [path |-> vpath, follow |-> req.follow, ofs |-> req.ofs + Count, id |-> req.id]
    BY <1>2, <1>3 DEF Link
  <1>5. /\ pc' = "skip" /\ req'.ofs = req.ofs + Count /\ req'.follow = req.follow
        /\ Still' = Still /\ (~Moved' => ~Moved /\ Wanted' = Wanted)
        /\ ~req.follow => Wanted' = Wanted
        /\ LogTypeOK' /\ RequestInv' /\ SoughtInv' /\ PageInv'
        /\ PrevJoins' /\ NoEmptyPage' /\ RowNames' /\ CountsOwn' /\ rows' = <<>>
    <2>1. left' \in Seq(1..Len(hist)) /\ rows' = <<>>
      BY <1>1, EmptySeq DEF Open
    <2> QED
      BY <1>1, <1>3, <1>4, <2>1, OpenStep
  <1>6. ClientInv'
    <2>1. ASSUME ~req'.follow PROVE Ahead(0)' > req'.ofs
      <3>1. Ahead(0)' = Ahead(0)
        BY <1>5, <2>1 DEF Ahead
      <3> QED
        BY <1>2, <1>5, <2>1, <3>1
    <2>2. ASSUME ~Moved' PROVE TurnInv(req.ofs)'
      <3>1. ~Moved /\ Wanted' = Wanted
        BY <1>5, <2>2
      <3>2. TurnInv(req.ofs + Count)
        BY <1>2, <3>1
      <3> QED
        BY <1>1, <1>5, <3>1, <3>2 DEF TurnInv, Ahead
    <2> QED
      BY <1>1, <1>5, <2>1, <2>2 DEF ClientInv
  <1>7. PagesCover'
    <2>1. ~Moved' /\ Still' => \A k \in 1..(Len(trail') - 1) : trail'[k] > trail'[k + 1]
      BY <1>1, <1>5 DEF PagesCover
    <2>2. Len(rows') = 0
      BY <1>5
    <2> QED
      BY <1>5, <2>1, <2>2 DEF PagesCover
  <1> QED
    BY <1>5, <1>6, <1>7

LEMMA ClickPrevStep ==
  ASSUME LogIInv, ClickPrev
  PROVE  LogIInv'
  <1> USE DEF LogIInv
  <1> DEFINE back == IF req.ofs - Count > 0 THEN req.ofs - Count ELSE 0
  <1>1. /\ pc = "read" /\ links.prev # None /\ Open(links.prev) /\ left' = [k \in 1..Len(rows) |-> rows[k].id]
        /\ hist' = hist /\ start' = start /\ want' = {} /\ trail' = <<>>
    BY DEF ClickPrev
  <1>2. /\ req.ofs > 0 /\ links.prev = Link(req.ofs - Count)
        /\ ~req.follow => Ahead(0) > req.ofs
        /\ Still /\ rows # <<>> => rows[1].id \in Wanted /\ Ahead(rows[1].id) = req.ofs
    BY <1>1 DEF ClientInv
  <1>3. req.ofs \in Nat /\ Count \in Nat \ {0} /\ req.ofs - Count \in Int
    BY LogNumbers
  <1>4. back \in Nat /\ back < req.ofs /\ req.ofs <= back + Count
    BY <1>2, <1>3
  <1>5. links.prev = [path |-> vpath, follow |-> req.follow, ofs |-> back, id |-> req.id]
    BY <1>2 DEF Link
  <1> HIDE DEF back
  <1>6. left' \in Seq(1..Len(hist)) /\ (left' # <<>> => rows # <<>> /\ left'[1] = rows[1].id)
    <2> DEFINE n == Len(rows)
    <2>1. n \in Nat /\ rows \in Seq([id : 1..Len(hist), path : Paths, files : Seq(1..Len(hist))])
      BY DEF LogTypeOK
    <2>2. \A k \in 1..n : rows[k] \in [id : 1..Len(hist), path : Paths, files : Seq(1..Len(hist))]
      BY <2>1, ElementOfSeq
    <2>3. \A k \in 1..n : rows[k].id \in 1..Len(hist)
      BY <2>2
    <2>4. left' \in Seq(1..Len(hist)) /\ Len(left') = n
      BY <1>1, <2>1, <2>3, IsASeq
    <2>5. left' # <<>> => n # 0
      BY <2>1, <2>4, EmptySeq
    <2>6. n # 0 => rows # <<>> /\ left'[1] = rows[1].id
      BY <1>1, <2>1, EmptySeq
    <2> QED
      BY <2>4, <2>5, <2>6
  <1>7. /\ pc' = "skip" /\ req'.ofs = back /\ req'.follow = req.follow
        /\ Still' = Still /\ (~Moved' => ~Moved /\ Wanted' = Wanted)
        /\ ~req.follow => Wanted' = Wanted
        /\ LogTypeOK' /\ RequestInv' /\ SoughtInv' /\ PageInv'
        /\ PrevJoins' /\ NoEmptyPage' /\ RowNames' /\ CountsOwn' /\ rows' = <<>>
    <2>1. rows' = <<>>
      BY <1>1 DEF Open
    <2> QED
      BY <1>1, <1>4, <1>5, <1>6, <2>1, OpenStep
  <1>8. ClientInv'
    <2>1. ASSUME ~req'.follow PROVE Ahead(0)' > req'.ofs
      <3>1. Ahead(0)' = Ahead(0)
        BY <1>7, <2>1 DEF Ahead
      <3>2. Ahead(0) \in Int
        BY AheadIs, WantedIs
      <3> QED
        BY <1>2, <1>3, <1>4, <1>7, <2>1, <3>1, <3>2
    <2>2. TurnInv(req.ofs)'
      BY <1>1 DEF TurnInv
    <2>3. ASSUME ~Moved', Still', left' # <<>>
          PROVE  left'[1] \in Wanted' /\ Ahead(left[1])' \in req'.ofs..(req'.ofs + Count)
      <3>1. Wanted' = Wanted /\ left'[1] = rows[1].id /\ rows[1].id \in Wanted /\ Ahead(rows[1].id) = req.ofs
        BY <1>2, <1>6, <1>7, <2>3
      <3>2. Ahead(left[1])' = req.ofs
        BY <3>1 DEF Ahead
      <3> QED
        BY <1>3, <1>4, <1>7, <3>1, <3>2
    <2> QED
      BY <1>7, <2>1, <2>2, <2>3 DEF ClientInv
  <1>9. PagesCover'
    <2>1. Len(rows') = 0 /\ Len(trail') = 0 /\ \A k : ~(k \in 1..(0 - 1))
      BY <1>1, <1>7
    <2> QED
      BY <1>7, <2>1 DEF PagesCover
  <1> QED
    BY <1>7, <1>8, <1>9

\* A commit that is pushed adds to the history and changes nothing of it.
LEMMA PushGrows ==
  ASSUME IsHistory(hist), NEW kind \in {"edit", "rename", "other", "merge"},
         kind = "rename" => NameIn(Len(hist)) # Last(Names), hist' = Append(hist, kind)
  PROVE  /\ IsHistory(hist') /\ Len(hist') = Len(hist) + 1 /\ \A k \in 1..Len(hist) : hist'[k] = hist[k]
         /\ \A k \in 1..Len(hist) : NameIn(k)' = NameIn(k) /\ Changes(k)' = Changes(k)
         /\ NameIn(Len(hist))' \in ToSet(Names)
         /\ Index(NameIn(Len(hist))) <= Index(NameIn(Len(hist))')
  <1> DEFINE n == Len(hist)
             A == {j \in 1..n : hist[j] = "rename"}
             B == {j \in 1..(n + 1) : hist'[j] = "rename"}
  <1>1. hist \in Seq(Kinds) /\ n \in Nat \ {0} /\ kind \in Kinds
    BY DEF IsHistory, Kinds
  <1>2. /\ hist' \in Seq(Kinds) /\ Len(hist') = n + 1 /\ hist'[n + 1] = kind
        /\ \A k \in 1..n : hist'[k] = hist[k]
    BY <1>1, AppendProperties
  <1> HIDE DEF n
  <1>3. /\ \A k \in 1..n : (hist[k] = "root") <=> (k = 1)
        /\ \A k \in 1..n : hist[k] \in {"create", "edit", "rename"} => \A j \in (k + 1)..n : hist[j] # "create"
        /\ Cardinality(A) < Len(Names)
    BY DEF IsHistory, n
  <1>4. \A k \in 1..(n + 1) : k \in 1..n \/ k = n + 1
    BY <1>1
  <1>5. IsFiniteSet(A) /\ Cardinality(A) \in Nat
    <2>1. IsFiniteSet(1..n) /\ A \subseteq 1..n
      BY <1>1, FS_Interval
    <2> QED
      BY <2>1, FS_Subset, FS_CardinalityType
  <1>6. Cardinality(A) = Renamed(n) /\ Index(NameIn(n)) = 1 + Cardinality(A) /\ NameIn(n) = Names[1 + Cardinality(A)]
    <2>1. Cardinality(A) = Renamed(n) /\ n \in 0..Len(hist)
      BY <1>1 DEF Renamed, n
    <2> QED
      BY <2>1, NameOf
  <1>7. /\ Cardinality(B) = IF kind = "rename" THEN Cardinality(A) + 1 ELSE Cardinality(A)
        /\ Cardinality(B) < Len(Names)
    <2>1. \A j \in A : j # n + 1
      BY <1>1
    <2>2. CASE kind = "rename"
      <3>1. B = A \cup {n + 1}
        BY <1>1, <1>2, <1>4, <2>2
      <3>2. Cardinality(B) = Cardinality(A) + 1
        BY <1>5, <2>1, <3>1, FS_AddElement
      <3>3. 1 + Cardinality(A) # Len(Names)
        BY <1>6, <2>2 DEF Last, n
      <3> QED
        <4> HIDE DEF A, B
        <4>1. Len(Names) \in Nat
          BY LogAssumption
        <4> QED
          BY <1>3, <1>5, <2>2, <3>2, <3>3, <4>1
    <2>3. CASE kind # "rename"
      <3>1. B = A
        BY <1>1, <1>2, <1>4, <2>3
      <3> QED
        BY <1>3, <2>3, <3>1
    <2> QED
      BY <2>2, <2>3
  <1>8. Cardinality({k \in 1..Len(hist') : hist'[k] = "rename"}) = Cardinality(B)
    <2>1. Len(hist') = n + 1
      BY <1>2
    <2> QED
      BY <2>1, Zenon
  <1> HIDE DEF A, B
  <1>9. IsHistory(hist')
    <2>1. \A k \in 1..(n + 1) : (hist'[k] = "root") <=> (k = 1)
      <3>1. n + 1 # 1 /\ kind # "root"
        BY <1>1
      <3> QED
        BY <1>2, <1>3, <1>4, <3>1
    <2>2. ASSUME NEW k \in 1..(n + 1), hist'[k] \in {"create", "edit", "rename"}, NEW j \in (k + 1)..(n + 1)
          PROVE  hist'[j] # "create"
      <3>1. CASE j = n + 1
        BY <1>2, <3>1
      <3>2. CASE j # n + 1
        <4>1. k \in 1..n /\ j \in (k + 1)..n /\ j \in 1..n
          BY <1>1, <3>2
        <4> QED
          BY <1>2, <1>3, <2>2, <4>1
      <3> QED
        BY <3>1, <3>2
    <2>3. Len(hist') > 0 /\ Cardinality({k \in 1..Len(hist') : hist'[k] = "rename"}) < Len(Names)
      <3>1. Len(hist') > 0
        BY <1>1, <1>2
      <3>2. Cardinality({k \in 1..Len(hist') : hist'[k] = "rename"}) < Len(Names)
        BY <1>7, <1>8, Zenon
      <3> QED
        BY <3>1, <3>2
    <2>4. \A k \in 1..Len(hist') :
            /\ (hist'[k] = "root") <=> (k = 1)
            /\ hist'[k] \in {"create", "edit", "rename"} =>
                 \A j \in (k + 1)..Len(hist') : hist'[j] # "create"
      BY <1>2, <2>1, <2>2
    <2> QED
      BY <1>2, <2>3, <2>4, Zenon DEF IsHistory
  <1>10. ASSUME NEW k \in 0..n PROVE NameIn(k)' = NameIn(k)
    <2>1. \A j \in 1..k : hist'[j] = hist[j]
      BY <1>1, <1>2
    <2>2. {j \in 1..k : hist'[j] = "rename"} = {j \in 1..k : hist[j] = "rename"}
      BY <2>1
    <2> QED
      BY <2>2 DEF NameIn
  <1>11. Creator' = Creator
    <2>1. \A k : k \in 1..(n + 1) /\ hist'[k] = "create" <=> k \in 1..n /\ hist[k] = "create"
      BY <1>1, <1>2, <1>4
    <2>2. \A k, j \in 1..n : hist[k] = "create" /\ hist[j] = "create" => k = j
      <3>1. ASSUME NEW k \in 1..n, NEW j \in 1..n, hist[k] = "create", hist[j] = "create", k < j PROVE FALSE
        <4>1. j \in (k + 1)..n
          BY <1>1, <3>1
        <4> QED
          BY <1>3, <3>1, <4>1
      <3> QED
        BY <1>1, <3>1
    <2>3. CASE \E k \in 1..n : hist[k] = "create"
      <3>1. Creator \in 1..n /\ hist[Creator] = "create"
        BY <2>3 DEF Creator, n
      <3>2. Creator' \in 1..(n + 1) /\ hist'[Creator'] = "create"
        <4>1. \E k \in 1..Len(hist') : hist'[k] = "create"
          BY <1>2, <2>1, <2>3
        <4> QED
          BY <1>2, <4>1 DEF Creator
      <3> QED
        BY <2>1, <2>2, <3>1, <3>2
    <2>4. CASE ~ \E k \in 1..n : hist[k] = "create"
      <3>1. ~ \E k \in 1..Len(hist') : hist'[k] = "create"
        BY <1>2, <2>1, <2>4
      <3> QED
        BY <2>4, <3>1 DEF Creator, n
    <2> QED
      BY <2>3, <2>4
  <1>12. ASSUME NEW k \in 1..n PROVE Changes(k)' = Changes(k)
    <2>1. k \in 0..n /\ k - 1 \in 0..n
      BY <1>1
    <2>2. NameIn(k)' = NameIn(k) /\ NameIn(k - 1)' = NameIn(k - 1) /\ hist'[k] = hist[k]
      BY <1>2, <1>10, <2>1
    <2> QED
      BY <1>11, <2>2 DEF Changes
  <1>13. NameIn(Len(hist))' = Names[1 + Cardinality(B)]
    BY <1>8 DEF NameIn
  <1>14. NameIn(Len(hist))' \in ToSet(Names) /\ Index(NameIn(Len(hist))') = 1 + Cardinality(B)
    <2>1. 1 + Cardinality(B) \in 1..Len(Names)
      <3>1. Cardinality(B) \in Nat /\ Len(Names) \in Nat
        BY <1>5, <1>7, LogAssumption
      <3> QED
        BY <1>7, <3>1
    <2>2. Names[1 + Cardinality(B)] \in ToSet(Names)
      BY <2>1, LogAssumption DEF ToSet
    <2> QED
      BY <1>13, <2>1, <2>2, NamesIndex
  <1>15. Index(NameIn(n)) <= Index(NameIn(Len(hist))')
    <2>1. Cardinality(A) <= Cardinality(B) /\ Cardinality(B) \in Nat
      BY <1>5, <1>7
    <2> QED
      BY <1>5, <1>6, <1>14, <2>1
  <1>16. \A k \in 1..n : k \in 0..n
    BY <1>1
  <1> QED
    BY <1>2, <1>9, <1>10, <1>12, <1>14, <1>15, <1>16 DEF n

LEMMA PushLog ==
  ASSUME LogIInv, Push
  PROVE  /\ pc = "read" /\ server' = server /\ client' = client
         /\ IsHistory(hist') /\ Len(hist') = Len(hist) + 1 /\ Len(hist') <= MaxCommits
         /\ Tip \in 1..Len(hist) /\ Tip' = (IF req.id = 0 THEN Len(hist) + 1 ELSE Tip)
         /\ NameIn(Tip)' \in ToSet(Names) /\ Index(NameIn(Tip)) <= Index(NameIn(Tip)')
         /\ \A k \in 1..Len(hist) : NameIn(k)' = NameIn(k) /\ Changes(k)' = Changes(k)
         /\ \A r : /\ LogOf(r, Len(hist)) \subseteq LogOf(r, Len(hist))'
                   /\ \A k \in LogOf(r, Len(hist))' : k <= Len(hist) => k \in LogOf(r, Len(hist))
         /\ Wanted \subseteq Wanted' /\ Wanted' \subseteq 1..(Len(hist) + 1)
         /\ Still' => Still /\ Wanted' = Wanted
  <1> USE DEF LogIInv
  <1>0. PICK n \in Nat \ {0} : n = Len(hist)
    BY WantedIs
  <1>1. pc = "read" /\ server' = server /\ client' = client /\ req' = req /\ start' = start /\ n < MaxCommits
    BY <1>0 DEF Push, server, client
  <1>2. PICK kind \in {"edit", "rename", "other", "merge"} :
          /\ kind = "rename" => NameIn(Len(hist)) # Last(Names)
          /\ hist' = Append(hist, kind)
    BY DEF Push
  <1>3. /\ IsHistory(hist') /\ Len(hist') = n + 1 /\ \A k \in 1..n : hist'[k] = hist[k]
        /\ \A k \in 1..n : NameIn(k)' = NameIn(k) /\ Changes(k)' = Changes(k)
        /\ NameIn(Len(hist))' \in ToSet(Names) /\ Index(NameIn(Len(hist))) <= Index(NameIn(Len(hist))')
    BY <1>0, <1>2, PushGrows DEF LogTypeOK
  <1>4. Tip \in 1..n /\ n \in Nat \ {0} /\ MaxCommits \in Nat
    BY <1>0, WantedIs, LogAssumption
  <1>5. Tip' = (IF req.id = 0 THEN n + 1 ELSE Tip) /\ (req.id = 0 => Tip = n)
    BY <1>0, <1>1, <1>3 DEF Tip
  <1>6. Len(hist') <= MaxCommits
    BY <1>1, <1>3, <1>4
  <1>7. NameIn(Tip)' \in ToSet(Names) /\ Index(NameIn(Tip)) <= Index(NameIn(Tip)')
    <2>1. CASE req.id = 0
      <3>1. Tip = Len(hist) /\ Tip' = Len(hist)'
        BY <1>0, <1>3, <1>5, <2>1
      <3>2. NameIn(Tip) = NameIn(Len(hist)) /\ NameIn(Tip)' = NameIn(Len(hist))'
        BY <3>1 DEF NameIn
      <3> QED
        BY <1>3, <3>2
    <2>2. CASE req.id # 0
      <3>1. NameIn(Tip)' = NameIn(Tip)
        <4>1. PICK t \in 1..n : t = Tip /\ Tip' = t
          BY <1>4, <1>5, <2>2
        <4>2. NameIn(t)' = NameIn(t)
          BY <1>3, <4>1
        <4> QED
          BY <4>1, <4>2 DEF NameIn
      <3>2. NameIn(Tip) \in ToSet(Names) /\ Index(NameIn(Tip)) \in Int
        BY <1>0, <1>4, NameOf, NamesIndex DEF LogTypeOK
      <3> QED
        BY <3>1, <3>2
    <2> QED
      BY <2>1, <2>2
  <1>8. ASSUME NEW r, NEW t \in 1..(n + 1), NEW k \in 1..n, k <= t
        PROVE  k \in LogOf(r, t)' <=> k \in LogOf(r, n)
    <2>1. Changes(k)' = Changes(k) /\ k \in 1..t
      BY <1>3, <1>8
    <2> QED
      BY <2>1 DEF LogOf
  <1>9. ASSUME NEW r
         PROVE  /\ LogOf(r, n) \subseteq LogOf(r, Len(hist))'
                /\ \A k \in LogOf(r, Len(hist))' : k <= n => k \in LogOf(r, n)
    <2>1. LogOf(r, Len(hist))' = LogOf(r, n + 1)'
      BY <1>3 DEF LogOf
    <2>2. n + 1 \in 1..(n + 1) /\ \A k \in 1..n : k <= n + 1
      BY <1>4
    <2>3. \A k \in LogOf(r, n) : k \in 1..n
      BY DEF LogOf
    <2>4. \A k \in LogOf(r, n + 1)' : k \in 1..(n + 1)
      BY DEF LogOf
    <2>5. \A k \in 1..(n + 1) : k <= n => k \in 1..n
      BY <1>4
    <2> QED
      BY <1>8, <2>1, <2>2, <2>3, <2>4, <2>5
  <1>10. Wanted \subseteq Wanted' /\ Wanted' \subseteq 1..(n + 1) /\ (req.id # 0 => Wanted' = Wanted)
    <2>1. CASE req.id = 0
      <3>1. Tip = n /\ Tip' = Len(hist')
        BY <1>0, <1>3, <1>5, <2>1
      <3>0. PICK r : r = req /\ r = req'
        BY <1>1
      <3>2. Wanted = LogOf(r, n) /\ Wanted' = LogOf(r, Len(hist))'
        BY <1>0, <1>1, <3>0, <3>1 DEF Wanted, LogOf
      <3>3. Wanted' \subseteq 1..(n + 1)
        BY <1>3, <3>1 DEF Wanted, LogOf
      <3> QED
        BY <1>9, <2>1, <3>2, <3>3
    <2>2. CASE req.id # 0
      <3>1. PICK t \in 1..n : Tip = t /\ Tip' = t
        BY <1>4, <1>5, <2>2
      <3>2. Wanted' = LogOf(req, t)' /\ Wanted = LogOf(req, t)
        BY <1>1, <3>1 DEF Wanted, LogOf
      <3>3. LogOf(req, t)' = LogOf(req, t)
        <4>1. \A k \in 1..t : Changes(k)' = Changes(k)
          BY <1>3, <1>4, <3>1
        <4> QED
          BY <1>1, <4>1 DEF LogOf
      <3>4. LogOf(req, t) \subseteq 1..(n + 1)
        BY <1>4, <3>1 DEF LogOf
      <3> QED
        BY <2>2, <3>2, <3>3, <3>4
    <2> QED
      BY <2>1, <2>2
  <1>11. ASSUME Still' PROVE Still /\ req.id # 0
    <2>1. start.tip # n + 1 /\ req.id = start.req.id
      <3>1. start.tip \in 1..n
        BY <1>0 DEF LogTypeOK
      <3> QED
        BY <1>4, <3>1 DEF RequestInv
    <2> QED
      BY <1>1, <1>3, <1>11, <2>1 DEF Still
  <1> QED
    BY <1>0, <1>1, <1>3, <1>4, <1>5, <1>6, <1>7, <1>9, <1>10, <1>11

LEMMA PushStep ==
  ASSUME LogIInv, Push
  PROVE  LogIInv'
  <1> USE DEF LogIInv
  <1>1. /\ pc = "read" /\ server' = server /\ client' = client
        /\ IsHistory(hist') /\ Len(hist') = Len(hist) + 1 /\ Len(hist') <= MaxCommits
        /\ Tip \in 1..Len(hist) /\ Tip' = (IF req.id = 0 THEN Len(hist) + 1 ELSE Tip)
        /\ NameIn(Tip)' \in ToSet(Names) /\ Index(NameIn(Tip)) <= Index(NameIn(Tip)')
        /\ \A k \in 1..Len(hist) : NameIn(k)' = NameIn(k) /\ Changes(k)' = Changes(k)
        /\ \A r : /\ LogOf(r, Len(hist)) \subseteq LogOf(r, Len(hist))'
                  /\ \A k \in LogOf(r, Len(hist))' : k <= Len(hist) => k \in LogOf(r, Len(hist))
        /\ Wanted \subseteq Wanted' /\ Wanted' \subseteq 1..(Len(hist) + 1)
        /\ Still' => Still /\ Wanted' = Wanted
    BY PushLog
  <1>2. /\ req' = req /\ pc' = pc /\ cur' = cur /\ sought' = sought /\ vpath' = vpath /\ i' = i
        /\ files' = files /\ counted' = counted /\ rows' = rows /\ links' = links
        /\ start' = start /\ want' = want /\ trail' = trail /\ left' = left
    BY <1>1 DEF server, client
  <1>3. Len(hist) \in Nat \ {0} /\ Wanted \subseteq 1..Len(hist)
    BY WantedIs
  <1>4. Moved' = Moved
    BY <1>2 DEF Moved
  <1>5. /\ 1..Len(hist) \subseteq 1..Len(hist') /\ 0..Len(hist) \subseteq 0..Len(hist')
    BY <1>1, <1>3
  <1>6. LogTypeOK'
    <2>1. /\ rows \in Seq([id : 1..Len(hist'), path : Paths, files : Seq(1..Len(hist'))])
          /\ trail \in Seq(1..Len(hist')) /\ left \in Seq(1..Len(hist'))
      <3>1. [id : 1..Len(hist), path : Paths, files : Seq(1..Len(hist))]
              \subseteq [id : 1..Len(hist'), path : Paths, files : Seq(1..Len(hist'))]
        <4>1. Seq(1..Len(hist)) \subseteq Seq(1..Len(hist'))
          BY <1>5, SeqMonotonic
        <4> QED
          BY <1>5, <4>1
      <3>2. /\ rows \in Seq([id : 1..Len(hist), path : Paths, files : Seq(1..Len(hist))])
            /\ trail \in Seq(1..Len(hist)) /\ left \in Seq(1..Len(hist))
        BY DEF LogTypeOK
      <3> HIDE <1>5
      <3> QED
        BY <1>5, <3>1, <3>2, SeqMonotonic
    <2>2. start \in [req : Requests, tip : 1..Len(hist')] /\ cur \in 0..Len(hist') /\ i \in 0..Len(hist')
          /\ files \in Seq(1..Len(hist')) /\ want \subseteq 1..Len(hist')
      <3>1. Seq(1..Len(hist)) \subseteq Seq(1..Len(hist'))
        BY <1>5, SeqMonotonic
      <3> QED
        BY <1>5, <3>1 DEF LogTypeOK
    <2> QED
      BY <1>1, <1>2, <2>1, <2>2 DEF LogTypeOK
  <1>7. RequestInv'
    <2>1. Tip' \in 1..Len(hist') /\ start'.tip \in 1..Len(hist')
      BY <1>1, <1>2, <1>3, <1>5 DEF LogTypeOK
    <2>2. ASSUME req.follow PROVE Earlier(req.path, NameIn(Tip))'
      <3>1. Earlier(req.path, NameIn(Tip))
        BY <2>2 DEF RequestInv
      <3>2. Index(req.path) \in Int /\ Index(NameIn(Tip)) \in Int /\ Index(NameIn(Tip)') \in Int
        BY <1>1, <3>1, NamesIndex DEF Earlier
      <3>3. Index(req.path) <= Index(NameIn(Tip)')
        BY <1>1, <3>1, <3>2 DEF Earlier
      <3> QED
        BY <1>1, <1>2, <3>1, <3>3 DEF Earlier, Index
    <2> QED
      BY <1>2, <2>1, <2>2 DEF RequestInv, Earlier
  <1>8. SoughtInv' /\ PageInv'
    BY <1>1, <1>2 DEF SoughtInv, PageInv, Serving
  <1>9. ASSUME NEW n \in Int PROVE Ahead(n) <= Ahead(n)' /\ Ahead(n) \in Int /\ Ahead(n)' \in Int
    <2>1. Wanted' \in SUBSET (1..(Len(hist) + 1)) /\ Wanted \in SUBSET Wanted' /\ Len(hist) + 1 \in Nat
          /\ Wanted \in SUBSET (1..(Len(hist) + 1))
      BY <1>1, <1>3
    <2>2. Ahead(n) = Cardinality(Beyond(Wanted, n)) /\ Ahead(n)' = Cardinality(Beyond(Wanted', n))
      BY DEF Ahead, Beyond
    <2>3. Cardinality(Beyond(Wanted, n)) <= Cardinality(Beyond(Wanted', n))
      BY <2>1, BeyondMore
    <2>4. Cardinality(Beyond(Wanted, n)) \in 0..(Len(hist) + 1) /\ Cardinality(Beyond(Wanted', n)) \in 0..(Len(hist) + 1)
      BY <2>1, BeyondFinite
    <2> QED
      BY <2>2, <2>3, <2>4
  <1>10. req.ofs \in Nat /\ Count \in Nat
    BY LogAssumption DEF LogTypeOK, Requests
  <1>11. ClientInv'
    <2>1. links.next # None =>
            /\ links.next = Link(req.ofs + Count)
            /\ ~req.follow => Ahead(0) > req.ofs + Count
            /\ ~Moved => TurnInv(req.ofs + Count)
      BY <1>1 DEF ClientInv
    <2>2. links.prev # None =>
            /\ req.ofs > 0 /\ links.prev = Link(req.ofs - Count)
            /\ ~req.follow => Ahead(0) > req.ofs
            /\ Still /\ rows # <<>> => rows[1].id \in Wanted /\ Ahead(rows[1].id) = req.ofs
      BY <1>1 DEF ClientInv
    <2>3. Link(req.ofs + Count)' = Link(req.ofs + Count) /\ Link(req.ofs - Count)' = Link(req.ofs - Count)
      BY <1>2 DEF Link
    <2>4. /\ Ahead(0) > req.ofs + Count => Ahead(0)' > req.ofs + Count
          /\ Ahead(0) > req.ofs => Ahead(0)' > req.ofs
      BY <1>9, <1>10
    <2>5. ASSUME TurnInv(req.ofs + Count) PROVE TurnInv(req.ofs + Count)'
      <3>1. ASSUME NEW k \in want \ ToSet(trail) PROVE k \in Wanted' /\ Ahead(k)' >= req.ofs + Count
        <4>0. k \in Wanted /\ Ahead(k) >= req.ofs + Count
          BY <2>5, <3>1 DEF TurnInv
        <4>1. k \in Wanted /\ k \in Int /\ Ahead(k) >= req.ofs + Count
          BY <1>3, <4>0
        <4>2. Ahead(k) <= Ahead(k)' /\ Ahead(k) \in Int /\ Ahead(k)' \in Int
          BY <1>9, <4>1
        <4> QED
          BY <1>1, <1>10, <4>1, <4>2
      <3>2. ASSUME Still', trail # <<>>
            PROVE  Last(trail) \in Wanted' /\ Ahead(Last(trail))' < req.ofs + Count
        <4>1. Wanted' = Wanted /\ Still
          BY <1>1, <3>2
        <4>2. Last(trail) \in Wanted /\ Ahead(Last(trail)) < req.ofs + Count
          BY <2>5, <3>2, <4>1 DEF TurnInv
        <4>3. Ahead(Last(trail))' = Ahead(Last(trail))
          BY <1>2, <4>1 DEF Ahead
        <4> QED
          BY <4>1, <4>2, <4>3
      <3> QED
        BY <1>2, <3>1, <3>2 DEF TurnInv
    <2>6. ASSUME Still', rows # <<>>, links.prev # None PROVE rows[1].id \in Wanted' /\ Ahead(rows[1].id)' = req.ofs
      <3>1. Wanted' = Wanted /\ Still
        BY <1>1, <2>6
      <3>2. Ahead(rows[1].id)' = Ahead(rows[1].id)
        BY <1>2, <3>1 DEF Ahead
      <3> QED
        BY <2>2, <2>6, <3>1, <3>2
    <2> QED
      BY <1>1, <1>2, <1>4, <2>1, <2>2, <2>3, <2>4, <2>5, <2>6 DEF ClientInv, Serving
  <1>12. PagesCover'
    <2>0. PICK r : r = start.req /\ r = start'.req
      BY <1>2
    <2>1. LogOf(start.req, Len(hist)) \subseteq LogOf(start.req, Len(hist))'
      <3>1. LogOf(r, Len(hist)) \subseteq LogOf(r, Len(hist))'
        BY <1>1
      <3> QED
        BY <2>0, <3>1 DEF LogOf
    <2> QED
      BY <1>1, <1>2, <1>4, <2>1 DEF PagesCover
  <1>13. PrevJoins'
    <2>0. PICK r : r = start.req /\ r = start'.req
      BY <1>2
    <2>1. ASSUME left # <<>>, Still', ~Moved
          PROVE  rows # <<>> /\ {k \in LogOf(start.req, Len(hist))' : left[1] < k /\ k < Last(rows).id} = {}
      <3>1. rows # <<>> /\ {k \in LogOf(start.req, Len(hist)) : left[1] < k /\ k < Last(rows).id} = {}
        BY <1>1, <2>1 DEF PrevJoins
      <3>2. Last(rows).id \in 1..Len(hist)
        <4>1. Len(rows) \in 1..Len(rows)
          BY <3>1, RowsAre
        <4> QED
          BY <4>1, RowsAre DEF Last
      <3>3. ASSUME NEW k \in LogOf(start.req, Len(hist))', left[1] < k, k < Last(rows).id PROVE FALSE
        <4>1. k \in LogOf(r, Len(hist))' /\ k \in Nat
          BY <1>1, <1>3, <2>0 DEF LogOf
        <4>2. k \in LogOf(r, Len(hist))
          BY <1>1, <1>3, <3>2, <3>3, <4>1
        <4> QED
          BY <2>0, <3>1, <3>3, <4>2
      <3> QED
        BY <3>1, <3>3
    <2> QED
      BY <1>2, <1>4, <2>1 DEF PrevJoins
  <1>14. NoEmptyPage' /\ CountsOwn'
    BY <1>2 DEF NoEmptyPage, CountsOwn
  <1>15. RowNames'
    <2>1. \A k \in 1..Len(rows) : rows[k].id \in 1..Len(hist)
      BY RowsAre
    <2>2. ASSUME NEW k \in 1..Len(rows)
          PROVE  Changes(rows[k].id)' = Changes(rows[k].id) /\ NameIn(rows[k].id)' = NameIn(rows[k].id)
      <3>1. PICK c \in 1..Len(hist) : c = rows[k].id /\ c = rows'[k].id
        BY <1>2, <2>1
      <3>2. Changes(c)' = Changes(c) /\ NameIn(c)' = NameIn(c)
        BY <1>1
      <3> QED
        BY <3>1, <3>2 DEF Changes, NameIn
    <2> QED
      BY <1>2, <2>2 DEF RowNames
  <1> QED
    BY <1>6, <1>7, <1>8, <1>11, <1>12, <1>13, <1>14, <1>15

-----------------------------------------------------------------------------
(* The theorem *)

LEMMA InitLog ==
  ASSUME LogInit
  PROVE  LogIInv
  <1> DEFINE n == Len(hist)
             r == start.req
  <1>1. /\ hist \in Histories /\ IsHistory(hist) /\ n <= MaxCommits /\ n \in Nat \ {0} /\ MaxCommits \in Nat
        /\ Count \in Nat \ {0} /\ None \notin Requests /\ None \notin ToSet(Names) /\ FollowLinks \in BOOLEAN
    <2>1. hist \in Histories /\ IsHistory(hist) /\ n <= MaxCommits
      BY LogAssumption DEF LogInit
    <2>2. n \in Nat \ {0}
      BY <2>1 DEF IsHistory
    <2> QED
      BY <2>1, <2>2, LogAssumption
  <1>2. PICK path \in Paths, followed \in BOOLEAN, id \in {0, n} :
          /\ path # None => \E k \in 1..n : path \in Changes(k)
          /\ start = [req |-> [path |-> path, follow |-> followed, ofs |-> 0, id |-> id], tip |-> n]
          /\ req = Opened([path |-> path, follow |-> followed, ofs |-> 0, id |-> id])
          /\ want = LogOf([path |-> path, follow |-> followed, ofs |-> 0, id |-> id], n)
          /\ sought = path /\ vpath = path
    BY DEF LogInit
  <1>3. /\ pc = "skip" /\ cur = n /\ i = 0 /\ files = <<>> /\ counted = FALSE /\ rows = <<>> /\ links = NoLinks
        /\ trail = <<>> /\ left = <<>>
    BY DEF LogInit
  <1>4. /\ r = [path |-> path, follow |-> followed, ofs |-> 0, id |-> id] /\ r \in Requests /\ start.tip = n
        /\ req = [path |-> path, follow |-> followed /\ path # None /\ FollowLinks, ofs |-> 0, id |-> id]
        /\ req \in Requests
    <2>1. r = [path |-> path, follow |-> followed, ofs |-> 0, id |-> id] /\ start.tip = n
      BY <1>2
    <2>2. req = [path |-> path, follow |-> followed /\ path # None /\ FollowLinks, ofs |-> 0, id |-> id]
      BY <1>2 DEF Opened
    <2>3. id \in Nat /\ 0 \in Nat /\ (followed /\ path # None /\ FollowLinks) \in BOOLEAN
      BY <1>1
    <2>4. r \in Requests
      BY <2>1, <2>3 DEF Requests
    <2>5. req \in Requests
      BY <2>2, <2>3 DEF Requests
    <2> QED
      BY <2>1, <2>2, <2>4, <2>5
  <1>5. Tip = n /\ req.id = start.req.id
    BY <1>2, <1>4 DEF Tip
  <1>6. want = LogOf(r, n) /\ want \subseteq 1..n
    BY <1>2, <1>4 DEF LogOf
  <1>7. LogTypeOK
    <2>1. start \in [req : Requests, tip : 1..n]
      BY <1>1, <1>2, <1>4
    <2>2. /\ rows \in Seq([id : 1..n, path : Paths, files : Seq(1..n)])
          /\ trail \in Seq(1..n) /\ left \in Seq(1..n) /\ Len(rows) = 0
          /\ files \in Seq(1..n) /\ counted \in BOOLEAN
      BY <1>3, EmptySeq
    <2>3. links \in [prev : Requests \cup {None}, next : Requests \cup {None}]
      BY <1>3 DEF NoLinks
    <2> QED
      BY <1>1, <1>2, <1>3, <1>4, <1>6, <2>1, <2>2, <2>3 DEF LogTypeOK
  <1>8. ASSUME req.follow PROVE path \in ToSet(Names) /\ Index(path) <= Index(NameIn(n))
    <2>1. path \in ToSet(Names)
      <3>1. req.follow = (followed /\ path # None /\ FollowLinks)
        BY <1>4
      <3> QED
        BY <1>8, <3>1 DEF Paths
    <2>2. PICK k \in 1..n : path \in Changes(k)
      BY <1>1, <1>2, <2>1
    <2>3. k \in 0..n /\ k - 1 \in 0..n /\ n \in 0..n /\ k - 1 <= n
      BY <1>1
    <2>4. path = NameIn(k) \/ path = NameIn(k - 1)
      BY <1>1, <2>2, ChangesAre
    <2>5. Renamed(k) <= Renamed(n) /\ Renamed(k - 1) <= Renamed(n)
          /\ Renamed(k) \in Int /\ Renamed(k - 1) \in Int /\ Renamed(n) \in Int
      BY <1>1, <2>3, RenamedSteps
    <2>6. Index(NameIn(k)) = 1 + Renamed(k) /\ Index(NameIn(k - 1)) = 1 + Renamed(k - 1) /\ Index(NameIn(n)) = 1 + Renamed(n)
      BY <1>1, <2>3, NameOf
    <2> QED
      BY <2>1, <2>4, <2>5, <2>6
  <1>9. RequestInv
    <2>1. ASSUME req.follow
          PROVE  Earlier(vpath, req.path) /\ Earlier(req.path, start.req.path) /\ Earlier(req.path, NameIn(Tip))
      <3>1. vpath = path /\ req.path = path /\ start.req.path = path
        BY <1>2, <1>4
      <3>2. path \in ToSet(Names) /\ Index(path) <= Index(NameIn(n)) /\ Index(path) \in Int
        BY <1>8, <2>1, NamesIndex
      <3>3. NameIn(Tip) \in ToSet(Names)
        BY <1>1, <1>5, NameOf
      <3> QED
        BY <1>5, <3>1, <3>2, <3>3 DEF Earlier
    <2> QED
      BY <1>1, <1>2, <1>4, <1>5, <2>1 DEF RequestInv
  <1>10. SoughtInv
    <2>1. cur \in 0..Tip /\ sought = req.path
      BY <1>1, <1>2, <1>3, <1>4, <1>5
    <2>2. req.follow => ~(Index(NameIn(cur)) < Index(req.path))
      BY <1>3, <1>5, <1>9, NamesIndex DEF RequestInv, Earlier
    <2> QED
      BY <2>1, <2>2 DEF SoughtInv
  <1>11. ~Moved
    BY <1>2, <1>4 DEF Moved
  <1>12. Wanted = want
    <2>1. Wanted = {k \in LogOf(start.req, Len(hist)) : k <= Tip}
      BY <1>7, <1>9, <1>11, SameRequest
    <2> QED
      BY <1>1, <1>5, <1>6, <2>1
  <1>13. PageInv
    <2>1. Ahead(cur) = 0
      BY <1>3, <1>5, <1>7, <1>9, AheadIs
    <2> QED
      BY <1>3, <1>4, <2>1 DEF PageInv
  <1>14. ClientInv
    <2>1. \A k \in want : k \in Wanted /\ Ahead(k) >= 0
      BY <1>1, <1>5, <1>6, <1>7, <1>9, <1>12, AheadIs
    <2>2. TurnInv(0)
      BY <1>3, <2>1 DEF TurnInv
    <2> QED
      BY <1>3, <1>4, <2>2 DEF ClientInv
  <1>15. PagesCover /\ PrevJoins /\ NoEmptyPage /\ RowNames /\ CountsOwn
    <2>1. Len(rows) = 0 /\ Len(trail) = 0 /\ \A k : ~(k \in 1..(0 - 1)) /\ ~(k \in 1..0)
      BY <1>3
    <2>2. PagesCover
      BY <1>3, <2>1 DEF PagesCover
    <2> QED
      BY <1>3, <2>1, <2>2 DEF PrevJoins, NoEmptyPage, RowNames, CountsOwn
  <1> QED
    BY <1>7, <1>9, <1>10, <1>13, <1>14, <1>15 DEF LogIInv

\* The client is at another page, and reads no log.
LEMMA AwayLog ==
  ASSUME LogAway
  PROVE  LogIInv
  <1>1. /\ hist = <<"root">> /\ req = NoLog /\ pc = "away" /\ cur = 0 /\ sought = None /\ vpath = None
        /\ i = 0 /\ files = <<>> /\ counted = FALSE /\ rows = <<>> /\ links = NoLinks
        /\ start = [req |-> NoLog, tip |-> 1] /\ want = {} /\ trail = <<>> /\ left = <<>>
    BY DEF LogAway
  <1>2. Len(hist) = 1 /\ hist[1] = "root" /\ hist \in Seq(Kinds) /\ 1 \in 1..1
    BY <1>1 DEF Kinds
  <1>3. IsHistory(hist)
    <2>1. {k \in 1..Len(hist) : hist[k] = "rename"} = {}
      BY <1>2
    <2>2. Cardinality({k \in 1..Len(hist) : hist[k] = "rename"}) < Len(Names)
      BY <2>1, FS_EmptySet, LogAssumption
    <2> QED
      BY <1>2, <2>2 DEF IsHistory
  <1>4. NoLog \in Requests /\ None \in Paths /\ NoLog.path = None /\ NoLog.follow = FALSE /\ NoLog.id = 0 /\ NoLog.ofs = 0
    BY DEF NoLog, Requests, Paths
  <1>5. LogTypeOK
    <2>1. /\ rows \in Seq([id : 1..Len(hist), path : Paths, files : Seq(1..Len(hist))]) /\ Len(rows) = 0
          /\ trail \in Seq(1..Len(hist)) /\ left \in Seq(1..Len(hist))
          /\ files \in Seq(1..Len(hist)) /\ counted \in BOOLEAN
      BY <1>1, EmptySeq
    <2> QED
      BY <1>1, <1>2, <1>3, <1>4, <2>1, LogAssumption DEF LogTypeOK, NoLinks
  <1>6. RequestInv
    BY <1>1, <1>2, <1>4 DEF RequestInv, Tip
  <1>7. SoughtInv /\ PageInv /\ ClientInv
    BY <1>1 DEF SoughtInv, PageInv, ClientInv, Serving
  <1>8. PagesCover /\ PrevJoins /\ NoEmptyPage /\ RowNames /\ CountsOwn
    <2>1. Len(rows) = 0 /\ Len(trail) = 0 /\ \A k : ~(k \in 1..(0 - 1)) /\ ~(k \in 1..0)
      BY <1>1
    <2>2. PagesCover
      BY <1>1, <2>1 DEF PagesCover
    <2> QED
      BY <1>1, <2>1, <2>2 DEF PrevJoins, NoEmptyPage, RowNames, CountsOwn
  <1> QED
    BY <1>5, <1>6, <1>7, <1>8 DEF LogIInv

LEMMA AwayNext == LogAway' => LogIInv'
  <1>1. LogAway => LogIInv
    BY AwayLog
  <1> QED
    BY <1>1, PTL

LEMMA LogStays ==
  ASSUME LogIInv, logVars' = logVars
  PROVE  LogIInv'
  <1> USE DEF LogIInv
  <1>1. /\ hist' = hist /\ req' = req /\ pc' = pc /\ cur' = cur /\ sought' = sought /\ vpath' = vpath /\ i' = i
        /\ files' = files /\ counted' = counted /\ rows' = rows /\ links' = links
        /\ start' = start /\ want' = want /\ trail' = trail /\ left' = left
    BY DEF logVars, server, client
  <1>2. /\ Tip' = Tip /\ Wanted' = Wanted /\ \A n : Ahead(n)' = Ahead(n)
        /\ \A k : Changes(k)' = Changes(k) /\ NameIn(k)' = NameIn(k)
        /\ \A r, t : LogOf(r, t)' = LogOf(r, t)
    BY <1>1, SameLog
  <1>3. Moved' = Moved /\ Still' = Still /\ LogOf(start.req, Len(hist))' = LogOf(start.req, Len(hist))
    BY <1>1, <1>2 DEF Moved, Still, LogOf
  <1>4. NameIn(Tip)' = NameIn(Tip) /\ NameIn(cur)' = NameIn(cur)
    BY <1>1, <1>2 DEF NameIn
  <1>5. LogTypeOK'
    BY <1>1 DEF LogTypeOK
  <1>6. RequestInv'
    BY <1>1, <1>2, <1>4 DEF RequestInv, Earlier
  <1>7. SoughtInv'
    BY <1>1, <1>2, <1>4 DEF SoughtInv, Serving
  <1>8. PageInv'
    <2>1. Ahead(cur)' = Ahead(cur) /\ Walk' = Walk
      BY <1>1, <1>2 DEF Ahead, Walk
    <2>2. \A k : RowOf(k)' = RowOf(k)
      BY <1>1, <1>2 DEF RowOf, Ahead
    <2> QED
      BY <1>1, <1>2, <2>1, <2>2 DEF PageInv
  <1>9. ClientInv'
    <2>1. Ahead(0)' = Ahead(0) /\ Ahead(left[1])' = Ahead(left[1]) /\ Ahead(rows[1].id)' = Ahead(rows[1].id)
      BY <1>1, <1>2 DEF Ahead
    <2>2. TurnInv(req.ofs)' = TurnInv(req.ofs) /\ TurnInv(req.ofs + Count)' = TurnInv(req.ofs + Count)
      BY <1>1, <1>2, <1>3 DEF TurnInv, Ahead
    <2>3. Link(req.ofs + Count)' = Link(req.ofs + Count) /\ Link(req.ofs - Count)' = Link(req.ofs - Count)
      BY <1>1 DEF Link
    <2> QED
      BY <1>1, <1>2, <1>3, <2>1, <2>2, <2>3 DEF ClientInv, Serving
  <1>10. PagesCover' /\ PrevJoins' /\ NoEmptyPage' /\ CountsOwn'
    BY <1>1, <1>3 DEF PagesCover, PrevJoins, NoEmptyPage, CountsOwn
  <1>11. RowNames'
    BY <1>1, <1>2 DEF RowNames
  <1> QED
    BY <1>5, <1>6, <1>7, <1>8, <1>9, <1>10, <1>11

LEMMA NextLog ==
  ASSUME LogIInv, [Next]_historyVars
  PROVE  LogIInv'
  <1>1. ASSUME ServeLog PROVE LogIInv'
    BY <1>1, SkipStep, EndSkipStep, ShowStep, PagerStep DEF ServeLog, Serve
  <1>2. ASSUME ReadLog PROVE LogIInv'
    BY <1>2, ClickNextStep, ClickPrevStep, PushStep DEF ReadLog
  <1>3. ASSUME ClickRow PROVE LogIInv'
    <2>1. LogAway'
      BY <1>3 DEF ClickRow, LogAway
    <2> QED
      BY <2>1, AwayNext
  <1>4. ASSUME ServeDiff \/ ServeStats \/ ReadPage \/ UNCHANGED historyVars PROVE LogIInv'
    <2>1. logVars' = logVars
      BY <1>4 DEF ServeDiff, ServeStats, ReadPage, historyVars
    <2> QED
      BY <2>1, LogStays
  <1> QED
    BY <1>1, <1>2, <1>3, <1>4 DEF Next

LEMMA LogIInvHolds == Spec => []LogIInv
  <1>1. Init => LogIInv
    BY InitLog, AwayLog DEF Init
  <1>2. LogIInv /\ [Next]_historyVars => LogIInv'
    BY NextLog
  <1> QED
    BY <1>1, <1>2, PTL DEF Spec

\* A client that turns the pages of a log sees every commit that was there when it
\* began, each once and the newest first if nothing is pushed meanwhile; [prev]
\* leads back without a gap, and no link to an empty page (ui-log.c:490-548).
THEOREM PagesCoverLog == Spec => []LogInv
  <1>1. LogIInv => LogInv
    BY DEF LogIInv, LogInv
  <1> QED
    BY <1>1, LogIInvHolds, PTL

-----------------------------------------------------------------------------
(* What a page prints stays printed *)

LEMMA ListIsSeq ==
  ASSUME NEW s, IsList(s)
  PROVE  s \in Seq({s[k] : k \in 1..Len(s)})
  <1> DEFINE n == Len(s)
             S == {s[k] : k \in 1..n}
  <1>1. n \in Nat /\ s = [k \in 1..n |-> s[k]]
    BY DEF IsList
  <1>2. \A k \in 1..n : s[k] \in S
    OBVIOUS
  <1> HIDE DEF n, S
  <1>3. [k \in 1..n |-> s[k]] \in [1..n -> S]
    BY <1>2
  <1>4. [k \in 1..n |-> s[k]] \in Seq(S)
    BY <1>1, <1>3, SeqDef
  <1> QED
    BY <1>1, <1>4 DEF n, S

LEMMA SeqIsList ==
  ASSUME NEW S, NEW s \in Seq(S)
  PROVE  IsList(s)
  BY LenProperties DEF IsList

LEMMA ListsJoin ==
  ASSUME NEW s, NEW t, IsList(s), IsList(t)
  PROVE  /\ IsList(s \o t) /\ Len(s \o t) = Len(s) + Len(t)
         /\ \A k \in 1..Len(s) : (s \o t)[k] = s[k]
         /\ \A k \in 1..Len(t) : (s \o t)[Len(s) + k] = t[k]
  <1> DEFINE S == {s[k] : k \in 1..Len(s)} \cup {t[k] : k \in 1..Len(t)}
  <1>1. Len(s) \in Nat /\ Len(t) \in Nat
    BY DEF IsList
  <1>2. s \in Seq(S) /\ t \in Seq(S)
    <2>1. \A P : P \subseteq S => Seq(P) \subseteq Seq(S)
      OBVIOUS
    <2> QED
      BY <2>1, ListIsSeq
  <1> HIDE DEF S
  <1>3. /\ s \o t \in Seq(S) /\ Len(s \o t) = Len(s) + Len(t)
        /\ \A k \in 1 .. Len(s) + Len(t) : (s \o t)[k] = IF k <= Len(s) THEN s[k] ELSE t[k - Len(s)]
    BY <1>2, ConcatProperties
  <1>4. IsList(s \o t)
    BY <1>3, SeqIsList
  <1> QED
    BY <1>1, <1>3, <1>4

LEMMA OneIsList ==
  ASSUME NEW e
  PROVE  IsList(<<e>>) /\ Len(<<e>>) = 1 /\ <<e>>[1] = e
  <1>1. <<e>> \in Seq({e})
    OBVIOUS
  <1> QED
    BY <1>1, SeqIsList

LEMMA ListGrows ==
  ASSUME NEW s, IsList(s), NEW e
  PROVE  IsList(Append(s, e))
  <1> DEFINE S == {s[k] : k \in 1..Len(s)} \cup {e}
  <1>1. s \in Seq(S)
    <2>1. \A P : P \subseteq S => Seq(P) \subseteq Seq(S)
      OBVIOUS
    <2> QED
      BY <2>1, ListIsSeq
  <1>2. Append(s, e) \in Seq(S)
    BY <1>1, AppendProperties
  <1> QED
    BY <1>2, SeqIsList

\* The rows that wait in the two lists are one for each pair of lines.
LEMMA DeferredIsList ==
  ASSUME IsList(oldLines), IsList(newLines)
  PROVE  IsList(Deferred)
  <1>1. Len(oldLines) \in Nat /\ Len(newLines) \in Nat
    BY DEF IsList
  <1>2. ASSUME NEW n \in Nat, NEW s, s = [k \in 1..n |-> s[k]] PROVE IsList(s)
    <2>1. s \in Seq({s[k] : k \in 1..n})
      BY <1>2
    <2> QED
      BY <2>1, SeqIsList
  <1>3. CASE newLines = <<>>
    <2>1. Deferred = [k \in 1..Len(oldLines) |-> SsdiffRow("del", OneSide(oldLines[k]), <<>>)]
      BY <1>3 DEF Deferred
    <2>2. Deferred = [k \in 1..Len(oldLines) |-> Deferred[k]]
      BY <2>1
    <2> QED
      BY <1>1, <1>2, <2>2
  <1>4. CASE newLines # <<>> /\ oldLines = <<>>
    <2>1. Deferred = [k \in 1..Len(newLines) |-> SsdiffRow("add", <<>>, OneSide(newLines[k]))]
      BY <1>4 DEF Deferred
    <2>2. Deferred = [k \in 1..Len(newLines) |-> Deferred[k]]
      BY <2>1
    <2> QED
      BY <1>1, <1>2, <2>2
  <1>5. CASE newLines # <<>> /\ oldLines # <<>>
    <2>1. PICK n \in Nat : Deferred = [k \in 1..n |-> ChangedRow(k, Len(oldLines) = Len(newLines))]
      BY <1>1, <1>5 DEF Deferred
    <2>2. Deferred = [k \in 1..n |-> Deferred[k]]
      BY <2>1
    <2> QED
      BY <1>2, <2>2
  <1> QED
    BY <1>3, <1>4, <1>5

Lists == IsList(page) /\ IsList(items) /\ IsList(oldLines) /\ IsList(newLines)
Grows == IsList(page') /\ Len(page) <= Len(page') /\ \A k \in 1..Len(page) : page'[k] = page[k]

LEMMA EmitGrows ==
  ASSUME IsList(page), NEW events, IsList(events), Emit(events)
  PROVE  Grows /\ Len(page') = Len(page) + Len(events) /\ \A k \in 1..Len(events) : page'[Len(page) + k] = events[k]
  <1>1. page' = page \o events /\ Len(page) \in Nat /\ Len(events) \in Nat
    BY DEF Emit, IsList
  <1> QED
    BY <1>1, ListsJoin DEF Grows

LEMMA KeptGrows ==
  ASSUME IsList(page), page' = page
  PROVE  Grows
  BY DEF Grows, IsList

LEMMA EventIsList ==
  ASSUME NEW name
  PROVE  IsList(Event(name)) /\ IsList(<<>>)
  <1>1. IsList(<<>>)
    BY DEF IsList
  <1> QED
    BY <1>1, OneIsList DEF Event

\* Each line of a diff side by side, and the end of a file.
LEMMA SsdiffGrows ==
  ASSUME Lists, NEW l, SsdiffHunk(l) \/ SsdiffContext(l) \/ SsdiffAdded(l) \/ SsdiffRemoved(l) \/ SsdiffFooter
  PROVE  Grows /\ IsList(oldLines') /\ IsList(newLines')
  <1> USE DEF Lists
  <1>0. IsList(<<>>) /\ IsList(Deferred)
    BY EventIsList, DeferredIsList
  <1>1. CASE SsdiffHunk(l)
    <2>1. PICK e : Emit(<<e>>) /\ oldLines' = oldLines /\ newLines' = newLines
      BY <1>1 DEF SsdiffHunk
    <2> QED
      BY <2>1, OneIsList, EmitGrows
  <1>2. CASE SsdiffContext(l)
    <2>1. PICK e : Emit(Deferred \o <<e>>) /\ oldLines' = <<>> /\ newLines' = <<>>
      BY <1>2 DEF SsdiffContext, NoneDeferred
    <2>2. IsList(Deferred \o <<e>>)
      BY <1>0, OneIsList, ListsJoin
    <2> QED
      BY <1>0, <2>1, <2>2, EmitGrows
  <1>3. CASE SsdiffAdded(l)
    BY <1>3, ListGrows, KeptGrows DEF SsdiffAdded
  <1>4. CASE SsdiffRemoved(l)
    BY <1>4, ListGrows, KeptGrows DEF SsdiffRemoved
  <1>5. CASE SsdiffFooter
    <2>1. Emit(Deferred \o Event("foot")) /\ oldLines' = <<>> /\ newLines' = <<>>
      BY <1>5 DEF SsdiffFooter, NoneDeferred
    <2>2. IsList(Deferred \o Event("foot"))
      BY <1>0, EventIsList, ListsJoin
    <2> QED
      BY <1>0, <2>1, <2>2, EmitGrows
  <1> QED
    BY <1>1, <1>2, <1>3, <1>4, <1>5

LEMMA PrintingGrows ==
  ASSUME Lists, Printing
  PROVE  Lists' /\ Grows
  <1> USE DEF Lists, stat, deferred
  <1>0. IsList(<<>>)
    BY EventIsList
  <1>1. CASE PrintDiff
    <2>1. /\ Emit(Event("head") \o Event("error") \o Event("tail")) \/ Emit(Event("raw"))
             \/ Emit(IF ctrls THEN Event("head") ELSE <<>>)
          /\ UNCHANGED <<items, oldLines, newLines>>
      BY <1>1 DEF PrintDiff
    <2>2. IsList(Event("head") \o Event("error") \o Event("tail"))
      BY EventIsList, ListsJoin
    <2>3. IsList(IF ctrls THEN Event("head") ELSE <<>>) /\ IsList(Event("raw"))
      BY <1>0, EventIsList
    <2>4. Grows
      BY <2>1, <2>2, <2>3, EmitGrows
    <2> QED
      BY <2>1, <2>4 DEF Grows
  <1>2. CASE InspectFilepair
    <2>1. items' = items \/ items' = Append(items, Item(queue[pair]))
      BY <1>2 DEF InspectFilepair
    <2>2. page' = page /\ oldLines' = oldLines /\ newLines' = newLines
      BY <1>2 DEF InspectFilepair
    <2> QED
      BY <2>1, <2>2, ListGrows, KeptGrows
  <1>3. CASE PrintDiffstat
    <2>1. PICK e : Emit([k \in 1..Len(items) |-> ItemRow(items[k])] \o <<e>>)
      BY <1>3 DEF PrintDiffstat
    <2>2. IsList([k \in 1..Len(items) |-> ItemRow(items[k])])
      BY DEF IsList
    <2>3. Grows
      BY <2>1, <2>2, OneIsList, ListsJoin, EmitGrows
    <2> QED
      BY <1>3, <2>3 DEF PrintDiffstat, Grows
  <1>4. CASE FilepairCb
    <2>1. items' = items /\ oldLines' = oldLines /\ newLines' = newLines
      BY <1>4 DEF FilepairCb, SsdiffHeader
    <2>2. page' = page \/ \E e : Emit(<<e>>)
      BY <1>4 DEF FilepairCb
    <2>3. Grows
      BY <2>2, OneIsList, EmitGrows, KeptGrows
    <2> QED
      BY <2>1, <2>3 DEF Grows
  <1>5. CASE DiffLine
    <2>1. items' = items
      BY <1>5 DEF DiffLine
    <2>2. CASE mode = "ssdiff"
      <3>1. PICK l : SsdiffHunk(l) \/ SsdiffContext(l) \/ SsdiffAdded(l) \/ SsdiffRemoved(l)
        BY <1>5, <2>2 DEF DiffLine
      <3> QED
        BY <2>1, <3>1, SsdiffGrows DEF Grows
    <2>3. CASE mode # "ssdiff"
      <3>1. PICK l : PrintLine(l)
        BY <1>5, <2>3 DEF DiffLine
      <3>2. PICK e : Emit(<<e>>) /\ oldLines' = oldLines /\ newLines' = newLines
        BY <3>1 DEF PrintLine
      <3> QED
        BY <2>1, <3>2, OneIsList, EmitGrows DEF Grows
    <2> QED
      BY <2>2, <2>3
  <1>6. CASE EndFilepair
    <2>1. items' = items
      BY <1>6 DEF EndFilepair
    <2>2. CASE mode = "ssdiff"
      BY <1>6, <2>1, <2>2, SsdiffGrows DEF EndFilepair, Grows
    <2>3. CASE mode # "ssdiff"
      BY <1>6, <2>1, <2>3, KeptGrows DEF EndFilepair
    <2> QED
      BY <2>2, <2>3
  <1>7. CASE EndDiff
    <2>1. UNCHANGED <<items, oldLines, newLines>> /\ Emit(EndOf)
      BY <1>7 DEF EndDiff
    <2>2. IsList(EndOf)
      BY <1>0, EventIsList DEF EndOf
    <2> QED
      BY <2>1, <2>2, EmitGrows DEF Grows
  <1> QED
    BY <1>1, <1>2, <1>3, <1>4, <1>5, <1>6, <1>7 DEF Printing

\* The file a row of the log is about is on the page, and stays there.
FileSeen == \E n \in Printed("file") : page[n].file = 1

LEMMA SeenStays ==
  ASSUME IsList(page), Grows, FileSeen
  PROVE  FileSeen'
  <1>1. PICK n \in 1..Len(page) : page[n].ev = "file" /\ page[n].file = 1
    BY DEF FileSeen, Printed
  <1>2. n \in 1..Len(page') /\ page'[n] = page[n]
    BY <1>1 DEF Grows, IsList
  <1> QED
    BY <1>1, <1>2 DEF FileSeen, Printed

-----------------------------------------------------------------------------
(* The row of a log leads to a page that shows the file *)

DiffShape ==
  /\ at # "away" /\ pair \in Nat \ {0}
  /\ IF at = "begin" THEN pair = 1 /\ dt = "none" /\ cfgdt # "statonly" ELSE mode # "statonly"
Past == at \in {"line", "done"} \/ (at = "pair" /\ pair > 1)

LEMMA DiffStep ==
  ASSUME ClickInv, Printing, where = "diff", where' = where, clicked' = clicked
  PROVE  ClickInv'
  <1>1. Lists' /\ Grows /\ Lists
    BY PrintingGrows DEF ClickInv, Lists
  <1>2. queue' = queue /\ rev' = rev /\ raw' = raw /\ prefix' = prefix /\ follow' = follow /\ cfgdt' = cfgdt
    BY DEF Printing, PrintDiff, InspectFilepair, PrintDiffstat, FilepairCb, DiffLine, EndFilepair, EndDiff, asked
  <1>3. FirstShown' = FirstShown
    BY <1>2 DEF FirstShown, ShowFilepair
  <1>4. FileSeen => FileSeen'
    BY <1>1, SeenStays DEF Lists
  <1>5. ASSUME clicked # None
        PROVE  DiffShape' /\ (clicked.changed # {} /\ Past' => FileSeen')
    <2>0. /\ rev /\ ~raw /\ DiffShape
          /\ clicked.changed # {} => FirstShown /\ (Past => FileSeen)
      BY <1>5 DEF ClickInv, DiffShape, Past, FileSeen
    <2>1. CASE PrintDiff
      <3>1. at = "begin" /\ at' = "stat" /\ mode' = Difftype /\ pair' = pair
        BY <2>0, <2>1 DEF PrintDiff
      <3>2. mode' # "statonly"
        BY <2>0, <3>1 DEF DiffShape, Difftype
      <3> QED
        BY <2>0, <3>1, <3>2 DEF DiffShape, Past
    <2>2. CASE InspectFilepair
      <3>1. at = "stat" /\ at' = at /\ mode' = mode /\ pair' = pair + 1
        BY <2>2 DEF InspectFilepair
      <3> QED
        BY <2>0, <3>1 DEF DiffShape, Past
    <2>3. CASE PrintDiffstat
      <3>1. at' = "pair" /\ mode' = mode /\ pair' = 1
        BY <2>0, <2>3 DEF PrintDiffstat, DiffShape
      <3> QED
        BY <2>0, <2>3, <3>1 DEF DiffShape, Past, PrintDiffstat
    <2>4. CASE FilepairCb
      <3>1. at = "pair" /\ mode' = mode /\ at' \in {"pair", "line"} /\ pair' \in {pair, pair + 1}
        BY <2>4 DEF FilepairCb
      <3>2. ASSUME clicked.changed # {}, pair = 1 PROVE FileSeen'
        <4>1. ShowFilepair(queue[pair])
          BY <2>0, <3>2 DEF FirstShown
        <4> DEFINE e == [ev |-> "file", file |-> pair]
        <4>2. Emit(<<e>>)
          BY <2>4, <4>1 DEF FilepairCb
        <4> HIDE DEF e
        <4> DEFINE events == <<e>>
        <4>0. IsList(events) /\ Len(events) = 1 /\ events[1] = e
          BY OneIsList
        <4> HIDE DEF events
        <4>3. Len(page') = Len(page) + 1 /\ page'[Len(page) + 1] = e /\ Len(page) \in Nat
          <5>1. Emit(events)
            BY <4>2 DEF events
          <5>2. IsList(page) /\ Len(page) \in Nat
            BY <1>1 DEF Lists, IsList
          <5>3. Len(page') = Len(page) + Len(events) /\ \A n \in 1..Len(events) : page'[Len(page) + n] = events[n]
            BY <4>0, <5>1, <5>2, EmitGrows
          <5> QED
            BY <4>0, <5>2, <5>3
        <4>4. e.ev = "file" /\ e.file = 1
          BY <3>2 DEF e
        <4> QED
          BY <4>3, <4>4 DEF FileSeen, Printed
      <3>3. ASSUME clicked.changed # {}, pair # 1 PROVE FileSeen'
        BY <1>4, <2>0, <3>1, <3>3 DEF DiffShape, Past
      <3> QED
        BY <2>0, <3>1, <3>2, <3>3 DEF DiffShape
    <2>5. CASE DiffLine
      <3>1. at = "line" /\ at' = at /\ mode' = mode /\ pair' = pair
        BY <2>5 DEF DiffLine
      <3> QED
        BY <1>4, <2>0, <3>1 DEF DiffShape, Past
    <2>6. CASE EndFilepair
      <3>1. at = "line" /\ at' = "pair" /\ mode' = mode /\ pair' = pair + 1
        BY <2>6 DEF EndFilepair
      <3> QED
        BY <1>4, <2>0, <3>1 DEF DiffShape, Past
    <2>7. CASE EndDiff
      <3>1. at = "pair" /\ pair > Len(queue) /\ at' = "done" /\ mode' = mode /\ pair' = pair
        BY <2>7 DEF EndDiff
      <3>2. clicked.changed # {} => pair > 1
        BY <2>0, <3>1 DEF FirstShown, DiffShape
      <3> QED
        BY <1>4, <2>0, <3>1, <3>2 DEF DiffShape, Past
    <2> QED
      BY <2>1, <2>2, <2>3, <2>4, <2>5, <2>6, <2>7 DEF Printing
  <1> QED
    BY <1>1, <1>2, <1>3, <1>5 DEF ClickInv, Lists, DiffShape, Past, FileSeen

LEMMA DiffKept ==
  ASSUME ClickInv, where' = where, clicked' = clicked, diffVars' = diffVars
  PROVE  ClickInv'
  <1>1. /\ queue' = queue /\ rev' = rev /\ raw' = raw /\ prefix' = prefix /\ follow' = follow /\ cfgdt' = cfgdt
        /\ dt' = dt /\ mode' = mode /\ at' = at /\ pair' = pair /\ page' = page
        /\ items' = items /\ oldLines' = oldLines /\ newLines' = newLines
    BY DEF diffVars, asked, stat, deferred
  <1>2. FirstShown' = FirstShown /\ Printed("file")' = Printed("file")
    BY <1>1 DEF FirstShown, ShowFilepair, Printed
  <1> QED
    BY <1>1, <1>2 DEF ClickInv

\* A row has a name of the file its commit changes, and git finds it.
LEMMA ClickStep ==
  ASSUME LogIInv, ClickInv, ClickRow
  PROVE  ClickInv'
  <1>1. PICK n \in 1..Len(rows) :
          /\ clicked' = [changed |-> Changes(rows[n].id)]
          /\ queue' = PairsOf(rows[n].id, rows[n].path)
          /\ prefix' = PathOf(rows[n].path) /\ follow' = req.follow
    BY DEF ClickRow
  <1> DEFINE k    == rows[n].id
             path == rows[n].path
  <1>2. /\ where = "log" /\ where' = "diff" /\ at' = "begin" /\ cfgdt' \in {"unified", "ssdiff"}
        /\ rev' = rev /\ raw' = raw /\ dt' = dt /\ pair' = pair /\ page' = page
        /\ items' = items /\ oldLines' = oldLines /\ newLines' = newLines
    BY DEF ClickRow, stat, deferred
  <1>3. IsHistory(hist) /\ k \in 1..Len(hist) /\ Len(hist) \in Nat
    <2>1. LogTypeOK /\ IsHistory(hist)
      BY DEF LogIInv, LogTypeOK
    <2> QED
      BY <2>1, RowsAre DEF IsHistory
  <1>4. /\ Changes(k) \subseteq ToSet(Names)
        /\ Changes(k) # {} => NameIn(k) \in Changes(k)
        /\ \A m \in Changes(k) : m = NameIn(k) \/ (hist[k] = "rename" /\ m = NameIn(k - 1))
    BY <1>3, ChangesAre
  <1>5. IF req.follow THEN path \in Changes(k) ELSE path = req.path
    BY DEF LogIInv, RowNames
  <1>6. ASSUME Changes(k) # {}, path # None, ~req.follow PROVE path \in Changes(k)
    <2>1. path = req.path /\ req.path = start.req.path /\ ~Moved
      BY <1>5, <1>6 DEF LogIInv, RequestInv, Moved
    <2>2. k \in LogOf(start.req, Len(hist))
      BY <2>1 DEF LogIInv, PagesCover
    <2>3. ~(start.req.follow /\ FollowLinks)
      BY <1>6, <2>1 DEF LogIInv, RequestInv
    <2> QED
      BY <1>6, <2>1, <2>2, <2>3 DEF LogOf
  <1>7. ASSUME Changes(k) # {} PROVE FirstShown'
    <2>1. ASSUME NEW old, NEW new, new \in Changes(k), queue'[1] = Edited(old, new), Len(queue') >= 1,
                 req.follow => path \in {old, new}
          PROVE  FirstShown'
      <3>1. queue'[1].one = PathOf(old) /\ queue'[1].two = PathOf(new)
        BY <2>1 DEF Edited
      <3>2. follow' => IsPrefix(prefix', queue'[1].one) \/ IsPrefix(prefix', queue'[1].two)
        <4>1. IsPrefix(PathOf(path), PathOf(path))
          BY DEF IsPrefix, PathOf
        <4> QED
          BY <1>1, <2>1, <3>1, <4>1
      <3>3. clicked'.changed = Changes(k)
        BY <1>1
      <3> QED
        BY <2>1, <3>1, <3>2, <3>3 DEF FirstShown, ShowFilepair
    <2>2. CASE path # None /\ ~req.follow
      <3>1. queue' = <<Edited(path, path)>>
        BY <1>1, <1>7, <2>2 DEF PairsOf
      <3> QED
        BY <1>6, <1>7, <2>1, <2>2, <3>1
    <2>3. CASE path = None \/ req.follow
      <3> DEFINE old == IF hist[k] = "rename" THEN NameIn(k - 1) ELSE NameIn(k)
      <3>1. queue' = <<Edited(old, NameIn(k)), Beside>>
        BY <1>1, <1>7, <2>3 DEF PairsOf
      <3>2. req.follow => path \in {old, NameIn(k)}
        BY <1>4, <1>5
      <3> QED
        BY <1>4, <1>7, <2>1, <3>1, <3>2
    <2> QED
      BY <2>2, <2>3
  <1>8. clicked' # None => clicked'.changed = Changes(k)
    BY <1>1
  <1> QED
    BY <1>2, <1>7, <1>8 DEF ClickInv, Past

LEMMA ClickInvHolds == Spec => []ClickInv
  <1>1. Init => ClickInv
    BY EventIsList DEF Init, DiffAway, DiffInit, ClickInv
  <1>2. ASSUME LogIInv, ClickInv, [Next]_historyVars PROVE ClickInv'
    <2>1. CASE ServeLog \/ ReadLog \/ ServeStats \/ ReadPage \/ UNCHANGED historyVars
      <3>1. where' = where /\ clicked' = clicked /\ diffVars' = diffVars
        BY <2>1 DEF ServeLog, ReadLog, ServeStats, ReadPage, historyVars
      <3> QED
        BY <1>2, <3>1, DiffKept
    <2>2. CASE ClickRow
      BY <1>2, <2>2, ClickStep
    <2>3. CASE ServeDiff
      BY <1>2, <2>3, DiffStep DEF ServeDiff
    <2> QED
      BY <1>2, <2>1, <2>2, <2>3 DEF Next
  <1>3. LogIInv /\ ClickInv /\ [Next]_historyVars => ClickInv'
    BY <1>2
  <1> QED
    BY <1>1, <1>3, LogIInvHolds, PTL DEF Spec

\* A row of the log has the path, the counts and the link of its own commit: the
\* page of the commit shows what it did to the file, whatever name the file had
\* (ui-log.c:119-177, ui-diff.c:144).
THEOREM RowsAreOwn == Spec => []RowsOwn
  <1>1. LogIInv => RowNames /\ CountsOwn
    BY DEF LogIInv
  <1>2. ClickInv => RowLeadsToDiff
    <2> SUFFICES ASSUME ClickInv, at = "done", clicked # None, clicked.changed # {}
                 PROVE  \E n \in Printed("file") : queue[page[n].file].two \in {PathOf(p) : p \in clicked.changed}
      BY DEF RowLeadsToDiff
    <2>1. PICK n \in Printed("file") : page[n].file = 1
      BY DEF ClickInv
    <2> QED
      BY <2>1 DEF ClickInv, FirstShown
  <1>3. LogIInv /\ ClickInv => RowsOwn
    BY <1>1, <1>2 DEF RowsOwn
  <1> QED
    BY <1>3, LogIInvHolds, ClickInvHolds, PTL

-----------------------------------------------------------------------------
(* The lines of the files that are counted *)

LEMMA UptoFinite ==
  ASSUME NEW n \in Nat
  PROVE  IsFiniteSet(1..n)
  <1>1. 1 \in Int /\ n \in Int
    OBVIOUS
  <1> QED
    BY <1>1, FS_Interval

LEMMA UnionFinite ==
  ASSUME NEW I, IsFiniteSet(I), NEW f, DOMAIN f = I, \A x \in I : IsFiniteSet(f[x])
  PROVE  IsFiniteSet(UNION {f[x] : x \in I})
  <1> DEFINE S == {f[x] : x \in I}
             g == [x \in I |-> f[x]]
  <1>1. g \in Surjection(I, S)
    BY DEF Surjection
  <1>2. IsFiniteSet(S)
    BY <1>1, FS_Surjection
  <1> QED
    BY <1>2, FS_UNION

LEMMA PlacesFinite ==
  ASSUME IsQueue(queue), NEW k \in 1..Len(queue)
  PROVE  IsFiniteSet(Places(queue[k]))
  <1> DEFINE p == queue[k]
             I == 1..Len(p.hunks)
             f == [j \in I |-> {j} \X (1..Len(p.hunks[j].lines))]
  <1>1. Len(p.hunks) \in Nat /\ \A j \in I : Len(p.hunks[j].lines) \in Nat
    BY DEF IsQueue
  <1>2. IsFiniteSet(I)
    BY <1>1, UptoFinite
  <1>3. ASSUME NEW j \in I PROVE IsFiniteSet(f[j])
    <2>1. IsFiniteSet({j})
      BY FS_Singleton
    <2>2. IsFiniteSet(1..Len(p.hunks[j].lines))
      BY <1>1, UptoFinite
    <2>3. IsFiniteSet({j} \X (1..Len(p.hunks[j].lines)))
      BY <2>1, <2>2, FS_Product
    <2> QED
      BY <2>3
  <1>4. Places(p) = UNION {f[j] : j \in I} /\ DOMAIN f = I
    BY DEF Places
  <1> HIDE DEF I, f
  <1> QED
    BY <1>2, <1>3, <1>4, UnionFinite

LEMMA ChangedFinite ==
  ASSUME IsQueue(queue), NEW k \in 1..Len(queue), NEW kinds
  PROVE  IsFiniteSet(Changed(k, kinds)) /\ Cardinality(Changed(k, kinds)) \in Nat
  <1>1. Changed(k, kinds) \subseteq Places(queue[k])
    BY DEF Changed
  <1>2. IsFiniteSet(Changed(k, kinds))
    BY <1>1, PlacesFinite, FS_Subset
  <1> QED
    BY <1>2, FS_CardinalityType

\* count_diff_lines() is called for the lines of a kind.
LEMMA LinesAre ==
  ASSUME IsQueue(queue), NEW k \in 1..Len(queue), NEW kind
  PROVE  Lines(queue[k], kind) = Cardinality(Changed(k, {kind}))
  <1>1. CASE queue[k].binary
    <2>1. Changed(k, {kind}) = {}
      BY <1>1 DEF Changed
    <2> QED
      BY <1>1, <2>1, FS_EmptySet DEF Lines
  <1>2. CASE ~queue[k].binary /\ queue[k].sub # "none"
    <2>1. Places(queue[k]) = {}
      BY <1>2 DEF IsQueue, Places
    <2>2. Changed(k, {kind}) = {} /\ {c \in Places(queue[k]) : KindAt(queue[k], c) = kind} = {}
      BY <1>2, <2>1 DEF Changed
    <2> QED
      BY <1>2, <2>2 DEF Lines
  <1>3. CASE ~queue[k].binary /\ ~(queue[k].sub # "none")
    <2>1. Changed(k, {kind}) = {c \in Places(queue[k]) : KindAt(queue[k], c) = kind}
      BY <1>3 DEF Changed
    <2> QED
      BY <1>3, <2>1 DEF Lines
  <1> QED
    BY <1>1, <1>2, <1>3

LEMMA DisjointUnion ==
  ASSUME NEW S, NEW W, IsFiniteSet(S), IsFiniteSet(W), S \cap W = {}
  PROVE  Cardinality(S \cup W) = Cardinality(S) + Cardinality(W)
  <1>1. Cardinality(S) \in Nat /\ Cardinality(W) \in Nat
    BY FS_CardinalityType
  <1>2. Cardinality(S \cap W) = 0
    BY FS_EmptySet
  <1>3. Cardinality(S \cup W) = Cardinality(S) + Cardinality(W) - Cardinality(S \cap W)
    BY FS_Union
  <1> QED
    BY <1>1, <1>2, <1>3

LEMMA BothKinds ==
  ASSUME IsQueue(queue), NEW k \in 1..Len(queue)
  PROVE  Cardinality(Changed(k, {"+", "-"})) = Cardinality(Changed(k, {"+"})) + Cardinality(Changed(k, {"-"}))
  <1> DEFINE S == Changed(k, {"+"})
             W == Changed(k, {"-"})
  <1>1. Changed(k, {"+", "-"}) = S \cup W /\ S \cap W = {}
    BY DEF Changed
  <1>2. IsFiniteSet(S) /\ IsFiniteSet(W)
    BY ChangedFinite
  <1> HIDE DEF S, W
  <1>3. Cardinality(S \cup W) = Cardinality(S) + Cardinality(W)
    BY <1>1, <1>2, DisjointUnion
  <1>4. Cardinality(Changed(k, {"+", "-"})) = Cardinality(S \cup W)
    BY <1>1
  <1> QED
    BY <1>3, <1>4 DEF S, W

LEMMA TotalGrows ==
  ASSUME IsQueue(queue), NEW done \in SUBSET (1..Len(queue)), NEW k \in 1..Len(queue), k \notin done, NEW kinds
  PROVE  Total(done \cup {k}, kinds) = Total(done, kinds) + Cardinality(Changed(k, kinds))
  <1> DEFINE U(S) == UNION {{x} \X Changed(x, kinds) : x \in S}
             f    == [x \in done |-> {x} \X Changed(x, kinds)]
             Own  == {k} \X Changed(k, kinds)
  <1>1. IsFiniteSet(done)
    <2>1. IsFiniteSet(1..Len(queue))
      BY UptoFinite DEF IsQueue, IsList
    <2> QED
      BY <2>1, FS_Subset
  <1>2. ASSUME NEW x \in 1..Len(queue)
        PROVE  IsFiniteSet({x} \X Changed(x, kinds)) /\ Cardinality({x} \X Changed(x, kinds)) = Cardinality(Changed(x, kinds))
    <2>1. IsFiniteSet({x}) /\ Cardinality({x}) = 1
      BY FS_Singleton
    <2>2. IsFiniteSet(Changed(x, kinds)) /\ Cardinality(Changed(x, kinds)) \in Nat
      BY ChangedFinite
    <2>3. /\ IsFiniteSet({x} \X Changed(x, kinds))
          /\ Cardinality({x} \X Changed(x, kinds)) = Cardinality({x}) * Cardinality(Changed(x, kinds))
      BY <2>1, <2>2, FS_Product
    <2> QED
      BY <2>1, <2>2, <2>3
  <1>3. IsFiniteSet(U(done))
    <2>1. \A x \in done : IsFiniteSet(f[x])
      BY <1>2
    <2>2. DOMAIN f = done /\ U(done) = UNION {f[x] : x \in done}
      OBVIOUS
    <2> HIDE DEF f, U
    <2>3. IsFiniteSet(UNION {f[x] : x \in done})
      BY <1>1, <2>1, <2>2, UnionFinite
    <2> QED
      BY <2>2, <2>3
  <1>4. U(done \cup {k}) = U(done) \cup Own
    OBVIOUS
  <1>5. U(done) \cap Own = {}
    OBVIOUS
  <1>6. IsFiniteSet(Own) /\ Cardinality(Own) = Cardinality(Changed(k, kinds))
    BY <1>2
  <1>7. Total(done \cup {k}, kinds) = Cardinality(U(done \cup {k})) /\ Total(done, kinds) = Cardinality(U(done))
    BY DEF Total
  <1> HIDE DEF U, Own
  <1>8. Cardinality(U(done) \cup Own) = Cardinality(U(done)) + Cardinality(Own)
    BY <1>3, <1>5, <1>6, DisjointUnion
  <1>9. Total(done \cup {k}, kinds) = Cardinality(U(done) \cup Own)
    BY <1>4, <1>7
  <1> QED
    BY <1>6, <1>7, <1>8, <1>9

LEMMA TotalOfNone ==
  ASSUME NEW kinds
  PROVE  Total({}, kinds) = 0
  <1>1. UNION {{x} \X Changed(x, kinds) : x \in {}} = {}
    OBVIOUS
  <1> QED
    BY <1>1, FS_EmptySet DEF Total

-----------------------------------------------------------------------------
(* What is printed, and what stays as it was *)

Stays(name)   == Printed(name)' = Printed(name) /\ \A n \in Printed(name) : page'[n] = page[n]
Prints(names) ==
  \/ page' = page
  \/ \E events : IsList(events) /\ Emit(events) /\ \A k \in 1..Len(events) : events[k].ev \in names
BodyEvents == {"file", "hunk", "row", "line", "foot"}

LEMMA PrintedAfter ==
  ASSUME IsList(page), NEW events, IsList(events), Emit(events), NEW name
  PROVE  /\ Printed(name)' = Printed(name) \cup {Len(page) + k : k \in {m \in 1..Len(events) : events[m].ev = name}}
         /\ \A n \in Printed(name) : page'[n] = page[n]
  <1>1. /\ Grows /\ Len(page') = Len(page) + Len(events)
        /\ \A k \in 1..Len(events) : page'[Len(page) + k] = events[k]
    BY EmitGrows
  <1>2. Len(page) \in Nat /\ Len(events) \in Nat
    BY DEF IsList
  <1>3. \A n \in 1..Len(page) : n \in 1..Len(page') /\ page'[n] = page[n]
    BY <1>1, <1>2 DEF Grows
  <1>4. \A n \in 1..Len(page') : n \notin 1..Len(page) => n - Len(page) \in 1..Len(events) /\ n = Len(page) + (n - Len(page))
    BY <1>1, <1>2
  <1>5. \A k \in 1..Len(events) : Len(page) + k \in 1..Len(page')
    BY <1>1, <1>2
  <1>6. ASSUME NEW n \in Printed(name)'
        PROVE  n \in Printed(name) \cup {Len(page) + k : k \in {m \in 1..Len(events) : events[m].ev = name}}
    <2>1. n \in 1..Len(page') /\ page'[n].ev = name
      BY <1>6 DEF Printed
    <2>2. CASE n \in 1..Len(page)
      BY <1>3, <2>1, <2>2 DEF Printed
    <2>3. CASE n \notin 1..Len(page)
      <3>1. PICK k \in 1..Len(events) : n = Len(page) + k
        BY <1>4, <2>1, <2>3
      <3>2. page'[n] = events[k]
        BY <1>1, <3>1
      <3> QED
        BY <2>1, <3>1, <3>2
    <2> QED
      BY <2>2, <2>3
  <1>7. ASSUME NEW n \in Printed(name) PROVE n \in Printed(name)' /\ page'[n] = page[n]
    BY <1>3 DEF Printed
  <1>8. ASSUME NEW k \in 1..Len(events), events[k].ev = name PROVE Len(page) + k \in Printed(name)'
    BY <1>1, <1>5, <1>8 DEF Printed
  <1> QED
    BY <1>6, <1>7, <1>8

LEMMA OthersStay ==
  ASSUME IsList(page), NEW names, Prints(names), NEW name, name \notin names
  PROVE  Stays(name)
  <1>1. CASE page' = page
    BY <1>1 DEF Stays, Printed
  <1>2. CASE page' # page
    <2>1. PICK events : IsList(events) /\ Emit(events) /\ \A k \in 1..Len(events) : events[k].ev \in names
      BY <1>2 DEF Prints
    <2>2. {m \in 1..Len(events) : events[m].ev = name} = {}
      BY <2>1
    <2>3. /\ Printed(name)' = Printed(name) \cup {Len(page) + k : k \in {m \in 1..Len(events) : events[m].ev = name}}
          /\ \A n \in Printed(name) : page'[n] = page[n]
      BY <2>1, PrintedAfter
    <2> QED
      BY <2>2, <2>3 DEF Stays
  <1> QED
    BY <1>1, <1>2

LEMMA OnePrints ==
  ASSUME NEW e, Emit(<<e>>), NEW names, e.ev \in names
  PROVE  Prints(names)
  <1> DEFINE events == <<e>>
  <1>1. IsList(events) /\ Len(events) = 1 /\ events[1] = e
    BY OneIsList
  <1>2. Emit(events)
    OBVIOUS
  <1> HIDE DEF events
  <1> QED
    BY <1>1, <1>2 DEF Prints

LEMMA DeferredRows ==
  ASSUME IsList(oldLines), IsList(newLines)
  PROVE  \A k \in 1..Len(Deferred) : Deferred[k].ev = "row"
  <1>0. \A class, old, new : SsdiffRow(class, old, new).ev = "row"
    BY DEF SsdiffRow
  <1>1. Len(oldLines) \in Nat /\ Len(newLines) \in Nat
    BY DEF IsList
  <1>3. CASE newLines = <<>>
    <2>1. Deferred = [k \in 1..Len(oldLines) |-> SsdiffRow("del", OneSide(oldLines[k]), <<>>)]
      BY <1>3 DEF Deferred
    <2>2. Len(Deferred) = Len(oldLines)
      BY <1>1, <2>1
    <2> QED
      BY <1>0, <2>1, <2>2
  <1>4. CASE newLines # <<>> /\ oldLines = <<>>
    <2>1. Deferred = [k \in 1..Len(newLines) |-> SsdiffRow("add", <<>>, OneSide(newLines[k]))]
      BY <1>4 DEF Deferred
    <2>2. Len(Deferred) = Len(newLines)
      BY <1>1, <2>1
    <2> QED
      BY <1>0, <2>1, <2>2
  <1>5. CASE newLines # <<>> /\ oldLines # <<>>
    <2>1. PICK n \in Nat : Deferred = [k \in 1..n |-> ChangedRow(k, Len(oldLines) = Len(newLines))]
      BY <1>1, <1>5 DEF Deferred
    <2>2. Len(Deferred) = n
      BY <2>1
    <2>3. \A k, individual : ChangedRow(k, individual).ev = "row"
      BY <1>0 DEF ChangedRow
    <2> QED
      BY <2>1, <2>2, <2>3
  <1> QED
    BY <1>3, <1>4, <1>5

\* The rows of the deferred lines and what comes after them.
LEMMA DeferredPrint ==
  ASSUME Lists, NEW e, e.ev \in BodyEvents, Emit(Deferred \o <<e>>)
  PROVE  Prints(BodyEvents)
  <1> DEFINE one    == <<e>>
             events == Deferred \o one
  <1>1. IsList(one) /\ Len(one) = 1 /\ one[1] = e
    BY OneIsList
  <1>2. IsList(Deferred) /\ \A k \in 1..Len(Deferred) : Deferred[k].ev = "row"
    BY DeferredIsList, DeferredRows DEF Lists
  <1>3. Emit(events)
    OBVIOUS
  <1> HIDE DEF one
  <1>4. /\ IsList(events) /\ Len(events) = Len(Deferred) + 1
        /\ \A k \in 1..Len(Deferred) : events[k] = Deferred[k]
        /\ \A k \in 1..Len(one) : events[Len(Deferred) + k] = one[k]
    <2> DEFINE d == Deferred
    <2>1. IsList(d) /\ IsList(one) /\ events = d \o one
      BY <1>1, <1>2
    <2> HIDE DEF d, events
    <2>2. /\ IsList(d \o one) /\ Len(d \o one) = Len(d) + Len(one)
          /\ \A k \in 1..Len(d) : (d \o one)[k] = d[k]
          /\ \A k \in 1..Len(one) : (d \o one)[Len(d) + k] = one[k]
      BY <2>1, ListsJoin
    <2> QED
      BY <1>1, <2>1, <2>2 DEF d
  <1>5. Len(Deferred) \in Nat
    BY <1>2 DEF IsList
  <1>6. events[Len(Deferred) + 1] = e
    BY <1>1, <1>4
  <1> HIDE DEF events
  <1>7. ASSUME NEW k \in 1..Len(events) PROVE events[k].ev \in BodyEvents
    <2>1. k \in 1..Len(Deferred) \/ k = Len(Deferred) + 1
      BY <1>4, <1>5
    <2> QED
      BY <1>2, <1>4, <1>6, <2>1 DEF BodyEvents
  <1> QED
    BY <1>3, <1>4, <1>7 DEF Prints

LEMMA BodyPrints ==
  ASSUME Lists, FilepairCb \/ DiffLine \/ EndFilepair
  PROVE  Prints(BodyEvents)
  <1>1. CASE FilepairCb
    <2>1. page' = page \/ Emit(<<[ev |-> "file", file |-> pair]>>)
      BY <1>1 DEF FilepairCb
    <2> DEFINE e == [ev |-> "file", file |-> pair]
    <2>2. e.ev \in BodyEvents
      BY DEF BodyEvents
    <2>3. page' = page \/ Emit(<<e>>)
      BY <2>1
    <2> HIDE DEF e
    <2> QED
      BY <2>2, <2>3, OnePrints DEF Prints
  <1>2. CASE DiffLine
    <2>1. CASE mode = "ssdiff"
      <3>1. PICK l : SsdiffHunk(l) \/ SsdiffContext(l) \/ SsdiffAdded(l) \/ SsdiffRemoved(l)
        BY <1>2, <2>1 DEF DiffLine
      <3>2. CASE SsdiffHunk(l)
        <4>1. Emit(<<[ev |-> "hunk", file |-> pair, old |-> <<>>, new |-> <<>>]>>)
          BY <3>2 DEF SsdiffHunk
        <4> QED
          BY <4>1, OnePrints DEF BodyEvents
      <3>3. CASE SsdiffContext(l)
        <4> DEFINE e == SsdiffRow("ctx", OneSide(Numbered(oldNo, l)), OneSide(Numbered(newNo, l)))
        <4>1. Emit(Deferred \o <<e>>)
          BY <3>3 DEF SsdiffContext
        <4>2. e.ev = "row"
          BY DEF SsdiffRow
        <4> HIDE DEF e
        <4> QED
          BY <4>1, <4>2, DeferredPrint DEF BodyEvents
      <3>4. CASE SsdiffAdded(l) \/ SsdiffRemoved(l)
        BY <3>4 DEF SsdiffAdded, SsdiffRemoved, Prints
      <3> QED
        BY <3>1, <3>2, <3>3, <3>4
    <2>2. CASE mode # "ssdiff"
      <3>1. PICK l : PrintLine(l)
        BY <1>2, <2>2 DEF DiffLine
      <3> DEFINE e == [ev |-> "line", file |-> pair, kind |-> l.kind, text |-> IF l.kind = "@" THEN <<>> ELSE Text(l)]
      <3>2. Emit(<<e>>)
        BY <3>1 DEF PrintLine
      <3>3. e.ev \in BodyEvents
        BY DEF BodyEvents
      <3> HIDE DEF e
      <3> QED
        BY <3>2, <3>3, OnePrints
    <2> QED
      BY <2>1, <2>2
  <1>3. CASE EndFilepair
    <2>1. CASE mode = "ssdiff"
      <3> DEFINE e == [ev |-> "foot"]
      <3>1. Emit(Deferred \o <<e>>)
        BY <1>3, <2>1 DEF EndFilepair, SsdiffFooter, Event
      <3>2. e.ev \in BodyEvents
        BY DEF BodyEvents
      <3> HIDE DEF e
      <3> QED
        BY <3>1, <3>2, DeferredPrint
    <2>2. CASE mode # "ssdiff"
      BY <1>3, <2>2 DEF EndFilepair, Prints
    <2> QED
      BY <2>1, <2>2
  <1> QED
    BY <1>1, <1>2, <1>3

-----------------------------------------------------------------------------
(* The files that are shown *)

LEMMA ShownIs ==
  ASSUME IsList(prefix), NEW k \in 1..Len(queue)
  PROVE  k \in Shown <=> ShowFilepair(queue[k])
  <1>1. SubSeq(prefix, 1, Len(prefix)) = prefix
    <2>1. prefix \in Seq({prefix[n] : n \in 1..Len(prefix)}) /\ Len(prefix) \in Nat
      BY ListIsSeq DEF IsList
    <2> QED
      BY <2>1
  <1>2. \A path : IsPrefix(prefix, path) <=> Begins(path)
    BY <1>1 DEF IsPrefix, Begins
  <1> QED
    BY <1>2 DEF Shown, ShowFilepair

\* What a page has been asked for does not change while it is printed.
FilesStay ==
  /\ queue' = queue /\ prefix' = prefix /\ follow' = follow /\ rev' = rev /\ raw' = raw
  /\ cfgdt' = cfgdt /\ ctrls' = ctrls

LEMMA SameFiles ==
  ASSUME FilesStay
  PROVE  /\ Shown' = Shown /\ (\A k, kinds : Changed(k, kinds)' = Changed(k, kinds))
         /\ \A kinds : Total(Shown, kinds)' = Total(Shown, kinds)
  <1>1. Shown' = Shown
    BY DEF FilesStay, Shown, Begins
  <1>2. \A k, kinds : Changed(k, kinds)' = Changed(k, kinds)
    BY DEF FilesStay, Changed
  <1> QED
    BY <1>1, <1>2 DEF Total

LEMMA SumsStay ==
  ASSUME FilesStay, Stays("sum"), Stays("item"), SumsShown
  PROVE  SumsShown'
  <1>1. \A n \in Printed("sum")' : n \in Printed("sum") /\ page'[n] = page[n]
    BY DEF Stays
  <1> QED
    BY <1>1, SameFiles DEF SumsShown, Scale, Stays

LEMMA LinksStay ==
  ASSUME Stays("item"), StatNotCarried
  PROVE  StatNotCarried'
  BY DEF Stays, StatNotCarried

LEMMA FilesStayThere ==
  ASSUME Printing
  PROVE  FilesStay
  BY DEF Printing, PrintDiff, InspectFilepair, PrintDiffstat, FilepairCb, DiffLine, EndFilepair, EndDiff, asked, FilesStay

\* A pair of files comes to the diffstat.
LEMMA InspectStep ==
  ASSUME DiffIInv, IsList(items), InspectFilepair
  PROVE  DiffIInv'
  <1>0. FilesStay
    BY FilesStayThere DEF Printing
  <1>1. /\ at = "stat" /\ at' = "stat" /\ pair \in 1..Len(queue) /\ pair' = pair + 1 /\ Len(queue) \in Nat
        /\ dt' = dt /\ mode' = mode /\ page' = page
    BY DEF InspectFilepair, DiffIInv, DiffTypeOK, IsQueue, IsList
  <1>2. \A name : Printed(name)' = Printed(name)
    BY <1>1 DEF Printed
  <1> DEFINE added   == Cardinality(Changed(pair, {"+"}))
             removed == Cardinality(Changed(pair, {"-"}))
             i0      == Item(queue[pair])
  <1>3. IsQueue(queue) /\ IsList(prefix) /\ Summed
    BY <1>1 DEF DiffIInv
  <1>4. i0.added = added /\ i0.removed = removed
    BY <1>1, <1>3, LinesAre DEF Item
  <1>5. added \in Nat /\ removed \in Nat
    BY <1>1, <1>3, ChangedFinite
  <1>6. Cardinality(Changed(pair, {"+", "-"})) = added + removed
    BY <1>1, <1>3, BothKinds
  <1>7. adds \in Nat /\ rems \in Nat /\ max \in Nat /\ slots \in Nat /\ Len(items) \in Nat /\ Len(items) <= slots
    <2>1. Passed \subseteq 1..Len(queue)
      BY DEF Passed, Shown
    <2>2. Cardinality(Passed) \in Nat
      BY <1>1, <2>1, UptoFinite, FS_Subset, FS_CardinalityType
    <2> QED
      BY <1>3, <2>2 DEF DiffIInv, DiffTypeOK, Summed
  <1>8. /\ Passed \in SUBSET (1..Len(queue)) /\ pair \notin Passed /\ IsFiniteSet(Passed)
    <2>1. Passed \subseteq 1..Len(queue) /\ pair \notin Passed
      BY <1>1 DEF Passed, Shown
    <2> QED
      BY <1>1, <2>1, UptoFinite, FS_Subset
  <1>9. Passed' = {k \in Shown : k < pair + 1} /\ Shown' = Shown
    BY <1>0, <1>1, SameFiles DEF Passed
  <1>10. \A kinds : Total(Passed, kinds)' = Total(Passed', kinds)
    BY <1>0, SameFiles DEF Total
  <1>11. CASE ~ShowFilepair(queue[pair])
    <2>1. pair \notin Shown
      BY <1>1, <1>3, <1>11, ShownIs
    <2>2. Passed' = Passed
      <3>1. \A k \in Shown : k \in 1..Len(queue) /\ k # pair
        BY <2>1 DEF Shown
      <3>2. \A k \in Shown : k < pair + 1 <=> k < pair
        BY <1>1, <3>1
      <3> QED
        BY <1>9, <3>2 DEF Passed
    <2>3. UNCHANGED <<items, slots, max, adds, rems>>
      BY <1>11 DEF InspectFilepair, stat
    <2>4. Summed'
      BY <1>0, <1>3, <1>10, <2>2, <2>3, SameFiles DEF Summed, Scale
    <2> QED
      BY <1>0, <1>1, <1>2, <2>3, <2>4
      DEF DiffIInv, DiffTypeOK, FilesStay, DiffInv, SumsRight, DiffFramed, StatNotCarried
  <1>12. CASE ShowFilepair(queue[pair])
    <2>1. pair \in Shown
      BY <1>1, <1>3, <1>12, ShownIs
    <2>2. Passed' = Passed \cup {pair}
      <3>1. \A k \in Shown : k \in 1..Len(queue)
        BY DEF Shown
      <3>2. \A k \in Shown : k < pair + 1 <=> k < pair \/ k = pair
        BY <1>1, <3>1
      <3> QED
        BY <1>9, <2>1, <3>2 DEF Passed
    <2>3. /\ items' = Append(items, i0) /\ slots' = Grow(Len(items) + 1)
          /\ adds' = adds + added /\ rems' = rems + removed
          /\ max' = IF added + removed > max THEN added + removed ELSE max
      BY <1>4, <1>12 DEF InspectFilepair
    <2> HIDE DEF added, removed, i0
    <2>4. Len(items') = Len(items) + 1
      <3> DEFINE S == {items[k] : k \in 1..Len(items)} \cup {i0}
      <3>1. items \in Seq({items[k] : k \in 1..Len(items)})
        BY ListIsSeq
      <3>2. \A P : P \subseteq S => Seq(P) \subseteq Seq(S)
        OBVIOUS
      <3>3. items \in Seq(S) /\ i0 \in S
        BY <3>1, <3>2
      <3> HIDE DEF S
      <3> QED
        BY <2>3, <3>3, AppendProperties
    <2>5. slots' \in Nat /\ Len(items') <= slots'
      <3>1. FirstSlots \in Nat \ {0}
        BY DiffAssumption
      <3>2. slots' = IF Len(items') < slots THEN slots ELSE IF slots = 0 THEN FirstSlots ELSE slots * 2
        BY <2>3, <2>4 DEF Grow
      <3> QED
        BY <1>7, <2>4, <3>1, <3>2
    <2>6. Len(items') = Cardinality(Passed')
      <3>1. Cardinality(Passed \cup {pair}) = Cardinality(Passed) + 1
        BY <1>8, FS_AddElement
      <3> QED
        BY <1>3, <2>2, <2>4, <3>1 DEF Summed
    <2>7. adds' = Total(Passed, {"+"})' /\ rems' = Total(Passed, {"-"})'
      BY <1>1, <1>3, <1>8, <1>10, <2>2, <2>3, TotalGrows DEF Summed, added, removed
    <2>8. Scale(Passed, max)'
      <3> DEFINE S(k) == Cardinality(Changed(k, {"+", "-"}))
      <3>1. S(pair) = added + removed
        BY <1>6 DEF added, removed
      <3>2. \A k \in Passed : S(k) <= max /\ S(k) \in Nat
        BY <1>3, <1>8, ChangedFinite DEF Summed, Scale
      <3>3. max > 0 => \E k \in Passed : S(k) = max
        BY <1>3 DEF Summed, Scale
      <3>4. \A k : Cardinality(Changed(k, {"+", "-"}))' = S(k)
        BY <1>0, SameFiles
      <3> HIDE DEF S
      <3>5. \A k \in Passed' : S(k) <= max'
        BY <1>5, <1>7, <2>2, <2>3, <3>1, <3>2 DEF added, removed
      <3>6. max' > 0 => \E k \in Passed' : S(k) = max'
        BY <1>7, <2>2, <2>3, <3>1, <3>3
      <3> QED
        BY <3>4, <3>5, <3>6 DEF Scale
    <2>9. max' \in Nat /\ adds' \in Nat /\ rems' \in Nat
      <3>1. adds' \in Nat /\ rems' \in Nat
        BY <1>5, <1>7, <2>3
      <3>2. max' \in Nat
        BY <1>5, <1>7, <2>3
      <3> QED
        BY <3>1, <3>2
    <2>10. Summed'
      BY <2>6, <2>7, <2>8 DEF Summed
    <2> QED
      BY <1>0, <1>1, <1>2, <2>5, <2>9, <2>10
      DEF DiffIInv, DiffTypeOK, FilesStay, DiffInv, SumsRight, DiffFramed, StatNotCarried
  <1> QED
    BY <1>11, <1>12

\* The page begins, or is nothing but an error or git's own.
LEMMA BeginStep ==
  ASSUME DiffIInv, PrintDiff
  PROVE  DiffIInv'
  <1>0. FilesStay
    BY FilesStayThere DEF Printing
  <1>1. /\ at = "begin" /\ Fresh /\ page = <<>> /\ Len(page) = 0 /\ IsList(page)
        /\ UNCHANGED <<pair, line, items, slots, max, adds, rems>>
    BY EventIsList DEF PrintDiff, DiffIInv, Fresh, stat
  <1>2. \A name : Printed(name) = {}
    BY <1>1 DEF Printed
  <1>3. DiffTypeOK'
    <2>1. at' \in {"stat", "done"} /\ mode' \in {mode, Difftype}
      BY DEF PrintDiff
    <2>2. Difftype \in Types
      BY DEF DiffIInv, Difftype, Types
    <2> QED
      BY <1>0, <1>1, <2>1, <2>2 DEF DiffIInv, DiffTypeOK, FilesStay
  <1>4. dt' \in Types \cup {"none"}
    BY DEF PrintDiff, DiffIInv, Reset, Types
  <1>5. CASE ~rev
    <2> DEFINE events == Event("head") \o Event("error") \o Event("tail")
    <2>1. Emit(events) /\ at' = "done" /\ mode' = mode
      BY <1>5 DEF PrintDiff
    <2>2. IsList(events) /\ Len(events) = 3 /\ events[1].ev = "head" /\ events[2].ev = "error" /\ events[3].ev = "tail"
      <3> DEFINE h == Event("head")
                 e == Event("error")
                 t == Event("tail")
      <3>1. /\ IsList(h) /\ Len(h) = 1 /\ h[1].ev = "head"
            /\ IsList(e) /\ Len(e) = 1 /\ e[1].ev = "error"
            /\ IsList(t) /\ Len(t) = 1 /\ t[1].ev = "tail"
        BY OneIsList DEF Event
      <3>2. events = (h \o e) \o t
        OBVIOUS
      <3> HIDE DEF h, e, t, events
      <3>0. IsList(h) /\ IsList(e) /\ IsList(t)
        BY <3>1
      <3>3. /\ IsList(h \o e) /\ Len(h \o e) = Len(h) + Len(e)
            /\ \A k \in 1..Len(h) : (h \o e)[k] = h[k]
            /\ \A k \in 1..Len(e) : (h \o e)[Len(h) + k] = e[k]
        BY <3>0, ListsJoin
      <3>4. Len(h \o e) = 2 /\ (h \o e)[1] = h[1] /\ (h \o e)[1 + 1] = e[1]
        BY <3>1, <3>3
      <3>5. /\ IsList(events) /\ Len(events) = Len(h \o e) + Len(t)
            /\ \A k \in 1..Len(h \o e) : events[k] = (h \o e)[k]
            /\ \A k \in 1..Len(t) : events[Len(h \o e) + k] = t[k]
        BY <3>0, <3>2, <3>3, ListsJoin
      <3>6. Len(events) = 3 /\ events[1] = h[1] /\ events[2] = e[1] /\ events[2 + 1] = t[1]
        BY <3>1, <3>4, <3>5
      <3>7. IsList(events)
        BY <3>5
      <3>8. events[3] = t[1]
        BY <3>6
      <3> QED
        BY <3>1, <3>6, <3>7, <3>8
    <2> HIDE DEF events
    <2>3. /\ Len(page') = 3 /\ IsList(page')
          /\ page'[1] = events[1] /\ page'[2] = events[2] /\ page'[3] = events[3]
      <3>1. Grows /\ Len(page') = Len(page) + Len(events) /\ \A k \in 1..Len(events) : page'[Len(page) + k] = events[k]
        BY <1>1, <2>1, <2>2, EmitGrows
      <3>2. page'[0 + 1] = events[1] /\ page'[0 + 2] = events[2] /\ page'[0 + 3] = events[3]
        BY <1>1, <2>2, <3>1
      <3> QED
        BY <1>1, <2>2, <3>1, <3>2 DEF Grows
    <2>4. 1..Len(page') = {1, 2, 3}
      BY <2>3
    <2>5. Printed("head")' = {1} /\ Printed("tail")' = {3} /\ Printed("sum")' = {} /\ Printed("item")' = {}
      BY <2>2, <2>3, <2>4 DEF Printed
    <2>6. DiffInv' /\ SumsShown'
      BY <1>0, <1>1, <1>5, <2>1, <2>3, <2>5 DEF DiffInv, SumsRight, SumsShown, DiffFramed, StatNotCarried, FilesStay, Fresh
    <2> QED
      BY <1>0, <1>1, <1>3, <1>4, <2>1, <2>6 DEF DiffIInv, FilesStay
  <1>6. CASE rev /\ raw
    <2>1. Emit(<<[ev |-> "raw"]>>) /\ at' = "done" /\ mode' = mode
      BY <1>6 DEF PrintDiff, Event
    <2>2. Prints({"raw"})
      BY <2>1, OnePrints
    <2>3. \A name : name # "raw" => Printed(name)' = {}
      BY <1>1, <1>2, <2>2, OthersStay DEF Stays
    <2>4. DiffInv' /\ SumsShown'
      <3>1. ~ctrls
        BY <1>6 DEF DiffIInv
      <3> QED
        BY <1>0, <1>6, <2>1, <2>3, <3>1 DEF DiffInv, SumsRight, SumsShown, DiffFramed, StatNotCarried, FilesStay
    <2> QED
      BY <1>0, <1>1, <1>3, <1>4, <2>1, <2>4 DEF DiffIInv, FilesStay
  <1>7. CASE rev /\ ~raw
    <2>1. Emit(IF ctrls THEN Event("head") ELSE <<>>) /\ at' = "stat" /\ mode' = Difftype /\ dt' = Reset
      BY <1>7 DEF PrintDiff
    <2>2. dt' # "statonly"
      BY <2>1 DEF Reset, Difftype, DiffIInv
    <2>3. Printed("head")' = (IF ctrls THEN {1} ELSE {}) /\ \A name : name # "head" => Printed(name)' = {}
      <3>1. CASE ctrls
        <4> DEFINE events == <<[ev |-> "head"]>>
        <4>1. Emit(events) /\ IsList(events) /\ Len(events) = 1 /\ events[1].ev = "head"
          BY <2>1, <3>1, OneIsList DEF Event
        <4> HIDE DEF events
        <4>2. \A name : Printed(name)' = Printed(name) \cup {Len(page) + k : k \in {m \in 1..Len(events) : events[m].ev = name}}
          BY <1>1, <4>1, PrintedAfter
        <4>3. 1..Len(events) = {1} /\ Len(page) + 1 = 1
          BY <1>1, <4>1
        <4> QED
          BY <1>2, <3>1, <4>1, <4>2, <4>3
      <3>2. CASE ~ctrls
        <4>1. Emit(<<>>) /\ IsList(<<>>) /\ Len(<<>>) = 0
          BY <2>1, <3>2, EventIsList
        <4>2. Len(page') = 0
          <5>1. Len(page') = Len(page) + Len(<<>>)
            BY <1>1, <4>1, EmitGrows
          <5> QED
            BY <1>1, <4>1, <5>1
        <4> QED
          BY <3>2, <4>2 DEF Printed
      <3> QED
        BY <3>1, <3>2
    <2>4. Shown \subseteq 1..Len(queue) /\ pair = 1 /\ Passed = {}
      BY <1>1 DEF Passed, Shown, Fresh
    <2>5. Passed' = {}
      BY <1>0, <1>1, <2>4, SameFiles DEF Passed
    <2>6. Summed'
      <3>1. Total(Passed, {"+"})' = 0 /\ Total(Passed, {"-"})' = 0
        <4>1. \A kinds : Total(Passed, kinds)' = Total({}, kinds)
          BY <1>0, <2>5, SameFiles DEF Total
        <4> QED
          BY <4>1, TotalOfNone
      <3>2. Len(items') = 0 /\ max' = 0 /\ adds' = 0 /\ rems' = 0
        BY <1>1 DEF Fresh
      <3> QED
        BY <2>5, <3>1, <3>2, FS_EmptySet DEF Summed, Scale
    <2>7. DiffInv'
      BY <2>1, <2>3 DEF DiffInv, SumsRight, DiffFramed, StatNotCarried
    <2> QED
      BY <1>0, <1>1, <1>3, <1>4, <1>7, <2>1, <2>2, <2>3, <2>6, <2>7 DEF DiffIInv, FilesStay
  <1> QED
    BY <1>5, <1>6, <1>7

\* The rows and the sums, when all pairs are counted.
LEMMA DiffstatStep ==
  ASSUME DiffIInv, Lists, PrintDiffstat
  PROVE  DiffIInv'
  <1>0. FilesStay
    BY FilesStayThere DEF Printing
  <1> DEFINE n    == Len(items)
             sum  == [ev |-> "sum", files |-> n, adds |-> adds, rems |-> rems, max |-> max]
             its  == [k \in 1..n |-> ItemRow(items[k])]
             last == <<sum>>
             events == its \o last
  <1>1. /\ at = "stat" /\ pair > Len(queue) /\ pair' = 1 /\ at' = IF mode = "statonly" THEN "done" ELSE "pair"
        /\ UNCHANGED <<dt, mode, line, items, slots, max, adds, rems>> /\ Emit(events)
    BY DEF PrintDiffstat, stat
  <1>2. n \in Nat /\ Len(page) \in Nat /\ Len(queue) \in Nat /\ pair \in Nat
    BY DEF Lists, IsList, DiffIInv, DiffTypeOK, IsQueue
  <1>3. IsList(its) /\ Len(its) = n /\ \A k \in 1..n : its[k].ev = "item" /\ its[k].dt = LinkType
    BY <1>2 DEF IsList, ItemRow
  <1>4. IsList(last) /\ Len(last) = 1 /\ last[1] = sum
    BY OneIsList
  <1>5. sum.ev = "sum" /\ sum.files = n /\ sum.adds = adds /\ sum.rems = rems /\ sum.max = max
    OBVIOUS
  <1> HIDE DEF n, sum, its, last
  <1>6. /\ IsList(events) /\ Len(events) = n + 1
        /\ \A k \in 1..n : events[k] = its[k]
        /\ events[n + 1] = last[1]
    <2>0. IsList(its) /\ IsList(last)
      BY <1>3, <1>4
    <2>1. /\ IsList(its \o last) /\ Len(its \o last) = Len(its) + Len(last)
          /\ \A k \in 1..Len(its) : (its \o last)[k] = its[k]
          /\ \A k \in 1..Len(last) : (its \o last)[Len(its) + k] = last[k]
      BY <2>0, ListsJoin
    <2> QED
      BY <1>3, <1>4, <2>1
  <1>7. events[n + 1] = sum
    BY <1>4, <1>6
  <1> HIDE DEF events
  <1>8. /\ {m \in 1..Len(events) : events[m].ev = "item"} = 1..n
        /\ {m \in 1..Len(events) : events[m].ev = "sum"} = {n + 1}
        /\ {m \in 1..Len(events) : events[m].ev = "head"} = {}
        /\ {m \in 1..Len(events) : events[m].ev = "tail"} = {}
    <2>1. \A m \in 1..Len(events) : m \in 1..n \/ m = n + 1
      BY <1>2, <1>6
    <2>2. \A m \in 1..n : events[m].ev = "item" /\ m \in 1..Len(events)
      BY <1>2, <1>3, <1>6
    <2>3. events[n + 1].ev = "sum" /\ n + 1 \in 1..Len(events)
      BY <1>2, <1>5, <1>6, <1>7
    <2> QED
      BY <2>1, <2>2, <2>3
  <1>9. \A name : Printed(name)' = Printed(name) \cup {Len(page) + k : k \in {m \in 1..Len(events) : events[m].ev = name}}
    BY <1>1, <1>6, PrintedAfter DEF Lists
  <1>10. /\ Printed("item")' = {Len(page) + k : k \in 1..n} /\ Printed("sum")' = {Len(page) + (n + 1)}
         /\ Printed("head")' = Printed("head") /\ Printed("tail")' = Printed("tail")
    <2>0. Printed("item") = {} /\ Printed("sum") = {}
      BY <1>1 DEF DiffIInv
    <2> DEFINE New(name) == {m \in 1..Len(events) : events[m].ev = name}
    <2>1. New("item") = 1..n /\ New("sum") = {n + 1} /\ New("head") = {} /\ New("tail") = {}
      BY <1>8
    <2>2. \A name : Printed(name)' = Printed(name) \cup {Len(page) + k : k \in New(name)}
      BY <1>9
    <2> HIDE DEF New
    <2>3. Printed("item")' = {Len(page) + k : k \in 1..n}
      BY <2>0, <2>1, <2>2
    <2>4. Printed("sum")' = {Len(page) + (n + 1)}
      BY <2>0, <2>1, <2>2
    <2>5. Printed("head")' = Printed("head")
      BY <2>1, <2>2
    <2>6. Printed("tail")' = Printed("tail")
      BY <2>1, <2>2
    <2> QED
      BY <2>3, <2>4, <2>5, <2>6
  <1>11. \A k \in 1..Len(events) : page'[Len(page) + k] = events[k]
    BY <1>1, <1>6, EmitGrows DEF Lists
  <1>12. /\ page'[Len(page) + (n + 1)] = sum
         /\ \A k \in 1..n : page'[Len(page) + k].dt = LinkType
    <2>1. n + 1 \in 1..Len(events) /\ \A k \in 1..n : k \in 1..Len(events)
      BY <1>2, <1>6
    <2>2. \A k \in 1..n : page'[Len(page) + k] = its[k]
      BY <1>6, <1>11, <2>1
    <2>3. page'[Len(page) + (n + 1)] = sum
      BY <1>7, <1>11, <2>1
    <2> QED
      BY <1>3, <2>2, <2>3
  <1>13. Cardinality(Printed("item")') = n
    <2>1. Printed("item")' = (Len(page) + 1)..(Len(page) + n)
      <3>1. \A k \in (Len(page) + 1)..(Len(page) + n) : k - Len(page) \in 1..n /\ k = Len(page) + (k - Len(page))
        BY <1>2
      <3>2. \A k \in 1..n : Len(page) + k \in (Len(page) + 1)..(Len(page) + n)
        BY <1>2
      <3> QED
        BY <1>10, <3>1, <3>2
    <2>2. Len(page) + 1 \in Int /\ Len(page) + n \in Int
      BY <1>2
    <2>3. Cardinality((Len(page) + 1)..(Len(page) + n))
            = IF Len(page) + 1 > Len(page) + n THEN 0 ELSE (Len(page) + n) - (Len(page) + 1) + 1
      BY <2>2, FS_Interval
    <2> QED
      BY <1>2, <2>1, <2>3
  <1>14. Passed = Shown
    BY <1>1, <1>2 DEF Passed, Shown
  <1>15. Summed /\ Cardinality(Shown) = n /\ Scale(Shown, max) /\ adds = Total(Shown, {"+"}) /\ rems = Total(Shown, {"-"})
    BY <1>1, <1>14 DEF DiffIInv, Summed, n
  <1>16. SumsShown'
    <2>1. \A m \in Printed("sum")' : page'[m] = sum
      BY <1>10, <1>12
    <2>2. \A m \in Printed("sum")' :
            /\ page'[m].files = Cardinality(Shown)' /\ Cardinality(Printed("item"))' = page'[m].files
            /\ page'[m].adds = Total(Shown, {"+"})' /\ page'[m].rems = Total(Shown, {"-"})'
            /\ page'[m].max = max
      BY <1>0, <1>5, <1>13, <1>15, <2>1, SameFiles
    <2>3. \A m \in Printed("sum")' : Scale(Shown, page[m].max)'
      BY <1>0, <1>15, <2>2, SameFiles DEF Scale
    <2> QED
      BY <2>2, <2>3 DEF SumsShown
  <1>17. StatNotCarried'
    <2>1. LinkType # "statonly"
      BY <1>1 DEF LinkType, DiffIInv
    <2> QED
      BY <1>10, <1>12, <2>1 DEF StatNotCarried
  <1>18. DiffInv'
    BY <1>0, <1>1, <1>10, <1>16, <1>17 DEF DiffIInv, DiffInv, SumsRight, DiffFramed, FilesStay
  <1>19. DiffTypeOK'
    BY <1>0, <1>1, <1>2 DEF DiffIInv, DiffTypeOK, FilesStay
  <1> QED
    BY <1>0, <1>1, <1>10, <1>16, <1>18, <1>19 DEF DiffIInv, FilesStay

\* A file, a line of it, or its end.
LEMMA BodyStep ==
  ASSUME DiffIInv, Lists, FilepairCb \/ DiffLine \/ EndFilepair
  PROVE  DiffIInv'
  <1>0. FilesStay
    BY FilesStayThere DEF Printing
  <1>1. /\ at \in {"pair", "line"} /\ at' \in {"pair", "line"} /\ dt' = dt /\ mode' = mode
        /\ UNCHANGED <<items, slots, max, adds, rems>>
        /\ pair \in 1..Len(queue) /\ pair' \in {pair, pair + 1} /\ (at' = "line" => pair' = pair)
    BY DEF FilepairCb, DiffLine, EndFilepair, DiffIInv, DiffTypeOK, IsQueue, IsList, stat
  <1>2. \A name : name \notin BodyEvents => Stays(name)
    BY BodyPrints, OthersStay DEF Lists
  <1>3. Stays("head") /\ Stays("tail") /\ Stays("item") /\ Stays("sum")
    BY <1>2 DEF BodyEvents
  <1>4. SumsShown' /\ StatNotCarried'
    BY <1>0, <1>1, <1>3, SumsStay, LinksStay DEF DiffIInv, DiffInv
  <1>5. DiffInv'
    BY <1>1, <1>4 DEF DiffInv, SumsRight, DiffFramed
  <1>6. DiffTypeOK' /\ pair' \in 1..(Len(queue') + 1) /\ (at' = "line" => pair' <= Len(queue'))
    <2>1. Len(queue) \in Nat
      BY DEF DiffIInv, IsQueue, IsList
    <2> QED
      BY <1>0, <1>1, <2>1 DEF DiffIInv, DiffTypeOK, FilesStay
  <1>7. Printed("head")' = Printed("head") /\ Printed("tail")' = Printed("tail")
    BY <1>3 DEF Stays
  <1> QED
    BY <1>0, <1>1, <1>4, <1>5, <1>6, <1>7 DEF DiffIInv, FilesStay

LEMMA EndStep ==
  ASSUME DiffIInv, Lists, EndDiff
  PROVE  DiffIInv'
  <1>0. FilesStay
    BY FilesStayThere DEF Printing
  <1>1. at = "pair" /\ at' = "done" /\ Emit(EndOf) /\ UNCHANGED <<dt, mode, pair, line, items, slots, max, adds, rems>>
    BY DEF EndDiff, stat
  <1>2. IsList(page) /\ Len(page) \in Nat
    BY DEF Lists, IsList
  <1>3. /\ \A name : name # "tail" => Stays(name)
        /\ Printed("tail")' = IF ctrls THEN {Len(page')} ELSE {}
    <2>0. Printed("tail") = {}
      BY <1>1 DEF DiffIInv
    <2>1. CASE ctrls
      <3> DEFINE events == <<[ev |-> "tail"]>>
      <3>1. Emit(events) /\ IsList(events) /\ Len(events) = 1 /\ events[1].ev = "tail"
        BY <1>1, <2>1, OneIsList DEF EndOf, Event
      <3> HIDE DEF events
      <3>2. Prints({"tail"})
        BY <3>1 DEF Prints
      <3>3. Printed("tail")' = Printed("tail") \cup {Len(page) + k : k \in {m \in 1..Len(events) : events[m].ev = "tail"}}
        BY <1>2, <3>1, PrintedAfter
      <3>4. {m \in 1..Len(events) : events[m].ev = "tail"} = {1}
        BY <3>1
      <3>5. Len(page') = Len(page) + 1
        BY <1>2, <3>1, EmitGrows
      <3> QED
        BY <1>2, <2>0, <2>1, <3>2, <3>3, <3>4, <3>5, OthersStay
    <2>2. CASE ~ctrls
      <3> DEFINE events == <<>>
      <3>1. Emit(events) /\ IsList(events) /\ Len(events) = 0
        BY <1>1, <2>2, EventIsList DEF EndOf
      <3> HIDE DEF events
      <3>2. Prints({})
        BY <3>1 DEF Prints
      <3>3. \A name : Stays(name)
        BY <1>2, <3>2, OthersStay
      <3> QED
        BY <2>0, <2>2, <3>3 DEF Stays
    <2> QED
      BY <2>1, <2>2
  <1>4. SumsShown' /\ StatNotCarried'
    BY <1>0, <1>1, <1>3, SumsStay, LinksStay DEF DiffIInv, DiffInv
  <1>5. Printed("head")' = (IF ctrls THEN {1} ELSE {}) /\ rev /\ mode # "statonly"
    BY <1>1, <1>3 DEF DiffIInv, Stays
  <1>6. DiffInv'
    BY <1>0, <1>1, <1>3, <1>4, <1>5 DEF DiffInv, SumsRight, DiffFramed, FilesStay
  <1>7. DiffTypeOK'
    BY <1>0, <1>1 DEF DiffIInv, DiffTypeOK, FilesStay
  <1> QED
    BY <1>0, <1>1, <1>4, <1>6, <1>7 DEF DiffIInv, FilesStay

-----------------------------------------------------------------------------
(* What stands around the lines of a diff, in every step *)

LEMMA DiffStays ==
  ASSUME DiffIInv, diffVars' = diffVars
  PROVE  DiffIInv'
  <1>1. /\ FilesStay /\ dt' = dt /\ mode' = mode /\ at' = at /\ pair' = pair /\ page' = page
        /\ items' = items /\ slots' = slots /\ max' = max /\ adds' = adds /\ rems' = rems
    BY DEF diffVars, asked, stat, FilesStay
  <1>2. \A name : Stays(name)
    BY <1>1 DEF Stays, Printed
  <1>3. Shown' = Shown /\ Passed' = Passed
    BY <1>1, SameFiles DEF Passed
  <1>4. Summed => Summed'
    <2>1. \A kinds : Total(Passed, kinds)' = Total(Passed, kinds)
      BY <1>1, <1>3, SameFiles DEF Total
    <2> QED
      BY <1>1, <1>3, <2>1, SameFiles DEF Summed, Scale
  <1>5. SumsShown => SumsShown'
    BY <1>1, <1>2, SumsStay
  <1>6. DiffInv'
    BY <1>1, <1>2, <1>5, LinksStay DEF DiffIInv, DiffInv, SumsRight, DiffFramed, FilesStay, Stays
  <1>7. DiffTypeOK'
    BY <1>1 DEF DiffIInv, DiffTypeOK, FilesStay
  <1>8. Fresh => Fresh'
    BY <1>1 DEF Fresh
  <1>9. \A name : Printed(name)' = Printed(name)
    BY <1>2 DEF Stays
  <1> QED
    BY <1>1, <1>4, <1>5, <1>6, <1>7, <1>8, <1>9 DEF DiffIInv, FilesStay

\* What git finds in a commit of the log is a queue of pairs.
LEMMA PairsQueue ==
  ASSUME NEW k, NEW path
  PROVE  IsQueue(PairsOf(k, path))
  <1> DEFINE Pair(e) == /\ Len(e.hunks) \in Nat /\ \A j \in 1..Len(e.hunks) : Len(e.hunks[j].lines) \in Nat
                        /\ e.sub # "none" => Len(e.hunks) = 0
  <1>1. \A old, new : Pair(Edited(old, new))
    BY DEF Edited
  <1>2. Pair(Beside)
    BY DEF Beside, Edited
  <1> HIDE DEF Pair
  <1>3. \A e : Pair(e) => IsQueue(<<e>>)
    BY DEF IsQueue, IsList, Pair
  <1>4. \A e, f : Pair(e) /\ Pair(f) => IsQueue(<<e, f>>)
    BY DEF IsQueue, IsList, Pair
  <1> QED
    BY <1>1, <1>2, <1>3, <1>4 DEF PairsOf

LEMMA ClickDiff ==
  ASSUME ClickInv, DiffIInv, ClickRow
  PROVE  DiffIInv'
  <1>1. /\ at = "away" /\ Fresh /\ at' = "begin" /\ cfgdt' \in {"unified", "ssdiff"}
        /\ UNCHANGED <<rev, raw, dt, ctrls, mode, pair, line, items, slots, max, adds, rems, page>>
    BY DEF ClickInv, DiffIInv, ClickRow, stat
  <1>2. IsQueue(queue') /\ IsList(prefix')
    <2>1. PICK k \in 1..Len(rows) : queue' = PairsOf(rows[k].id, rows[k].path) /\ prefix' = PathOf(rows[k].path)
      BY DEF ClickRow
    <2>2. \A n : IsList(PathOf(n))
      BY OneIsList, EventIsList DEF PathOf
    <2> QED
      BY <2>1, <2>2, PairsQueue
  <1>3. DiffTypeOK'
    <2>1. Len(queue') \in Nat /\ pair' = 1
      BY <1>1, <1>2 DEF IsQueue, IsList, Fresh
    <2> QED
      BY <1>1, <2>1 DEF DiffIInv, DiffTypeOK
  <1>4. Fresh' /\ Printed("item")' = {}
    BY <1>1 DEF Fresh, Printed
  <1>5. DiffInv'
    BY <1>1, <1>4 DEF DiffInv, SumsRight, DiffFramed, StatNotCarried
  <1> QED
    BY <1>1, <1>2, <1>3, <1>4, <1>5 DEF DiffIInv

LEMMA InitDiff ==
  ASSUME Init
  PROVE  DiffIInv
  <1>1. IsQueue(queue) /\ IsList(prefix)
    <2>1. IsList(<<>>) /\ IsQueue(<<>>)
      BY EventIsList DEF IsQueue
    <2>2. (\A q \in Queues : IsQueue(q)) /\ (\A l \in Limits : IsList(l))
      BY DiffAssumption
    <2> QED
      BY <2>1, <2>2 DEF Init, DiffInit, DiffAway
  <1>2. /\ Fresh /\ slots = 0 /\ at \in {"begin", "away"} /\ cfgdt \in {"unified", "ssdiff"} /\ dt \in Types \cup {"none"}
        /\ ~(ctrls /\ raw) /\ (ctrls \/ raw \/ rev)
    BY DEF Init, DiffInit, DiffAway, Fresh
  <1>3. DiffTypeOK
    <2>1. Len(queue) \in Nat /\ Len(items) = 0
      BY <1>1, <1>2 DEF IsQueue, IsList, Fresh
    <2> QED
      BY <1>2, <2>1 DEF DiffTypeOK, Fresh
  <1>4. DiffInv
    <2>1. Printed("item") = {}
      BY <1>2 DEF Fresh, Printed
    <2> QED
      BY <1>2, <2>1 DEF DiffInv, SumsRight, DiffFramed, StatNotCarried
  <1> QED
    BY <1>1, <1>2, <1>3, <1>4 DEF DiffIInv

LEMMA DiffIInvHolds == Spec => []DiffIInv
  <1>1. ASSUME ClickInv, DiffIInv, [Next]_historyVars PROVE DiffIInv'
    <2>0. Lists
      BY <1>1 DEF ClickInv, Lists
    <2>1. CASE ServeLog \/ ReadLog \/ ServeStats \/ ReadPage \/ UNCHANGED historyVars
      <3>1. diffVars' = diffVars
        BY <2>1 DEF ServeLog, ReadLog, ServeStats, ReadPage, historyVars
      <3> QED
        BY <1>1, <3>1, DiffStays
    <2>2. CASE ClickRow
      BY <1>1, <2>2, ClickDiff
    <2>3. CASE ServeDiff
      <3>1. Printing
        BY <2>3 DEF ServeDiff
      <3> QED
        BY <1>1, <2>0, <3>1, BeginStep, InspectStep, DiffstatStep, BodyStep, EndStep DEF Printing, Lists
    <2> QED
      BY <1>1, <2>1, <2>2, <2>3 DEF Next
  <1>2. ClickInv /\ DiffIInv /\ [Next]_historyVars => DiffIInv'
    BY <1>1
  <1>3. Init => DiffIInv
    BY InitDiff
  <1> QED
    BY <1>2, <1>3, ClickInvHolds, PTL DEF Spec

\* The sums of a diffstat are those of the files below it, a page begins and ends
\* once, and the links of a diffstat are to diffs (ui-diff.c:153-218, 474-502).
THEOREM DiffstatIsRight == Spec => []DiffInv
  <1>1. DiffIInv => DiffInv
    BY DEF DiffIInv
  <1> QED
    BY <1>1, DiffIInvHolds, PTL

\* The array of a diffstat has room for its items, however often it has grown
\* (ui-diff.c:167-173).
THEOREM DiffTypeCorrect == Spec => []DiffTypeOK
  <1>1. DiffIInv => DiffTypeOK
    BY DEF DiffIInv
  <1> QED
    BY <1>1, DiffIInvHolds, PTL
=============================================================================
