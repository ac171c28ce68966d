----------------------------- MODULE IndexProofs -----------------------------
(***************************************************************************)
(* Theorems about the list of repositories, for every configuration, every *)
(* request and any number of pushes between the pages.                     *)
(***************************************************************************)
EXTENDS Index, SequenceTheorems, FiniteSetTheorems, TLAPS

-----------------------------------------------------------------------------
(* The comparisons *)

\* A text stands in the order where strcmp() puts it, one that is missing behind
\* them all.
Rank(text) == IF text = None THEN Len(Alphabet) + 1 ELSE Place(text)

LEMMA Placed ==
  ASSUME NEW text \in ToSet(Alphabet)
  PROVE  PlaceOf[text] \in 1..Len(Alphabet) /\ Alphabet[PlaceOf[text]] = text
  <1>1. \E n \in 1..Len(Alphabet) : Alphabet[n] = text
    BY IndexAssumption DEF ToSet
  <1> QED
    BY <1>1 DEF PlaceOf

LEMMA EmptyInLower == InLower(<<>>) = <<>>
  <1>1. DOMAIN InLower(<<>>) = {} /\ InLower(<<>>) = [n \in {} |-> InLower(<<>>)[n]]
    BY DEF InLower
  <1> QED
    BY <1>1

LEMMA Ranked ==
  ASSUME NEW text, IsKey(text)
  PROVE  /\ Rank(text) \in 1..(Len(Alphabet) + 1)
         /\ Rank(text) = Len(Alphabet) + 1 <=> text = None
         /\ text = <<>> /\ text # None => Rank(text) = 1
  <1>1. Len(Alphabet) \in Nat
    BY IndexAssumption
  <1>2. CASE text = None
    BY <1>1, <1>2 DEF Rank
  <1>3. CASE text # None
    <2>1. text \in ToSet(Alphabet) /\ InLower(text) \in ToSet(Alphabet)
      BY <1>3 DEF IsKey
    <2>2. Place(text) \in 1..Len(Alphabet)
      BY <2>1, Placed DEF Place, PlaceInLower
    <2>3. ASSUME text = <<>> PROVE Place(text) = 1
      <3>1. Alphabet[1] = <<>>
        BY <2>1, <2>3, IndexAssumption
      <3>2. PlaceOf[text] = 1
        <4>1. PlaceOf[text] \in 1..Len(Alphabet) /\ Alphabet[PlaceOf[text]] = Alphabet[1]
          BY <2>1, <2>3, <3>1, Placed
        <4>2. 1 \in 1..Len(Alphabet)
          BY <1>1, <4>1
        <4> QED
          BY <4>1, <4>2, IndexAssumption
      <3>3. InLower(text) = text
        BY <2>3, EmptyInLower
      <3> QED
        BY <2>1, <3>2, <3>3 DEF Place, PlaceInLower
    <2> QED
      BY <1>1, <1>3, <2>2, <2>3 DEF Rank
  <1> QED
    BY <1>2, <1>3

LEMMA Compared ==
  ASSUME NEW s, NEW t, IsKey(s), IsKey(t)
  PROVE  /\ Cmp(s, t) \in Int
         /\ Cmp(s, t) < 0 <=> Rank(s) < Rank(t)
         /\ Cmp(s, t) = 0 <=> Rank(s) = Rank(t)
  <1>1. /\ Rank(s) \in 1..(Len(Alphabet) + 1) /\ Rank(t) \in 1..(Len(Alphabet) + 1)
        /\ Rank(s) = Len(Alphabet) + 1 <=> s = None
        /\ Rank(t) = Len(Alphabet) + 1 <=> t = None
    BY Ranked
  <1>2. Len(Alphabet) \in Nat
    BY IndexAssumption
  <1>3. CASE s # None /\ t # None
    BY <1>1, <1>3 DEF Cmp, Rank
  <1>4. CASE s = None \/ t = None
    BY <1>1, <1>2, <1>4 DEF Cmp
  <1> QED
    BY <1>3, <1>4

LEMMA DifferenceIsInt ==
  ASSUME NEW d \in Int, -IntMax <= d, d <= IntMax
  PROVE  AsInt(d) = d
  <1>1. IntMax \in Nat
    BY IndexAssumption
  <1> DEFINE w == 2 * (IntMax + 1)
             y == d + IntMax + 1
  <1>2. w \in Nat \ {0} /\ y \in 0..(w - 1)
    BY <1>1
  <1>3. y % w = y
    BY <1>2
  <1> QED
    BY <1>1, <1>3 DEF AsInt

LEMMA UpToN ==
  ASSUME NEW n \in Nat
  PROVE  IsFiniteSet(1..n) /\ Cardinality(1..n) = n
  <1>1. 1 \in Int /\ n \in Int
    OBVIOUS
  <1>2. IsFiniteSet(1..n) /\ Cardinality(1..n) = IF 1 > n THEN 0 ELSE n - 1 + 1
    BY <1>1, FS_Interval
  <1> QED
    BY <1>2

Site == IsSite([disk |-> disk, repos |-> repos, cfg |-> cfg])

LEMMA SiteFacts ==
  ASSUME Site
  PROVE  /\ Len(repos) \in Nat /\ IsFiniteSet(Ids) /\ Cardinality(Ids) = Len(repos)
         /\ \A k \in Ids : IsKey(repos[k].section) /\ IsKey(repos[k].name) /\ IsKey(repos[k].desc) /\ IsKey(repos[k].owner)
         /\ cfg.maxCount \in 1..IntMax /\ IntMax \in Nat
         /\ \A o \in 0..(Len(repos) - 1) : o % cfg.maxCount = 0 => o + cfg.maxCount <= IntMax
         /\ disk \in [Ids -> [age : Nat, head : Nat, packed : Nat]]
         /\ \A k \in Ids : OnDisk(k) \in Nat
  <1>1. /\ Len(repos) \in Nat /\ disk \in [1..Len(repos) -> [age : Nat, head : Nat, packed : Nat]]
        /\ \A k \in 1..Len(repos) : LET r == repos[k] IN \A text \in {r.section, r.name, r.desc, r.owner} : IsKey(text)
        /\ cfg.maxCount \in 1..IntMax
        /\ \A o \in 0..(Len(repos) - 1) : o % cfg.maxCount = 0 => o + cfg.maxCount <= IntMax
    <2> DEFINE s == [disk |-> disk, repos |-> repos, cfg |-> cfg]
    <2>1. s.disk = disk /\ s.repos = repos /\ s.cfg = cfg
      OBVIOUS
    <2>2. IsSite(s)
      BY DEF Site
    <2> HIDE DEF s
    <2>3. /\ Len(s.repos) \in Nat /\ s.disk \in [1..Len(s.repos) -> [age : Nat, head : Nat, packed : Nat]]
          /\ \A k \in 1..Len(s.repos) :
               LET r == s.repos[k] IN \A text \in {r.section, r.name, r.desc, r.owner} : IsKey(text)
          /\ s.cfg.maxCount \in 1..IntMax
          /\ \A o \in 0..(Len(s.repos) - 1) : o % s.cfg.maxCount = 0 => o + s.cfg.maxCount <= IntMax
      BY <2>2, Zenon DEF IsSite
    <2> QED
      BY <2>1, <2>3
  <1>2. IsFiniteSet(Ids) /\ Cardinality(Ids) = Len(repos)
    BY <1>1, UpToN DEF Ids
  <1>3. \A k \in Ids : OnDisk(k) \in Nat
    BY <1>1 DEF OnDisk, Ids
  <1>4. ASSUME NEW k \in Ids
        PROVE  IsKey(repos[k].section) /\ IsKey(repos[k].name) /\ IsKey(repos[k].desc) /\ IsKey(repos[k].owner)
    BY <1>1, <1>4, Zenon DEF Ids
  <1> QED
    BY <1>1, <1>2, <1>3, <1>4, IndexAssumption DEF Ids

-----------------------------------------------------------------------------
(* The order *)

IntTimesOf(time) == \A j, k \in Timed : time[j] - time[k] <= IntMax

\* What sort_section() goes by: the section, the age in it, the name.
Age(time, j) == IF cfg.byAge THEN time[j] ELSE 0
Less(time, j, k) ==
  \/ Rank(repos[j].section) < Rank(repos[k].section)
  \/ /\ Rank(repos[j].section) = Rank(repos[k].section)
     /\ \/ Age(time, j) > Age(time, k)
        \/ Age(time, j) = Age(time, k) /\ Rank(repos[j].name) < Rank(repos[k].name)

LEMMA IdleDifference ==
  ASSUME Site, NEW time \in [Ids -> Int], IntTimesOf(time), NEW j \in Timed, NEW k \in Timed
  PROVE  SortIdle(time, j, k) = time[k] - time[j]
  <1>1. Timed \subseteq Ids /\ IntMax \in Nat
    BY IndexAssumption DEF Timed
  <1>2. time[j] \in Int /\ time[k] \in Int
    BY <1>1
  <1>3. time[j] - time[k] <= IntMax /\ time[k] - time[j] <= IntMax
    BY DEF IntTimesOf
  <1> QED
    BY <1>1, <1>2, <1>3, DifferenceIsInt DEF SortIdle

LEMMA SortsSections ==
  ASSUME Site, NEW time \in [Ids -> Int], Column = "section", IntTimesOf(time),
         NEW j \in Ids, NEW k \in Ids, j # k
  PROVE  /\ SortSection(time, j, k) \in Int
         /\ SortSection(time, j, k) < 0 <=> Less(time, j, k)
         /\ SortSection(time, j, k) > 0 <=> Less(time, k, j)
  <1> DEFINE bySection == Cmp(repos[j].section, repos[k].section)
             byName    == Cmp(repos[j].name, repos[k].name)
  <1>1. /\ bySection \in Int /\ byName \in Int
        /\ bySection < 0 <=> Rank(repos[j].section) < Rank(repos[k].section)
        /\ bySection = 0 <=> Rank(repos[j].section) = Rank(repos[k].section)
        /\ byName < 0 <=> Rank(repos[j].name) < Rank(repos[k].name)
        /\ byName = 0 <=> Rank(repos[j].name) = Rank(repos[k].name)
    BY SiteFacts, Compared
  <1>2. /\ Rank(repos[j].section) \in Int /\ Rank(repos[k].section) \in Int
        /\ Rank(repos[j].name) \in Int /\ Rank(repos[k].name) \in Int
    BY SiteFacts, Ranked, IndexAssumption
  <1>3. time[j] \in Int /\ time[k] \in Int
    OBVIOUS
  <1>4. CASE bySection = 0 /\ cfg.byAge
    <2>1. j \in Timed /\ k \in Timed
      BY <1>1, <1>4, SiteFacts, Compared DEF Timed, SameSection
    <2>2. SortIdle(time, j, k) = time[k] - time[j]
      BY <2>1, IdleDifference
    <2>3. SortSection(time, j, k) = IF time[k] - time[j] = 0 THEN byName ELSE time[k] - time[j]
      BY <1>4, <2>2 DEF SortSection
    <2>4. Age(time, j) = time[j] /\ Age(time, k) = time[k]
      BY <1>4 DEF Age
    <2> HIDE DEF bySection, byName
    <2> QED
      BY <1>1, <1>2, <1>3, <1>4, <2>3, <2>4 DEF Less
  <1>5. CASE ~(bySection = 0 /\ cfg.byAge)
    <2>1. SortSection(time, j, k) = IF bySection = 0 THEN byName ELSE bySection
      BY <1>5 DEF SortSection
    <2>2. bySection = 0 => Age(time, j) = 0 /\ Age(time, k) = 0
      BY <1>5 DEF Age
    <2> HIDE DEF bySection, byName
    <2> QED
      BY <1>1, <1>2, <1>3, <2>1, <2>2 DEF Less
  <1> QED
    BY <1>4, <1>5

\* A comparison by a rank does not contradict itself.
LEMMA SectionsConsistent ==
  ASSUME Site, NEW time \in [Ids -> Int], Column = "section", IntTimesOf(time)
  PROVE  Consistent("section", time)
  <1>1. \A j \in Ids : Rank(repos[j].section) \in Int /\ Rank(repos[j].name) \in Int /\ Age(time, j) \in Int
    BY SiteFacts, Ranked, IndexAssumption DEF Age
  <1>2. \A j, k \in Ids : ~(Less(time, j, k) /\ Less(time, k, j))
    BY <1>1 DEF Less
  <1>3. \A j, k, l \in Ids : ~Less(time, k, j) /\ ~Less(time, l, k) => ~Less(time, l, j)
    BY <1>1 DEF Less
  <1>4. ASSUME NEW j \in Ids, NEW k \in Ids, j # k
        PROVE  /\ SortBy("section", time, j, k) \in Int
               /\ SortBy("section", time, j, k) < 0 <=> Less(time, j, k)
               /\ SortBy("section", time, j, k) > 0 <=> Less(time, k, j)
    BY <1>4, SortsSections DEF SortBy
  <1>5. \A j, k \in Ids : j # k => (SortBy("section", time, j, k) <= 0 <=> ~Less(time, k, j))
    BY <1>4
  <1> QED
    BY <1>3, <1>4, <1>5 DEF Consistent

LEMMA IdleConsistent ==
  ASSUME Site, NEW time \in [Ids -> Int], Column = "idle", IntTimesOf(time)
  PROVE  /\ Consistent("idle", time)
         /\ \A j, k \in Ids : j # k => SortBy("idle", time, j, k) = time[k] - time[j]
  <1>1. ASSUME NEW j \in Ids, NEW k \in Ids, j # k
        PROVE  SortBy("idle", time, j, k) = time[k] - time[j]
    <2>1. j \in Timed /\ k \in Timed
      BY <1>1 DEF Timed
    <2> QED
      BY <2>1, IdleDifference DEF SortBy
  <1>2. \A j \in Ids : time[j] \in Int
    OBVIOUS
  <1> QED
    BY <1>1, <1>2 DEF Consistent

\* What qsort() makes of the list: each repository once, in its place.
LEMMA Placement ==
  ASSUME Site, NEW seq \in SetToSeqs(Ids)
  PROVE  /\ seq \in [Ids -> Ids] /\ seq \in Seq(Ids) /\ Len(seq) = Len(repos)
         /\ \A j, k \in Ids : j # k => seq[j] # seq[k]
         /\ \A x \in Ids : \E k \in Ids : seq[k] = x
  <1> DEFINE c == Cardinality(Ids)
  <1>1. IsFiniteSet(Ids) /\ c = Len(repos) /\ c \in Nat /\ Ids = 1..c
    BY SiteFacts DEF Ids
  <1>2. seq \in [1..c -> Ids] /\ \A j, k \in 1..c : j # k => seq[j] # seq[k]
    BY DEF SetToSeqs
  <1>3. seq \in Injection(Ids, Ids)
    BY <1>1, <1>2 DEF Injection, IsInjective
  <1>4. seq \in Surjection(Ids, Ids)
    BY <1>1, <1>3, FS_Injection
  <1>5. \A x \in Ids : \E k \in Ids : seq[k] = x
    BY <1>4 DEF Surjection
  <1> HIDE DEF c
  <1>6. Len(seq) = c /\ seq \in Seq(Ids)
    BY <1>1, <1>2
  <1> QED
    BY <1>1, <1>2, <1>5, <1>6

LEMMA OrdersAreLists ==
  ASSUME NEW column, NEW time, NEW seq \in Orders(column, time)
  PROVE  seq \in SetToSeqs(Ids)
  BY DEF Orders

LEMMA OrderInPlace ==
  ASSUME Site, mtime \in [Ids -> Int], IntTimes, NEW seq \in Orders(Column, mtime),
         NEW m \in Ids, NEW n \in Ids, m < n
  PROVE  InPlace(seq[m], seq[n])
  <1>1. IntTimesOf(mtime)
    BY DEF IntTimes, IntTimesOf
  <1>2. seq[m] \in Ids /\ seq[n] \in Ids /\ seq[m] # seq[n]
    <2>1. seq \in SetToSeqs(Ids)
      BY OrdersAreLists
    <2>2. seq \in [Ids -> Ids] /\ \A j, k \in Ids : j # k => seq[j] # seq[k]
      BY <2>1, Placement
    <2>3. m # n
      BY SiteFacts DEF Ids
    <2> QED
      BY <2>2, <2>3
  <1>3. CASE Column = "section"
    <2>1. SortBy("section", mtime, seq[m], seq[n]) <= 0
      BY <1>1, <1>3, SectionsConsistent DEF Orders
    <2>2. ~Less(mtime, seq[n], seq[m])
      BY <1>1, <1>2, <1>3, <2>1, SortsSections DEF SortBy
    <2>3. /\ Rank(repos[seq[m]].section) \in Int /\ Rank(repos[seq[n]].section) \in Int
          /\ mtime[seq[m]] \in Int /\ mtime[seq[n]] \in Int
      <3>1. IsKey(repos[seq[m]].section) /\ IsKey(repos[seq[n]].section) /\ Len(Alphabet) \in Nat
        BY <1>2, SiteFacts, IndexAssumption
      <3> QED
        BY <1>2, <3>1, Ranked
    <2>4. /\ Cmp(repos[seq[m]].section, repos[seq[n]].section) \in Int
          /\ Cmp(repos[seq[m]].section, repos[seq[n]].section) < 0 <=> Rank(repos[seq[m]].section) < Rank(repos[seq[n]].section)
          /\ Cmp(repos[seq[m]].section, repos[seq[n]].section) = 0 <=> Rank(repos[seq[m]].section) = Rank(repos[seq[n]].section)
      BY <1>2, SiteFacts, Compared
    <2>5. Cmp(repos[seq[m]].section, repos[seq[n]].section) <= 0
      BY <2>2, <2>3, <2>4 DEF Less
    <2>6. cfg.byAge /\ SameSection(seq[m], seq[n]) => mtime[seq[n]] <= mtime[seq[m]]
      BY <2>2, <2>3, <2>4 DEF Less, SameSection, Age
    <2> QED
      BY <1>3, <2>5, <2>6 DEF InPlace
  <1>4. CASE Column = "idle"
    <2>1. SortBy("idle", mtime, seq[m], seq[n]) <= 0
      BY <1>1, <1>4, IdleConsistent DEF Orders
    <2>2. mtime[seq[n]] - mtime[seq[m]] <= 0 /\ mtime[seq[m]] \in Int /\ mtime[seq[n]] \in Int
      BY <1>1, <1>2, <1>4, <2>1, IdleConsistent
    <2> QED
      BY <1>4, <2>2 DEF InPlace
  <1>5. CASE Column # "section" /\ Column # "idle"
    BY <1>5 DEF InPlace
  <1> QED
    BY <1>3, <1>4, <1>5

-----------------------------------------------------------------------------
(* What stands above a row *)

UpTo(W, n) == {k \in W : n < k}

LEMMA LastOf ==
  ASSUME NEW t \in Nat, NEW W \in SUBSET (1..t), W # {}
  PROVE  \E m \in W : \A k \in W : k <= m
  <1> DEFINE R    == StrictSubsetOrdering(1..t)
             tops == {UpTo(W, k) : k \in W}
  <1>0. \A k \in W : k \in Int
    OBVIOUS
  <1>1. IsWellFoundedOn(R, FiniteSubsetsOf(1..t)) /\ IsFiniteSet(1..t)
    BY FS_StrictSubsetOrderingWellFounded, UpToN
  <1>2. tops \subseteq FiniteSubsetsOf(1..t) /\ tops # {}
    <2>1. ASSUME NEW k \in W PROVE UpTo(W, k) \in FiniteSubsetsOf(1..t)
      <3>1. UpTo(W, k) \subseteq 1..t
        BY DEF UpTo
      <3>2. IsFiniteSet(UpTo(W, k))
        BY <1>1, <3>1, FS_Subset
      <3> QED
        BY <3>1, <3>2 DEF FiniteSubsetsOf
    <2> QED
      BY <2>1
  <1> HIDE DEF R
  <1>3. \E x \in tops : \A y \in tops : ~(<<y, x>> \in R)
    BY <1>1, <1>2, WFMin
  <1>4. PICK m \in W : \A y \in tops : ~(<<y, UpTo(W, m)>> \in R)
    BY <1>3
  <1>5. ASSUME NEW k \in W, m < k PROVE FALSE
    <2>1. k \in UpTo(W, m) /\ k \notin UpTo(W, k)
      BY <1>0, <1>5 DEF UpTo
    <2>2. \A j \in UpTo(W, k) : j \in UpTo(W, m)
      BY <1>0, <1>5 DEF UpTo
    <2>3. <<UpTo(W, k), UpTo(W, m)>> \in R
      BY <2>1, <2>2 DEF R, StrictSubsetOrdering, UpTo
    <2> QED
      BY <1>4, <2>3
  <1> QED
    BY <1>0, <1>5

LEMMA AboveIs ==
  ASSUME NEW rows, NEW n \in Nat
  PROVE  /\ (\A m \in 1..n : rows[m].kind # "section") => Above(rows, n) = None
         /\ \A o \in 1..n : rows[o].kind = "section" =>
              \E m \in 1..n : /\ rows[m].kind = "section" /\ o <= m /\ Above(rows, n) = rows[m].name
                              /\ \A k \in 1..n : rows[k].kind = "section" => k <= m
  <1> DEFINE over == {m \in 1..n : rows[m].kind = "section"}
             top  == CHOOSE m \in over : \A o \in over : o <= m
  <1>1. Above(rows, n) = IF over = {} THEN None ELSE rows[top].name
    BY DEF Above
  <1>2. over # {} => top \in over /\ \A o \in over : o <= top
    <2>1. over # {} => \E m \in over : \A o \in over : o <= m
      BY LastOf
    <2> QED
      BY <2>1
  <1> HIDE DEF top
  <1>3. ASSUME \A m \in 1..n : rows[m].kind # "section" PROVE Above(rows, n) = None
    BY <1>1, <1>3
  <1>4. ASSUME NEW o \in 1..n, rows[o].kind = "section"
        PROVE  /\ top \in 1..n /\ rows[top].kind = "section" /\ o <= top /\ Above(rows, n) = rows[top].name
               /\ \A k \in 1..n : rows[k].kind = "section" => k <= top
    BY <1>1, <1>2, <1>4
  <1> QED
    BY <1>3, <1>4

LEMMA AbovePrefix ==
  ASSUME NEW rows, NEW more, NEW n \in Nat, \A m \in 1..n : more[m] = rows[m]
  PROVE  Above(more, n) = Above(rows, n)
  <1>1. CASE \A m \in 1..n : rows[m].kind # "section"
    <2>1. \A m \in 1..n : more[m].kind # "section"
      BY <1>1
    <2> QED
      BY <1>1, <2>1, AboveIs
  <1>2. CASE \E m \in 1..n : rows[m].kind = "section"
    <2>1. PICK o \in 1..n : rows[o].kind = "section"
      BY <1>2
    <2>2. PICK p \in 1..n : /\ rows[p].kind = "section" /\ Above(rows, n) = rows[p].name
                            /\ \A k \in 1..n : rows[k].kind = "section" => k <= p
      BY <2>1, AboveIs
    <2>3. PICK q \in 1..n : /\ more[q].kind = "section" /\ Above(more, n) = more[q].name
                            /\ \A k \in 1..n : more[k].kind = "section" => k <= q
      <3>1. more[o].kind = "section"
        BY <2>1
      <3> QED
        BY <3>1, AboveIs
    <2>4. p = q
      <3>1. rows[q].kind = "section" /\ more[p].kind = "section"
        BY <2>2, <2>3
      <3>2. q <= p /\ p <= q
        BY <2>2, <2>3, <3>1
      <3> QED
        BY <3>2
    <2> QED
      BY <2>2, <2>3, <2>4
  <1> QED
    BY <1>1, <1>2

LEMMA AboveNext ==
  ASSUME NEW rows, NEW n \in Nat
  PROVE  Above(rows, n + 1) = IF rows[n + 1].kind = "section" THEN rows[n + 1].name ELSE Above(rows, n)
  <1>1. CASE rows[n + 1].kind = "section"
    <2>1. n + 1 \in 1..(n + 1)
      OBVIOUS
    <2>2. PICK m \in 1..(n + 1) : n + 1 <= m /\ Above(rows, n + 1) = rows[m].name
      BY <1>1, <2>1, AboveIs
    <2>3. m = n + 1
      BY <2>2
    <2> QED
      BY <1>1, <2>2, <2>3
  <1>2. CASE rows[n + 1].kind # "section" /\ \A m \in 1..n : rows[m].kind # "section"
    <2>1. \A m \in 1..(n + 1) : rows[m].kind # "section"
      BY <1>2
    <2>2. Above(rows, n + 1) = None /\ Above(rows, n) = None
      BY <1>2, <2>1, AboveIs
    <2> QED
      BY <1>2, <2>2
  <1>3. CASE rows[n + 1].kind # "section" /\ \E m \in 1..n : rows[m].kind = "section"
    <2>1. PICK o \in 1..n : rows[o].kind = "section"
      BY <1>3
    <2>2. PICK p \in 1..n : /\ rows[p].kind = "section" /\ Above(rows, n) = rows[p].name
                            /\ \A k \in 1..n : rows[k].kind = "section" => k <= p
      BY <2>1, AboveIs
    <2>3. PICK q \in 1..(n + 1) : /\ rows[q].kind = "section" /\ Above(rows, n + 1) = rows[q].name
                                  /\ \A k \in 1..(n + 1) : rows[k].kind = "section" => k <= q
      <3>1. o \in 1..(n + 1)
        BY <2>1
      <3> QED
        BY <2>1, <3>1, AboveIs
    <2>4. q # n + 1 /\ q \in 1..n /\ p \in 1..(n + 1)
      BY <1>3, <2>3
    <2>5. q <= p /\ p <= q
      BY <2>2, <2>3, <2>4
    <2>6. p = q
      BY <2>5
    <2> QED
      BY <1>3, <2>2, <2>3, <2>6
  <1> QED
    BY <1>1, <1>2, <1>3

-----------------------------------------------------------------------------
(* The order of the rows *)

PageRows ==
  [kind : {"section"}, name : ToSet(Alphabet) \cup {None}] \cup [kind : {"repo"}, id : Ids, idle : Int]
Typed ==
  /\ pc \in {"begin", "none", "sort", "rows", "read", "opened"} /\ sorted \in BOOLEAN
  /\ i \in 1..(Len(repos) + 1) /\ hits \in Nat /\ pushes \in 0..MaxPushes
  /\ mtime \in [Ids -> {-1} \cup Nat] /\ page \in Seq(PageRows)
Printing == pc \in {"rows", "read"}

LEMMA Rows ==
  ASSUME page \in Seq(PageRows)
  PROVE  /\ Len(page) \in Nat
         /\ \A n \in 1..Len(page) :
              /\ page[n].kind = "section" => page[n].name \in ToSet(Alphabet) \cup {None}
              /\ page[n].kind = "repo" => page[n].id \in Ids /\ page[n].idle \in Int
              /\ page[n].kind = "section" \/ page[n].kind = "repo"
              /\ ~(page[n].kind = "section" /\ page[n].kind = "repo")
  BY DEF PageRows

LEMMA NothingPrinted ==
  ASSUME Typed, ListInv, ~Printing
  PROVE  Len(page) = 0
  BY DEF Typed, ListInv, Fresh, Printing

LEMMA HeadersAbove ==
  ASSUME Typed, ListInv, PageInv
  PROVE  SectionAbove
  <1>1. ASSUME NEW n \in 1..Len(page), page[n].kind = "repo"
        PROVE  Above(page, n) = IF sorted THEN None ELSE Section(repos[page[n].id])
    <2>1. RowInv(n) /\ page[n].kind # "section"
      BY <1>1, Rows DEF Typed, PageInv
    <2> QED
      BY <2>1 DEF RowInv
  <1> QED
    BY <1>1 DEF SectionAbove

\* Of two rows, the first stands before the second in the list.
LEMMA RowsInPlace ==
  ASSUME Typed, ListInv, PageInv, Column # None, IntTimes,
         NEW m \in 1..Len(page), NEW n \in 1..Len(page), m < n, page[m].kind = "repo", page[n].kind = "repo"
  PROVE  InPlace(page[m].id, page[n].id)
  <1>1. Printing
    <2>1. Len(page) \in Nat /\ Len(page) # 0
      BY Rows DEF Typed
    <2> QED
      BY <2>1, NothingPrinted
  <1>2. PICK j \in 1..(i - 1), k \in 1..(i - 1) : j < k /\ list[j] = page[m].id /\ list[k] = page[n].id
    BY DEF PageInv, Follows
  <1>3. j \in Ids /\ k \in Ids
    BY SiteFacts DEF Typed, ListInv, Site, Ids
  <1>4. InPlace(list[j], list[k])
    BY <1>1, <1>2, <1>3 DEF ListInv, Printing
  <1> QED
    BY <1>2, <1>4

LEMMA IdleTimesOrdered ==
  ASSUME Typed, ListInv, PageInv
  PROVE  IdleOrder
  <1>1. ASSUME IntTimes, NEW m \in 1..Len(page), NEW n \in 1..Len(page), m < n, page[m].kind = "repo", page[n].kind = "repo",
               {page[m].id, page[n].id} \subseteq Timed, Column = "idle" \/ SameSection(page[m].id, page[n].id)
        PROVE  page[m].idle >= page[n].idle
    <2>1. Column = "idle" \/ (Column = "section" /\ cfg.byAge)
      BY <1>1 DEF Timed
    <2>2. InPlace(page[m].id, page[n].id)
      <3>1. Column # None
        BY <2>1, IndexAssumption DEF Columns
      <3> QED
        BY <1>1, <3>1, RowsInPlace
    <2>3. mtime[page[n].id] <= mtime[page[m].id]
      BY <1>1, <2>1, <2>2 DEF InPlace
    <2>4. ASSUME NEW o \in {m, n} PROVE page[o].idle = mtime[page[o].id]
      <3>1. o \in 1..Len(page) /\ page[o].kind = "repo" /\ page[o].id \in Timed
        BY <1>1
      <3>2. RowInv(o) /\ page[o].kind # "section"
        BY <3>1, Rows DEF Typed, PageInv
      <3> QED
        BY <3>1, <3>2 DEF RowInv
    <2>5. page[m].id \in Ids /\ page[n].id \in Ids
      BY <1>1, Rows DEF Typed
    <2>6. mtime[page[n].id] \in Int /\ mtime[page[m].id] \in Int
      BY <2>5 DEF Typed
    <2> QED
      BY <2>3, <2>4, <2>6
  <1> QED
    BY <1>1 DEF IdleOrder

\* The section of the row below a header.
SectionBelow(n) == repos[page[n + 1].id].section

LEMMA HeaderRow ==
  ASSUME Typed, ListInv, PageInv, NEW n \in 1..Len(page), page[n].kind = "section"
  PROVE  /\ n + 1 \in 1..Len(page) /\ page[n + 1].kind = "repo" /\ page[n + 1].id \in Ids
         /\ page[n].name = Section(repos[page[n + 1].id]) /\ page[n].name # Above(page, n - 1)
         /\ page[n].name = IF SectionBelow(n) = <<>> THEN None ELSE SectionBelow(n)
         /\ IsKey(SectionBelow(n))
  <1>1. Len(page) \in Nat
    BY Rows DEF Typed
  <1>2. /\ n < Len(page) /\ page[n + 1].kind = "repo"
        /\ page[n].name = Section(repos[page[n + 1].id]) /\ page[n].name # Above(page, n - 1)
    BY DEF PageInv, RowInv
  <1>3. n + 1 \in 1..Len(page)
    BY <1>1, <1>2
  <1>4. page[n + 1].id \in Ids
    BY <1>2, <1>3, Rows DEF Typed
  <1>5. IsKey(SectionBelow(n))
    BY <1>4, SiteFacts DEF ListInv, Site, SectionBelow
  <1> QED
    BY <1>2, <1>3, <1>4, <1>5 DEF Section, SectionBelow

LEMMA HeadersInOrder ==
  ASSUME Typed, ListInv, PageInv, Column = "section", IntTimes,
         NEW m \in 1..Len(page), NEW n \in 1..Len(page), m < n, page[m].kind = "section", page[n].kind = "section"
  PROVE  Rank(SectionBelow(m)) <= Rank(SectionBelow(n))
  <1>1. /\ m + 1 \in 1..Len(page) /\ page[m + 1].kind = "repo" /\ IsKey(SectionBelow(m))
        /\ n + 1 \in 1..Len(page) /\ page[n + 1].kind = "repo" /\ IsKey(SectionBelow(n))
    BY HeaderRow
  <1>2. InPlace(page[m + 1].id, page[n + 1].id)
    <2>1. m + 1 < n + 1 /\ Column # None
      BY IndexAssumption DEF Columns
    <2> QED
      BY <1>1, <2>1, RowsInPlace
  <1>3. Cmp(SectionBelow(m), SectionBelow(n)) <= 0
    BY <1>2 DEF InPlace, SectionBelow
  <1>4. /\ Cmp(SectionBelow(m), SectionBelow(n)) \in Int
        /\ Cmp(SectionBelow(m), SectionBelow(n)) < 0 <=> Rank(SectionBelow(m)) < Rank(SectionBelow(n))
        /\ Cmp(SectionBelow(m), SectionBelow(n)) = 0 <=> Rank(SectionBelow(m)) = Rank(SectionBelow(n))
    BY <1>1, Compared
  <1>5. Rank(SectionBelow(m)) \in Int /\ Rank(SectionBelow(n)) \in Int
    BY <1>1, Ranked, IndexAssumption
  <1> QED
    BY <1>3, <1>4, <1>5

\* Two ways to write the name of a section.
LEMMA TwoNames ==
  ASSUME Typed, ListInv, PageInv, NEW m \in 1..Len(page), NEW n \in 1..Len(page),
         page[m].kind = "section", page[n].kind = "section",
         page[m].name # page[n].name, Rank(SectionBelow(m)) = Rank(SectionBelow(n))
  PROVE  \E j, k \in Ids : repos[j].section # repos[k].section /\ SameSection(j, k)
  <1>1. /\ page[m + 1].id \in Ids /\ page[n + 1].id \in Ids /\ IsKey(SectionBelow(m)) /\ IsKey(SectionBelow(n))
        /\ page[m].name = IF SectionBelow(m) = <<>> THEN None ELSE SectionBelow(m)
        /\ page[n].name = IF SectionBelow(n) = <<>> THEN None ELSE SectionBelow(n)
    BY HeaderRow
  <1>2. SectionBelow(m) # SectionBelow(n)
    BY <1>1
  <1>3. Cmp(SectionBelow(m), SectionBelow(n)) = 0
    BY <1>1, Compared
  <1> QED
    BY <1>1, <1>2, <1>3 DEF SectionBelow, SameSection

LEMMA SectionsOnce ==
  ASSUME Typed, ListInv, PageInv
  PROVE  SectionOnce
  <1> SUFFICES ASSUME Column = "section", ~sorted, IntTimes, NEW m \in 1..Len(page), NEW n \in 1..Len(page), m < n,
                      page[m].kind = "section", page[n].kind = "section", page[m].name = page[n].name
               PROVE  \E j, k \in Ids : repos[j].section # repos[k].section /\ SameSection(j, k)
    BY DEF SectionOnce
  <1> DEFINE R(h)   == Rank(SectionBelow(h))
             two    == \E j, k \in Ids : repos[j].section # repos[k].section /\ SameSection(j, k)
  <1>1. Len(page) \in Nat /\ Len(Alphabet) \in Nat
    BY Rows, IndexAssumption DEF Typed
  <1>2. ASSUME NEW h \in 1..Len(page), page[h].kind = "section"
        PROVE  /\ page[h].name = (IF SectionBelow(h) = <<>> THEN None ELSE SectionBelow(h))
               /\ R(h) \in 1..(Len(Alphabet) + 1)
               /\ R(h) = Len(Alphabet) + 1 <=> SectionBelow(h) = None
               /\ SectionBelow(h) = <<>> /\ SectionBelow(h) # None => R(h) = 1
    BY <1>2, HeaderRow, Ranked
  <1>3. \A h, k \in 1..Len(page) : h < k /\ page[h].kind = "section" /\ page[k].kind = "section" => R(h) <= R(k)
    BY HeadersInOrder
  <1>4. \A h, k \in 1..Len(page) :
          page[h].kind = "section" /\ page[k].kind = "section" /\ page[h].name # page[k].name /\ R(h) = R(k) => two
    BY TwoNames
  <1>5. PICK o \in 1..Len(page) : m < o /\ o < n /\ page[o].kind = "section" /\ page[o].name # page[n].name
    <2>1. n - 1 \in Nat /\ m \in 1..(n - 1)
      BY <1>1
    <2>2. PICK o \in 1..(n - 1) : page[o].kind = "section" /\ m <= o /\ Above(page, n - 1) = page[o].name
      BY <2>1, AboveIs
    <2>3. page[n].name # page[o].name
      BY <2>2, HeaderRow
    <2>4. o # m
      BY <2>3
    <2> QED
      BY <1>1, <2>1, <2>2, <2>3, <2>4
  <1>6. R(m) <= R(o) /\ R(o) <= R(n) /\ R(m) \in Int /\ R(o) \in Int /\ R(n) \in Int
    BY <1>1, <1>2, <1>3, <1>5
  <1>7. CASE page[n].name # None
    <2>1. SectionBelow(m) = SectionBelow(n)
      BY <1>2, <1>7
    <2>2. R(o) = R(n)
      BY <1>6, <2>1
    <2> QED
      BY <1>4, <1>5, <2>2
  <1>8. CASE page[n].name = None
    <2>1. page[o].name # None /\ SectionBelow(o) # None /\ R(o) < Len(Alphabet) + 1
      BY <1>1, <1>2, <1>5, <1>8
    <2>2. SectionBelow(m) # None /\ SectionBelow(m) = <<>>
      BY <1>1, <1>2, <1>6, <1>8, <2>1
    <2>3. R(m) = 1
      BY <1>2, <2>2
    <2>4. PICK e \in 1..Len(page) : e < m /\ page[e].kind = "section" /\ page[e].name # None
      <3>1. page[m].name # Above(page, m - 1) /\ m - 1 \in Nat
        BY HeaderRow
      <3>2. ~\A h \in 1..(m - 1) : page[h].kind # "section"
        BY <1>8, <3>1, AboveIs
      <3>3. PICK h \in 1..(m - 1) : page[h].kind = "section"
        BY <3>2
      <3>4. PICK e \in 1..(m - 1) : page[e].kind = "section" /\ Above(page, m - 1) = page[e].name
        BY <3>1, <3>3, AboveIs
      <3> QED
        BY <1>1, <1>8, <3>1, <3>4
    <2>5. R(e) <= R(m) /\ R(e) \in 1..(Len(Alphabet) + 1)
      BY <1>2, <1>3, <2>4
    <2>6. R(e) = R(m)
      BY <2>3, <2>5
    <2> QED
      BY <1>4, <1>8, <2>4, <2>6
  <1> QED
    BY <1>7, <1>8

-----------------------------------------------------------------------------
(* The steps *)

Inv == Typed /\ ListInv /\ PageInv

LEMMA InOrder ==
  ASSUME Inv
  PROVE  OrderInv
  BY HeadersAbove, SectionsOnce, IdleTimesOrdered DEF Inv, OrderInv

LEMMA SiteStays ==
  ASSUME cfg' = cfg, repos' = repos
  PROVE  /\ Ids' = Ids
         /\ \A column, time : Orders(column, time)' = Orders(column, time)
  <1>1. Ids' = Ids
    BY DEF Ids
  <1>2. ASSUME NEW column, NEW time PROVE Orders(column, time)' = Orders(column, time)
    <2>1. \A s, t : Cmp(s, t)' = Cmp(s, t)
      BY DEF Cmp, Place
    <2>2. \A j, k : SortSection(time, j, k)' = SortSection(time, j, k)
      BY <2>1 DEF SortSection, SortIdle
    <2>3. \A j, k : SortBy(column, time, j, k)' = SortBy(column, time, j, k)
      BY <2>1, <2>2 DEF SortBy, SortIdle
    <2>4. Consistent(column, time)' = Consistent(column, time)
      BY <1>1, <2>3 DEF Consistent
    <2> QED
      BY <1>1, <2>3, <2>4 DEF Orders
  <1> QED
    BY <1>1, <1>2

LEMMA BeforeStays ==
  ASSUME ListInv, cfg' = cfg, repos' = repos, before' = before
  PROVE  Remembered'
  BY SiteStays DEF ListInv, Remembered

LEMMA AsConfiguredIsList ==
  ASSUME Len(repos) \in Nat
  PROVE  AsConfigured \in SetToSeqs(Ids)
  <1>1. Cardinality(Ids) = Len(repos)
    BY UpToN DEF Ids
  <1>2. AsConfigured \in [Ids -> Ids] /\ \A j, k \in Ids : j # k => AsConfigured[j] # AsConfigured[k]
    BY DEF AsConfigured
  <1>3. 1..Cardinality(Ids) = Ids
    BY <1>1 DEF Ids
  <1> QED
    BY <1>2, <1>3 DEF SetToSeqs

LEMMA NothingAbove ==
  ASSUME page = <<>>, last = None
  PROVE  PageInv
  <1>1. Len(page) = 0
    OBVIOUS
  <1>2. Above(page, 0) = None
    BY AboveIs
  <1> QED
    BY <1>1, <1>2 DEF PageInv

LEMMA Begun ==
  ASSUME Site, IsQuery(qry), list = AsConfigured, before = [input |-> <<>>, order |-> <<>>],
         mtime = [k \in Ids |-> -1], Fresh, pc = "begin", hits = 0, pushes = 0
  PROVE  Inv
  <1>1. Len(repos) \in Nat /\ MaxPushes \in Nat
    BY SiteFacts, IndexAssumption
  <1>2. Typed
    <2>1. page \in Seq(PageRows)
      <3>1. \A S : <<>> \in Seq(S)
        OBVIOUS
      <3> QED
        BY <3>1 DEF Fresh
    <2>3. i = 1 /\ sorted \in BOOLEAN
      BY Zenon DEF Fresh
    <2>4. i \in 1..(Len(repos) + 1)
      BY <1>1, <2>3
    <2>2. mtime \in [Ids -> {-1} \cup Nat] /\ pushes \in 0..MaxPushes /\ hits \in Nat
      BY <1>1
    <2> QED
      BY <2>1, <2>2, <2>3, <2>4 DEF Typed
  <1>3. ListInv
    BY AsConfiguredIsList, <1>1 DEF ListInv, Site, Remembered
  <1>4. PageInv
    BY NothingAbove DEF Fresh
  <1> QED
    BY <1>2, <1>3, <1>4 DEF Inv

LEMMA InitInv ==
  ASSUME Init
  PROVE  Inv
  <1>1. PICK s \in Sites : cfg = s.cfg /\ repos = s.repos /\ disk = s.disk
    BY DEF Init
  <1>2. Site
    <2>1. IsSite(s)
      BY IndexAssumption
    <2> QED
      BY <1>1, <2>1 DEF Site, IsSite
  <1>3. IsQuery(qry)
    BY IndexAssumption DEF Init
  <1> QED
    BY <1>2, <1>3, Begun DEF Init, Fresh, AsConfigured

\* Another process begins with the list of the configuration.
LEMMA AskInv ==
  ASSUME Inv, NEW q, IsQuery(q), Ask(q), UNCHANGED <<site, pushes, before>>, pc' \in {"begin", "opened"}
  PROVE  Inv'
  <1>1. disk' = disk /\ cfg' = cfg /\ repos' = repos /\ before' = before /\ pushes' = pushes
    BY DEF site
  <1>2. Site' /\ Site /\ Ids' = Ids /\ Len(repos) \in Nat
    BY <1>1, SiteStays, SiteFacts DEF Site, Inv, ListInv
  <1>3. qry' = q /\ Fresh' /\ mtime' = [k \in Ids |-> -1]
    BY <1>1, <1>2 DEF Ask, Fresh, AsConfigured
  <1>4. Typed'
    <2>1. page' \in Seq(PageRows')
      <3>1. \A S : <<>> \in Seq(S)
        OBVIOUS
      <3> QED
        BY <1>3, <3>1 DEF Fresh
    <2>4. i' = 1 /\ hits' = 0 /\ sorted' \in BOOLEAN
      BY <1>3, Zenon DEF Fresh
    <2>5. i' \in 1..(Len(repos') + 1) /\ hits' \in Nat
      BY <1>1, <1>2, <2>4
    <2>2. mtime' \in [Ids' -> {-1} \cup Nat]
      BY <1>2, <1>3
    <2>3. pushes' \in 0..MaxPushes
      BY <1>1 DEF Inv, Typed
    <2> QED
      BY <2>1, <2>2, <2>3, <2>4, <2>5 DEF Typed
  <1>5. ListInv'
    <2>1. AsConfigured' \in SetToSeqs(Ids)'
      BY <1>1, <1>2, AsConfiguredIsList DEF AsConfigured
    <2>2. Remembered'
      BY <1>1, BeforeStays DEF Inv
    <2>3. list' = AsConfigured'
      BY <1>3 DEF Fresh
    <2>4. pc' # "sort" /\ pc' # "rows" /\ pc' # "read"
      OBVIOUS
    <2> QED
      BY <1>2, <1>3, <2>1, <2>2, <2>3, <2>4 DEF ListInv, Site
  <1>6. PageInv'
    <2>1. Len(page') = 0 /\ page' = <<>> /\ last' = None
      BY <1>3 DEF Fresh
    <2>2. Above(<<>>, 0) = None
      BY AboveIs
    <2>3. last' = Above(page', Len(page'))
      BY <2>1, <2>2
    <2> QED
      BY <2>1, <2>3 DEF PageInv
  <1> QED
    BY <1>4, <1>5, <1>6 DEF Inv

LEMMA AtoiIsInt ==
  ASSUME NEW text
  PROVE  Atoi(text) \in 0..IntMax
  <1>1. IntMax \in Nat
    BY IndexAssumption
  <1>2. ASSUME \E n \in 0..IntMax : text = <<ToString(n)>>
        PROVE  (CHOOSE n \in 0..IntMax : text = <<ToString(n)>>) \in 0..IntMax
    BY <1>2
  <1> QED
    BY <1>1, <1>2 DEF Atoi

LEMMA AskedIsQuery ==
  ASSUME NEW querystring
  PROVE  IsQuery(Asked(querystring))
  <1> DEFINE arguments == Arguments(querystring)
             ofs       == Atoi(arguments.ofs)
  <1>1. ofs \in Int /\ ofs <= IntMax
    BY AtoiIsInt, IndexAssumption
  <1>2. Asked(querystring) = [search |-> arguments.search, url |-> qry.url, sort |-> arguments.sort, ofs |-> ofs]
    BY DEF Asked
  <1> HIDE DEF arguments, ofs
  <1> QED
    BY <1>1, <1>2 DEF IsQuery

LEMMA TimeIsNat ==
  ASSUME Typed, Site, NEW k \in Ids
  PROVE  Time(k) \in Nat
  <1>1. mtime[k] \in {-1} \cup Nat /\ OnDisk(k) \in Nat
    BY SiteFacts DEF Typed
  <1> QED
    BY <1>1 DEF Time

\* PageInv looks at the times of the rows only.
LEMMA PageStays ==
  ASSUME Inv, UNCHANGED <<page, last, list, sorted, i, repos, cfg, qry, mtime>>
  PROVE  PageInv'
  <1>1. Above(page, 0)' = Above(page, 0)
    OBVIOUS
  <1>2. Timed' = Timed
    BY DEF Timed, Column, SameSection, Cmp, Place, Ids
  <1>3. ASSUME NEW n \in 1..Len(page) PROVE RowInv(n)'
    <2>1. RowInv(n)
      BY DEF Inv, PageInv
    <2> QED
      BY <1>2, <2>1 DEF RowInv, Section
  <1>4. last' = Above(page', Len(page'))
    BY DEF Inv, PageInv
  <1>5. \A m, n \in 1..Len(page) : Follows(m, n)' <=> Follows(m, n)
    BY DEF Follows
  <1> QED
    BY <1>3, <1>4, <1>5 DEF Inv, PageInv

LEMMA BeginInv ==
  ASSUME Inv, Begin
  PROVE  Inv'
  <1>1. UNCHANGED <<disk, cfg, repos, qry, list, mtime, sorted, i, hits, last, page, links, pushes, before>>
    BY DEF Begin, site, ghost
  <1>2. pc = "begin" /\ pc' \in {"none", "rows", "sort"} /\ (pc' = "rows" => Column = None) /\ (pc' = "sort" => Column # None)
    BY DEF Begin
  <1>3. Ids' = Ids /\ Column' = Column /\ Remembered'
    BY <1>1, BeforeStays DEF Ids, Column, Inv
  <1>4. Typed'
    BY <1>1, <1>2, <1>3 DEF Inv, Typed, PageRows
  <1>5. ListInv'
    <2>1. Fresh /\ Fresh'
      BY <1>1, <1>2, <1>3 DEF Inv, ListInv, Fresh, AsConfigured
    <2>2. IsSite([disk |-> disk, repos |-> repos, cfg |-> cfg])' /\ IsQuery(qry)' /\ list' \in SetToSeqs(Ids)'
      BY <1>1, <1>3 DEF Inv, ListInv
    <2>3. pc' = "rows" => ~sorted' /\ list' = AsConfigured'
      BY <2>1 DEF Fresh
    <2> QED
      BY <1>2, <1>3, <2>1, <2>2, <2>3 DEF ListInv
  <1>6. PageInv'
    BY <1>1, PageStays
  <1> QED
    BY <1>4, <1>5, <1>6 DEF Inv

LEMMA ReadTimeInv ==
  ASSUME Inv, ReadTime
  PROVE  Inv'
  <1>1. UNCHANGED <<disk, cfg, repos, qry, pc, list, sorted, i, hits, last, page, links, pushes, before>> /\ pc = "sort"
    BY DEF ReadTime, site, ghost
  <1>2. PICK k \in Timed : mtime' = [mtime EXCEPT ![k] = Time(k)]
    BY DEF ReadTime
  <1>3. Ids' = Ids /\ Column' = Column /\ Remembered'
    BY <1>1, BeforeStays DEF Ids, Column, Inv
  <1>4. Typed'
    <2>1. k \in Ids
      BY DEF Timed
    <2>2. Time(k) \in Nat
      BY <2>1, TimeIsNat DEF Inv, ListInv, Site
    <2>3. mtime' \in [Ids -> {-1} \cup Nat]
      BY <1>2, <2>1, <2>2 DEF Inv, Typed
    <2> QED
      BY <1>1, <1>3, <2>3 DEF Inv, Typed, PageRows
  <1>5. ListInv' /\ page' = <<>> /\ last' = None
    <2>1. Fresh /\ Fresh'
      BY <1>1, <1>3 DEF Inv, ListInv, Fresh, AsConfigured
    <2>2. IsSite([disk |-> disk, repos |-> repos, cfg |-> cfg])' /\ IsQuery(qry)' /\ list' \in SetToSeqs(Ids)'
      BY <1>1, <1>3 DEF Inv, ListInv
    <2> QED
      BY <1>1, <1>3, <2>1, <2>2 DEF Inv, ListInv, Fresh
  <1>6. PageInv'
    <2>1. Len(page') = 0 /\ Above(<<>>, 0) = None
      BY <1>5, AboveIs
    <2> QED
      BY <1>5, <2>1 DEF PageInv
  <1> QED
    BY <1>4, <1>5, <1>6 DEF Inv

LEMMA SortRepolistInv ==
  ASSUME Inv, SortRepolist
  PROVE  Inv'
  <1>1. /\ UNCHANGED <<disk, cfg, repos, qry, mtime, i, hits, last, page, links, pushes>>
        /\ pc = "sort" /\ pc' = "rows" /\ sorted' = (qry.sort # None) /\ \A k \in Timed : mtime[k] # -1
    BY DEF SortRepolist, site
  <1>2. /\ before' = [input |-> <<Column, mtime>>, order |-> list']
        /\ list' \in Orders(Column, mtime)
    <2>1. PICK seq \in IF before.input = <<Column, mtime>> THEN {before.order} ELSE Orders(Column, mtime) :
             list' = seq /\ before' = [input |-> <<Column, mtime>>, order |-> seq]
      BY DEF SortRepolist
    <2>2. CASE before.input = <<Column, mtime>>
      <3>1. before.order \in Orders(before.input[1], before.input[2])
        BY <2>2 DEF Inv, ListInv, Remembered
      <3>2. before.input[1] = Column /\ before.input[2] = mtime
        BY <2>2
      <3> QED
        BY <2>1, <2>2, <3>1, <3>2
    <2>3. CASE ~(before.input = <<Column, mtime>>)
      BY <2>1, <2>3
    <2> QED
      BY <2>2, <2>3
  <1>3. Ids' = Ids /\ Column' = Column /\ Timed' = Timed /\ Column # None /\ Fresh
    BY <1>1 DEF Ids, Column, Timed, SameSection, Cmp, Place, Inv, ListInv
  <1>4. Site /\ Site' /\ IsQuery(qry)' /\ mtime \in [Ids -> Int]
    BY <1>1 DEF Inv, ListInv, Site, Typed
  <1>5. Typed'
    <2>1. sorted' \in BOOLEAN
      BY <1>1
    <2> QED
      BY <1>1, <1>3, <2>1 DEF Inv, Typed, PageRows
  <1>6. ListInv'
    <2>1. list' \in SetToSeqs(Ids)'
      BY <1>2, <1>3, OrdersAreLists
    <2>2. Remembered'
      <3>1. before'.input[1] = Column /\ before'.input[2] = mtime /\ before'.order = list'
        BY <1>2
      <3> QED
        BY <1>1, <1>2, <3>1, SiteStays DEF Remembered
    <2>3. ASSUME IntTimes', NEW m \in Ids, NEW n \in Ids, m < n PROVE InPlace(list[m], list[n])'
      <3>1. IntTimes
        BY <1>1, <1>3, <2>3 DEF IntTimes
      <3>2. InPlace(list'[m], list'[n])
        BY <1>2, <1>4, <2>3, <3>1, OrderInPlace
      <3> QED
        BY <1>1, <1>3, <3>2 DEF InPlace, SameSection, Cmp, Place
    <2>4. \A k \in Timed' : mtime'[k] # -1
      BY <1>1, <1>3
    <2> QED
      BY <1>1, <1>3, <1>4, <2>1, <2>2, <2>3, <2>4 DEF ListInv, Site
  <1>7. PageInv'
    <2>1. Len(page') = 0 /\ Above(<<>>, 0) = None /\ page' = <<>> /\ last' = None
      BY <1>1, <1>3, AboveIs DEF Fresh
    <2> QED
      BY <2>1 DEF PageInv
  <1> QED
    BY <1>5, <1>6, <1>7 DEF Inv

LEMMA Longer ==
  ASSUME NEW S, NEW s \in Seq(S), NEW t \in Seq(S)
  PROVE  /\ s \o t \in Seq(S) /\ Len(s \o t) = Len(s) + Len(t) /\ Len(s) \in Nat /\ Len(t) \in Nat
         /\ \A k \in 1..Len(s) : (s \o t)[k] = s[k]
         /\ \A k \in 1..Len(t) : (s \o t)[Len(s) + k] = t[k]
  <1>1. Len(s) \in Nat /\ Len(t) \in Nat
    OBVIOUS
  <1>2. /\ s \o t \in Seq(S) /\ Len(s \o t) = Len(s) + Len(t)
        /\ \A k \in 1 .. Len(s) + Len(t) : (s \o t)[k] = IF k <= Len(s) THEN s[k] ELSE t[k - Len(s)]
    BY ConcatProperties
  <1> QED
    BY <1>1, <1>2

\* What Row adds to the page.
Added(k) == Header(repos[k]) \o <<[kind |-> "repo", id |-> k, idle |-> Time(k)]>>

LEMMA AddedRows ==
  ASSUME Inv, NEW k \in Ids
  PROVE  /\ Added(k) \in Seq(PageRows)
         /\ sorted \/ Section(repos[k]) = last =>
              Header(repos[k]) = <<>> /\ Len(Added(k)) = 1 /\ Added(k)[1] = [kind |-> "repo", id |-> k, idle |-> Time(k)]
         /\ ~sorted /\ Section(repos[k]) # last =>
              /\ Header(repos[k]) # <<>> /\ Len(Added(k)) = 2
              /\ Added(k)[1] = [kind |-> "section", name |-> Section(repos[k])]
              /\ Added(k)[2] = [kind |-> "repo", id |-> k, idle |-> Time(k)]
  <1> DEFINE header == [kind |-> "section", name |-> Section(repos[k])]
             row    == [kind |-> "repo", id |-> k, idle |-> Time(k)]
  <1>1. row \in PageRows
    <2>1. Time(k) \in Nat
      BY TimeIsNat DEF Inv, ListInv, Site
    <2> QED
      BY <2>1 DEF PageRows
  <1>2. header \in PageRows
    <2>1. Section(repos[k]) \in ToSet(Alphabet) \cup {None}
      <3>1. IsKey(repos[k].section)
        BY SiteFacts DEF Inv, ListInv, Site
      <3> QED
        BY <3>1 DEF IsKey, Section
    <2> QED
      BY <2>1 DEF PageRows
  <1> HIDE DEF header, row
  <1>3. CASE sorted \/ Section(repos[k]) = last
    <2>1. Header(repos[k]) = <<>>
      BY <1>3 DEF Header
    <2>2. Added(k) = <<>> \o <<row>>
      BY <2>1 DEF Added, row
    <2>3. Added(k) = <<row>>
      BY <1>1, <2>2
    <2> QED
      BY <1>1, <1>3, <2>1, <2>3 DEF row
  <1>4. CASE ~sorted /\ Section(repos[k]) # last
    <2>1. Header(repos[k]) = <<header>>
      BY <1>4 DEF Header, header
    <2>2. Added(k) = <<header>> \o <<row>>
      BY <2>1 DEF Added, row
    <2>3. Added(k) \in Seq(PageRows) /\ Len(Added(k)) = 2 /\ Added(k)[1] = header /\ Added(k)[2] = row
      <3>1. \A x \in PageRows : <<x>> \in Seq(PageRows) /\ Len(<<x>>) = 1 /\ <<x>>[1] = x
        OBVIOUS
      <3>2. <<header>> \in Seq(PageRows) /\ <<row>> \in Seq(PageRows) /\ Len(<<header>>) = 1 /\ Len(<<row>>) = 1
            /\ <<header>>[1] = header /\ <<row>>[1] = row
        BY <1>1, <1>2, <3>1
      <3> DEFINE s == <<header>>
                 t == <<row>>
      <3>3. /\ s \o t \in Seq(PageRows) /\ Len(s \o t) = Len(s) + Len(t)
            /\ \A x \in 1..Len(s) : (s \o t)[x] = s[x]
            /\ \A x \in 1..Len(t) : (s \o t)[Len(s) + x] = t[x]
        BY <3>2, Longer
      <3> HIDE DEF s, t
      <3>4. Added(k) = s \o t
        BY <2>2 DEF s, t
      <3>5. Len(s) = 1 /\ Len(t) = 1 /\ s[1] = header /\ t[1] = row
        BY <3>2 DEF s, t
      <3> QED
        BY <3>3, <3>4, <3>5
    <2>4. <<header>> # <<>>
      OBVIOUS
    <2> QED
      BY <1>1, <1>2, <1>4, <2>1, <2>3, <2>4 DEF row, header
  <1> QED
    BY <1>3, <1>4

\* The page grows by the row of list[i], and its header if it needs one.
Grows(k) ==
  /\ page' \in Seq(PageRows) /\ \A n \in 1..Len(page) : page'[n] = page[n]
  /\ \/ /\ sorted \/ Section(repos[k]) = last
        /\ Len(page') = Len(page) + 1 /\ last' = last
     \/ /\ ~sorted /\ Section(repos[k]) # last
        /\ Len(page') = Len(page) + 2 /\ last' = Section(repos[k])
        /\ page'[Len(page) + 1] = [kind |-> "section", name |-> Section(repos[k])]
  /\ page'[Len(page')] = [kind |-> "repo", id |-> k, idle |-> Time(k)]
  /\ mtime' = [mtime EXCEPT ![k] = Time(k)]

LEMMA ShowRepoGrows ==
  ASSUME Inv, NEW k \in Ids, ShowRepo(k)
  PROVE  Grows(k)
  <1>1. page \in Seq(PageRows) /\ Added(k) \in Seq(PageRows)
    BY AddedRows DEF Inv, Typed
  <1>2. page' = page \o Added(k)
    <2>1. page' = page \o Header(repos[k]) \o <<[kind |-> "repo", id |-> k, idle |-> Time(k)]>>
      BY DEF ShowRepo
    <2>2. Header(repos[k]) = <<>> \/ Header(repos[k]) = <<[kind |-> "section", name |-> Section(repos[k])]>>
      BY DEF Header
    <2> DEFINE U == PageRows \cup {[kind |-> "section", name |-> Section(repos[k])]} \cup {[kind |-> "repo", id |-> k, idle |-> Time(k)]}
    <2>3. page \in Seq(U) /\ Header(repos[k]) \in Seq(U) /\ <<[kind |-> "repo", id |-> k, idle |-> Time(k)]>> \in Seq(U)
      <3>1. \A S, T : S \subseteq T => \A s \in Seq(S) : s \in Seq(T)
        OBVIOUS
      <3>2. PageRows \subseteq U /\ {[kind |-> "section", name |-> Section(repos[k])]} \subseteq U
        OBVIOUS
      <3>3. <<>> \in Seq(U) /\ \A x \in U : <<x>> \in Seq(U)
        OBVIOUS
      <3> QED
        BY <1>1, <2>2, <3>1, <3>2, <3>3
    <2> HIDE DEF U
    <2> QED
      BY <2>1, <2>3, ConcatAssociative DEF Added
  <1>3. /\ page' \in Seq(PageRows) /\ Len(page') = Len(page) + Len(Added(k)) /\ Len(page) \in Nat
        /\ \A n \in 1..Len(page) : page'[n] = page[n]
        /\ \A n \in 1..Len(Added(k)) : page'[Len(page) + n] = Added(k)[n]
    BY <1>1, <1>2, Longer
  <1>4. mtime' = [mtime EXCEPT ![k] = Time(k)] /\ last' = IF Header(repos[k]) = <<>> THEN last ELSE Section(repos[k])
    BY DEF ShowRepo
  <1>5. CASE sorted \/ Section(repos[k]) = last
    <2>1. Header(repos[k]) = <<>> /\ Len(Added(k)) = 1 /\ Added(k)[1] = [kind |-> "repo", id |-> k, idle |-> Time(k)]
      BY <1>5, AddedRows
    <2>2. Len(page') = Len(page) + 1 /\ page'[Len(page')] = Added(k)[1]
      BY <1>3, <2>1
    <2> QED
      BY <1>3, <1>4, <1>5, <2>1, <2>2 DEF Grows
  <1>6. CASE ~sorted /\ Section(repos[k]) # last
    <2>1. /\ Header(repos[k]) # <<>> /\ Len(Added(k)) = 2
          /\ Added(k)[1] = [kind |-> "section", name |-> Section(repos[k])]
          /\ Added(k)[2] = [kind |-> "repo", id |-> k, idle |-> Time(k)]
      BY <1>6, AddedRows
    <2>2. Len(page') = Len(page) + 2 /\ page'[Len(page')] = Added(k)[2] /\ page'[Len(page) + 1] = Added(k)[1]
      BY <1>3, <2>1
    <2> QED
      BY <1>3, <1>4, <1>6, <2>1, <2>2 DEF Grows
  <1> QED
    BY <1>5, <1>6

LEMMA SortedHasNoHeader ==
  ASSUME Inv, sorted
  PROVE  last = None
  <1>1. Len(page) \in Nat /\ last = Above(page, Len(page))
    BY Rows DEF Inv, Typed, PageInv
  <1>2. \A n \in 1..Len(page) : page[n].kind # "section"
    BY DEF Inv, PageInv, RowInv
  <1> QED
    BY <1>1, <1>2, AboveIs

LEMMA PageGrows ==
  ASSUME Inv, pc = "rows", i \in Ids, i' = i + 1, UNCHANGED <<cfg, repos, qry, list, sorted>>, Grows(list[i])
  PROVE  PageInv' /\ \A k \in Timed : mtime'[k] = mtime[k]
  <1> DEFINE L == Len(page)
             M == Len(page')
             r == list[i]
  <1>1. L \in Nat /\ M \in Nat /\ page' \in Seq(PageRows) /\ i \in Nat
    BY Rows DEF Inv, Typed, Grows
  <1>2. r \in Ids
    BY Placement DEF Inv, ListInv, Site
  <1>3. /\ \A n \in 1..L : page'[n] = page[n]
        /\ \/ (sorted \/ Section(repos[r]) = last) /\ M = L + 1 /\ last' = last
           \/ /\ ~sorted /\ Section(repos[r]) # last /\ M = L + 2 /\ last' = Section(repos[r])
              /\ page'[L + 1] = [kind |-> "section", name |-> Section(repos[r])]
        /\ page'[M] = [kind |-> "repo", id |-> r, idle |-> Time(r)]
        /\ mtime' = [mtime EXCEPT ![r] = Time(r)]
    BY DEF Grows
  <1>4. Timed' = Timed /\ \A k : Section(repos[k])' = Section(repos[k])
    BY DEF Timed, Column, SameSection, Cmp, Place, Ids, Section
  <1>5. \A k \in Timed : mtime'[k] = mtime[k]
    <2>1. ASSUME NEW k \in Timed PROVE mtime[k] # -1
      <3>1. Column # None
        BY IndexAssumption DEF Timed, Columns
      <3> QED
        BY <3>1 DEF Inv, ListInv
    <2>2. r \in Timed => Time(r) = mtime[r]
      BY <2>1 DEF Time
    <2>3. mtime \in [Ids -> {-1} \cup Nat] /\ Timed \subseteq Ids
      BY DEF Inv, Typed, Timed
    <2> QED
      BY <1>3, <2>2, <2>3
  <1>6. last = Above(page, L)
    BY DEF Inv, PageInv
  <1> HIDE DEF L, M, r
  <1>7. ASSUME NEW n \in 0..L PROVE Above(page', n) = Above(page, n)
    <2>1. n \in Nat /\ \A m \in 1..n : page'[m] = page[m]
      BY <1>1, <1>3
    <2> QED
      BY <2>1, AbovePrefix
  <1>8. page'[M].kind = "repo" /\ page'[M].id = r /\ page'[M].idle = Time(r) /\ mtime'[r] = Time(r)
    BY <1>2, <1>3 DEF Inv, Typed
  <1>13. M # L + 1 => page'[L + 1].kind = "section" /\ page'[L + 1].name = Section(repos[r])
    BY <1>1, <1>3
  <1>9. Above(page', M) = (IF sorted THEN None ELSE Section(repos[r])) /\ Above(page', M) = last'
    <2>1. CASE (sorted \/ Section(repos[r]) = last) /\ M = L + 1 /\ last' = last
      <3>1. Above(page', L) = last
        BY <1>1, <1>6, <1>7
      <3>2. Above(page', L + 1) = Above(page', L)
        BY <1>1, <1>8, <2>1, AboveNext
      <3>3. sorted => last = None
        BY SortedHasNoHeader
      <3> QED
        BY <2>1, <3>1, <3>2, <3>3
    <2>2. CASE /\ ~sorted /\ Section(repos[r]) # last /\ M = L + 2 /\ last' = Section(repos[r])
               /\ page'[L + 1] = [kind |-> "section", name |-> Section(repos[r])]
      <3>1. Above(page', L + 1) = Section(repos[r])
        <4>1. page'[L + 1].kind = "section" /\ page'[L + 1].name = Section(repos[r])
          BY <1>1, <1>13, <2>2
        <4> QED
          BY <1>1, <4>1, AboveNext
      <3>2. Above(page', L + 1 + 1) = Above(page', L + 1)
        <4>1. page'[L + 1 + 1].kind # "section" /\ L + 1 \in Nat
          BY <1>1, <1>8, <2>2
        <4> QED
          BY <4>1, AboveNext
      <3>3. M = L + 1 + 1
        BY <1>1, <2>2
      <3> QED
        BY <2>2, <3>1, <3>2, <3>3
    <2> QED
      BY <1>3, <2>1, <2>2
  <1>10. {list[j] : j \in 1..(i - 1)} \subseteq {list'[j] : j \in 1..(i' - 1)} /\ r \in {list'[j] : j \in 1..(i' - 1)}
    <2>0. list' = list /\ i' = i + 1 /\ i \in Nat \ {0}
      BY <1>1 DEF Inv, Typed
    <2>1. list' = list /\ i \in 1..(i' - 1) /\ \A j \in 1..(i - 1) : j \in 1..(i' - 1)
      BY <2>0
    <2> QED
      BY <2>1 DEF r
  <1>11. ASSUME NEW n \in 1..M PROVE RowInv(n)'
    <2>1. CASE n <= L
      <3>1. n \in 1..L /\ n - 1 \in 0..L /\ n \in 0..L
        BY <1>1, <2>1
      <3>2. RowInv(n) /\ Above(page', n) = Above(page, n) /\ Above(page', n - 1) = Above(page, n - 1) /\ page'[n] = page[n]
        BY <1>3, <1>7, <3>1 DEF Inv, PageInv, L
      <3>3. CASE page[n].kind = "section"
        <4>1. /\ ~sorted /\ page[n].name # Above(page, n - 1)
              /\ n < L /\ page[n + 1].kind = "repo" /\ page[n].name = Section(repos[page[n + 1].id])
          BY <3>2, <3>3 DEF RowInv, L
        <4>2. page'[n + 1] = page[n + 1] /\ n < M
          BY <1>1, <1>3, <3>1, <4>1
        <4> QED
          BY <3>2, <3>3, <4>1, <4>2 DEF RowInv, Section, M
      <3>4. CASE page[n].kind # "section"
        <4>1. /\ page[n].kind = "repo" /\ page[n].id \in {list[j] : j \in 1..(i - 1)}
              /\ Above(page, n) = IF sorted THEN None ELSE Section(repos[page[n].id])
              /\ page[n].id \in Timed => page[n].idle = mtime[page[n].id]
          BY <3>2, <3>4 DEF RowInv
        <4>2. page[n].id \in {list'[j] : j \in 1..(i' - 1)}
          BY <1>10, <4>1
        <4> QED
          BY <1>4, <1>5, <3>2, <3>4, <4>1, <4>2 DEF RowInv, Section
      <3> QED
        BY <3>3, <3>4
    <2>2. CASE n = M
      <3>1. page'[n].kind # "section"
        BY <1>8, <2>2
      <3>2. Above(page', n) = IF sorted' THEN None ELSE Section(repos'[page'[n].id])
        BY <1>8, <1>9, <2>2 DEF Section
      <3> QED
        BY <1>8, <1>10, <2>2, <3>1, <3>2 DEF RowInv, Section
    <2>3. CASE n > L /\ n # M
      <3>1. /\ n = L + 1 /\ M = L + 2 /\ ~sorted /\ Section(repos[r]) # last
            /\ page'[n] = [kind |-> "section", name |-> Section(repos[r])]
        BY <1>1, <1>3, <2>3
      <3>2. n - 1 = L /\ L \in 0..L /\ n < M /\ n + 1 = M
        BY <1>1, <3>1
      <3>3. Above(page', n - 1) = last
        BY <1>6, <1>7, <3>2
      <3>4. /\ page'[n].kind = "section" /\ page'[n].name # Above(page', n - 1) /\ page'[n + 1].kind = "repo"
            /\ page'[n].name = Section(repos'[page'[n + 1].id])
        BY <1>8, <3>1, <3>2, <3>3 DEF Section
      <3> QED
        BY <3>1, <3>2, <3>4 DEF RowInv, Section, M
    <2> QED
      BY <1>1, <2>1, <2>2, <2>3
  <1>12. ASSUME NEW m \in 1..M, NEW n \in 1..M, m < n, page'[m].kind = "repo", page'[n].kind = "repo"
         PROVE  Follows(m, n)'
    <2>1. m <= L
      BY <1>1, <1>3, <1>12
    <2>2. m \in 1..L /\ page'[m] = page[m] /\ page[m].kind = "repo"
      BY <1>1, <1>3, <1>12, <2>1
    <2>3. CASE n <= L
      <3>1. n \in 1..L /\ page'[n] = page[n] /\ page[n].kind = "repo"
        BY <1>1, <1>3, <1>12, <2>3
      <3>2. PICK j \in 1..(i - 1), k \in 1..(i - 1) : j < k /\ list[j] = page[m].id /\ list[k] = page[n].id
        BY <1>12, <2>2, <3>1 DEF Inv, PageInv, Follows, L
      <3>3. j \in 1..(i' - 1) /\ k \in 1..(i' - 1)
        BY <1>1, <3>2
      <3> QED
        BY <2>2, <3>1, <3>2, <3>3 DEF Follows
    <2>4. CASE n > L
      <3>1. n = M
        BY <1>1, <1>3, <1>12, <1>13, <2>4
      <3>2. page[m].id \in {list[j] : j \in 1..(i - 1)}
        <4>1. RowInv(m) /\ page[m].kind # "section"
          BY <2>2 DEF Inv, PageInv, L
        <4> QED
          BY <4>1 DEF RowInv
      <3>3. PICK j \in 1..(i - 1) : list[j] = page[m].id
        BY <3>2
      <3>4. j \in 1..(i' - 1) /\ i \in 1..(i' - 1) /\ j < i
        BY <1>1, <3>3
      <3>5. page'[n].id = list'[i] /\ page'[m].id = list'[j]
        BY <1>8, <2>2, <3>1, <3>3 DEF r
      <3> QED
        BY <3>4, <3>5 DEF Follows
    <2> QED
      BY <1>1, <2>3, <2>4
  <1> QED
    BY <1>5, <1>9, <1>11, <1>12 DEF PageInv, M

\* The times of the rows are kept, so that the order of the list is as it was.
LEMMA OrderStays ==
  ASSUME Inv, Printing, Column # None, UNCHANGED <<cfg, repos, qry, list>>, \A k \in Timed : mtime'[k] = mtime[k],
         IntTimes', NEW m \in Ids, NEW n \in Ids, m < n
  PROVE  InPlace(list[m], list[n])'
  <1>1. Timed' = Timed /\ Column' = Column /\ Ids' = Ids
    BY DEF Timed, Column, SameSection, Cmp, Place, Ids
  <1>2. IntTimes
    BY <1>1 DEF IntTimes
  <1>3. InPlace(list[m], list[n])
    BY <1>2 DEF Inv, ListInv, Printing
  <1>4. list[m] \in Ids /\ list[n] \in Ids /\ list[m] # list[n]
    <2>1. m # n
      BY SiteFacts DEF Inv, ListInv, Site, Ids
    <2> QED
      BY <2>1, Placement DEF Inv, ListInv, Site
  <1>5. (Column = "section" /\ cfg.byAge /\ SameSection(list[m], list[n])) \/ Column = "idle" =>
          mtime'[list[m]] = mtime[list[m]] /\ mtime'[list[n]] = mtime[list[n]]
    <2>1. ASSUME Column = "section", cfg.byAge, SameSection(list[m], list[n]) PROVE SameSection(list[n], list[m])
      <3>1. IsKey(repos[list[m]].section) /\ IsKey(repos[list[n]].section)
        BY <1>4, SiteFacts DEF Inv, ListInv, Site
      <3> QED
        BY <2>1, <3>1, Compared DEF SameSection
    <2>2. (Column = "section" /\ cfg.byAge /\ SameSection(list[m], list[n])) \/ Column = "idle" =>
            list[m] \in Timed /\ list[n] \in Timed
      BY <1>4, <2>1 DEF Timed
    <2> QED
      BY <2>2
  <1>6. \A j, k : SameSection(j, k)' <=> SameSection(j, k)
    BY DEF SameSection, Cmp, Place
  <1>7. \A j, k : Cmp(repos[j].section, repos[k].section)' = Cmp(repos[j].section, repos[k].section)
    BY DEF Cmp, Place
  <1> QED
    BY <1>1, <1>3, <1>5, <1>6, <1>7 DEF InPlace

LEMMA RowKeeps ==
  ASSUME Inv, Row
  PROVE  Inv'
  <1>1. /\ UNCHANGED <<disk, cfg, repos, qry, pc, list, sorted, links, pushes, before>>
        /\ pc = "rows" /\ i <= Len(list) /\ i' = i + 1
        /\ hits' = IF Counted(list[i]) THEN hits + 1 ELSE hits
        /\ ShowRepo(list[i]) \/ UNCHANGED <<page, last, mtime>>
    BY DEF Row, site, ghost
  <1>2. i \in Ids /\ Site /\ list[i] \in Ids /\ Len(repos) \in Nat /\ Len(list) = Len(repos)
    <2>1. Len(list) = Len(repos) /\ Len(repos) \in Nat /\ list \in [Ids -> Ids] /\ Site
      BY Placement, SiteFacts DEF Inv, ListInv, Site
    <2>2. i \in Ids
      BY <1>1, <2>1 DEF Inv, Typed, Ids
    <2> QED
      BY <2>1, <2>2
  <1>3. Ids' = Ids /\ Column' = Column /\ Timed' = Timed /\ Remembered'
    BY <1>1, BeforeStays DEF Ids, Column, Timed, SameSection, Cmp, Place, Inv
  <1>4. PageInv' /\ page' \in Seq(PageRows) /\ mtime' \in [Ids -> {-1} \cup Nat] /\ \A k \in Timed : mtime'[k] = mtime[k]
    <2>1. CASE ShowRepo(list[i])
      <3>1. Grows(list[i])
        BY <1>2, <2>1, ShowRepoGrows
      <3>2. PageInv' /\ \A k \in Timed : mtime'[k] = mtime[k]
        BY <1>1, <1>2, <3>1, PageGrows
      <3>3. Time(list[i]) \in Nat
        BY <1>2, TimeIsNat DEF Inv
      <3> QED
        BY <1>2, <3>1, <3>2, <3>3 DEF Grows, Inv, Typed
    <2>2. CASE UNCHANGED <<page, last, mtime>>
      <3>1. ASSUME NEW n \in 1..Len(page) PROVE RowInv(n)'
        <4>1. RowInv(n)
          BY DEF Inv, PageInv
        <4>2. {list[j] : j \in 1..(i - 1)} \subseteq {list'[j] : j \in 1..(i' - 1)}
          <5>1. list' = list /\ i' = i + 1 /\ i \in Nat
            BY <1>1 DEF Inv, Typed
          <5> QED
            BY <5>1
        <4>3. page[n].id \in {list[j] : j \in 1..(i - 1)} => page[n].id \in {list'[j] : j \in 1..(i' - 1)}
          BY <4>2
        <4> QED
          BY <1>1, <1>3, <2>2, <4>1, <4>3 DEF RowInv, Section
      <3>2. ASSUME NEW m \in 1..Len(page), NEW n \in 1..Len(page), m < n, page[m].kind = "repo", page[n].kind = "repo"
            PROVE  Follows(m, n)'
        <4>1. PICK j \in 1..(i - 1), k \in 1..(i - 1) : j < k /\ list[j] = page[m].id /\ list[k] = page[n].id
          BY <3>2 DEF Inv, PageInv, Follows
        <4>2. i' = i + 1 /\ i \in Nat
          BY <1>1 DEF Inv, Typed
        <4>3. j \in 1..(i' - 1) /\ k \in 1..(i' - 1)
          BY <4>1, <4>2
        <4> QED
          BY <1>1, <2>2, <4>1, <4>3 DEF Follows
      <3>3. last' = Above(page', Len(page'))
        BY <2>2 DEF Inv, PageInv
      <3>4. PageInv'
        BY <2>2, <3>1, <3>2, <3>3 DEF PageInv
      <3> QED
        BY <2>2, <3>4 DEF Inv, Typed
    <2> QED
      BY <1>1, <2>1, <2>2
  <1>5. Typed'
    <2>1. i' \in 1..(Len(repos) + 1)
      BY <1>1, <1>2 DEF Ids
    <2>2. hits' \in Nat
      BY <1>1 DEF Inv, Typed
    <2> QED
      BY <1>1, <1>3, <1>4, <2>1, <2>2 DEF Inv, Typed, PageRows
  <1>6. ListInv'
    <2>1. Column = None => ~sorted /\ list = AsConfigured
      BY <1>1 DEF Inv, ListInv
    <2>2. Column # None => \A k \in Timed : mtime[k] # -1
      BY <1>1 DEF Inv, ListInv
    <2>3. ASSUME Column # None, IntTimes', NEW m \in Ids, NEW n \in Ids, m < n PROVE InPlace(list[m], list[n])'
      BY <1>1, <1>4, <2>3, OrderStays DEF Printing
    <2>4. AsConfigured' = AsConfigured
      BY <1>3 DEF AsConfigured
    <2>5. IsSite([disk |-> disk, repos |-> repos, cfg |-> cfg])' /\ IsQuery(qry)' /\ list' \in SetToSeqs(Ids)'
      BY <1>1, <1>3 DEF Inv, ListInv
    <2> QED
      BY <1>1, <1>3, <1>4, <2>1, <2>2, <2>3, <2>4, <2>5 DEF ListInv
  <1> QED
    BY <1>4, <1>5, <1>6 DEF Inv

LEMMA PrintPagerInv ==
  ASSUME Inv, PrintPager
  PROVE  Inv'
  <1>1. /\ UNCHANGED <<disk, cfg, repos, qry, list, mtime, sorted, i, hits, last, page, pushes, before>>
        /\ pc = "rows" /\ pc' = "read"
    BY DEF PrintPager, site
  <1>2. Ids' = Ids /\ Column' = Column /\ Timed' = Timed /\ Remembered' /\ AsConfigured' = AsConfigured
    BY <1>1, BeforeStays DEF Ids, Column, Timed, SameSection, Cmp, Place, Inv, AsConfigured
  <1>3. Typed'
    BY <1>1, <1>2 DEF Inv, Typed, PageRows
  <1>4. ListInv'
    <2>1. ASSUME Column # None, IntTimes', NEW m \in Ids, NEW n \in Ids, m < n PROVE InPlace(list[m], list[n])'
      BY <1>1, <2>1, OrderStays DEF Printing
    <2>2. Column = None => ~sorted /\ list = AsConfigured
      BY <1>1 DEF Inv, ListInv
    <2>3. Column # None => \A k \in Timed : mtime[k] # -1
      BY <1>1 DEF Inv, ListInv
    <2>4. IsSite([disk |-> disk, repos |-> repos, cfg |-> cfg])' /\ IsQuery(qry)' /\ list' \in SetToSeqs(Ids)'
      BY <1>1, <1>2 DEF Inv, ListInv
    <2> QED
      BY <1>1, <1>2, <2>1, <2>2, <2>3, <2>4 DEF ListInv
  <1>5. PageInv'
    BY <1>1, PageStays
  <1> QED
    BY <1>3, <1>4, <1>5 DEF Inv

LEMMA PushAnyInv ==
  ASSUME Inv, PushAny
  PROVE  Inv'
  <1>1. UNCHANGED <<cfg, repos, qry, pc, list, mtime, sorted, i, hits, last, page, links, before>>
    BY DEF PushAny, ghost
  <1>2. Ids' = Ids /\ Column' = Column /\ Timed' = Timed /\ Remembered' /\ AsConfigured' = AsConfigured /\ (Fresh' <=> Fresh)
    BY <1>1, BeforeStays DEF Ids, Column, Timed, SameSection, Cmp, Place, Inv, AsConfigured, Fresh
  <1>3. Site'
    <2>1. PICK k \in Ids, t \in NewTimes : disk' = [disk EXCEPT ![k].head = t]
      BY DEF PushAny
    <2>2. t \in Nat
      BY IndexAssumption
    <2>3. disk \in [1..Len(repos) -> [age : Nat, head : Nat, packed : Nat]]
      BY SiteFacts DEF Inv, ListInv, Site, Ids
    <2>4. disk' \in [1..Len(repos) -> [age : Nat, head : Nat, packed : Nat]]
      BY <2>1, <2>2, <2>3 DEF Ids
    <2>5. IsSite([disk |-> disk, repos |-> repos, cfg |-> cfg])
      BY DEF Inv, ListInv
    <2> QED
      BY <1>1, <2>4, <2>5, Zenon DEF Site, IsSite
  <1>4. Typed'
    <2>1. pushes' \in 0..MaxPushes
      BY IndexAssumption DEF PushAny, Inv, Typed
    <2> QED
      BY <1>1, <1>2, <2>1 DEF Inv, Typed, PageRows
  <1>5. ListInv'
    <2>1. (IntTimes' <=> IntTimes) /\ \A j, k : InPlace(j, k)' <=> InPlace(j, k)
      BY <1>1, <1>2 DEF IntTimes, InPlace, SameSection, Cmp, Place
    <2>2. list' \in SetToSeqs(Ids)' /\ IsQuery(qry)'
      BY <1>1, <1>2 DEF Inv, ListInv
    <2> QED
      BY <1>1, <1>2, <1>3, <2>1, <2>2 DEF Inv, ListInv, Site
  <1>6. PageInv'
    BY <1>1, PageStays
  <1> QED
    BY <1>4, <1>5, <1>6 DEF Inv

LEMMA ClickPageInv ==
  ASSUME Inv, ClickPage
  PROVE  Inv'
  <1>1. PICK q \in links : Ask(Asked(QueryString(SiteUrl(q))))
    BY DEF ClickPage
  <1>2. UNCHANGED <<site, pushes, before>> /\ pc' = "begin"
    BY DEF ClickPage
  <1> QED
    BY <1>1, <1>2, AskInv, AskedIsQuery

LEMMA BeginsInv ==
  ASSUME Inv, NEW by, NEW q, NEW id, NEW querystring, Begins(by, q, id, querystring)
  PROVE  Inv'
  <1>1. Ask(Asked(querystring)) /\ UNCHANGED <<site, pushes, before>> /\ pc' = "begin"
    BY DEF Begins
  <1> QED
    BY <1>1, AskInv, AskedIsQuery

LEMMA ClickSortInv ==
  ASSUME Inv, ClickSort
  PROVE  Inv'
  BY BeginsInv DEF ClickSort

LEMMA ClickOwnerInv ==
  ASSUME Inv, ClickOwner
  PROVE  Inv'
  BY BeginsInv DEF ClickOwner

LEMMA SendSearchInv ==
  ASSUME Inv, SendSearch
  PROVE  Inv'
  BY BeginsInv DEF SendSearch

LEMMA OpenRepoInv ==
  ASSUME Inv, OpenRepo
  PROVE  Inv'
  <1> DEFINE q == [search |-> None, url |-> None, sort |-> None, ofs |-> 0]
  <1>1. Ask(q) /\ UNCHANGED <<site, pushes, before>> /\ pc' = "opened"
    BY DEF OpenRepo
  <1>2. IsQuery(q)
    BY IndexAssumption DEF IsQuery
  <1> QED
    BY <1>1, <1>2, AskInv

LEMMA NextInv ==
  ASSUME Inv, [Next]_vars
  PROVE  Inv'
  <1>1. CASE UNCHANGED vars
    <2>1. UNCHANGED <<disk, cfg, repos, qry, pc, list, mtime, sorted, i, hits, last, page, links, pushes, before>>
      BY <1>1 DEF vars, site, ghost
    <2>2. Ids' = Ids /\ Column' = Column /\ Timed' = Timed /\ Remembered' /\ AsConfigured' = AsConfigured /\ (Fresh' <=> Fresh)
      BY <2>1, BeforeStays DEF Ids, Column, Timed, SameSection, Cmp, Place, Inv, AsConfigured, Fresh
    <2>3. (IntTimes' <=> IntTimes) /\ \A j, k : InPlace(j, k)' <=> InPlace(j, k)
      BY <2>1, <2>2 DEF IntTimes, InPlace, SameSection, Cmp, Place
    <2>4. Typed'
      BY <2>1, <2>2 DEF Inv, Typed, PageRows
    <2>5. IsSite([disk |-> disk, repos |-> repos, cfg |-> cfg])' /\ IsQuery(qry)' /\ list' \in SetToSeqs(Ids)'
      BY <2>1, <2>2 DEF Inv, ListInv
    <2>6. ListInv'
      BY <2>1, <2>2, <2>3, <2>5 DEF Inv, ListInv
    <2> QED
      BY <2>1, <2>4, <2>6, PageStays DEF Inv
  <1>2. CASE Begin
    BY <1>2, BeginInv
  <1>3. CASE ReadTime
    BY <1>3, ReadTimeInv
  <1>4. CASE SortRepolist
    BY <1>4, SortRepolistInv
  <1>5. CASE Row
    BY <1>5, RowKeeps
  <1>6. CASE PrintPager
    BY <1>6, PrintPagerInv
  <1>7. CASE ClickPage
    BY <1>7, ClickPageInv
  <1>8. CASE ClickSort
    BY <1>8, ClickSortInv
  <1>9. CASE ClickOwner
    BY <1>9, ClickOwnerInv
  <1>10. CASE SendSearch
    BY <1>10, SendSearchInv
  <1>11. CASE OpenRepo
    BY <1>11, OpenRepoInv
  <1>12. CASE PushAny
    BY <1>12, PushAnyInv
  <1> QED
    BY <1>1, <1>2, <1>3, <1>4, <1>5, <1>6, <1>7, <1>8, <1>9, <1>10, <1>11, <1>12 DEF Next

LEMMA AlwaysInv == Spec => []Inv
  <1>1. Init => Inv
    BY InitInv
  <1>2. Inv /\ [Next]_vars => Inv'
    BY NextInv
  <1> QED
    BY <1>1, <1>2, PTL DEF Spec

\* Every row of the list of repositories stands below the header of its section
\* and in its order, and no section comes twice, on every page a client is sent to
\* and whatever is pushed in between.
THEOREM RowsInOrder == Spec => []OrderInv
  <1>1. Inv => OrderInv
    BY InOrder
  <1> QED
    BY <1>1, AlwaysInv, PTL

-----------------------------------------------------------------------------
(* The numbers of the visible repositories *)

VisibleUpTo(s, n) == {m \in 1..n : s[m] \in VisibleIds}

LEMMA NumberType ==
  ASSUME NEW s, NEW n \in Nat
  PROVE  /\ IsFiniteSet(VisibleUpTo(s, n)) /\ Number(s, n) = Cardinality(VisibleUpTo(s, n)) /\ Number(s, n) \in 0..n
         /\ \A m \in 1..n : s[m] \in VisibleIds => Number(s, n) # 0
  <1>1. IsFiniteSet(1..n) /\ Cardinality(1..n) = n
    BY UpToN
  <1>2. VisibleUpTo(s, n) \subseteq 1..n
    BY DEF VisibleUpTo
  <1>3. IsFiniteSet(VisibleUpTo(s, n)) /\ Cardinality(VisibleUpTo(s, n)) <= n
    BY <1>1, <1>2, FS_Subset
  <1>4. Cardinality(VisibleUpTo(s, n)) \in Nat /\ (Cardinality(VisibleUpTo(s, n)) = 0 <=> VisibleUpTo(s, n) = {})
    BY <1>3, FS_CardinalityType, FS_EmptySet
  <1>5. Number(s, n) = Cardinality(VisibleUpTo(s, n))
    BY DEF Number, VisibleUpTo
  <1>6. \A m \in 1..n : s[m] \in VisibleIds => VisibleUpTo(s, n) # {}
    BY DEF VisibleUpTo
  <1> QED
    BY <1>3, <1>4, <1>5, <1>6

LEMMA NumberNone ==
  ASSUME NEW s
  PROVE  Number(s, 0) = 0
  BY NumberType

LEMMA NumberNext ==
  ASSUME NEW s, NEW n \in Nat
  PROVE  Number(s, n + 1) = IF s[n + 1] \in VisibleIds THEN Number(s, n) + 1 ELSE Number(s, n)
  <1>1. /\ IsFiniteSet(VisibleUpTo(s, n)) /\ Number(s, n) = Cardinality(VisibleUpTo(s, n))
        /\ Number(s, n + 1) = Cardinality(VisibleUpTo(s, n + 1))
    BY NumberType
  <1>2. CASE s[n + 1] \in VisibleIds
    <2>1. VisibleUpTo(s, n + 1) = VisibleUpTo(s, n) \cup {n + 1} /\ n + 1 \notin VisibleUpTo(s, n)
      BY <1>2 DEF VisibleUpTo
    <2> QED
      BY <1>1, <1>2, <2>1, FS_AddElement
  <1>3. CASE s[n + 1] \notin VisibleIds
    <2>1. VisibleUpTo(s, n + 1) = VisibleUpTo(s, n)
      BY <1>3 DEF VisibleUpTo
    <2> QED
      BY <1>1, <1>3, <2>1
  <1> QED
    BY <1>2, <1>3

LEMMA NumberGrows ==
  ASSUME NEW s, NEW n \in Nat, NEW m \in 0..n
  PROVE  Number(s, m) <= Number(s, n)
  <1>1. VisibleUpTo(s, m) \subseteq VisibleUpTo(s, n)
    BY DEF VisibleUpTo
  <1>2. m \in Nat
    OBVIOUS
  <1> QED
    BY <1>1, <1>2, NumberType, FS_Subset

\* In a list there are as many visible repositories as there are.
LEMMA NumberOfAll ==
  ASSUME Site, NEW s \in SetToSeqs(Ids), NEW n \in 0..Len(repos)
  PROVE  /\ IsFiniteSet(VisibleIds) /\ Cardinality(VisibleIds) \in Nat
         /\ Number(s, n) <= Cardinality(VisibleIds)
  <1>1. IsFiniteSet(VisibleIds) /\ Cardinality(VisibleIds) \in Nat
    <2>1. VisibleIds \subseteq Ids
      BY DEF VisibleIds
    <2> QED
      BY <2>1, SiteFacts, FS_Subset, FS_CardinalityType
  <1>2. s \in [Ids -> Ids] /\ (\A j, k \in Ids : j # k => s[j] # s[k]) /\ Ids = 1..Len(repos) /\ Len(repos) \in Nat
    BY Placement, SiteFacts DEF Ids
  <1> DEFINE V == VisibleUpTo(s, n)
             f == [m \in V |-> s[m]]
  <1>3. V \subseteq Ids /\ \A m \in V : s[m] \in VisibleIds
    BY <1>2 DEF VisibleUpTo
  <1> HIDE DEF V
  <1>4. f \in Injection(V, VisibleIds)
    BY <1>2, <1>3 DEF Injection, IsInjective
  <1>5. Cardinality(V) <= Cardinality(VisibleIds)
    BY <1>1, <1>4, FS_Injection
  <1> QED
    BY <1>1, <1>2, <1>5, NumberType DEF V

LEMMA ShowsNothing ==
  ASSUME NEW s, NEW o \in Int
  PROVE  Shows(s, o, 0, {})
  BY DEF Shows, Behind, OnPage

\* What one row more shows.
LEMMA ShowsMore ==
  ASSUME NEW s, NEW o \in Int, NEW n \in Nat, NEW ids, Shows(s, o, n, ids), cfg.maxCount \in Int, IntMax \in Int,
         NEW more, more = ids \/ more = ids \cup {s[n + 1]},
         more # ids => s[n + 1] \in VisibleIds /\ o < Number(s, n + 1),
         o + cfg.maxCount <= IntMax =>
           more = IF s[n + 1] \in VisibleIds /\ o < Number(s, n + 1) /\ Number(s, n + 1) <= o + cfg.maxCount
                  THEN ids \cup {s[n + 1]} ELSE ids
  PROVE  Shows(s, o, n + 1, more)
  <1> DEFINE new == s[n + 1] \in VisibleIds /\ o < Number(s, n + 1)
             fit == Number(s, n + 1) <= o + cfg.maxCount
  <1>1. Behind(s, o, n + 1) = Behind(s, o, n) \cup (IF new THEN {n + 1} ELSE {})
    BY DEF Behind
  <1>2. OnPage(s, o, n + 1) = OnPage(s, o, n) \cup (IF new /\ fit THEN {n + 1} ELSE {})
    BY <1>1 DEF OnPage
  <1> HIDE DEF new, fit
  <1>3. more \subseteq {s[m] : m \in Behind(s, o, n + 1)}
    <2>1. ids \subseteq {s[m] : m \in Behind(s, o, n)}
      BY DEF Shows
    <2>2. {s[m] : m \in Behind(s, o, n)} \subseteq {s[m] : m \in Behind(s, o, n + 1)}
      BY <1>1
    <2>3. more # ids => new
      BY DEF new
    <2>4. new => s[n + 1] \in {s[m] : m \in Behind(s, o, n + 1)}
      BY <1>1
    <2> QED
      BY <2>1, <2>2, <2>3, <2>4
  <1>4. ASSUME o + cfg.maxCount <= IntMax
        PROVE  more = {s[m] : m \in OnPage(s, o, n + 1)}
    <2>1. ids = {s[m] : m \in OnPage(s, o, n)}
      BY <1>4 DEF Shows
    <2>2. more = IF new /\ fit THEN ids \cup {s[n + 1]} ELSE ids
      BY <1>4 DEF new, fit
    <2> QED
      BY <1>2, <2>1, <2>2
  <1> QED
    BY <1>3, <1>4 DEF Shows

LEMMA CountStays ==
  ASSUME repos' = repos, cfg' = cfg, qry'.search = qry.search, qry'.url = qry.url
  PROVE  /\ VisibleIds' = VisibleIds
         /\ \A s, n : Number(s, n)' = Number(s, n)
         /\ \A s, o, n, ids : Shows(s, o, n, ids)' <=> Shows(s, o, n, ids)
  <1>1. \A r : Visible(r)' <=> Visible(r)
    BY DEF Visible, IsMatch, Has, IsInUrl
  <1>2. VisibleIds' = VisibleIds
    BY <1>1 DEF VisibleIds, Ids
  <1>3. \A s, n : Number(s, n)' = Number(s, n)
    BY <1>2 DEF Number
  <1>4. ASSUME NEW s, NEW o, NEW n PROVE Behind(s, o, n)' = Behind(s, o, n) /\ OnPage(s, o, n)' = OnPage(s, o, n)
    BY <1>2, <1>3 DEF Behind, OnPage
  <1> QED
    BY <1>2, <1>3, <1>4 DEF Shows

LEMMA Starts ==
  ASSUME Inv, UNCHANGED <<repos, cfg, qry, page, hits, i, links>>, Fresh, pc' # "read"
  PROVE  CountInv'
  <1>1. Shown' = {}
    <2>1. Len(page') = 0
      BY DEF Fresh
    <2> QED
      BY <2>1 DEF Shown
  <1>2. qry.ofs \in Int /\ hits' = 0 /\ i' - 1 = 0
    BY DEF Inv, ListInv, IsQuery, Fresh
  <1>3. Number(list, i - 1)' = 0
    <2>1. Number(list', 0) = 0
      BY NumberNone
    <2> QED
      BY <1>2, <2>1, CountStays
  <1>4. Shows(list, qry.ofs, i - 1, Shown)'
    <2>1. Shows(list', qry.ofs, 0, {})
      BY <1>2, ShowsNothing
    <2> QED
      BY <1>1, <1>2, <2>1, CountStays
  <1> QED
    BY <1>2, <1>3, <1>4 DEF CountInv

LEMMA ShownGrows ==
  ASSUME Inv, NEW k \in Ids, Grows(k)
  PROVE  Shown' = Shown \cup {k}
  <1> DEFINE L == Len(page)
             M == Len(page')
  <1>1. L \in Nat /\ M \in Nat
    BY Rows DEF Inv, Typed, Grows
  <1>2. /\ \A n \in 1..L : page'[n] = page[n]
        /\ M = L + 1 \/ (M = L + 2 /\ page'[L + 1] = [kind |-> "section", name |-> Section(repos[k])])
        /\ page'[M] = [kind |-> "repo", id |-> k, idle |-> Time(k)]
    BY DEF Grows
  <1> HIDE DEF L, M
  <1>3. page'[M].kind = "repo" /\ page'[M].id = k /\ M \in 1..M /\ \A n \in 1..L : n \in 1..M
    BY <1>1, <1>2
  <1>4. M # L + 1 => page'[L + 1].kind = "section"
    BY <1>1, <1>2
  <1>5. \A n \in 1..M : n \in 1..L \/ n = M \/ (n = L + 1 /\ M # L + 1)
    BY <1>1, <1>2
  <1>6. Shown = {page[n].id : n \in {m \in 1..L : page[m].kind = "repo"}}
    BY DEF Shown, L
  <1>7. Shown' = {page'[n].id : n \in {m \in 1..M : page'[m].kind = "repo"}}
    BY DEF Shown, M
  <1>8. ASSUME NEW x \in Shown' PROVE x \in Shown \cup {k}
    <2>1. PICK n \in 1..M : page'[n].kind = "repo" /\ x = page'[n].id
      BY <1>7
    <2>2. CASE n \in 1..L
      BY <1>2, <1>6, <2>1, <2>2
    <2>3. CASE n = M
      BY <1>3, <2>1, <2>3
    <2>4. CASE n = L + 1 /\ M # L + 1
      <3>1. page'[n].kind = "section"
        BY <1>4, <2>4
      <3> QED
        BY <2>1, <3>1
    <2> QED
      BY <1>5, <2>2, <2>3, <2>4
  <1>9. ASSUME NEW x \in Shown PROVE x \in Shown'
    <2>1. PICK n \in 1..L : page[n].kind = "repo" /\ x = page[n].id
      BY <1>6
    <2>2. n \in 1..M /\ page'[n] = page[n]
      BY <1>2, <1>3
    <2> QED
      BY <1>7, <2>1, <2>2
  <1>10. k \in Shown'
    BY <1>3, <1>7
  <1> QED
    BY <1>8, <1>9, <1>10

LEMMA RowCounts ==
  ASSUME Inv, CountInv, Row
  PROVE  CountInv'
  <1>1. /\ UNCHANGED <<cfg, repos, qry, pc, list, links>> /\ pc = "rows" /\ i' = i + 1
        /\ hits' = IF Counted(list[i]) THEN hits + 1 ELSE hits
    BY DEF Row, site, ghost
  <1>2. PICK below \in Below(hits + 1) :
          IF Visible(repos[list[i]]) /\ hits' > qry.ofs /\ below
            THEN ShowRepo(list[i])
            ELSE UNCHANGED <<page, last, mtime>>
    BY DEF Row
  <1>3. list[i] \in Ids /\ i \in Nat \ {0} /\ hits \in Nat /\ qry.ofs \in Int /\ cfg.maxCount \in Int /\ IntMax \in Int
    <2>1. i <= Len(list) /\ Len(list) = Len(repos) /\ Len(repos) \in Nat /\ list \in [Ids -> Ids]
      BY Placement, SiteFacts DEF Inv, ListInv, Site, Row
    <2>2. i \in Ids
      BY <2>1 DEF Inv, Typed, Ids
    <2>3. cfg.maxCount \in Int /\ IntMax \in Int
      BY SiteFacts DEF Inv, ListInv, Site
    <2> QED
      BY <2>1, <2>2, <2>3 DEF Inv, Typed, ListInv, IsQuery
  <1>4. list[i] \in VisibleIds <=> Visible(repos[list[i]])
    BY <1>3 DEF VisibleIds
  <1> DEFINE n == i - 1
  <1>5. n \in Nat /\ n + 1 = i /\ i' - 1 = n + 1 /\ hits = Number(list, n) /\ Shows(list, qry.ofs, n, Shown)
    BY <1>1, <1>3 DEF CountInv
  <1> HIDE DEF n
  <1>6. hits' = Number(list, n + 1)
    BY <1>1, <1>4, <1>5, NumberNext DEF Counted
  <1> DEFINE new == Visible(repos[list[i]]) /\ hits' > qry.ofs
  <1>7. new => hits' = hits + 1
    BY <1>1 DEF Counted
  <1>8. qry.ofs + cfg.maxCount <= IntMax => below = (hits + 1 <= qry.ofs + cfg.maxCount)
    <2>1. qry.ofs + cfg.maxCount <= IntMax => ~(qry.ofs + cfg.maxCount > IntMax)
      BY <1>3
    <2> QED
      BY <2>1 DEF Below
  <1>9. CASE new /\ below
    <2>1. ShowRepo(list[i])
      BY <1>2, <1>9
    <2>2. Shown' = Shown \cup {list[i]}
      BY <1>3, <2>1, ShowRepoGrows, ShownGrows
    <2>3. list[n + 1] = list[i] /\ list[n + 1] \in VisibleIds /\ qry.ofs < Number(list, n + 1)
      BY <1>3, <1>4, <1>5, <1>6, <1>9
    <2>4. qry.ofs + cfg.maxCount <= IntMax => Number(list, n + 1) <= qry.ofs + cfg.maxCount
      BY <1>6, <1>7, <1>8, <1>9
    <2>5. Shows(list, qry.ofs, n + 1, Shown')
      BY <1>3, <1>5, <2>2, <2>3, <2>4, ShowsMore
    <2> QED
      BY <1>1, <1>5, <1>6, <2>5, CountStays DEF CountInv
  <1>10. CASE ~(new /\ below)
    <2>1. Shown' = Shown
      BY <1>2, <1>10 DEF Shown
    <2>2. qry.ofs + cfg.maxCount <= IntMax =>
            ~(list[n + 1] \in VisibleIds /\ qry.ofs < Number(list, n + 1) /\ Number(list, n + 1) <= qry.ofs + cfg.maxCount)
      <3>1. ASSUME qry.ofs + cfg.maxCount <= IntMax, list[n + 1] \in VisibleIds, qry.ofs < Number(list, n + 1),
                   Number(list, n + 1) <= qry.ofs + cfg.maxCount
            PROVE  FALSE
        <4>1. new
          BY <1>3, <1>4, <1>5, <1>6, <3>1
        <4>2. below
          BY <1>6, <1>7, <1>8, <3>1, <4>1
        <4> QED
          BY <1>10, <4>1, <4>2
      <3> QED
        BY <3>1
    <2>3. Shows(list, qry.ofs, n + 1, Shown')
      BY <1>3, <1>5, <2>1, <2>2, ShowsMore
    <2> QED
      BY <1>1, <1>5, <1>6, <2>3, CountStays DEF CountInv
  <1> QED
    BY <1>9, <1>10

LEMMA PagerCounts ==
  ASSUME Inv, CountInv, PrintPager
  PROVE  CountInv'
  <1>1. /\ UNCHANGED <<cfg, repos, qry, list, i, hits, page>> /\ pc = "rows" /\ i = Len(list) + 1
        /\ links' = IF hits > cfg.maxCount THEN Pager(hits) ELSE {}
    BY DEF PrintPager, site
  <1>2. Len(list) = Len(repos)
    BY Placement DEF Inv, ListInv, Site
  <1>3. Shown' = Shown /\ \A items : Pager(items)' = Pager(items)
    BY <1>1 DEF Shown, Pager
  <1>4. hits' = Number(list, i - 1)' /\ Shows(list, qry.ofs, i - 1, Shown)'
    BY <1>1, <1>3, CountStays DEF CountInv
  <1> QED
    BY <1>1, <1>2, <1>3, <1>4 DEF CountInv

LEMMA NextCounts ==
  ASSUME Inv, CountInv, [Next]_vars
  PROVE  CountInv'
  <1>1. CASE UNCHANGED vars \/ PushAny
    <2>1. UNCHANGED <<cfg, repos, qry, pc, list, i, hits, page, links>>
      BY <1>1 DEF vars, site, ghost, PushAny
    <2>2. Shown' = Shown /\ \A items : Pager(items)' = Pager(items)
      BY <2>1 DEF Shown, Pager
    <2> QED
      BY <2>1, <2>2, CountStays DEF CountInv
  <1>2. CASE Begin \/ SortRepolist \/ ReadTime
    <2>1. UNCHANGED <<repos, cfg, qry, page, hits, i, links>> /\ pc \in {"begin", "sort"} /\ pc' # "read"
      BY <1>2 DEF Begin, SortRepolist, ReadTime, site
    <2>2. Fresh
      BY <2>1 DEF Inv, ListInv
    <2> QED
      BY <2>1, <2>2, Starts
  <1>3. CASE Row
    BY <1>3, RowCounts
  <1>4. CASE PrintPager
    BY <1>4, PagerCounts
  <1>5. CASE ClickPage \/ ClickSort \/ ClickOwner \/ SendSearch \/ OpenRepo
    <2>1. pc' \in {"begin", "opened"}
      BY <1>5 DEF ClickPage, ClickSort, ClickOwner, SendSearch, OpenRepo, Begins
    <2> QED
      BY <2>1 DEF CountInv
  <1> QED
    BY <1>1, <1>2, <1>3, <1>4, <1>5 DEF Next

-----------------------------------------------------------------------------
(* The same order on each page *)

LEMMA TimesStay ==
  ASSUME UNCHANGED <<disk, cfg, repos>>, qry'.sort = qry.sort
  PROVE  Ids' = Ids /\ Column' = Column /\ Timed' = Timed /\ Times' = Times /\ AsConfigured' = AsConfigured
  <1>1. Ids' = Ids /\ Column' = Column
    BY DEF Ids, Column
  <1>2. Timed' = Timed
    BY <1>1 DEF Timed, SameSection, Cmp, Place
  <1>3. \A k : OnDisk(k)' = OnDisk(k)
    BY DEF OnDisk
  <1> QED
    BY <1>1, <1>2, <1>3 DEF Times, AsConfigured

LEMMA SeenStays ==
  ASSUME SeenPages, UNCHANGED <<disk, cfg, repos, before>>,
         qry'.sort = qry.sort, qry'.search = qry.search, qry'.url = qry.url,
         seen' = seen
  PROVE  SeenPages'
  <1>1. Column' = Column /\ Times' = Times /\ AsConfigured' = AsConfigured
    BY TimesStay
  <1>2. (Known' <=> Known) /\ Order' = Order
    BY <1>1 DEF Known, Order
  <1>3. \A s, o, n, ids : Shows(s, o, n, ids)' <=> Shows(s, o, n, ids)
    BY CountStays
  <1> QED
    BY <1>2, <1>3 DEF SeenPages

LEMMA NothingSeen ==
  ASSUME seen' = <<>>
  PROVE  SeenPages'
  BY DEF SeenPages

\* What a new process has not read yet.
LEMMA AskSeen ==
  ASSUME Inv, NEW q, Ask(q), UNCHANGED site, pc' \in {"begin", "opened"}, SeenPages'
  PROVE  SeenInv'
  <1>1. \A k \in Ids' : mtime'[k] = -1
    BY DEF Ask, site, Ids
  <1> QED
    BY <1>1 DEF SeenInv, TimesRead, SameOrder

LEMMA BeginSeen ==
  ASSUME Inv, SeenInv, Begin, pushes = 0
  PROVE  SeenInv'
  <1>1. UNCHANGED <<disk, cfg, repos, qry, list, mtime, before, seen>> /\ pc = "begin"
    BY DEF Begin, site, ghost
  <1>2. Ids' = Ids /\ Column' = Column /\ Times' = Times /\ AsConfigured' = AsConfigured
    BY <1>1, TimesStay
  <1>3. TimesRead'
    BY <1>1, <1>2 DEF SeenInv, TimesRead
  <1>4. SameOrder'
    <2>1. pc' # "read" /\ (pc' = "rows" => Column = None)
      BY DEF Begin
    <2>2. list = AsConfigured
      BY <1>1 DEF Inv, ListInv, Fresh
    <2> QED
      BY <1>1, <1>2, <2>1, <2>2 DEF SameOrder, Known, Order
  <1>5. SeenPages'
    BY <1>1, SeenStays DEF SeenInv
  <1> QED
    BY <1>3, <1>4, <1>5 DEF SeenInv

LEMMA ReadTimeSeen ==
  ASSUME Inv, SeenInv, ReadTime, pushes = 0
  PROVE  SeenInv'
  <1>1. UNCHANGED <<disk, cfg, repos, qry, pc, list, before, seen>> /\ pc = "sort"
    BY DEF ReadTime, site, ghost
  <1>2. Ids' = Ids /\ Times' = Times
    BY <1>1, TimesStay
  <1>3. PICK k \in Timed : mtime[k] = -1 /\ mtime' = [mtime EXCEPT ![k] = Time(k)]
    BY DEF ReadTime
  <1>4. k \in Ids /\ Time(k) = Times[k]
    <2>1. k \in Ids
      BY DEF Timed
    <2> QED
      BY <1>3, <2>1 DEF Time, Times
  <1>5. TimesRead'
    <2>1. \A j \in Ids : mtime[j] \in {-1, Times[j]}
      BY <1>1 DEF SeenInv, TimesRead
    <2>2. mtime \in [Ids -> {-1} \cup Nat]
      BY DEF Inv, Typed
    <2> QED
      BY <1>2, <1>3, <1>4, <2>1, <2>2 DEF TimesRead
  <1>6. SeenPages'
    BY <1>1, SeenStays DEF SeenInv
  <1> QED
    BY <1>1, <1>5, <1>6 DEF SeenInv, SameOrder

LEMMA SortSeen ==
  ASSUME Inv, SeenInv, SortRepolist, pushes = 0
  PROVE  SeenInv'
  <1>1. /\ UNCHANGED <<disk, cfg, repos, qry, mtime, seen>> /\ pc = "sort" /\ pc' = "rows"
        /\ \A k \in Timed : mtime[k] # -1
    BY DEF SortRepolist, site
  <1>2. Ids' = Ids /\ Column' = Column /\ Times' = Times /\ AsConfigured' = AsConfigured
    BY <1>1, TimesStay
  <1>3. mtime = Times
    <2>1. ASSUME NEW k \in Ids PROVE mtime[k] = Times[k]
      <3>1. mtime[k] \in {-1, Times[k]}
        BY <1>1 DEF SeenInv, TimesRead
      <3>2. k \notin Timed => Times[k] = -1
        BY DEF Times
      <3> QED
        BY <1>1, <3>1, <3>2
    <2>2. mtime \in [Ids -> {-1} \cup Nat]
      BY DEF Inv, Typed
    <2> QED
      BY <2>1, <2>2 DEF Times
  <1>4. /\ before' = [input |-> <<Column, mtime>>, order |-> list']
        /\ before.input = <<Column, mtime>> => list' = before.order
    BY DEF SortRepolist
  <1>5. Column # None
    BY <1>1 DEF Inv, ListInv
  <1>6. SameOrder'
    <2>2. before'.input = <<Column', Times'>> /\ before'.order = list'
      BY <1>2, <1>3, <1>4
    <2> QED
      BY <1>2, <1>5, <2>2 DEF SameOrder, Known, Order
  <1>7. SeenPages'
    <2>1. CASE Known
      <3>1. before.input = <<Column, mtime>>
        BY <1>3, <1>5, <2>1 DEF Known
      <3>2. Order' = Order
        BY <1>2, <1>4, <1>5, <3>1 DEF Order
      <3>3. Known'
        BY <1>1, <1>6 DEF SameOrder
      <3>4. \A s, o, n, ids : Shows(s, o, n, ids)' <=> Shows(s, o, n, ids)
        BY <1>1, CountStays
      <3> QED
        BY <1>1, <3>2, <3>3, <3>4 DEF SeenInv, SeenPages
    <2>2. CASE ~Known
      <3>1. DOMAIN seen = {}
        BY <2>2 DEF SeenInv, SeenPages
      <3> QED
        BY <1>1, <3>1 DEF SeenPages
    <2> QED
      BY <2>1, <2>2
  <1> QED
    BY <1>1, <1>6, <1>7 DEF SeenInv, TimesRead

LEMMA RowSeen ==
  ASSUME Inv, SeenInv, Row, pushes = 0
  PROVE  SeenInv'
  <1>1. UNCHANGED <<disk, cfg, repos, qry, pc, list, before, seen>> /\ pc = "rows"
    BY DEF Row, site, ghost
  <1>2. Ids' = Ids /\ Column' = Column /\ Times' = Times /\ AsConfigured' = AsConfigured
    BY <1>1, TimesStay
  <1>3. SameOrder'
    BY <1>1, <1>2 DEF SeenInv, SameOrder, Known, Order
  <1>4. SeenPages'
    BY <1>1, SeenStays DEF SeenInv
  <1> QED
    BY <1>1, <1>3, <1>4 DEF SeenInv, TimesRead

LEMMA PagerSeen ==
  ASSUME Inv, CountInv, SeenInv, PrintPager, pushes = 0
  PROVE  SeenInv'
  <1>1. /\ UNCHANGED <<disk, cfg, repos, qry, list, before>> /\ pc = "rows" /\ pc' = "read" /\ i = Len(list) + 1
        /\ seen' = IF qry.ofs >= 0 /\ qry.ofs % cfg.maxCount = 0
                     THEN [o \in DOMAIN seen \cup {qry.ofs} |-> IF o = qry.ofs THEN Shown ELSE seen[o]]
                     ELSE seen
    BY DEF PrintPager, site
  <1>2. Ids' = Ids /\ Column' = Column /\ Times' = Times /\ AsConfigured' = AsConfigured
    BY <1>1, TimesStay
  <1>3. (Known' <=> Known) /\ Order' = Order /\ Known /\ list = Order
    BY <1>1, <1>2 DEF SeenInv, SameOrder, Known, Order
  <1>4. Shows(Order, qry.ofs, Len(repos), Shown)
    <2>1. i - 1 = Len(repos)
      BY <1>1, Placement, SiteFacts DEF Inv, ListInv, Site
    <2> QED
      BY <1>1, <1>3, <2>1 DEF CountInv
  <1>5. qry.ofs \in Int /\ qry.ofs <= IntMax /\ IntMax \in Nat
    BY SiteFacts DEF Inv, ListInv, Site, IsQuery
  <1>6. \A s, o, n, ids : Shows(s, o, n, ids)' <=> Shows(s, o, n, ids)
    BY <1>1, CountStays
  <1>7. SeenPages'
    <2>1. ASSUME NEW o \in DOMAIN seen'
          PROVE  o \in 0..IntMax /\ o % cfg.maxCount = 0 /\ Shows(Order, o, Len(repos), seen'[o])
      <3>1. CASE qry.ofs >= 0 /\ qry.ofs % cfg.maxCount = 0 /\ o = qry.ofs
        <4>1. seen'[o] = Shown
          BY <1>1, <3>1
        <4> QED
          BY <1>4, <1>5, <3>1, <4>1
      <3>2. CASE ~(qry.ofs >= 0 /\ qry.ofs % cfg.maxCount = 0 /\ o = qry.ofs)
        <4>1. o \in DOMAIN seen /\ seen'[o] = seen[o]
          BY <1>1, <2>1, <3>2
        <4> QED
          BY <4>1 DEF SeenInv, SeenPages
      <3> QED
        BY <3>1, <3>2
    <2> QED
      BY <1>1, <1>3, <1>6, <2>1 DEF SeenPages
  <1>8. SameOrder'
    BY <1>1, <1>3 DEF SameOrder
  <1> QED
    BY <1>1, <1>7, <1>8 DEF SeenInv, TimesRead

LEMMA ClickSeen ==
  ASSUME Inv, SeenInv, ClickPage, pushes = 0
  PROVE  SeenInv'
  <1>1. PICK q \in links :
          /\ Ask(Asked(QueryString(SiteUrl(q))))
          /\ seen' = IF Asked(QueryString(SiteUrl(q))).search = qry.search /\ Asked(QueryString(SiteUrl(q))).sort = qry.sort
                       THEN seen ELSE <<>>
    BY DEF ClickPage
  <1> DEFINE arrived == Asked(QueryString(SiteUrl(q)))
  <1>2. arrived.url = qry.url
    BY DEF Asked
  <1> HIDE DEF arrived
  <1>3. Ask(arrived) /\ seen' = IF arrived.search = qry.search /\ arrived.sort = qry.sort THEN seen ELSE <<>>
    BY <1>1 DEF arrived
  <1>4. qry' = arrived
    BY <1>3 DEF Ask
  <1>5. UNCHANGED <<disk, cfg, repos, before>> /\ pc' = "begin"
    BY DEF ClickPage, site
  <1>6. SeenPages'
    <2>1. CASE arrived.search = qry.search /\ arrived.sort = qry.sort
      BY <1>2, <1>3, <1>4, <1>5, <2>1, SeenStays DEF SeenInv
    <2>2. CASE ~(arrived.search = qry.search /\ arrived.sort = qry.sort)
      BY <1>3, <2>2, NothingSeen
    <2> QED
      BY <2>1, <2>2
  <1> QED
    BY <1>3, <1>5, <1>6, AskSeen DEF site

LEMMA BeginsSeen ==
  ASSUME Inv, NEW by, NEW q, NEW id, NEW querystring, Begins(by, q, id, querystring)
  PROVE  SeenInv'
  <1>1. Ask(Asked(querystring)) /\ UNCHANGED site /\ pc' = "begin" /\ seen' = <<>>
    BY DEF Begins
  <1> QED
    BY <1>1, AskSeen, NothingSeen

LEMMA OpenSeen ==
  ASSUME Inv, OpenRepo
  PROVE  SeenInv'
  <1>1. /\ Ask([search |-> None, url |-> None, sort |-> None, ofs |-> 0])
        /\ UNCHANGED site /\ pc' = "opened" /\ seen' = <<>>
    BY DEF OpenRepo
  <1> QED
    BY <1>1, AskSeen, NothingSeen

LEMMA NextSeen ==
  ASSUME Inv, CountInv, SeenInv, [Next]_vars
  PROVE  SeenInv'
  <1>1. CASE UNCHANGED vars
    <2>1. UNCHANGED <<disk, cfg, repos, qry, pc, list, mtime, before, pushes, seen>>
      BY <1>1 DEF vars, site, ghost
    <2>2. Ids' = Ids /\ Column' = Column /\ Times' = Times /\ AsConfigured' = AsConfigured
      BY <2>1, TimesStay
    <2>3. (TimesRead' <=> TimesRead) /\ (SameOrder' <=> SameOrder)
      BY <2>1, <2>2 DEF TimesRead, SameOrder, Known, Order
    <2> QED
      BY <2>1, <2>3, SeenStays DEF SeenInv
  <1>2. CASE PushAny
    <2>1. pushes' # 0
      BY <1>2 DEF PushAny, Inv, Typed
    <2> QED
      BY <2>1 DEF SeenInv
  <1>3. CASE ClickSort \/ ClickOwner \/ SendSearch \/ OpenRepo
    BY <1>3, BeginsSeen, OpenSeen DEF ClickSort, ClickOwner, SendSearch
  <1>4. CASE Begin \/ ReadTime \/ SortRepolist \/ Row \/ PrintPager \/ ClickPage
    <2>1. CASE pushes = 0
      BY <1>4, <2>1, BeginSeen, ReadTimeSeen, SortSeen, RowSeen, PagerSeen, ClickSeen
    <2>2. CASE pushes # 0
      <3>1. pushes' = pushes
        BY <1>4 DEF Begin, ReadTime, SortRepolist, Row, PrintPager, ClickPage
      <3> QED
        BY <2>2, <3>1 DEF SeenInv
    <2> QED
      BY <2>1, <2>2
  <1> QED
    BY <1>1, <1>2, <1>3, <1>4 DEF Next

-----------------------------------------------------------------------------
(* The pages of the list *)

LEMMA Multiples ==
  ASSUME NEW c \in Nat \ {0}, NEW o \in Nat, NEW p \in Nat, o % c = 0, p % c = 0, o < p
  PROVE  o + c <= p
  <1>1. o = c * (o \div c) /\ p = c * (p \div c) /\ o \div c \in Nat /\ p \div c \in Nat
    OBVIOUS
  <1> DEFINE a == o \div c
             b == p \div c
  <1>2. a \in Nat /\ b \in Nat /\ o = c * a /\ p = c * b
    BY <1>1
  <1> HIDE DEF a, b
  <1>3. a < b
    BY <1>2
  <1>4. c * a + c <= c * b
    BY <1>2, <1>3
  <1> QED
    BY <1>2, <1>4

LEMMA PageOfNumber ==
  ASSUME NEW c \in Nat \ {0}, NEW n \in Nat \ {0}, NEW h \in Nat, n <= h
  PROVE  \E p \in 0..((h - 1) \div c) : /\ p * c \in Nat /\ p * c < n /\ n <= p * c + c
                                        /\ (p * c) % c = 0
  <1> DEFINE p == (n - 1) \div c
  <1>1. p \in Nat /\ p * c < n /\ n <= p * c + c
    OBVIOUS
  <1>2. n - 1 \in Nat /\ h - 1 \in Nat /\ n - 1 <= h - 1
    OBVIOUS
  <1>3. p <= (h - 1) \div c /\ (h - 1) \div c \in Nat
    BY <1>2
  <1>4. p * c \in Nat /\ (p * c) % c = 0
    BY <1>1
  <1> DEFINE t == (h - 1) \div c
             v == p * c
  <1>5. p \in 0..t
    BY <1>1, <1>3
  <1>6. v = p * c /\ v \in Nat /\ v < n /\ n <= v + c /\ v % c = 0
    BY <1>1, <1>4
  <1> SUFFICES \E x \in 0..t : x * c \in Nat /\ x * c < n /\ n <= x * c + c /\ (x * c) % c = 0
    OBVIOUS
  <1> HIDE DEF p, t, v
  <1> QED
    BY <1>5, <1>6

LEMMA PageTypes ==
  ASSUME Inv, CountInv
  PROVE  TypeOK
  <1>1. /\ list \in Seq(Ids) /\ Len(list) = Len(repos) /\ Len(repos) \in Nat /\ list \in [Ids -> Ids]
        /\ (\A x \in Ids : \E k \in Ids : list[k] = x) /\ Cardinality(Ids) = Len(repos)
    BY Placement, SiteFacts DEF Inv, ListInv, Site
  <1>2. Cardinality(ToSet(list)) = Len(repos)
    <2>1. ToSet(list) = Ids
      BY <1>1 DEF ToSet
    <2> QED
      BY <1>1, <2>1
  <1>3. hits <= Cardinality(VisibleIds)
    <2>1. list \in SetToSeqs(Ids) /\ Site /\ 0 \in 0..Len(repos)
      BY <1>1 DEF Inv, ListInv, Site
    <2>2. CASE Printing
      <3>1. hits = Number(list, i - 1) /\ i - 1 \in 0..Len(repos)
        BY <1>1, <2>2 DEF CountInv, Printing, Inv, Typed
      <3> QED
        BY <2>1, <3>1, NumberOfAll
    <2>3. CASE ~Printing
      <3>1. hits = 0
        BY <2>3 DEF Inv, Typed, ListInv, Fresh, Printing
      <3>2. Cardinality(VisibleIds) \in Nat
        BY <2>1, NumberOfAll
      <3> QED
        BY <3>1, <3>2
    <2> QED
      BY <2>2, <2>3
  <1> QED
    BY <1>1, <1>2, <1>3 DEF TypeOK, Inv, Typed

LEMMA OrderIsList ==
  ASSUME Inv, Known
  PROVE  Order \in SetToSeqs(Ids)
  <1>1. CASE Column = None
    <2>1. Len(repos) \in Nat
      BY SiteFacts DEF Inv, ListInv, Site
    <2> QED
      BY <1>1, <2>1, AsConfiguredIsList DEF Order
  <1>2. CASE Column # None
    <2>1. before.input = <<Column, Times>> /\ before.input # <<>>
      BY <1>2 DEF Known
    <2>2. before.order \in Orders(before.input[1], before.input[2])
      BY <2>1 DEF Inv, ListInv, Remembered
    <2>3. before.order \in SetToSeqs(Ids)
      BY <2>2, OrdersAreLists
    <2> QED
      BY <1>2, <2>3 DEF Order
  <1> QED
    BY <1>1, <1>2

\* Two pages show different numbers.
LEMMA PagesDisjoint ==
  ASSUME Inv, SeenInv, pushes = 0, NEW o \in DOMAIN seen, NEW p \in DOMAIN seen, o < p
  PROVE  seen[o] \cap seen[p] = {}
  <1>1. /\ Known /\ o \in 0..IntMax /\ o % cfg.maxCount = 0 /\ Shows(Order, o, Len(repos), seen[o])
        /\ p \in 0..IntMax /\ p % cfg.maxCount = 0 /\ Shows(Order, p, Len(repos), seen[p])
    BY DEF SeenInv, SeenPages
  <1>2. cfg.maxCount \in Nat \ {0} /\ o \in Nat /\ p \in Nat /\ IntMax \in Nat /\ Len(repos) \in Nat /\ Ids = 1..Len(repos)
    BY <1>1, SiteFacts DEF Inv, ListInv, Site, Ids
  <1>3. o + cfg.maxCount <= p
    BY <1>1, <1>2, Multiples
  <1>4. o + cfg.maxCount <= IntMax
    BY <1>1, <1>2, <1>3
  <1>5. \A j, k \in Ids : j # k => Order[j] # Order[k]
    BY <1>1, OrderIsList, Placement DEF Inv, ListInv, Site
  <1> SUFFICES ASSUME NEW x \in seen[o], x \in seen[p] PROVE FALSE
    OBVIOUS
  <1>6. PICK m \in OnPage(Order, o, Len(repos)) : x = Order[m]
    BY <1>1, <1>4 DEF Shows
  <1>7. PICK n \in Behind(Order, p, Len(repos)) : x = Order[n]
    BY <1>1 DEF Shows
  <1>8. m \in Ids /\ n \in Ids /\ Number(Order, m) <= o + cfg.maxCount /\ p < Number(Order, n)
    BY <1>2, <1>6, <1>7 DEF OnPage, Behind
  <1>9. m = n
    BY <1>5, <1>6, <1>7, <1>8
  <1>10. Number(Order, m) \in Int
    BY <1>2, <1>8, NumberType
  <1> QED
    BY <1>2, <1>3, <1>8, <1>9, <1>10

\* The number of a visible repository is on one of the pages.
LEMMA PagesShow ==
  ASSUME Inv, CountInv, SeenInv, pushes = 0, pc = "read",
         NEW all, all = (IF links = {} THEN {0} ELSE {q.ofs : q \in links}), all \subseteq DOMAIN seen,
         NEW x \in VisibleIds
  PROVE  \E o \in all : x \in seen[o]
  <1>1. /\ Known /\ list = Order /\ hits = Number(list, Len(repos))
        /\ links = IF hits > cfg.maxCount THEN Pager(hits) ELSE {}
    <2>1. i = Len(repos) + 1 /\ i - 1 = Len(repos)
      BY SiteFacts DEF CountInv, Inv, ListInv, Site
    <2> QED
      BY <2>1 DEF CountInv, SeenInv, SameOrder
  <1>2. /\ cfg.maxCount \in Nat \ {0} /\ cfg.maxCount <= IntMax /\ IntMax \in Nat
        /\ Len(repos) \in Nat /\ Ids = 1..Len(repos)
        /\ \A o \in 0..(Len(repos) - 1) : o % cfg.maxCount = 0 => o + cfg.maxCount <= IntMax
    BY SiteFacts DEF Inv, ListInv, Site, Ids
  <1>3. x \in Ids /\ \A y \in Ids : \E k \in Ids : list[k] = y
    BY Placement DEF Inv, ListInv, Site, VisibleIds
  <1>4. PICK m \in Ids : list[m] = x
    BY <1>3
  <1> DEFINE c == Number(list, m)
  <1>5. c \in Nat \ {0} /\ c <= hits /\ hits \in Nat /\ hits <= Len(repos)
    <2>1. m \in Nat /\ m \in 1..m /\ m \in 0..Len(repos) /\ list[m] \in VisibleIds
      BY <1>2, <1>4
    <2>2. c \in Nat /\ c # 0
      BY <2>1, NumberType
    <2>3. c <= hits /\ hits \in 0..Len(repos)
      BY <1>1, <1>2, <2>1, NumberGrows, NumberType
    <2> QED
      BY <1>2, <2>2, <2>3
  <1>6. ASSUME NEW o \in all, o \in Nat, o < c, c <= o + cfg.maxCount, o % cfg.maxCount = 0
        PROVE  x \in seen[o]
    <2>1. o \in DOMAIN seen
      OBVIOUS
    <2>2. Shows(list, o, Len(repos), seen[o])
      BY <1>1, <2>1 DEF SeenInv, SeenPages
    <2>3. o \in 0..(Len(repos) - 1)
      BY <1>2, <1>5, <1>6
    <2>4. seen[o] = {list[k] : k \in OnPage(list, o, Len(repos))}
      BY <1>2, <1>6, <2>2, <2>3 DEF Shows
    <2>5. m \in OnPage(list, o, Len(repos))
      BY <1>2, <1>4, <1>6 DEF OnPage, Behind
    <2> QED
      BY <1>4, <2>4, <2>5
  <1> HIDE DEF c
  <1>7. CASE hits > cfg.maxCount
    <2>1. PICK n \in 0..((hits - 1) \div cfg.maxCount) :
             /\ n * cfg.maxCount \in Nat /\ n * cfg.maxCount < c /\ c <= n * cfg.maxCount + cfg.maxCount
             /\ (n * cfg.maxCount) % cfg.maxCount = 0
      BY <1>2, <1>5, PageOfNumber
    <2> DEFINE o == n * cfg.maxCount
               q == [qry EXCEPT !.ofs = o]
    <2>2. links = Pager(hits)
      BY <1>1, <1>7
    <2>3. q \in links /\ links # {}
      BY <2>1, <2>2 DEF Pager
    <2>4. q.ofs = o
      BY DEF Inv, ListInv, IsQuery
    <2> HIDE DEF q
    <2>5. o \in all
      BY <2>3, <2>4
    <2> QED
      BY <1>6, <2>1, <2>5
  <1>8. CASE ~(hits > cfg.maxCount)
    <2>1. 0 \in all
      BY <1>1, <1>8
    <2>2. 0 < c /\ c <= 0 + cfg.maxCount /\ 0 % cfg.maxCount = 0
      BY <1>2, <1>5, <1>8
    <2> QED
      BY <1>6, <2>1, <2>2
  <1> QED
    BY <1>7, <1>8

LEMMA PagesTogether ==
  ASSUME Inv, CountInv, SeenInv
  PROVE  PagesOnce
  <1> SUFFICES ASSUME pushes = 0 PROVE PagesOnce
    BY DEF PagesOnce
  <1>1. ASSUME NEW o \in DOMAIN seen, NEW p \in DOMAIN seen, o # p PROVE seen[o] \cap seen[p] = {}
    <2>1. o \in 0..IntMax /\ p \in 0..IntMax /\ IntMax \in Nat
      BY SiteFacts DEF SeenInv, SeenPages, Inv, ListInv, Site
    <2>2. o < p \/ p < o
      BY <1>1, <2>1
    <2> QED
      BY <2>2, PagesDisjoint
  <1> DEFINE all == IF links = {} THEN {0} ELSE {q.ofs : q \in links}
  <1>2. ASSUME pc = "read", all \subseteq DOMAIN seen PROVE UNION {seen[o] : o \in all} = VisibleIds
    <2>1. ASSUME NEW o \in all, NEW x \in seen[o] PROVE x \in VisibleIds
      <3>1. o \in DOMAIN seen
        BY <1>2
      <3>2. Shows(Order, o, Len(repos), seen[o])
        BY <3>1 DEF SeenInv, SeenPages
      <3>3. PICK m \in Behind(Order, o, Len(repos)) : x = Order[m]
        BY <3>2 DEF Shows
      <3> QED
        BY <3>3 DEF Behind
    <2>2. ASSUME NEW x \in VisibleIds PROVE \E o \in all : x \in seen[o]
      BY <1>2, PagesShow
    <2> HIDE DEF all
    <2> QED
      BY <2>1, <2>2
  <1> QED
    BY <1>1, <1>2 DEF PagesOnce

LEMMA AlwaysSeen == Spec => [](Inv /\ CountInv /\ SeenInv)
  <1>1. ASSUME Init PROVE Inv /\ CountInv /\ SeenInv
    <2>1. pc = "begin" /\ seen = <<>> /\ mtime = [k \in Ids |-> -1]
      BY <1>1 DEF Init
    <2>2. CountInv
      BY <2>1 DEF CountInv
    <2>3. SeenPages
      BY <2>1 DEF SeenPages
    <2>4. SeenInv
      BY <2>1, <2>3 DEF SeenInv, TimesRead, SameOrder
    <2> QED
      BY <1>1, <2>2, <2>4, InitInv
  <1>2. Inv /\ CountInv /\ SeenInv /\ [Next]_vars => (Inv /\ CountInv /\ SeenInv)'
    BY NextInv, NextCounts, NextSeen
  <1> QED
    BY <1>1, <1>2, PTL DEF Spec

\* The pages of the list, each of them sorted anew and counted by a process of its
\* own, are disjoint and together show every repository the client may see; what is
\* counted is visible, and no sort loses a repository.
THEOREM PagesCoverList == Spec => []PagesInv
  <1>1. Inv /\ CountInv /\ SeenInv => PagesInv
    BY PageTypes, PagesTogether DEF PagesInv
  <1> QED
    BY <1>1, AlwaysSeen, PTL
=============================================================================
