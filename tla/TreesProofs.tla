---------------------------- MODULE TreesProofs ----------------------------
(***************************************************************************)
(* Theorems about the pages that walk a tree, for every commit whose       *)
(* directories hold what is in them, every path and every list of readmes. *)
(***************************************************************************)
EXTENDS Trees, SequenceTheorems, FiniteSetTheorems, TLAPS

-----------------------------------------------------------------------------
(* Paths *)

N == Range(Names)

LEMMA PrefixAt ==
  ASSUME NEW s \in Seq(N), NEW q \in Seq(N)
  PROVE  IsPrefix(s, q) <=> Len(s) <= Len(q) /\ \A i \in 1..Len(s) : s[i] = q[i]
  <1>1. Len(s) \in Nat /\ Len(q) \in Nat /\ SubSeq(s, 1, Len(s)) = s
    OBVIOUS
  <1>2. ASSUME Len(s) <= Len(q)
        PROVE  SubSeq(q, 1, Len(s)) = s <=> \A i \in 1..Len(s) : s[i] = q[i]
    <2>1. /\ SubSeq(q, 1, Len(s)) \in Seq(N) /\ Len(SubSeq(q, 1, Len(s))) = Len(s)
          /\ \A i \in 1..Len(s) : SubSeq(q, 1, Len(s))[i] = q[i]
      BY <1>1, <1>2
    <2> QED
      BY <2>1, SeqEqual
  <1> QED
    BY <1>1, <1>2 DEF IsPrefix

LEMMA SamePath ==
  ASSUME NEW s \in Seq(N), NEW q \in Seq(N), IsPrefix(s, q), Len(q) <= Len(s)
  PROVE  s = q
  BY PrefixAt, SeqEqual

\* An entry is on the way to q if its directory is, and q goes through it.
LEMMA AppendPrefix ==
  ASSUME NEW base \in Seq(N), NEW n \in N, NEW q \in Seq(N)
  PROVE  /\ Append(base, n) \in Seq(N) /\ Len(Append(base, n)) = Len(base) + 1
         /\ IsPrefix(Append(base, n), q) <=>
              IsPrefix(base, q) /\ Len(base) < Len(q) /\ q[Len(base) + 1] = n
  <1> DEFINE p == Append(base, n)
  <1>1. /\ p \in Seq(N) /\ Len(p) = Len(base) + 1 /\ p[Len(base) + 1] = n
        /\ \A i \in 1..Len(base) : p[i] = base[i]
        /\ Len(base) \in Nat /\ Len(q) \in Nat
    BY AppendProperties
  <1> HIDE DEF p
  <1>2. IsPrefix(p, q) <=> Len(p) <= Len(q) /\ \A i \in 1..Len(p) : p[i] = q[i]
    BY <1>1, PrefixAt
  <1>3. IsPrefix(base, q) <=> Len(base) <= Len(q) /\ \A i \in 1..Len(base) : base[i] = q[i]
    BY PrefixAt
  <1>4. ASSUME IsPrefix(p, q) PROVE IsPrefix(base, q) /\ Len(base) < Len(q) /\ q[Len(base) + 1] = n
    BY <1>1, <1>2, <1>3, <1>4
  <1>5. ASSUME IsPrefix(base, q), Len(base) < Len(q), q[Len(base) + 1] = n PROVE IsPrefix(p, q)
    <2>1. ASSUME NEW i \in 1..Len(p) PROVE p[i] = q[i]
      BY <1>1, <1>3, <1>5
    <2> QED
      BY <2>1, <1>1, <1>2, <1>5
  <1> QED
    BY <1>1, <1>4, <1>5 DEF p

\* What TreesAssumption says of the tree.
LEMMA TreeFacts ==
  ASSUME NEW t \in Trees, NEW p \in DOMAIN t
  PROVE  /\ p \in Paths /\ p \in Seq(N) /\ Len(p) \in Nat \ {0} /\ t[p] \in Kinds
         /\ \A q \in Paths : IsPrefix(q, p) /\ q # p => q \in DOMAIN t /\ t[q] = "dir"
  <1>1. p \in Paths /\ t[p] \in Kinds
    BY TreesAssumption
  <1>2. p \in Seq(N) /\ Len(p) \in Nat \ {0}
    BY <1>1, EmptySeq DEF Paths, N
  <1>3. ASSUME NEW q \in Paths, IsPrefix(q, p), q # p
        PROVE  q \in DOMAIN t /\ t[q] = "dir"
    <2>1. q \in Seq(N) /\ Len(q) \in Nat \ {0}
      BY EmptySeq DEF Paths, N
    <2>2. Len(q) < Len(p)
      BY <2>1, <1>2, <1>3, SamePath, PrefixAt
    <2>3. SubSeq(p, 1, Len(q)) = q
      BY <2>1, <1>3 DEF IsPrefix
    <2>4. \A k \in 1..(Len(p) - 1) : SubSeq(p, 1, k) \in DOMAIN t /\ t[SubSeq(p, 1, k)] = "dir"
      BY TreesAssumption
    <2>5. Len(q) \in 1..(Len(p) - 1)
      BY <2>1, <2>2, <1>2
    <2> QED
      BY <2>3, <2>4, <2>5
  <1> QED
    BY <1>1, <1>2, <1>3

LEMMA PrefixSteps ==
  ASSUME NEW p \in Seq(N), NEW q \in Seq(N)
  PROVE  /\ IsPrefix(p, p)
         /\ IsPrefix(p, q) => \A r \in Seq(N) : IsPrefix(q, r) => IsPrefix(p, r)
         /\ IsPrefix(p, q) => \A k \in 0..Len(p) : SubSeq(q, 1, k) = SubSeq(p, 1, k)
  <1>1. Len(p) \in Nat /\ Len(q) \in Nat
    BY LenProperties
  <1>2. IsPrefix(p, p)
    BY <1>1, PrefixAt
  <1>3. ASSUME IsPrefix(p, q), NEW r \in Seq(N), IsPrefix(q, r) PROVE IsPrefix(p, r)
    <2>1. Len(r) \in Nat /\ Len(p) <= Len(q) /\ Len(q) <= Len(r)
      BY <1>1, <1>3, PrefixAt, LenProperties
    <2>2. \A i \in 1..Len(p) : i \in 1..Len(q) /\ p[i] = q[i] /\ q[i] = r[i]
      BY <2>1, <1>1, <1>3, PrefixAt
    <2> QED
      BY <2>1, <2>2, <1>1, PrefixAt
  <1>4. ASSUME IsPrefix(p, q), NEW k \in 0..Len(p) PROVE SubSeq(q, 1, k) = SubSeq(p, 1, k)
    <2>1. Len(p) <= Len(q) /\ \A i \in 1..Len(p) : p[i] = q[i]
      BY <1>4, PrefixAt
    <2>2. /\ SubSeq(p, 1, k) \in Seq(N) /\ Len(SubSeq(p, 1, k)) = k
          /\ \A i \in 1..k : SubSeq(p, 1, k)[i] = p[i]
      BY <1>1
    <2>3. /\ SubSeq(q, 1, k) \in Seq(N) /\ Len(SubSeq(q, 1, k)) = k
          /\ \A i \in 1..k : SubSeq(q, 1, k)[i] = q[i]
      BY <1>1, <2>1
    <2>4. \A i \in 1..k : p[i] = q[i]
      BY <1>1, <2>1
    <2> QED
      BY <2>2, <2>3, <2>4, SeqEqual
  <1> QED
    BY <1>2, <1>3, <1>4

-----------------------------------------------------------------------------
(* The directories a link goes through *)

\* A finite set of paths has a longest.
LEMMA LongestOf ==
  ASSUME NEW D, IsFiniteSet(D), NEW S \in SUBSET D, S # {}, \A q \in S : Len(q) \in Nat
  PROVE  \E q \in S : \A r \in S : Len(r) <= Len(q)
  <1> DEFINE R         == StrictSubsetOrdering(D)
             Longer(q) == {r \in S : Len(q) < Len(r)}
             tops      == {Longer(q) : q \in S}
  <1>1. IsWellFoundedOn(R, FiniteSubsetsOf(D))
    BY FS_StrictSubsetOrderingWellFounded
  <1>2. tops \subseteq FiniteSubsetsOf(D) /\ tops # {}
    <2>1. ASSUME NEW q \in S PROVE Longer(q) \in FiniteSubsetsOf(D)
      BY FS_Subset DEF FiniteSubsetsOf
    <2> QED
      BY <2>1
  <1> HIDE DEF R
  <1>3. \E x \in tops : \A y \in tops : ~(<<y, x>> \in R)
    BY <1>1, <1>2, WFMin
  <1>4. PICK q \in S : \A y \in tops : ~(<<y, Longer(q)>> \in R)
    BY <1>3
  <1>5. ASSUME NEW r \in S, Len(q) < Len(r) PROVE FALSE
    <2>1. r \in Longer(q) /\ r \notin Longer(r)
      BY <1>5
    <2>2. Longer(r) \subseteq Longer(q)
      BY <1>5
    <2>3. <<Longer(r), Longer(q)>> \in R
      BY <2>1, <2>2 DEF R, StrictSubsetOrdering
    <2> QED
      BY <1>4, <2>3
  <1> QED
    BY <1>5

\* A link leads to a directory or file below its first name, and on as long as a
\* directory holds nothing but another.
LEMMA ChainIs ==
  ASSUME NEW t \in Trees, NEW p \in DOMAIN t
  PROVE  /\ Chain(t, p) \in DOMAIN t /\ IsPrefix(p, Chain(t, p))
         /\ \A r : Below(t, Chain(t, p)) = {r} => t[r] # "dir"
  <1> DEFINE c == Chain(t, p)
  <1>1. /\ p \in Seq(N) /\ Len(p) \in Nat /\ IsFiniteSet(DOMAIN t)
        /\ \A q \in DOMAIN t : q \in Seq(N) /\ Len(q) \in Nat
    BY TreeFacts, TreesAssumption
  <1>2. p \in Through(t, p)
    <2>1. Len(p)..(Len(p) - 1) = {}
      BY <1>1
    <2> QED
      BY <2>1, <1>1, PrefixSteps DEF Through
  <1>3. Through(t, p) \subseteq DOMAIN t
    BY DEF Through
  <1>4. \E q \in Through(t, p) : \A r \in Through(t, p) : Len(r) <= Len(q)
    <2>1. \A q \in Through(t, p) : Len(q) \in Nat
      BY <1>1, <1>3
    <2> QED
      BY <2>1, <1>1, <1>2, <1>3, LongestOf
  <1>5. c \in Through(t, p) /\ \A r \in Through(t, p) : Len(r) <= Len(c)
    BY <1>4, Zenon DEF Chain
  <1> HIDE DEF c
  <1>6. /\ c \in DOMAIN t /\ IsPrefix(p, c) /\ c \in Seq(N) /\ Len(c) \in Nat /\ Len(p) <= Len(c)
        /\ \A k \in Len(p)..(Len(c) - 1) :
             LET r == SubSeq(c, 1, k + 1) IN t[r] = "dir" /\ Below(t, SubSeq(c, 1, k)) = {r}
    <2>1. c \in DOMAIN t /\ IsPrefix(p, c) /\ c \in Seq(N) /\ Len(c) \in Nat
      BY <1>1, <1>5 DEF Through
    <2>2. Len(p) <= Len(c)
      BY <2>1, <1>1, PrefixAt
    <2> QED
      BY <2>1, <2>2, <1>5 DEF Through
  <1>7. ASSUME NEW r, Below(t, c) = {r}, t[r] = "dir" PROVE FALSE
    <2>1. r \in DOMAIN t /\ Len(r) = Len(c) + 1 /\ IsPrefix(c, r) /\ r \in Seq(N)
      BY <1>1, <1>7 DEF Below
    <2>2. IsPrefix(p, r)
      BY <2>1, <1>1, <1>6, PrefixSteps
    <2>3. SubSeq(r, 1, Len(c)) = c /\ SubSeq(r, 1, Len(r)) = r
      BY <2>1, <1>6 DEF IsPrefix
    <2>4. ASSUME NEW k \in Len(p)..(Len(r) - 1)
          PROVE  t[SubSeq(r, 1, k + 1)] = "dir" /\ Below(t, SubSeq(r, 1, k)) = {SubSeq(r, 1, k + 1)}
      <3>1. CASE k = Len(c)
        <4>1. k + 1 = Len(r)
          BY <3>1, <2>1
        <4> QED
          BY <3>1, <4>1, <2>3, <1>7
      <3>2. CASE k # Len(c)
        <4>1. k \in Len(p)..(Len(c) - 1) /\ k \in 0..Len(c) /\ k + 1 \in 0..Len(c)
          BY <3>2, <2>1, <1>1, <1>6
        <4>2. SubSeq(r, 1, k) = SubSeq(c, 1, k) /\ SubSeq(r, 1, k + 1) = SubSeq(c, 1, k + 1)
          BY <4>1, <2>1, <1>6, PrefixSteps
        <4> QED
          BY <4>1, <4>2, <1>6
      <3> QED
        BY <3>1, <3>2
    <2>5. r \in Through(t, p)
      BY <2>1, <2>2, <2>4 DEF Through
    <2> QED
      BY <2>1, <2>5, <1>5, <1>6
  <1> QED
    BY <1>6, <1>7 DEF c

-----------------------------------------------------------------------------
(* What is printed *)

LEMMA EventTypes ==
  /\ PageStart \in Events /\ PageEnd \in Events
  /\ \A w \in {"big", "binary", "dir", "end", "none", "object", "commit"} : Note(w) \in Events
  /\ \A p \in Paths : Object(p) \in Events /\ Item(p) \in Events
  /\ \A t \in Trees : \A p \in DOMAIN t : Item(Chain(t, p)) \in Events
  /\ \A c \in {"400", "404"} : <<"error", c>> \in Events
  <1> DEFINE notes == {"big", "binary", "dir", "end", "none", "object", "commit", "400", "404"}
  <1>1. Events = ({"head", "tail"} \X {<<>>}) \cup ({"object", "item"} \X Paths) \cup ({"note", "error"} \X notes)
    BY DEF Events
  <1>2. PageStart \in Events /\ PageEnd \in Events
    BY <1>1 DEF PageStart, PageEnd
  <1>3. \A p \in Paths : Object(p) \in Events /\ Item(p) \in Events
    BY <1>1 DEF Object, Item
  <1>4. \A w \in notes : Note(w) \in Events /\ <<"error", w>> \in Events
    BY <1>1 DEF Note
  <1>5. \A t \in Trees : \A p \in DOMAIN t : Chain(t, p) \in Paths
    BY ChainIs, TreeFacts
  <1> QED
    BY <1>2, <1>3, <1>4, <1>5

LEMMA ErrorPageType == \A c \in {"400", "404"} : ErrorPage(c) \in Seq(Events)
  <1>1. \A x, y, z \in Events : <<x, y, z>> \in Seq(Events)
    OBVIOUS
  <1> QED
    BY <1>1, EventTypes DEF ErrorPage

LEMMA KindOf ==
  ASSUME TypeOK, NEW p \in DOMAIN tree
  PROVE  Kind(p) = tree[p] /\ Kind(p) \in Kinds /\ p \in Paths
  BY TreeFacts DEF TypeOK, Kind

LEMMA BaseLenType == TypeOK => BaseLen \in Int
  <1> SUFFICES ASSUME TypeOK, path # None PROVE BaseLen \in Int
    BY DEF BaseLen
  <1>1. path \in Seq(N)
    BY TreesAssumption DEF TypeOK, Paths, N
  <1> QED
    BY <1>1 DEF BaseLen

LEMMA EntryType ==
  ASSUME TypeOK, NEW p \in DOMAIN tree
  PROVE  Entry(p).state \in 0..2 /\ Entry(p).out \in Seq(Events)
  <1> USE KindOf, EventTypes, ErrorPageType DEF Answer
  <1>1. state \in 0..2 /\ tree \in Trees /\ page \in Pages
    BY DEF TypeOK
  <1>2. /\ <<>> \in Seq(Events)
        /\ \A x \in Events : <<x>> \in Seq(Events)
        /\ \A x, y \in Events : <<x, y>> \in Seq(Events)
        /\ \A x, y, z \in Events : <<x, y, z>> \in Seq(Events)
    OBVIOUS
  <1>3. Len(p) - 1 \in Int /\ BaseLen \in Int
    BY TreeFacts, BaseLenType, <1>1
  <1>4. TreeEntry(p).state \in 0..2 /\ TreeEntry(p).out \in Seq(Events)
    <2>1. TreeObject(p) \in Seq(Events) /\ ListItem(p) \in Seq(Events)
      BY <1>1, <1>2 DEF TreeObject, ListItem
    <2> QED
      BY <2>1, <1>1, <1>2 DEF TreeEntry
  <1>5. PlainEntry(p).state \in 0..2 /\ PlainEntry(p).out \in Seq(Events)
    <2>1. /\ <<Object(p)>> \in Seq(Events) /\ <<Note("dir")>> \in Seq(Events)
          /\ <<Item(p)>> \in Seq(Events)
      BY <1>2
    <2> QED
      BY <2>1, <1>1, <1>2, <1>3 DEF PlainEntry, Kinds, Blobs
  <1>6. BlameEntry(p).state \in 0..2 /\ BlameEntry(p).out \in Seq(Events)
    <2>1. Kind(p) \in {"binary", "big"} => <<PageStart, Note(Kind(p))>> \in Seq(Events)
      BY <1>2
    <2>2. BlameObject(p) \in Seq(Events)
      BY <2>1, <1>2 DEF BlameObject
    <2> QED
      BY <2>2, <1>1, <1>2, <1>3 DEF BlameEntry, Kinds, Blobs
  <1>7. BlobEntry(p).state \in 0..2 /\ BlobEntry(p).out \in Seq(Events)
    BY <1>1, <1>2 DEF BlobEntry
  <1> QED
    BY <1>1, <1>4, <1>5, <1>6, <1>7 DEF Entry, Pages

-----------------------------------------------------------------------------
(* The directories read_tree() is in *)

Dirs == [base : Seq(N), names : SUBSET N]

LEMMA InnerDir ==
  ASSUME NEW td \in Seq(Dirs), td # <<>>
  PROVE  /\ Len(td) \in Nat \ {0} /\ Last(td) = td[Len(td)] /\ Last(td) \in Dirs
         /\ Front(td) \in Seq(Dirs) /\ Len(Front(td)) = Len(td) - 1
         /\ \A k \in 1..(Len(td) - 1) : Front(td)[k] = td[k]
  <1>1. Len(td) \in Nat \ {0}
    BY EmptySeq
  <1>2. Last(td) = td[Len(td)] /\ Last(td) \in Dirs
    BY <1>1, ElementOfSeq DEF Last
  <1> DEFINE m == Len(td) - 1
  <1>3. m \in Int /\ m \in Nat /\ 1 \in Int /\ \A i \in 1..m : td[i] \in Dirs
    BY <1>1, ElementOfSeq
  <1>4. /\ SubSeq(td, 1, m) \in Seq(Dirs)
        /\ Len(SubSeq(td, 1, m)) = IF 1 <= m THEN m - 1 + 1 ELSE 0
        /\ \A i \in 1..(m - 1 + 1) : SubSeq(td, 1, m)[i] = td[1 + i - 1]
    <2> HIDE DEF m
    <2> QED
      BY <1>3, SubSeqProperties
  <1>5. Front(td) = SubSeq(td, 1, m)
    BY DEF Front
  <1>6. Len(Front(td)) = Len(td) - 1
    <2>1. Len(td) - 1 = m
      OBVIOUS
    <2> HIDE DEF m
    <2>2. Len(SubSeq(td, 1, m)) = m
      BY <1>3, <1>4
    <2> QED
      BY <2>1, <2>2, <1>5
  <1>7. ASSUME NEW k \in 1..(Len(td) - 1) PROVE Front(td)[k] = td[k]
    <2>1. m - 1 + 1 = m /\ 1 + k - 1 = k /\ k \in 1..(m - 1 + 1)
      BY <1>1
    <2>2. SubSeq(td, 1, m)[k] = td[1 + k - 1]
      BY <2>1, <1>4
    <2> HIDE DEF m
    <2> QED
      BY <2>1, <2>2, <1>5
  <1> QED
    BY <1>1, <1>2, <1>4, <1>5, <1>6, <1>7

\* The stack when n of the inner directory is read.
Rest(td, n) == Append(Front(td), [base |-> Last(td).base, names |-> Last(td).names \ {n}])

LEMMA RestOf ==
  ASSUME NEW td \in Seq(Dirs), td # <<>>, NEW n \in N
  PROVE  /\ Rest(td, n) \in Seq(Dirs) /\ Len(Rest(td, n)) = Len(td)
         /\ \A k \in 1..Len(td) :
              /\ Rest(td, n)[k].base = td[k].base
              /\ Rest(td, n)[k].names = IF k = Len(td) THEN td[k].names \ {n} ELSE td[k].names
  <1> DEFINE d == [base |-> Last(td).base, names |-> Last(td).names \ {n}]
  <1>1. Last(td) \in Dirs
    BY InnerDir
  <1>2. /\ d \in Dirs /\ d.base = Last(td).base /\ d.names = Last(td).names \ {n}
    BY <1>1 DEF Dirs
  <1> HIDE DEF d
  <1>3. /\ Append(Front(td), d) \in Seq(Dirs)
        /\ Len(Append(Front(td), d)) = Len(Front(td)) + 1
        /\ \A k \in 1..Len(Front(td)) : Append(Front(td), d)[k] = Front(td)[k]
        /\ Append(Front(td), d)[Len(Front(td)) + 1] = d
    BY <1>2, InnerDir, AppendProperties
  <1>4. Rest(td, n) = Append(Front(td), d)
    BY DEF Rest, d
  <1>5. Len(td) \in Nat \ {0} /\ Len(Front(td)) = Len(td) - 1 /\ Last(td) = td[Len(td)]
        /\ \A k \in 1..(Len(td) - 1) : Front(td)[k] = td[k]
    BY InnerDir
  <1>6. Rest(td, n) \in Seq(Dirs) /\ Len(Rest(td, n)) = Len(td)
    BY <1>3, <1>4, <1>5
  <1>7. ASSUME NEW k \in 1..Len(td)
        PROVE  /\ Rest(td, n)[k].base = td[k].base
               /\ Rest(td, n)[k].names = IF k = Len(td) THEN td[k].names \ {n} ELSE td[k].names
    <2>1. CASE k = Len(td)
      BY <2>1, <1>2, <1>3, <1>4, <1>5
    <2>2. CASE k # Len(td)
      <3>1. k \in 1..Len(Front(td)) /\ k \in 1..(Len(td) - 1)
        BY <2>2, <1>5
      <3> QED
        BY <3>1, <2>2, <1>3, <1>4, <1>5
    <2> QED
      BY <2>1, <2>2
  <1> QED
    BY <1>6, <1>7

LEMMA PushOf ==
  ASSUME NEW td \in Seq(Dirs), NEW d \in Dirs
  PROVE  /\ Append(td, d) \in Seq(Dirs) /\ Len(Append(td, d)) = Len(td) + 1
         /\ Append(td, d)[Len(td) + 1] = d
         /\ \A k \in 1..Len(td) : Append(td, d)[k] = td[k]
  BY AppendProperties

\* A visit, by what it does to the stack: read_tree() dies in a submodule, enters
\* a directory, or passes on.
Reply(p) == IF Interesting(p) THEN Entry(p) ELSE Answer(FALSE, state, <<>>)
Dies(p) ==
  /\ Reply(p).enter /\ Kind(p) = "sub"
  /\ pc' = "done" /\ todo' = <<>> /\ out' = out \o (Reply(p).out \o ErrorPage("400"))
Enters(p, n) ==
  /\ Reply(p).enter /\ Kind(p) = "dir"
  /\ pc' = pc /\ out' = out \o Reply(p).out
  /\ todo' = Append(Rest(todo, n), [base |-> p, names |-> Entries(p)])
Passes(p, n) ==
  /\ ~(Reply(p).enter /\ Kind(p) \in {"sub", "dir"})
  /\ pc' = pc /\ out' = out \o Reply(p).out /\ todo' = Rest(todo, n)

LEMMA VisitCases ==
  ASSUME TypeOK, Visit
  PROVE  /\ pc \in {"walk", "choose"} /\ todo # <<>> /\ UNCHANGED <<tree, page, rev, path, readme>>
         /\ \E n \in todo[Len(todo)].names :
              /\ \A m \in todo[Len(todo)].names : m = n \/ Before(n, m)
              /\ LET p == Append(todo[Len(todo)].base, n)
                 IN  /\ n \in N /\ p \in DOMAIN tree /\ state' = Reply(p).state
                     /\ Dies(p) \/ Enters(p, n) \/ Passes(p, n)
  <1>1. todo \in Seq(Dirs) /\ todo # <<>> /\ pc \in {"walk", "choose"}
    BY DEF TypeOK, Dirs, N, Visit, Walking
  <1>2. Top = todo[Len(todo)] /\ Top \in Dirs /\ Len(todo) \in Nat \ {0}
    BY <1>1, InnerDir DEF Top
  <1>3. PICK n \in Top.names :
          /\ \A m \in Top.names : m = n \/ Before(n, m)
          /\ LET p    == Append(Top.base, n)
                 rest == Append(Front(todo), [base |-> Top.base, names |-> Top.names \ {n}])
                 a    == IF Interesting(p) THEN Entry(p) ELSE Answer(FALSE, state, <<>>)
             IN  /\ state' = a.state
                 /\ IF a.enter /\ Kind(p) = "sub"
                      THEN pc' = "done" /\ todo' = <<>> /\ Emit(a.out \o ErrorPage("400"))
                      ELSE /\ UNCHANGED pc /\ Emit(a.out)
                           /\ todo' = IF a.enter /\ Kind(p) = "dir"
                                        THEN Append(rest, [base |-> p, names |-> Entries(p)])
                                        ELSE rest
    BY Zenon DEF Visit
  <1> DEFINE p == Append(Top.base, n)
  <1>4. n \in N
    BY <1>2 DEF Dirs
  <1>5. p \in DOMAIN tree
    <2>1. Len(todo) \in 1..Len(todo)
      BY <1>2
    <2> QED
      BY <2>1, <1>2 DEF TypeOK
  <1>6. state' = Reply(p).state
    BY <1>3 DEF Reply
  <1>7. Rest(todo, n) = Append(Front(todo), [base |-> Top.base, names |-> Top.names \ {n}])
    BY DEF Rest, Top
  <1>8. Dies(p) \/ Enters(p, n) \/ Passes(p, n)
    <2>1. CASE Reply(p).enter /\ Kind(p) = "sub"
      BY <2>1, <1>3 DEF Dies, Reply, Emit
    <2>2. CASE Reply(p).enter /\ Kind(p) = "dir"
      BY <2>2, <1>3, <1>7 DEF Enters, Reply, Emit
    <2>3. CASE ~(Reply(p).enter /\ Kind(p) \in {"sub", "dir"})
      BY <2>3, <1>3, <1>7 DEF Passes, Reply, Emit
    <2> QED
      BY <2>1, <2>2, <2>3
  <1>9. UNCHANGED <<tree, page, rev, path, readme>>
    BY DEF Visit
  <1>10. \A m \in Top.names : m = n \/ Before(n, m)
    BY <1>3
  <1> QED
    BY <1>1, <1>2, <1>4, <1>5, <1>6, <1>8, <1>9, <1>10

-----------------------------------------------------------------------------
(* Types *)

InTree(td) == \A k \in 1..Len(td) : \A n \in td[k].names : Append(td[k].base, n) \in DOMAIN tree

LEMMA StackType ==
  ASSUME TypeOK, todo # <<>>, NEW n \in N
  PROVE  /\ Rest(todo, n) \in Seq(Dirs) /\ InTree(Rest(todo, n))
         /\ \A p \in Seq(N) :
              LET pushed == Append(Rest(todo, n), [base |-> p, names |-> Entries(p)])
              IN  pushed \in Seq(Dirs) /\ InTree(pushed)
  <1>1. todo \in Seq(Dirs) /\ InTree(todo)
    BY DEF TypeOK, Dirs, N, InTree
  <1> DEFINE r == Rest(todo, n)
  <1>2. /\ r \in Seq(Dirs) /\ Len(r) = Len(todo)
        /\ \A k \in 1..Len(todo) : r[k].base = todo[k].base /\ r[k].names \subseteq todo[k].names
    <2>1. /\ r \in Seq(Dirs) /\ Len(r) = Len(todo)
          /\ \A k \in 1..Len(todo) :
               /\ r[k].base = todo[k].base
               /\ r[k].names = IF k = Len(todo) THEN todo[k].names \ {n} ELSE todo[k].names
      BY <1>1, RestOf, Zenon
    <2> HIDE DEF r
    <2> QED
      BY <2>1
  <1> HIDE DEF r
  <1>3. InTree(r)
    BY <1>1, <1>2 DEF InTree
  <1>4. ASSUME NEW p \in Seq(N)
        PROVE  LET pushed == Append(r, [base |-> p, names |-> Entries(p)])
               IN  pushed \in Seq(Dirs) /\ InTree(pushed)
    <2> DEFINE d == [base |-> p, names |-> Entries(p)]
               pushed == Append(r, d)
    <2>1. d \in Dirs /\ d.base = p /\ d.names = Entries(p)
      BY DEF Dirs, Entries, N
    <2> HIDE DEF d
    <2>2. /\ pushed \in Seq(Dirs) /\ Len(pushed) = Len(r) + 1 /\ pushed[Len(r) + 1] = d
          /\ \A k \in 1..Len(r) : pushed[k] = r[k]
      BY <1>2, <2>1, PushOf
    <2> HIDE DEF pushed
    <2>3. ASSUME NEW k \in 1..Len(pushed), NEW m \in pushed[k].names
          PROVE  Append(pushed[k].base, m) \in DOMAIN tree
      <3>1. CASE k = Len(r) + 1
        BY <3>1, <2>1, <2>2 DEF Entries
      <3>2. CASE k # Len(r) + 1
        <4>1. k \in 1..Len(r) /\ pushed[k] = r[k]
          BY <3>2, <2>2, <1>2
        <4> QED
          BY <4>1, <1>3 DEF InTree
      <3> QED
        BY <3>1, <3>2
    <2>4. pushed \in Seq(Dirs) /\ InTree(pushed)
      BY <2>2, <2>3 DEF InTree
    <2> QED
      BY <2>4 DEF pushed, d
  <1> QED
    BY <1>2, <1>3, <1>4 DEF r

LEMMA WalkType ==
  ASSUME TypeOK, StartWalk
  PROVE  todo' \in Seq(Dirs) /\ InTree(todo')
  <1> DEFINE d == [base |-> <<>>, names |-> Entries(<<>>)]
  <1>1. d \in Dirs /\ d.base = <<>> /\ d.names = Entries(<<>>)
    BY DEF Dirs, Entries, N
  <1>2. todo' = <<d>>
    BY DEF StartWalk
  <1> HIDE DEF d
  <1>3. <<d>> \in Seq(Dirs) /\ Len(<<d>>) = 1 /\ <<d>>[1] = d
    BY <1>1
  <1>4. ASSUME NEW k \in 1..1, NEW n \in d.names PROVE Append(d.base, n) \in DOMAIN tree
    BY <1>1 DEF Entries
  <1>5. InTree(<<d>>)
    BY <1>3, <1>4 DEF InTree
  <1> QED
    BY <1>2, <1>3, <1>5

\* The object of a blob and the readme are there when they are printed.
Ready ==
  /\ pc = "walk" /\ page = "blob" => path # None
  /\ pc = "choose" => page = "about"
  /\ pc \in {"choose", "walk"} /\ page = "about" => readme > 0
TypeInv == TypeOK /\ Ready

LEMMA ReadmePaths ==
  ASSUME TypeOK, readme > 0
  PROVE  /\ Readmes[readme] \in Paths
         /\ path # None => Front(Readmes[readme]) \o path \in Paths
  <1>1. readme \in 1..Len(Readmes) /\ Readmes \in Seq(Paths) /\ path \in Paths \cup {None}
    BY TreesAssumption DEF TypeOK
  <1>2. Readmes[readme] \in Paths
    BY <1>1, ElementOfSeq
  <1>3. ASSUME NEW r \in Paths, NEW p \in Paths PROVE Front(r) \o p \in Paths
    <2>1. /\ r \in Seq(N) /\ p \in Seq(N) /\ Len(p) > 0
      BY EmptySeq DEF Paths, N
    <2>2. Front(r) \in Seq(N)
      BY <2>1 DEF Front
    <2>3. Front(r) \o p \in Seq(N) /\ Len(Front(r) \o p) = Len(Front(r)) + Len(p)
      BY <2>1, <2>2, ConcatProperties
    <2>4. Front(r) \o p # <<>>
      BY <2>1, <2>2, <2>3, EmptySeq, LenProperties
    <2> QED
      BY <2>3, <2>4 DEF Paths, N
  <1> QED
    BY <1>1, <1>2, <1>3

LEMMA SoughtType ==
  ASSUME TypeInv, pc \in {"choose", "walk"}, page = "about"
  PROVE  Sought \in Paths
  BY ReadmePaths DEF TypeInv, Ready, Sought, Dirname

LEMMA InitType == Init => TypeInv
  BY DEF Init, TypeInv, TypeOK, Pages, Revs, Ready

LEMMA NextType == TypeInv /\ [Next]_vars => TypeOK'
  <1> SUFFICES ASSUME TypeInv, TypeOK, Ready, [Next]_vars PROVE TypeOK'
    BY DEF TypeInv
  <1> DEFINE Fixed == tree' = tree /\ page' = page /\ rev' = rev /\ path' = path
  <1>1. /\ todo \in Seq(Dirs) /\ InTree(todo) /\ out \in Seq(Events) /\ tree \in Trees
        /\ readme \in 0..Len(Readmes) /\ Len(Readmes) \in Nat /\ state \in 0..2
    BY TreesAssumption DEF TypeOK, Dirs, N, InTree
  <1>2. ASSUME Fixed, pc' \in {"begin", "choose", "walk", "done"}, state' \in 0..2,
               readme' \in 0..Len(Readmes), todo' \in Seq(Dirs), InTree(todo'), out' \in Seq(Events)
        PROVE  TypeOK'
    BY <1>2, TypeOK DEF TypeOK, Dirs, N, InTree
  <1>3. \A e \in Seq(Events) : out \o e \in Seq(Events)
    BY <1>1
  <1>4. <<>> \in Seq(Events) /\ \A x \in Events : <<x>> \in Seq(Events)
    OBVIOUS
  <1>5. \A e \in Seq(Events) : Finish(e) /\ Fixed => TypeOK'
    BY <1>1, <1>2, <1>3 DEF Finish, Emit, InTree, TypeOK
  <1>6. \A e \in Seq(Events), s \in 0..2 : Walk(s, e) /\ Fixed => TypeOK'
    BY <1>1, <1>2, <1>3, WalkType DEF Walk, Emit
  <1>7. CASE Visit
    <2>1. PICK n \in todo[Len(todo)].names :
            LET p == Append(todo[Len(todo)].base, n)
            IN  /\ n \in N /\ p \in DOMAIN tree /\ state' = Reply(p).state
                /\ Dies(p) \/ Enters(p, n) \/ Passes(p, n)
      BY <1>7, VisitCases
    <2> DEFINE p == Append(todo[Len(todo)].base, n)
    <2>2. /\ Fixed /\ readme' = readme /\ todo # <<>> /\ pc \in {"walk", "choose"}
          /\ p \in DOMAIN tree /\ p \in Seq(N) /\ n \in N
      BY <1>7, <2>1, <1>1, VisitCases, TreeFacts
    <2>3. Reply(p).state \in 0..2 /\ Reply(p).out \in Seq(Events)
      BY <2>2, <1>1, <1>4, EntryType DEF Reply, Answer
    <2>4. Rest(todo, n) \in Seq(Dirs) /\ InTree(Rest(todo, n))
      BY <2>2, StackType
    <2>5. /\ Append(Rest(todo, n), [base |-> p, names |-> Entries(p)]) \in Seq(Dirs)
          /\ InTree(Append(Rest(todo, n), [base |-> p, names |-> Entries(p)]))
      BY <2>2, StackType
    <2>6. state' \in 0..2 /\ (Dies(p) \/ Enters(p, n) \/ Passes(p, n))
      BY <2>1, <2>3
    <2> HIDE DEF p
    <2>7. CASE Dies(p)
      <3>1. todo' \in Seq(Dirs) /\ InTree(todo')
        BY <2>7 DEF Dies, InTree
      <3>2. Reply(p).out \o ErrorPage("400") \in Seq(Events)
        BY <2>3, ErrorPageType
      <3> QED
        BY <2>7, <3>1, <3>2, <2>2, <2>6, <1>1, <1>2, <1>3 DEF Dies
    <2>8. CASE Enters(p, n)
      BY <2>8, <2>2, <2>3, <2>5, <2>6, <1>1, <1>2, <1>3 DEF Enters
    <2>9. CASE Passes(p, n)
      BY <2>9, <2>2, <2>3, <2>4, <2>6, <1>1, <1>2, <1>3 DEF Passes
    <2> QED
      BY <2>6, <2>7, <2>8, <2>9
  <1>8. CASE Leave
    <2>1. todo # <<>> /\ Fixed /\ todo' = Front(todo) /\ UNCHANGED <<pc, state, readme, out>>
      BY <1>8 DEF Leave, Walking
    <2>2. todo' \in Seq(Dirs) /\ InTree(todo')
      <3>1. /\ Len(todo) \in Nat \ {0} /\ Front(todo) \in Seq(Dirs) /\ Len(Front(todo)) = Len(todo) - 1
            /\ \A k \in 1..(Len(todo) - 1) : Front(todo)[k] = todo[k]
        BY <2>1, <1>1, InnerDir
      <3>2. \A k \in 1..Len(todo') : k \in 1..(Len(todo) - 1) /\ k \in 1..Len(todo)
        BY <3>1, <2>1
      <3>3. \A k \in 1..Len(todo') : todo'[k] = todo[k]
        BY <3>1, <3>2, <2>1
      <3> QED
        BY <3>1, <3>2, <3>3, <2>1, <1>1 DEF InTree
    <2> QED
      BY <2>1, <2>2, <1>1, <1>2 DEF TypeOK
  <1>9. CASE Begin
    <2>1. /\ Fixed /\ ErrorPage("404") \in Seq(Events) /\ <<>> \in Seq(Events)
          /\ <<PageStart>> \in Seq(Events) /\ <<Note("dir")>> \in Seq(Events)
          /\ <<Note("object")>> \in Seq(Events)
      BY <1>9, <1>4, EventTypes, ErrorPageType DEF Begin
    <2>2. /\ Finish(ErrorPage("404")) => TypeOK'
          /\ Finish(<<Note("object")>>) => TypeOK'
      BY <2>1, <1>5
    <2>3. /\ Walk(0, <<>>) => TypeOK'
          /\ Walk(1, <<PageStart>>) => TypeOK'
          /\ Walk(2, <<Note("dir")>>) => TypeOK'
      <3>1. 0 \in 0..2 /\ 1 \in 0..2 /\ 2 \in 0..2
        OBVIOUS
      <3> QED
        BY <3>1, <2>1, <1>6, Zenon
    <2>4. CASE PrintTree
      BY <2>4, <2>2, <2>3, Zenon DEF PrintTree
    <2>5. CASE PrintPlain
      BY <2>5, <2>2, <2>3, Zenon DEF PrintPlain
    <2>6. CASE PrintBlame
      BY <2>6, <2>2, <2>3, Zenon DEF PrintBlame
    <2>7. CASE PrintBlob
      BY <2>7, <2>2, <2>3, Zenon DEF PrintBlob
    <2> QED
      BY <1>9, <2>4, <2>5, <2>6, <2>7 DEF Begin
  <1>10. CASE End
    <2>1. PlainEnd \in Seq(Events)
      BY <1>1, <1>4, EventTypes, ErrorPageType DEF PlainEnd
    <2>2. page = "blob" => BlobEnd \in Seq(Events)
      <3>1. page = "blob" => path \in Paths
        BY <1>10, TreesAssumption DEF End, TypeOK, Ready
      <3> QED
        BY <3>1, <1>4, EventTypes, ErrorPageType DEF BlobEnd
    <2> QED
      BY <1>10, <2>1, <2>2, <1>4, <1>5, EventTypes, ErrorPageType DEF End, TreeEnd, BlameEnd
  <1>11. CASE NextReadme
    <2>1. CASE pc' = "choose" /\ readme' = readme + 1 /\ StartWalk /\ UNCHANGED <<state, out>>
      <3>1. readme < Len(Readmes) /\ Fixed
        BY <2>1, <1>11 DEF NextReadme, Finish
      <3> QED
        BY <2>1, <3>1, <1>1, <1>2, WalkType
    <2> QED
      BY <2>1, <1>11, <1>4, <1>5, EventTypes DEF NextReadme
  <1>12. CASE PrintReadme
    BY <1>12, <1>4, <1>6, EventTypes DEF PrintReadme
  <1>13. CASE EndReadme
    <2>1. Sought \in Paths
      BY <1>13, SoughtType DEF EndReadme
    <2>2. <<Object(Sought), PageEnd>> \in Seq(Events) /\ <<PageEnd>> \in Seq(Events)
      BY <2>1, <1>4, EventTypes
    <2> QED
      BY <1>13, <2>2, <1>5 DEF EndReadme
  <1>14. CASE UNCHANGED vars
    BY <1>14, <1>1, <1>2 DEF vars, TypeOK
  <1> QED
    BY <1>7, <1>8, <1>9, <1>10, <1>11, <1>12, <1>13, <1>14 DEF Next, Done

LEMMA NextReady == TypeInv /\ [Next]_vars => Ready'
  <1> SUFFICES ASSUME TypeOK, Ready, [Next]_vars PROVE Ready'
    BY DEF TypeInv
  <1>1. readme \in Nat
    BY DEF TypeOK
  <1>2. CASE Visit
    BY <1>2, VisitCases DEF Dies, Enters, Passes, Ready
  <1>3. CASE Begin
    BY <1>3 DEF Begin, PrintTree, PrintPlain, PrintBlame, PrintBlob, Walk, Finish, Ready
  <1>4. CASE NextReadme
    BY <1>4, <1>1 DEF NextReadme, Finish, Ready
  <1> QED
    BY <1>1, <1>2, <1>3, <1>4
       DEF Next, Leave, End, PrintReadme, EndReadme, Done, Walk, Finish, Ready, vars

\* Every variable keeps its type; what is printed is of the commit.
THEOREM TypeCorrect == Spec => []TypeOK
  <1>1. TypeInv /\ [Next]_vars => TypeInv'
    BY NextType, NextReady DEF TypeInv
  <1>2. TypeInv => TypeOK
    BY DEF TypeInv
  <1> QED
    BY InitType, <1>1, <1>2, PTL DEF Spec

-----------------------------------------------------------------------------
(* The way to a path *)

Way(td, k, n, q) == k \in 1..Len(td) /\ n \in td[k].names /\ IsPrefix(Append(td[k].base, n), q)
ComingIn(td, q)  == \E k \in 1..Len(td) : \E n \in td[k].names : Way(td, k, n, q)
OneWayIn(td, q)  == \A k, l, n, m : Way(td, k, n, q) /\ Way(td, l, m, q) => k = l /\ n = m

LEMMA WayDef ==
  \A q : (Coming(q) <=> ComingIn(todo, q)) /\ (OneWay(q) <=> OneWayIn(todo, q))
  <1> TAKE q
  <1>1. Coming(q) <=> ComingIn(todo, q)
    BY DEF Coming, ComingIn, Way
  <1>2. OneWay(q) <=> OneWayIn(todo, q)
    BY DEF OneWay, OneWayIn, Way
  <1> QED
    BY <1>1, <1>2

LEMMA NextWay ==
  ASSUME NEW q
  PROVE  (Coming(q)' <=> ComingIn(todo', q)) /\ (OneWay(q)' <=> OneWayIn(todo', q))
  <1>1. Coming(q)' <=> ComingIn(todo', q)
    BY DEF Coming, ComingIn, Way
  <1>2. OneWay(q)' <=> OneWayIn(todo', q)
    BY DEF OneWay, OneWayIn, Way
  <1> QED
    BY <1>1, <1>2

\* An entry that is read is no longer ahead; all others stay.
LEMMA PassWay ==
  ASSUME NEW td \in Seq(Dirs), td # <<>>, NEW n \in N, NEW q
  PROVE  \A k, m : Way(Rest(td, n), k, m, q) <=> Way(td, k, m, q) /\ ~(k = Len(td) /\ m = n)
  <1> DEFINE r == Rest(td, n)
  <1>1. /\ Len(r) = Len(td)
        /\ \A k \in 1..Len(td) :
             /\ r[k].base = td[k].base
             /\ r[k].names = IF k = Len(td) THEN td[k].names \ {n} ELSE td[k].names
    BY RestOf
  <1> HIDE DEF r
  <1>2. \A k, m : Way(r, k, m, q) <=> Way(td, k, m, q) /\ ~(k = Len(td) /\ m = n)
    BY <1>1 DEF Way
  <1> QED
    BY <1>2 DEF r

\* In a directory that is entered, its entries are ahead.
LEMMA EnterWay ==
  ASSUME NEW td \in Seq(Dirs), NEW p \in Seq(N), NEW q, NEW S \in SUBSET N
  PROVE  \A k, m : Way(Append(td, [base |-> p, names |-> S]), k, m, q) <=>
                     \/ Way(td, k, m, q)
                     \/ k = Len(td) + 1 /\ m \in S /\ IsPrefix(Append(p, m), q)
  <1> DEFINE d == [base |-> p, names |-> S]
             u == Append(td, d)
  <1>1. d \in Dirs /\ d.base = p /\ d.names = S
    BY DEF Dirs
  <1> HIDE DEF d
  <1>2. /\ Len(u) = Len(td) + 1 /\ u[Len(td) + 1] = d /\ Len(td) \in Nat
        /\ \A k \in 1..Len(td) : u[k] = td[k]
    BY <1>1, PushOf
  <1> HIDE DEF u
  <1>3. \A k : k \in 1..Len(u) <=> k \in 1..Len(td) \/ k = Len(td) + 1
    BY <1>2
  <1>4. ASSUME NEW k, NEW m
        PROVE  Way(u, k, m, q) <=> \/ Way(td, k, m, q)
                                   \/ k = Len(td) + 1 /\ m \in S /\ IsPrefix(Append(p, m), q)
    <2>1. CASE k \in 1..Len(td)
      BY <2>1, <1>2, <1>3 DEF Way
    <2>2. CASE k = Len(td) + 1
      BY <2>2, <1>1, <1>2, <1>3 DEF Way
    <2> QED
      BY <2>1, <2>2, <1>3 DEF Way
  <1> QED
    BY <1>4 DEF u, d

LEMMA PassComing ==
  ASSUME TypeOK, todo # <<>>, NEW n \in todo[Len(todo)].names, NEW q,
         todo' = Rest(todo, n)
  PROVE  /\ Coming(q)' => Coming(q)
         /\ OneWay(q) => OneWay(q)'
         /\ OneWay(q) /\ IsPrefix(Append(todo[Len(todo)].base, n), q) => ~Coming(q)'
         /\ Coming(q) /\ ~IsPrefix(Append(todo[Len(todo)].base, n), q) => Coming(q)'
  <1>1. todo \in Seq(Dirs) /\ Len(todo) \in 1..Len(todo) /\ n \in N
    <2>1. todo \in Seq(Dirs) /\ Len(todo) \in Nat \ {0} /\ Last(todo) = todo[Len(todo)] /\ Last(todo) \in Dirs
      BY InnerDir DEF TypeOK, Dirs, N
    <2> QED
      BY <2>1 DEF Dirs
  <1>2. \A k, m : Way(todo', k, m, q) <=> Way(todo, k, m, q) /\ ~(k = Len(todo) /\ m = n)
    BY <1>1, PassWay
  <1>3. IsPrefix(Append(todo[Len(todo)].base, n), q) <=> Way(todo, Len(todo), n, q)
    BY <1>1 DEF Way
  <1>4. \A td : ComingIn(td, q) <=> \E k, m : Way(td, k, m, q)
    BY DEF ComingIn, Way
  <1>5. (Coming(q) <=> ComingIn(todo, q)) /\ (OneWay(q) <=> OneWayIn(todo, q))
    BY WayDef
  <1>6. (Coming(q)' <=> ComingIn(todo', q)) /\ (OneWay(q)' <=> OneWayIn(todo', q))
    BY NextWay
  <1> QED
    BY <1>2, <1>3, <1>4, <1>5, <1>6 DEF OneWayIn

LEMMA EnterComing ==
  ASSUME TypeOK, todo # <<>>, NEW n \in todo[Len(todo)].names, NEW p, NEW q \in Paths,
         p = Append(todo[Len(todo)].base, n),
         todo' = Append(Rest(todo, n), [base |-> p, names |-> Entries(p)])
  PROVE  /\ OneWay(q) => OneWay(q)'
         /\ Coming(q) /\ ~IsPrefix(p, q) => Coming(q)'
         /\ IsPrefix(p, q) /\ p # q /\ q \in DOMAIN tree => Coming(q)'
         /\ OneWay(q) /\ p = q => ~Coming(q)'
         /\ Coming(q)' => Coming(q) \/ IsPrefix(p, q)
  <1>1. /\ todo \in Seq(Dirs) /\ Len(todo) \in 1..Len(todo) /\ n \in N
        /\ todo[Len(todo)].base \in Seq(N)
    <2>1. todo \in Seq(Dirs) /\ Len(todo) \in Nat \ {0} /\ Last(todo) = todo[Len(todo)] /\ Last(todo) \in Dirs
      BY InnerDir DEF TypeOK, Dirs, N
    <2> QED
      BY <2>1 DEF Dirs
  <1>2. p \in Seq(N) /\ q \in Seq(N) /\ Entries(p) \in SUBSET N
    BY <1>1, AppendPrefix DEF Paths, N, Entries
  <1>3. Rest(todo, n) \in Seq(Dirs) /\ Len(Rest(todo, n)) = Len(todo) /\ Len(todo) \in Nat
    BY <1>1, RestOf
  <1>4. \A k, m : Way(todo', k, m, q) <=>
                    \/ Way(todo, k, m, q) /\ ~(k = Len(todo) /\ m = n)
                    \/ k = Len(todo) + 1 /\ m \in Entries(p) /\ IsPrefix(Append(p, m), q)
    <2> DEFINE r == Rest(todo, n)
    <2>1. \A k, m : Way(r, k, m, q) <=> Way(todo, k, m, q) /\ ~(k = Len(todo) /\ m = n)
      BY <1>1, PassWay
    <2>2. r \in Seq(Dirs) /\ Len(r) = Len(todo) /\ todo' = Append(r, [base |-> p, names |-> Entries(p)])
      BY <1>3
    <2> HIDE DEF r
    <2>3. \A k, m : Way(todo', k, m, q) <=>
                      \/ Way(r, k, m, q)
                      \/ k = Len(r) + 1 /\ m \in Entries(p) /\ IsPrefix(Append(p, m), q)
      <3>1. \A k, m : Way(Append(r, [base |-> p, names |-> Entries(p)]), k, m, q) <=>
                      \/ Way(r, k, m, q)
                      \/ k = Len(r) + 1 /\ m \in Entries(p) /\ IsPrefix(Append(p, m), q)
        BY <2>2, <1>2, EnterWay
      <3> QED
        BY <3>1, <2>2
    <2> QED
      BY <2>1, <2>2, <2>3
  <1>5. IsPrefix(p, q) <=> Way(todo, Len(todo), n, q)
    BY <1>1 DEF Way
  <1>6. \A m \in N : IsPrefix(Append(p, m), q) <=>
                       IsPrefix(p, q) /\ Len(p) < Len(q) /\ q[Len(p) + 1] = m
    BY <1>2, AppendPrefix
  <1>7. \A td : ComingIn(td, q) <=> \E k, m : Way(td, k, m, q)
    BY DEF ComingIn, Way
  <1>8. (Coming(q) <=> ComingIn(todo, q)) /\ (OneWay(q) <=> OneWayIn(todo, q))
    BY WayDef
  <1>9. (Coming(q)' <=> ComingIn(todo', q)) /\ (OneWay(q)' <=> OneWayIn(todo', q))
    BY NextWay
  <1>10. ASSUME OneWay(q) PROVE OneWay(q)'
    <2> SUFFICES ASSUME NEW k, NEW l, NEW m1, NEW m2, Way(todo', k, m1, q), Way(todo', l, m2, q)
                 PROVE  k = l /\ m1 = m2
      BY <1>9 DEF OneWayIn
    <2>1. \A j, m : Way(todo, j, m, q) => j # Len(todo) + 1
      BY <1>3 DEF Way
    <2>2. \A i, j, m, o : Way(todo, i, m, q) /\ Way(todo, j, o, q) => i = j /\ m = o
      BY <1>8, <1>10 DEF OneWayIn
    <2>3. CASE k = Len(todo) + 1 \/ l = Len(todo) + 1
      <3>1. IsPrefix(p, q) /\ \A j, m : Way(todo, j, m, q) => j = Len(todo) /\ m = n
        BY <2>1, <2>2, <2>3, <1>2, <1>4, <1>5, <1>6
      <3>2. \A j, m : Way(todo', j, m, q) => j = Len(todo) + 1 /\ m = q[Len(p) + 1]
        <4> TAKE j, m
        <4> HAVE Way(todo', j, m, q)
        <4>1. j = Len(todo) + 1 /\ m \in Entries(p) /\ IsPrefix(Append(p, m), q)
          BY <3>1, <1>4
        <4>2. m \in N
          BY <4>1, <1>2
        <4> QED
          BY <4>1, <4>2, <1>6
      <3>3. k = Len(todo) + 1 /\ m1 = q[Len(p) + 1]
        BY <3>2
      <3>4. l = Len(todo) + 1 /\ m2 = q[Len(p) + 1]
        BY <3>2
      <3> QED
        BY <3>3, <3>4
    <2>4. CASE k # Len(todo) + 1 /\ l # Len(todo) + 1
      BY <2>2, <2>4, <1>4
    <2> QED
      BY <2>3, <2>4
  <1>11. ASSUME IsPrefix(p, q), p # q, q \in DOMAIN tree PROVE Coming(q)'
    <2>1. Len(p) \in Nat /\ Len(q) \in Nat /\ Len(p) < Len(q)
      <3>1. Len(p) \in Nat /\ Len(q) \in Nat
        BY <1>2, LenProperties
      <3>2. ~(Len(q) <= Len(p))
        BY <1>2, <1>11, SamePath
      <3> QED
        BY <3>1, <3>2
    <2> DEFINE m == q[Len(p) + 1]
    <2>2. m \in N /\ Append(p, m) \in Seq(N) /\ IsPrefix(Append(p, m), q)
      BY <2>1, <1>2, <1>6, <1>11, AppendPrefix, ElementOfSeq
    <2>3. Append(p, m) \in DOMAIN tree
      <3>1. tree \in Trees
        BY DEF TypeOK
      <3>2. Append(p, m) \in Paths
        <4>1. Len(Append(p, m)) = Len(p) + 1
          BY <2>2, <1>2, AppendPrefix
        <4> QED
          BY <4>1, <2>1, <2>2, EmptySeq DEF Paths, N
      <3> QED
        BY <3>1, <3>2, <2>2, <1>11, TreeFacts
    <2>4. m \in Entries(p)
      BY <2>2, <2>3 DEF Entries, N
    <2> QED
      BY <2>2, <2>4, <1>4, <1>7, <1>9
  <1>12. ASSUME Coming(q), ~IsPrefix(p, q) PROVE Coming(q)'
    <2>1. PICK k, m : Way(todo, k, m, q)
      BY <1>7, <1>8, <1>12
    <2>2. Way(todo', k, m, q)
      BY <2>1, <1>4, <1>5, <1>12
    <2> QED
      BY <2>2, <1>7, <1>9
  <1>13. ASSUME OneWay(q), p = q PROVE ~Coming(q)'
    <2>1. \A m \in N : ~IsPrefix(Append(p, m), q)
      BY <1>2, <1>6, <1>13, LenProperties
    <2>2. \A k, m : Way(todo, k, m, q) => k = Len(todo) /\ m = n
      <3>1. Way(todo, Len(todo), n, q)
        BY <1>2, <1>5, <1>13, PrefixSteps
      <3> QED
        BY <3>1, <1>8, <1>13 DEF OneWayIn
    <2>3. \A k, m : ~Way(todo', k, m, q)
      BY <2>1, <2>2, <1>2, <1>4
    <2> QED
      BY <2>3, <1>7, <1>9
  <1>14. ASSUME Coming(q)' PROVE Coming(q) \/ IsPrefix(p, q)
    <2>1. PICK k, m : Way(todo', k, m, q)
      BY <1>7, <1>9, <1>14
    <2>2. CASE Way(todo, k, m, q)
      BY <2>2, <1>7, <1>8
    <2>3. CASE m \in Entries(p) /\ IsPrefix(Append(p, m), q)
      BY <2>3, <1>2, <1>6
    <2> QED
      BY <2>1, <2>2, <2>3, <1>4
  <1> QED
    BY <1>10, <1>11, <1>12, <1>13, <1>14

LEMMA LeaveComing ==
  ASSUME TypeOK, Leave, NEW q
  PROVE  (Coming(q)' <=> Coming(q)) /\ (OneWay(q) => OneWay(q)')
  <1>1. todo \in Seq(Dirs) /\ todo # <<>> /\ Top.names = {} /\ todo' = Front(todo)
    BY DEF TypeOK, Dirs, N, Leave, Walking
  <1>2. /\ Len(todo) \in Nat \ {0} /\ Top = todo[Len(todo)] /\ Len(todo') = Len(todo) - 1
        /\ \A k \in 1..(Len(todo) - 1) : todo'[k] = todo[k]
    BY <1>1, InnerDir DEF Top
  <1>3. \A k : k \in 1..Len(todo) <=> k \in 1..Len(todo') \/ k = Len(todo)
    BY <1>2
  <1>4. ASSUME NEW k, NEW m PROVE Way(todo', k, m, q) <=> Way(todo, k, m, q)
    BY <1>1, <1>2, <1>3 DEF Way
  <1>5. \A td : ComingIn(td, q) <=> \E k, m : Way(td, k, m, q)
    BY DEF ComingIn, Way
  <1>6. (Coming(q) <=> ComingIn(todo, q)) /\ (OneWay(q) <=> OneWayIn(todo, q))
    BY WayDef
  <1>7. (Coming(q)' <=> ComingIn(todo', q)) /\ (OneWay(q)' <=> OneWayIn(todo', q))
    BY NextWay
  <1> QED
    BY <1>4, <1>5, <1>6, <1>7 DEF OneWayIn

LEMMA StartComing ==
  ASSUME TypeOK, StartWalk, NEW q \in Paths
  PROVE  OneWay(q)' /\ (q \in DOMAIN tree => Coming(q)')
  <1> DEFINE d == [base |-> <<>>, names |-> Entries(<<>>)]
  <1>1. d \in Dirs /\ d.base = <<>> /\ d.names = Entries(<<>>) /\ Entries(<<>>) \subseteq N
    BY DEF Dirs, Entries, N
  <1>2. todo' = <<d>>
    BY DEF StartWalk
  <1> HIDE DEF d
  <1>3. Len(todo') = 1 /\ todo'[1] = d
    BY <1>2
  <1>4. q \in Seq(N) /\ <<>> \in Seq(N) /\ Len(q) \in Nat \ {0} /\ Len(<<>>) = 0
    BY EmptySeq DEF Paths, N
  <1>5. \A m \in N : /\ IsPrefix(Append(<<>>, m), q) <=> q[1] = m
                     /\ Append(<<>>, m) \in Paths
    <2> TAKE m \in N
    <2>1. IsPrefix(<<>>, q)
      <3>1. ASSUME NEW e \in Seq(N), Len(e) = 0 PROVE IsPrefix(e, q)
        <4>1. IsPrefix(e, q) <=> Len(e) <= Len(q) /\ \A i \in 1..Len(e) : e[i] = q[i]
          BY <1>4, PrefixAt
        <4> QED
          BY <3>1, <4>1, <1>4
      <3> QED
        BY <3>1, <1>4, Zenon
    <2>2. /\ IsPrefix(Append(<<>>, m), q) <=>
               IsPrefix(<<>>, q) /\ Len(<<>>) < Len(q) /\ q[Len(<<>>) + 1] = m
          /\ Append(<<>>, m) \in Seq(N) /\ Len(Append(<<>>, m)) = Len(<<>>) + 1
      BY <1>4, AppendPrefix
    <2> QED
      BY <2>1, <2>2, <1>4, EmptySeq DEF Paths, N
  <1>6. ASSUME NEW k, NEW m
        PROVE  Way(todo', k, m, q) <=> k = 1 /\ m \in Entries(<<>>) /\ q[1] = m
    <2>1. k \in 1..Len(todo') <=> k = 1
      BY <1>3
    <2>2. CASE k = 1
      <3>1. Way(todo', 1, m, q) <=> m \in Entries(<<>>) /\ IsPrefix(Append(<<>>, m), q)
        BY <2>1, <2>2, <1>1, <1>3 DEF Way
      <3> QED
        BY <3>1, <2>2, <1>1, <1>5
    <2> QED
      BY <2>1, <2>2 DEF Way
  <1>7. (Coming(q)' <=> ComingIn(todo', q)) /\ (OneWay(q)' <=> OneWayIn(todo', q))
    BY NextWay
  <1>8. OneWay(q)'
    BY <1>6, <1>7 DEF OneWayIn
  <1>9. ASSUME q \in DOMAIN tree PROVE Coming(q)'
    <2>1. tree \in Trees
      BY DEF TypeOK
    <2>2. q[1] \in N
      BY <1>4, ElementOfSeq
    <2>3. Append(<<>>, q[1]) \in DOMAIN tree
      BY <2>1, <2>2, <1>5, <1>9, TreeFacts
    <2>4. Way(todo', 1, q[1], q)
      BY <2>2, <2>3, <1>6 DEF Entries, N
    <2> QED
      BY <2>4, <1>7 DEF ComingIn, Way
  <1> QED
    BY <1>8, <1>9

\* The walk comes to an entry once.
LEMMA NextOnce == TypeInv /\ WalkOnce /\ [Next]_vars => WalkOnce'
  <1> SUFFICES ASSUME TypeOK, WalkOnce, tree' = tree, [Next]_vars, NEW q \in DOMAIN tree
               PROVE  OneWay(q)'
    <2>1. [Next]_vars => tree' = tree
      BY DEF Next, vars, Visit, Leave, Begin, End, NextReadme, PrintReadme, EndReadme, Done
    <2> QED
      BY <2>1 DEF TypeInv, WalkOnce
  <1>1. OneWay(q) /\ q \in Paths
    BY TreeFacts DEF WalkOnce, TypeOK
  <1>2. todo' = todo => OneWay(q)'
    BY <1>1, WayDef, NextWay
  <1>3. StartWalk => OneWay(q)'
    BY <1>1, StartComing
  <1>4. CASE Visit
    <2>1. todo # <<>> /\ UNCHANGED <<tree, page, rev, path, readme>>
      BY <1>4, VisitCases
    <2>2. PICK n \in todo[Len(todo)].names :
            \/ Dies(Append(todo[Len(todo)].base, n))
            \/ Enters(Append(todo[Len(todo)].base, n), n)
            \/ Passes(Append(todo[Len(todo)].base, n), n)
      BY <1>4, VisitCases
    <2>3. CASE todo' = <<>>
      BY <2>3, NextWay DEF OneWayIn, Way
    <2> QED
      BY <2>1, <2>2, <2>3, <1>1, PassComing, EnterComing DEF Dies, Enters, Passes
  <1>5. CASE Leave
    BY <1>1, <1>5, LeaveComing
  <1> QED
    BY <1>4, <1>5, <1>2, <1>3
       DEF Next, Begin, End, NextReadme, PrintReadme, EndReadme, Done, vars, Finish, Walk,
           PrintTree, PrintPlain, PrintBlame, PrintBlob

-----------------------------------------------------------------------------
(* The readme *)

LEMMA RegularIn == \A p : Regular(p) => p \in DOMAIN tree /\ Kind(p) \notin {"dir", "sub"}
  BY DEF Regular, Kind, Blobs

\* The callback of the readme: a visit finds the file, or it stays ahead.
LEMMA ReadmeVisit ==
  ASSUME TypeInv, Visit, page = "about", pc' # "done",
         state = 0 /\ Regular(Sought) => Coming(Sought),
         state = 1 => Regular(Sought), state \in {0, 1},
         NEW q \in Paths, q = Sought
  PROVE  /\ state' \in {0, 1}
         /\ state' = 1 => Regular(q)
         /\ state' = 0 /\ Regular(q) => Coming(q)'
  <1>1. PICK n \in todo[Len(todo)].names :
          LET p == Append(todo[Len(todo)].base, n)
          IN  /\ n \in N /\ p \in DOMAIN tree /\ state' = Reply(p).state
              /\ Dies(p) \/ Enters(p, n) \/ Passes(p, n)
    BY VisitCases DEF TypeInv
  <1> DEFINE p == Append(todo[Len(todo)].base, n)
  <1>2. p \in DOMAIN tree /\ state' = Reply(p).state /\ (Enters(p, n) \/ Passes(p, n))
    BY <1>1 DEF Dies
  <1>3. todo # <<>> /\ TypeOK /\ tree \in Trees
    BY VisitCases DEF TypeInv, TypeOK
  <1>4. p \in Paths /\ Kind(p) \in Kinds
    BY <1>2, <1>3, KindOf
  <1>5. /\ Passes(p, n) => (Coming(q) /\ ~IsPrefix(p, q) => Coming(q)')
        /\ Enters(p, n) => (Coming(q) /\ ~IsPrefix(p, q) => Coming(q)')
        /\ Enters(p, n) => (IsPrefix(p, q) /\ p # q /\ q \in DOMAIN tree => Coming(q)')
    BY <1>3, PassComing, EnterComing DEF Passes, Enters
  <1> HIDE DEF p
  <1>6. Entry(p) = BlobEntry(p)
    BY DEF Entry
  <1>7. Interesting(p) <=> IsPrefix(q, p) \/ (IsPrefix(p, q) /\ Kind(p) \in {"dir", "sub"})
    <2>1. q # None
      BY TreesAssumption
    <2> QED
      BY <2>1 DEF Interesting
  <1>8. IsPrefix(q, q)
    BY PrefixAt DEF Paths, N
  <1>9. CASE Interesting(p) /\ Regular(p) /\ p = q
    BY <1>2, <1>6, <1>9 DEF Reply, BlobEntry, Answer
  <1>10. CASE Interesting(p) /\ ~(Regular(p) /\ p = q)
    <2>1. Reply(p).enter /\ state' = state
      BY <1>2, <1>6, <1>10 DEF Reply, BlobEntry, Answer
    <2>2. ASSUME state = 0, Regular(q) PROVE Coming(q)'
      <3>1. q \in DOMAIN tree /\ p # q /\ Coming(q)
        BY <2>2, <1>10, RegularIn
      <3>2. CASE IsPrefix(p, q)
        <4>1. Kind(p) = "dir"
          BY <3>1, <3>2, <1>3, <1>4, TreeFacts DEF Kind
        <4>2. Enters(p, n)
          BY <4>1, <2>1, <1>2 DEF Passes
        <4> QED
          BY <4>2, <3>1, <3>2, <1>5
      <3> QED
        BY <3>1, <3>2, <1>2, <1>5
    <2> QED
      BY <2>1, <2>2
  <1>11. CASE ~Interesting(p)
    <2>1. state' = state
      BY <1>2, <1>11 DEF Reply, Answer
    <2>2. ASSUME state = 0, Regular(q) PROVE Coming(q)'
      <3>1. q \in DOMAIN tree /\ Coming(q)
        BY <2>2, RegularIn
      <3>2. ~IsPrefix(p, q)
        <4>1. ASSUME IsPrefix(p, q) PROVE p # q /\ Kind(p) # "dir"
          BY <4>1, <1>7, <1>8, <1>11
        <4> QED
          BY <4>1, <3>1, <1>3, <1>4, TreeFacts DEF Kind
      <3> QED
        BY <3>1, <3>2, <1>2, <1>5
    <2> QED
      BY <2>1, <2>2
  <1> QED
    BY <1>9, <1>10, <1>11

LEMMA NextSought ==
  Coming(Sought)' <=> ComingIn(todo', Sought')
  BY DEF Coming, ComingIn, Way

LEMMA NextRegular == tree' = tree => \A p : Regular(p)' <=> Regular(p)
  BY DEF Regular, Kind

LEMMA InitReadme == Init => ReadmeInv
  BY DEF Init, ReadmeInv

LEMMA NextReadmeInv == TypeInv /\ ReadmeInv /\ [Next]_vars => ReadmeInv'
  <1> SUFFICES ASSUME TypeInv, ReadmeInv, [Next]_vars, page' = "about" PROVE ReadmeInv'
    BY DEF ReadmeInv
  <1>1. /\ tree' = tree /\ page = "about" /\ path' = path /\ rev' = rev
        /\ TypeOK /\ Ready /\ readme \in 0..Len(Readmes) /\ Len(Readmes) \in Nat
    <2>1. tree' = tree /\ page' = page /\ path' = path /\ rev' = rev
      BY DEF Next, vars, Visit, Leave, Begin, End, NextReadme, PrintReadme, EndReadme, Done
    <2> QED
      BY <2>1, TreesAssumption DEF TypeInv, TypeOK
  <1>2. \A p : Regular(p)' <=> Regular(p)
    BY <1>1, NextRegular
  <1>3. /\ \A k \in 1..(readme - 1) : ~Regular(Readmes[k])
        /\ pc = "begin" => readme = 0 /\ state = 0
        /\ pc \in {"choose", "walk"} =>
             /\ rev = "commit" /\ readme > 0 /\ state \in {0, 1}
             /\ state = 1 => Regular(Sought)
             /\ state = 0 /\ Regular(Sought) => Coming(Sought)
        /\ pc = "walk" => Regular(Readmes[readme])
    BY <1>1 DEF ReadmeInv
  <1>4. \A k : Regular(Readmes[k])' <=> Regular(Readmes[k])
    BY <1>1 DEF Regular, Kind
  <1>5. Regular(Sought)' <=> Regular(Sought')
    BY <1>1 DEF Regular, Kind
  <1>6. pc \in {"choose", "walk"} /\ pc' = pc /\ readme' = readme => Sought' = Sought
    BY <1>1 DEF Sought
  <1>7. Regular(Readmes[readme])' <=> Regular(Readmes[readme'])
    BY <1>1 DEF Regular, Kind
  <1>8. ASSUME pc' = "done", readme' = readme PROVE ReadmeInv'
    BY <1>1, <1>3, <1>4, <1>8 DEF ReadmeInv
  <1>9. CASE Visit
    <2>1. pc \in {"walk", "choose"} /\ readme' = readme /\ pc' \in {"done", pc}
      BY <1>9, <1>1, VisitCases DEF Dies, Enters, Passes
    <2>2. CASE pc' = pc /\ pc # "done"
      <3>1. Sought \in Paths
        BY <2>1, <1>1, SoughtType
      <3>2. /\ state' \in {0, 1}
            /\ state' = 1 => Regular(Sought)
            /\ state' = 0 /\ Regular(Sought) => ComingIn(todo', Sought)
        BY <3>1, <2>1, <2>2, <1>1, <1>9, <1>3, ReadmeVisit, NextWay
      <3> QED
        BY <3>2, <2>1, <2>2, <1>1, <1>3, <1>4, <1>5, <1>6, <1>7, NextSought DEF ReadmeInv
    <2> QED
      BY <2>1, <2>2, <1>8
  <1>10. CASE Leave
    <2>1. pc \in {"walk", "choose"} /\ readme' = readme /\ pc' = pc /\ state' = state
      BY <1>10 DEF Leave, Walking
    <2>2. ComingIn(todo', Sought) <=> Coming(Sought)
      BY <1>1, <1>10, LeaveComing, NextWay
    <2> QED
      BY <2>1, <2>2, <1>1, <1>3, <1>4, <1>5, <1>6, <1>7, NextSought DEF ReadmeInv
  <1>11. CASE NextReadme
    <2>1. CASE pc' = "done"
      <3>1. readme' = readme
        BY <2>1, <1>11 DEF NextReadme, Finish
      <3> QED
        BY <3>1, <2>1, <1>8
    <2>2. CASE pc' # "done"
      <3>1. /\ rev = "commit" /\ readme < Len(Readmes) /\ pc' = "choose" /\ readme' = readme + 1
            /\ StartWalk /\ state' = state /\ state = 0
            /\ pc = "begin" \/ (pc = "choose" /\ todo = <<>>)
        BY <2>2, <1>1, <1>11, <1>3 DEF NextReadme, Finish
      <3>2. pc = "choose" => readme > 0 /\ ~Regular(Readmes[readme])
        <4>1. pc = "choose" => readme > 0 /\ Sought = Readmes[readme] /\ ~Coming(Sought)
          BY <3>1, <1>1, <1>3 DEF Sought, Coming
        <4> QED
          BY <4>1, <3>1, <1>3
      <3>3. \A k \in 1..(readme' - 1) : ~Regular(Readmes[k])
        BY <3>1, <3>2, <1>1, <1>3
      <3>4. Sought' = Readmes[readme'] /\ Readmes[readme'] \in Paths
        BY <3>1, <1>1, TreesAssumption, ElementOfSeq DEF Sought
      <3>5. Regular(Sought') => ComingIn(todo', Sought')
        BY <3>1, <3>4, <1>1, StartComing, NextWay, RegularIn
      <3> QED
        BY <3>1, <3>3, <3>5, <1>1, <1>4, <1>5, NextSought DEF ReadmeInv
    <2> QED
      BY <2>1, <2>2
  <1>12. CASE PrintReadme
    <2>1. /\ pc = "choose" /\ state = 1 /\ StartWalk /\ pc' = "walk" /\ state' = 0 /\ readme' = readme
      BY <1>12 DEF PrintReadme, Walk
    <2>2. rev = "commit" /\ readme > 0 /\ Regular(Readmes[readme])
      BY <2>1, <1>1, <1>3 DEF Sought
    <2>3. Sought' \in Paths
      <3>1. Sought' = IF path = None THEN Readmes[readme] ELSE Front(Readmes[readme]) \o path
        BY <2>1, <1>1 DEF Sought, Dirname
      <3> QED
        BY <3>1, <2>2, <1>1, ReadmePaths
    <2>4. Regular(Sought') => ComingIn(todo', Sought')
      BY <2>1, <2>3, <1>1, StartComing, NextWay, RegularIn
    <2> QED
      BY <2>1, <2>2, <2>4, <1>1, <1>3, <1>4, <1>5, <1>7, NextSought DEF ReadmeInv
  <1>13. CASE Begin \/ End
    BY <1>1, <1>13 DEF Begin, End
  <1>14. CASE EndReadme
    BY <1>14, <1>8 DEF EndReadme, Finish
  <1>15. CASE UNCHANGED vars
    BY <1>1, <1>15 DEF vars, ReadmeInv, Regular, Kind, Sought, Coming
  <1> QED
    BY <1>9, <1>10, <1>11, <1>12, <1>13, <1>14, <1>15 DEF Next, Done

-----------------------------------------------------------------------------
(* The frame of a page *)

Unmarked(s) == \A k \in 1..Len(s) : s[k][1] \notin Frame

LEMMA Concat ==
  ASSUME NEW s \in Seq(Events), NEW e \in Seq(Events)
  PROVE  /\ s \o e \in Seq(Events) /\ Len(s \o e) = Len(s) + Len(e)
         /\ Len(s) \in Nat /\ Len(e) \in Nat
         /\ \A k \in 1..Len(s) : (s \o e)[k] = s[k]
         /\ \A k \in 1..Len(e) : (s \o e)[Len(s) + k] = e[k]
         /\ \A k \in 1..Len(s \o e) : k \notin 1..Len(s) => k - Len(s) \in 1..Len(e)
  <1>1. Len(s) \in Nat /\ Len(e) \in Nat /\ s \o e \in Seq(Events) /\ Len(s \o e) = Len(s) + Len(e)
    BY LenProperties, ConcatProperties
  <1>2. \A k \in 1..Len(s) : (s \o e)[k] = s[k]
    OBVIOUS
  <1>3. \A k \in 1..Len(e) : (s \o e)[Len(s) + k] = e[k]
    OBVIOUS
  <1> QED
    BY <1>1, <1>2, <1>3

LEMMA NothingMore == \A s \in Seq(Events) : <<>> \o s = s /\ s \o <<>> = s
  OBVIOUS

LEMMA Joined ==
  ASSUME NEW x \in Events, NEW y \in Events, NEW z \in Events
  PROVE  <<x>> \o <<z>> = <<x, z>> /\ <<x>> \o <<y, z>> = <<x, y, z>>
  <1>1. ASSUME NEW s \in Seq(Events), NEW e \in Seq(Events), NEW u \in Seq(Events),
               Len(s) = 1, Len(u) = Len(e) + 1, u[1] = s[1],
               \A k \in 1..Len(e) : u[k + 1] = e[k]
        PROVE  s \o e = u
    <2>1. /\ s \o e \in Seq(Events) /\ Len(s \o e) = Len(u) /\ Len(e) \in Nat
          /\ (s \o e)[1] = s[1] /\ \A k \in 1..Len(e) : (s \o e)[1 + k] = e[k]
      <3>1. /\ s \o e \in Seq(Events) /\ Len(s \o e) = Len(s) + Len(e) /\ Len(e) \in Nat
            /\ \A k \in 1..Len(s) : (s \o e)[k] = s[k]
            /\ \A k \in 1..Len(e) : (s \o e)[Len(s) + k] = e[k]
        BY Concat
      <3>2. 1 \in 1..Len(s) /\ Len(s) = 1 /\ Len(e) + 1 = 1 + Len(e)
        BY <1>1, <3>1
      <3> QED
        BY <3>1, <3>2, <1>1
    <2>2. ASSUME NEW i \in 1..Len(u) PROVE (s \o e)[i] = u[i]
      <3>1. CASE i = 1
        BY <3>1, <2>1, <1>1
      <3>2. CASE i # 1
        <4>1. i - 1 \in 1..Len(e) /\ 1 + (i - 1) = i /\ (i - 1) + 1 = i
          BY <3>2, <2>1, <1>1
        <4>2. (s \o e)[1 + (i - 1)] = e[i - 1] /\ u[(i - 1) + 1] = e[i - 1]
          BY <4>1, <2>1, <1>1
        <4> QED
          BY <4>1, <4>2
      <3> QED
        BY <3>1, <3>2
    <2> QED
      BY <2>1, <2>2, <1>1, SeqEqual
  <1>2. <<x>> \o <<z>> = <<x, z>>
    <2> DEFINE s == <<x>>
               e == <<z>>
               u == <<x, z>>
    <2>1. /\ s \in Seq(Events) /\ e \in Seq(Events) /\ u \in Seq(Events)
          /\ Len(s) = 1 /\ Len(e) = 1 /\ Len(u) = 2
          /\ u[1] = s[1] /\ \A k \in 1..1 : u[k + 1] = e[k]
      OBVIOUS
    <2>2. s \o e = u => <<x>> \o <<z>> = <<x, z>>
      OBVIOUS
    <2> HIDE DEF s, e, u
    <2>3. Len(u) = Len(e) + 1 /\ \A k \in 1..Len(e) : u[k + 1] = e[k]
      BY <2>1
    <2>4. s \o e = u
      BY <2>1, <2>3, <1>1
    <2> QED
      BY <2>2, <2>4, Zenon
  <1>3. <<x>> \o <<y, z>> = <<x, y, z>>
    <2> DEFINE s == <<x>>
               e == <<y, z>>
               u == <<x, y, z>>
    <2>1. /\ s \in Seq(Events) /\ e \in Seq(Events) /\ u \in Seq(Events)
          /\ Len(s) = 1 /\ Len(e) = 2 /\ Len(u) = 3
          /\ u[1] = s[1] /\ \A k \in 1..2 : u[k + 1] = e[k]
      OBVIOUS
    <2>2. s \o e = u => <<x>> \o <<y, z>> = <<x, y, z>>
      OBVIOUS
    <2> HIDE DEF s, e, u
    <2>3. Len(u) = Len(e) + 1 /\ \A k \in 1..Len(e) : u[k + 1] = e[k]
      BY <2>1
    <2>4. s \o e = u
      BY <2>1, <2>3, <1>1
    <2> QED
      BY <2>2, <2>4, Zenon
  <1> QED
    BY <1>2, <1>3

LEMMA OpenedMore ==
  ASSUME NEW s \in Seq(Events), NEW e \in Seq(Events), Opened(s), Unmarked(e)
  PROVE  Opened(s \o e)
  <1> DEFINE u == s \o e
  <1>1. /\ Len(u) = Len(s) + Len(e) /\ Len(s) \in Nat /\ Len(e) \in Nat
        /\ \A k \in 1..Len(s) : u[k] = s[k]
        /\ \A k \in 1..Len(e) : u[Len(s) + k] = e[k]
        /\ \A k \in 1..Len(u) : k \notin 1..Len(s) => k - Len(s) \in 1..Len(e)
    BY Concat
  <1> HIDE DEF u
  <1>2. Len(u) > 0 /\ u[1][1] = "head"
    BY <1>1 DEF Opened
  <1>3. ASSUME NEW k \in 2..Len(u) PROVE u[k][1] \notin Frame
    <2>1. CASE k \in 1..Len(s)
      BY <2>1, <1>1 DEF Opened
    <2>2. CASE k \notin 1..Len(s)
      <3>1. k - Len(s) \in 1..Len(e) /\ u[Len(s) + (k - Len(s))] = e[k - Len(s)]
        BY <2>2, <1>1
      <3>2. Len(s) + (k - Len(s)) = k
        BY <1>1
      <3> QED
        BY <3>1, <3>2 DEF Unmarked
    <2> QED
      BY <2>1, <2>2
  <1> QED
    BY <1>2, <1>3 DEF Opened, u

LEMMA OpenedEnds ==
  ASSUME NEW s \in Seq(Events), Opened(s)
  PROVE  Framed(s \o <<PageEnd>>)
  <1> DEFINE e == <<PageEnd>>
             u == s \o e
  <1>1. e \in Seq(Events) /\ Len(e) = 1 /\ e[1] = PageEnd
    BY EventTypes
  <1>2. /\ Len(u) = Len(s) + 1 /\ Len(s) \in Nat
        /\ \A k \in 1..Len(s) : u[k] = s[k]
        /\ u[Len(s) + 1] = PageEnd
    <2> HIDE DEF e
    <2>1. /\ Len(s \o e) = Len(s) + Len(e) /\ Len(s) \in Nat
          /\ \A k \in 1..Len(s) : (s \o e)[k] = s[k]
          /\ \A k \in 1..Len(e) : (s \o e)[Len(s) + k] = e[k]
      BY <1>1, Concat
    <2>2. 1 \in 1..Len(e)
      BY <1>1
    <2> QED
      BY <1>1, <2>1, <2>2
  <1> HIDE DEF u
  <1>3. PageEnd[1] = "tail"
    BY DEF PageEnd
  <1>4. Framed(u)
    BY <1>2, <1>3 DEF Opened, Framed
  <1> QED
    BY <1>4 DEF u

LEMMA NoErrorMore ==
  ASSUME NEW s \in Seq(Events), NEW e \in Seq(Events), NoError(s), NoError(e)
  PROVE  NoError(s \o e)
  <1> DEFINE u == s \o e
  <1>1. /\ Len(s) \in Nat /\ \A k \in 1..Len(s) : u[k] = s[k]
        /\ \A k \in 1..Len(e) : u[Len(s) + k] = e[k]
        /\ \A k \in 1..Len(u) : k \notin 1..Len(s) => k - Len(s) \in 1..Len(e)
    BY Concat
  <1> HIDE DEF u
  <1>2. ASSUME NEW k \in 1..Len(u) PROVE u[k][1] # "error"
    <2>1. CASE k \in 1..Len(s)
      BY <2>1, <1>1 DEF NoError
    <2>2. CASE k \notin 1..Len(s)
      <3>1. k - Len(s) \in 1..Len(e) /\ Len(s) + (k - Len(s)) = k
        BY <2>2, <1>1
      <3>2. u[Len(s) + (k - Len(s))] = e[k - Len(s)]
        BY <3>1, <1>1
      <3> QED
        BY <3>1, <3>2 DEF NoError
    <2> QED
      BY <2>1, <2>2
  <1> QED
    BY <1>2 DEF NoError, u

\* The pieces of a page.
LEMMA Pieces ==
  /\ \A c : Framed(ErrorPage(c))
  /\ \A p : Framed(<<PageStart, Object(p), PageEnd>>)
  /\ Framed(<<PageStart, PageEnd>>)
  /\ Opened(<<PageStart>>) /\ \A p : Opened(<<PageStart, Object(p)>>)
  /\ \A w : Opened(<<PageStart, Note(w)>>)
  /\ \A x : Unmarked(<<Item(x)>>)
  /\ NoError(<<>>) /\ \A x : NoError(<<Item(x)>>) /\ NoError(<<Object(x)>>) /\ NoError(<<Note(x)>>)
  <1> USE DEF PageStart, PageEnd, Object, Item, Note, Frame
  <1>1. \A x, y, z : <<x, y, z>>[1] = x /\ <<x, y, z>>[2] = y /\ <<x, y, z>>[3] = z /\ Len(<<x, y, z>>) = 3
    OBVIOUS
  <1>2. \A c : Framed(ErrorPage(c))
    BY <1>1 DEF ErrorPage, Framed
  <1>3. \A p : Framed(<<PageStart, Object(p), PageEnd>>)
    BY <1>1 DEF Framed
  <1>4. Framed(<<PageStart, PageEnd>>)
    BY DEF Framed
  <1>5. Opened(<<PageStart>>) /\ \A p : Opened(<<PageStart, Object(p)>>)
    BY DEF Opened
  <1>6. \A w : Opened(<<PageStart, Note(w)>>)
    BY DEF Opened
  <1>7. \A x : Unmarked(<<Item(x)>>)
    BY DEF Unmarked
  <1>8. NoError(<<>>) /\ \A x : NoError(<<Item(x)>>) /\ NoError(<<Object(x)>>) /\ NoError(<<Note(x)>>)
    BY DEF NoError
  <1> QED
    BY <1>2, <1>3, <1>4, <1>5, <1>6, <1>7, <1>8

LEMMA UnframedSame ==
  page # "about" /\ UNCHANGED <<tree, page, path>> => (Unframed' <=> Unframed)
  BY DEF Unframed, Kind

\* The length of an entry that is let through tells where it is.
LEMMA LengthTells ==
  ASSUME TypeOK, page # "about", NEW p \in DOMAIN tree, Interesting(p)
  PROVE  /\ Len(p) - 1 = BaseLen => path # None /\ p = path
         /\ Len(p) - 1 > BaseLen /\ path # None => path \in DOMAIN tree /\ Kind(path) = "dir"
         /\ Len(p) - 1 \in Int /\ BaseLen \in Int
  <1>1. Sought = path /\ tree \in Trees /\ path \in Paths \cup {None}
    BY TreesAssumption DEF Sought, TypeOK
  <1>2. p \in Paths /\ p \in Seq(N) /\ Len(p) \in Nat \ {0}
    BY <1>1, TreeFacts
  <1>3. path # None => /\ path \in Seq(N) /\ Len(path) \in Nat
                       /\ IsPrefix(path, p) \/ IsPrefix(p, path)
    BY <1>1, LenProperties DEF Interesting, Paths, N
  <1>4. ASSUME Len(p) - 1 = BaseLen PROVE path # None /\ p = path
    <2>1. path # None /\ Len(p) = Len(path)
      BY <1>2, <1>3, <1>4 DEF BaseLen
    <2> QED
      BY <2>1, <1>2, <1>3, SamePath
  <1>5. ASSUME Len(p) - 1 > BaseLen, path # None PROVE path \in DOMAIN tree /\ Kind(path) = "dir"
    <2>1. Len(p) > Len(path)
      BY <1>2, <1>3, <1>5 DEF BaseLen
    <2>2. ~IsPrefix(p, path)
      BY <2>1, <1>2, <1>3, <1>5, PrefixAt
    <2> QED
      BY <2>1, <2>2, <1>1, <1>2, <1>3, <1>5, TreeFacts DEF Kind
  <1>6. BaseLen \in Int
    BY BaseLenType
  <1> QED
    BY <1>2, <1>4, <1>5, <1>6

\* A visit in the words of the invariants below.
LEMMA VisitFacts ==
  ASSUME TypeInv, Visit
  PROVE  \E n \in todo[Len(todo)].names : \E p \in DOMAIN tree :
           /\ p = Append(todo[Len(todo)].base, n) /\ n \in N
           /\ \A m \in todo[Len(todo)].names : m = n \/ Before(n, m)
           /\ todo # <<>> /\ pc \in {"walk", "choose"} /\ UNCHANGED <<tree, page, rev, path, readme>>
           /\ state' = Reply(p).state /\ (Dies(p) \/ Enters(p, n) \/ Passes(p, n))
           /\ out \in Seq(Events) /\ Reply(p).out \in Seq(Events) /\ state \in 0..2
           /\ Kind(p) \in Kinds /\ Kind(p) = tree[p]
  <1>1. TypeOK
    BY DEF TypeInv
  <1>2. PICK n \in todo[Len(todo)].names :
          /\ \A m \in todo[Len(todo)].names : m = n \/ Before(n, m)
          /\ LET p == Append(todo[Len(todo)].base, n)
             IN  /\ n \in N /\ p \in DOMAIN tree /\ state' = Reply(p).state
                 /\ Dies(p) \/ Enters(p, n) \/ Passes(p, n)
    BY <1>1, VisitCases
  <1> DEFINE p == Append(todo[Len(todo)].base, n)
  <1>3. todo # <<>> /\ pc \in {"walk", "choose"} /\ UNCHANGED <<tree, page, rev, path, readme>>
    BY <1>1, VisitCases
  <1>4. <<>> \in Seq(Events)
    OBVIOUS
  <1>5. out \in Seq(Events) /\ Reply(p).out \in Seq(Events) /\ state \in 0..2
    BY <1>1, <1>2, <1>4, EntryType DEF TypeOK, Reply, Answer
  <1>6. Kind(p) \in Kinds /\ Kind(p) = tree[p]
    BY <1>1, <1>2, KindOf
  <1> QED
    BY <1>2, <1>3, <1>5, <1>6

LEMMA TreeVisit ==
  ASSUME TypeInv, FrameInv, Visit, page = "tree"
  PROVE  FrameInv'
  <1>1. PICK n \in todo[Len(todo)].names, p \in DOMAIN tree :
           /\ p = Append(todo[Len(todo)].base, n) /\ n \in N
           /\ todo # <<>> /\ pc \in {"walk", "choose"} /\ UNCHANGED <<tree, page, rev, path, readme>>
           /\ state' = Reply(p).state /\ (Dies(p) \/ Enters(p, n) \/ Passes(p, n))
           /\ out \in Seq(Events) /\ Reply(p).out \in Seq(Events) /\ state \in 0..2
           /\ Kind(p) \in Kinds /\ Kind(p) = tree[p]
    BY VisitFacts
  <1>2. pc = "walk" /\ (IF state = 0 THEN out = <<>> ELSE Unframed \/ Opened(out))
    BY <1>1 DEF FrameInv
  <1>3. Unframed' <=> Unframed
    BY <1>1, UnframedSame
  <1>4. Entry(p) = TreeEntry(p)
    BY DEF Entry
  <1>5. CASE ~Interesting(p)
    <2>1. Reply(p) = [enter |-> FALSE, state |-> state, out |-> <<>>]
      BY <1>5 DEF Reply, Answer
    <2>2. pc' = pc /\ out' = out /\ state' = state
      BY <2>1, <1>1, NothingMore DEF Dies, Enters, Passes
    <2> QED
      BY <2>2, <1>1, <1>2, <1>3 DEF FrameInv
  <1>6. CASE Interesting(p) /\ state = 0 /\ p # path
    <2>1. Reply(p) = [enter |-> TRUE, state |-> 0, out |-> <<>>]
      BY <1>4, <1>6 DEF Reply, TreeEntry, Answer
    <2>2. CASE Dies(p)
      <3>1. pc' = "done" /\ out' = ErrorPage("400")
        BY <2>1, <2>2, <1>2, <1>6, NothingMore, ErrorPageType DEF Dies
      <3> QED
        BY <3>1, <1>1, Pieces DEF FrameInv
    <2>3. CASE ~Dies(p)
      <3>1. pc' = pc /\ out' = out /\ state' = state
        <4>1. Reply(p).out = <<>> /\ Reply(p).state = 0 /\ out \o <<>> = out
          BY <2>1, <1>1, NothingMore
        <4>2. Enters(p, n) \/ Passes(p, n)
          BY <2>3, <1>1
        <4> QED
          BY <4>1, <4>2, <1>1, <1>6 DEF Enters, Passes
      <3> QED
        BY <3>1, <1>1, <1>2, <1>3 DEF FrameInv
    <2> QED
      BY <2>2, <2>3
  <1>7. CASE Interesting(p) /\ state = 0 /\ p = path
    <2>1. CASE Kind(p) = "dir"
      <3>1. Reply(p) = [enter |-> TRUE, state |-> 1, out |-> <<PageStart>>]
        BY <2>1, <1>4, <1>7 DEF Reply, TreeEntry, Answer
      <3>2. pc' = pc /\ out' = <<PageStart>> /\ state' = 1
        BY <2>1, <3>1, <1>1, <1>2, <1>7, NothingMore DEF Dies, Enters, Passes
      <3> QED
        BY <3>2, <1>1, <1>2, Pieces DEF FrameInv
    <2>2. CASE Kind(p) # "dir"
      <3>1. Reply(p) = [enter |-> FALSE, state |-> 2, out |-> TreeObject(p)]
        BY <2>2, <1>4, <1>7 DEF Reply, TreeEntry, Answer
      <3>2. pc' = pc /\ out' = TreeObject(p) /\ state' = 2
        BY <3>1, <1>1, <1>2, <1>7, NothingMore DEF Dies, Enters, Passes
      <3>3. Unframed \/ Opened(TreeObject(p))
        <4>1. path # None
          BY <1>1, <1>7, TreesAssumption, KindOf DEF TypeInv
        <4> QED
          BY <4>1, <1>7, Pieces DEF Unframed, TreeObject
      <3> QED
        BY <3>2, <3>3, <1>1, <1>2, <1>3 DEF FrameInv
    <2> QED
      BY <2>1, <2>2
  <1>8. CASE Interesting(p) /\ state # 0
    <2>1. Reply(p) = [enter |-> FALSE, state |-> state, out |-> ListItem(p)]
      BY <1>4, <1>8 DEF Reply, TreeEntry, Answer
    <2>2. pc' = pc /\ out' = out \o ListItem(p) /\ state' = state
      BY <2>1, <1>1 DEF Dies, Enters, Passes
    <2>3. Unmarked(ListItem(p)) /\ ListItem(p) \in Seq(Events)
      BY <2>1, <1>1, Pieces DEF ListItem
    <2>4. Unframed \/ Opened(out')
      BY <2>2, <2>3, <1>1, <1>2, <1>8, OpenedMore
    <2> QED
      BY <2>2, <2>4, <1>1, <1>2, <1>3, <1>8 DEF FrameInv
  <1> QED
    BY <1>5, <1>6, <1>7, <1>8

LEMMA PlainVisit ==
  ASSUME TypeInv, FrameInv, Visit, page = "plain"
  PROVE  FrameInv'
  <1>1. PICK n \in todo[Len(todo)].names, p \in DOMAIN tree :
           /\ p = Append(todo[Len(todo)].base, n) /\ n \in N
           /\ todo # <<>> /\ pc \in {"walk", "choose"} /\ UNCHANGED <<tree, page, rev, path, readme>>
           /\ state' = Reply(p).state /\ (Dies(p) \/ Enters(p, n) \/ Passes(p, n))
           /\ out \in Seq(Events) /\ Reply(p).out \in Seq(Events) /\ state \in 0..2
           /\ Kind(p) \in Kinds /\ Kind(p) = tree[p]
    BY VisitFacts
  <1>2. pc = "walk" /\ (Unframed \/ IF state = 0 THEN out = <<>> ELSE NoError(out))
    BY <1>1 DEF FrameInv
  <1>3. Unframed' <=> Unframed
    BY <1>1, UnframedSame
  <1>4. Entry(p) = PlainEntry(p)
    BY DEF Entry
  <1>5. ASSUME Reply(p).enter => Kind(p) # "sub"
        PROVE  pc' = pc /\ out' = out \o Reply(p).out
    BY <1>1, <1>5 DEF Dies, Enters, Passes
  \* It prints nothing, or something that is no error and leaves state 0.
  <1>6. ASSUME NoError(Reply(p).out), Reply(p).enter => Kind(p) # "sub",
               Reply(p).state # 0 \/ (Reply(p).out = <<>> /\ Reply(p).state = state)
        PROVE  FrameInv'
    <2>1. pc' = pc /\ out' = out \o Reply(p).out
      BY <1>5, <1>6
    <2>2. NoError(out) => NoError(out')
      BY <2>1, <1>1, <1>6, NoErrorMore
    <2>3. state = 0 /\ ~Unframed => NoError(out)
      BY <1>2, Pieces
    <2>4. Unframed \/ IF state' = 0 THEN out' = <<>> ELSE NoError(out')
      BY <2>1, <2>2, <2>3, <1>1, <1>2, <1>6, NothingMore
    <2> QED
      BY <2>1, <2>4, <1>1, <1>2, <1>3 DEF FrameInv
  <1>7. CASE ~Interesting(p)
    <2>1. Reply(p) = [enter |-> FALSE, state |-> state, out |-> <<>>]
      BY <1>7 DEF Reply, Answer
    <2> QED
      BY <2>1, <1>6, Pieces
  <1>8. CASE Interesting(p)
    <2>1. /\ Len(p) - 1 = BaseLen => path # None /\ p = path
          /\ Len(p) - 1 \in Int /\ BaseLen \in Int
      BY <1>8, LengthTells DEF TypeInv
    <2>2. Reply(p) = PlainEntry(p)
      BY <1>4, <1>8 DEF Reply
    <2>3. CASE Len(p) - 1 = BaseLen /\ Kind(p) = "bad"
      <3>1. Unframed
        BY <2>1, <2>3 DEF Unframed
      <3>2. Reply(p).enter = FALSE
        BY <2>2, <2>3 DEF PlainEntry, Answer, Blobs
      <3>3. pc' = pc
        BY <3>2, <1>5
      <3> QED
        BY <3>1, <3>3, <1>1, <1>2, <1>3 DEF FrameInv
    <2>4. CASE Len(p) - 1 = BaseLen /\ Kind(p) \in Blobs \cup {"link"}
      <3>1. Reply(p) = [enter |-> FALSE, state |-> 1, out |-> <<Object(p)>>]
        BY <2>2, <2>4, <2>1 DEF PlainEntry, Answer, Blobs
      <3>2. NoError(Reply(p).out)
        <4>1. NoError(<<Object(p)>>)
          BY Pieces
        <4> QED
          BY <3>1, <4>1
      <3> QED
        BY <3>1, <3>2, <1>6
    <2>5. CASE Len(p) - 1 = BaseLen /\ Kind(p) = "dir"
      <3>1. Reply(p) = [enter |-> TRUE, state |-> 2, out |-> <<Note("dir")>>]
        BY <2>2, <2>5, <2>1 DEF PlainEntry, Answer, Blobs
      <3>2. NoError(Reply(p).out)
        <4>1. NoError(<<Note("dir")>>)
          BY Pieces
        <4> QED
          BY <3>1, <4>1
      <3> QED
        BY <3>1, <3>2, <2>5, <1>6
    <2>6. CASE Len(p) - 1 = BaseLen /\ Kind(p) = "sub"
      <3>1. Reply(p) = [enter |-> FALSE, state |-> state, out |-> <<>>]
        BY <2>2, <2>6, <2>1 DEF PlainEntry, Answer, Blobs
      <3>2. NoError(Reply(p).out)
        BY <3>1, Pieces
      <3> QED
        BY <3>1, <3>2, <1>6
    <2>7. CASE Len(p) - 1 > BaseLen
      <3>1. Reply(p) = [enter |-> FALSE, state |-> 2, out |-> <<Item(p)>>]
        BY <2>2, <2>7, <2>1 DEF PlainEntry, Answer
      <3>2. NoError(Reply(p).out)
        <4>1. NoError(<<Item(p)>>)
          BY Pieces
        <4> QED
          BY <3>1, <4>1
      <3> QED
        BY <3>1, <3>2, <1>6
    <2>8. CASE Len(p) - 1 < BaseLen /\ Kind(p) = "dir"
      <3>1. Reply(p) = [enter |-> TRUE, state |-> state, out |-> <<>>]
        <4>1. Reply(p) = Answer(Kind(p) = "dir", state, <<>>)
          BY <2>1, <2>8, <2>2 DEF PlainEntry
        <4>2. (Kind(p) = "dir") = TRUE
          BY <2>8
        <4> QED
          BY <4>1, <4>2, Zenon DEF Answer
      <3> QED
        BY <3>1, <2>8, <1>6, Pieces
    <2>9. CASE Len(p) - 1 < BaseLen /\ Kind(p) # "dir"
      <3>1. Reply(p) = [enter |-> FALSE, state |-> state, out |-> <<>>]
        <4>1. Reply(p) = Answer(Kind(p) = "dir", state, <<>>)
          BY <2>1, <2>9, <2>2 DEF PlainEntry
        <4>2. (Kind(p) = "dir") = FALSE
          BY <2>9
        <4> QED
          BY <4>1, <4>2, Zenon DEF Answer
      <3> QED
        BY <3>1, <1>6, Pieces
    <2> QED
      BY <2>1, <2>3, <2>4, <2>5, <2>6, <2>7, <2>8, <2>9, <1>1 DEF Kinds
  <1> QED
    BY <1>7, <1>8

LEMMA BlameVisit ==
  ASSUME TypeInv, FrameInv, WalkOnce, Visit, page = "blame"
  PROVE  FrameInv'
  <1>1. PICK n \in todo[Len(todo)].names, p \in DOMAIN tree :
           /\ p = Append(todo[Len(todo)].base, n) /\ n \in N
           /\ todo # <<>> /\ pc \in {"walk", "choose"} /\ UNCHANGED <<tree, page, rev, path, readme>>
           /\ state' = Reply(p).state /\ (Dies(p) \/ Enters(p, n) \/ Passes(p, n))
           /\ out \in Seq(Events) /\ Reply(p).out \in Seq(Events) /\ state \in 0..2
           /\ Kind(p) \in Kinds /\ Kind(p) = tree[p]
    BY VisitFacts
  <1>2. pc = "walk" /\ (IF state # 1 THEN out = <<>>
                        ELSE /\ path # None /\ Kind(path) # "dir" /\ ~Coming(path)
                             /\ Unframed \/ Framed(out))
    BY <1>1 DEF FrameInv
  <1>3. Unframed' <=> Unframed
    BY <1>1, UnframedSame
  <1>4. Kind(path)' = Kind(path) /\ (Coming(path)' <=> ComingIn(todo', path))
    BY <1>1 DEF Kind, Coming, ComingIn, Way
  <1>5. tree \in Trees /\ TypeOK
    BY DEF TypeInv, TypeOK
  <1>6. ASSUME ~Reply(p).enter
        PROVE  pc' = pc /\ out' = out \o Reply(p).out /\ Passes(p, n)
    BY <1>1, <1>6 DEF Dies, Enters, Passes
  \* Out of state 1, an entry that is not shown leaves the page empty.
  <1>7. ASSUME state # 1, Reply(p).state # 1, Reply(p).out = <<>>, Reply(p).enter => Kind(p) # "sub"
        PROVE  FrameInv'
    <2>1. pc' = pc /\ out' = <<>>
      BY <1>1, <1>2, <1>7, NothingMore DEF Dies, Enters, Passes
    <2> QED
      BY <2>1, <1>1, <1>2, <1>7 DEF FrameInv
  \* In state 1 the walk has passed the path.
  <1>8. ASSUME state = 1 PROVE ~Interesting(p)
    <2>1. path \in Paths /\ path \in Seq(N) /\ p \in Seq(N)
      BY <1>2, <1>5, <1>8, TreesAssumption, TreeFacts DEF TypeOK, Paths, N
    <2>2. ~IsPrefix(p, path)
      <3>1. Len(todo) \in 1..Len(todo)
        BY <1>1, InnerDir DEF TypeInv, TypeOK, Dirs, N
      <3> QED
        BY <3>1, <1>1, <1>2, <1>8 DEF Coming
    <2>3. ~IsPrefix(path, p)
      <3>1. IsPrefix(path, path)
        BY <2>1, PrefixAt
      <3>2. ASSUME IsPrefix(path, p) PROVE path # p /\ tree[path] = "dir" /\ path \in DOMAIN tree
        BY <3>1, <3>2, <2>1, <2>2, <1>5, TreeFacts
      <3> QED
        BY <3>2, <1>2, <1>8 DEF Kind
    <2> QED
      BY <2>1, <2>2, <2>3, <1>2, <1>8 DEF Interesting, Sought
  <1>9. CASE ~Interesting(p)
    <2>1. Reply(p) = [enter |-> FALSE, state |-> state, out |-> <<>>]
      BY <1>9 DEF Reply, Answer
    <2>2. CASE state = 1
      <3>1. pc' = pc /\ out' = out /\ state' = state /\ Passes(p, n)
        BY <2>1, <1>1, <1>6, NothingMore
      <3>2. ~ComingIn(todo', path)
        BY <3>1, <2>2, <1>1, <1>2, <1>5, PassComing, NextWay DEF Passes
      <3> QED
        BY <3>1, <3>2, <2>2, <1>1, <1>2, <1>3, <1>4 DEF FrameInv
    <2>3. CASE state # 1
      BY <2>1, <2>3, <1>7
    <2> QED
      BY <2>2, <2>3
  <1>10. CASE Interesting(p)
    <2>1. state # 1 /\ Reply(p) = BlameEntry(p)
      BY <1>8, <1>10 DEF Reply, Entry
    <2>2. /\ Len(p) - 1 = BaseLen => path # None /\ p = path
          /\ Len(p) - 1 \in Int /\ BaseLen \in Int
      BY <1>5, <1>10, LengthTells
    <2>3. CASE Len(p) - 1 = BaseLen /\ Kind(p) \in Blobs \cup {"bad"}
      <3>1. Reply(p) = [enter |-> FALSE, state |-> 1, out |-> BlameObject(p)]
        BY <2>1, <2>2, <2>3 DEF BlameEntry, Answer, Blobs
      <3>2. pc' = pc /\ out' = BlameObject(p) /\ state' = 1 /\ Passes(p, n)
        BY <3>1, <2>1, <1>1, <1>2, <1>6, NothingMore
      <3>3. path # None /\ p = path /\ Kind(path) # "dir"
        BY <2>2, <2>3 DEF Blobs
      <3>4. ~ComingIn(todo', path)
        <4>1. IsPrefix(path, path) /\ OneWay(path)
          BY <3>3, <1>1, <1>5, TreeFacts, PrefixAt DEF WalkOnce
        <4> QED
          BY <4>1, <3>2, <3>3, <1>1, <1>5, PassComing, NextWay DEF Passes
      <3>5. Unframed \/ Framed(BlameObject(p))
        <4>1. Kind(p) \in {"binary", "big"} => Unframed
          BY <3>3 DEF Unframed
        <4>2. Kind(p) \notin {"binary", "big"} => Framed(BlameObject(p))
          BY Pieces DEF BlameObject
        <4> QED
          BY <4>1, <4>2
      <3> QED
        BY <3>2, <3>3, <3>4, <3>5, <1>1, <1>2, <1>3, <1>4 DEF FrameInv
    <2>4. CASE Len(p) - 1 = BaseLen /\ Kind(p) = "dir"
      BY <2>1, <2>2, <2>4, <1>7 DEF BlameEntry, Answer, Blobs
    <2>5. CASE Len(p) - 1 = BaseLen /\ Kind(p) \in {"link", "sub"}
      BY <2>1, <2>2, <2>5, <1>7 DEF BlameEntry, Answer, Blobs
    <2>6. CASE Len(p) - 1 > BaseLen
      BY <2>1, <2>2, <2>6, <1>7 DEF BlameEntry, Answer, Blobs
    <2>7. CASE Len(p) - 1 < BaseLen /\ Kind(p) = "dir"
      <3>1. Reply(p) = [enter |-> TRUE, state |-> state, out |-> <<>>]
        <4>1. Reply(p) = Answer(Kind(p) = "dir", state, <<>>)
          BY <2>2, <2>7, <2>1 DEF BlameEntry
        <4>2. (Kind(p) = "dir") = TRUE
          BY <2>7
        <4> QED
          BY <4>1, <4>2, Zenon DEF Answer
      <3> QED
        BY <3>1, <2>7, <2>1, <1>7
    <2>8. CASE Len(p) - 1 < BaseLen /\ Kind(p) # "dir"
      <3>1. Reply(p) = [enter |-> FALSE, state |-> state, out |-> <<>>]
        <4>1. Reply(p) = Answer(Kind(p) = "dir", state, <<>>)
          BY <2>2, <2>8, <2>1 DEF BlameEntry
        <4>2. (Kind(p) = "dir") = FALSE
          BY <2>8
        <4> QED
          BY <4>1, <4>2, Zenon DEF Answer
      <3> QED
        BY <3>1, <2>1, <1>7
    <2>9. Kind(p) \in Blobs \cup {"bad"} \/ Kind(p) = "dir" \/ Kind(p) \in {"link", "sub"}
      BY <1>1 DEF Kinds
    <2>10. Len(p) - 1 = BaseLen \/ Len(p) - 1 > BaseLen \/ Len(p) - 1 < BaseLen
      BY <2>2
    <2> QED
      BY <2>3, <2>4, <2>5, <2>6, <2>7, <2>8, <2>9, <2>10, Zenon
  <1> QED
    BY <1>9, <1>10

\* The callback of blob and about prints nothing.
LEMMA SilentVisit ==
  ASSUME TypeInv, Visit, page \in {"blob", "about"}
  PROVE  /\ UNCHANGED <<tree, page, rev, path, readme>> /\ pc \in {"walk", "choose"}
         /\ pc' = pc => out' = out
         /\ pc' # pc => /\ pc' = "done" /\ out' = out \o ErrorPage("400")
                        /\ \E p \in DOMAIN tree : Kind(p) = "sub" /\ Interesting(p)
  <1>1. PICK n \in todo[Len(todo)].names, p \in DOMAIN tree :
           /\ p = Append(todo[Len(todo)].base, n) /\ n \in N
           /\ todo # <<>> /\ pc \in {"walk", "choose"} /\ UNCHANGED <<tree, page, rev, path, readme>>
           /\ state' = Reply(p).state /\ (Dies(p) \/ Enters(p, n) \/ Passes(p, n))
           /\ out \in Seq(Events) /\ Reply(p).out \in Seq(Events) /\ state \in 0..2
           /\ Kind(p) \in Kinds /\ Kind(p) = tree[p]
    BY VisitFacts
  <1>2. Entry(p) = BlobEntry(p)
    BY DEF Entry
  <1>3. Reply(p).out = <<>> /\ (Reply(p).enter => Interesting(p))
    <2>1. CASE Interesting(p)
      BY <2>1, <1>2 DEF Reply, BlobEntry, Answer
    <2>2. CASE ~Interesting(p)
      BY <2>2 DEF Reply, Answer
    <2> QED
      BY <2>1, <2>2
  <1>4. out \o <<>> = out /\ <<>> \o ErrorPage("400") = ErrorPage("400")
    BY <1>1, NothingMore, ErrorPageType
  <1>5. CASE Dies(p)
    <2>1. out' = out \o ErrorPage("400") /\ pc' = "done"
      BY <1>3, <1>4, <1>5 DEF Dies
    <2> QED
      BY <2>1, <1>1, <1>3, <1>5 DEF Dies
  <1>6. CASE Enters(p, n) \/ Passes(p, n)
    BY <1>1, <1>3, <1>4, <1>6 DEF Enters, Passes
  <1> QED
    BY <1>1, <1>5, <1>6

LEMMA BlobVisit ==
  ASSUME TypeInv, FrameInv, Visit, page = "blob"
  PROVE  FrameInv'
  <1>1. pc = "walk" /\ out = <<>> /\ page' = page
    BY SilentVisit DEF FrameInv
  <1>2. CASE pc' = pc
    BY <1>1, <1>2, SilentVisit DEF FrameInv
  <1>3. CASE pc' # pc
    <2>1. pc' = "done" /\ out' = ErrorPage("400")
      BY <1>1, <1>3, SilentVisit, NothingMore, ErrorPageType
    <2> QED
      BY <2>1, <1>1, Pieces DEF FrameInv
  <1> QED
    BY <1>2, <1>3

\* A submodule that is entered while the readme is looked for in the page stands
\* between it and the file beside the readme: the readme itself is a file.
LEMMA AboutVisit ==
  ASSUME TypeInv, FrameInv, ReadmeInv, Visit, page = "about"
  PROVE  FrameInv'
  <1>1. UNCHANGED <<tree, page, rev, path, readme>> /\ pc \in {"walk", "choose"} /\ TypeOK /\ tree \in Trees
    BY SilentVisit DEF TypeInv, TypeOK
  <1>2. CASE pc' = pc
    BY <1>1, <1>2, SilentVisit DEF FrameInv
  <1>3. CASE pc' # pc /\ pc = "choose"
    <2>1. pc' = "done" /\ out' = ErrorPage("400")
      BY <1>3, SilentVisit, NothingMore, ErrorPageType DEF FrameInv
    <2> QED
      BY <2>1, <1>1, Pieces DEF FrameInv
  <1>4. CASE pc' # pc /\ pc = "walk"
    <2>1. PICK p \in DOMAIN tree : Kind(p) = "sub" /\ Interesting(p)
      BY <1>4, SilentVisit
    <2>2. pc' = "done" /\ Regular(Readmes[readme])
      BY <1>4, SilentVisit DEF ReadmeInv
    <2>3. Sought \in Paths /\ Sought # None /\ Sought' = Sought
      <3>1. Sought \in Paths /\ Sought' = Sought
        BY <2>2, <1>1, <1>4, SoughtType DEF Sought
      <3> QED
        BY <3>1, TreesAssumption
    <2>4. Related(p, Sought)
      BY <2>1, <2>3 DEF Interesting, Related
    <2>5. path # None
      <3> SUFFICES ASSUME path = None PROVE FALSE
        OBVIOUS
      <3>1. Regular(Sought) /\ Sought \in DOMAIN tree
        BY <2>2, <1>1, RegularIn DEF Sought
      <3>2. p # Sought
        BY <3>1, <2>1, RegularIn
      <3>3. p \in Paths /\ Kind(Sought) = tree[Sought] /\ Kind(p) = tree[p]
        BY <3>1, <1>1, KindOf
      <3> QED
        BY <3>1, <3>2, <3>3, <2>1, <2>3, <2>4, <1>1, TreeFacts, RegularIn DEF Related
    <2>6. Unframed'
      BY <2>1, <2>3, <2>4, <2>5, <1>1 DEF Unframed, Related, Kind
    <2> QED
      BY <2>2, <2>6, <1>1 DEF FrameInv
  <1> QED
    BY <1>1, <1>2, <1>3, <1>4

LEMMA InitFrame == Init => FrameInv
  BY DEF Init, FrameInv

LEMMA NextFrame == TypeInv /\ WalkOnce /\ ReadmeInv /\ FrameInv /\ [Next]_vars => FrameInv'
  <1> SUFFICES ASSUME TypeInv, WalkOnce, ReadmeInv, FrameInv, [Next]_vars PROVE FrameInv'
    OBVIOUS
  <1>1. TypeOK /\ page \in Pages /\ out \in Seq(Events) /\ state \in 0..2
    BY DEF TypeInv, TypeOK
  <1>2. CASE Visit
    BY <1>1, <1>2, TreeVisit, PlainVisit, BlameVisit, BlobVisit, AboutVisit DEF Pages
  <1>3. CASE Leave
    <2>1. /\ pc \in {"walk", "choose"} /\ UNCHANGED <<tree, page, rev, path, pc, state, readme, out>>
          /\ (Coming(path)' <=> Coming(path))
      <3>1. Coming(path)' <=> ComingIn(todo', path')
        BY DEF Coming, ComingIn, Way
      <3>2. ComingIn(todo', path) <=> Coming(path)
        BY <1>1, <1>3, LeaveComing, NextWay
      <3> QED
        BY <3>1, <3>2, <1>3 DEF Leave, Walking
    <2>2. Unframed' <=> Unframed
      BY <2>1 DEF Unframed, Kind, Sought
    <2>3. Kind(path)' = Kind(path)
      BY <2>1 DEF Kind
    <2> QED
      BY <2>1, <2>2, <2>3 DEF FrameInv
  <1>4. \A e \in Seq(Events) : <<>> \o e = e
    BY NothingMore
  <1>5. ErrorPage("404") \in Seq(Events) /\ Framed(ErrorPage("404"))
    BY ErrorPageType, Pieces
  <1>6. ASSUME UNCHANGED <<tree, page, path>>, pc' = "done", Framed(out') PROVE FrameInv'
    BY <1>6 DEF FrameInv
  <1>7. ASSUME UNCHANGED <<tree, page, path>>, pc' = "done", page \in {"plain", "blob"}, NoError(out')
        PROVE  FrameInv'
    BY <1>7 DEF FrameInv
  <1>8. CASE Begin
    <2>1. out = <<>> /\ pc = "begin" /\ UNCHANGED <<tree, page, rev, path>>
      BY <1>8 DEF Begin, FrameInv
    <2>2. Finish(ErrorPage("404")) => FrameInv'
      BY <2>1, <1>4, <1>5, <1>6 DEF Finish, Emit
    <2>3. ASSUME Walk(0, <<>>), page # "about" PROVE FrameInv'
      <3>1. pc' = "walk" /\ state' = 0 /\ out' = <<>>
        BY <2>3, <2>1 DEF Walk, Emit
      <3> QED
        BY <3>1, <2>1, <2>3 DEF FrameInv
    <2>4. CASE page = "tree" /\ PrintTree
      <3>1. CASE rev \in Peels /\ path = None
        <4>1. pc' = "walk" /\ state' = 1 /\ out' = <<PageStart>>
          BY <3>1, <2>1, <2>4, <1>4, EventTypes DEF PrintTree, Walk, Emit
        <4> QED
          BY <4>1, <2>1, <2>4, Pieces DEF FrameInv
      <3> QED
        BY <3>1, <2>4, <2>2, <2>3 DEF PrintTree
    <2>5. CASE page = "plain" /\ PrintPlain
      <3>1. CASE rev \in Peels /\ path = None
        <4>1. pc' = "walk" /\ state' = 2 /\ out' = <<Note("dir")>>
          BY <3>1, <2>1, <2>5, <1>4, EventTypes DEF PrintPlain, Walk, Emit
        <4>2. NoError(<<Note("dir")>>)
          BY Pieces
        <4> QED
          BY <4>1, <4>2, <2>1, <2>5 DEF FrameInv
      <3> QED
        BY <3>1, <2>5, <2>2, <2>3 DEF PrintPlain
    <2>6. CASE page = "blame" /\ PrintBlame
      BY <2>6, <2>2, <2>3 DEF PrintBlame
    <2>7. CASE page = "blob" /\ PrintBlob
      <3>1. CASE Finish(<<Note("object")>>)
        <4>1. pc' = "done" /\ out' = <<Note("object")>>
          BY <3>1, <2>1, <1>4, EventTypes DEF Finish, Emit
        <4>2. NoError(<<Note("object")>>)
          BY Pieces
        <4> QED
          BY <4>1, <4>2, <2>1, <2>7, <1>7
      <3> QED
        BY <3>1, <2>7, <2>2, <2>3 DEF PrintBlob
    <2> QED
      BY <1>8, <2>4, <2>5, <2>6, <2>7 DEF Begin
  <1>9. CASE End
    <2>1. pc = "walk" /\ UNCHANGED <<tree, page, rev, path>>
      BY <1>9 DEF End
    <2>2. page # "about" => (Unframed' <=> Unframed)
      BY <2>1, UnframedSame
    <2>3. ASSUME out = <<>>, Finish(ErrorPage("404")) PROVE FrameInv'
      BY <2>3, <2>1, <1>4, <1>5, <1>6 DEF Finish, Emit
    <2>4. ASSUME Unframed, page # "about", pc' = "done" PROVE FrameInv'
      BY <2>2, <2>4, <2>1 DEF FrameInv
    <2>5. CASE page = "tree" /\ Finish(TreeEnd)
      <3>1. CASE state = 0
        BY <3>1, <2>1, <2>5, <2>3 DEF FrameInv, TreeEnd
      <3>2. CASE state # 0 /\ ~Unframed
        <4>1. Opened(out) /\ out' = out \o <<PageEnd>> /\ pc' = "done"
          BY <3>2, <2>1, <2>5 DEF FrameInv, TreeEnd, Finish, Emit
        <4> QED
          BY <4>1, <2>1, <1>1, <1>6, OpenedEnds
      <3> QED
        BY <3>1, <3>2, <2>5, <2>4 DEF Finish
    <2>6. CASE page = "plain" /\ Finish(PlainEnd)
      <3>1. CASE state = 0 /\ ~Unframed
        BY <3>1, <2>1, <2>6, <2>3 DEF FrameInv, PlainEnd
      <3>2. CASE state # 0 /\ ~Unframed
        <4>1. NoError(out) /\ out' = out \o PlainEnd /\ pc' = "done"
          BY <3>2, <2>1, <2>6 DEF FrameInv, Finish, Emit
        <4>2. NoError(<<Note("end")>>) /\ NoError(<<>>)
          BY Pieces
        <4>3. NoError(PlainEnd) /\ PlainEnd \in Seq(Events)
          BY <3>2, <4>2, <1>1, EventTypes DEF PlainEnd
        <4> QED
          BY <4>1, <4>3, <2>1, <2>6, <1>1, <1>7, NoErrorMore
      <3> QED
        BY <3>1, <3>2, <2>6, <2>4 DEF Finish
    <2>7. CASE page = "blame" /\ Finish(BlameEnd)
      <3>1. CASE state # 1
        BY <3>1, <2>1, <2>7, <2>3 DEF FrameInv, BlameEnd
      <3>2. CASE state = 1 /\ ~Unframed
        <4>1. Framed(out) /\ out' = out /\ pc' = "done"
          BY <3>2, <2>1, <2>7, <1>1, NothingMore DEF FrameInv, BlameEnd, Finish, Emit
        <4> QED
          BY <4>1, <2>1, <1>6
      <3> QED
        BY <3>1, <3>2, <2>7, <2>4 DEF Finish
    <2>8. CASE page = "blob" /\ Finish(BlobEnd)
      <3>1. out = <<>> /\ path \in Paths
        BY <2>1, <2>8, TreesAssumption DEF FrameInv, TypeInv, TypeOK, Ready
      <3>2. /\ NoError(<<Note("commit")>>) /\ NoError(<<Object(path)>>)
            /\ <<Note("commit")>> \in Seq(Events) /\ <<Object(path)>> \in Seq(Events)
        <4>1. NoError(<<Note("commit")>>)
          BY Pieces
        <4>2. NoError(<<Object(path)>>)
          BY Pieces
        <4>3. Note("commit") \in Events /\ Object(path) \in Events
          BY <3>1, EventTypes
        <4> QED
          BY <4>1, <4>2, <4>3
      <3>3. CASE BlobEnd = ErrorPage("404")
        BY <3>1, <3>3, <2>8, <2>3
      <3>4. CASE BlobEnd # ErrorPage("404")
        <4>1. BlobEnd \in {<<Note("commit")>>, <<Object(path)>>}
          BY <3>4 DEF BlobEnd
        <4>2. out' = BlobEnd /\ pc' = "done"
          BY <4>1, <3>1, <3>2, <2>8, <1>4 DEF Finish, Emit
        <4> QED
          BY <4>1, <4>2, <3>2, <2>1, <2>8, <1>7
      <3> QED
        BY <3>3, <3>4
    <2> QED
      BY <1>9, <2>5, <2>6, <2>7, <2>8 DEF End
  <1>10. CASE NextReadme
    <2>1. page = "about" /\ out = <<>> /\ UNCHANGED <<tree, page, rev, path>>
      BY <1>10 DEF NextReadme, FrameInv
    <2>2. CASE pc' = "choose" /\ out' = out
      BY <2>1, <2>2 DEF FrameInv
    <2>3. CASE Finish(<<Note("none")>>)
      <3>1. pc' = "done" /\ out' = <<Note("none")>>
        BY <2>1, <2>3, <1>4, EventTypes DEF Finish, Emit
      <3> QED
        BY <3>1, <2>1 DEF FrameInv
    <2> QED
      BY <1>10, <2>2, <2>3 DEF NextReadme
  <1>11. CASE PrintReadme
    <2>1. out = <<>> /\ page = "about" /\ page' = page /\ pc' = "walk"
      BY <1>11 DEF PrintReadme, FrameInv, Walk
    <2>2. out' = <<PageStart>>
      BY <2>1, <1>11, <1>4, EventTypes DEF PrintReadme, Walk, Emit
    <2> QED
      BY <2>1, <2>2 DEF FrameInv
  <1>12. CASE EndReadme
    <2>1. /\ out = <<PageStart>> /\ pc' = "done" /\ UNCHANGED <<tree, page, rev, path>>
          /\ out' = <<PageStart>> \o <<Object(Sought), PageEnd>> \/ out' = <<PageStart>> \o <<PageEnd>>
      BY <1>12 DEF EndReadme, Finish, Emit, FrameInv
    <2>2. Object(Sought) \in Events
      BY <1>12, SoughtType, EventTypes DEF EndReadme
    <2>3. out' = <<PageStart, Object(Sought), PageEnd>> \/ out' = <<PageStart, PageEnd>>
      <3>1. /\ <<PageStart>> \o <<Object(Sought), PageEnd>> = <<PageStart, Object(Sought), PageEnd>>
            /\ <<PageStart>> \o <<PageEnd>> = <<PageStart, PageEnd>>
        BY <2>2, EventTypes, Joined
      <3> QED
        BY <2>1, <3>1
    <2> QED
      BY <2>1, <2>3, <1>6, Pieces
  <1>13. CASE UNCHANGED vars
    BY <1>13 DEF vars, FrameInv, Unframed, Kind, Sought, Coming
  <1> QED
    BY <1>2, <1>3, <1>8, <1>9, <1>10, <1>11, <1>12, <1>13 DEF Next, Done

-----------------------------------------------------------------------------
(* The readme that is shown *)

LEMMA Firsts ==
  ASSUME TypeOK, readme > 0, Regular(Readmes[readme]),
         \A k \in 1..(readme - 1) : ~Regular(Readmes[k])
  PROVE  readme \in 1..Len(Readmes) /\ First = readme
  <1>1. readme \in 1..Len(Readmes) /\ Len(Readmes) \in Nat
    BY TreesAssumption DEF TypeOK
  <1>2. \A k \in 1..Len(Readmes) :
          Regular(Readmes[k]) /\ (\A j \in 1..(k - 1) : ~Regular(Readmes[j])) => k = readme
    <2> TAKE k \in 1..Len(Readmes)
    <2> HAVE Regular(Readmes[k]) /\ (\A j \in 1..(k - 1) : ~Regular(Readmes[j]))
    <2>1. ~(k < readme) /\ ~(readme < k)
      BY <1>1
    <2> QED
      BY <2>1, <1>1
  <1> QED
    BY <1>1, <1>2 DEF First

LEMMA NextShown == TypeInv /\ ReadmeInv /\ FrameInv /\ ReadmeShown /\ [Next]_vars => ReadmeShown'
  <1> SUFFICES ASSUME TypeInv, ReadmeInv, FrameInv, ReadmeShown, [Next]_vars,
                      pc' = "done", page' = "about", rev' = "commit"
               PROVE  ReadmeShown'
    BY DEF ReadmeShown
  <1>1. /\ UNCHANGED <<tree, page, rev, path>> /\ page = "about" /\ rev = "commit"
        /\ TypeOK /\ readme \in 0..Len(Readmes) /\ Len(Readmes) \in Nat
    <2>1. UNCHANGED <<tree, page, rev, path>>
      BY DEF Next, vars, Visit, Leave, Begin, End, NextReadme, PrintReadme, EndReadme, Done
    <2> QED
      BY <2>1, TreesAssumption DEF TypeInv, TypeOK
  <1>2. \A p : (Regular(p)' <=> Regular(p)) /\ Kind(p)' = Kind(p)
    BY <1>1 DEF Regular, Kind
  <1>3. CASE Visit
    <2>1. pc' # pc /\ readme' = readme /\ pc \in {"walk", "choose"} /\ out' = out \o ErrorPage("400")
      BY <1>1, <1>3, SilentVisit
    <2>2. PICK p \in DOMAIN tree : Kind(p) = "sub" /\ Interesting(p)
      BY <2>1, <1>1, <1>3, SilentVisit
    <2>3. Related(p, Sought)
      <3>1. Sought \in Paths /\ Sought # None
        BY <2>1, <1>1, SoughtType, TreesAssumption
      <3> QED
        BY <3>1, <2>2 DEF Interesting, Related
    <2>4. IF pc = "choose" THEN Sought = Readmes[readme'] ELSE Sought = Sought'
      BY <2>1, <1>1 DEF Sought
    <2>5. \E p1 \in DOMAIN tree' : Kind(p1)' = "sub" /\ (Related(p1, Sought') \/ Related(p1, Readmes[readme']))
      BY <2>2, <2>3, <2>4, <1>1, <1>2
    <2>6. Printed("error")' # {}
      <3>1. out \in Seq(Events) /\ ErrorPage("400") \in Seq(Events)
        BY <1>1, ErrorPageType DEF TypeOK
      <3>2. Len(ErrorPage("400")) = 3 /\ ErrorPage("400")[2] = <<"error", "400">>
        BY DEF ErrorPage
      <3>3. /\ Len(out') = Len(out) + 3 /\ Len(out) \in Nat
            /\ out'[Len(out) + 2] = <<"error", "400">>
        <4>1. 2 \in 1..Len(ErrorPage("400"))
          BY <3>2
        <4>2. (out \o ErrorPage("400"))[Len(out) + 2] = ErrorPage("400")[2]
          BY <3>1, <4>1, Concat
        <4>3. Len(out \o ErrorPage("400")) = Len(out) + Len(ErrorPage("400")) /\ Len(out) \in Nat
          BY <3>1, Concat
        <4> QED
          BY <4>2, <4>3, <3>2, <2>1
      <3>4. out'[Len(out) + 2][1] = "error" /\ Len(out) + 2 \in 1..Len(out')
        BY <3>3
      <3> QED
        BY <3>4 DEF Printed
    <2> QED
      BY <2>5, <2>6 DEF ReadmeShown, Related
  <1>4. CASE NextReadme
    <2>1. /\ readme' = readme /\ out' = out \o <<Note("none")>> /\ ~(readme < Len(Readmes))
          /\ pc = "begin" \/ (pc = "choose" /\ todo = <<>> /\ state = 0)
      BY <1>1, <1>4 DEF NextReadme, Finish, Emit
    <2>2. out' = <<Note("none")>>
      <3>1. out = <<>>
        BY <2>1 DEF FrameInv
      <3>2. <<Note("none")>> \in Seq(Events)
        BY EventTypes
      <3>3. <<>> \o <<Note("none")>> = <<Note("none")>>
        BY <3>2, NothingMore
      <3> QED
        BY <3>1, <3>3, <2>1
    <2>3. Printed("error")' = {} /\ Printed("object")' = {}
      BY <2>2 DEF Printed, Note
    <2>4. \A k \in 1..Len(Readmes) : ~Regular(Readmes[k])
      <3>1. CASE pc = "begin"
        BY <3>1, <2>1, <1>1 DEF ReadmeInv
      <3>2. CASE pc = "choose"
        <4>1. Sought = Readmes[readme] /\ ~Coming(Sought) /\ readme > 0
          BY <3>2, <2>1, <1>1 DEF Sought, Coming, ReadmeInv
        <4>2. ~Regular(Readmes[readme]) /\ \A k \in 1..(readme - 1) : ~Regular(Readmes[k])
          BY <4>1, <3>2, <2>1, <1>1 DEF ReadmeInv
        <4> QED
          BY <4>1, <4>2, <2>1, <1>1
      <3> QED
        BY <3>1, <3>2, <2>1
    <2> QED
      BY <2>3, <2>4, <1>2 DEF ReadmeShown
  <1>5. CASE EndReadme
    <2>1. /\ out = <<PageStart>> /\ pc = "walk" /\ todo = <<>> /\ readme' = readme
          /\ out' = out \o (IF state = 1 /\ Kind(Sought) # "bad"
                              THEN <<Object(Sought), PageEnd>> ELSE <<PageEnd>>)
      BY <1>5 DEF EndReadme, Finish, Emit, FrameInv
    <2>2. /\ Regular(Readmes[readme]) /\ readme > 0 /\ readme \in 1..Len(Readmes)
          /\ First = readme
      BY <2>1, <1>1, Firsts DEF ReadmeInv
    <2>3. First' = readme' /\ Sought' = Sought /\ Sought \in Paths
      <3>1. First' = First
        BY <1>1 DEF First, Regular, Kind
      <3> QED
        BY <3>1, <2>1, <2>2, <1>1, SoughtType DEF Sought, TypeInv
    <2>4. /\ state = 1 /\ Kind(Sought) # "bad" => out' = <<PageStart, Object(Sought), PageEnd>>
          /\ ~(state = 1 /\ Kind(Sought) # "bad") => out' = <<PageStart, PageEnd>>
      <3>1. /\ <<PageStart>> \o <<Object(Sought), PageEnd>> = <<PageStart, Object(Sought), PageEnd>>
            /\ <<PageStart>> \o <<PageEnd>> = <<PageStart, PageEnd>>
        BY <2>3, EventTypes, Joined
      <3> QED
        BY <3>1, <2>1
    <2>5. path = None /\ Kind(Readmes[readme]) # "bad" => state = 1 /\ Sought = Readmes[readme]
      BY <2>1, <2>2, <1>1 DEF Sought, ReadmeInv, Coming
    <2>6. path # None => Sought = Front(Readmes[readme]) \o path
      BY <2>1, <1>1 DEF Sought, Dirname
    <2>7. CASE state = 1 /\ Kind(Sought) # "bad"
      <3>1. /\ Len(out') = 3 /\ out'[1] = PageStart /\ out'[2] = Object(Sought) /\ out'[3] = PageEnd
        BY <2>4, <2>7
      <3>2. /\ out'[1][1] = "head" /\ out'[2][1] = "object" /\ out'[2][2] = Sought /\ out'[3][1] = "tail"
        BY <3>1 DEF PageStart, PageEnd, Object
      <3>3. Printed("error")' = {} /\ Printed("object")' = {2}
        BY <3>1, <3>2 DEF Printed
      <3>4. Shown("object")' = {Sought}
        BY <3>2, <3>3 DEF Shown
      <3> QED
        BY <3>3, <3>4, <2>1, <2>2, <2>3, <2>5, <2>6, <1>1, <1>2 DEF ReadmeShown
    <2>8. CASE ~(state = 1 /\ Kind(Sought) # "bad")
      <3>1. /\ Len(out') = 2 /\ out'[1][1] = "head" /\ out'[2][1] = "tail"
        BY <2>4, <2>8 DEF PageStart, PageEnd
      <3>2. Printed("error")' = {} /\ Printed("object")' = {}
        BY <3>1 DEF Printed
      <3>3. Shown("object")' = {}
        BY <3>2 DEF Shown
      <3> QED
        BY <3>2, <3>3, <2>1, <2>2, <2>3, <2>5, <2>8, <1>1, <1>2 DEF ReadmeShown
    <2> QED
      BY <2>7, <2>8
  <1>6. CASE UNCHANGED vars
    <2>1. UNCHANGED <<tree, page, rev, path, pc, readme, out>>
      BY <1>6 DEF vars
    <2>2. First' = First
      BY <2>1 DEF First, Regular, Kind
    <2>3. Sought' = Sought
      BY <2>1 DEF Sought
    <2>4. \A e : Printed(e)' = Printed(e) /\ Shown(e)' = Shown(e)
      BY <2>1 DEF Printed, Shown
    <2> QED
      BY <2>1, <2>2, <2>3, <2>4, <1>2 DEF ReadmeShown
  <1>7. CASE Leave \/ Begin \/ End \/ PrintReadme
    <2>1. CASE Leave
      BY <2>1 DEF Leave, Walking
    <2>2. CASE Begin \/ End
      BY <2>2, <1>1 DEF Begin, End
    <2>3. CASE PrintReadme
      BY <2>3 DEF PrintReadme, Walk
    <2> QED
      BY <1>7, <2>1, <2>2, <2>3
  <1> QED
    BY <1>3, <1>4, <1>5, <1>6, <1>7 DEF Next, Done

-----------------------------------------------------------------------------
(* What a page shows *)

Marks(s, w) == {k \in 1..Len(s) : s[k][1] = w}
Says(s, w)  == {s[k][2] : k \in Marks(s, w)}

LEMMA ShownIs ==
  ASSUME NEW w
  PROVE  /\ Printed(w) = Marks(out, w) /\ Shown(w) = Says(out, w)
         /\ Printed(w)' = Marks(out', w) /\ Shown(w)' = Says(out', w)
  BY DEF Printed, Shown, Marks, Says

\* The page when more is printed.
Joins(o, s, e) ==
  /\ Len(o) = Len(s) + Len(e) /\ Len(s) \in Nat /\ Len(e) \in Nat
  /\ \A k \in 1..Len(s) : o[k] = s[k]
  /\ \A k \in 1..Len(e) : o[Len(s) + k] = e[k]
  /\ \A k \in 1..Len(o) : k \notin 1..Len(s) => k - Len(s) \in 1..Len(e)

LEMMA JoinsIs == \A s \in Seq(Events), e \in Seq(Events) : Joins(s \o e, s, e)
  BY Concat DEF Joins

LEMMA SaysMore ==
  ASSUME NEW s, NEW e, NEW o, Joins(o, s, e), NEW w
  PROVE  /\ Says(o, w) = Says(s, w) \cup Says(e, w)
         /\ Marks(o, w) = Marks(s, w) \cup {Len(s) + k : k \in Marks(e, w)}
         /\ \A k \in Marks(s, w) : o[k] = s[k]
         /\ \A k \in Marks(e, w) : o[Len(s) + k] = e[k]
  <1>1. /\ Len(o) = Len(s) + Len(e) /\ Len(s) \in Nat /\ Len(e) \in Nat
        /\ \A k \in 1..Len(s) : o[k] = s[k]
        /\ \A k \in 1..Len(e) : o[Len(s) + k] = e[k]
        /\ \A k \in 1..Len(o) : k \notin 1..Len(s) => k - Len(s) \in 1..Len(e)
    BY DEF Joins
  <1>2. ASSUME NEW k \in Marks(o, w) PROVE k \in Marks(s, w) \cup {Len(s) + j : j \in Marks(e, w)}
    <2>1. CASE k \in 1..Len(s)
      BY <2>1, <1>1, <1>2 DEF Marks
    <2>2. CASE k \notin 1..Len(s)
      <3>1. k \in 1..Len(o) /\ k - Len(s) \in 1..Len(e) /\ Len(s) + (k - Len(s)) = k
        BY <2>2, <1>1, <1>2 DEF Marks
      <3>2. k - Len(s) \in Marks(e, w)
        BY <3>1, <1>1, <1>2 DEF Marks
      <3> QED
        BY <3>1, <3>2
    <2> QED
      BY <2>1, <2>2
  <1>3. ASSUME NEW k \in Marks(s, w) PROVE k \in Marks(o, w) /\ o[k] = s[k]
    BY <1>1, <1>3 DEF Marks
  <1>4. ASSUME NEW k \in Marks(e, w) PROVE Len(s) + k \in Marks(o, w) /\ o[Len(s) + k] = e[k]
    <2>1. k \in 1..Len(e) /\ Len(s) + k \in 1..Len(o)
      BY <1>1, <1>4 DEF Marks
    <2> QED
      BY <2>1, <1>1, <1>4 DEF Marks
  <1>5. Marks(o, w) = Marks(s, w) \cup {Len(s) + k : k \in Marks(e, w)}
    BY <1>2, <1>3, <1>4
  <1>6. Says(o, w) = Says(s, w) \cup Says(e, w)
    <2>1. ASSUME NEW x \in Says(o, w) PROVE x \in Says(s, w) \cup Says(e, w)
      BY <2>1, <1>2, <1>3, <1>4 DEF Says
    <2>2. ASSUME NEW x \in Says(s, w) PROVE x \in Says(o, w)
      BY <2>2, <1>3 DEF Says
    <2>3. ASSUME NEW x \in Says(e, w) PROVE x \in Says(o, w)
      BY <2>3, <1>4 DEF Says
    <2> QED
      BY <2>1, <2>2, <2>3
  <1> QED
    BY <1>3, <1>4, <1>5, <1>6

LEMMA SaysOne ==
  ASSUME NEW x, NEW w
  PROVE  /\ Marks(<<>>, w) = {} /\ Says(<<>>, w) = {}
         /\ x[1] = w => Marks(<<x>>, w) = {1} /\ Says(<<x>>, w) = {x[2]}
         /\ x[1] # w => Marks(<<x>>, w) = {} /\ Says(<<x>>, w) = {}
  <1>1. Len(<<>>) = 0 /\ Len(<<x>>) = 1 /\ <<x>>[1] = x
    OBVIOUS
  <1>2. Marks(<<>>, w) = {}
    BY <1>1 DEF Marks
  <1>3. Marks(<<x>>, w) = IF x[1] = w THEN {1} ELSE {}
    BY <1>1 DEF Marks
  <1> QED
    BY <1>1, <1>2, <1>3 DEF Says

\* What an event says under a name, and what the pieces of a page say.
Word(x, w) == IF x[1] = w THEN {x[2]} ELSE {}

LEMMA WordsOf ==
  ASSUME NEW w, NEW c \in {"400", "404"}, NEW p
  PROVE  /\ Word(PageStart, w) = IF w = "head" THEN {<<>>} ELSE {}
         /\ Word(PageEnd, w) = IF w = "tail" THEN {<<>>} ELSE {}
         /\ Word(<<"error", c>>, w) = IF w = "error" THEN {c} ELSE {}
         /\ Word(Object(p), w) = IF w = "object" THEN {p} ELSE {}
         /\ Word(Item(p), w) = IF w = "item" THEN {p} ELSE {}
         /\ Word(Note(p), w) = IF w = "note" THEN {p} ELSE {}
  BY DEF Word, PageStart, PageEnd, Object, Item, Note

LEMMA SaysWords ==
  ASSUME NEW w, NEW x, NEW y, NEW z
  PROVE  /\ Says(<<>>, w) = {}
         /\ Says(<<x>>, w) = Word(x, w)
         /\ Says(<<x, y>>, w) = Word(x, w) \cup Word(y, w)
         /\ \A v : v \in Says(<<x, y, z>>, w) <=> v \in Word(x, w) \/ v \in Word(y, w) \/ v \in Word(z, w)
  <1>1. Says(<<>>, w) = {} /\ Says(<<x>>, w) = Word(x, w)
    BY SaysOne DEF Word
  <1>2. Says(<<x, y>>, w) = Word(x, w) \cup Word(y, w)
    <2> DEFINE s == <<x, y>>
    <2>1. Len(s) = 2 /\ s[1] = x /\ s[2] = y
      OBVIOUS
    <2> HIDE DEF s
    <2>2. \A k : k \in Marks(s, w) <=> k \in {1, 2} /\ s[k][1] = w
      BY <2>1 DEF Marks
    <2>3. Says(s, w) = Word(x, w) \cup Word(y, w)
      BY <2>1, <2>2 DEF Says, Word
    <2> QED
      BY <2>3 DEF s
  <1>3. Says(<<x, y, z>>, w) = (Word(x, w) \cup Word(y, w)) \cup Word(z, w)
    <2> DEFINE s == <<x, y, z>>
    <2>1. Len(s) = 3 /\ s[1] = x /\ s[2] = y /\ s[3] = z
      OBVIOUS
    <2> HIDE DEF s
    <2>2. \A k : k \in Marks(s, w) <=> k \in {1, 2, 3} /\ s[k][1] = w
      BY <2>1 DEF Marks
    <2>3. Says(s, w) = Word(x, w) \cup Word(y, w) \cup Word(z, w)
      BY <2>1, <2>2 DEF Says, Word
    <2> QED
      BY <2>3 DEF s
  <1> QED
    BY <1>1, <1>2, <1>3

LEMMA SaysPieces ==
  ASSUME NEW c \in {"400", "404"}, NEW p, NEW w
  PROVE  /\ Says(ErrorPage(c), w) = IF w = "error" THEN {c} ELSE IF w \in {"head", "tail"} THEN {<<>>} ELSE {}
         /\ Says(<<PageStart, Object(p)>>, w) = IF w = "object" THEN {p} ELSE IF w = "head" THEN {<<>>} ELSE {}
         /\ Says(<<PageStart, Object(p), PageEnd>>, w)
              = IF w = "object" THEN {p} ELSE IF w \in {"head", "tail"} THEN {<<>>} ELSE {}
         /\ Says(<<PageStart, Note(p)>>, w) = IF w = "note" THEN {p} ELSE IF w = "head" THEN {<<>>} ELSE {}
  <1> DEFINE e  == <<"error", c>>
             os == <<PageStart, Object(p)>>
             ob == <<PageStart, Object(p), PageEnd>>
             ns == <<PageStart, Note(p)>>
  <1>1. ErrorPage(c) = <<PageStart, e, PageEnd>>
    BY DEF ErrorPage
  <1>2. Says(ErrorPage(c), w) = (Word(PageStart, w) \cup Word(e, w)) \cup Word(PageEnd, w)
    <2> HIDE DEF e
    <2>1. \A v : v \in Says(<<PageStart, e, PageEnd>>, w) <=>
                   v \in Word(PageStart, w) \/ v \in Word(e, w) \/ v \in Word(PageEnd, w)
      BY SaysWords
    <2> QED
      BY <1>1, <2>1
  <1>3. Says(os, w) = Word(PageStart, w) \cup Word(Object(p), w)
    BY SaysWords, Zenon
  <1>4. Says(ob, w) = (Word(PageStart, w) \cup Word(Object(p), w)) \cup Word(PageEnd, w)
    <2>1. \A v : v \in Says(ob, w) <=>
                   v \in Word(PageStart, w) \/ v \in Word(Object(p), w) \/ v \in Word(PageEnd, w)
      BY SaysWords
    <2> QED
      BY <2>1
  <1>5. Says(ns, w) = Word(PageStart, w) \cup Word(Note(p), w)
    BY SaysWords, Zenon
  <1>6. /\ Word(PageStart, w) = IF w = "head" THEN {<<>>} ELSE {}
        /\ Word(PageEnd, w) = IF w = "tail" THEN {<<>>} ELSE {}
        /\ Word(e, w) = IF w = "error" THEN {c} ELSE {}
        /\ Word(Object(p), w) = IF w = "object" THEN {p} ELSE {}
        /\ Word(Note(p), w) = IF w = "note" THEN {p} ELSE {}
    BY WordsOf
  <1> HIDE DEF e, os, ob, ns
  <1>7. Says(ErrorPage(c), w) = IF w = "error" THEN {c} ELSE IF w \in {"head", "tail"} THEN {<<>>} ELSE {}
    BY <1>2, <1>6
  <1>8. Says(os, w) = IF w = "object" THEN {p} ELSE IF w = "head" THEN {<<>>} ELSE {}
    BY <1>3, <1>6
  <1>9. Says(ob, w) = IF w = "object" THEN {p} ELSE IF w \in {"head", "tail"} THEN {<<>>} ELSE {}
    BY <1>4, <1>6
  <1>10. Says(ns, w) = IF w = "note" THEN {p} ELSE IF w = "head" THEN {<<>>} ELSE {}
    BY <1>5, <1>6
  <1> QED
    BY <1>7, <1>8, <1>9, <1>10 DEF os, ob, ns

LEMMA SaysNone == \A s, w : Says(s, w) = {} <=> Marks(s, w) = {}
  BY DEF Says

-----------------------------------------------------------------------------
(* Where the walk is *)

Walked == {"tree", "plain", "blame"}

LEMMA PathIs ==
  ASSUME TypeInv
  PROVE  /\ tree \in Trees /\ None \notin Paths /\ path \in Paths \cup {None}
         /\ path # None => path \in Paths /\ path \in Seq(N) /\ Len(path) \in Nat \ {0}
         /\ Dir \in Seq(N) /\ Len(Dir) \in Nat /\ (path # None => Dir = path) /\ (path = None => Dir = <<>>)
         /\ \A q \in DOMAIN tree : q \in Paths /\ q \in Seq(N) /\ Len(q) \in Nat \ {0}
         /\ page # "about" => Sought = path
         /\ pc = "choose" => page = "about"
  <1>1. tree \in Trees /\ None \notin Paths /\ path \in Paths \cup {None}
    BY TreesAssumption DEF TypeInv, TypeOK
  <1>2. path # None => path \in Paths /\ path \in Seq(N) /\ Len(path) \in Nat \ {0}
    BY <1>1, EmptySeq DEF Paths, N
  <1>3. Dir \in Seq(N) /\ Len(Dir) \in Nat /\ (path # None => Dir = path) /\ (path = None => Dir = <<>>)
    <2>1. <<>> \in Seq(N) /\ Len(<<>>) = 0
      OBVIOUS
    <2> QED
      BY <2>1, <1>2 DEF Dir
  <1>4. \A q \in DOMAIN tree : q \in Paths /\ q \in Seq(N) /\ Len(q) \in Nat \ {0}
    BY <1>1, TreeFacts
  <1> QED
    BY <1>1, <1>2, <1>3, <1>4 DEF Sought, TypeInv, Ready

\* What is above the entry that is read is not ahead.
LEMMA NotBoth ==
  ASSUME TypeInv, WalkOnce, todo # <<>>, NEW n \in todo[Len(todo)].names, NEW p \in DOMAIN tree,
         p = Append(todo[Len(todo)].base, n), NEW q \in Paths, q # p, IsPrefix(q, p)
  PROVE  ~Coming(q)
  <1> SUFFICES ASSUME Coming(q) PROVE FALSE
    OBVIOUS
  <1>1. TypeOK /\ OneWay(p)
    BY DEF TypeInv, WalkOnce
  <1>2. p \in Seq(N) /\ q \in Seq(N) /\ Len(p) \in Nat /\ Len(q) \in Nat
    <2>1. p \in Seq(N) /\ q \in Seq(N)
      BY PathIs DEF Paths, N
    <2> QED
      BY <2>1, LenProperties
  <1>3. Len(todo) \in 1..Len(todo)
    BY <1>1, InnerDir DEF TypeOK, Dirs, N
  <1>4. PICK k \in 1..Len(todo) : \E m \in todo[k].names : IsPrefix(Append(todo[k].base, m), q)
    BY DEF Coming
  <1>5. PICK m \in todo[k].names : IsPrefix(Append(todo[k].base, m), q)
    BY <1>4
  <1>6. Append(todo[k].base, m) \in DOMAIN tree
    BY <1>1 DEF TypeOK
  <1>7. IsPrefix(Append(todo[k].base, m), p)
    BY <1>5, <1>6, <1>2, PrefixSteps, PathIs
  <1>8. k = Len(todo) /\ m = n
    <2>1. IsPrefix(p, p)
      BY <1>2, PrefixSteps
    <2> QED
      BY <2>1, <1>7, <1>1, <1>3 DEF OneWay
  <1>9. IsPrefix(p, q)
    BY <1>5, <1>8
  <1> QED
    BY <1>9, <1>2, PrefixAt, SamePath

\* What a visit changes: an entry on the way to q says that q is ahead, and q is
\* ahead until the walk is there.
LEMMA VisitComing ==
  ASSUME TypeInv, WalkOnce, Visit, NEW n \in todo[Len(todo)].names, NEW p \in DOMAIN tree,
         p = Append(todo[Len(todo)].base, n), NEW q \in Paths,
         Enters(p, n) \/ Passes(p, n)
  PROVE  /\ IsPrefix(p, q) => Coming(q)
         /\ ComingIn(todo', q) => Coming(q)
         /\ ~IsPrefix(p, q) => (ComingIn(todo', q) <=> Coming(q))
         /\ p = q => ~ComingIn(todo', q)
         /\ q # p /\ IsPrefix(q, p) => ~Coming(q) /\ q \in DOMAIN tree /\ Kind(q) = "dir"
         /\ q # p /\ IsPrefix(p, q) /\ q \in DOMAIN tree => Kind(p) = "dir"
         /\ q # p /\ IsPrefix(p, q) /\ q \in DOMAIN tree /\ Enters(p, n) => ComingIn(todo', q)
  <1>1. TypeOK /\ todo # <<>> /\ OneWay(p)
    BY VisitFacts DEF TypeInv, WalkOnce
  <1>2. p \in Seq(N) /\ q \in Seq(N) /\ p \in Paths /\ tree \in Trees /\ Len(p) \in Nat /\ Len(q) \in Nat
    <2>1. p \in Seq(N) /\ p \in Paths /\ tree \in Trees /\ q \in Seq(N)
      BY PathIs DEF Paths, N
    <2> QED
      BY <2>1, LenProperties
  <1>3. Len(todo) \in 1..Len(todo) /\ todo \in Seq(Dirs)
    BY <1>1, InnerDir DEF TypeOK, Dirs, N
  <1>4. IsPrefix(p, q) => Coming(q)
    BY <1>3 DEF Coming
  <1>5. Coming(q)' => Coming(q)
    <2>1. CASE Passes(p, n)
      BY <2>1, <1>1, PassComing DEF Passes
    <2>2. CASE Enters(p, n)
      BY <2>2, <1>1, <1>4, EnterComing DEF Enters
    <2> QED
      BY <2>1, <2>2
  <1>6. ASSUME ~IsPrefix(p, q), Coming(q) PROVE Coming(q)'
    <2>1. CASE Passes(p, n)
      BY <2>1, <1>1, <1>6, PassComing DEF Passes
    <2>2. CASE Enters(p, n)
      BY <2>2, <1>1, <1>6, EnterComing DEF Enters
    <2> QED
      BY <2>1, <2>2
  <1>7. ASSUME p = q PROVE ~Coming(q)'
    <2>1. OneWay(q) /\ IsPrefix(p, q)
      BY <1>1, <1>2, <1>7, PrefixSteps
    <2>2. CASE Passes(p, n)
      BY <2>1, <2>2, <1>1, PassComing DEF Passes
    <2>3. CASE Enters(p, n)
      BY <2>1, <2>3, <1>1, <1>7, EnterComing DEF Enters
    <2> QED
      BY <2>2, <2>3
  <1>8. q # p /\ IsPrefix(q, p) => ~Coming(q)
    BY <1>1, NotBoth
  <1>9. q # p /\ IsPrefix(q, p) => q \in DOMAIN tree /\ Kind(q) = "dir"
    BY <1>2, TreeFacts DEF Kind
  <1>10. q # p /\ IsPrefix(p, q) /\ q \in DOMAIN tree => Kind(p) = "dir"
    BY <1>2, TreeFacts DEF Kind
  <1>11. q # p /\ IsPrefix(p, q) /\ q \in DOMAIN tree /\ Enters(p, n) => Coming(q)'
    BY <1>1, EnterComing DEF Enters
  <1>12. Coming(q)' <=> ComingIn(todo', q)
    BY NextWay
  <1> QED
    BY <1>4, <1>5, <1>6, <1>7, <1>8, <1>9, <1>10, <1>11, <1>12

\* What the callbacks answer: to an entry off the way, to one on it, to the path
\* itself, and to an entry below it.
LEMMA ReplyOff ==
  ASSUME TypeInv, page \in Walked, NEW p \in DOMAIN tree,
         path # None, ~IsPrefix(p, path), ~IsPrefix(path, p)
  PROVE  Reply(p) = Answer(FALSE, state, <<>>)
  BY PathIs DEF Reply, Interesting, Walked

LEMMA ReplyOn ==
  ASSUME TypeInv, page \in Walked, NEW p \in DOMAIN tree,
         path # None, IsPrefix(p, path), p # path, state = 0
  PROVE  /\ Reply(p).state = 0 /\ Reply(p).out = <<>>
         /\ Kind(p) = "dir" => Reply(p).enter
         /\ page = "blame" \/ page = "plain" => ~(Reply(p).enter /\ Kind(p) = "sub")
  <1>1. /\ Sought = path /\ path \in Seq(N) /\ Len(path) \in Nat /\ p \in Seq(N) /\ Len(p) \in Nat
        /\ Len(p) - 1 < BaseLen
    <2>1. Sought = path /\ path \in Seq(N) /\ Len(path) \in Nat /\ p \in Seq(N) /\ Len(p) \in Nat
      BY PathIs DEF Walked
    <2>2. ~(Len(path) <= Len(p))
      BY <2>1, SamePath
    <2> QED
      BY <2>1, <2>2 DEF BaseLen
  <1>2. CASE ~Interesting(p)
    <2>1. Reply(p) = Answer(FALSE, state, <<>>)
      BY <1>2 DEF Reply
    <2>2. Kind(p) # "dir"
      BY <1>1, <1>2 DEF Interesting
    <2> QED
      BY <2>1, <2>2 DEF Answer
  <1>3. CASE Interesting(p)
    <2>1. Reply(p) = Entry(p)
      BY <1>3 DEF Reply
    <2>2. CASE page = "tree"
      BY <2>1, <2>2 DEF Entry, TreeEntry, Answer
    <2>3. CASE page \in {"plain", "blame"}
      <3>1. Len(p) - 1 \in Int /\ BaseLen \in Int
        BY <1>1, BaseLenType DEF TypeInv
      <3>2. Entry(p) = Answer(Kind(p) = "dir", state, <<>>)
        <4>1. CASE page = "plain"
          BY <4>1, <3>1, <1>1 DEF Entry, PlainEntry
        <4>2. CASE page = "blame"
          BY <4>2, <3>1, <1>1 DEF Entry, BlameEntry
        <4> QED
          BY <2>3, <4>1, <4>2
      <3>3. Entry(p).state = state /\ Entry(p).out = <<>> /\ (Entry(p).enter <=> Kind(p) = "dir")
        <4>1. CASE Kind(p) = "dir"
          <5>1. (Kind(p) = "dir") = TRUE
            BY <4>1
          <5>2. Entry(p) = [enter |-> TRUE, state |-> state, out |-> <<>>]
            BY <3>2, <5>1, Zenon DEF Answer
          <5> QED
            BY <4>1, <5>2
        <4>2. CASE Kind(p) # "dir"
          <5>1. (Kind(p) = "dir") = FALSE
            BY <4>2
          <5>2. Entry(p) = [enter |-> FALSE, state |-> state, out |-> <<>>]
            BY <3>2, <5>1, Zenon DEF Answer
          <5> QED
            BY <4>2, <5>2
        <4> QED
          BY <4>1, <4>2
      <3> QED
        BY <2>1, <2>3, <3>3
    <2> QED
      BY <2>2, <2>3 DEF Walked
  <1> QED
    BY <1>2, <1>3

LEMMA ReplyAt ==
  ASSUME TypeInv, page \in Walked, NEW p \in DOMAIN tree, p = path, state = 0
  PROVE  /\ page = "tree" => Reply(p) = IF Kind(p) = "dir" THEN Answer(TRUE, 1, <<PageStart>>)
                                                          ELSE Answer(FALSE, 2, TreeObject(p))
         /\ page = "plain" =>
              Reply(p) = CASE Kind(p) = "bad" -> Answer(FALSE, 0, ErrorPage("404"))
                           [] Kind(p) \in Blobs \cup {"link"} -> Answer(FALSE, 1, <<Object(p)>>)
                           [] Kind(p) = "dir" -> Answer(TRUE, 2, <<Note("dir")>>)
                           [] Kind(p) = "sub" -> Answer(FALSE, 0, <<>>)
         /\ page = "blame" =>
              Reply(p) = CASE Kind(p) \in Blobs \cup {"bad"} -> Answer(FALSE, 1, BlameObject(p))
                           [] Kind(p) = "dir" -> Answer(FALSE, 2, <<>>)
                           [] Kind(p) \in {"link", "sub"} -> Answer(FALSE, 0, <<>>)
  <1>1. /\ Sought = path /\ path \in Seq(N) /\ Len(path) \in Nat /\ path # None /\ IsPrefix(path, p)
        /\ Len(p) - 1 = BaseLen /\ BaseLen \in Int
    <2>1. Sought = path /\ path \in Seq(N) /\ Len(path) \in Nat /\ path # None
      BY PathIs DEF Walked
    <2> QED
      BY <2>1, PrefixSteps DEF BaseLen
  <1>2. Reply(p) = Entry(p) /\ Kind(p) \in Kinds
    BY <1>1, KindOf DEF Reply, Interesting, TypeInv
  <1>3. CASE page = "tree"
    BY <1>2, <1>3 DEF Entry, TreeEntry
  <1>4. CASE page = "plain"
    <2>1. Reply(p) = PlainEntry(p)
      BY <1>2, <1>4 DEF Entry
    <2>2. CASE Kind(p) = "bad"
      BY <2>1, <2>2, <1>1, <1>4 DEF PlainEntry, Answer, Blobs
    <2>3. CASE Kind(p) \in Blobs \cup {"link"}
      BY <2>1, <2>3, <1>1, <1>4 DEF PlainEntry, Answer, Blobs
    <2>4. CASE Kind(p) = "dir"
      BY <2>1, <2>4, <1>1, <1>4 DEF PlainEntry, Answer, Blobs
    <2>5. CASE Kind(p) = "sub"
      BY <2>1, <2>5, <1>1, <1>4 DEF PlainEntry, Answer, Blobs
    <2> QED
      BY <2>2, <2>3, <2>4, <2>5, <1>2, Zenon DEF Kinds
  <1>5. CASE page = "blame"
    <2>1. Reply(p) = BlameEntry(p)
      BY <1>2, <1>5 DEF Entry
    <2>2. CASE Kind(p) \in Blobs \cup {"bad"}
      BY <2>1, <2>2, <1>1, <1>5 DEF BlameEntry, Answer, Blobs
    <2>3. CASE Kind(p) = "dir"
      BY <2>1, <2>3, <1>1, <1>5 DEF BlameEntry, Answer, Blobs
    <2>4. CASE Kind(p) \in {"link", "sub"}
      BY <2>1, <2>4, <1>1, <1>5 DEF BlameEntry, Answer, Blobs
    <2> QED
      BY <2>2, <2>3, <2>4, <1>2, Zenon DEF Kinds
  <1> QED
    BY <1>3, <1>4, <1>5 DEF Walked

LEMMA ReplyBelow ==
  ASSUME TypeInv, page \in Walked, NEW p \in DOMAIN tree, path = None \/ (IsPrefix(path, p) /\ p # path)
  PROVE  /\ page = "tree" /\ state # 0 => Reply(p) = Answer(FALSE, state, ListItem(p))
         /\ page = "plain" => Reply(p) = Answer(FALSE, 2, <<Item(p)>>)
         /\ page = "blame" => Reply(p) = Answer(FALSE, 2, <<>>)
  <1>1. Sought = path /\ p \in Seq(N) /\ Len(p) \in Nat \ {0}
    BY PathIs DEF Walked
  <1>2. Len(p) - 1 > BaseLen /\ BaseLen \in Int
    <2>1. CASE path = None
      BY <2>1, <1>1 DEF BaseLen
    <2>2. CASE path # None
      <3>1. path \in Seq(N) /\ Len(path) \in Nat
        BY <2>2, PathIs
      <3>2. ~(Len(p) <= Len(path))
        BY <2>2, <3>1, <1>1, SamePath
      <3> QED
        BY <2>2, <3>1, <3>2, <1>1 DEF BaseLen
    <2> QED
      BY <2>1, <2>2
  <1>3. Reply(p) = Entry(p)
    BY <1>1 DEF Reply, Interesting
  <1>4. CASE page = "tree"
    BY <1>3, <1>4 DEF Entry, TreeEntry
  <1>5. CASE page = "plain"
    BY <1>1, <1>2, <1>3, <1>5 DEF Entry, PlainEntry, Answer
  <1>6. CASE page = "blame"
    BY <1>1, <1>2, <1>3, <1>6 DEF Entry, BlameEntry, Answer
  <1> QED
    BY <1>4, <1>5, <1>6 DEF Walked

-----------------------------------------------------------------------------
(* The directories the walk is in *)

LEMMA SamePage ==
  ASSUME tree' = tree, page' = page, path' = path
  PROVE  /\ Dir' = Dir /\ (IsDir' <=> IsDir) /\ (Readable' <=> Readable)
         /\ (Coming(path)' <=> ComingIn(todo', path)) /\ (Coming(path) <=> ComingIn(todo, path))
         /\ Kind(path)' = Kind(path)
         /\ \A q : /\ Kind(q)' = Kind(q) /\ Listed(q)' = Listed(q) /\ NameAt(q)' = NameAt(q)
                   /\ (Coming(q)' <=> ComingIn(todo', q)) /\ (Coming(q) <=> ComingIn(todo, q))
  <1>1. Dir' = Dir /\ \A q : Kind(q)' = Kind(q) /\ Listed(q)' = Listed(q)
    BY DEF Dir, Kind, Listed
  <1>2. Kind(path)' = Kind(path)
    BY DEF Kind
  <1>3. (IsDir' <=> IsDir) /\ (Readable' <=> Readable)
    BY <1>2 DEF IsDir, Readable
  <1>4. \A q : NameAt(q)' = NameAt(q)
    BY <1>1 DEF NameAt
  <1>5. (Coming(path)' <=> ComingIn(todo', path)) /\ (Coming(path) <=> ComingIn(todo, path))
    BY DEF Coming, ComingIn, Way
  <1> QED
    BY <1>1, <1>2, <1>3, <1>4, <1>5, NextWay, WayDef

Stacked(td, base, k) ==
  /\ Len(base) = k - 1 /\ (base = <<>> \/ Kind(base) = "dir")
  /\ page \in Walked /\ IsPrefix(Dir, base) => base = Dir /\ (path = None \/ ~ComingIn(td, path))

LEMMA StackIs ==
  ASSUME tree' = tree, page' = page, path' = path
  PROVE  /\ StackInv <=> (pc \in {"walk", "choose"} => \A k \in 1..Len(todo) : Stacked(todo, todo[k].base, k))
         /\ StackInv' <=> (pc' \in {"walk", "choose"} => \A k \in 1..Len(todo') : Stacked(todo', todo'[k].base, k))
  BY SamePage DEF StackInv, Stacked, Walked

LEMMA VisitStack ==
  ASSUME TypeInv, WalkOnce, StackInv, PathInv, Visit
  PROVE  StackInv'
  <1>1. PICK n \in todo[Len(todo)].names, p \in DOMAIN tree :
           /\ p = Append(todo[Len(todo)].base, n) /\ n \in N
           /\ todo # <<>> /\ pc \in {"walk", "choose"} /\ UNCHANGED <<tree, page, rev, path, readme>>
           /\ state' = Reply(p).state /\ (Dies(p) \/ Enters(p, n) \/ Passes(p, n))
    BY VisitFacts
  <1>2. todo \in Seq(Dirs) /\ Len(todo) \in Nat \ {0} /\ Last(todo) = todo[Len(todo)] /\ todo[Len(todo)].base \in Seq(N)
    <2>1. todo \in Seq(Dirs) /\ Len(todo) \in Nat \ {0} /\ Last(todo) = todo[Len(todo)] /\ Last(todo) \in Dirs
      BY <1>1, InnerDir DEF TypeInv, TypeOK, Dirs, N
    <2> QED
      BY <2>1 DEF Dirs
  <1>3. \A k \in 1..Len(todo) : Stacked(todo, todo[k].base, k)
    BY <1>1, StackIs
  <1>4. StackInv' <=> (pc' \in {"walk", "choose"} => \A k \in 1..Len(todo') : Stacked(todo', todo'[k].base, k))
    BY <1>1, StackIs
  <1>5. CASE Dies(p)
    BY <1>4, <1>5 DEF Dies
  <1>6. CASE Enters(p, n) \/ Passes(p, n)
    <2>1. path # None /\ ComingIn(todo', path) => ComingIn(todo, path)
      <3>1. path # None => path \in Paths
        BY PathIs
      <3>2. path # None /\ ComingIn(todo', path) => Coming(path)
        BY <3>1, <1>1, <1>6, VisitComing
      <3> QED
        BY <3>2, WayDef
    <2>2. \A k \in 1..Len(todo) : Stacked(todo', todo[k].base, k)
      BY <2>1, <1>3 DEF Stacked
    <2>3. /\ Rest(todo, n) \in Seq(Dirs) /\ Len(Rest(todo, n)) = Len(todo)
          /\ \A k \in 1..Len(todo) : Rest(todo, n)[k].base = todo[k].base
      BY <1>1, <1>2, RestOf
    <2>4. CASE Passes(p, n)
      BY <2>2, <2>3, <2>4, <1>4 DEF Passes
    <2>5. CASE Enters(p, n)
      <3> DEFINE d == [base |-> p, names |-> Entries(p)]
                 r == Rest(todo, n)
      <3>1. p \in Seq(N) /\ d \in Dirs /\ d.base = p
        BY PathIs DEF Dirs, Entries, N
      <3>2. todo' = Append(r, d)
        BY <2>5 DEF Enters
      <3> HIDE DEF d, r
      <3>3. /\ Len(todo') = Len(todo) + 1 /\ todo'[Len(todo) + 1] = d
            /\ \A k \in 1..Len(todo) : todo'[k] = r[k]
        BY <2>3, <3>1, <3>2, PushOf DEF r
      <3>4. \A k \in 1..Len(todo) : Stacked(todo', todo'[k].base, k)
        BY <2>2, <2>3, <3>3 DEF r
      <3>5. Len(p) = Len(todo) /\ Kind(p) = "dir"
        <4>1. Len(p) = Len(todo[Len(todo)].base) + 1
          BY <1>1, <1>2, AppendPrefix
        <4>2. Len(todo[Len(todo)].base) = Len(todo) - 1
          BY <1>2, <1>3 DEF Stacked
        <4> QED
          BY <4>1, <4>2, <1>2, <2>5 DEF Enters
      <3>6. ASSUME page \in Walked, IsPrefix(Dir, p) PROVE p = Dir /\ (path = None \/ ~ComingIn(todo', path))
        <4>1. CASE path # None /\ p = path
          <5>1. p \in Paths /\ p = Dir
            BY <4>1, PathIs
          <5>2. ~ComingIn(todo', p)
            BY <5>1, <1>1, <1>6, VisitComing
          <5> QED
            BY <4>1, <5>1, <5>2
        <4>2. CASE path = None \/ p # path
          <5>1. path = None \/ (IsPrefix(path, p) /\ p # path)
            BY <4>2, <3>6, PathIs
          <5>2. IsDir /\ (path = None \/ ~Coming(path))
            <6>1. CASE path = None
              BY <6>1 DEF IsDir
            <6>2. CASE path # None
              <7>1. path \in Paths /\ path # p /\ IsPrefix(path, p)
                BY <6>2, <5>1, PathIs
              <7> QED
                BY <7>1, <1>1, <1>6, VisitComing DEF IsDir
            <6> QED
              BY <6>1, <6>2
          <5>3. page = "tree" => state # 0
            BY <3>6, <1>1, <5>2, PathIs DEF PathInv, ListInv, Walked
          <5>4. ~Reply(p).enter
            BY <3>6, <5>1, <5>3, ReplyBelow DEF Walked, Answer
          <5> QED
            BY <5>4, <2>5 DEF Enters
        <4> QED
          BY <4>1, <4>2
      <3>7. Stacked(todo', p, Len(todo) + 1)
        BY <3>5, <3>6, <1>2 DEF Stacked
      <3>8. \A k \in 1..Len(todo') : Stacked(todo', todo'[k].base, k)
        <4>1. \A k \in 1..Len(todo') : k \in 1..Len(todo) \/ k = Len(todo) + 1
          BY <3>3, <1>2
        <4> QED
          BY <4>1, <3>1, <3>3, <3>4, <3>7
      <3> QED
        BY <3>8, <1>4
    <2> QED
      BY <2>4, <2>5, <1>6
  <1> QED
    BY <1>1, <1>5, <1>6

LEMMA NextStack == TypeInv /\ WalkOnce /\ StackInv /\ PathInv /\ [Next]_vars => StackInv'
  <1> SUFFICES ASSUME TypeInv, WalkOnce, StackInv, PathInv, [Next]_vars, tree' = tree, page' = page, path' = path
               PROVE  StackInv'
    <2>1. [Next]_vars => tree' = tree /\ page' = page /\ path' = path
      BY DEF Next, vars, Visit, Leave, Begin, End, NextReadme, PrintReadme, EndReadme, Done
    <2> QED
      BY <2>1
  <1>1. StackInv' <=> (pc' \in {"walk", "choose"} => \A k \in 1..Len(todo') : Stacked(todo', todo'[k].base, k))
    BY StackIs
  <1>2. pc \in {"walk", "choose"} => \A k \in 1..Len(todo) : Stacked(todo, todo[k].base, k)
    BY StackIs
  <1>3. CASE Visit
    BY <1>3, VisitStack
  <1>4. CASE Leave
    <2>1. /\ todo \in Seq(Dirs) /\ todo # <<>> /\ todo' = Front(todo) /\ pc' = pc
      BY <1>4 DEF TypeInv, TypeOK, Dirs, N, Leave, Walking
    <2>2. Len(todo) \in Nat \ {0} /\ Len(todo') = Len(todo) - 1 /\ \A k \in 1..(Len(todo) - 1) : todo'[k] = todo[k]
      BY <2>1, InnerDir
    <2>3. ComingIn(todo', path) <=> ComingIn(todo, path)
      BY <1>4, LeaveComing, NextWay, WayDef DEF TypeInv
    <2>4. ASSUME pc' \in {"walk", "choose"}, NEW k \in 1..Len(todo') PROVE Stacked(todo', todo'[k].base, k)
      <3>1. k \in 1..(Len(todo) - 1) /\ k \in 1..Len(todo) /\ todo'[k] = todo[k] /\ pc \in {"walk", "choose"}
        BY <2>1, <2>2, <2>4
      <3>2. Stacked(todo, todo[k].base, k)
        BY <3>1, <1>2
      <3> QED
        BY <3>1, <3>2, <2>3 DEF Stacked
    <2> QED
      BY <2>4, <1>1
  <1>5. CASE StartWalk
    <2> DEFINE d == [base |-> <<>>, names |-> Entries(<<>>)]
    <2>1. todo' = <<d>> /\ d.base = <<>>
      BY <1>5 DEF StartWalk
    <2> HIDE DEF d
    <2>2. Len(todo') = 1 /\ todo'[1].base = <<>>
      BY <2>1
    <2>3. Len(<<>>) = 0 /\ <<>> \in Seq(N)
      OBVIOUS
    <2>4. IsPrefix(Dir, <<>>) => path = None
      <3>1. IsPrefix(Dir, <<>>) => Len(Dir) <= Len(<<>>)
        BY <2>3, PathIs, PrefixAt
      <3> QED
        BY <3>1, <2>3, PathIs
    <2>5. Stacked(todo', <<>>, 1)
      BY <2>3, <2>4, PathIs DEF Stacked
    <2> QED
      BY <2>2, <2>5, <1>1
  <1>6. CASE UNCHANGED <<pc, todo>>
    BY <1>1, <1>2, <1>6
  <1>7. CASE pc' = "done"
    BY <1>1, <1>7
  <1> QED
    BY <1>3, <1>4, <1>5, <1>6, <1>7
       DEF Next, Begin, End, NextReadme, PrintReadme, EndReadme, Done, vars, Finish, Walk,
           PrintTree, PrintPlain, PrintBlame, PrintBlob

-----------------------------------------------------------------------------
(* The list of a directory *)

Left(td) == {q \in Listed(Dir) : ~ComingIn(td, q)}
Ordered(o) == \A j, k \in Marks(o, "item") : j < k => Before(NameAt(o[j][2]), NameAt(o[k][2]))
Rows(td, st, o) ==
  /\ st # 0 /\ Says(o, "error") = {} /\ Says(o, "object") = {}
  /\ Cardinality(Marks(o, "item")) = Cardinality(Left(td))
  /\ \A q \in Left(td) : \E r \in Says(o, "item") : IsPrefix(q, r)
  /\ \A r \in Says(o, "item"), q \in Listed(Dir) : ComingIn(td, q) => Before(NameAt(r), NameAt(q))
Listing(td, st, o) == IF path # None /\ ComingIn(td, path) THEN st = 0 /\ o = <<>> ELSE Rows(td, st, o)

LEMMA ListIs ==
  ASSUME tree' = tree, page' = page, path' = path
  PROVE  /\ ListInv <=> Listing(todo, state, out)
         /\ ListInv' <=> Listing(todo', state', out')
         /\ InOrder <=> Ordered(out)
         /\ InOrder' <=> Ordered(out')
  <1>1. Read = Left(todo) /\ Read' = Left(todo')
    BY SamePage DEF Read, Left
  <1>2. ListInv <=> Listing(todo, state, out)
    BY <1>1, SamePage, ShownIs DEF ListInv, Listing, Rows
  <1>3. ListInv' <=> Listing(todo', state', out')
    BY <1>1, SamePage, ShownIs DEF ListInv, Listing, Rows
  <1>4. InOrder <=> Ordered(out)
    BY ShownIs DEF InOrder, Ordered
  <1>5. InOrder' <=> Ordered(out')
    BY SamePage, ShownIs DEF InOrder, Ordered
  <1> QED
    BY <1>2, <1>3, <1>4, <1>5

LEMMA ListedIn ==
  ASSUME TypeInv
  PROVE  /\ IsFiniteSet(Listed(Dir))
         /\ \A q \in Listed(Dir) : q \in DOMAIN tree /\ q \in Paths /\ q \in Seq(N) /\ Len(q) = Len(Dir) + 1 /\ IsPrefix(Dir, q)
         /\ \A p, q \in Listed(Dir) : IsPrefix(p, q) => p = q
         /\ path # None => \A q \in Listed(Dir) : q # path
  <1>1. \A q \in Listed(Dir) : q \in DOMAIN tree /\ q \in Paths /\ q \in Seq(N) /\ Len(q) = Len(Dir) + 1 /\ IsPrefix(Dir, q)
    BY PathIs DEF Listed
  <1>2. IsFiniteSet(Listed(Dir))
    <2>1. IsFiniteSet(DOMAIN tree) /\ Listed(Dir) \subseteq DOMAIN tree
      BY PathIs, TreesAssumption DEF Listed
    <2> QED
      BY <2>1, FS_Subset
  <1>3. \A p, q \in Listed(Dir) : IsPrefix(p, q) => p = q
    <2> TAKE p, q \in Listed(Dir)
    <2>1. p \in Seq(N) /\ q \in Seq(N) /\ Len(q) <= Len(p)
      BY <1>1, PathIs
    <2> QED
      BY <2>1, SamePath
  <1>4. path # None => \A q \in Listed(Dir) : q # path
    BY <1>1, PathIs
  <1> QED
    BY <1>1, <1>2, <1>3, <1>4

\* An entry below the directory that is listed is in it, and comes before what is
\* ahead of it there.
LEMMA NextInList ==
  ASSUME TypeInv, WalkOnce, StackInv, page \in Walked, Visit, path = None \/ ~Coming(path),
         NEW n \in todo[Len(todo)].names, NEW p \in DOMAIN tree,
         p = Append(todo[Len(todo)].base, n), \A m \in todo[Len(todo)].names : m = n \/ Before(n, m),
         IsPrefix(Dir, p), p # Dir
  PROVE  /\ p \in Listed(Dir) /\ NameAt(p) = n
         /\ \A q \in Listed(Dir) : Coming(q) => q = p \/ Before(NameAt(p), NameAt(q))
  <1> DEFINE b == todo[Len(todo)].base
  <1>1. /\ TypeOK /\ todo # <<>> /\ pc \in {"walk", "choose"} /\ n \in N
        /\ \A k \in 1..Len(todo) : Stacked(todo, todo[k].base, k)
    <2>1. TypeOK /\ todo # <<>> /\ pc \in {"walk", "choose"} /\ tree' = tree /\ page' = page /\ path' = path
      BY VisitFacts DEF TypeInv
    <2>2. n \in N
      <3>1. todo \in Seq(Dirs) /\ Last(todo) = todo[Len(todo)] /\ Last(todo) \in Dirs
        BY <2>1, InnerDir DEF TypeOK, Dirs, N
      <3> QED
        BY <3>1 DEF Dirs
    <2> QED
      BY <2>1, <2>2, StackIs
  <1>2. todo \in Seq(Dirs) /\ Len(todo) \in Nat \ {0} /\ \A k \in 1..Len(todo) : todo[k] \in Dirs
    BY <1>1, InnerDir, ElementOfSeq DEF TypeOK, Dirs, N
  <1>3. b \in Seq(N) /\ Len(b) = Len(todo) - 1 /\ Len(p) = Len(b) + 1 /\ p[Len(b) + 1] = n /\ IsPrefix(b, p)
    <2>1. b \in Seq(N) /\ Len(b) = Len(todo) - 1 /\ p \in Seq(N)
      <3>1. Len(todo) \in 1..Len(todo)
        BY <1>2
      <3>2. todo[Len(todo)] \in Dirs /\ Stacked(todo, todo[Len(todo)].base, Len(todo))
        BY <3>1, <1>1, <1>2
      <3> QED
        BY <3>2, PathIs DEF Dirs, Stacked
    <2>2. IsPrefix(p, p)
      BY <2>1, PrefixSteps
    <2> HIDE DEF b
    <2>3. p = Append(b, n)
      BY DEF b
    <2>4. b \in Seq(N) /\ n \in N
      BY <2>1, <1>1
    <2>5. \A q \in Seq(N) :
            /\ Len(Append(b, n)) = Len(b) + 1
            /\ IsPrefix(Append(b, n), q) <=> IsPrefix(b, q) /\ Len(b) < Len(q) /\ q[Len(b) + 1] = n
      BY <2>4, AppendPrefix
    <2> QED
      BY <2>1, <2>2, <2>3, <2>5
  <1>4. Dir \in Seq(N) /\ p \in Seq(N) /\ Len(Dir) \in Nat /\ Len(p) \in Nat /\ Len(Dir) < Len(p)
    <2>1. Dir \in Seq(N) /\ p \in Seq(N) /\ Len(Dir) \in Nat /\ Len(p) \in Nat
      BY PathIs
    <2>2. ~(Len(p) <= Len(Dir))
      BY <2>1, SamePath
    <2> QED
      BY <2>1, <2>2
  <1>5. b = Dir
    <2>1. \A i \in 1..Len(Dir) : Dir[i] = p[i]
      BY <1>4, PrefixAt
    <2>2. \A i \in 1..Len(b) : b[i] = p[i]
      BY <1>3, <1>4, PrefixAt
    <2>3. IsPrefix(Dir, b)
      <3>1. Len(Dir) <= Len(b) /\ \A i \in 1..Len(Dir) : i \in 1..Len(b)
        BY <1>3, <1>4
      <3> QED
        BY <2>1, <2>2, <3>1, <1>3, <1>4, PrefixAt
    <2>4. Stacked(todo, b, Len(todo))
      BY <1>1, <1>2
    <2> QED
      BY <2>3, <2>4 DEF Stacked
  <1> HIDE DEF b
  <1>6. p \in Listed(Dir) /\ NameAt(p) = n
    BY <1>3, <1>4, <1>5 DEF Listed, NameAt
  <1>7. ASSUME NEW q \in Listed(Dir), Coming(q), q # p PROVE Before(NameAt(p), NameAt(q))
    <2>1. q \in Seq(N) /\ q \in DOMAIN tree /\ Len(q) = Len(Dir) + 1 /\ IsPrefix(Dir, q)
      BY ListedIn
    <2>2. PICK k \in 1..Len(todo) : \E m \in todo[k].names : IsPrefix(Append(todo[k].base, m), q)
      BY <1>7 DEF Coming
    <2>3. PICK m \in todo[k].names : IsPrefix(Append(todo[k].base, m), q)
      BY <2>2
    <2> DEFINE a == todo[k].base
    <2>4. a \in Seq(N) /\ m \in N /\ Len(a) = k - 1
      BY <1>1, <1>2 DEF Dirs, Stacked
    <2> HIDE DEF a
    <2>5. IsPrefix(Append(a, m), q)
      BY <2>3 DEF a
    <2>6. /\ Append(a, m) \in Seq(N) /\ Len(Append(a, m)) = Len(a) + 1
          /\ IsPrefix(a, q) /\ Len(a) < Len(q) /\ q[Len(a) + 1] = m
      BY <2>1, <2>4, <2>5, AppendPrefix
    <2>7. CASE k = Len(todo)
      <3>1. q[Len(Dir) + 1] = m /\ m \in todo[Len(todo)].names
        BY <2>4, <2>6, <2>7, <1>3, <1>5
      <3>2. m # n
        <4>1. Append(a, m) = q
          <5>1. Len(q) <= Len(Append(a, m))
            BY <2>1, <2>4, <2>6, <2>7, <1>3, <1>5
          <5> QED
            BY <5>1, <2>1, <2>5, <2>6, SamePath
        <4>2. a = b
          BY <2>7 DEF a, b
        <4> QED
          BY <4>1, <4>2, <1>7 DEF b
      <3> QED
        BY <3>1, <3>2, <1>6 DEF NameAt
    <2>8. CASE k # Len(todo)
      <3>1. Len(Append(a, m)) <= Len(Dir)
        BY <2>4, <2>6, <2>8, <1>2, <1>3, <1>5
      <3>2. IsPrefix(Append(a, m), Dir)
        <4>1. \A i \in 1..Len(Append(a, m)) : Append(a, m)[i] = q[i]
          BY <2>1, <2>5, <2>6, PrefixAt
        <4>2. \A i \in 1..Len(Dir) : Dir[i] = q[i]
          BY <2>1, <1>4, PrefixAt
        <4>3. \A i \in 1..Len(Append(a, m)) : i \in 1..Len(Dir)
          BY <3>1, <2>6, <1>4, LenProperties
        <4> QED
          <5>1. \A i \in 1..Len(Append(a, m)) : Append(a, m)[i] = Dir[i]
            BY <4>1, <4>2, <4>3
          <5>2. Append(a, m) \in Seq(N) /\ Dir \in Seq(N)
            BY <2>6, <1>4
          <5> QED
            BY <5>1, <5>2, <3>1, PrefixAt
      <3>3. path # None
        <4>1. Len(Dir) # 0
          BY <3>1, <2>4, <2>6, <1>4
        <4> QED
          BY <4>1, PathIs
      <3>4. Coming(path)
        BY <2>3, <3>2, <3>3, PathIs DEF Coming, a
      <3> QED
        BY <3>3, <3>4
    <2> QED
      BY <2>7, <2>8
  <1> QED
    BY <1>6, <1>7

\* A row that is added to the list: its entry was ahead of all that are left.
LEMMA RowAdded ==
  ASSUME TypeInv, WalkOnce, StackInv, page \in Walked, Visit, path = None \/ ~Coming(path),
         NEW n \in todo[Len(todo)].names, NEW p \in DOMAIN tree,
         p = Append(todo[Len(todo)].base, n), \A m \in todo[Len(todo)].names : m = n \/ Before(n, m),
         IsPrefix(Dir, p), p # Dir, Passes(p, n),
         Rows(todo, state, out), Ordered(out),
         NEW c \in DOMAIN tree, IsPrefix(p, c), Joins(out', out, <<Item(c)>>), state' # 0
  PROVE  Rows(todo', state', out') /\ Ordered(out')
  <1>1. /\ p \in Listed(Dir) /\ p \in Paths /\ p \in Seq(N) /\ Len(p) = Len(Dir) + 1
        /\ \A q \in Listed(Dir) : Coming(q) => q = p \/ Before(NameAt(p), NameAt(q))
    BY NextInList, ListedIn
  <1>2. Item(c)[1] = "item" /\ Item(c)[2] = c /\ <<Item(c)>> \in Seq(Events) /\ out \in Seq(Events) /\ Len(out) \in Nat
    <2>1. Item(c) \in Events /\ out \in Seq(Events)
      BY PathIs, EventTypes DEF TypeInv, TypeOK
    <2> QED
      BY <2>1, LenProperties DEF Item
  <1>3. /\ Marks(out', "item") = Marks(out, "item") \cup {Len(out) + 1}
        /\ Says(out', "item") = Says(out, "item") \cup {c}
        /\ \A w : w # "item" => Says(out', w) = Says(out, w)
        /\ \A k \in Marks(out, "item") : out'[k] = out[k]
        /\ out'[Len(out) + 1] = Item(c)
    <2> DEFINE e == <<Item(c)>>
    <2>1. /\ Marks(e, "item") = {1} /\ Says(e, "item") = {c} /\ \A w : w # "item" => Says(e, w) = {}
          /\ e[1] = Item(c)
      BY <1>2, SaysOne
    <2>2. Joins(out', out, e)
      OBVIOUS
    <2> HIDE DEF e
    <2>3. \A w : Says(out', w) = Says(out, w) \cup Says(e, w)
      BY <2>2, SaysMore
    <2>4. Marks(out', "item") = Marks(out, "item") \cup {Len(out) + k : k \in Marks(e, "item")}
      BY <2>2, SaysMore
    <2>5. \A k \in Marks(out, "item") : out'[k] = out[k]
      BY <2>2, SaysMore
    <2>6. \A k \in Marks(e, "item") : out'[Len(out) + k] = e[k]
      BY <2>2, SaysMore
    <2>7. {Len(out) + k : k \in Marks(e, "item")} = {Len(out) + 1}
      BY <2>1
    <2>8. out'[Len(out) + 1] = Item(c)
      BY <2>1, <2>6
    <2>9. Says(out', "item") = Says(out, "item") \cup {c} /\ \A w : w # "item" => Says(out', w) = Says(out, w)
      BY <2>1, <2>3
    <2> QED
      BY <2>4, <2>5, <2>7, <2>8, <2>9
  <1>4. \A k \in Marks(out, "item") : k \in 1..Len(out) /\ out[k][2] \in Says(out, "item")
    BY DEF Marks, Says
  <1>5. NameAt(c) = NameAt(p)
    <2>1. c \in Seq(N) /\ Len(Dir) + 1 \in 1..Len(p)
      BY <1>1, PathIs
    <2> QED
      BY <2>1, <1>1, PrefixAt DEF NameAt
  <1>6. \A q \in Paths : /\ IsPrefix(p, q) => Coming(q)
                         /\ ~IsPrefix(p, q) => (ComingIn(todo', q) <=> Coming(q))
                         /\ p = q => ~ComingIn(todo', q)
    BY VisitComing
  <1>7. Coming(p) /\ ~ComingIn(todo', p)
    <2>1. IsPrefix(p, p)
      BY <1>1, PrefixSteps
    <2> QED
      BY <2>1, <1>6, <1>1
  <1>8. \A q \in Listed(Dir) : q # p => (ComingIn(todo', q) <=> Coming(q))
    <2>1. \A q \in Listed(Dir) : q \in Paths /\ (q # p => ~IsPrefix(p, q))
      BY <1>1, ListedIn
    <2> QED
      BY <2>1, <1>6
  <1>9. Left(todo') = Left(todo) \cup {p} /\ p \notin Left(todo)
    BY <1>1, <1>7, <1>8, WayDef DEF Left
  <1>10. Cardinality(Marks(out', "item")) = Cardinality(Left(todo'))
    <2>1. IsFiniteSet(Left(todo))
      BY ListedIn, FS_Subset DEF Left
    <2>2. IsFiniteSet(Marks(out, "item")) /\ Len(out) + 1 \notin Marks(out, "item")
      <3>1. IsFiniteSet(1..Len(out))
        BY <1>2, FS_Interval
      <3> QED
        BY <3>1, <1>2, <1>4, FS_Subset
    <2>3. Cardinality(Left(todo')) = Cardinality(Left(todo)) + 1
      BY <2>1, <1>9, FS_AddElement
    <2>4. Cardinality(Marks(out', "item")) = Cardinality(Marks(out, "item")) + 1
      BY <2>2, <1>3, FS_AddElement
    <2> QED
      BY <2>3, <2>4 DEF Rows
  <1>11. \A q \in Left(todo') : \E r \in Says(out', "item") : IsPrefix(q, r)
    BY <1>3, <1>9 DEF Rows
  <1>12. ASSUME NEW r \in Says(out', "item"), NEW q \in Listed(Dir), ComingIn(todo', q)
         PROVE  Before(NameAt(r), NameAt(q))
    <2>1. q # p /\ Coming(q) /\ ComingIn(todo, q)
      BY <1>7, <1>8, <1>12, WayDef
    <2>2. CASE r \in Says(out, "item")
      BY <2>1, <2>2 DEF Rows
    <2>3. CASE r = c
      BY <2>1, <2>3, <1>1, <1>5
    <2> QED
      BY <2>2, <2>3, <1>3
  <1>13. ASSUME NEW j \in Marks(out', "item"), NEW k \in Marks(out', "item"), j < k
         PROVE  Before(NameAt(out'[j][2]), NameAt(out'[k][2]))
    <2>1. j \in Marks(out, "item")
      BY <1>2, <1>3, <1>4, <1>13
    <2>2. CASE k \in Marks(out, "item")
      BY <2>1, <2>2, <1>3, <1>13 DEF Ordered
    <2>3. CASE k = Len(out) + 1
      <3>1. out'[j][2] \in Says(out, "item") /\ out'[k][2] = c
        BY <2>1, <2>3, <1>2, <1>3, <1>4
      <3>2. ComingIn(todo, p)
        BY <1>7, WayDef
      <3> QED
        BY <3>1, <3>2, <1>1, <1>5 DEF Rows
    <2> QED
      BY <2>2, <2>3, <1>3
  <1>14. Says(out', "error") = {} /\ Says(out', "object") = {}
    BY <1>3 DEF Rows
  <1> QED
    BY <1>10, <1>11, <1>12, <1>13, <1>14 DEF Rows, Ordered

\* Two paths on the way to a third lie on one way.
LEMMA OneOfWay ==
  ASSUME NEW p \in Seq(N), NEW d \in Seq(N), NEW q \in Seq(N), IsPrefix(p, q), IsPrefix(d, q)
  PROVE  IsPrefix(p, d) \/ IsPrefix(d, p)
  <1>1. Len(p) \in Nat /\ Len(d) \in Nat /\ Len(q) \in Nat
    BY LenProperties
  <1>2. (\A i \in 1..Len(p) : p[i] = q[i]) /\ (\A i \in 1..Len(d) : d[i] = q[i])
    BY PrefixAt
  <1>3. CASE Len(p) <= Len(d)
    <2>1. \A i \in 1..Len(p) : i \in 1..Len(d) /\ p[i] = d[i]
      BY <1>1, <1>2, <1>3
    <2> QED
      BY <2>1, <1>3, PrefixAt
  <1>4. CASE ~(Len(p) <= Len(d))
    <2>1. Len(d) <= Len(p) /\ \A i \in 1..Len(d) : i \in 1..Len(p) /\ p[i] = d[i]
      BY <1>1, <1>2, <1>4
    <2> QED
      BY <2>1, PrefixAt
  <1> QED
    BY <1>3, <1>4

\* A link that leads to a directory leads to one with a file, or two entries.
Ends(r) == Kind(r) = "dir" => Cardinality(Listed(r)) > 1 \/ \E q \in Listed(r) : Kind(q) # "dir"

LEMMA ChainLast ==
  ASSUME TypeInv, NEW p \in DOMAIN tree
  PROVE  /\ Chain(tree, p) \in DOMAIN tree /\ IsPrefix(p, Chain(tree, p))
         /\ Ends(Chain(tree, p))
  <1> DEFINE c == Chain(tree, p)
  <1>1. /\ tree \in Trees /\ c \in DOMAIN tree /\ IsPrefix(p, c)
        /\ \A r : Below(tree, c) = {r} => tree[r] # "dir"
    BY PathIs, ChainIs
  <1> HIDE DEF c
  <1>2. Listed(c) = Below(tree, c) /\ Listed(c) \subseteq DOMAIN tree
    BY DEF Listed, Below
  <1>3. ASSUME Kind(c) = "dir", \A q \in Listed(c) : Kind(q) = "dir" PROVE Cardinality(Listed(c)) > 1
    <2>1. Listed(c) # {}
      <3>1. tree[c] = "dir"
        BY <1>1, <1>3 DEF Kind
      <3> QED
        BY <3>1, <1>1, TreesAssumption DEF Listed
    <2>2. IsFiniteSet(Listed(c))
      <3>1. IsFiniteSet(DOMAIN tree)
        BY <1>1, TreesAssumption
      <3> QED
        BY <3>1, <1>2, FS_Subset
    <2>3. \A r : Listed(c) # {r}
      <3> SUFFICES ASSUME NEW r, Listed(c) = {r} PROVE FALSE
        OBVIOUS
      <3>1. r \in DOMAIN tree /\ Kind(r) = "dir"
        BY <1>2, <1>3
      <3>2. tree[r] = "dir" /\ Below(tree, c) = {r}
        BY <3>1, <1>2 DEF Kind
      <3> QED
        BY <3>2, <1>1
    <2>4. Cardinality(Listed(c)) \in Nat /\ Cardinality(Listed(c)) # 0 /\ Cardinality(Listed(c)) # 1
      BY <2>1, <2>2, <2>3, FS_CardinalityType, FS_EmptySet, FS_Singleton
    <2> QED
      BY <2>4
  <1> QED
    BY <1>1, <1>3 DEF Ends, c

LEMMA ChainsIs ==
  ASSUME tree' = tree, page' = page, path' = path
  PROVE  /\ ChainEnds <=> (page = "tree" => \A r \in Says(out, "item") : Ends(r))
         /\ ChainEnds' <=> (page = "tree" => \A r \in Says(out', "item") : Ends(r))
  BY SamePage, ShownIs DEF ChainEnds, Ends

LEMMA VisitList ==
  ASSUME TypeInv, WalkOnce, StackInv, PathInv, Visit, page \in {"tree", "plain"}, IsDir
  PROVE  pc' = "walk" /\ ListInv' /\ InOrder' /\ ChainEnds'
  <1>1. PICK n \in todo[Len(todo)].names, p \in DOMAIN tree :
           /\ p = Append(todo[Len(todo)].base, n) /\ n \in N
           /\ \A m \in todo[Len(todo)].names : m = n \/ Before(n, m)
           /\ todo # <<>> /\ pc \in {"walk", "choose"} /\ UNCHANGED <<tree, page, rev, path, readme>>
           /\ state' = Reply(p).state /\ (Dies(p) \/ Enters(p, n) \/ Passes(p, n))
           /\ out \in Seq(Events) /\ Reply(p).out \in Seq(Events) /\ state \in 0..2
    BY VisitFacts
  <1>2. pc = "walk" /\ page \in Walked
    BY <1>1, PathIs DEF Walked
  <1>3. Listing(todo, state, out) /\ Ordered(out) /\ (page = "tree" => \A r \in Says(out, "item") : Ends(r))
    BY <1>1, <1>2, ListIs, ChainsIs DEF PathInv
  <1> SUFFICES /\ pc' = "walk" /\ Listing(todo', state', out') /\ Ordered(out')
               /\ page = "tree" => \A r \in Says(out', "item") : Ends(r)
    BY <1>1, ListIs, ChainsIs
  <1>4. path # None => path \in DOMAIN tree /\ Kind(path) = "dir" /\ path \in Paths /\ path \in Seq(N) /\ Dir = path
    BY PathIs DEF IsDir, Kind
  <1>5. p \in Paths /\ p \in Seq(N) /\ Dir \in Seq(N)
    BY PathIs
  <1>6. ASSUME ~(Reply(p).enter /\ Kind(p) = "sub")
        PROVE  /\ pc' = "walk" /\ Joins(out', out, Reply(p).out) /\ out' = out \o Reply(p).out
               /\ Enters(p, n) \/ Passes(p, n)
    <2>1. /\ pc' = "walk" /\ out' = out \o Reply(p).out
          /\ Enters(p, n) \/ Passes(p, n)
      BY <1>1, <1>2, <1>6 DEF Dies, Enters, Passes
    <2>2. Joins(out \o Reply(p).out, out, Reply(p).out)
      BY <1>1, JoinsIs
    <2> QED
      BY <2>1, <2>2
  <1>7. ASSUME Reply(p) = Answer(FALSE, state, <<>>)
        PROVE  pc' = "walk" /\ out' = out /\ state' = state /\ Passes(p, n)
    <2>1. Reply(p).enter = FALSE /\ Reply(p).out = <<>> /\ Reply(p).state = state
      BY <1>7 DEF Answer
    <2>2. pc' = "walk" /\ out' = out \o <<>> /\ Passes(p, n)
      BY <2>1, <1>6 DEF Enters
    <2> QED
      BY <2>1, <2>2, <1>1, NothingMore
  \* What an empty page lists.
  <1>8. Marks(<<>>, "item") = {} /\ Says(<<>>, "item") = {}
    BY SaysOne
  <1>9. CASE path # None /\ Coming(path)
    <2>1. state = 0 /\ out = <<>>
      BY <1>3, <1>9, WayDef DEF Listing
    <2>2. CASE IsPrefix(p, path) /\ p # path
      <3>1. Reply(p).state = 0 /\ Reply(p).out = <<>> /\ Reply(p).enter /\ Kind(p) = "dir"
        <4>1. Kind(p) = "dir"
          BY <2>2, <1>4, <1>5, <1>9, PathIs, TreeFacts DEF Kind
        <4> QED
          BY <4>1, <2>1, <2>2, <1>2, <1>9, ReplyOn
      <3>2. pc' = "walk" /\ out' = out \o <<>> /\ Enters(p, n)
        BY <3>1, <1>6 DEF Passes
      <3>3. out' = <<>> /\ state' = 0
        BY <2>1, <3>1, <3>2, <1>1, NothingMore
      <3>4. ComingIn(todo', path)
        BY <2>2, <3>2, <1>1, <1>4, <1>9, VisitComing
      <3> QED
        BY <3>2, <3>3, <3>4, <1>8, <1>9 DEF Listing, Ordered
    <2>3. CASE p = path
      <3> DEFINE e == Reply(p).out
      <3>1. /\ Reply(p).enter /\ Reply(p).state # 0 /\ Kind(p) = "dir"
            /\ e = <<PageStart>> \/ e = <<Note("dir")>>
        <4>1. CASE page = "tree"
          BY <4>1, <2>1, <2>3, <1>2, <1>4, <1>9, ReplyAt DEF Answer
        <4>2. CASE page = "plain"
          BY <4>2, <2>1, <2>3, <1>2, <1>4, <1>9, ReplyAt DEF Answer, Blobs
        <4> QED
          BY <4>1, <4>2
      <3>2. pc' = "walk" /\ out' = out \o e /\ Enters(p, n)
        BY <3>1, <1>6 DEF Passes
      <3>3. out' = e
        BY <2>1, <3>2, <1>1, NothingMore
      <3>4. Says(e, "error") = {} /\ Says(e, "object") = {} /\ Says(e, "item") = {} /\ Marks(e, "item") = {}
        <4>1. \A w : w \notin {"head", "note"} => Says(e, w) = {}
          <5>1. \A w : w \notin {"head", "note"} => Word(PageStart, w) = {} /\ Word(Note("dir"), w) = {}
            BY DEF Word, PageStart, Note
          <5>2. \A w : Says(<<PageStart>>, w) = Word(PageStart, w) /\ Says(<<Note("dir")>>, w) = Word(Note("dir"), w)
            BY SaysWords
          <5> QED
            BY <5>1, <5>2, <3>1
        <4> QED
          BY <4>1, SaysNone
      <3> HIDE DEF e
      <3>5. ~ComingIn(todo', path)
        BY <2>3, <3>2, <1>1, <1>5, <1>9, VisitComing
      <3>6. Left(todo') = {}
        <4>1. ASSUME NEW q \in Listed(Dir) PROVE ComingIn(todo', q)
          <5>1. q \in Paths /\ q \in DOMAIN tree /\ q # p /\ IsPrefix(p, q)
            BY <2>3, <1>4, <1>9, ListedIn
          <5> QED
            BY <5>1, <3>2, <1>1, VisitComing
        <4> QED
          BY <4>1 DEF Left
      <3>7. Rows(todo', state', out')
        BY <3>1, <3>3, <3>4, <3>6, <1>1, FS_EmptySet DEF Rows
      <3> QED
        BY <3>2, <3>3, <3>4, <3>5, <3>7 DEF Listing, Ordered
    <2>4. CASE ~IsPrefix(p, path)
      <3>1. ~IsPrefix(path, p)
        <4>1. p # path
          BY <2>4, <1>4, <1>9, PrefixSteps
        <4> QED
          BY <4>1, <1>1, <1>4, <1>5, <1>9, NotBoth
      <3>2. Reply(p) = Answer(FALSE, state, <<>>)
        BY <2>4, <3>1, <1>2, <1>9, ReplyOff
      <3>3. ComingIn(todo', path)
        BY <2>4, <3>2, <1>1, <1>4, <1>7, <1>9, VisitComing
      <3> QED
        BY <2>1, <3>2, <3>3, <1>7, <1>8, <1>9 DEF Listing, Ordered
    <2> QED
      BY <2>2, <2>3, <2>4
  <1>10. CASE ~(path # None /\ Coming(path))
    <2>1. Rows(todo, state, out) /\ state # 0
      BY <1>3, <1>10, WayDef DEF Listing, Rows
    <2>2. CASE IsPrefix(Dir, p) /\ p # Dir
      <3>1. path = None \/ (IsPrefix(path, p) /\ p # path)
        BY <2>2, <1>4
      <3> DEFINE c == IF page = "tree" THEN Chain(tree, p) ELSE p
      <3>2. /\ c \in DOMAIN tree /\ IsPrefix(p, c) /\ (page = "tree" => Ends(c))
        BY <1>5, ChainLast, PrefixSteps
      <3>3. Reply(p).enter = FALSE /\ Reply(p).out = <<Item(c)>> /\ Reply(p).state # 0
        BY <2>1, <3>1, <1>2, ReplyBelow DEF Answer, ListItem
      <3> HIDE DEF c
      <3>4. pc' = "walk" /\ Joins(out', out, <<Item(c)>>) /\ Passes(p, n) /\ state' # 0
        BY <3>3, <1>1, <1>6 DEF Enters
      <3>5. Rows(todo', state', out') /\ Ordered(out')
        BY <2>1, <2>2, <3>2, <3>4, <1>1, <1>2, <1>3, <1>10, RowAdded
      <3>6. path # None => ~ComingIn(todo', path)
        BY <3>4, <1>1, <1>4, <1>10, VisitComing
      <3>7. Says(out', "item") = Says(out, "item") \cup {c}
        <4>1. Says(<<Item(c)>>, "item") = {c}
          <5>1. Word(Item(c), "item") = {c}
            BY DEF Word, Item
          <5> QED
            BY <5>1, SaysWords
        <4> QED
          BY <4>1, <3>4, SaysMore
      <3> QED
        BY <3>2, <3>4, <3>5, <3>6, <3>7, <1>3 DEF Listing
    <2>3. CASE ~(IsPrefix(Dir, p) /\ p # Dir)
      <3>1. path # None
        <4>1. path = None => IsPrefix(Dir, p) /\ p # Dir
          <5>1. path = None => Dir = <<>> /\ Len(Dir) = 0 /\ Len(p) # 0
            BY PathIs
          <5> QED
            <6> SUFFICES ASSUME path = None PROVE IsPrefix(Dir, p) /\ p # Dir
              OBVIOUS
            <6>1. Len(Dir) = 0 /\ Len(p) # 0 /\ Len(p) \in Nat
              BY <5>1, PathIs
            <6>2. IsPrefix(Dir, p) <=> Len(Dir) <= Len(p) /\ \A i \in 1..Len(Dir) : Dir[i] = p[i]
              BY <1>5, PrefixAt
            <6> QED
              BY <6>1, <6>2
        <4> QED
          BY <4>1, <2>3
      <3>2. ~IsPrefix(p, path)
        <4>1. Len(todo) \in 1..Len(todo)
          BY <1>1, InnerDir DEF TypeInv, TypeOK, Dirs, N
        <4> QED
          BY <4>1, <3>1, <1>1, <1>10 DEF Coming
      <3>3. ~IsPrefix(path, p)
        BY <2>3, <3>1, <3>2, <1>4, PrefixSteps
      <3>4. Reply(p) = Answer(FALSE, state, <<>>)
        BY <3>1, <3>2, <3>3, <1>2, ReplyOff
      <3>5. pc' = "walk" /\ out' = out /\ state' = state /\ Passes(p, n)
        BY <3>4, <1>7
      <3>6. ASSUME NEW q \in Listed(Dir) PROVE ComingIn(todo', q) <=> ComingIn(todo, q)
        <4>1. q \in Paths /\ q \in Seq(N) /\ IsPrefix(Dir, q)
          BY ListedIn
        <4>2. ~IsPrefix(p, q)
          BY <4>1, <3>1, <3>2, <3>3, <1>4, <1>5, OneOfWay
        <4> QED
          BY <4>1, <4>2, <3>5, <1>1, VisitComing, WayDef
      <3>7. Left(todo') = Left(todo)
        BY <3>6 DEF Left
      <3>8. Rows(todo', state', out')
        BY <2>1, <3>5, <3>6, <3>7 DEF Rows
      <3>9. ~ComingIn(todo', path)
        BY <3>1, <3>5, <1>1, <1>4, <1>10, VisitComing
      <3> QED
        BY <3>5, <3>8, <3>9, <1>3 DEF Listing
    <2> QED
      BY <2>2, <2>3
  <1> QED
    BY <1>9, <1>10

-----------------------------------------------------------------------------
(* The object at a path *)

Looking(td, st, o) == st = 0 /\ o = <<>> /\ (path \in DOMAIN tree => ComingIn(td, path))
Shows(td, st, o) ==
  /\ path \in DOMAIN tree /\ ~ComingIn(td, path)
  /\ Says(o, "item") = {} /\ Says(o, "object") \subseteq {path}
  /\ IF Readable THEN /\ st # 0 /\ (page = "blame" => st = 1) /\ Says(o, "error") = {}
                      /\ Says(o, "object") = {path} \/ Says(o, "note") # {}
     ELSE st = 0 \/ Says(o, "error") # {}

LEMMA ObjectIs ==
  ASSUME tree' = tree, page' = page, path' = path
  PROVE  /\ Ahead <=> Looking(todo, state, out)
         /\ Ahead' <=> Looking(todo', state', out')
         /\ Found <=> Shows(todo, state, out)
         /\ Found' <=> Shows(todo', state', out')
  <1>1. (Ahead <=> Looking(todo, state, out)) /\ (Ahead' <=> Looking(todo', state', out'))
    BY SamePage DEF Ahead, Looking
  <1>2. (Found <=> Shows(todo, state, out)) /\ (Found' <=> Shows(todo', state', out'))
    BY SamePage, ShownIs DEF Found, Shows
  <1> QED
    BY <1>1, <1>2

\* The callback at the path, when it is not a directory.
LEMMA ObjectShown ==
  ASSUME TypeInv, page \in Walked, NEW p \in DOMAIN tree, p = path, state = 0, ~IsDir
  PROVE  LET a == Reply(p)
         IN  /\ ~a.enter /\ Says(a.out, "item") = {} /\ Says(a.out, "object") \subseteq {path}
             /\ IF Readable THEN /\ a.state # 0 /\ (page = "blame" => a.state = 1) /\ Says(a.out, "error") = {}
                                 /\ Says(a.out, "object") = {path} \/ Says(a.out, "note") # {}
                ELSE a.state = 0 \/ Says(a.out, "error") # {}
  <1>1. path # None /\ Kind(p) # "dir" /\ Kind(p) \in Kinds
    BY KindOf DEF IsDir, TypeInv
  <1>2. Readable <=> Kind(p) \notin {"sub", "bad"} /\ (page = "blame" => Kind(p) # "link")
    BY <1>1 DEF Readable, Kinds, Blobs
  <1> DEFINE err == ErrorPage("404")
             os  == <<PageStart, Object(p)>>
             ob  == <<PageStart, Object(p), PageEnd>>
             big == <<PageStart, Note("big")>>
             bin == <<PageStart, Note("binary")>>
             raw == <<Object(p)>>
             nil == <<>>
  <1>3. /\ Says(err, "error") = {"404"} /\ Says(err, "item") = {} /\ Says(err, "object") = {}
        /\ Says(os, "error") = {} /\ Says(os, "item") = {} /\ Says(os, "object") = {p}
        /\ Says(ob, "error") = {} /\ Says(ob, "item") = {} /\ Says(ob, "object") = {p}
    BY SaysPieces
  <1>4. /\ Says(big, "error") = {} /\ Says(big, "item") = {} /\ Says(big, "object") = {} /\ Says(big, "note") # {}
        /\ Says(bin, "error") = {} /\ Says(bin, "item") = {} /\ Says(bin, "object") = {} /\ Says(bin, "note") # {}
    <2>1. \A x, w : Says(<<PageStart, Note(x)>>, w) = IF w = "note" THEN {x} ELSE IF w = "head" THEN {<<>>} ELSE {}
      <3> TAKE x, w
      <3>1. "404" \in {"400", "404"}
        OBVIOUS
      <3> QED
        BY <3>1, SaysPieces
    <2>2. \A w : Says(big, w) = IF w = "note" THEN {"big"} ELSE IF w = "head" THEN {<<>>} ELSE {}
      BY <2>1
    <2>3. \A w : Says(bin, w) = IF w = "note" THEN {"binary"} ELSE IF w = "head" THEN {<<>>} ELSE {}
      BY <2>1
    <2> HIDE DEF big, bin
    <2> QED
      BY <2>2, <2>3
  <1>5. /\ Says(raw, "error") = {} /\ Says(raw, "item") = {} /\ Says(raw, "object") = {p}
        /\ Says(nil, "error") = {} /\ Says(nil, "item") = {} /\ Says(nil, "object") = {}
    <2>1. \A w : Says(raw, w) = Word(Object(p), w)
      BY SaysWords
    <2>2. \A w : Says(nil, w) = {}
      BY SaysOne
    <2>3. \A w : Word(Object(p), w) = IF w = "object" THEN {p} ELSE {}
      BY DEF Word, Object
    <2> HIDE DEF raw, nil
    <2> QED
      BY <2>1, <2>2, <2>3
  <1>6. CASE page = "tree"
    <2>1. Reply(p) = Answer(FALSE, 2, TreeObject(p))
      BY <1>1, <1>6, ReplyAt
    <2>2. TreeObject(p) = IF Kind(p) \in {"bad", "sub"} THEN err ELSE IF Kind(p) = "big" THEN big ELSE os
      BY DEF TreeObject
    <2>3. Reply(p).enter = FALSE /\ Reply(p).state = 2 /\ Reply(p).out = TreeObject(p)
      BY <2>1 DEF Answer
    <2> HIDE DEF err, os, ob, big, bin, raw, nil
    <2> QED
      BY <2>2, <2>3, <1>2, <1>3, <1>4, <1>6
  <1>7. CASE page = "plain"
    <2>1. /\ Reply(p).enter = FALSE
          /\ Reply(p).state = IF Kind(p) \in {"bad", "sub"} THEN 0 ELSE 1
          /\ Reply(p).out = IF Kind(p) = "bad" THEN err ELSE IF Kind(p) = "sub" THEN nil ELSE raw
      <3>1. Reply(p) = CASE Kind(p) = "bad" -> Answer(FALSE, 0, err)
                         [] Kind(p) \in Blobs \cup {"link"} -> Answer(FALSE, 1, raw)
                         [] Kind(p) = "dir" -> Answer(TRUE, 2, <<Note("dir")>>)
                         [] Kind(p) = "sub" -> Answer(FALSE, 0, nil)
        BY <1>7, ReplyAt
      <3> HIDE DEF err, os, ob, big, bin, raw, nil
      <3> QED
        BY <3>1, <1>1 DEF Answer, Kinds, Blobs
    <2> HIDE DEF err, os, ob, big, bin, raw, nil
    <2> QED
      BY <2>1, <1>2, <1>3, <1>5, <1>7
  <1>8. CASE page = "blame"
    <2>1. /\ Reply(p).enter = FALSE
          /\ Reply(p).state = IF Kind(p) \in {"link", "sub"} THEN 0 ELSE 1
          /\ Reply(p).out = IF Kind(p) \in {"link", "sub"} THEN nil ELSE BlameObject(p)
      <3>1. Reply(p) = CASE Kind(p) \in Blobs \cup {"bad"} -> Answer(FALSE, 1, BlameObject(p))
                         [] Kind(p) = "dir" -> Answer(FALSE, 2, nil)
                         [] Kind(p) \in {"link", "sub"} -> Answer(FALSE, 0, nil)
        BY <1>8, ReplyAt
      <3> HIDE DEF err, os, ob, big, bin, raw, nil
      <3> QED
        BY <3>1, <1>1 DEF Answer, Kinds, Blobs
    <2>2. /\ Kind(p) = "bad" => BlameObject(p) = err
          /\ Kind(p) = "binary" => BlameObject(p) = bin
          /\ Kind(p) = "big" => BlameObject(p) = big
          /\ Kind(p) = "text" => BlameObject(p) = ob
      BY DEF BlameObject
    <2> HIDE DEF err, os, ob, big, bin, raw, nil
    <2>3. Kind(p) \in {"bad", "binary", "big", "text", "link", "sub"}
      BY <1>1 DEF Kinds, Blobs
    <2> QED
      BY <2>1, <2>2, <2>3, <1>2, <1>3, <1>4, <1>5, <1>8
  <1> QED
    BY <1>6, <1>7, <1>8 DEF Walked

\* A visit while an object is looked for: it stays ahead, it is found, or it was
\* found; or git dies in a submodule on the way.
LEMMA VisitObject ==
  ASSUME TypeInv, WalkOnce, PathInv, Visit, page \in Walked, ~IsDir
  PROVE  /\ Says(out', "item") = {}
         /\ \/ pc' = "walk" /\ (Ahead' \/ Found')
            \/ /\ pc' = "done" /\ Kind(path) = "none"
               /\ Says(out', "object") = {} /\ Says(out', "error") # {}
  <1>1. PICK n \in todo[Len(todo)].names, p \in DOMAIN tree :
           /\ p = Append(todo[Len(todo)].base, n) /\ n \in N
           /\ todo # <<>> /\ pc \in {"walk", "choose"} /\ UNCHANGED <<tree, page, rev, path, readme>>
           /\ state' = Reply(p).state /\ (Dies(p) \/ Enters(p, n) \/ Passes(p, n))
           /\ out \in Seq(Events) /\ Reply(p).out \in Seq(Events) /\ state \in 0..2
    BY VisitFacts
  <1>2. pc = "walk"
    BY <1>1, PathIs DEF Walked
  <1>3. /\ Looking(todo, state, out) \/ Shows(todo, state, out)
        /\ Ahead' <=> Looking(todo', state', out')
        /\ Found' <=> Shows(todo', state', out')
    BY <1>1, <1>2, ObjectIs DEF PathInv, Walked
  <1>4. path # None /\ path \in Paths /\ path \in Seq(N) /\ p \in Seq(N) /\ p \in Paths /\ Kind(path) # "dir"
    BY PathIs DEF IsDir
  <1>5. \A w : Says(<<>>, w) = {}
    BY SaysOne
  <1>6. ASSUME Reply(p) = Answer(FALSE, state, <<>>)
        PROVE  pc' = "walk" /\ out' = out /\ state' = state /\ Passes(p, n)
    <2>1. Reply(p).enter = FALSE /\ Reply(p).out = <<>> /\ Reply(p).state = state
      BY <1>6 DEF Answer
    <2>2. pc' = "walk" /\ out' = out \o <<>> /\ Passes(p, n)
      BY <2>1, <1>1, <1>2 DEF Dies, Enters, Passes
    <2> QED
      BY <2>1, <2>2, <1>1, NothingMore
  <1>7. ~IsPrefix(path, p) \/ p = path
    <2>1. path # p /\ IsPrefix(path, p) => path \in DOMAIN tree /\ tree[path] = "dir"
      BY <1>4, PathIs, TreeFacts
    <2> QED
      BY <2>1, <1>4 DEF Kind
  <1>8. IsPrefix(p, path) => ComingIn(todo, path)
    <2>1. Len(todo) \in 1..Len(todo)
      BY <1>1, InnerDir DEF TypeInv, TypeOK, Dirs, N
    <2> QED
      BY <2>1, <1>1 DEF ComingIn, Way
  <1>9. CASE ~IsPrefix(p, path)
    <2>1. p # path
      BY <1>4, <1>9, PrefixSteps
    <2>2. Reply(p) = Answer(FALSE, state, <<>>)
      BY <2>1, <1>4, <1>7, <1>9, ReplyOff
    <2>3. pc' = "walk" /\ out' = out /\ state' = state /\ Passes(p, n)
      BY <2>2, <1>6
    <2>4. ComingIn(todo', path) <=> ComingIn(todo, path)
      BY <2>3, <1>1, <1>4, <1>9, VisitComing, WayDef
    <2>5. Looking(todo', state', out') \/ Shows(todo', state', out')
      BY <2>3, <2>4, <1>3 DEF Looking, Shows
    <2>6. Says(out', "item") = {}
      BY <2>3, <1>3, <1>5 DEF Looking, Shows
    <2> QED
      BY <2>3, <2>5, <2>6, <1>3
  <1>10. CASE IsPrefix(p, path) /\ p # path
    <2>1. state = 0 /\ out = <<>>
      BY <1>3, <1>8, <1>10 DEF Looking, Shows
    <2>2. Reply(p).state = 0 /\ Reply(p).out = <<>> /\ (Kind(p) = "dir" => Reply(p).enter)
      BY <2>1, <1>4, <1>10, ReplyOn
    <2>3. path \in DOMAIN tree => Kind(p) = "dir"
      BY <1>4, <1>10, PathIs, TreeFacts DEF Kind
    <2>4. CASE Dies(p)
      <3>1. path \notin DOMAIN tree
        BY <2>3, <2>4 DEF Dies
      <3>2. pc' = "done" /\ out' = <<>> \o (<<>> \o ErrorPage("400"))
        BY <2>1, <2>2, <2>4 DEF Dies
      <3>3. out' = ErrorPage("400")
        BY <3>2, NothingMore, ErrorPageType
      <3>4. Says(out', "item") = {} /\ Says(out', "object") = {} /\ Says(out', "error") = {"400"}
        BY <3>3, SaysPieces
      <3> QED
        BY <3>1, <3>2, <3>4 DEF Kind
    <2>5. CASE Enters(p, n) \/ Passes(p, n)
      <3>1. pc' = "walk" /\ out' = out \o <<>> /\ state' = 0
        BY <2>2, <2>5, <1>1, <1>2 DEF Enters, Passes
      <3>2. out' = <<>>
        BY <3>1, <2>1, NothingMore, <1>1
      <3>3. path \in DOMAIN tree => ComingIn(todo', path)
        <4> SUFFICES ASSUME path \in DOMAIN tree PROVE ComingIn(todo', path)
          OBVIOUS
        <4>1. Enters(p, n)
          BY <2>2, <2>3, <2>5 DEF Passes
        <4> QED
          BY <4>1, <1>1, <1>4, <1>10, VisitComing
      <3>4. Looking(todo', state', out')
        BY <3>1, <3>2, <3>3 DEF Looking
      <3> QED
        BY <3>1, <3>2, <3>4, <1>3, <1>5
    <2> QED
      BY <2>4, <2>5, <1>1
  <1>11. CASE p = path
    <2>1. IsPrefix(p, path)
      BY <1>4, <1>11, PrefixSteps
    <2>2. state = 0 /\ out = <<>>
      BY <2>1, <1>3, <1>8 DEF Looking, Shows
    <2>3. LET a == Reply(p)
          IN  /\ ~a.enter /\ Says(a.out, "item") = {} /\ Says(a.out, "object") \subseteq {path}
              /\ IF Readable THEN /\ a.state # 0 /\ (page = "blame" => a.state = 1) /\ Says(a.out, "error") = {}
                                  /\ Says(a.out, "object") = {path} \/ Says(a.out, "note") # {}
                 ELSE a.state = 0 \/ Says(a.out, "error") # {}
      BY <2>2, <1>11, ObjectShown
    <2>4. pc' = "walk" /\ out' = out \o Reply(p).out /\ Passes(p, n) /\ state' = Reply(p).state
      BY <2>3, <1>1, <1>2 DEF Dies, Enters, Passes
    <2>5. out' = Reply(p).out
      BY <2>2, <2>4, <1>1, NothingMore
    <2>6. ~ComingIn(todo', path)
      BY <2>4, <1>1, <1>4, <1>11, VisitComing
    <2>7. Shows(todo', state', out')
      BY <2>3, <2>4, <2>5, <2>6, <1>11 DEF Shows
    <2> QED
      BY <2>3, <2>4, <2>5, <2>7, <1>3
  <1> QED
    BY <1>9, <1>10, <1>11

-----------------------------------------------------------------------------
(* What the pages show *)

PageShows(o) ==
  /\ Says(o, "object") \subseteq {path}
  /\ Readable => Says(o, "error") = {}
  /\ page \in {"tree", "plain"} =>
       /\ IF IsDir THEN Says(o, "error") = {} /\ Says(o, "object") = {} ELSE Says(o, "item") = {}
       /\ IsDir => Cardinality(Marks(o, "item")) = Cardinality(Listed(Dir))
       /\ IsDir => \A p \in Listed(Dir) : \E q \in Says(o, "item") : IsPrefix(p, q)
  /\ page = "blame" /\ IsDir => Says(o, "error") # {}
  /\ ~IsDir /\ ~Readable => Says(o, "error") # {}
  /\ Readable => Says(o, "object") = {path} \/ Says(o, "note") # {}

LEMMA ShowsIs ==
  ASSUME tree' = tree, page' = page, path' = path
  PROVE  ShowsPath' <=> (pc' = "done" /\ rev' \in Peels /\ page \in Walked => PageShows(out'))
  <1>1. \A w : Printed(w)' = {} <=> Says(out', w) = {}
    BY ShownIs, SaysNone
  <1>2. \A w : Printed(w)' = Marks(out', w) /\ Shown(w)' = Says(out', w)
    BY ShownIs
  <1>3. path' = path /\ page' = page /\ Dir' = Dir /\ (IsDir' <=> IsDir) /\ (Readable' <=> Readable)
    BY SamePage
  <1>4. \A q : Listed(q)' = Listed(q)
    BY SamePage
  <1> QED
    BY <1>1, <1>2, <1>3, <1>4 DEF ShowsPath, PageShows, Walked

\* What PathInv asks of a step.
LEMMA PathIf ==
  ASSUME tree' = tree, page' = page, path' = path, rev' = rev,
         pc' = "walk" /\ page \in Walked =>
           rev \in Peels /\ IF IsDir THEN page # "blame" => ListInv' ELSE Ahead' \/ Found',
         pc' = "done" /\ rev \in Peels /\ page \in Walked => PageShows(out'),
         \/ Says(out', "item") = {}
         \/ page \in {"tree", "plain"} /\ IsDir /\ InOrder' /\ ChainEnds'
  PROVE  PathInv'
  <1>1. ShowsPath'
    BY ShowsIs
  <1>2. Marks(out', "item") = {} <=> Says(out', "item") = {}
    BY SaysNone
  <1>3. InOrder' /\ ChainEnds'
    BY <1>2, ListIs, ChainsIs DEF Ordered
  <1>4. ~(page \in {"tree", "plain"} /\ IsDir) => Printed("item")' = {}
    BY <1>2, ShownIs
  <1> QED
    BY <1>1, <1>3, <1>4, SamePage DEF PathInv, Walked

LEMMA EmitSays ==
  ASSUME TypeInv, NEW e \in Seq(Events), Emit(e)
  PROVE  /\ Joins(out', out, e)
         /\ \A w : Says(out', w) = Says(out, w) \cup Says(e, w)
         /\ \A w : Says(e, w) = {} => Marks(out', w) = Marks(out, w)
         /\ out = <<>> => out' = e
  <1>1. out \in Seq(Events) /\ out' = out \o e
    BY DEF TypeInv, TypeOK, Emit
  <1>2. Joins(out', out, e)
    <2>1. Joins(out \o e, out, e)
      BY <1>1, JoinsIs
    <2> QED
      BY <1>1, <2>1
  <1>3. \A w : Says(out', w) = Says(out, w) \cup Says(e, w)
    BY <1>2, SaysMore
  <1>4. ASSUME NEW w, Says(e, w) = {} PROVE Marks(out', w) = Marks(out, w)
    <2>1. Marks(e, w) = {}
      BY <1>4, SaysNone
    <2>2. Marks(out', w) = Marks(out, w) \cup {Len(out) + k : k \in Marks(e, w)}
      BY <1>2, SaysMore
    <2> QED
      BY <2>1, <2>2
  <1>5. out = <<>> => out' = e
    BY <1>1, NothingMore
  <1> QED
    BY <1>2, <1>3, <1>4, <1>5

\* No list is printed by a page of an object.
LEMMA NoItem ==
  /\ \A c \in {"400", "404"} : ErrorPage(c) \in Seq(Events) /\ Says(ErrorPage(c), "item") = {}
                               /\ Says(ErrorPage(c), "object") = {} /\ Says(ErrorPage(c), "error") = {c}
  /\ \A e : e \in {<<>>, <<PageStart>>, <<PageEnd>>, <<Note("dir")>>, <<Note("end")>>, <<Note("none")>>,
                   <<Note("object")>>, <<Note("commit")>>} =>
       /\ e \in Seq(Events) /\ Says(e, "item") = {} /\ Says(e, "error") = {} /\ Says(e, "object") = {}
  /\ \A p \in Paths : /\ <<Object(p)>> \in Seq(Events) /\ Says(<<Object(p)>>, "item") = {}
                      /\ <<Object(p), PageEnd>> \in Seq(Events) /\ Says(<<Object(p), PageEnd>>, "item") = {}
  <1>1. \A c \in {"400", "404"} : ErrorPage(c) \in Seq(Events) /\ Says(ErrorPage(c), "item") = {}
                               /\ Says(ErrorPage(c), "object") = {} /\ Says(ErrorPage(c), "error") = {c}
    BY ErrorPageType, SaysPieces
  <1>2. \A x \in Events : <<x>> \in Seq(Events) /\ \A w : Says(<<x>>, w) = Word(x, w)
    <2>1. \A x \in Events : <<x>> \in Seq(Events)
      OBVIOUS
    <2>2. \A x, w : Says(<<x>>, w) = Word(x, w)
      BY SaysWords
    <2> QED
      BY <2>1, <2>2
  <1>3. \A w : w \in {"item", "error", "object"} =>
          /\ Word(PageStart, w) = {} /\ Word(PageEnd, w) = {}
          /\ \A x : Word(Note(x), w) = {}
    BY DEF Word, PageStart, PageEnd, Note
  <1>4. ASSUME NEW x \in Events, \A w : w \in {"item", "error", "object"} => Word(x, w) = {}
        PROVE  <<x>> \in Seq(Events) /\ Says(<<x>>, "item") = {} /\ Says(<<x>>, "error") = {} /\ Says(<<x>>, "object") = {}
    BY <1>2, <1>4
  <1>5. <<>> \in Seq(Events) /\ Says(<<>>, "item") = {} /\ Says(<<>>, "error") = {} /\ Says(<<>>, "object") = {}
    <2>1. <<>> \in Seq(Events)
      OBVIOUS
    <2>2. \A w : Says(<<>>, w) = {}
      BY SaysOne
    <2> QED
      BY <2>1, <2>2
  <1>6. \A x \in {PageStart, PageEnd, Note("dir"), Note("end"), Note("none"), Note("object"), Note("commit")} :
          x \in Events /\ \A w : w \in {"item", "error", "object"} => Word(x, w) = {}
    BY <1>3, EventTypes
  <1>7. \A x \in {PageStart, PageEnd, Note("dir"), Note("end"), Note("none"), Note("object"), Note("commit")} :
          <<x>> \in Seq(Events) /\ Says(<<x>>, "item") = {} /\ Says(<<x>>, "error") = {} /\ Says(<<x>>, "object") = {}
    BY <1>4, <1>6
  <1>8. ASSUME NEW p \in Paths
        PROVE  /\ <<Object(p)>> \in Seq(Events) /\ Says(<<Object(p)>>, "item") = {}
               /\ <<Object(p), PageEnd>> \in Seq(Events) /\ Says(<<Object(p), PageEnd>>, "item") = {}
    <2> DEFINE x == Object(p)
    <2>1. x \in Events /\ PageEnd \in Events /\ Word(x, "item") = {} /\ Word(PageEnd, "item") = {}
      BY EventTypes, <1>3 DEF Word, Object
    <2> HIDE DEF x
    <2>2. <<x>> \in Seq(Events) /\ <<x, PageEnd>> \in Seq(Events)
      BY <2>1
    <2>3. Says(<<x>>, "item") = Word(x, "item") /\ Says(<<x, PageEnd>>, "item") = Word(x, "item") \cup Word(PageEnd, "item")
      BY SaysWords
    <2> QED
      BY <2>1, <2>2, <2>3 DEF x
  <1> QED
    BY <1>1, <1>5, <1>7, <1>8

\* Git never dies in the walk of blame.
LEMMA BlameLives ==
  ASSUME TypeInv, page = "blame", NEW p \in DOMAIN tree
  PROVE  ~(Reply(p).enter /\ Kind(p) = "sub")
  <1>1. CASE ~Interesting(p)
    BY <1>1 DEF Reply, Answer
  <1>2. CASE Interesting(p)
    <2>1. Reply(p) = BlameEntry(p)
      BY <1>2 DEF Reply, Entry
    <2>2. Len(p) - 1 \in Int /\ BaseLen \in Int
      BY <1>2, LengthTells DEF TypeInv
    <2>3. CASE Len(p) - 1 = BaseLen /\ Kind(p) = "sub"
      BY <2>1, <2>2, <2>3 DEF BlameEntry, Answer, Blobs
    <2>4. CASE Len(p) - 1 > BaseLen
      BY <2>1, <2>2, <2>4 DEF BlameEntry, Answer, Blobs
    <2>5. CASE Len(p) - 1 < BaseLen /\ Kind(p) = "sub"
      <3>1. Reply(p) = Answer(Kind(p) = "dir", state, <<>>)
        BY <2>1, <2>2, <2>5 DEF BlameEntry
      <3>2. (Kind(p) = "dir") = FALSE
        BY <2>5
      <3>3. Reply(p) = [enter |-> FALSE, state |-> state, out |-> <<>>]
        BY <3>1, <3>2, Zenon DEF Answer
      <3> QED
        BY <3>3
    <2> QED
      BY <2>2, <2>3, <2>4, <2>5
  <1> QED
    BY <1>1, <1>2

LEMMA VisitPath ==
  ASSUME TypeInv, WalkOnce, FrameInv, StackInv, PathInv, Visit
  PROVE  PathInv'
  <1>1. /\ UNCHANGED <<tree, page, rev, path, readme>> /\ pc \in {"walk", "choose"}
        /\ pc = "choose" => page = "about"
    BY VisitFacts, PathIs
  <1>2. CASE page \in {"tree", "plain"} /\ IsDir
    <2>1. pc' = "walk" /\ ListInv' /\ InOrder' /\ ChainEnds'
      BY <1>2, VisitList
    <2>2. rev \in Peels
      BY <1>1, <1>2 DEF PathInv
    <2> QED
      BY <2>1, <2>2, <1>1, <1>2, PathIf
  <1>3. CASE page \in Walked /\ ~IsDir
    <2>1. /\ Says(out', "item") = {}
          /\ \/ pc' = "walk" /\ (Ahead' \/ Found')
             \/ pc' = "done" /\ Kind(path) = "none" /\ Says(out', "object") = {} /\ Says(out', "error") # {}
      BY <1>3, VisitObject
    <2>2. rev \in Peels
      BY <1>1, <1>3 DEF PathInv, Walked
    <2>3. pc' = "done" => PageShows(out')
      BY <2>1, <1>3 DEF PageShows, Readable
    <2> QED
      BY <2>1, <2>2, <2>3, <1>1, <1>3, PathIf
  <1>4. CASE page = "blame" /\ IsDir
    <2>1. pc' = "walk" /\ rev \in Peels
      <3>1. PICK p \in DOMAIN tree : Dies(p) \/ pc' = pc
        BY VisitFacts DEF Enters, Passes
      <3> QED
        BY <3>1, <1>1, <1>4, BlameLives DEF Dies, PathInv
    <2>2. FrameInv'
      BY <1>4, BlameVisit
    <2>3. Kind(path)' = Kind(path)
      BY <1>1 DEF Kind
    <2>4. out' = <<>>
      BY <2>1, <2>2, <2>3, <1>1, <1>4 DEF FrameInv, IsDir
    <2>5. Says(out', "item") = {}
      BY <2>4, SaysOne
    <2> QED
      BY <2>1, <2>5, <1>1, <1>4, PathIf
  <1>5. CASE page \in {"blob", "about"}
    <2>1. out' = out \/ Emit(ErrorPage("400"))
      BY <1>5, SilentVisit DEF Emit
    <2>2. Says(out, "item") = {}
      BY <1>5, ShownIs, SaysNone DEF PathInv
    <2>3. Says(out', "item") = {}
      BY <2>1, <2>2, EmitSays, NoItem
    <2> QED
      BY <2>3, <1>1, <1>5, PathIf DEF Walked
  <1> QED
    BY <1>2, <1>3, <1>4, <1>5 DEF TypeInv, TypeOK, Pages, Walked

LEMMA BeginPath ==
  ASSUME TypeInv, FrameInv, PathInv, Begin
  PROVE  PathInv'
  <1>1. UNCHANGED <<tree, page, rev, path>> /\ out = <<>>
    BY DEF Begin, FrameInv
  <1>2. \A q \in Paths : StartWalk /\ q \in DOMAIN tree => ComingIn(todo', q)
    BY StartComing, NextWay DEF TypeInv
  \* An error, or a page that is not looked at.
  <1>3. ASSUME NEW e \in Seq(Events), Finish(e), Says(e, "item") = {}, page \notin Walked \/ rev \notin Peels
        PROVE  PathInv'
    <2>1. pc' = "done" /\ out' = e
      BY <1>1, <1>3, EmitSays DEF Finish
    <2> QED
      BY <2>1, <1>1, <1>3, PathIf
  <1>4. Finish(ErrorPage("404")) /\ (page \notin Walked \/ rev \notin Peels) => PathInv'
    BY <1>3, NoItem
  \* A list is begun at once where there is no path.
  <1>5. ASSUME NEW e \in Seq(Events), NEW st \in 1..2, Walk(st, e), path = None, rev \in Peels, page \in {"tree", "plain"},
               Says(e, "item") = {}, Says(e, "error") = {}, Says(e, "object") = {}
        PROVE  PathInv'
    <2>1. pc' = "walk" /\ out' = e /\ state' # 0 /\ StartWalk
      BY <1>1, <1>5, EmitSays DEF Walk
    <2>2. Left(todo') = {}
      BY <2>1, <1>2, ListedIn DEF Left
    <2>3. Marks(e, "item") = {}
      BY <1>5, SaysNone
    <2>4. Listing(todo', state', out')
      BY <2>1, <2>2, <2>3, <1>5 DEF Listing, Rows
    <2>5. ListInv' /\ IsDir /\ page \in Walked /\ Says(out', "item") = {}
      BY <2>1, <2>4, <1>1, <1>5, ListIs DEF IsDir, Walked
    <2> QED
      BY <2>1, <2>5, <1>1, <1>5, PathIf
  <1>6. ASSUME Walk(0, <<>>), page \in Walked => rev \in Peels, page \in {"tree", "plain"} => path # None
        PROVE  PathInv'
    <2>1. pc' = "walk" /\ out' = <<>> /\ state' = 0 /\ StartWalk /\ Says(<<>>, "item") = {}
      BY <1>1, <1>6, EmitSays, NoItem DEF Walk
    <2>2. path # None /\ path \in DOMAIN tree => ComingIn(todo', path)
      BY <2>1, <1>2, PathIs
    <2>3. ASSUME IsDir, page \in {"tree", "plain"} PROVE Listing(todo', state', out')
      <3>1. path # None /\ path \in DOMAIN tree
        BY <2>3, <1>6 DEF IsDir, Kind
      <3> QED
        BY <3>1, <2>1, <2>2 DEF Listing
    <2>4. ASSUME ~IsDir PROVE Looking(todo', state', out')
      BY <2>1, <2>2, <2>4 DEF Looking, IsDir
    <2> QED
      BY <2>1, <2>3, <2>4, <1>1, <1>6, ListIs, ObjectIs, PathIf DEF Walked
  <1>7. CASE page = "tree" /\ PrintTree
    <2>1. rev \notin Peels => Finish(ErrorPage("404"))
      BY <1>7 DEF PrintTree
    <2>2. rev \in Peels /\ path = None => Walk(1, <<PageStart>>)
      BY <1>7 DEF PrintTree
    <2>3. rev \in Peels /\ path # None => Walk(0, <<>>)
      BY <1>7 DEF PrintTree
    <2>4. /\ <<PageStart>> \in Seq(Events) /\ Says(<<PageStart>>, "item") = {}
          /\ Says(<<PageStart>>, "error") = {} /\ Says(<<PageStart>>, "object") = {}
      BY NoItem
    <2>5. rev \notin Peels => PathInv'
      BY <2>1, <1>4
    <2>6. rev \in Peels /\ path = None => PathInv'
      <3>1. 1 \in 1..2
        OBVIOUS
      <3> QED
        BY <3>1, <2>2, <2>4, <1>5, <1>7
    <2>7. rev \in Peels /\ path # None => PathInv'
      BY <2>3, <1>6
    <2> QED
      BY <2>5, <2>6, <2>7
  <1>8. CASE page = "plain" /\ PrintPlain
    <2>1. rev \notin Peels => Finish(ErrorPage("404"))
      BY <1>8 DEF PrintPlain
    <2>2. rev \in Peels /\ path = None => Walk(2, <<Note("dir")>>)
      BY <1>8 DEF PrintPlain
    <2>3. rev \in Peels /\ path # None => Walk(0, <<>>)
      BY <1>8 DEF PrintPlain
    <2>4. /\ <<Note("dir")>> \in Seq(Events) /\ Says(<<Note("dir")>>, "item") = {}
          /\ Says(<<Note("dir")>>, "error") = {} /\ Says(<<Note("dir")>>, "object") = {}
      BY NoItem
    <2>5. rev \notin Peels => PathInv'
      BY <2>1, <1>4
    <2>6. rev \in Peels /\ path = None => PathInv'
      <3>1. 2 \in 1..2
        OBVIOUS
      <3> QED
        BY <3>1, <2>2, <2>4, <1>5, <1>8
    <2>7. rev \in Peels /\ path # None => PathInv'
      BY <2>3, <1>6
    <2> QED
      BY <2>5, <2>6, <2>7
  <1>9. CASE page = "blame" /\ PrintBlame
    BY <1>4, <1>6, <1>9 DEF PrintBlame
  <1>10. CASE page = "blob" /\ PrintBlob
    <2>1. Finish(ErrorPage("404")) \/ Walk(0, <<>>) \/ Finish(<<Note("object")>>)
      BY <1>10 DEF PrintBlob
    <2>2. page \notin Walked /\ page \notin {"tree", "plain"}
      BY <1>10 DEF Walked
    <2>3. <<Note("object")>> \in Seq(Events) /\ Says(<<Note("object")>>, "item") = {}
      BY NoItem
    <2> QED
      BY <2>1, <2>2, <2>3, <1>3, <1>4, <1>6
  <1> QED
    BY <1>7, <1>8, <1>9, <1>10 DEF Begin

LEMMA EndPath ==
  ASSUME TypeInv, FrameInv, PathInv, End
  PROVE  PathInv'
  <1>1. /\ UNCHANGED <<tree, page, rev, path>> /\ pc = "walk" /\ todo = <<>> /\ state \in 0..2
        /\ page \in {"tree", "plain", "blame", "blob"}
    BY DEF End, TypeInv, TypeOK
  <1>2. \A q : ~ComingIn(todo, q)
    <2>1. Len(todo) = 0
      BY <1>1
    <2> QED
      BY <2>1 DEF ComingIn
  <1>3. page \in Walked => rev \in Peels
    BY <1>1 DEF PathInv, Walked
  \* A list ends with what says nothing.
  <1>4. ASSUME page \in {"tree", "plain"}, IsDir PROVE PathInv'
    <2>1. Rows(todo, state, out) /\ InOrder /\ ChainEnds
      BY <1>1, <1>2, <1>4, ListIs DEF PathInv, Listing, Walked
    <2>2. Left(todo) = Listed(Dir)
      BY <1>2 DEF Left
    <2>3. \E e \in {<<>>, <<PageEnd>>, <<Note("end")>>} : Finish(e)
      <3>1. state = 1 \/ state = 2
        BY <2>1, <1>1 DEF Rows
      <3>2. CASE page = "tree"
        BY <3>1, <3>2 DEF End, TreeEnd
      <3>3. CASE page = "plain"
        BY <3>1, <3>3 DEF End, PlainEnd
      <3> QED
        BY <3>2, <3>3, <1>4
    <2>4. PICK e \in {<<>>, <<PageEnd>>, <<Note("end")>>} : Finish(e)
      BY <2>3
    <2>5. e \in Seq(Events) /\ Says(e, "item") = {} /\ Says(e, "error") = {} /\ Says(e, "object") = {}
      BY NoItem
    <2>6. /\ pc' = "done" /\ Marks(out', "item") = Marks(out, "item") /\ Joins(out', out, e)
          /\ \A w \in {"item", "error", "object"} : Says(out', w) = Says(out, w)
      <3>1. Emit(e) /\ pc' = "done"
        BY <2>4 DEF Finish
      <3>2. /\ Joins(out', out, e)
            /\ \A w : Says(out', w) = Says(out, w) \cup Says(e, w)
            /\ \A w : Says(e, w) = {} => Marks(out', w) = Marks(out, w)
        BY <3>1, <2>5, EmitSays
      <3> QED
        BY <3>1, <3>2, <2>5
    <2>7. \A k \in Marks(out, "item") : out'[k] = out[k]
      BY <2>6, SaysMore
    <2>8. InOrder' /\ ChainEnds'
      <3>1. Ordered(out) /\ (page = "tree" => \A r \in Says(out, "item") : Ends(r))
        BY <2>1, <1>1, ListIs, ChainsIs
      <3>2. Ordered(out')
        BY <3>1, <2>6, <2>7 DEF Ordered
      <3> QED
        BY <3>1, <3>2, <2>6, <1>1, ListIs, ChainsIs
    <2>9. ~Readable
      BY <1>4 DEF Readable
    <2>10. PageShows(out')
      BY <2>1, <2>2, <2>6, <2>9, <1>4 DEF PageShows, Rows
    <2> QED
      BY <2>6, <2>8, <2>10, <1>1, <1>4, PathIf
  <1>5. ASSUME page \in Walked, ~IsDir PROVE PathInv'
    <2>1. Looking(todo, state, out) \/ Shows(todo, state, out)
      BY <1>1, <1>5, ObjectIs DEF PathInv, Walked
    \* It was found, or there is an error.
    <2>2. \/ /\ state = 0 /\ Finish(ErrorPage("404"))
          \/ /\ page = "blame" /\ state # 1 /\ Finish(ErrorPage("404"))
          \/ /\ state # 0 /\ (page = "blame" => state = 1)
             /\ \E e \in {<<>>, <<PageEnd>>, <<Note("end")>>} : Finish(e)
      <3>1. CASE page = "tree"
        BY <3>1 DEF End, TreeEnd
      <3>2. CASE page = "plain"
        BY <3>2, <1>1 DEF End, PlainEnd
      <3>3. CASE page = "blame"
        BY <3>3, <1>1 DEF End, BlameEnd
      <3> QED
        BY <3>1, <3>2, <3>3, <1>5 DEF Walked
    <2>3. /\ Says(out, "item") = {} /\ Says(out, "object") \subseteq {path}
          /\ ~Readable \/ (state # 0 /\ (page = "blame" => state = 1) /\ Says(out, "error") = {}
                           /\ (Says(out, "object") = {path} \/ Says(out, "note") # {}))
          /\ state # 0 => Readable \/ Says(out, "error") # {}
      <3>1. CASE Looking(todo, state, out)
        <4>1. path \notin DOMAIN tree /\ state = 0 /\ out = <<>>
          BY <3>1, <1>2 DEF Looking
        <4>2. ~Readable
          BY <4>1 DEF Readable, Kind
        <4> QED
          BY <4>1, <4>2, NoItem
      <3>2. CASE Shows(todo, state, out)
        BY <3>2 DEF Shows
      <3> QED
        BY <2>1, <3>1, <3>2
    <2>4. CASE Finish(ErrorPage("404")) /\ (state = 0 \/ (page = "blame" /\ state # 1))
      <3>1. pc' = "done" /\ \A w : Says(out', w) = Says(out, w) \cup Says(ErrorPage("404"), w)
        BY <2>4, NoItem, EmitSays DEF Finish
      <3>2. ~Readable
        BY <2>3, <2>4
      <3>3. Says(out', "item") = {} /\ Says(out', "object") \subseteq {path} /\ Says(out', "error") # {}
        BY <2>3, <3>1, NoItem
      <3>4. PageShows(out')
        BY <3>2, <3>3, <1>5 DEF PageShows
      <3> QED
        BY <3>1, <3>3, <3>4, <1>1, PathIf
    <2>5. CASE state # 0 /\ \E e \in {<<>>, <<PageEnd>>, <<Note("end")>>} : Finish(e)
      <3>1. PICK e \in {<<>>, <<PageEnd>>, <<Note("end")>>} : Finish(e)
        BY <2>5
      <3>2. e \in Seq(Events) /\ Says(e, "item") = {} /\ Says(e, "error") = {} /\ Says(e, "object") = {}
        BY NoItem
      <3>3. /\ pc' = "done" /\ Says(out', "note") = Says(out, "note") \cup Says(e, "note")
            /\ \A w \in {"item", "error", "object"} : Says(out', w) = Says(out, w)
        <4>1. Emit(e) /\ pc' = "done"
          BY <3>1 DEF Finish
        <4>2. \A w : Says(out', w) = Says(out, w) \cup Says(e, w)
          BY <4>1, <3>2, EmitSays
        <4> QED
          BY <4>1, <4>2, <3>2
      <3>4. PageShows(out')
        BY <3>3, <2>3, <2>5, <1>5 DEF PageShows
      <3> QED
        BY <3>3, <3>4, <2>3, <1>1, PathIf
    <2> QED
      BY <2>2, <2>4, <2>5
  <1>6. ASSUME page = "blame", IsDir PROVE PathInv'
    <2>1. state # 1 /\ out = <<>>
      BY <1>1, <1>6 DEF FrameInv, IsDir
    <2>2. Finish(ErrorPage("404"))
      BY <2>1, <1>6 DEF End, BlameEnd
    <2>3. pc' = "done" /\ out' = ErrorPage("404")
      BY <2>1, <2>2, NoItem, EmitSays DEF Finish
    <2>4. Says(out', "item") = {} /\ Says(out', "object") = {} /\ Says(out', "error") # {}
      BY <2>3, NoItem
    <2>5. PageShows(out')
      BY <2>4, <1>6 DEF PageShows, Readable
    <2> QED
      BY <2>3, <2>4, <2>5, <1>1, PathIf
  <1>7. ASSUME page = "blob" PROVE PathInv'
    <2>1. Says(out, "item") = {} /\ path \in Paths
      BY <1>1, <1>7, ShownIs, SaysNone, PathIs DEF PathInv, TypeInv, Ready
    <2>2. \E e \in Seq(Events) : Finish(e) /\ Says(e, "item") = {}
      <3>1. Finish(BlobEnd)
        BY <1>7 DEF End
      <3>2. BlobEnd \in {<<Note("commit")>>, ErrorPage("404"), <<Object(path)>>}
        BY DEF BlobEnd
      <3>3. \A e \in {<<Note("commit")>>, ErrorPage("404"), <<Object(path)>>} : e \in Seq(Events) /\ Says(e, "item") = {}
        BY <2>1, NoItem
      <3> QED
        BY <3>1, <3>2, <3>3
    <2>3. pc' = "done" /\ Says(out', "item") = {}
      BY <2>1, <2>2, EmitSays DEF Finish
    <2> QED
      BY <2>3, <1>1, <1>7, PathIf DEF Walked
  <1> QED
    BY <1>1, <1>4, <1>5, <1>6, <1>7 DEF Walked

LEMMA AboutPath ==
  ASSUME TypeInv, PathInv, NextReadme \/ PrintReadme \/ EndReadme
  PROVE  PathInv'
  <1>1. UNCHANGED <<tree, page, rev, path>> /\ page = "about"
    BY PathIs DEF NextReadme, PrintReadme, EndReadme, TypeInv, Ready
  <1>2. Says(out, "item") = {}
    BY <1>1, ShownIs, SaysNone DEF PathInv
  <1>3. out' = out \/ \E e \in Seq(Events) : Emit(e) /\ Says(e, "item") = {}
    <2>1. CASE NextReadme
      <3>1. out' = out \/ Emit(<<Note("none")>>)
        BY <2>1 DEF NextReadme, Finish
      <3> QED
        BY <3>1, NoItem
    <2>2. CASE PrintReadme
      <3>1. Emit(<<PageStart>>)
        BY <2>2 DEF PrintReadme, Walk
      <3> QED
        BY <3>1, NoItem
    <2>3. CASE EndReadme
      <3>1. Emit(<<Object(Sought), PageEnd>>) \/ Emit(<<PageEnd>>)
        BY <2>3 DEF EndReadme, Finish
      <3>2. Sought \in Paths
        BY <2>3, SoughtType DEF EndReadme
      <3> QED
        BY <3>1, <3>2, NoItem
    <2> QED
      BY <2>1, <2>2, <2>3
  <1>4. Says(out', "item") = {}
    BY <1>2, <1>3, EmitSays
  <1> QED
    BY <1>1, <1>4, PathIf DEF Walked

LEMMA NextPath == TypeInv /\ WalkOnce /\ FrameInv /\ StackInv /\ PathInv /\ [Next]_vars => PathInv'
  <1> SUFFICES ASSUME TypeInv, WalkOnce, FrameInv, StackInv, PathInv, [Next]_vars PROVE PathInv'
    OBVIOUS
  \* What was said stays if no entry is read.
  <1>1. ASSUME UNCHANGED <<tree, page, rev, path, pc, state, out>>, \A q : ComingIn(todo', q) <=> ComingIn(todo, q)
        PROVE  PathInv'
    <2>1. Left(todo') = Left(todo)
      BY <1>1 DEF Left
    <2>2. (ListInv' <=> ListInv) /\ (InOrder' <=> InOrder) /\ (ChainEnds' <=> ChainEnds)
      BY <2>1, <1>1, ListIs, ChainsIs DEF Listing, Rows
    <2>3. (Ahead' <=> Ahead) /\ (Found' <=> Found)
      BY <1>1, ObjectIs DEF Looking, Shows
    <2>4. Printed("item")' = Printed("item")
      BY <1>1 DEF Printed
    <2>5. ShowsPath' <=> ShowsPath
      BY <1>1 DEF ShowsPath, Shown, Printed, IsDir, Readable, Dir, Listed, Kind
    <2>6. IsDir' <=> IsDir
      BY <1>1, SamePage
    <2> QED
      BY <2>2, <2>3, <2>4, <2>5, <2>6, <1>1 DEF PathInv
  <1>2. CASE Visit
    BY <1>2, VisitPath
  <1>3. CASE Leave
    <2>1. \A q : ComingIn(todo', q) <=> ComingIn(todo, q)
      BY <1>3, LeaveComing, NextWay, WayDef DEF TypeInv
    <2> QED
      BY <2>1, <1>1, <1>3 DEF Leave
  <1>4. CASE Begin
    BY <1>4, BeginPath
  <1>5. CASE End
    BY <1>5, EndPath
  <1>6. CASE NextReadme \/ PrintReadme \/ EndReadme
    BY <1>6, AboutPath
  <1>7. CASE UNCHANGED vars
    BY <1>1, <1>7 DEF vars
  <1> QED
    BY <1>2, <1>3, <1>4, <1>5, <1>6, <1>7 DEF Next, Done

LEMMA InitPath == Init => StackInv /\ PathInv
  <1> SUFFICES ASSUME Init PROVE StackInv /\ PathInv
    OBVIOUS
  <1>1. pc = "begin" /\ out = <<>>
    BY DEF Init
  <1>2. \A w : Printed(w) = {} /\ Shown(w) = {}
    BY <1>1 DEF Printed, Shown
  <1>3. StackInv
    BY <1>1 DEF StackInv
  <1> QED
    BY <1>1, <1>2, <1>3 DEF PathInv, ShowsPath, InOrder, ChainEnds

-----------------------------------------------------------------------------
TreesInv == TypeInv /\ WalkOnce /\ ReadmeInv /\ FrameInv /\ ReadmeShown /\ StackInv /\ PathInv

LEMMA InvariantHolds == Spec => []TreesInv
  <1>1. Init => TreesInv
    <2>1. Init => WalkOnce
      BY DEF Init, WalkOnce, OneWay
    <2>2. Init => ReadmeShown
      BY DEF Init, ReadmeShown
    <2> QED
      BY <2>1, <2>2, InitType, InitReadme, InitFrame, InitPath DEF TreesInv
  <1>2. TreesInv /\ [Next]_vars => TreesInv'
    BY NextType, NextReady, NextOnce, NextReadmeInv, NextFrame, NextShown, NextStack, NextPath DEF TreesInv, TypeInv
  <1> QED
    BY <1>1, <1>2, PTL DEF Spec

LEMMA FramedMarks ==
  ASSUME Framed(out), TypeOK
  PROVE  Printed("head") = {1} /\ Printed("tail") = {Len(out)}
  <1>1. Len(out) \in Nat /\ Len(out) > 1
    BY DEF TypeOK, Framed
  <1>2. \A k \in 1..Len(out) : k = 1 \/ k = Len(out) \/ k \in 2..(Len(out) - 1)
    BY <1>1
  <1> QED
    BY <1>1, <1>2 DEF Framed, Frame, Printed

\* A page has one beginning and one end, with everything between them, but for
\* the four the code does not frame.
THEOREM PagesAreFramed == Spec => []FramedOnce
  <1>1. TreesInv => FramedOnce
    <2> SUFFICES ASSUME TypeOK, FrameInv, pc = "done", Html, ~Unframed
                 PROVE  Framed(out)
      BY FramedMarks DEF TreesInv, TypeInv, FramedOnce
    <2>1. NoError(out) => Printed("error") = {}
      BY DEF NoError, Printed
    <2> QED
      BY <2>1 DEF FrameInv, Html
  <1> QED
    BY <1>1, InvariantHolds, PTL

\* The readme that is shown is the first of the list that is a file of the commit.
THEOREM FirstReadmeShown == Spec => []ReadmeShown
  <1>1. TreesInv => ReadmeShown
    BY DEF TreesInv
  <1> QED
    BY <1>1, InvariantHolds, PTL
\* A page that looks for a path shows what is there: the object, or each entry of
\* the directory once and in the order of git, or an error where there is neither;
\* and a link of the page tree goes on to the last directory that holds nothing
\* but another.
THEOREM PagesShowPath == Spec => []WalkInv
  <1>1. TreesInv => WalkInv
    BY DEF TreesInv, TypeInv, PathInv, WalkInv
  <1> QED
    BY <1>1, InvariantHolds, PTL

=============================================================================
