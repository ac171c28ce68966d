----------------------------- MODULE RefsProofs -----------------------------
(***************************************************************************)
(* A link to a snapshot names a file, and the page snapshot guesses the    *)
(* revision from its name.  For all repositories, names and formats: what  *)
(* the link shortened is found again, in four lookups at most.  And the    *)
(* lists of branches and tags, whatever their lengths, limits and dates:   *)
(* what a list leaves out is not newer than anything it shows.             *)
(***************************************************************************)
EXTENDS Refs, SequenceTheorems, FiniteSetTheorems, TLAPS

-----------------------------------------------------------------------------
(* Names and parts of names *)

LEMMA JoinAt ==
  ASSUME NEW S, NEW s \in Seq(S), NEW t \in Seq(S)
  PROVE  /\ s \o t \in Seq(S) /\ Len(s \o t) = Len(s) + Len(t) /\ Len(s) \in Nat /\ Len(t) \in Nat
         /\ \A k \in 1..Len(s) : (s \o t)[k] = s[k]
         /\ \A k \in 1..Len(t) : (s \o t)[Len(s) + k] = t[k]
  <1>1. Len(s) \in Nat /\ Len(t) \in Nat
    OBVIOUS
  <1>2. /\ s \o t \in Seq(S) /\ Len(s \o t) = Len(s) + Len(t)
        /\ \A k \in 1 .. Len(s) + Len(t) : (s \o t)[k] = IF k <= Len(s) THEN s[k] ELSE t[k - Len(s)]
    BY ConcatProperties
  <1> QED
    BY <1>1, <1>2

LEMMA PrefixAt ==
  ASSUME NEW S, NEW s \in Seq(S), NEW t \in Seq(S)
  PROVE  IsPrefix(s, t) <=> Len(s) <= Len(t) /\ \A k \in 1..Len(s) : s[k] = t[k]
  <1>1. Len(s) \in Nat /\ Len(t) \in Nat
    OBVIOUS
  <1>2. ASSUME Len(s) <= Len(t)
        PROVE  /\ Len(SubSeq(t, 1, Len(s))) = Len(s) /\ SubSeq(t, 1, Len(s)) \in Seq(S)
               /\ \A k \in 1..Len(s) : SubSeq(t, 1, Len(s))[k] = t[k]
    <2>1. \A k \in 1..Len(s) : t[k] \in S
      BY <1>1, <1>2
    <2>2. /\ SubSeq(t, 1, Len(s)) \in Seq(S)
          /\ Len(SubSeq(t, 1, Len(s))) = IF 1 <= Len(s) THEN Len(s) - 1 + 1 ELSE 0
          /\ \A k \in 1..(Len(s) - 1 + 1) : SubSeq(t, 1, Len(s))[k] = t[1 + k - 1]
      BY <1>1, <2>1, SubSeqProperties
    <2> QED
      BY <1>1, <2>2
  <1>3. SubSeq(s, 1, Len(s)) = s
    BY SubSeqFull
  <1> QED
    BY <1>1, <1>2, <1>3, SeqEqual DEF IsPrefix

LEMMA PrefixOfJoin ==
  ASSUME NEW S, NEW s \in Seq(S), NEW t \in Seq(S)
  PROVE  IsPrefix(s, s \o t)
  <1> DEFINE u == s \o t
  <1>1. u \in Seq(S) /\ Len(s) <= Len(u) /\ \A k \in 1..Len(s) : s[k] = u[k]
    BY JoinAt
  <1> HIDE DEF u
  <1>2. IsPrefix(s, u)
    BY <1>1, PrefixAt
  <1> QED
    BY <1>2 DEF u

\* What is cut off, and what remains.
LEMMA StemOfJoin ==
  ASSUME NEW S, NEW s \in Seq(S), NEW t \in Seq(S)
  PROVE  Stem(s \o t, t) = s
  <1>1. /\ s \o t \in Seq(S) /\ Len(s \o t) = Len(s) + Len(t) /\ Len(s) \in Nat /\ Len(t) \in Nat
        /\ \A k \in 1..Len(s) : (s \o t)[k] = s[k]
    BY JoinAt
  <1>2. Stem(s \o t, t) = SubSeq(s \o t, 1, Len(s))
    BY <1>1 DEF Stem
  <1>3. IsPrefix(s, s \o t)
    BY PrefixOfJoin
  <1> QED
    BY <1>2, <1>3, SubSeqFull DEF IsPrefix

LEMMA RestOfJoin ==
  ASSUME NEW S, NEW s \in Seq(S), NEW t \in Seq(S)
  PROVE  SubSeq(s \o t, Len(s) + 1, Len(s \o t)) = t
  <1>1. /\ s \o t \in Seq(S) /\ Len(s \o t) = Len(s) + Len(t) /\ Len(s) \in Nat /\ Len(t) \in Nat
        /\ \A k \in 1..Len(t) : (s \o t)[Len(s) + k] = t[k]
    BY JoinAt
  <1> DEFINE m == Len(s) + 1
             n == Len(s) + Len(t)
             r == SubSeq(s \o t, m, n)
  <1>2. \A k \in m..n : (s \o t)[k] \in S
    BY <1>1
  <1>3. /\ r \in Seq(S) /\ Len(r) = IF m <= n THEN n - m + 1 ELSE 0
        /\ \A k \in 1..(n - m + 1) : r[k] = (s \o t)[m + k - 1]
    BY <1>1, <1>2, SubSeqProperties
  <1>4. Len(r) = Len(t) /\ \A k \in 1..Len(t) : r[k] = t[k]
    BY <1>1, <1>3
  <1> QED
    BY <1>1, <1>3, <1>4, SeqEqual

LEMMA SuffixAt ==
  ASSUME NEW S, NEW s \in Seq(S), NEW t \in Seq(S)
  PROVE  IsSuffix(s, t) <=> Len(s) <= Len(t) /\ \A k \in 1..Len(s) : s[Len(s) - k + 1] = t[Len(t) - k + 1]
  <1>1. Len(s) \in Nat /\ Len(t) \in Nat
    OBVIOUS
  <1>2. /\ Reverse(s) \in Seq(S) /\ Len(Reverse(s)) = Len(s)
        /\ \A k \in 1..Len(s) : Reverse(s)[k] = s[Len(s) - k + 1]
    BY <1>1 DEF Reverse
  <1>3. /\ Reverse(t) \in Seq(S) /\ Len(Reverse(t)) = Len(t)
        /\ \A k \in 1..Len(t) : Reverse(t)[k] = t[Len(t) - k + 1]
    BY <1>1 DEF Reverse
  <1>4. IsPrefix(Reverse(s), Reverse(t)) <=>
          Len(s) <= Len(t) /\ \A k \in 1..Len(s) : Reverse(s)[k] = Reverse(t)[k]
    BY <1>2, <1>3, PrefixAt
  <1>5. ASSUME Len(s) <= Len(t), NEW k \in 1..Len(s)
        PROVE  Reverse(s)[k] = s[Len(s) - k + 1] /\ Reverse(t)[k] = t[Len(t) - k + 1]
    BY <1>1, <1>2, <1>3, <1>5
  <1> QED
    BY <1>4, <1>5 DEF IsSuffix

LEMMA SuffixOfJoin ==
  ASSUME NEW S, NEW s \in Seq(S), NEW t \in Seq(S)
  PROVE  IsSuffix(t, s \o t)
  <1>1. /\ s \o t \in Seq(S) /\ Len(s \o t) = Len(s) + Len(t) /\ Len(s) \in Nat /\ Len(t) \in Nat
        /\ \A k \in 1..Len(t) : (s \o t)[Len(s) + k] = t[k]
    BY JoinAt
  <1> DEFINE u == s \o t
  <1>2. u \in Seq(S) /\ Len(t) <= Len(u)
    BY <1>1
  <1>3. ASSUME NEW k \in 1..Len(t) PROVE t[Len(t) - k + 1] = u[Len(u) - k + 1]
    <2>1. Len(t) - k + 1 \in 1..Len(t) /\ Len(s) + (Len(t) - k + 1) = Len(u) - k + 1
      BY <1>1
    <2> QED
      BY <1>1, <2>1
  <1> HIDE DEF u
  <1>4. IsSuffix(t, u)
    BY <1>2, <1>3, SuffixAt
  <1> QED
    BY <1>4 DEF u

LEMMA Short ==
  ASSUME NEW S, NEW a \in S, NEW b \in S
  PROVE  /\ <<a>> \in Seq(S) /\ Len(<<a>>) = 1 /\ <<a>>[1] = a
         /\ <<a, b>> \in Seq(S) /\ Len(<<a, b>>) = 2 /\ <<a, b>>[1] = a /\ <<a, b>>[2] = b
  OBVIOUS

LEMMA Wider ==
  ASSUME NEW S, NEW P, P \subseteq S
  PROVE  Seq(P) \subseteq Seq(S)
  OBVIOUS

\* Every piece a name or a suffix has.
Literals == {"-", "v", "V", ".tar", ".gz", ".bz2", ".lz", ".xz", ".zst", ".zip", ".asc"}
Pieces   == Literals \cup ToSet(Base) \cup UNION {ToSet(n) : n \in Known}

LEMMA KnownNames ==
  ASSUME Unpushed
  PROVE  /\ Base \in Seq(Pieces) /\ Base # <<>>
         /\ \A n \in Known : n \in Seq(Pieces) /\ n # <<>>
         /\ \A c \in Literals : <<c>> \in Seq(Pieces)
         /\ Seq(Literals) \subseteq Seq(Pieces)
  <1>1. \A n \in Known : IsName(n)
    BY RefsAssumption, ReposAssumption DEF Unpushed, Known
  <1>2. \A P : P \subseteq Pieces => Seq(P) \subseteq Seq(Pieces)
    BY Wider
  <1>3. \A n \in Known : ToSet(n) \subseteq Pieces
    BY DEF Pieces
  <1>4. ToSet(Base) \subseteq Pieces /\ Literals \subseteq Pieces
    BY DEF Pieces
  <1>5. \A c \in Literals : <<c>> \in Seq(Literals)
    BY Short
  <1> QED
    BY <1>1, <1>2, <1>3, <1>4, <1>5, RefsAssumption DEF IsName

-----------------------------------------------------------------------------
(* Formats *)

\* A format ends in a piece of its own, and none in that of a signature.
LEMMA FormatsAre ==
  /\ Len(Formats) = 7
  /\ \A f \in 1..7 : /\ Formats[f] \in Seq(Literals) /\ Len(Formats[f]) \in Nat \ {0}
                     /\ Formats[f][Len(Formats[f])] # ".asc"
  /\ \A f, g \in 1..7 : Formats[f][Len(Formats[f])] = Formats[g][Len(Formats[g])] => f = g
  <1>1. /\ Len(Formats) = 7
        /\ Formats[1] = <<".tar">> /\ Formats[2] = <<".tar", ".gz">> /\ Formats[3] = <<".tar", ".bz2">>
        /\ Formats[4] = <<".tar", ".lz">> /\ Formats[5] = <<".tar", ".xz">> /\ Formats[6] = <<".tar", ".zst">>
        /\ Formats[7] = <<".zip">>
    BY DEF Formats
  <1>2. \A f \in 1..7 : f = 1 \/ f = 2 \/ f = 3 \/ f = 4 \/ f = 5 \/ f = 6 \/ f = 7
    OBVIOUS
  <1>3. \A a \in Literals : <<a>> \in Seq(Literals) /\ Len(<<a>>) = 1 /\ <<a>>[1] = a
    BY Short
  <1>4. \A a, b \in Literals : <<a, b>> \in Seq(Literals) /\ Len(<<a, b>>) = 2 /\ <<a, b>>[2] = b
    BY Short
  <1>5. \A c \in {".tar", ".gz", ".bz2", ".lz", ".xz", ".zst", ".zip"} : c \in Literals
    BY DEF Literals
  <1> DEFINE End(f) == Formats[f][Len(Formats[f])]
  <1>6. /\ End(1) = ".tar" /\ End(2) = ".gz" /\ End(3) = ".bz2" /\ End(4) = ".lz" /\ End(5) = ".xz"
        /\ End(6) = ".zst" /\ End(7) = ".zip"
    BY <1>1, <1>3, <1>4, <1>5
  <1>7. \A f \in 1..7 : Formats[f] \in Seq(Literals) /\ Len(Formats[f]) \in Nat \ {0}
    <2>1. /\ Formats[1] \in Seq(Literals) /\ Formats[2] \in Seq(Literals) /\ Formats[3] \in Seq(Literals)
          /\ Formats[4] \in Seq(Literals) /\ Formats[5] \in Seq(Literals) /\ Formats[6] \in Seq(Literals)
          /\ Formats[7] \in Seq(Literals)
      BY <1>1, <1>3, <1>4, <1>5
    <2>2. /\ Len(Formats[1]) = 1 /\ Len(Formats[2]) = 2 /\ Len(Formats[3]) = 2 /\ Len(Formats[4]) = 2
          /\ Len(Formats[5]) = 2 /\ Len(Formats[6]) = 2 /\ Len(Formats[7]) = 1
      BY <1>1, <1>3, <1>4, <1>5
    <2>3. SUFFICES ASSUME NEW f \in 1..7 PROVE Formats[f] \in Seq(Literals) /\ Len(Formats[f]) \in Nat \ {0}
      OBVIOUS
    <2>4. Formats[f] \in Seq(Literals)
      BY <1>2, <2>1
    <2>5. Len(Formats[f]) = 1 \/ Len(Formats[f]) = 2
      BY <1>2, <2>2
    <2>6. 1 \in Nat \ {0} /\ 2 \in Nat \ {0}
      OBVIOUS
    <2> QED
      BY <2>4, <2>5, <2>6, Zenon
  <1> HIDE DEF End
  <1>8. \A f \in 1..7 : End(f) # ".asc"
    BY <1>2, <1>6
  <1>9. \A f, g \in 1..7 : End(f) = End(g) => f = g
    BY <1>2, <1>6
  <1> QED
    BY <1>1, <1>7, <1>8, <1>9 DEF End

\* The suffix of a file tells its format, whatever is before it.
LEMMA FormatFound ==
  ASSUME NEW S, Literals \subseteq S, NEW s \in Seq(S), NEW f \in 1..7
  PROVE  /\ FormatOf(s \o Formats[f]) = {f}
         /\ Stem(s \o Formats[f], Formats[f]) = s
         /\ ~IsSuffix(<<".asc">>, s \o Formats[f])
         /\ s \o Formats[f] \in Seq(S)
  <1>1. \A g \in 1..7 : Formats[g] \in Seq(S) /\ Len(Formats[g]) \in Nat \ {0}
    <2>1. Seq(Literals) \subseteq Seq(S)
      BY Wider
    <2> QED
      BY <2>1, FormatsAre
  <1> DEFINE u == s \o Formats[f]
  <1>2. /\ u \in Seq(S) /\ Len(u) = Len(s) + Len(Formats[f]) /\ Len(s) \in Nat
        /\ \A k \in 1..Len(Formats[f]) : u[Len(s) + k] = Formats[f][k]
    <2> DEFINE t == Formats[f]
    <2>1. t \in Seq(S)
      BY <1>1
    <2> HIDE DEF t
    <2>2. /\ s \o t \in Seq(S) /\ Len(s \o t) = Len(s) + Len(t) /\ Len(s) \in Nat
          /\ \A k \in 1..Len(t) : (s \o t)[Len(s) + k] = t[k]
      BY <2>1, JoinAt
    <2> QED
      BY <2>2 DEF t
  <1>3. u[Len(u)] = Formats[f][Len(Formats[f])] /\ Len(u) \in Nat \ {0}
    <2> HIDE DEF u
    <2>1. Len(Formats[f]) \in Nat \ {0}
      BY <1>1
    <2>2. Len(Formats[f]) \in 1..Len(Formats[f])
      BY <2>1
    <2> QED
      BY <1>2, <2>1, <2>2
  <1>4. IsSuffix(Formats[f], u) /\ Stem(u, Formats[f]) = s
    BY <1>1, SuffixOfJoin, StemOfJoin
  <1> HIDE DEF u
  <1>5. ASSUME NEW t \in Seq(S), Len(t) \in Nat \ {0}, IsSuffix(t, u)
        PROVE  t[Len(t)] = u[Len(u)]
    <2>1. Len(t) <= Len(u) /\ \A k \in 1..Len(t) : t[Len(t) - k + 1] = u[Len(u) - k + 1]
      <3>1. u \in Seq(S)
        BY <1>2
      <3>2. IsSuffix(t, u) <=> Len(t) <= Len(u) /\ \A k \in 1..Len(t) : t[Len(t) - k + 1] = u[Len(u) - k + 1]
        BY <3>1, SuffixAt
      <3> QED
        BY <1>5, <3>2
    <2>2. t[Len(t) - 1 + 1] = u[Len(u) - 1 + 1]
      BY <1>5, <2>1
    <2> QED
      BY <1>3, <1>5, <2>2
  <1>6. FormatOf(u) = {f}
    <2>1. \A g \in 1..7 : IsSuffix(Formats[g], u) => g = f
      BY <1>1, <1>3, <1>5, FormatsAre
    <2> QED
      BY <1>4, <2>1, FormatsAre DEF FormatOf
  <1>7. ~IsSuffix(<<".asc">>, u)
    <2>1. <<".asc">> \in Seq(S) /\ Len(<<".asc">>) = 1 /\ <<".asc">>[1] = ".asc"
      BY Short DEF Literals
    <2> DEFINE t == <<".asc">>
    <2> HIDE DEF t
    <2>2. t \in Seq(S) /\ Len(t) = 1 /\ t[1] = ".asc"
      BY <2>1 DEF t
    <2>3. ASSUME IsSuffix(t, u) PROVE ".asc" = u[Len(u)]
      <3>1. Len(t) \in Nat \ {0}
        BY <2>2
      <3>2. t[Len(t)] = u[Len(u)]
        BY <1>5, <2>2, <2>3, <3>1
      <3> QED
        BY <2>2, <3>2
    <2> QED
      BY <1>3, <2>3, FormatsAre DEF t
  <1> QED
    BY <1>2, <1>4, <1>6, <1>7 DEF u

-----------------------------------------------------------------------------
(* Links *)

\* What the file of a link says: whether it is a signature, and the format.
LEMMA LinkFile ==
  ASSUME Unpushed, NEW n \in Known, FileStem(n) \in Seq(Pieces), NEW l \in SnapshotLinks(n)
  PROVE  LET rest == IF l.sig THEN Stem(l.file, <<".asc">>) ELSE l.file
         IN  /\ l.of = Resolve(n) /\ l.format \in 1..Len(Formats) /\ l.sig \in BOOLEAN
             /\ l.sig <=> IsSuffix(<<".asc">>, l.file)
             /\ FormatOf(rest) = {l.format} /\ Stem(rest, Formats[l.format]) = FileStem(n)
             /\ IF l.sig THEN Signed(n, l.format) ELSE l.format \in conf.mask
  <1>1. conf.mask \subseteq 1..7 /\ Len(Formats) = 7
    BY FormatsAre, ReposAssumption DEF Unpushed
  <1>2. PICK f \in conf.mask : l = LinkTo(n, f, <<>>) \/ \E g \in SigFormat(n, f) : l = LinkTo(n, g, <<".asc">>)
    BY DEF SnapshotLinks
  <1>3. Literals \subseteq Pieces
    BY DEF Pieces
  <1>4. \A g \in 1..7 : /\ FormatOf(FileStem(n) \o Formats[g]) = {g}
                        /\ Stem(FileStem(n) \o Formats[g], Formats[g]) = FileStem(n)
                        /\ ~IsSuffix(<<".asc">>, FileStem(n) \o Formats[g])
                        /\ FileStem(n) \o Formats[g] \in Seq(Pieces)
    BY <1>3, FormatFound
  <1>5. CASE l = LinkTo(n, f, <<>>)
    <2>1. l.of = Resolve(n) /\ l.format = f /\ l.sig = FALSE /\ l.file = FileStem(n) \o Formats[f] \o <<>>
      BY <1>5 DEF LinkTo
    <2>2. l.file = FileStem(n) \o Formats[f]
      BY <1>1, <1>4, <2>1, ConcatEmptySeq
    <2> QED
      BY <1>1, <1>4, <2>1, <2>2
  <1>6. ASSUME NEW g \in SigFormat(n, f), l = LinkTo(n, g, <<".asc">>)
        PROVE  LET rest == IF l.sig THEN Stem(l.file, <<".asc">>) ELSE l.file
               IN  /\ l.of = Resolve(n) /\ l.format \in 1..Len(Formats) /\ l.sig \in BOOLEAN
                   /\ l.sig <=> IsSuffix(<<".asc">>, l.file)
                   /\ FormatOf(rest) = {l.format} /\ Stem(rest, Formats[l.format]) = FileStem(n)
                   /\ IF l.sig THEN Signed(n, l.format) ELSE l.format \in conf.mask
    <2>1. l.of = Resolve(n) /\ l.format = g /\ l.sig = TRUE /\ l.file = FileStem(n) \o Formats[g] \o <<".asc">>
      <3>1. <<".asc">> # <<>>
        OBVIOUS
      <3> QED
        BY <1>6, <3>1 DEF LinkTo
    <2>2. g \in 1..7 /\ Signed(n, g)
      BY <1>1 DEF SigFormat
    <2>3. <<".asc">> \in Seq(Pieces)
      BY <1>3, Short DEF Literals
    <2> DEFINE s == FileStem(n) \o Formats[g]
    <2>4. s \in Seq(Pieces) /\ FormatOf(s) = {g} /\ Stem(s, Formats[g]) = FileStem(n) /\ l.file = s \o <<".asc">>
      BY <1>4, <2>1, <2>2
    <2> HIDE DEF s
    <2>5. Stem(l.file, <<".asc">>) = s /\ IsSuffix(<<".asc">>, l.file)
      <3> DEFINE t == <<".asc">>
      <3> HIDE DEF t
      <3>1. t \in Seq(Pieces) /\ l.file = s \o t
        BY <2>3, <2>4 DEF t
      <3>2. Stem(s \o t, t) = s /\ IsSuffix(t, s \o t)
        BY <2>4, <3>1, StemOfJoin, SuffixOfJoin
      <3> QED
        BY <3>1, <3>2 DEF t
    <2> QED
      BY <1>1, <2>1, <2>2, <2>4, <2>5
  <1> QED
    BY <1>2, <1>5, <1>6

-----------------------------------------------------------------------------
(* Names that are looked up *)

LEMMA Resolved ==
  ASSUME NEW n
  PROVE  /\ n \in Known => Resolve(n) # Nothing /\ Resolve(n).of = n
         /\ n \notin Known => Resolve(n) = Nothing
  BY DEF Known, Resolve, Rev, Nothing

\* The tag that was shortened is the only one of its spellings.
LEMMA Spelled ==
  ASSUME Unpushed, NEW n \in Known, Clear(n), Pretty(n)
  PROVE  /\ WithoutV(n) \in Seq(Pieces) /\ WithoutV(n) # <<>> /\ WithoutV(n)[1] \notin {"-", "_"}
         /\ WithoutV(n) # n /\ <<"v">> \o WithoutV(n) # <<"V">> \o WithoutV(n)
         /\ n = <<"v">> \o WithoutV(n) \/ n = <<"V">> \o WithoutV(n)
         /\ \A m \in Spellings(n) : m # n => Resolve(m) = Nothing
         /\ \A v \in {"v", "V"} : Tail(<<v>> \o WithoutV(n)) = WithoutV(n)
  <1> DEFINE t == WithoutV(n)
  <1>1. n \in Seq(Pieces) /\ n # <<>> /\ Len(n) \in Nat /\ Len(n) > 1 /\ n[1] \in {"v", "V"} /\ n[2] \in Digits
    BY KnownNames DEF Pretty, Version
  <1>2. /\ t \in Seq(Pieces) /\ Len(t) = Len(n) - 1
        /\ \A k \in 1..Len(t) : t[k] = n[k + 1]
    BY <1>1, HeadTailProperties DEF WithoutV
  <1>3. t # <<>> /\ t # n /\ t[1] \notin {"-", "_"}
    <2>1. Len(t) \in Nat /\ Len(t) >= 1 /\ Len(t) # Len(n) /\ 1 \in 1..Len(t)
      BY <1>1, <1>2
    <2>2. t[1] = n[2]
      <3>1. t[1] = n[1 + 1]
        BY <1>2, <2>1
      <3> QED
        BY <3>1
    <2>3. n[2] \notin {"-", "_"}
      BY <1>1, RefsAssumption
    <2>4. t # n
      <3> HIDE DEF t
      <3> QED
        BY <2>1
    <2>5. t # <<>>
      <3> HIDE DEF t
      <3> QED
        BY <2>1
    <2> QED
      BY <2>2, <2>3, <2>4, <2>5
  <1> HIDE DEF t
  <1>4. ASSUME NEW v \in {"v", "V"}
        PROVE  LET s == <<v>> \o t
               IN  s \in Seq(Pieces) /\ Len(s) = Len(n) /\ s[1] = v /\ \A k \in 1..Len(t) : s[k + 1] = t[k]
    <2> DEFINE o == <<v>>
               s == o \o t
    <2>1. o \in Seq(Pieces) /\ Len(o) = 1 /\ o[1] = v
      BY Short, KnownNames DEF Pieces, Literals
    <2> HIDE DEF o
    <2>2. /\ s \in Seq(Pieces) /\ Len(s) = 1 + Len(t) /\ s[1] = v
          /\ \A k \in 1..Len(t) : s[1 + k] = t[k]
      BY <1>2, <2>1, JoinAt
    <2>3. \A k \in 1..Len(t) : s[k + 1] = t[k]
      BY <1>1, <1>2, <2>2
    <2> QED
      BY <1>1, <1>2, <2>2, <2>3 DEF o
  <1>5. n = <<"v">> \o t \/ n = <<"V">> \o t
    <2>1. PICK v \in {"v", "V"} : n[1] = v
      BY <1>1
    <2> DEFINE s == <<v>> \o t
    <2>2. s \in Seq(Pieces) /\ Len(s) = Len(n) /\ s[1] = v /\ \A k \in 1..Len(t) : s[k + 1] = t[k]
      BY <1>4
    <2> HIDE DEF s
    <2>3. ASSUME NEW k \in 1..Len(n) PROVE s[k] = n[k]
      <3>1. CASE k = 1
        BY <2>1, <2>2, <3>1
      <3>2. CASE k # 1
        <4>1. k - 1 \in 1..Len(t) /\ (k - 1) + 1 = k
          BY <1>1, <1>2, <3>2
        <4> QED
          BY <1>2, <2>2, <4>1
      <3> QED
        BY <3>1, <3>2
    <2>4. s = n
      BY <1>1, <2>2, <2>3, SeqEqual
    <2> QED
      BY <2>4 DEF s
  <1>6. <<"v">> \o t # <<"V">> \o t
    <2>1. (<<"v">> \o t)[1] = "v" /\ (<<"V">> \o t)[1] = "V"
      BY <1>4
    <2> QED
      BY <2>1
  <1>7. ASSUME NEW v \in {"v", "V"} PROVE Tail(<<v>> \o t) = t
    <2> DEFINE s == <<v>> \o t
    <2>1. s \in Seq(Pieces) /\ Len(s) = Len(n) /\ \A k \in 1..Len(t) : s[k + 1] = t[k]
      BY <1>4
    <2> HIDE DEF s
    <2>2. s # <<>>
      BY <1>1, <2>1, EmptySeq
    <2>3. /\ Tail(s) \in Seq(Pieces) /\ Len(Tail(s)) = Len(s) - 1
          /\ \A k \in 1..Len(Tail(s)) : Tail(s)[k] = s[k + 1]
      BY <2>1, <2>2, HeadTailProperties
    <2>4. Len(Tail(s)) = Len(t) /\ \A k \in 1..Len(t) : Tail(s)[k] = t[k]
      BY <1>1, <1>2, <2>1, <2>3
    <2>5. Tail(s) = t
      BY <1>2, <2>3, <2>4, SeqEqual
    <2> QED
      BY <2>5 DEF s
  <1>8. ASSUME NEW m \in Spellings(n), m # n PROVE m \notin Known
    <2> DEFINE T == {k \in Spellings(n) : IsTag(k)}
    <2>1. n \in T
      BY <1>5 DEF T, Spellings, t, Pretty, Version
    <2>2. IsFiniteSet(T)
      <3>1. Spellings(n) = (({} \cup {t}) \cup {<<"v">> \o t}) \cup {<<"V">> \o t}
        BY DEF Spellings, t
      <3>2. IsFiniteSet(Spellings(n))
        <4>1. \A S, x : IsFiniteSet(S) => IsFiniteSet(S \cup {x})
          BY FS_AddElement
        <4>2. IsFiniteSet({})
          BY FS_EmptySet
        <4>3. IsFiniteSet((({} \cup {t}) \cup {<<"v">> \o t}) \cup {<<"V">> \o t})
          BY <4>1, <4>2, Zenon
        <4> QED
          BY <3>1, <4>3
      <3> QED
        BY <3>2, FS_Subset
    <2>3. Cardinality(T) = 1
      BY DEF Pretty
    <2>4. \E x : T = {x}
      BY <2>2, <2>3, FS_Singleton
    <2>5. m \notin DOMAIN tags
      BY <1>8, <2>1, <2>4 DEF IsTag
    <2>6. m \notin DOMAIN heads \cup {Id}
      <3>1. \A v \in {<<>>, <<"v">>, <<"V">>} : v \o t \notin (DOMAIN heads \cup {Id}) \ {n}
        BY <1>1 DEF Clear, t, WithoutV
      <3>2. <<>> \o t = t
        BY <1>2, ConcatEmptySeq
      <3>3. m \in {t, <<"v">> \o t, <<"V">> \o t}
        BY DEF Spellings, t
      <3>4. \A s \in {t, <<"v">> \o t, <<"V">> \o t} : s \notin (DOMAIN heads \cup {Id}) \ {n}
        BY <3>1, <3>2
      <3> QED
        BY <1>8, <3>3, <3>4
    <2> QED
      BY <2>5, <2>6 DEF Known
  <1> QED
    BY <1>2, <1>3, <1>5, <1>6, <1>7, <1>8, Resolved DEF t

LEMMA TwoAtLeast ==
  ASSUME NEW S, NEW d \in Seq(S), NEW u \in Seq(S)
  PROVE  Len(d) = 1 /\ Len(u) \in Nat \ {0}
         => /\ d \o u \in Seq(S) /\ Len(d \o u) \in Nat /\ Len(d \o u) >= 2
            /\ (d \o u)[1] = d[1] /\ (d \o u)[2] = u[1]
  <1> DEFINE r == d \o u
  <1>1. /\ r \in Seq(S) /\ Len(r) = Len(d) + Len(u)
        /\ \A k \in 1..Len(d) : r[k] = d[k]
        /\ \A k \in 1..Len(u) : r[Len(d) + k] = u[k]
    BY JoinAt
  <1> HIDE DEF r
  <1> SUFFICES ASSUME Len(d) = 1, Len(u) \in Nat \ {0}
               PROVE  r \in Seq(S) /\ Len(r) \in Nat /\ Len(r) >= 2 /\ r[1] = d[1] /\ r[2] = u[1]
    BY DEF r
  <1>2. 1 \in 1..Len(d) /\ 1 \in 1..Len(u)
    OBVIOUS
  <1>3. r[1] = d[1] /\ r[Len(d) + 1] = u[1] /\ Len(d) + 1 = 2
    BY <1>1, <1>2
  <1>4. Len(r) \in Nat /\ Len(r) >= 2
    BY <1>1
  <1> QED
    BY <1>1, <1>3, <1>4

\* The first lookup finds nothing, unless the reference itself begins with the name
\* of the repository; the second looks for the reference, or the short form of it.
LEMMA Composed ==
  ASSUME Unpushed, NEW n \in Known, Clear(n), ~IsPrefix(Base, n)
  PROVE  LET u == IF Pretty(n) THEN WithoutV(n) ELSE n
         IN  /\ FileStem(n) \in Seq(Pieces) /\ Resolve(FileStem(n)) = Nothing
             /\ WithoutBase(FileStem(n)) = u
  <1> DEFINE u == IF Pretty(n) THEN WithoutV(n) ELSE n
             d == <<"-">>
             r == d \o u
             s == Base \o r
  <1>1. u \in Seq(Pieces) /\ u # <<>> /\ u[1] \notin {"-", "_"} /\ Len(u) \in Nat \ {0}
    <2>1. u \in Seq(Pieces) /\ u # <<>> /\ u[1] \notin {"-", "_"}
      <3>1. n \in Seq(Pieces) /\ n # <<>> /\ n[1] \notin {"-", "_"}
        BY KnownNames DEF Clear
      <3> QED
        BY <3>1, Spelled
    <2> HIDE DEF u
    <2> QED
      BY <2>1, EmptySeq
  <1>2. Base \in Seq(Pieces) /\ Base # <<>> /\ Len(Base) \in Nat
    BY KnownNames
  <1>3. d \in Seq(Pieces) /\ Len(d) = 1 /\ d[1] = "-"
    BY Short DEF Pieces, Literals
  <1>4. FileStem(n) = s
    <2>1. FileStem(n) = (Base \o d) \o u
      BY DEF FileStem, Compose
    <2> HIDE DEF u, d
    <2>2. \A a, b, c \in Seq(Pieces) : (a \o b) \o c = a \o (b \o c)
      BY ConcatAssociative
    <2>3. (Base \o d) \o u = Base \o (d \o u)
      BY <1>1, <1>2, <1>3, <2>2, Zenon
    <2> QED
      BY <2>1, <2>3, Zenon DEF r, s
  <1> HIDE DEF u, d
  <1>5. r \in Seq(Pieces) /\ Len(r) \in Nat /\ Len(r) >= 2 /\ r[1] = "-" /\ r[2] = u[1]
    <2>1. Len(d) = 1 /\ Len(u) \in Nat \ {0}
          => /\ d \o u \in Seq(Pieces) /\ Len(d \o u) \in Nat /\ Len(d \o u) >= 2
             /\ (d \o u)[1] = d[1] /\ (d \o u)[2] = u[1]
      <3>1. d \in Seq(Pieces) /\ u \in Seq(Pieces)
        BY <1>1, <1>3
      <3> QED
        BY <3>1, TwoAtLeast
    <2> QED
      BY <1>1, <1>3, <2>1, Zenon
  <1>6. SubSeq(r, 2, Len(r)) = u
    <2>1. SubSeq(r, Len(d) + 1, Len(r)) = u
      BY <1>1, <1>3, RestOfJoin
    <2>2. Len(d) + 1 = 2
      BY <1>3
    <2> QED
      BY <2>1, <2>2
  <1> HIDE DEF r
  <1>7. s \in Seq(Pieces) /\ IsPrefix(Base, s) /\ SubSeq(s, Len(Base) + 1, Len(s)) = r
    BY <1>2, <1>5, JoinAt, PrefixOfJoin, RestOfJoin
  <1> HIDE DEF s
  <1>8. Resolve(s) = Nothing
    <2>1. s \notin Known
      BY <1>7 DEF Clear, Others
    <2> QED
      BY <2>1, Resolved
  <1>9. WithoutBase(s) = u
    <2> DEFINE I     == {k \in 1..Len(r) : r[k] \notin {"-", "_"}}
               first == SelectInSeq(r, LAMBDA c : c \notin {"-", "_"})
    <2>1. 2 \in I /\ \A k \in I : k \in Int /\ 2 <= k
      <3>1. r[2] \notin {"-", "_"}
        BY <1>1, <1>5
      <3>2. 2 \in 1..Len(r)
        BY <1>5
      <3>3. ASSUME NEW k \in I PROVE k \in Int /\ 2 <= k
        <4>1. k \in 1..Len(r) /\ k # 1
          BY <1>5
        <4>2. Len(r) \in Nat
          BY <1>5
        <4> HIDE DEF I
        <4> QED
          BY <4>1, <4>2
      <3> QED
        BY <3>1, <3>2, <3>3
    <2>2. first = CHOOSE x \in I : \A y \in I : x <= y
      <3>1. I # {}
        BY <2>1
      <3> QED
        BY <3>1 DEF SelectInSeq, Min
    <2> HIDE DEF I
    <2>3. (CHOOSE x \in I : \A y \in I : x <= y) = 2
      BY <2>1
    <2>4. WithoutBase(s) = IF first = 0 THEN <<>> ELSE SubSeq(r, first, Len(r))
      BY <1>7 DEF WithoutBase
    <2> HIDE DEF first
    <2>5. first = 2
      BY <2>2, <2>3
    <2> QED
      BY <1>6, <2>4, <2>5
  <1> QED
    BY <1>4, <1>7, <1>8, <1>9 DEF u

-----------------------------------------------------------------------------
(* The invariant *)

\* What is said of references, only they change.
LEMMA SameRefs ==
  ASSUME UNCHANGED repo
  PROVE  /\ Unpushed' <=> Unpushed
         /\ Known' = Known
         /\ \A r : IsCommit(r)' <=> IsCommit(r)
         /\ \A n : /\ Clear(n)' <=> Clear(n)
                   /\ Pretty(n)' <=> Pretty(n)
                   /\ FileStem(n)' = FileStem(n)
                   /\ SnapshotLinks(n)' = SnapshotLinks(n)
         /\ \A l : IsLink(l)' <=> IsLink(l)
  <1>1. tags' = tags /\ heads' = heads /\ conf' = conf
    BY DEF repo
  <1>2. Known' = Known /\ (Unpushed' <=> Unpushed)
    BY <1>1 DEF Known, Unpushed
  <1>3. \A r : IsCommit(r)' <=> IsCommit(r)
    BY <1>1 DEF IsCommit
  <1>4. \A n : Resolve(n)' = Resolve(n)
    BY <1>1 DEF Resolve
  <1>5. \A n : Clear(n)' <=> Clear(n)
    BY <1>1, <1>2 DEF Clear, Others
  <1>6. \A n : Pretty(n)' <=> Pretty(n)
    BY <1>1 DEF Pretty, Version, IsTag
  <1>7. \A n : FileStem(n)' = FileStem(n)
    BY <1>6 DEF FileStem, Compose
  <1>8. \A n, f, asc : LinkTo(n, f, asc)' = LinkTo(n, f, asc)
    BY <1>4, <1>7 DEF LinkTo
  <1>9. \A n, f : SigFormat(n, f)' = SigFormat(n, f)
    BY <1>1, <1>4 DEF SigFormat, Signed
  <1>10. \A n : SnapshotLinks(n)' = SnapshotLinks(n)
    BY <1>1, <1>8, <1>9 DEF SnapshotLinks
  <1>11. \A l : IsLink(l)' <=> IsLink(l)
    BY <1>2, <1>10 DEF IsLink
  <1> QED
    BY <1>2, <1>3, <1>5, <1>6, <1>7, <1>10, <1>11

\* A list of tags shows tags.
LEMMA ShownTags ==
  ASSUME Unpushed, NEW s \in ByAge(TagDate), NEW max \in Nat
  PROVE  ToSet(SubSeq(s, 1, Cut(max, tags))) \subseteq DOMAIN tags
  <1> DEFINE c == Cardinality(DOMAIN tags)
             k == Cut(max, tags)
  <1>1. c \in Nat
    BY FS_CardinalityType, ReposAssumption DEF Unpushed, HaveDates
  <1>2. s \in [1..c -> DOMAIN tags]
    BY DEF ByAge, TagDate, AgeOf, SetToSeqs
  <1>3. k \in Nat /\ k <= c
    BY <1>1 DEF Cut
  <1> HIDE DEF c, k
  <1>4. s \in Seq(DOMAIN tags) /\ Len(s) = c /\ \A j \in 1..c : s[j] \in DOMAIN tags
    BY <1>1, <1>2
  <1>5. SubSeq(s, 1, k) \in Seq(DOMAIN tags)
    BY <1>3, <1>4, SubSeqProperties
  <1>6. \A j \in DOMAIN SubSeq(s, 1, k) : SubSeq(s, 1, k)[j] \in DOMAIN tags
    BY <1>5
  <1> QED
    BY <1>6 DEF ToSet, k

\* A link is to the reference it was made for.
LEMMA LinkIs ==
  ASSUME NEW l, IsLink(l)
  PROVE  l.of.of \in Known /\ l \in SnapshotLinks(l.of.of) /\ l.of = Resolve(l.of.of)
  <1>1. PICK n \in Known : l \in SnapshotLinks(n)
    BY DEF IsLink
  <1>2. l.of = Resolve(n)
    BY <1>1 DEF SnapshotLinks, LinkTo
  <1> QED
    BY <1>1, <1>2, Resolved

\* What a step has to show to keep the invariant, if the references stay.
LEMMA GuessKept ==
  ASSUME GuessInv, UNCHANGED <<repo, pushes>>,
         pushes = 0 /\ Unpushed =>
           /\ step' = "tags" => asked'.page \in {"summary", "refs"}
           /\ \A l \in links' : IsLink(l)
           /\ \A l : l = link' /\ l # None =>
                /\ IsLink(l) /\ asked' = Page("snapshot", l.file)
                /\ Clear(l.of.of) => Serves(l)'
  PROVE  GuessInv'
  <1>1. pushes' = pushes /\ pushes \in Nat
    BY DEF GuessInv
  <1>2. SUFFICES ASSUME pushes = 0
                 PROVE  /\ Unpushed'
                        /\ step' = "tags" => asked'.page \in {"summary", "refs"}
                        /\ \A l \in links' : IsLink(l)'
                        /\ \A l : l = link' /\ l # None =>
                             /\ IsLink(l)' /\ asked' = Page("snapshot", l.file)
                             /\ Clear(l.of.of)' => Serves(l)'
    BY <1>1 DEF GuessInv, IsLink, Clear, Serves, Guessing, Page
  <1>3. Unpushed
    BY <1>2 DEF GuessInv
  <1> QED
    BY <1>2, <1>3, SameRefs

\* The client comes by a link to the page snapshot only.
LEMMA OtherPages ==
  ASSUME GuessInv, pushes = 0, asked.page # "snapshot"
  PROVE  link = None
  BY DEF GuessInv, Page

LEMMA ListsKeep ==
  ASSUME GuessInv, PrintBranches \/ PrintTags
  PROVE  GuessInv'
  <1>1. CASE PrintBranches
    <2>1. asked.page \in {"summary", "refs"} /\ UNCHANGED <<repo, pushes>> /\ asked' = asked /\ link' = link /\ links' = links
      BY <1>1 DEF PrintBranches
    <2>2. pushes = 0 => link = None
      BY <2>1, OtherPages
    <2> QED
      BY <2>1, <2>2, GuessKept DEF GuessInv
  <1>2. CASE PrintTags
    <2>1. step = "tags" /\ step' = "done" /\ UNCHANGED <<repo, pushes>> /\ asked' = asked /\ link' = link
      BY <1>2 DEF PrintTags
    <2>2. pushes = 0 => link = None
      BY <2>1, OtherPages DEF GuessInv
    <2>3. ASSUME pushes = 0, Unpushed, NEW l \in links' PROVE IsLink(l)
      <3>1. LimitOf("tags") \in Nat
        BY <2>3, ReposAssumption DEF LimitOf, Unpushed
      <3>2. PICK s \in ByAge(TagDate) :
              LET shown == SubSeq(s, 1, Cut(LimitOf("tags"), tags))
                  load  == {n \in ToSet(shown) : tags[n].what \in {"commit", "tag of commit"}}
              IN  links' = UNION {SnapshotLinks(n) : n \in load}
        BY <1>2 DEF PrintTags
      <3>3. \E n \in ToSet(SubSeq(s, 1, Cut(LimitOf("tags"), tags))) : l \in SnapshotLinks(n)
        BY <2>3, <3>2
      <3>4. ToSet(SubSeq(s, 1, Cut(LimitOf("tags"), tags))) \subseteq DOMAIN tags
        BY <2>3, <3>1, ShownTags
      <3> QED
        BY <3>3, <3>4 DEF IsLink, Known
    <2> QED
      BY <2>1, <2>2, <2>3, GuessKept
  <1> QED
    BY <1>1, <1>2

LEMMA PagesKeep ==
  ASSUME GuessInv, PrintTag \/ PrintCommit
  PROVE  GuessInv'
  <1>1. /\ UNCHANGED <<repo, pushes>> /\ asked' = asked /\ link' = link /\ step' \in {"done", "error"}
        /\ asked.page \in {"tag", "commit"}
        /\ links' = links \/ (links' = SnapshotLinks(asked.arg) /\ asked.arg \in Known)
    <2>1. ASSUME PrintCommit, IsCommit(Resolve(asked.arg)) PROVE asked.arg \in Known
      <3>1. ~IsCommit(Nothing)
        BY DEF IsCommit, Nothing, Rev
      <3> QED
        BY <2>1, <3>1, Resolved
    <2>2. CASE PrintTag
      BY <2>2 DEF PrintTag, IsTag, Known
    <2>3. CASE PrintCommit
      BY <2>1, <2>3 DEF PrintCommit
    <2> QED
      BY <2>2, <2>3
  <1>2. pushes = 0 => link = None
    BY <1>1, OtherPages
  <1>3. pushes = 0 => \A l \in links' : IsLink(l)
    BY <1>1 DEF GuessInv, IsLink
  <1> QED
    BY <1>1, <1>2, <1>3, GuessKept

\* The page snapshot takes format and name from the file.
LEMMA FileKeeps ==
  ASSUME GuessInv, PrintSnapshot
  PROVE  GuessInv'
  <1>1. UNCHANGED <<repo, pushes>> /\ asked' = asked /\ link' = link /\ links' = links /\ step' # "tags"
    BY DEF PrintSnapshot
  <1>2. ASSUME pushes = 0, Unpushed, NEW l, l = link, l # None, Clear(l.of.of)
        PROVE  Serves(l)'
    <2> DEFINE n == l.of.of
               asc  == IsSuffix(<<".asc">>, asked.arg)
               file == IF asc THEN Stem(asked.arg, <<".asc">>) ELSE asked.arg
               f    == CHOOSE g \in FormatOf(file) : \A h \in FormatOf(file) : g <= h
    <2>1. IsLink(l) /\ asked.arg = l.file /\ asked.id = None /\ asked.head = None
      BY <1>2 DEF GuessInv, Page
    <2>2. n \in Known /\ l \in SnapshotLinks(n) /\ l.of = Resolve(n)
      BY <2>1, LinkIs
    <2>3. FileStem(n) \in Seq(Pieces)
      <3>1. IsPrefix(Base, n) => FileStem(n) = n
        BY DEF FileStem
      <3>2. n \in Seq(Pieces)
        BY <1>2, <2>2, KnownNames
      <3>3. ~IsPrefix(Base, n) => FileStem(n) \in Seq(Pieces)
        BY <1>2, <2>2, Composed
      <3> QED
        BY <3>1, <3>2, <3>3
    <2>4. LET rest == IF l.sig THEN Stem(l.file, <<".asc">>) ELSE l.file
          IN  /\ l.format \in 1..Len(Formats) /\ l.sig \in BOOLEAN
              /\ l.sig <=> IsSuffix(<<".asc">>, l.file)
              /\ FormatOf(rest) = {l.format} /\ Stem(rest, Formats[l.format]) = FileStem(n)
              /\ IF l.sig THEN Signed(n, l.format) ELSE l.format \in conf.mask
      BY <1>2, <2>2, <2>3, LinkFile
    <2>5. /\ asc = l.sig /\ FormatOf(file) = {l.format} /\ Stem(file, Formats[l.format]) = FileStem(n)
          /\ ~asc => l.format \in conf.mask
      <3>1. asc \in BOOLEAN
        BY DEF IsSuffix, IsPrefix
      <3>2. asc = l.sig
        BY <2>1, <2>4, <3>1
      <3>3. asc = l.sig /\ file = IF l.sig THEN Stem(l.file, <<".asc">>) ELSE l.file
        BY <2>1, <3>2, Zenon
      <3> HIDE DEF asc, file
      <3> QED
        BY <2>4, <3>3
    <2>6. l.format <= l.format
      <3>1. l.format \in 1..7
        BY <2>4, FormatsAre
      <3> QED
        BY <3>1
    <2>7. f = l.format
      BY <2>5, <2>6
    <2>8. step' = "whole" /\ name' = FileStem(n) /\ format' = l.format /\ sig' = l.sig
      <3> HIDE DEF f, file, asc
      <3>1. IF FormatOf(file) = {} \/ (~asc /\ f \notin conf.mask)
              THEN step' = "error"
              ELSE /\ format' = f /\ sig' = asc
                   /\ asked.id = None /\ asked.head = None => name' = Stem(file, Formats[f]) /\ step' = "whole"
        BY DEF PrintSnapshot, f, file, asc
      <3>2. FormatOf(file) # {} /\ (asc \/ f \in conf.mask)
        BY <2>5, <2>7
      <3> QED
        BY <2>1, <2>5, <2>7, <3>1, <3>2
    <2>9. FileStem(n)' = FileStem(n)
      BY <1>1, SameRefs
    <2> QED
      BY <2>8, <2>9 DEF Serves, Guessing
  <1> QED
    BY <1>1, <1>2, GuessKept DEF GuessInv

\* The lookups find the reference, and nothing before it.
LEMMA LookupsKeep ==
  ASSUME GuessInv, TryWhole \/ TryRest \/ TrySmallV \/ TryBigV
  PROVE  GuessInv'
  <1>1. /\ UNCHANGED <<repo, pushes>> /\ asked' = asked /\ link' = link /\ links' = links
        /\ format' = format /\ sig' = sig /\ step \in {"whole", "rest", "v", "V"}
        /\ step' \in {"rest", "v", "V", "write", "error"}
    BY DEF TryWhole, TryRest, TrySmallV, TryBigV, Lookup
  <1>2. ASSUME pushes = 0, Unpushed, NEW l, l = link, l # None, Clear(l.of.of)
        PROVE  Serves(l)'
    <2> DEFINE n == l.of.of
    <2>1. IsLink(l) /\ Serves(l)
      BY <1>2 DEF GuessInv
    <2>2. n \in Known /\ Clear(n) /\ Resolve(n) # Nothing
      BY <1>2, <2>1, LinkIs, Resolved
    <2>3. format' = l.format /\ sig' = l.sig
      BY <1>1, <2>1 DEF Serves
    <2>4. Guessing(n)
      BY <2>1 DEF Serves
    <2> HIDE DEF n
    <2>5. /\ step' # "error"
          /\ step' = "rest"  => ~IsPrefix(Base, n) /\ name' = IF Pretty(n) THEN WithoutV(n) ELSE n
          /\ step' = "v"     => ~IsPrefix(Base, n) /\ Pretty(n) /\ name' = <<"v">> \o WithoutV(n)
          /\ step' = "V"     => Pretty(n) /\ name' = n
          /\ step' = "write" => name' = n
      <3>1. CASE TryWhole
        <4>1. name = FileStem(n)
          BY <2>4, <3>1 DEF Guessing, TryWhole, Lookup
        <4>2. CASE IsPrefix(Base, n)
          BY <2>2, <3>1, <4>1, <4>2 DEF FileStem, TryWhole, Lookup
        <4>3. CASE ~IsPrefix(Base, n)
          <5>1. Resolve(name) = Nothing /\ WithoutBase(name) = IF Pretty(n) THEN WithoutV(n) ELSE n
            BY <1>2, <2>2, <4>1, <4>3, Composed
          <5> QED
            BY <3>1, <4>3, <5>1 DEF TryWhole, Lookup
        <4> QED
          BY <4>2, <4>3
      <3>2. CASE TryRest
        <4>1. ~IsPrefix(Base, n) /\ name = IF Pretty(n) THEN WithoutV(n) ELSE n
          BY <2>4, <3>2 DEF Guessing, TryRest, Lookup
        <4>2. Pretty(n) => Resolve(name) = Nothing
          BY <1>2, <2>2, <4>1, Spelled DEF Spellings
        <4> QED
          BY <2>2, <3>2, <4>1, <4>2 DEF TryRest, Lookup
      <3>3. CASE TrySmallV
        <4>1. Pretty(n) /\ name = <<"v">> \o WithoutV(n)
          BY <2>4, <3>3 DEF Guessing, TrySmallV, Lookup
        <4>2. /\ n = <<"v">> \o WithoutV(n) \/ n = <<"V">> \o WithoutV(n)
              /\ Tail(name) = WithoutV(n)
              /\ name # n => Resolve(name) = Nothing
          BY <1>2, <2>2, <4>1, Spelled DEF Spellings
        <4>3. CASE name = n
          BY <2>2, <3>3, <4>3 DEF TrySmallV, Lookup
        <4>4. CASE name # n
          BY <3>3, <4>1, <4>2, <4>4 DEF TrySmallV, Lookup
        <4> QED
          BY <4>3, <4>4
      <3>4. CASE TryBigV
        BY <2>2, <2>4, <3>4 DEF Guessing, TryBigV, Lookup
      <3> QED
        BY <3>1, <3>2, <3>3, <3>4
    <2>6. (Pretty(n)' <=> Pretty(n)) /\ step' # "whole" /\ step' # "done"
      BY <1>1, SameRefs
    <2>7. Guessing(n)'
      BY <2>5, <2>6 DEF Guessing
    <2> QED
      BY <2>3, <2>5, <2>6, <2>7 DEF Serves, n
  <1> QED
    BY <1>1, <1>2, GuessKept DEF GuessInv

\* What is sent is what the link says.
LEMMA WriteKeeps ==
  ASSUME GuessInv, Write
  PROVE  GuessInv'
  <1>1. /\ UNCHANGED <<repo, pushes>> /\ asked' = asked /\ link' = link /\ links' = links
        /\ step = "write" /\ step' \in {"done", "error"}
    BY DEF Write
  <1>2. ASSUME pushes = 0, Unpushed, NEW l, l = link, l # None, Clear(l.of.of)
        PROVE  Serves(l)'
    <2> DEFINE n == l.of.of
    <2>1. IsLink(l) /\ Serves(l)
      BY <1>2 DEF GuessInv
    <2>2. n \in Known /\ l \in SnapshotLinks(n) /\ l.of = Resolve(n)
      BY <2>1, LinkIs
    <2>3. Resolve(name) = l.of /\ format = l.format /\ sig = l.sig
      BY <1>1, <2>1, <2>2 DEF Serves, Guessing
    <2>4. l.sig => <<l.of, l.format>> \in conf.signed
      <3>1. PICK f \in conf.mask : l = LinkTo(n, f, <<>>) \/ \E g \in SigFormat(n, f) : l = LinkTo(n, g, <<".asc">>)
        BY <2>2 DEF SnapshotLinks
      <3>2. \A g \in SigFormat(n, f) : Signed(n, g)
        BY DEF SigFormat
      <3>3. l.sig => \E g \in SigFormat(n, f) : l.format = g
        <4>1. CASE l = LinkTo(n, f, <<>>)
          <5> HIDE DEF n
          <5>1. l.sig = FALSE
            BY <4>1 DEF LinkTo
          <5> QED
            BY <5>1
        <4>2. CASE \E g \in SigFormat(n, f) : l = LinkTo(n, g, <<".asc">>)
          BY <4>2 DEF LinkTo
        <4> QED
          BY <3>1, <4>1, <4>2
      <3> QED
        BY <2>2, <3>2, <3>3 DEF Signed
    <2>5. /\ step' = "done" => answer' = [kind |-> IF l.sig THEN "signature" ELSE "archive", rev |-> l.of, format |-> l.format]
          /\ step' = "error" => ~l.sig /\ ~IsCommit(l.of)
      BY <2>3, <2>4 DEF Write
    <2>6. IsCommit(l.of)' <=> IsCommit(l.of)
      BY <1>1, SameRefs
    <2> QED
      BY <1>1, <2>5, <2>6 DEF Serves, Guessing
  <1> QED
    BY <1>1, <1>2, GuessKept DEF GuessInv

\* The client comes by a link of the page, or by none.
LEMMA ClicksKeep ==
  ASSUME GuessInv, ClickLink \/ ClickTag \/ ClickMore
  PROVE  GuessInv'
  <1>1. UNCHANGED <<repo, pushes>> /\ links' = {} /\ step' = "begin"
    BY DEF ClickLink, ClickTag, ClickMore, Ask
  <1>2. CASE ClickLink
    <2>1. link' \in links /\ asked' = Page("snapshot", link'.file)
      BY <1>2 DEF ClickLink, Ask
    <2>2. ASSUME pushes = 0, NEW l, l = link'
          PROVE  IsLink(l) /\ asked' = Page("snapshot", l.file) /\ Serves(l)'
      BY <1>1, <2>1, <2>2 DEF GuessInv, Serves, Guessing
    <2> QED
      BY <1>1, <2>2, GuessKept
  <1>3. CASE ClickTag \/ ClickMore
    <2>1. link' = None
      BY <1>3 DEF ClickTag, ClickMore
    <2> QED
      BY <1>1, <2>1, GuessKept
  <1> QED
    BY <1>2, <1>3

THEOREM GuessInvariant == Spec => []GuessInv
  <1>1. Init => GuessInv
    BY DEF Init, GuessInv, Unpushed
  <1>2. GuessInv /\ [Next]_vars => GuessInv'
    <2> SUFFICES ASSUME GuessInv, [Next]_vars PROVE GuessInv'
      OBVIOUS
    <2>1. CASE UNCHANGED vars
      <3>1. /\ UNCHANGED <<repo, pushes>> /\ step' = step /\ asked' = asked /\ links' = links /\ link' = link
            /\ name' = name /\ format' = format /\ sig' = sig /\ answer' = answer
        BY <2>1 DEF vars, snap
      <3>2. ASSUME NEW l, Serves(l) PROVE Serves(l)'
        BY <3>1, <3>2, SameRefs DEF Serves, Guessing
      <3> QED
        BY <3>1, <3>2, GuessKept DEF GuessInv
    <2>2. CASE PrintBranches \/ PrintTags
      BY <2>2, ListsKeep
    <2>3. CASE PrintTag \/ PrintCommit
      BY <2>3, PagesKeep
    <2>4. CASE PrintSnapshot
      BY <2>4, FileKeeps
    <2>5. CASE TryWhole \/ TryRest \/ TrySmallV \/ TryBigV
      BY <2>5, LookupsKeep
    <2>6. CASE Write
      BY <2>6, WriteKeeps
    <2>7. CASE ClickLink \/ ClickTag \/ ClickMore
      BY <2>7, ClicksKeep
    <2>8. CASE Push
      BY <2>8 DEF Push, GuessInv
    <2> QED
      BY <2>1, <2>2, <2>3, <2>4, <2>5, <2>6, <2>7, <2>8 DEF Next
  <1> QED
    BY <1>1, <1>2, PTL DEF Spec

\* Whatever the repository, a link to a snapshot leads to the revision and the
\* format it was made for, and to no error: get_ref_from_filename() turns back what
\* cgit_compose_snapshot_prefix() shortened (ui-snapshot.c:210, ui-shared.c:1189).
THEOREM LinksServe == Spec => []LinkServes
  <1>1. GuessInv => LinkServes
    BY DEF GuessInv, LinkServes, LinkGivesRevision, LinkServed, Serves
  <1> QED
    BY <1>1, GuessInvariant, PTL

-----------------------------------------------------------------------------
(* Lists of references *)

\* All of a finite set in some order.
LEMMA Permuted ==
  ASSUME NEW S, IsFiniteSet(S), NEW s \in SetToSeqs(S)
  PROVE  /\ Cardinality(S) \in Nat /\ s \in [1..Cardinality(S) -> S]
         /\ \A j, k \in 1..Cardinality(S) : j # k => s[j] # s[k]
         /\ \A x \in S : \E k \in 1..Cardinality(S) : s[k] = x
         /\ Len(s) = Cardinality(S) /\ s \in Seq(S)
  <1> DEFINE c == Cardinality(S)
  <1>1. c \in Nat
    BY FS_CardinalityType
  <1>2. s \in [1..c -> S] /\ \A j, k \in 1..c : j # k => s[j] # s[k]
    BY DEF SetToSeqs
  <1>3. IsFiniteSet(1..c) /\ Cardinality(1..c) = c
    BY <1>1, FS_Interval
  <1> HIDE DEF c
  <1>4. s \in Injection(1..c, S)
    BY <1>2 DEF Injection, IsInjective
  <1>5. s \in Surjection(1..c, S)
    BY <1>3, <1>4, FS_Injection DEF c
  <1>6. \A x \in S : \E k \in 1..c : s[k] = x
    BY <1>5 DEF Surjection
  <1>7. Len(s) = c /\ s \in Seq(S)
    BY <1>1, <1>2
  <1> QED
    BY <1>1, <1>2, <1>6, <1>7 DEF c

\* The first of them.
LEMMA FirstOf ==
  ASSUME NEW S, IsFiniteSet(S), NEW s \in SetToSeqs(S), NEW c \in 0..Cardinality(S)
  PROVE  /\ SubSeq(s, 1, c) \in Seq(S) /\ Len(SubSeq(s, 1, c)) = c
         /\ \A k \in 1..c : SubSeq(s, 1, c)[k] = s[k]
         /\ ToSet(SubSeq(s, 1, c)) = {s[k] : k \in 1..c}
         /\ IsFiniteSet(ToSet(SubSeq(s, 1, c))) /\ Cardinality(ToSet(SubSeq(s, 1, c))) = c
  <1>1. /\ Cardinality(S) \in Nat /\ s \in Seq(S) /\ Len(s) = Cardinality(S)
        /\ s \in [1..Cardinality(S) -> S] /\ \A j, k \in 1..Cardinality(S) : j # k => s[j] # s[k]
    BY Permuted
  <1>2. c \in Nat /\ c <= Len(s) /\ \A k \in 1..c : s[k] \in S
    BY <1>1
  <1> DEFINE t == SubSeq(s, 1, c)
             I == {s[k] : k \in 1..c}
             g == [k \in 1..c |-> s[k]]
  <1>3. /\ t \in Seq(S) /\ Len(t) = IF 1 <= c THEN c - 1 + 1 ELSE 0
        /\ \A k \in 1..(c - 1 + 1) : t[k] = s[1 + k - 1]
    BY <1>1, <1>2, SubSeqProperties
  <1>4. t \in Seq(S) /\ Len(t) = c /\ \A k \in 1..c : t[k] = s[k]
    BY <1>2, <1>3
  <1> HIDE DEF t
  <1>5. DOMAIN t = 1..c
    BY <1>4
  <1>6. ToSet(t) = I
    BY <1>4, <1>5 DEF ToSet
  <1>7. IsFiniteSet(1..c) /\ Cardinality(1..c) = c
    BY <1>2, FS_Interval
  <1>8. g \in Surjection(1..c, I) /\ g \in Injection(1..c, I)
    BY <1>1, <1>2 DEF Surjection, Injection, IsInjective
  <1> HIDE DEF I, g
  <1>9. IsFiniteSet(I) /\ Cardinality(I) = c
    BY <1>7, <1>8, FS_Surjection
  <1> QED
    BY <1>4, <1>6, <1>9 DEF t, I

\* Dates that are ints are compared by what they are.
LEMMA DatesCompared ==
  ASSUME NEW d \in 0..IntMax, NEW e \in 0..IntMax
  PROVE  CmpAge(d, e) = e - d
  <1>1. IntMax \in Nat
    BY RefsAssumption
  <1>2. \A x \in (-IntMax)..IntMax : AsInt(x) = x
    <2> SUFFICES ASSUME NEW x \in (-IntMax)..IntMax PROVE AsInt(x) = x
      OBVIOUS
    <2> DEFINE w == 2 * (IntMax + 1)
               y == x + IntMax + 1
    <2>1. w \in Nat \ {0} /\ y \in 0..(w - 1)
      BY <1>1
    <2>2. y % w = y
      BY <2>1
    <2> QED
      BY <1>1, <2>2 DEF AsInt
  <1>3. d \in (-IntMax)..IntMax /\ e \in (-IntMax)..IntMax /\ e - d \in (-IntMax)..IntMax
    BY <1>1
  <1>4. AsInt(d) = d /\ AsInt(e) = e /\ AsInt(e - d) = e - d
    BY <1>2, <1>3
  <1> QED
    BY <1>4 DEF CmpAge

\* qsort() by age.
LEMMA Sorted ==
  ASSUME NEW date, IsFiniteSet(DOMAIN date), \A n \in DOMAIN date : date[n] \in 0..IntMax,
         NEW s \in ByAge(date)
  PROVE  \A j, k \in 1..Cardinality(DOMAIN date) : j < k => date[s[k]] <= date[s[j]]
  <1> DEFINE c == Cardinality(DOMAIN date)
  <1>1. s \in SetToSeqs(DOMAIN date)
    BY DEF ByAge
  <1>2. c \in Nat /\ s \in [1..c -> DOMAIN date]
    BY <1>1, Permuted
  <1>3. \A m, n \in DOMAIN date : CmpAge(date[m], date[n]) = date[n] - date[m]
    BY DatesCompared
  <1>4. IntMax \in Nat
    BY RefsAssumption
  <1>5. Consistent(date)
    BY <1>3, <1>4 DEF Consistent
  <1>6. \A j, k \in DOMAIN s : j < k => CmpAge(date[s[j]], date[s[k]]) <= 0
    BY <1>5 DEF ByAge
  <1> HIDE DEF c
  <1>7. ASSUME NEW j \in 1..c, NEW k \in 1..c, j < k PROVE date[s[k]] <= date[s[j]]
    <2>1. j \in DOMAIN s /\ k \in DOMAIN s /\ s[j] \in DOMAIN date /\ s[k] \in DOMAIN date
      BY <1>2
    <2>2. CmpAge(date[s[j]], date[s[k]]) <= 0
      BY <1>6, <1>7, <2>1
    <2>3. CmpAge(date[s[j]], date[s[k]]) = date[s[k]] - date[s[j]]
      BY <1>3, <2>1
    <2>4. date[s[j]] \in Int /\ date[s[k]] \in Int
      BY <1>4, <2>1
    <2> QED
      BY <2>2, <2>3, <2>4
  <1> QED
    BY <1>7 DEF c

LEMMA CutIs ==
  ASSUME NEW refs, IsFiniteSet(DOMAIN refs), NEW max \in Nat
  PROVE  /\ Cardinality(DOMAIN refs) \in Nat /\ Cut(max, refs) \in 0..Cardinality(DOMAIN refs)
         /\ Cut(max, refs) < Cardinality(DOMAIN refs) => Cut(max, refs) = max
  BY FS_CardinalityType DEF Cut

\* What is printed: the rows before, one for each reference of t, and a link to
\* the rest.
Listed(old, kind, t, of, max, refs) == old \o RowsOf(kind, t) \o More(of, max, refs)
RowsAre(new, old, kind, t, of, c, card) ==
  /\ new \in Seq(ToSet(new)) /\ Len(old) \in Nat
  /\ Len(new) = Len(old) + c + (IF c < card THEN 1 ELSE 0) /\ Len(new) - Len(old) <= card
  /\ \A n \in 1..Len(old) : new[n] = old[n]
  /\ \A n \in 1..c : new[Len(old) + n] = [kind |-> kind, name |-> t[n]]
  /\ c < card => new[Len(old) + c + 1] = [kind |-> "more", name |-> <<of>>]
LEMMA ListedAt ==
  ASSUME NEW old, old \in Seq(ToSet(old)), NEW kind, NEW of, NEW refs, IsFiniteSet(DOMAIN refs), NEW max \in Nat,
         NEW t, Len(t) = Cut(max, refs)
  PROVE  RowsAre(Listed(old, kind, t, of, max, refs), old, kind, t, of, Cut(max, refs), Cardinality(DOMAIN refs))
  <1> DEFINE c   == Cut(max, refs)
             card == Cardinality(DOMAIN refs)
             a   == RowsOf(kind, t)
             b   == More(of, max, refs)
             m   == [kind |-> "more", name |-> <<of>>]
             new == Listed(old, kind, t, of, max, refs)
             S   == ToSet(old) \cup {[kind |-> kind, name |-> t[n]] : n \in 1..c} \cup {m}
  <1>1. card \in Nat /\ c \in 0..card
    BY CutIs
  <1>2. a = [n \in 1..c |-> [kind |-> kind, name |-> t[n]]]
    BY DEF RowsOf
  <1>3. b = IF c < card THEN <<m>> ELSE <<>>
    BY DEF More
  <1> HIDE DEF c, card, m
  <1>4. m \in S /\ (\A n \in 1..c : [kind |-> kind, name |-> t[n]] \in S) /\ ToSet(old) \subseteq S
    OBVIOUS
  <1> HIDE DEF S
  <1>5. a \in Seq(S) /\ Len(a) = c /\ \A n \in 1..c : a[n] = [kind |-> kind, name |-> t[n]]
    BY <1>1, <1>2, <1>4
  <1>6. b \in Seq(S) /\ Len(b) = (IF c < card THEN 1 ELSE 0) /\ (c < card => b[1] = m)
    BY <1>3, <1>4
  <1>7. old \in Seq(S)
    BY <1>4, Wider
  <1> HIDE DEF a, b
  <1> DEFINE d == old \o a
  <1>8. /\ d \in Seq(S) /\ Len(d) = Len(old) + c /\ Len(old) \in Nat
        /\ \A n \in 1..Len(old) : d[n] = old[n]
        /\ \A n \in 1..c : d[Len(old) + n] = a[n]
    BY <1>5, <1>7, JoinAt
  <1> HIDE DEF d
  <1>9. /\ d \o b \in Seq(S) /\ Len(d \o b) = Len(d) + Len(b) /\ Len(b) \in Nat
        /\ \A n \in 1..Len(d) : (d \o b)[n] = d[n]
        /\ \A n \in 1..Len(b) : (d \o b)[Len(d) + n] = b[n]
    <2>1. d \in Seq(S) /\ b \in Seq(S)
      BY <1>6, <1>8
    <2> QED
      BY <2>1, JoinAt
  <1>10. new = d \o b
    BY DEF Listed, a, b, d
  <1> HIDE DEF new
  <1>11. new \in Seq(S) /\ Len(new) = Len(old) + c + (IF c < card THEN 1 ELSE 0)
    BY <1>6, <1>8, <1>9, <1>10
  <1>12. new \in Seq(ToSet(new))
    BY <1>11 DEF ToSet
  <1>13. \A n \in 1..c : new[Len(old) + n] = [kind |-> kind, name |-> t[n]]
    BY <1>1, <1>5, <1>8, <1>9, <1>10
  <1>14. c < card => new[Len(old) + c + 1] = m
    <2> SUFFICES ASSUME c < card PROVE new[Len(old) + c + 1] = m
      OBVIOUS
    <2>1. Len(b) = 1 /\ b[1] = m
      BY <1>6
    <2>2. new[Len(d) + 1] = m
      BY <1>9, <1>10, <2>1
    <2> QED
      BY <1>8, <2>2
  <1>15. Len(new) - Len(old) <= card
    BY <1>1, <1>8, <1>11
  <1>16. \A n \in 1..Len(old) : new[n] = old[n]
    BY <1>1, <1>8, <1>9, <1>10
  <1> QED
    BY <1>8, <1>11, <1>12, <1>13, <1>14, <1>15, <1>16 DEF RowsAre, c, card, m, new

\* The first rows of a list that is sorted by age, in some order.
LEMMA FirstShown ==
  ASSUME NEW old, old \in Seq(ToSet(old)), NEW kind, NEW of, NEW refs, IsFiniteSet(DOMAIN refs), NEW max \in Nat,
         NEW date, NEW s, NEW t, Len(t) = Cut(max, refs)
  PROVE  /\ kind \in {"branch", "tag"} /\ \A n \in 1..Len(old) : old[n].kind # kind
         /\ DOMAIN date = DOMAIN refs /\ \A n \in DOMAIN date : date[n] \in 0..IntMax
         /\ s \in ByAge(date)
         /\ ToSet(t) = {s[k] : k \in 1..Cut(max, refs)} /\ DOMAIN t = 1..Cut(max, refs)
         /\ \A j, k \in 1..Cut(max, refs) : j < k =>
              /\ t[j] # t[k]
              /\ IF kind = "branch" /\ ~conf.byAge THEN Before(t[j], t[k]) ELSE date[t[k]] <= date[t[j]]
         => Shows(Listed(old, kind, t, of, max, refs), kind, of, date, max)
  <1> DEFINE c    == Cut(max, refs)
             card == Cardinality(DOMAIN refs)
             o    == Len(old)
             new  == Listed(old, kind, t, of, max, refs)
             at   == At(new, kind)
             show == {new[n].name : n \in at}
             left == DOMAIN date \ show
  <1>1. card \in Nat /\ c \in 0..card /\ (c < card => c = max)
    BY CutIs
  <1>2. /\ o \in Nat /\ Len(new) = o + c + (IF c < card THEN 1 ELSE 0)
        /\ \A n \in 1..o : new[n] = old[n]
        /\ \A n \in 1..c : new[o + n] = [kind |-> kind, name |-> t[n]]
        /\ c < card => new[o + c + 1] = [kind |-> "more", name |-> <<of>>]
    <2>1. RowsAre(new, old, kind, t, of, c, card)
      BY ListedAt
    <2> HIDE DEF new, c, card
    <2> QED
      BY <2>1 DEF RowsAre
  <1>3. SUFFICES ASSUME kind \in {"branch", "tag"}, \A n \in 1..Len(old) : old[n].kind # kind,
                         DOMAIN date = DOMAIN refs, \A n \in DOMAIN date : date[n] \in 0..IntMax,
                         s \in ByAge(date),
                         ToSet(t) = {s[k] : k \in 1..c}, DOMAIN t = 1..c,
                         \A j, k \in 1..c : j < k =>
                           /\ t[j] # t[k]
                           /\ IF kind = "branch" /\ ~conf.byAge THEN Before(t[j], t[k]) ELSE date[t[k]] <= date[t[j]]
                  PROVE  Shows(new, kind, of, date, max)
    OBVIOUS
  <1>4. /\ s \in [1..card -> DOMAIN date]
        /\ \A j, k \in 1..card : j # k => s[j] # s[k]
        /\ \A x \in DOMAIN date : \E k \in 1..card : s[k] = x
    <2> DEFINE D == DOMAIN date
    <2>1. s \in SetToSeqs(D) /\ IsFiniteSet(D) /\ card = Cardinality(D)
      BY <1>3 DEF ByAge
    <2> HIDE DEF D, card
    <2>2. /\ s \in [1..card -> D] /\ \A j, k \in 1..card : j # k => s[j] # s[k]
          /\ \A x \in D : \E k \in 1..card : s[k] = x
      BY <2>1, Permuted
    <2> QED
      BY <2>2 DEF D
  <1>5. \A j, k \in 1..card : j < k => date[s[k]] <= date[s[j]]
    <2>1. IsFiniteSet(DOMAIN date) /\ card = Cardinality(DOMAIN date)
      BY <1>3
    <2> QED
      BY <1>3, <2>1, Sorted
  <1>6. ToSet(t) = {t[n] : n \in 1..c}
    BY <1>3 DEF ToSet
  <1> HIDE DEF c, card, o, new
  <1>7. ASSUME NEW n \in (o + 1)..(o + c)
         PROVE  /\ n - o \in 1..c /\ n \in 1..Len(new)
                /\ new[n] = [kind |-> kind, name |-> t[n - o]] /\ new[n].kind = kind /\ new[n].name = t[n - o]
    <2>1. n - o \in 1..c /\ o + (n - o) = n /\ n \in 1..Len(new)
      BY <1>1, <1>2
    <2>2. new[o + (n - o)] = [kind |-> kind, name |-> t[n - o]]
      BY <1>2, <2>1
    <2> QED
      BY <2>1, <2>2
  <1>8. at = (o + 1)..(o + c)
    <2>1. ASSUME NEW n \in at PROVE n \in (o + 1)..(o + c)
      <3>1. n \in 1..(o + c + 1) /\ new[n].kind = kind /\ (n = o + c + 1 => c < card)
        BY <1>1, <1>2 DEF At
      <3>2. n \notin 1..o
        BY <1>2, <1>3, <3>1 DEF o
      <3>3. n # o + c + 1
        BY <1>2, <1>3, <3>1
      <3> QED
        BY <1>1, <1>2, <3>1, <3>2, <3>3
    <2>2. ASSUME NEW n \in (o + 1)..(o + c) PROVE n \in at
      <3>1. n \in 1..Len(new) /\ new[n].kind = kind
        BY <1>7, Zenon
      <3> QED
        BY <3>1 DEF At
    <2> QED
      BY <2>1, <2>2
  <1> HIDE DEF at
  <1>9. \A n \in at : n - o \in 1..c /\ new[n].name = t[n - o]
    BY <1>8, <1>7, Zenon
  <1>10. show = {s[k] : k \in 1..c}
    <2>1. ASSUME NEW k \in 1..c PROVE o + k \in at /\ new[o + k].name = t[k]
      <3>1. o + k \in (o + 1)..(o + c)
        BY <1>1, <1>2
      <3>2. new[o + k] = [kind |-> kind, name |-> t[k]]
        BY <1>2
      <3> QED
        BY <1>8, <3>1, <3>2
    <2>2. show = {t[n] : n \in 1..c}
      BY <1>9, <2>1
    <2> QED
      BY <1>6, <1>3, <2>2 DEF c
  <1>11. show \subseteq DOMAIN date
    <2>1. ASSUME NEW k \in 1..c PROVE s[k] \in DOMAIN date
      <3>1. k \in 1..card
        BY <1>1
      <3> QED
        BY <1>4, <3>1
    <2> QED
      BY <1>10, <2>1, Zenon
  <1>12. ASSUME left # {}
         PROVE  /\ Cardinality(at) = max /\ \E n \in At(new, "more") : new[n].name = <<of>>
                /\ \A n \in show, m \in left : date[m] <= date[n]
    <2>1. ASSUME NEW m \in left PROVE \E k \in 1..card : k > c /\ s[k] = m
      <3>1. PICK k \in 1..card : s[k] = m
        BY <1>4
      <3>2. k \notin 1..c
        BY <1>10, <3>1
      <3> QED
        BY <1>1, <3>1, <3>2
    <2>2. c < card
      BY <1>1, <1>12, <2>1
    <2>3. Cardinality(at) = max
      <3> DEFINE x == o + 1
                 y == o + c
      <3>1. x \in Int /\ y \in Int /\ (IF x > y THEN 0 ELSE y - x + 1) = c
        BY <1>1, <1>2
      <3> HIDE DEF x, y
      <3>2. Cardinality(x..y) = c
        BY <3>1, FS_Interval
      <3> QED
        BY <1>1, <1>8, <2>2, <3>2 DEF x, y
    <2>4. o + c + 1 \in At(new, "more") /\ new[o + c + 1].name = <<of>>
      BY <1>1, <1>2, <2>2 DEF At
    <2>5. ASSUME NEW n \in show, NEW m \in left PROVE date[m] <= date[n]
      <3>1. PICK j \in 1..c : s[j] = n
        BY <1>10
      <3>2. PICK k \in 1..card : k > c /\ s[k] = m
        BY <2>1
      <3>3. j \in 1..card /\ j < k
        BY <1>1, <3>1, <3>2
      <3> QED
        BY <1>5, <3>1, <3>2, <3>3
    <2> QED
      BY <2>3, <2>4, <2>5
  <1>13. \A j, k \in at : j < k =>
           /\ new[j].name # new[k].name
           /\ IF kind = "branch" /\ ~conf.byAge THEN Before(new[j].name, new[k].name)
                                                ELSE date[new[k].name] <= date[new[j].name]
    <2> SUFFICES ASSUME NEW j \in at, NEW k \in at, j < k
                 PROVE  /\ new[j].name # new[k].name
                        /\ IF kind = "branch" /\ ~conf.byAge THEN Before(new[j].name, new[k].name)
                                                             ELSE date[new[k].name] <= date[new[j].name]
      OBVIOUS
    <2> DEFINE p == j - o
               q == k - o
    <2>1. p \in 1..c /\ q \in 1..c /\ p < q
      BY <1>1, <1>2, <1>8, <1>9
    <2>2. new[j].name = t[p] /\ new[k].name = t[q]
      BY <1>9
    <2> HIDE DEF p, q
    <2> QED
      BY <1>3, <2>1, <2>2 DEF c
  <1> QED
    BY <1>11, <1>12, <1>13 DEF Shows, at, new

-----------------------------------------------------------------------------
(* The lists, step by step *)

LEMMA SevenFormats == Len(Formats) = 7
  BY FormatsAre

\* A format that fits is a format.
LEMMA FirstFormat ==
  ASSUME NEW file, FormatOf(file) # {}
  PROVE  (CHOOSE g \in FormatOf(file) : \A h \in FormatOf(file) : g <= h) \in 1..Len(Formats)
  <1> DEFINE fits == FormatOf(file)
  <1>1. Len(Formats) = 7 /\ fits \subseteq 1..7 /\ fits # {}
    BY FormatsAre DEF FormatOf
  <1> HIDE DEF fits
  <1>2. \E g \in fits : \A h \in fits : g <= h
    <2>1. ASSUME NEW g \in 1..7, g \in fits, \A h \in 1..7 : h < g => h \notin fits
          PROVE  \E m \in fits : \A h \in fits : m <= h
      <3>1. \A h \in fits : g <= h
        BY <1>1, <2>1
      <3> QED
        BY <2>1, <3>1
    <2>2. CASE 1 \in fits
      BY <2>1, <2>2
    <2>3. CASE 1 \notin fits /\ 2 \in fits
      BY <2>1, <2>3
    <2>4. CASE 1 \notin fits /\ 2 \notin fits /\ 3 \in fits
      BY <2>1, <2>4
    <2>5. CASE 1 \notin fits /\ 2 \notin fits /\ 3 \notin fits /\ 4 \in fits
      BY <2>1, <2>5
    <2>6. CASE 1 \notin fits /\ 2 \notin fits /\ 3 \notin fits /\ 4 \notin fits /\ 5 \in fits
      BY <2>1, <2>6
    <2>7. CASE 1 \notin fits /\ 2 \notin fits /\ 3 \notin fits /\ 4 \notin fits /\ 5 \notin fits /\ 6 \in fits
      BY <2>1, <2>7
    <2>8. CASE \A f \in 1..6 : f \notin fits
      <3>1. PICK g \in fits : TRUE
        BY <1>1
      <3>2. g \in 1..7 /\ g \notin 1..6
        BY <1>1, <2>8
      <3>3. g = 7
        BY <3>2
      <3> QED
        BY <2>1, <2>8, <3>1, <3>3
    <2> QED
      BY <1>1, <2>2, <2>3, <2>4, <2>5, <2>6, <2>7, <2>8
  <1>3. (CHOOSE g \in fits : \A h \in fits : g <= h) \in fits
    BY <1>2
  <1> QED
    BY <1>1, <1>3 DEF fits

LEMMA Counted ==
  ASSUME NEW t, NEW h, HaveDates(t, h)
  PROVE  Cardinality(DOMAIN t) \in Nat /\ Cardinality(DOMAIN h) \in Nat
  BY FS_CardinalityType DEF HaveDates

\* What a step has to show that prints no list: it leaves the rows or begins anew.
LEMMA RowsKept ==
  ASSUME RowsInv, conf' = conf, was' = was, HaveDates(tags', heads'),
         pushes' \in 0..MaxPushes, format' \in 0..Len(Formats), sig' \in BOOLEAN,
         rows' = <<>> \/ (rows' = rows /\ step' # "begin"),
         step' \in {"begin", "done", "error", "whole", "rest", "v", "V", "write"},
         step' \notin {"begin", "error"} => asked'.page \notin {"summary", "refs"}
  PROVE  RowsInv'
  <1>1. Len(rows') <= Cardinality(DOMAIN was'.heads) + Cardinality(DOMAIN was'.tags)
    <2>1. CASE rows' = rows
      BY <2>1 DEF RowsInv, ListsInv, TypeOK
    <2>2. CASE rows' = <<>>
      <3>1. Cardinality(DOMAIN was.heads) \in Nat /\ Cardinality(DOMAIN was.tags) \in Nat
        BY Counted DEF RowsInv
      <3> QED
        BY <2>2, <3>1
    <2> QED
      BY <2>1, <2>2
  <1>2. TypeOK'
    BY <1>1 DEF TypeOK
  <1>3. NewestShown'
    BY DEF NewestShown
  <1> QED
    BY <1>2, <1>3 DEF RowsInv, ListsInv

LEMMA PagesList ==
  ASSUME RowsInv, PrintTag \/ PrintCommit
  PROVE  RowsInv'
  <1>1. /\ conf' = conf /\ was' = was /\ tags' = tags /\ heads' = heads /\ pushes' = pushes /\ rows' = rows
        /\ format' = format /\ sig' = sig /\ step' \in {"done", "error"} /\ asked' = asked
        /\ asked.page \in {"tag", "commit"}
    BY DEF PrintTag, PrintCommit, repo, snap
  <1> QED
    BY <1>1, RowsKept DEF RowsInv, ListsInv, TypeOK

LEMMA SnapshotsList ==
  ASSUME RowsInv, PrintSnapshot \/ TryWhole \/ TryRest \/ TrySmallV \/ TryBigV \/ Write
  PROVE  RowsInv'
  <1>1. /\ conf' = conf /\ was' = was /\ tags' = tags /\ heads' = heads /\ pushes' = pushes /\ rows' = rows
        /\ asked' = asked
    BY DEF PrintSnapshot, TryWhole, TryRest, TrySmallV, TryBigV, Lookup, Write, repo
  <1>2. CASE PrintSnapshot
    <2> DEFINE asc  == IsSuffix(<<".asc">>, asked.arg)
               file == IF asc THEN Stem(asked.arg, <<".asc">>) ELSE asked.arg
               fits == FormatOf(file)
               f    == CHOOSE g \in fits : \A h \in fits : g <= h
    <2>1. /\ asked.page = "snapshot" /\ step' \in {"error", "whole", "write"}
          /\ \/ format' = format /\ sig' = sig
             \/ fits # {} /\ format' = f /\ sig' = asc
      BY <1>2 DEF PrintSnapshot
    <2>2. fits # {} => f \in 1..Len(Formats)
      BY FirstFormat
    <2>3. asc \in BOOLEAN
      BY DEF IsSuffix, IsPrefix
    <2> HIDE DEF f, fits, asc
    <2>4. format' \in 0..Len(Formats) /\ sig' \in BOOLEAN
      BY <2>1, <2>2, <2>3, SevenFormats DEF RowsInv, ListsInv, TypeOK
    <2> QED
      BY <1>1, <2>1, <2>4, RowsKept DEF RowsInv, ListsInv, TypeOK
  <1>3. CASE TryWhole \/ TryRest \/ TrySmallV \/ TryBigV \/ Write
    <2>1. /\ step \in {"whole", "rest", "v", "V", "write"}
          /\ step' \in {"write", "rest", "v", "V", "error", "done"} /\ format' = format /\ sig' = sig
      BY <1>3 DEF TryWhole, TryRest, TrySmallV, TryBigV, Lookup, Write
    <2> QED
      BY <1>1, <2>1, RowsKept DEF RowsInv, ListsInv, TypeOK
  <1> QED
    BY <1>2, <1>3

LEMMA ClicksList ==
  ASSUME RowsInv, ClickLink \/ ClickTag \/ ClickMore
  PROVE  RowsInv'
  <1>1. /\ conf' = conf /\ was' = was /\ tags' = tags /\ heads' = heads /\ pushes' = pushes /\ rows' = <<>>
        /\ format' = 0 /\ sig' = FALSE /\ step' = "begin"
    BY DEF ClickLink, ClickTag, ClickMore, Ask, repo
  <1>2. 0 \in 0..Len(Formats)
    BY SevenFormats
  <1> QED
    BY <1>1, <1>2, RowsKept DEF RowsInv, ListsInv, TypeOK

\* A push adds a reference with a date, or gives one another date.
LEMMA PushLists ==
  ASSUME RowsInv, Push
  PROVE  RowsInv'
  <1>1. /\ conf' = conf /\ was' = was /\ rows' = rows /\ asked' = asked /\ step' = step
        /\ format' = format /\ sig' = sig /\ pushes < MaxPushes /\ pushes' = pushes + 1
    BY DEF Push, snap
  <1>2. HaveDates(tags', heads')
    <2>1. PICK r \in NewRefs :
            IF r.tag THEN tags' = With(tags, r.name, [what |-> "commit", date |-> r.date]) /\ heads' = heads
                     ELSE heads' = With(heads, r.name, r.date) /\ tags' = tags
      BY DEF Push
    <2>2. r.date \in Nat
      BY RefsAssumption
    <2>3. IsFiniteSet(DOMAIN tags \cup {r.name}) /\ IsFiniteSet(DOMAIN heads \cup {r.name})
      BY FS_AddElement DEF RowsInv, HaveDates
    <2>4. ASSUME r.tag PROVE HaveDates(tags', heads)
      <3>1. tags' = [n \in DOMAIN tags \cup {r.name} |-> IF n = r.name THEN [what |-> "commit", date |-> r.date] ELSE tags[n]]
        BY <2>1, <2>4 DEF With
      <3>2. \A n \in DOMAIN tags' : tags'[n].date \in Nat
        BY <2>2, <3>1 DEF RowsInv, HaveDates
      <3> QED
        BY <2>3, <3>1, <3>2 DEF RowsInv, HaveDates
    <2>5. ASSUME ~r.tag PROVE HaveDates(tags, heads')
      <3>1. heads' = [n \in DOMAIN heads \cup {r.name} |-> IF n = r.name THEN r.date ELSE heads[n]]
        BY <2>1, <2>5 DEF With
      <3>2. \A n \in DOMAIN heads' : heads'[n] \in Nat
        BY <2>2, <3>1 DEF RowsInv, HaveDates
      <3> QED
        BY <2>3, <3>1, <3>2 DEF RowsInv, HaveDates
    <2> QED
      BY <2>1, <2>4, <2>5
  <1>3. TypeOK'
    <2>1. pushes' \in 0..MaxPushes
      <3>1. pushes \in 0..MaxPushes /\ MaxPushes \in Nat
        BY RefsAssumption DEF RowsInv, ListsInv, TypeOK
      <3> QED
        BY <1>1, <3>1
    <2> QED
      BY <1>1, <2>1 DEF RowsInv, ListsInv, TypeOK
  <1>4. NewestShown'
    BY <1>1 DEF RowsInv, ListsInv, NewestShown, IntHeads, IntTags, ShowsHeads, ShowsTags, Shows, LimitOf
  <1>5. (IntHeads => ShowsHeads)' <=> (IntHeads => ShowsHeads)
    BY <1>1 DEF IntHeads, ShowsHeads, Shows, LimitOf
  <1> QED
    BY <1>1, <1>2, <1>3, <1>4, <1>5 DEF RowsInv, ListsInv

LEMMA AgesAre ==
  ASSUME NEW t, IsFiniteSet(DOMAIN t), \A n \in DOMAIN t : t[n].date \in Nat
  PROVE  /\ DOMAIN AgeOf(t) = DOMAIN t
         /\ (\A n \in DOMAIN t : t[n].date <= IntMax) => \A n \in DOMAIN AgeOf(t) : AgeOf(t)[n] \in 0..IntMax
  <1>1. IntMax \in Nat
    BY RefsAssumption
  <1>2. AgeOf(t) = [n \in DOMAIN t |-> IF t[n].what = "blob" THEN 0 ELSE t[n].date]
    BY DEF AgeOf
  <1>3. ASSUME \A n \in DOMAIN t : t[n].date <= IntMax, NEW n \in DOMAIN t PROVE AgeOf(t)[n] \in 0..IntMax
    BY <1>1, <1>2, <1>3
  <1> QED
    BY <1>2, <1>3

\* What cgit_print_branches() prints: the newest, by age or by name.
LEMMA BranchesCut ==
  ASSUME NEW date, IsFiniteSet(DOMAIN date), NEW max \in Nat, NEW s \in ByAge(date), NEW t \in CutSorted(s, max, date)
  PROVE  /\ Len(t) = Cut(max, date) /\ DOMAIN t = 1..Cut(max, date)
         /\ ToSet(t) = {s[k] : k \in 1..Cut(max, date)}
         /\ \A j, k \in 1..Cut(max, date) : j < k => t[j] # t[k] /\ (~conf.byAge => Before(t[j], t[k]))
         /\ conf.byAge => \A k \in 1..Cut(max, date) : t[k] = s[k]
  <1> DEFINE c == Cut(max, date)
             card == Cardinality(DOMAIN date)
             u == SubSeq(s, 1, c)
             T == ToSet(u)
  <1>1. card \in Nat /\ c \in 0..card /\ s \in SetToSeqs(DOMAIN date)
    BY CutIs DEF ByAge
  <1>2. \A j, k \in 1..card : j # k => s[j] # s[k]
    BY <1>1, Permuted
  <1>3. /\ u \in Seq(DOMAIN date) /\ Len(u) = c /\ \A k \in 1..c : u[k] = s[k]
        /\ T = {s[k] : k \in 1..c} /\ IsFiniteSet(T) /\ Cardinality(T) = c
    BY <1>1, FirstOf
  <1>4. IF conf.byAge THEN t = u ELSE t \in ByName(u)
    BY DEF CutSorted
  <1> HIDE DEF c, card
  <1>5. CASE conf.byAge
    <2> HIDE DEF u, T
    <2>1. t = u /\ DOMAIN t = 1..c /\ ToSet(t) = T
      BY <1>3, <1>4, <1>5 DEF T
    <2>2. \A j, k \in 1..c : j < k => t[j] # t[k]
      <3> SUFFICES ASSUME NEW j \in 1..c, NEW k \in 1..c, j < k PROVE t[j] # t[k]
        OBVIOUS
      <3>1. j \in 1..card /\ k \in 1..card /\ j # k
        BY <1>1
      <3> QED
        BY <1>2, <1>3, <2>1, <3>1
    <2> QED
      BY <1>3, <1>5, <2>1, <2>2 DEF c
  <1>6. CASE ~conf.byAge
    <2>1. t \in SetToSeqs(T) /\ \A j, k \in DOMAIN t : j < k => Before(t[j], t[k])
      BY <1>4, <1>6 DEF ByName
    <2> HIDE DEF T, u
    <2>2. IsFiniteSet(T) /\ c = Cardinality(T)
      BY <1>3
    <2>3. /\ t \in [1..c -> T] /\ (\A j, k \in 1..c : j # k => t[j] # t[k]) /\ Len(t) = c
          /\ \A x \in T : \E k \in 1..c : t[k] = x
      BY <2>1, <2>2, Permuted
    <2>4. DOMAIN t = 1..c /\ ToSet(t) = T
      BY <2>3 DEF ToSet
    <2>5. \A j, k \in 1..c : j < k => t[j] # t[k] /\ Before(t[j], t[k])
      BY <1>1, <2>1, <2>3, <2>4
    <2> QED
      BY <1>3, <1>6, <2>3, <2>4, <2>5 DEF c
  <1> QED
    BY <1>5, <1>6

LEMMA BranchesList ==
  ASSUME RowsInv, PrintBranches
  PROVE  RowsInv'
  <1> DEFINE max == LimitOf("heads")
  <1>1. /\ step = "begin" /\ rows = <<>> /\ asked.page \in {"summary", "refs"} /\ asked' = asked
        /\ conf' = conf /\ tags' = tags /\ heads' = heads /\ step' \in {"tags", "done"}
        /\ step' = "done" => asked.page = "refs" /\ asked.arg = "heads"
        /\ format' = format /\ sig' = sig /\ pushes' = pushes
    BY DEF PrintBranches, RowsInv, repo, snap
  <1>2. /\ HaveDates(was'.tags, was'.heads) /\ was'.tags = was.tags
        /\ was' = [tags |-> was'.tags, heads |-> was'.heads]
    <2>1. was' = was \/ was' = [was EXCEPT !.heads = heads]
      BY DEF PrintBranches
    <2> QED
      BY <2>1 DEF RowsInv, HaveDates
  <1>3. max \in Nat /\ max' = max
    BY <1>1 DEF LimitOf, RowsInv
  <1> HIDE DEF max
  <1>4. CASE asked.page = "refs" /\ asked.arg = "tags"
    <2>1. rows' = <<>> /\ step' = "tags" /\ was' = was
      BY <1>1, <1>4 DEF PrintBranches
    <2>2. Cardinality(DOMAIN was.heads) \in Nat /\ Cardinality(DOMAIN was.tags) \in Nat
      BY Counted DEF RowsInv
    <2>3. rows' \in Seq(ToSet(rows')) /\ Len(rows') = 0 /\ \A n \in 1..Len(rows') : FALSE
      BY <2>1
    <2>4. Len(rows') <= Cardinality(DOMAIN was'.heads) /\ Len(rows') <= Cardinality(DOMAIN was'.heads) + Cardinality(DOMAIN was'.tags)
      BY <2>1, <2>2, <2>3
    <2>5. TypeOK' /\ NewestShown' /\ ShowsHeads'
      BY <1>1, <1>4, <2>1, <2>4 DEF RowsInv, ListsInv, TypeOK, NewestShown, ShowsHeads
    <2> QED
      BY <1>1, <1>2, <2>1, <2>3, <2>4, <2>5 DEF RowsInv, ListsInv
  <1>5. CASE ~(asked.page = "refs" /\ asked.arg = "tags")
    <2>1. was'.heads = heads
      BY <1>5 DEF PrintBranches, RowsInv
    <2>2. PICK s \in ByAge(heads) : \E t \in CutSorted(s, LimitOf("heads"), heads) :
            rows' = Listed(rows, "branch", t, "heads", LimitOf("heads"), heads)
      BY <1>5 DEF PrintBranches, Listed
    <2>3. PICK t \in CutSorted(s, max, heads) : rows' = Listed(<<>>, "branch", t, "heads", max, heads)
      BY <1>1, <2>2 DEF max
    <2>4. IsFiniteSet(DOMAIN heads) /\ \A n \in DOMAIN heads : heads[n] \in Nat
      BY DEF RowsInv, HaveDates
    <2> DEFINE c    == Cut(max, heads)
               card == Cardinality(DOMAIN heads)
    <2>5. /\ Len(t) = c /\ DOMAIN t = 1..c /\ ToSet(t) = {s[k] : k \in 1..c}
          /\ \A j, k \in 1..c : j < k => t[j] # t[k] /\ (~conf.byAge => Before(t[j], t[k]))
          /\ conf.byAge => \A k \in 1..c : t[k] = s[k]
      BY <1>3, <2>3, <2>4, BranchesCut
    <2>6. <<>> \in Seq(ToSet(<<>>)) /\ Len(<<>>) = 0 /\ \A n \in 1..Len(<<>>) : FALSE
      OBVIOUS
    <2>7. RowsAre(rows', <<>>, "branch", t, "heads", c, card)
      BY <1>3, <2>3, <2>4, <2>5, <2>6, ListedAt
    <2>8. card \in Nat /\ c \in 0..card /\ Cardinality(DOMAIN was.tags) \in Nat
      BY <1>3, <2>4, CutIs, Counted DEF RowsInv
    <2>9. IntHeads' => Shows(rows', "branch", "heads", heads, max)
      <3> SUFFICES ASSUME IntHeads' PROVE Shows(rows', "branch", "heads", heads, max)
        OBVIOUS
      <3>1. \A n \in DOMAIN heads : heads[n] \in 0..IntMax
        <4>1. IntMax \in Nat
          BY RefsAssumption
        <4>2. \A n \in DOMAIN heads : heads[n] <= IntMax
          BY <2>1 DEF IntHeads
        <4> QED
          BY <2>4, <4>1, <4>2
      <3>2. \A j, k \in 1..c : j < k =>
              /\ t[j] # t[k]
              /\ IF "branch" = "branch" /\ ~conf.byAge THEN Before(t[j], t[k]) ELSE heads[t[k]] <= heads[t[j]]
        <4>1. \A j, k \in 1..card : j < k => heads[s[k]] <= heads[s[j]]
          BY <2>2, <2>4, <3>1, Sorted
        <4> HIDE DEF c, card
        <4>2. \A j \in 1..c : j \in 1..card
          BY <2>8
        <4> QED
          BY <2>5, <4>1, <4>2
      <3> QED
        BY <1>3, <2>2, <2>3, <2>4, <2>5, <2>6, <3>1, <3>2, FirstShown
    <2> HIDE DEF c, card
    <2>10. /\ rows' \in Seq(ToSet(rows')) /\ Len(rows') <= card
           /\ \A n \in 1..Len(rows') : rows'[n].kind \in {"branch", "more"}
      <3> DEFINE new == rows'
                 old == <<>>
      <3>1. old = <<>> /\ Len(old) = 0
        OBVIOUS
      <3> HIDE DEF new, old
      <3>2. RowsAre(new, old, "branch", t, "heads", c, card)
        BY <2>7 DEF new, old
      <3>3. /\ new \in Seq(ToSet(new)) /\ Len(new) - Len(old) <= card
            /\ Len(new) = Len(old) + c + (IF c < card THEN 1 ELSE 0)
            /\ \A n \in 1..c : new[Len(old) + n] = [kind |-> "branch", name |-> t[n]]
            /\ c < card => new[Len(old) + c + 1] = [kind |-> "more", name |-> <<"heads">>]
        BY <3>2 DEF RowsAre
      <3>4. ASSUME NEW n \in 1..Len(new) PROVE new[n].kind \in {"branch", "more"}
        <4>1. CASE n \in 1..c
          <5>1. new[Len(old) + n] = [kind |-> "branch", name |-> t[n]] /\ Len(old) + n = n
            BY <2>8, <3>1, <3>3, <4>1
          <5> QED
            BY <5>1
        <4>2. CASE n \notin 1..c
          <5>1. n = Len(old) + c + 1 /\ c < card
            BY <2>8, <3>1, <3>3, <4>2
          <5> QED
            BY <3>3, <5>1
        <4> QED
          BY <4>1, <4>2
      <3> QED
        BY <2>8, <3>1, <3>3, <3>4 DEF new
    <2>11. IntHeads' => ShowsHeads'
      BY <1>1, <1>3, <2>1, <2>9 DEF ShowsHeads, Shows, max
    <2>12. TypeOK'
      <3>1. Len(rows') <= Cardinality(DOMAIN was'.heads) + Cardinality(DOMAIN was'.tags)
        BY <1>2, <2>1, <2>8, <2>10 DEF card
      <3> QED
        BY <1>1, <3>1 DEF RowsInv, ListsInv, TypeOK
    <2>13. NewestShown'
      BY <1>1, <2>11 DEF NewestShown, ShowsTags
    <2> QED
      BY <1>1, <1>2, <2>1, <2>10, <2>11, <2>12, <2>13 DEF RowsInv, ListsInv, card
  <1> QED
    BY <1>4, <1>5

\* The tags do not change what is shown of the branches.
LEMMA ShowsStill ==
  ASSUME NEW old, NEW new, NEW t, NEW c, NEW card \in Nat, c \in 0..card,
         RowsAre(new, old, "tag", t, "tags", c, card),
         NEW of, NEW date, NEW max, Shows(old, "branch", of, date, max)
  PROVE  Shows(new, "branch", of, date, max)
  <1>1. /\ Len(old) \in Nat /\ \A n \in 1..Len(old) : new[n] = old[n]
        /\ Len(new) = Len(old) + c + (IF c < card THEN 1 ELSE 0)
        /\ \A n \in 1..c : new[Len(old) + n] = [kind |-> "tag", name |-> t[n]]
        /\ c < card => new[Len(old) + c + 1] = [kind |-> "more", name |-> <<"tags">>]
    BY DEF RowsAre
  <1>2. ASSUME NEW n \in At(new, "branch") PROVE n \in 1..Len(old)
    <2>1. n \in 1..Len(new) /\ new[n].kind = "branch"
      BY DEF At
    <2>2. CASE n \in (Len(old) + 1)..(Len(old) + c)
      <3>1. n - Len(old) \in 1..c /\ Len(old) + (n - Len(old)) = n
        BY <1>1, <2>2
      <3>2. new[Len(old) + (n - Len(old))] = [kind |-> "tag", name |-> t[n - Len(old)]]
        BY <1>1, <3>1
      <3>3. new[n] = [kind |-> "tag", name |-> t[n - Len(old)]]
        BY <3>1, <3>2
      <3> QED
        BY <2>1, <3>3
    <2>3. CASE n \notin 1..(Len(old) + c)
      <3>1. n = Len(old) + c + 1 /\ c < card
        BY <1>1, <2>1, <2>3
      <3> QED
        BY <1>1, <2>1, <3>1
    <2> QED
      BY <1>1, <2>1, <2>2, <2>3
  <1>3. 1..Len(old) \subseteq 1..Len(new)
    BY <1>1
  <1>4. At(new, "branch") = At(old, "branch")
    BY <1>1, <1>2, <1>3 DEF At
  <1>5. At(old, "more") \subseteq At(new, "more")
    BY <1>1, <1>3 DEF At
  <1>6. \A n \in At(old, "branch") \cup At(old, "more") : new[n] = old[n]
    BY <1>1 DEF At
  <1> DEFINE at == At(old, "branch")
  <1>7. {new[n].name : n \in at} = {old[n].name : n \in at}
    BY <1>6
  <1> QED
    BY <1>4, <1>5, <1>6, <1>7 DEF Shows

LEMMA TagsList ==
  ASSUME RowsInv, PrintTags
  PROVE  RowsInv'
  <1> DEFINE max  == LimitOf("tags")
             date == AgeOf(tags)
             c    == Cut(max, tags)
             card == Cardinality(DOMAIN tags)
  <1>1. /\ step = "tags" /\ asked.page \in {"summary", "refs"} /\ asked' = asked /\ conf' = conf
        /\ tags' = tags /\ heads' = heads /\ step' = "done"
        /\ format' = format /\ sig' = sig /\ pushes' = pushes
        /\ was' = [tags |-> tags, heads |-> was.heads]
    BY DEF PrintTags, RowsInv, repo, snap
  <1>2. /\ rows \in Seq(ToSet(rows)) /\ Len(rows) <= Cardinality(DOMAIN was.heads)
        /\ \A n \in 1..Len(rows) : rows[n].kind \in {"branch", "more"}
        /\ IntHeads => ShowsHeads
    BY <1>1 DEF RowsInv
  <1>3. max \in Nat /\ max' = max
    BY <1>1 DEF LimitOf, RowsInv
  <1>4. IsFiniteSet(DOMAIN tags) /\ \A n \in DOMAIN tags : tags[n].date \in Nat
    BY DEF RowsInv, HaveDates
  <1>5. DOMAIN date = DOMAIN tags /\ (IntTags' => \A n \in DOMAIN date : date[n] \in 0..IntMax)
    <2>1. IntTags' <=> \A n \in DOMAIN tags : tags[n].date <= IntMax
      BY <1>1 DEF IntTags
    <2> QED
      BY <1>4, <2>1, AgesAre
  <1>6. PICK s \in ByAge(date) :
          rows' = rows \o RowsOf("tag", SubSeq(s, 1, c)) \o More("tags", max, tags)
    BY DEF PrintTags, TagDate
  <1> DEFINE t == SubSeq(s, 1, c)
  <1>7. rows' = Listed(rows, "tag", t, "tags", max, tags)
    BY <1>6 DEF Listed
  <1> HIDE DEF max
  <1>8. /\ card \in Nat /\ c \in 0..card /\ Cardinality(DOMAIN was.heads) \in Nat
        /\ s \in SetToSeqs(DOMAIN date) /\ Cardinality(DOMAIN date) = card
    BY <1>3, <1>4, <1>5, CutIs, Counted DEF ByAge, RowsInv
  <1>9. /\ Len(t) = c /\ DOMAIN t = 1..c /\ ToSet(t) = {s[k] : k \in 1..c}
        /\ \A j, k \in 1..c : j < k => t[j] # t[k]
        /\ \A k \in 1..c : t[k] = s[k]
    <2> DEFINE D == DOMAIN date
    <2>1. IsFiniteSet(D) /\ s \in SetToSeqs(D) /\ c \in 0..Cardinality(D)
      BY <1>4, <1>5, <1>8
    <2> HIDE DEF D, c
    <2>2. /\ t \in Seq(D) /\ Len(t) = c /\ ToSet(t) = {s[k] : k \in 1..c}
          /\ \A k \in 1..c : t[k] = s[k]
      BY <2>1, FirstOf
    <2>3. Cardinality(D) \in Nat /\ \A j, k \in 1..Cardinality(D) : j # k => s[j] # s[k]
      BY <2>1, Permuted
    <2> HIDE DEF t
    <2>4. \A j, k \in 1..c : j < k => t[j] # t[k]
      <3> SUFFICES ASSUME NEW j \in 1..c, NEW k \in 1..c, j < k PROVE t[j] # t[k]
        OBVIOUS
      <3>1. j \in 1..Cardinality(D) /\ k \in 1..Cardinality(D) /\ j # k
        BY <2>1, <2>3
      <3> QED
        BY <2>2, <2>3, <3>1
    <2> QED
      BY <2>2, <2>4
  <1>10. RowsAre(rows', rows, "tag", t, "tags", c, card)
    BY <1>2, <1>3, <1>4, <1>7, <1>9, ListedAt
  <1>11. IntTags' => Shows(rows', "tag", "tags", date, max)
    <2> SUFFICES ASSUME IntTags' PROVE Shows(rows', "tag", "tags", date, max)
      OBVIOUS
    <2>1. \A j, k \in 1..c : j < k =>
            /\ t[j] # t[k]
            /\ IF "tag" = "branch" /\ ~conf.byAge THEN Before(t[j], t[k]) ELSE date[t[k]] <= date[t[j]]
      <3>1. \A j, k \in 1..card : j < k => date[s[k]] <= date[s[j]]
        <4> DEFINE D == date
        <4>1. IsFiniteSet(DOMAIN D) /\ (\A n \in DOMAIN D : D[n] \in 0..IntMax) /\ s \in ByAge(D) /\ Cardinality(DOMAIN D) = card
          BY <1>4, <1>5, <1>6, <1>8
        <4> HIDE DEF D, card
        <4>2. \A j, k \in 1..card : j < k => D[s[k]] <= D[s[j]]
          BY <4>1, Sorted
        <4> QED
          BY <4>2 DEF D
      <3> HIDE DEF c, card, t, date
      <3>2. \A j \in 1..c : j \in 1..card
        BY <1>8
      <3> QED
        BY <1>9, <3>1, <3>2
    <2>2. \A n \in 1..Len(rows) : rows[n].kind # "tag"
      BY <1>2
    <2>3. "tag" \in {"branch", "tag"} /\ \A n \in DOMAIN date : date[n] \in 0..IntMax
      BY <1>5
    <2> HIDE DEF date, t
    <2>4. Shows(Listed(rows, "tag", t, "tags", max, tags), "tag", "tags", date, max)
      BY <1>2, <1>3, <1>4, <1>5, <1>6, <1>9, <2>1, <2>2, <2>3, FirstShown
    <2> QED
      BY <1>7, <2>4
  <1> HIDE DEF c, card, t, date
  <1>12. /\ Len(rows) \in Nat /\ \A n \in 1..Len(rows) : rows'[n] = rows[n]
         /\ Len(rows') = Len(rows) + c + (IF c < card THEN 1 ELSE 0) /\ Len(rows') - Len(rows) <= card
         /\ \A n \in 1..c : rows'[Len(rows) + n] = [kind |-> "tag", name |-> t[n]]
         /\ c < card => rows'[Len(rows) + c + 1] = [kind |-> "more", name |-> <<"tags">>]
    BY <1>10 DEF RowsAre
  <1>13. (IntHeads => ShowsHeads)'
    <2>1. IntHeads' <=> IntHeads
      BY <1>1 DEF IntHeads
    <2>2. LimitOf("heads")' = LimitOf("heads") /\ was'.heads = was.heads
      BY <1>1 DEF LimitOf
    <2> DEFINE lim == LimitOf("heads")
    <2>3. ASSUME Shows(rows, "branch", "heads", was.heads, lim) PROVE Shows(rows', "branch", "heads", was.heads, lim)
      BY <1>2, <1>8, <1>10, <2>3, ShowsStill
    <2> QED
      BY <1>1, <1>2, <2>1, <2>2, <2>3 DEF ShowsHeads, Shows
  <1>14. TypeOK'
    <2>1. Len(rows') <= Cardinality(DOMAIN was'.heads) + Cardinality(DOMAIN was'.tags)
      <3>1. Cardinality(DOMAIN was'.heads) = Cardinality(DOMAIN was.heads) /\ Cardinality(DOMAIN was'.tags) = card
        BY <1>1 DEF card
      <3> QED
        BY <1>2, <1>8, <1>12, <3>1
    <2> QED
      BY <1>1, <2>1 DEF RowsInv, ListsInv, TypeOK
  <1>15. (IntTags => ShowsTags)'
    BY <1>1, <1>3, <1>11 DEF ShowsTags, Shows, max, date
  <1>16. NewestShown'
    BY <1>13, <1>15 DEF NewestShown
  <1>17. HaveDates(was'.tags, was'.heads)
    BY <1>1 DEF RowsInv, HaveDates
  <1> QED
    BY <1>1, <1>14, <1>16, <1>17 DEF RowsInv, ListsInv

THEOREM RowsInvariant == Spec => []RowsInv
  <1>1. Init => RowsInv
    <2> SUFFICES ASSUME Init PROVE RowsInv
      OBVIOUS
    <2>1. PICK r \in Repos : tags = r.tags /\ heads = r.heads /\ conf = r.conf
      BY DEF Init
    <2>2. HaveDates(tags, heads) /\ conf.branches \in Nat /\ conf.tags \in Nat
      BY <2>1, ReposAssumption
    <2>3. /\ was = [tags |-> tags, heads |-> heads] /\ rows = <<>> /\ step = "begin"
          /\ format = 0 /\ sig = FALSE /\ pushes = 0
      BY DEF Init
    <2>4. Cardinality(DOMAIN heads) \in Nat /\ Cardinality(DOMAIN tags) \in Nat
      BY <2>2, Counted
    <2>5. 0 \in 0..Len(Formats) /\ 0 \in 0..MaxPushes
      <3>1. MaxPushes \in Nat
        BY RefsAssumption
      <3> QED
        BY <3>1, SevenFormats
    <2>6. Len(rows) <= Cardinality(DOMAIN was.heads) + Cardinality(DOMAIN was.tags)
      BY <2>3, <2>4
    <2>7. TypeOK /\ NewestShown
      BY <2>3, <2>5, <2>6 DEF TypeOK, NewestShown
    <2> QED
      BY <2>2, <2>3, <2>7 DEF RowsInv, ListsInv
  <1>2. RowsInv /\ [Next]_vars => RowsInv'
    <2> SUFFICES ASSUME RowsInv, [Next]_vars PROVE RowsInv'
      OBVIOUS
    <2>1. CASE UNCHANGED vars
      BY <2>1 DEF vars, repo, snap, RowsInv, ListsInv, TypeOK, NewestShown, IntHeads, IntTags, ShowsHeads, ShowsTags, Shows, LimitOf
    <2>2. CASE PrintBranches
      BY <2>2, BranchesList
    <2>3. CASE PrintTags
      BY <2>3, TagsList
    <2>4. CASE PrintTag \/ PrintCommit
      BY <2>4, PagesList
    <2>5. CASE PrintSnapshot \/ TryWhole \/ TryRest \/ TrySmallV \/ TryBigV \/ Write
      BY <2>5, SnapshotsList
    <2>6. CASE ClickLink \/ ClickTag \/ ClickMore
      BY <2>6, ClicksList
    <2>7. CASE Push
      BY <2>7, PushLists
    <2> QED
      BY <2>1, <2>2, <2>3, <2>4, <2>5, <2>6, <2>7 DEF Next
  <1> QED
    BY <1>1, <1>2, PTL DEF Spec

\* Whatever the references, limits and orders, a list that is cut leaves out
\* nothing newer than what it shows, and links to the rest: cgit_print_branches()
\* sorts by age before it cuts, and by name only what is left (ui-refs.c:169-174).
THEOREM ListsShowNewest == Spec => []ListsInv
  <1>1. RowsInv => ListsInv
    BY DEF RowsInv
  <1> QED
    BY <1>1, RowsInvariant, PTL
=============================================================================
