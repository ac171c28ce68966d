---------------------------- MODULE FilterProofs ----------------------------
(***************************************************************************)
(* Proofs about Filter, for every page, every command and every size of a  *)
(* pipe.  In any request one filter is open at a time besides those it     *)
(* has died in, and the assertion of hook_write() fails only on an error   *)
(* page.  In a request that does not die, what is printed is neither lost, *)
(* doubled nor overtaken on its way through the buffer, the pipe and the   *)
(* filters, and the whole page is put out.                                 *)
(***************************************************************************)
EXTENDS Filter, SequenceTheorems, TLAPS

-----------------------------------------------------------------------------
(* Chunks and sequences of chunks *)

\* A filter changes what a chunk went through, and not where it is.
LEMMA FilteredChunk ==
  ASSUME NEW s \in Nat, NEW c \in Chunks
  PROVE  /\ Filtered(s, c) \in Chunks
         /\ Filtered(s, c).at = c.at
         /\ Filtered(s, c).by = Append(c.by, s)
  <1>1. c.at \in Nat \X Nat /\ c.by \in Seq(Nat) /\ c = [at |-> c.at, by |-> c.by]
    BY DEF Chunks
  <1>2. Filtered(s, c) = [at |-> c.at, by |-> Append(c.by, s)]
    <2>1. \A x, y, b : [[at |-> x, by |-> y] EXCEPT !.by = b] = [at |-> x, by |-> b]
      OBVIOUS
    <2>2. Filtered(s, c) = [[at |-> c.at, by |-> c.by] EXCEPT !.by = Append(c.by, s)]
      BY <1>1, Zenon DEF Filtered
    <2> QED
      BY <2>1, <2>2
  <1>3. Append(c.by, s) \in Seq(Nat)
    BY <1>1
  <1> QED
    BY <1>1, <1>2, <1>3 DEF Chunks

\* All() filters every chunk of a sequence, in its place.
LEMMA AllChunks ==
  ASSUME NEW s \in Nat, NEW cs \in Seq(Chunks)
  PROVE  /\ All(s, cs) \in Seq(Chunks)
         /\ Len(All(s, cs)) = Len(cs)
         /\ \A i \in 1..Len(cs) : All(s, cs)[i] = Filtered(s, cs[i])
  <1>1. \A i \in 1..Len(cs) : Filtered(s, cs[i]) \in Chunks
    BY FilteredChunk
  <1>2. All(s, cs) \in [1..Len(cs) -> Chunks]
    BY <1>1 DEF All
  <1>3. All(s, cs) \in Seq(Chunks) /\ Len(All(s, cs)) = Len(cs)
    BY <1>2, SeqDef
  <1> QED
    BY <1>3 DEF All

LEMMA AllEmpty == \A s : All(s, <<>>) = <<>>
  BY DEF All

LEMMA AllAppend ==
  ASSUME NEW s \in Nat, NEW cs \in Seq(Chunks), NEW c \in Chunks
  PROVE  All(s, Append(cs, c)) = Append(All(s, cs), Filtered(s, c))
  <1> DEFINE l == All(s, Append(cs, c))
             r == Append(All(s, cs), Filtered(s, c))
  <1>a. /\ Append(cs, c) \in Seq(Chunks) /\ Len(Append(cs, c)) = Len(cs) + 1
        /\ \A i \in 1..Len(cs) : Append(cs, c)[i] = cs[i]
        /\ Append(cs, c)[Len(cs) + 1] = c
        /\ Len(cs) \in Nat
    BY AppendProperties
  <1>b. Filtered(s, c) \in Chunks
    BY FilteredChunk
  <1>c. /\ All(s, cs) \in Seq(Chunks) /\ Len(All(s, cs)) = Len(cs)
        /\ \A i \in 1..Len(cs) : All(s, cs)[i] = Filtered(s, cs[i])
    BY AllChunks
  <1>d. /\ r \in Seq(Chunks) /\ Len(r) = Len(cs) + 1
        /\ \A i \in 1..Len(cs) : r[i] = Filtered(s, cs[i])
        /\ r[Len(cs) + 1] = Filtered(s, c)
    BY <1>b, <1>c, AppendProperties
  <1>e. /\ l \in Seq(Chunks) /\ Len(l) = Len(cs) + 1
        /\ \A i \in 1..(Len(cs) + 1) : l[i] = Filtered(s, Append(cs, c)[i])
    BY <1>a, AllChunks
  <1> HIDE DEF l, r
  <1>1. ASSUME NEW i \in 1..(Len(cs) + 1) PROVE l[i] = r[i]
    <2>1. CASE i = Len(cs) + 1
      BY <2>1, <1>a, <1>d, <1>e
    <2>2. CASE i # Len(cs) + 1
      <3>1. i \in 1..Len(cs)
        BY <2>2, <1>a
      <3> QED
        BY <3>1, <1>a, <1>d, <1>e
    <2> QED
      BY <2>1, <2>2
  <1>2. l = r
    BY <1>1, <1>d, <1>e, SeqEqual
  <1> QED
    BY <1>2 DEF l, r

\* A sequence is its first chunk and the rest of it.
LEMMA Take ==
  ASSUME NEW S, NEW cs \in Seq(S), cs # <<>>
  PROVE  /\ Head(cs) \in S /\ Tail(cs) \in Seq(S)
         /\ cs = <<Head(cs)>> \o Tail(cs)
  <1>1. Head(cs) \in S /\ Tail(cs) \in Seq(S) /\ Len(Tail(cs)) = Len(cs) - 1
    BY HeadTailProperties
  <1> DEFINE r == <<Head(cs)>> \o Tail(cs)
  <1>2. r \in Seq(S) /\ Len(r) = Len(cs)
    BY <1>1
  <1>3. \A i \in 1..Len(cs) : r[i] = cs[i]
    BY <1>1, HeadTailProperties
  <1> QED
    BY <1>2, <1>3, SeqEqual

LEMMA AllTake ==
  ASSUME NEW s \in Nat, NEW cs \in Seq(Chunks), cs # <<>>
  PROVE  All(s, cs) = <<Filtered(s, Head(cs))>> \o All(s, Tail(cs))
  <1> DEFINE h == <<Filtered(s, Head(cs))>>
             l == All(s, cs)
             t == All(s, Tail(cs))
             r == h \o t
  <1>a. /\ Head(cs) \in Chunks /\ Tail(cs) \in Seq(Chunks) /\ Len(Tail(cs)) = Len(cs) - 1
        /\ \A i \in 1..Len(Tail(cs)) : Tail(cs)[i] = cs[i + 1]
        /\ Head(cs) = cs[1] /\ Len(cs) \in Nat \ {0}
    BY HeadTailProperties, EmptySeq
  <1>b. h \in Seq(Chunks) /\ Len(h) = 1 /\ h[1] = Filtered(s, cs[1])
    BY <1>a, FilteredChunk
  <1>c. /\ t \in Seq(Chunks) /\ Len(t) = Len(cs) - 1
        /\ \A i \in 1..(Len(cs) - 1) : t[i] = Filtered(s, Tail(cs)[i])
    BY <1>a, AllChunks
  <1>d. /\ l \in Seq(Chunks) /\ Len(l) = Len(cs)
        /\ \A i \in 1..Len(cs) : l[i] = Filtered(s, cs[i])
    BY AllChunks
  <1> HIDE DEF h, t, l
  <1>e. /\ r \in Seq(Chunks) /\ Len(r) = Len(cs)
        /\ \A i \in 1..Len(cs) : r[i] = IF i <= 1 THEN h[i] ELSE t[i - 1]
    <2>1. Len(h) + Len(t) = Len(cs)
      BY <1>a, <1>b, <1>c
    <2>2. /\ h \o t \in Seq(Chunks) /\ Len(h \o t) = Len(h) + Len(t)
          /\ \A i \in 1..(Len(h) + Len(t)) :
               (h \o t)[i] = IF i <= Len(h) THEN h[i] ELSE t[i - Len(h)]
      BY <1>b, <1>c, ConcatProperties
    <2> QED
      BY <2>1, <2>2, <1>b
  <1> HIDE DEF r
  <1>1. ASSUME NEW i \in 1..Len(cs) PROVE l[i] = r[i]
    <2>1. CASE i = 1
      BY <2>1, <1>b, <1>d, <1>e
    <2>2. CASE i # 1
      <3>1. i - 1 \in 1..(Len(cs) - 1) /\ (i - 1) + 1 = i
        BY <2>2, <1>a
      <3>2. t[i - 1] = Filtered(s, Tail(cs)[i - 1]) /\ Tail(cs)[i - 1] = cs[i]
        BY <3>1, <1>a, <1>c
      <3> QED
        BY <2>2, <3>2, <1>a, <1>d, <1>e
    <2> QED
      BY <2>1, <2>2
  <1>2. l = r
    BY <1>1, <1>d, <1>e, SeqEqual
  <1> QED
    BY <1>2 DEF l, r, h, t

\* A chunk at the end of one sequence or at the front of the next.
LEMMA ChunksShift ==
  ASSUME NEW a \in Seq(Chunks), NEW b \in Seq(Chunks), NEW e \in Chunks
  PROVE  /\ Append(a, e) \o b = a \o (<<e>> \o b)
         /\ Append(a \o b, e) = a \o Append(b, e)
  <1>1. <<e>> \in Seq(Chunks)
    OBVIOUS
  <1>2. Append(a, e) = a \o <<e>> /\ Append(b, e) = b \o <<e>>
    BY AppendIsConcat
  <1>3. a \o b \in Seq(Chunks) /\ Append(a \o b, e) = (a \o b) \o <<e>>
    BY AppendIsConcat, ConcatProperties
  <1>4. \A x, y, z \in Seq(Chunks) : (x \o y) \o z = x \o (y \o z)
    BY ConcatAssociative
  <1>5. (a \o <<e>>) \o b = a \o (<<e>> \o b)
    BY <1>1, <1>4
  <1>6. (a \o b) \o <<e>> = a \o (b \o <<e>>)
    BY <1>1, <1>4
  <1> QED
    BY <1>2, <1>3, <1>5, <1>6

LEMMA ChunksJoin ==
  ASSUME NEW a \in Seq(Chunks), NEW b \in Seq(Chunks), NEW c \in Seq(Chunks)
  PROVE  /\ a \o b \o c = a \o (b \o c)
         /\ a \o b \in Seq(Chunks)
         /\ a \o <<>> = a /\ <<>> \o a = a
  <1>1. a \o b \o c = a \o (b \o c)
    BY ConcatAssociative
  <1>2. a \o b \in Seq(Chunks)
    BY ConcatProperties
  <1>3. a \o <<>> = a /\ <<>> \o a = a
    BY ConcatEmptySeq
  <1> QED
    BY <1>1, <1>2, <1>3

\* The same, one by one.
LEMMA Join == \A a, b, c \in Seq(Chunks) : a \o b \o c = a \o (b \o c)
  BY ConcatAssociative
LEMMA JoinNone == \A a \in Seq(Chunks) : a \o <<>> = a /\ <<>> \o a = a
  BY ConcatEmptySeq
LEMMA ShiftLast ==
  \A a, b \in Seq(Chunks) : \A e \in Chunks : Append(a \o b, e) = a \o Append(b, e)
  BY ChunksShift
LEMMA ShiftFirst ==
  \A a, b \in Seq(Chunks) : \A e \in Chunks : Append(a, e) \o b = a \o (<<e>> \o b)
  BY ChunksShift

-----------------------------------------------------------------------------
(* The process: types, and which filter is open *)

LEMMA PageShape ==
  ASSUME TypeOK
  PROVE  /\ Len(page) \in Nat /\ Segs = 1..Len(page)
         /\ \A s \in Segs : page[s].len \in Nat
         /\ None \notin Segs /\ None # 0
         /\ \A s \in Segs : s \in Nat /\ s # 0
  <1>1. page \in Seq([cmd : Commands, len : Nat])
    BY DEF TypeOK
  <1>2. Len(page) \in Nat /\ Segs = 1..Len(page)
    BY <1>1 DEF Segs
  <1>3. \A s \in Segs : page[s] \in [cmd : Commands, len : Nat]
    BY <1>1, <1>2, ElementOfSeq
  <1>4. \A s \in Segs : page[s].len \in Nat
    BY <1>3
  <1> QED
    BY <1>2, <1>4, FilterAssumption

\* What is printed is a chunk wherever it goes.
LEMMA PutType ==
  ASSUME TypeOK, NEW c \in Chunks, Put(c)
  PROVE  {buf', held', printed'} \subseteq Seq(Chunks)
  <1>1. seg \in Nat /\ (hook # None => hook \in Nat)
    <2>1. seg \in 1..(Len(page) + 1) /\ hook \in Segs \cup {None}
      BY DEF TypeOK
    <2> QED
      BY <2>1, PageShape
  <1>2. buf \in Seq(Chunks) /\ held \in Seq(Chunks) /\ printed \in Seq(Chunks)
    BY DEF TypeOK
  <1>3. printed' \in Seq(Chunks)
    BY <1>1, <1>2, FilteredChunk, AppendProperties DEF Put
  <1>4. CASE hook = None
    <2>1. buf' = Append(buf, c) /\ held' = held
      BY <1>4 DEF Put
    <2>2. Append(buf, c) \in Seq(Chunks)
      BY <1>2
    <2> QED
      BY <1>2, <1>3, <2>1, <2>2
  <1>5. CASE hook # None
    <2> DEFINE kept == Append(held, Filtered(hook, c))
    <2>1. kept \in Seq(Chunks) /\ <<>> \in Seq(Chunks)
      BY <1>1, <1>2, <1>5, FilteredChunk, AppendProperties
    <2>2. buf \o kept \in Seq(Chunks)
      BY <1>2, <2>1, ConcatProperties
    <2>3. \/ held' = <<>> /\ buf' = buf \o kept
          \/ held' = kept /\ buf' = buf
      BY <1>5 DEF Put, ToScript
    <2> QED
      BY <1>2, <1>3, <2>1, <2>2, <2>3
  <1> QED
    BY <1>4, <1>5

LEMMA ChunkType ==
  /\ Error \in Chunks
  /\ \A s, k \in Nat : Chunk(s, k) \in Chunks
  BY DEF Error, Chunk, Chunks

LEMMA InitProcess == Init => TypeOK /\ FilterInv
  <1> SUFFICES ASSUME Init PROVE TypeOK /\ FilterInv
    OBVIOUS
  <1>1. page \in Seq([cmd : Commands, len : Nat])
    BY PagesAssumption DEF Init
  <1>2. Len(page) \in Nat /\ Segs = 1..Len(page)
    BY <1>1 DEF Segs
  <1>3. \A s \in Segs : page[s] \in [cmd : Commands, len : Nat]
    BY <1>1, <1>2, ElementOfSeq
  <1>0. \A s \in Segs : page[s].len \in Nat
    BY <1>3
  <1>4. <<>> \in Seq(Chunks) /\ Len(<<>>) = 0 /\ PipeSize \in Nat /\ MaxDies \in Nat
    BY FilterAssumption
  <1>5. TypeOK
    BY <1>1, <1>2, <1>4 DEF Init, TypeOK
  <1>6. FilterInv
    <2>1. Len(page) = 0 => 1 \notin Segs
      BY <1>2
    <2> QED
      BY <1>0, <2>1 DEF Init, FilterInv, Redirected, Here
  <1> QED
    BY <1>5, <1>6

\* The error page goes behind what there is; its three segments are plain or
\* for the owner filter.
LEMMA ErrorPageBehind ==
  ASSUME TypeOK, page' = page \o ErrorPage
  PROVE  /\ page' \in Seq([cmd : Commands, len : Nat])
         /\ Len(page') = Len(page) + 3 /\ Segs' = 1..(Len(page) + 3)
         /\ \A s \in Segs : s \in Segs' /\ page'[s] = page[s]
         /\ \A s \in Segs' : s > Len(page) => page'[s].cmd \in {None, owner} /\ page'[s].len \in Nat
  <1> DEFINE e == ErrorPage
  <1>1. /\ page \in Seq([cmd : Commands, len : Nat]) /\ Len(page) \in Nat
        /\ Segs = 1..Len(page)
    BY PageShape DEF TypeOK
  <1>2. /\ e \in Seq([cmd : Commands, len : Nat]) /\ Len(e) = 3
        /\ \A i \in 1..3 : e[i].cmd \in {None, owner} /\ e[i].len \in Nat
    <2>1. None \in Commands /\ owner \in Commands
      BY FilterAssumption DEF TypeOK
    <2> DEFINE plain == [cmd |-> None, len |-> 1]
               own   == [cmd |-> owner, len |-> 1]
    <2>2. plain \in [cmd : Commands, len : Nat] /\ own \in [cmd : Commands, len : Nat]
      BY <2>1
    <2>3. e = <<plain, own, plain>>
      BY DEF ErrorPage
    <2>4. plain.cmd = None /\ own.cmd = owner /\ plain.len = 1 /\ own.len = 1
      OBVIOUS
    <2> HIDE DEF plain, own, e
    <2> QED
      BY <2>2, <2>3, <2>4
  <1> HIDE DEF e
  <1>3. page' = page \o e
    BY DEF e
  <1>4. /\ page' \in Seq([cmd : Commands, len : Nat]) /\ Len(page') = Len(page) + 3
        /\ \A i \in 1..(Len(page) + 3) :
             page'[i] = IF i <= Len(page) THEN page[i] ELSE e[i - Len(page)]
    <2> DEFINE S == [cmd : Commands, len : Nat]
    <2>1. page \in Seq(S) /\ e \in Seq(S)
      BY <1>1, <1>2
    <2> HIDE DEF S
    <2>2. /\ page \o e \in Seq(S) /\ Len(page \o e) = Len(page) + Len(e)
          /\ \A i \in 1..(Len(page) + Len(e)) :
               (page \o e)[i] = IF i <= Len(page) THEN page[i] ELSE e[i - Len(page)]
      BY <2>1, ConcatProperties
    <2>3. /\ page' \in Seq(S) /\ Len(page') = Len(page) + 3
          /\ \A i \in 1..(Len(page) + 3) :
               page'[i] = IF i <= Len(page) THEN page[i] ELSE e[i - Len(page)]
      BY <1>2, <1>3, <2>2, Zenon
    <2> QED
      BY <2>3 DEF S
  <1>5. Segs' = 1..(Len(page) + 3)
    BY <1>1, <1>4 DEF Segs
  <1>6. \A s \in Segs : s \in Segs' /\ page'[s] = page[s]
    BY <1>1, <1>4, <1>5
  <1>7. ASSUME NEW s \in Segs', s > Len(page)
        PROVE  page'[s].cmd \in {None, owner} /\ page'[s].len \in Nat
    <2>1. s \in 1..(Len(page) + 3) /\ Len(page) \in Nat /\ s > Len(page)
      BY <1>1, <1>5, <1>7
    <2>2. s - Len(page) \in 1..3 /\ page'[s] = e[s - Len(page)]
      BY <1>4, <2>1
    <2> QED
      BY <1>2, <2>2
  <1> QED
    BY <1>4, <1>5, <1>6, <1>7

\* cgit_die_routine(), wherever it is called from.
LEMMA ErrorPageProcess ==
  ASSUME TypeOK, FilterInv, seg \in Segs, PrintErrorPage
  PROVE  TypeOK' /\ FilterInv'
  <1>a. /\ Len(page) \in Nat /\ Segs = 1..Len(page)
        /\ None \notin Segs /\ None # 0 /\ \A s \in Segs : s \in Nat /\ s # 0
        /\ <<>> \in Seq(Chunks) /\ Len(<<>>) = 0 /\ PipeSize \in Nat /\ MaxDies \in Nat
    BY PageShape, FilterAssumption
  <1>1. /\ page' \in Seq([cmd : Commands, len : Nat])
        /\ Len(page') = Len(page) + 3 /\ Segs' = 1..(Len(page) + 3)
        /\ \A s \in Segs : s \in Segs' /\ page'[s] = page[s]
        /\ \A s \in Segs' : s > Len(page) => page'[s].cmd \in {None, owner} /\ page'[s].len \in Nat
    BY ErrorPageBehind DEF PrintErrorPage
  <1>2. /\ owner' = owner /\ deaths' = deaths + 1 /\ deaths < MaxDies
        /\ leaked' \subseteq leaked \cup {seg} /\ leaked \subseteq leaked'
        /\ saved # None => seg \in leaked'
        /\ seg' = Len(page) + 1 /\ pos' = 0 /\ state' = "run" /\ saved' = None
        /\ UNCHANGED <<buf, fd1, hook, held, out, printed>>
    BY DEF PrintErrorPage, filters
  <1>3. /\ pipe' = [c \in Segs' |-> IF c \in Segs THEN pipe[c] ELSE <<>>]
        /\ cheld' = [c \in Segs' |-> IF c \in Segs THEN cheld[c] ELSE <<>>]
        /\ child' = [c \in Segs' |-> IF c \in Segs THEN child[c] ELSE "none"]
        /\ sink' = [c \in Segs' |-> IF c \in Segs THEN sink[c] ELSE 0]
    BY DEF PrintErrorPage, Grown, Segs, TypeOK
  <1>4. /\ pipe' \in [Segs' -> Seq(Chunks)] /\ \A c \in Segs' : Len(pipe'[c]) <= PipeSize
        /\ cheld' \in [Segs' -> Seq(Chunks)]
        /\ child' \in [Segs' -> {"none", "forked", "running", "ended", "failed", "killed"}]
        /\ sink' \in [Segs' -> {0} \cup Segs']
    <2>1. /\ \A c \in Segs : /\ pipe[c] \in Seq(Chunks) /\ Len(pipe[c]) <= PipeSize
                             /\ cheld[c] \in Seq(Chunks) /\ sink[c] \in {0} \cup Segs
                             /\ child[c] \in {"none", "forked", "running", "ended", "failed", "killed"}
      BY DEF TypeOK
    <2>2. pipe' \in [Segs' -> Seq(Chunks)] /\ cheld' \in [Segs' -> Seq(Chunks)]
      BY <1>a, <1>3, <2>1
    <2>3. \A c \in Segs' : Len(pipe'[c]) <= PipeSize
      BY <1>a, <1>3, <2>1
    <2>4. child' \in [Segs' -> {"none", "forked", "running", "ended", "failed", "killed"}]
      BY <1>3, <2>1
    <2>5. sink' \in [Segs' -> {0} \cup Segs']
      <3>1. \A c \in Segs : sink[c] \in {0} \cup Segs'
        BY <1>1, <2>1
      <3> QED
        BY <1>3, <3>1
    <2> QED
      BY <2>2, <2>3, <2>4, <2>5
  <1>5. deaths' \in 0..MaxDies /\ leaked' \subseteq Segs'
    <2>1. deaths \in 0..MaxDies /\ leaked \subseteq Segs
      BY DEF TypeOK
    <2>2. deaths' \in 0..MaxDies
      BY <1>a, <1>2, <2>1
    <2>3. Segs \subseteq Segs'
      BY <1>1
    <2> QED
      BY <1>2, <2>1, <2>2, <2>3
  <1>6. TypeOK'
    <2>1. /\ owner' \in Commands /\ fd1' \in {0} \cup Segs /\ hook' \in Segs \cup {None}
          /\ {buf', held', out', printed'} \subseteq Seq(Chunks)
      BY <1>2 DEF TypeOK
    <2>2. seg' \in 1..(Len(page') + 1) /\ pos' \in Nat
      BY <1>a, <1>1, <1>2
    <2>3. fd1' \in {0} \cup Segs' /\ hook' \in Segs' \cup {None}
      BY <1>1, <2>1
    <2> QED
      BY <1>1, <1>2, <1>4, <1>5, <2>1, <2>2, <2>3 DEF TypeOK
  <1>7. \A c \in leaked' : c < seg'
    BY <1>a, <1>2 DEF FilterInv, TypeOK
  <1>8. fd1 \in {0} \cup leaked'
    BY <1>2 DEF FilterInv, Redirected
  <1>9. hook # None => hook <= seg' /\ Kind(page'[hook].cmd) = "lua"
    <2> SUFFICES ASSUME hook # None PROVE hook <= seg' /\ Kind(page'[hook].cmd) = "lua"
      OBVIOUS
    <2>1. hook \in Segs /\ Kind(page[hook].cmd) = "lua"
      BY DEF FilterInv, TypeOK
    <2> QED
      BY <1>a, <1>1, <1>2, <2>1
  <1>10. \A c \in Segs' : sink'[c] \in {0} \cup leaked'
    BY <1>2, <1>3 DEF FilterInv
  <1>11. deaths' # 0 /\ seg' \in Segs' /\ pos' <= page'[seg'].len
    <2>1. deaths \in Nat
      BY DEF TypeOK
    <2>2. seg' \in Segs' /\ seg' > Len(page)
      BY <1>a, <1>1, <1>2
    <2>3. page'[seg'].len \in Nat
      BY <1>1, <2>2
    <2> QED
      BY <1>2, <2>1, <2>2, <2>3
  <1> QED
    BY <1>2, <1>6, <1>7, <1>8, <1>9, <1>10, <1>11 DEF FilterInv, Redirected, Here

\* What a child writes, and who has room for it.
LEMMA EmitsType ==
  ASSUME TypeOK, NEW c \in Segs, NEW chunk \in Chunks, NEW next \in {"running", "failed"},
         Emits(c, chunk, next)
  PROVE  /\ out' \in Seq(Chunks) /\ pipe' \in [Segs -> Seq(Chunks)]
         /\ \A d \in Segs : Len(pipe'[d]) <= PipeSize
         /\ child' \in [Segs -> {"none", "forked", "running", "ended", "failed", "killed"}]
         /\ \E x \in {next, "killed"} : child' = [child EXCEPT ![c] = x]
         /\ \/ pipe' = pipe
            \/ \E d \in Segs : Alive(d) /\ pipe' = [pipe EXCEPT ![d] = Append(@, chunk)]
         /\ sink[c] = 0 => /\ out' = Append(out, chunk) /\ pipe' = pipe
                           /\ child' = [child EXCEPT ![c] = next]
  <1> DEFINE k == sink[c]
  <1>1. /\ out \in Seq(Chunks) /\ pipe \in [Segs -> Seq(Chunks)] /\ k \in {0} \cup Segs
        /\ \A d \in Segs : Len(pipe[d]) <= PipeSize
        /\ child \in [Segs -> {"none", "forked", "running", "ended", "failed", "killed"}]
        /\ PipeSize \in Nat
    BY FilterAssumption DEF TypeOK
  <1>2. Append(out, chunk) \in Seq(Chunks)
    BY <1>1, AppendProperties
  <1>3. CASE k = 0
    BY <1>1, <1>2, <1>3 DEF Emits
  <1>4. CASE k # 0 /\ Alive(k)
    <2>1. k \in Segs /\ out' = out /\ Fits(k) /\ pipe' = [pipe EXCEPT ![k] = Append(@, chunk)]
          /\ child' = [child EXCEPT ![c] = next]
      BY <1>1, <1>4 DEF Emits
    <2>2. /\ Append(pipe[k], chunk) \in Seq(Chunks) /\ Len(pipe[k]) \in Nat
          /\ Len(Append(pipe[k], chunk)) = Len(pipe[k]) + 1
      BY <1>1, <2>1, AppendProperties
    <2>3. Len(Append(pipe[k], chunk)) <= PipeSize
      BY <1>1, <2>1, <2>2 DEF Fits
    <2> HIDE DEF k
    <2>4. pipe' \in [Segs -> Seq(Chunks)] /\ \A d \in Segs : Len(pipe'[d]) <= PipeSize
      BY <1>1, <2>1, <2>2, <2>3
    <2>5. child' \in [Segs -> {"none", "forked", "running", "ended", "failed", "killed"}]
      BY <1>1, <2>1
    <2> QED
      BY <1>1, <1>4, <2>1, <2>4, <2>5 DEF k
  <1>5. CASE k # 0 /\ ~Alive(k)
    <2>1. out' = out /\ pipe' = pipe /\ child' = [child EXCEPT ![c] = "killed"]
      BY <1>5 DEF Emits
    <2> QED
      BY <1>1, <1>5, <2>1
  <1> QED
    BY <1>3, <1>4, <1>5

\* The step to the next segment, with no filter of this one left open.
LEMMA NextSegmentKeeps ==
  ASSUME TypeOK, FilterInv, TypeOK', seg \in Segs, saved = None, hook # seg \/ hook' = None,
         UNCHANGED <<page, deaths, leaked, fd1, saved, sink>>,
         UNCHANGED <<hook, held>> \/ (hook' = None /\ held' = <<>>),
         seg' = seg + 1, pos' = 0, state' = "run"
  PROVE  FilterInv'
  <1>a. /\ Segs' = Segs /\ \A s \in Segs : page[s].len \in Nat /\ s \in Nat
        /\ hook \in Segs \cup {None} /\ leaked \subseteq Segs
    BY PageShape DEF Segs, TypeOK
  <1>1. Redirected'
    BY <1>a DEF FilterInv, Redirected
  <1>2. hook' # None => hook' <= seg' /\ Kind(page'[hook'].cmd) = "lua"
    BY <1>a DEF FilterInv
  <1>3. (seg \in Segs => pos <= Here.len)'
    BY <1>a DEF Here
  <1>4. \A c \in leaked' : c < seg'
    BY <1>a DEF FilterInv
  <1> QED
    BY <1>a, <1>1, <1>2, <1>3, <1>4 DEF FilterInv

LEMMA NextProcess == TypeOK /\ FilterInv /\ [Next]_vars => TypeOK' /\ FilterInv'
  <1> SUFFICES ASSUME TypeOK, FilterInv, [Next]_vars PROVE TypeOK' /\ FilterInv'
    OBVIOUS
  <1> USE DEF Segs, request
  <1>a. /\ Len(page) \in Nat /\ Segs = 1..Len(page)
        /\ \A s \in Segs : page[s].len \in Nat
        /\ None \notin Segs /\ None # 0
        /\ \A s \in Segs : s \in Nat /\ s # 0
    BY PageShape
  <1>c. <<>> \in Seq(Chunks) /\ Len(<<>>) = 0 /\ PipeSize \in Nat /\ MaxDies \in Nat \ {0}
    BY FilterAssumption
  <1>d. seg + 1 \in Nat /\ (seg \in Segs => seg + 1 \in 1..(Len(page) + 1))
    <2>1. seg \in 1..(Len(page) + 1)
      BY DEF TypeOK
    <2> QED
      BY <1>a, <2>1
  <1>e. /\ buf \in Seq(Chunks) /\ held \in Seq(Chunks)
        /\ out \in Seq(Chunks) /\ printed \in Seq(Chunks)
        /\ \A c \in Segs : pipe[c] \in Seq(Chunks) /\ cheld[c] \in Seq(Chunks)
    BY DEF TypeOK
  <1>f. seg \in Segs /\ FilterKind # "lua" => hook # seg
    BY <1>a DEF FilterInv, FilterKind, Here
  <1>g. seg \in Segs /\ FilterKind # "exec" => saved = None
    BY DEF FilterInv
  <1>1. CASE Html
    <2>0. /\ Put(Chunk(seg, pos + 1)) /\ seg \in Segs /\ state = "run" /\ pos < Here.len /\ pos' = pos + 1
          /\ UNCHANGED <<page, owner, deaths, leaked, seg, state, fd1, saved, hook, pipe, child, cheld,
                         sink, out>>
      BY <1>1 DEF Html, AtSegment, childs
    <2>1. pos \in Nat /\ Chunk(seg, pos + 1) \in Chunks
      <3>1. pos \in Nat
        BY DEF TypeOK
      <3> QED
        BY <1>a, <2>0, <3>1, ChunkType
    <2>2. {buf', held', printed'} \subseteq Seq(Chunks)
      BY <2>0, <2>1, PutType
    <2>3. hook = None => held' = <<>>
      BY <2>0 DEF Put, FilterInv
    <2>4. TypeOK'
      <3>1. pos' \in Nat
        BY <2>0, <2>1
      <3>2. {buf', held', out', printed'} \subseteq Seq(Chunks)
        BY <1>e, <2>0, <2>2
      <3> HIDE DEF Segs, request
      <3> QED
        BY <2>0, <3>1, <3>2 DEF TypeOK, Segs
    <2>5. pos + 1 <= Here.len
      BY <1>a, <2>0, <2>1 DEF Here
    <2> QED
      BY <2>0, <2>1, <2>3, <2>4, <2>5 DEF FilterInv, Redirected, Here, FilterKind
  <1>2. CASE WriteOut
    <2>1. Head(buf) \in Chunks /\ Tail(buf) \in Seq(Chunks)
      BY <1>2, <1>e, HeadTailProperties DEF WriteOut
    <2>2. /\ out' \in Seq(Chunks) /\ buf' \in Seq(Chunks)
          /\ state' \in {"run", "wait", "exit", "done", "died", "killed", "aborted"}
      <3>1. Append(out, Head(buf)) \in Seq(Chunks)
        BY <1>e, <2>1, AppendProperties
      <3>2. out' \in {out, Append(out, Head(buf))} /\ buf' = Tail(buf) /\ state' \in {state, "killed"}
        BY <1>2 DEF WriteOut
      <3>3. out' \in Seq(Chunks)
        BY <1>e, <3>1, <3>2
      <3> QED
        BY <2>1, <3>2, <3>3 DEF TypeOK
    <2>3. pipe' \in [Segs -> Seq(Chunks)] /\ \A c \in Segs : Len(pipe'[c]) <= PipeSize
      <3>1. CASE fd1 \in Segs /\ pipe' = [pipe EXCEPT ![fd1] = Append(@, Head(buf))] /\ Fits(fd1)
        <4>1. /\ Append(pipe[fd1], Head(buf)) \in Seq(Chunks)
              /\ Len(Append(pipe[fd1], Head(buf))) = Len(pipe[fd1]) + 1
              /\ Len(pipe[fd1]) \in Nat
          BY <1>e, <2>1, <3>1, AppendProperties
        <4> QED
          BY <1>c, <3>1, <4>1 DEF TypeOK, Fits
      <3>2. CASE pipe' = pipe
        BY <3>2 DEF TypeOK
      <3> QED
        BY <1>2, <3>1, <3>2 DEF WriteOut, TypeOK
    <2>4. TypeOK'
      BY <1>2, <1>e, <2>2, <2>3 DEF WriteOut, TypeOK, filters
    <2>5. /\ UNCHANGED <<page, deaths, leaked, sink, seg, pos, fd1, saved, hook, held>>
          /\ state \in {"run", "exit"} /\ state' \in {state, "killed"}
      BY <1>2 DEF WriteOut, filters
    <2> QED
      BY <1>a, <2>4, <2>5 DEF FilterInv, Redirected, Here, FilterKind
  <1>3. CASE OpenExec
    <2>1. saved = None /\ hook # seg /\ seg \in Segs /\ fd1 \in {0} \cup leaked
      BY <1>3, <1>a, <1>f DEF OpenExec, Opened, AtSegment, FilterInv, Redirected
    <2>2. /\ UNCHANGED <<page, owner, deaths, leaked, seg, pos, state, buf, hook, held, pipe, cheld, out, printed>>
          /\ saved' = fd1 /\ fd1' = seg /\ child' = [child EXCEPT ![seg] = "forked"]
          /\ sink' = [sink EXCEPT ![seg] = fd1]
      BY <1>3 DEF OpenExec, filters
    <2>3. TypeOK'
      BY <1>a, <2>1, <2>2 DEF TypeOK
    <2>4. \A c \in Segs : sink'[c] \in {0} \cup leaked
      BY <2>1, <2>2 DEF TypeOK, FilterInv
    <2>5. state = "run" /\ FilterKind = "exec"
      BY <1>3 DEF OpenExec, AtSegment
    <2>6. fd1 # None
      BY <1>a, <2>1 DEF TypeOK
    <2> QED
      BY <2>1, <2>2, <2>3, <2>4, <2>5, <2>6 DEF FilterInv, Redirected, Here, FilterKind
  <1>4. CASE RestoreStdout
    <2>1. saved \in {0} \cup leaked /\ saved # None /\ seg \in Segs /\ leaked \subseteq Segs
      BY <1>4, <1>a DEF RestoreStdout, AtSegment, FilterInv, Redirected, TypeOK
    <2>2. TypeOK'
      BY <1>4, <1>a, <2>1 DEF RestoreStdout, TypeOK, filters, childs
    <2> QED
      BY <1>4, <1>a, <2>1, <2>2
      DEF RestoreStdout, AtSegment, FilterInv, Redirected, Here, FilterKind, filters, childs
  <1>5. CASE Waitpid
    <2>1. seg \in Segs /\ saved = None /\ hook # seg
      BY <1>5, <1>f DEF Waitpid, FilterInv
    <2>2. TypeOK'
      BY <1>5, <1>a, <1>d, <2>1 DEF Waitpid, TypeOK, filters, childs
    <2>3. /\ UNCHANGED <<page, deaths, leaked, fd1, saved, hook, held, sink>>
          /\ seg' = seg + 1 /\ pos' = 0 /\ state' = "run"
      BY <1>5 DEF Waitpid, filters, childs
    <2> QED
      BY <1>a, <2>1, <2>2, <2>3, NextSegmentKeeps
  <1>6. CASE (Die \/ WaitpidKilled) /\ PrintErrorPage
    BY <1>6, ErrorPageProcess DEF Die, WaitpidKilled, AtSegment, FilterInv
  <1>7. CASE OpenLua
    <2>1. saved = None /\ seg \in Segs
      BY <1>7, <1>a, <1>g DEF OpenLua, AtSegment
    <2>2. /\ UNCHANGED <<page, owner, deaths, leaked, seg, pos, buf, fd1, saved, held, pipe, child, cheld, sink,
                         out, printed>>
          /\ \/ hook = None /\ hook' = seg /\ state' = state
             \/ hook' = hook /\ state' = "aborted"
      BY <1>7 DEF OpenLua, childs
    <2>3. TypeOK'
      BY <1>a, <2>1, <2>2 DEF TypeOK
    <2>4. Kind(page[seg].cmd) = "lua" /\ state = "run"
      BY <1>7 DEF OpenLua, FilterKind, Here, AtSegment
    <2>5. seg <= seg /\ seg # None
      BY <1>a, <2>1
    <2> QED
      BY <2>1, <2>2, <2>3, <2>4, <2>5 DEF FilterInv, Redirected, Here, FilterKind
  <1>8. CASE CloseLua
    <2>1. saved = None /\ seg \in Segs
      BY <1>8, <1>a, <1>g DEF CloseLua, AtSegment
    <2>2. buf' \in Seq(Chunks)
      BY <1>8, <1>e, ConcatProperties DEF CloseLua
    <2>3. TypeOK'
      BY <1>8, <1>a, <1>c, <1>d, <2>1, <2>2 DEF CloseLua, TypeOK, childs, Unhooked
    <2>4. /\ UNCHANGED <<page, deaths, leaked, fd1, saved, sink>> /\ hook' = None /\ held' = <<>>
          /\ seg' = seg + 1 /\ pos' = 0 /\ state' = "run"
      BY <1>8 DEF CloseLua, AtSegment, childs, Unhooked
    <2> QED
      BY <1>a, <2>1, <2>3, <2>4, NextSegmentKeeps
  <1>9. CASE NextSegment
    <2>1. seg \in Segs /\ saved = None /\ hook # seg
      BY <1>9, <1>f, <1>g DEF NextSegment, AtSegment
    <2>2. TypeOK'
      BY <1>9, <1>a, <1>d, <2>1 DEF NextSegment, TypeOK, filters, childs
    <2>3. /\ UNCHANGED <<page, deaths, leaked, fd1, saved, hook, held, sink>>
          /\ seg' = seg + 1 /\ pos' = 0 /\ state' = "run"
      BY <1>9 DEF NextSegment, AtSegment, filters, childs
    <2> QED
      BY <1>a, <2>1, <2>2, <2>3, NextSegmentKeeps
  <1>10. CASE EndOfPage
    <2>1. TypeOK'
      BY <1>10 DEF EndOfPage, TypeOK, filters, childs
    <2> QED
      BY <1>10, <2>1 DEF EndOfPage, FilterInv, Redirected, Here, FilterKind, filters, childs
  <1>11. CASE Exit
    <2>1. TypeOK'
      BY <1>11 DEF Exit, TypeOK, filters, childs
    <2>2. deaths = 0 => seg \notin Segs
      BY <1>11 DEF Exit, FilterInv
    <2> QED
      BY <1>11, <2>1, <2>2
      DEF Exit, Drained, FilterInv, Redirected, Here, FilterKind, filters, childs
  <1>12. CASE (Die \/ WaitpidKilled) /\ GiveUp
    <2>1. /\ state' = "exit" /\ deaths = MaxDies
          /\ UNCHANGED <<page, owner, deaths, leaked, seg, pos, buf, fd1, saved, hook, held, pipe, child,
                         cheld, sink, out, printed>>
      BY <1>12 DEF GiveUp, filters, childs
    <2>2. TypeOK'
      BY <2>1 DEF TypeOK
    <2> QED
      BY <1>c, <2>1, <2>2 DEF FilterInv, Redirected, Here, FilterKind
  <1>13. ASSUME NEW c \in Segs, ChildReads(c) PROVE TypeOK' /\ FilterInv'
    <2>1. /\ Head(pipe[c]) \in Chunks /\ Tail(pipe[c]) \in Seq(Chunks)
          /\ Len(Tail(pipe[c])) = Len(pipe[c]) - 1 /\ Len(pipe[c]) \in Nat
      BY <1>13, <1>e, HeadTailProperties DEF ChildReads
    <2> DEFINE kept == Append(cheld[c], Filtered(c, Head(pipe[c])))
    <2>2. kept \in Seq(Chunks)
      BY <1>a, <1>e, <2>1, FilteredChunk, AppendProperties
    <2>3. /\ cheld' = [cheld EXCEPT ![c] = kept]
          /\ pipe' = [pipe EXCEPT ![c] = Tail(@)]
          /\ UNCHANGED <<page, owner, deaths, leaked, seg, pos, state, buf, fd1, saved, hook, held, child,
                         sink, out, printed>>
      BY <1>13 DEF ChildReads, filters
    <2> HIDE DEF kept
    <2>4. cheld' \in [Segs -> Seq(Chunks)]
      BY <1>c, <1>e, <2>2, <2>3 DEF TypeOK
    <2>5. pipe' \in [Segs -> Seq(Chunks)] /\ \A d \in Segs : Len(pipe'[d]) <= PipeSize
      BY <1>c, <2>1, <2>3 DEF TypeOK
    <2>6. TypeOK'
      BY <2>3, <2>4, <2>5 DEF TypeOK
    <2> QED
      BY <2>3, <2>6 DEF FilterInv, Redirected, Here, FilterKind
  <1>14. ASSUME NEW c \in Segs, ChildWrites(c) PROVE TypeOK' /\ FilterInv'
    <2>1. Head(cheld[c]) \in Chunks /\ Tail(cheld[c]) \in Seq(Chunks)
      BY <1>14, <1>e, HeadTailProperties DEF ChildWrites
    <2>2. /\ Emits(c, Head(cheld[c]), "running") /\ cheld' = [cheld EXCEPT ![c] = Tail(@)]
          /\ UNCHANGED <<page, owner, deaths, leaked, seg, pos, state, buf, fd1, saved, hook, held,
                         sink, printed>>
      BY <1>14 DEF ChildWrites, filters
    <2>3. /\ out' \in Seq(Chunks) /\ pipe' \in [Segs -> Seq(Chunks)]
          /\ \A d \in Segs : Len(pipe'[d]) <= PipeSize
          /\ child' \in [Segs -> {"none", "forked", "running", "ended", "failed", "killed"}]
      BY <2>1, <2>2, EmitsType
    <2>4. cheld' \in [Segs -> Seq(Chunks)]
      BY <2>1, <2>2 DEF TypeOK
    <2>5. TypeOK'
      BY <2>2, <2>3, <2>4 DEF TypeOK
    <2> QED
      BY <2>2, <2>5 DEF FilterInv, Redirected, Here, FilterKind
  <1>15. ASSUME NEW c \in Segs, Execs(c) \/ ExecFails(c) \/ ChildExits(c) \/ ChildKilled(c)
         PROVE  TypeOK' /\ FilterInv'
    <2>1. UNCHANGED <<page, owner, deaths, leaked, seg, pos, state, buf, fd1, saved, hook, held,
                      cheld, sink, printed>>
      BY <1>15 DEF Execs, ExecFails, ChildExits, ChildKilled, filters
    <2>2. /\ out' \in Seq(Chunks) /\ pipe' \in [Segs -> Seq(Chunks)]
          /\ \A d \in Segs : Len(pipe'[d]) <= PipeSize
          /\ child' \in [Segs -> {"none", "forked", "running", "ended", "failed", "killed"}]
      <3>1. CASE ExecFails(c)
        BY <3>1, ChunkType, EmitsType DEF ExecFails
      <3>2. CASE ~ExecFails(c)
        <4>1. out' = out /\ pipe' = pipe
              /\ \E x \in {"running", "ended", "killed"} : child' = [child EXCEPT ![c] = x]
          BY <1>15, <3>2 DEF Execs, ChildExits, ChildKilled
        <4> QED
          BY <4>1 DEF TypeOK
      <3> QED
        BY <3>1, <3>2
    <2>3. TypeOK'
      BY <2>1, <2>2 DEF TypeOK
    <2> QED
      BY <2>1, <2>3 DEF FilterInv, Redirected, Here, FilterKind
  <1>16. CASE UNCHANGED vars
    <2>1. TypeOK'
      BY <1>16 DEF vars, filters, childs, TypeOK
    <2> QED
      BY <1>16, <2>1 DEF vars, filters, childs, FilterInv, Redirected, Here, FilterKind
  <1> QED
    BY <1>1, <1>2, <1>3, <1>4, <1>5, <1>6, <1>7, <1>8, <1>9, <1>10, <1>11, <1>12, <1>13,
       <1>14, <1>15, <1>16 DEF Next, Process, Child, Faults, Die, WaitpidKilled

\* Every variable has its type, for all pages, commands and sizes of a pipe.
THEOREM TypeCorrect == Spec => []TypeOK
  <1>1. Spec => [](TypeOK /\ FilterInv)
    BY InitProcess, NextProcess, PTL DEF Spec
  <1> QED
    BY <1>1, PTL

-----------------------------------------------------------------------------
(* The hook *)

LEMMA InitErrors == Init => ErrorInv
  BY DEF Init, ErrorInv, HookFree

LEMMA NextErrors == TypeOK /\ FilterInv /\ ErrorInv /\ [Next]_vars => ErrorInv'
  <1> SUFFICES ASSUME TypeOK, FilterInv, ErrorInv, [Next]_vars PROVE ErrorInv'
    OBVIOUS
  <1> USE DEF request
  <1>a. /\ Len(page) \in Nat /\ Segs = 1..Len(page) /\ None \notin Segs
        /\ \A s \in Segs : s \in Nat
        /\ seg \in Nat /\ hook \in Segs \cup {None}
    BY PageShape DEF TypeOK
  <1>b. ASSUME UNCHANGED <<page, owner, deaths>>, seg' \in {seg, seg + 1},
               state' # "aborted" \/ (state' = state /\ UNCHANGED <<hook, seg>>)
        PROVE  ErrorInv'
    <2>1. Segs' = Segs /\ \A s \in Segs : s >= seg' => s >= seg
      BY <1>a, <1>b DEF Segs
    <2>2. (deaths > 0 => \A s \in Segs : s >= seg => page[s].cmd \in {None, owner})'
      BY <1>b, <2>1 DEF ErrorInv
    <2>3. HookFree'
      BY <1>b DEF ErrorInv, HookFree
    <2> QED
      BY <2>2, <2>3 DEF ErrorInv
  <1>1. CASE (Die \/ WaitpidKilled) /\ PrintErrorPage
    <2>1. /\ page' = page \o ErrorPage /\ seg' = Len(page) + 1 /\ state' = "run" /\ owner' = owner
      BY <1>1 DEF PrintErrorPage
    <2>2. \A s \in Segs' : s > Len(page) => page'[s].cmd \in {None, owner}
      BY <2>1, ErrorPageBehind
    <2>3. \A s \in Segs' : s >= seg' => s > Len(page)
      <3>1. Segs' = 1..(Len(page) + 3)
        BY <2>1, ErrorPageBehind
      <3> QED
        BY <1>a, <2>1, <3>1
    <2>4. (deaths > 0 => \A s \in Segs : s >= seg => page[s].cmd \in {None, owner})'
      BY <2>1, <2>2, <2>3
    <2>5. HookFree'
      BY <2>1 DEF HookFree
    <2> QED
      BY <2>4, <2>5 DEF ErrorInv
  <1>2. CASE OpenLua /\ hook # None
    <2>1. /\ seg \in Segs /\ FilterKind = "lua" /\ hook # seg
          /\ UNCHANGED <<page, owner, deaths, seg, hook>>
      BY <1>2 DEF OpenLua, AtSegment
    <2>2. deaths \in Nat /\ deaths # 0
      <3>1. deaths # 0
        BY <1>2, <2>1 DEF FilterInv, Redirected
      <3> QED
        BY <3>1 DEF TypeOK
    <2>3. Kind(owner) = "lua"
      <3>1. seg >= seg /\ Here.cmd \in {None, owner}
        BY <1>a, <2>1, <2>2 DEF ErrorInv, Here
      <3>2. Kind(None) # "lua"
        BY DEF Kind
      <3> QED
        BY <2>1, <3>1, <3>2 DEF FilterKind
    <2>4. hook < seg
      BY <1>2, <1>a, <2>1 DEF FilterInv
    <2>5. HookFree'
      BY <1>2, <2>1, <2>2, <2>3, <2>4 DEF HookFree
    <2>6. (deaths > 0 => \A s \in Segs : s >= seg => page[s].cmd \in {None, owner})'
      BY <2>1 DEF ErrorInv, Segs
    <2> QED
      BY <2>5, <2>6 DEF ErrorInv
  <1>3. CASE OpenLua /\ hook = None
    BY <1>3, <1>b DEF OpenLua, AtSegment
  <1>4. CASE Html \/ WriteOut \/ OpenExec \/ RestoreStdout \/ Waitpid \/ CloseLua \/ NextSegment
             \/ EndOfPage \/ Exit
    BY <1>4, <1>b DEF Html, WriteOut, OpenExec, RestoreStdout, Waitpid, CloseLua, NextSegment,
                      EndOfPage, Exit, AtSegment
  <1>5. CASE (Die \/ WaitpidKilled) /\ GiveUp
    BY <1>5, <1>b DEF GiveUp
  <1>6. CASE \E c \in Segs : Child(c) \/ ExecFails(c) \/ ChildKilled(c)
    BY <1>6, <1>b DEF Child, Execs, ChildReads, ChildWrites, ChildExits, ExecFails, ChildKilled, filters
  <1>7. CASE UNCHANGED vars
    BY <1>7, <1>b DEF vars, filters
  <1> QED
    BY <1>1, <1>2, <1>3, <1>4, <1>5, <1>6, <1>7 DEF Next, Process, Faults, Die, WaitpidKilled

\* The assertion of hook_write() fails in no request that has not died, and in
\* one that has only when it died with a Lua filter open and the filter of the
\* owner, which the error page opens, is a Lua filter too.
THEOREM HooksDoNotNest == Spec => []HookFree
  <1>1. Init => TypeOK /\ FilterInv /\ ErrorInv
    BY InitProcess, InitErrors
  <1>2. (TypeOK /\ FilterInv /\ ErrorInv) /\ [Next]_vars => (TypeOK /\ FilterInv /\ ErrorInv)'
    BY NextProcess, NextErrors
  <1>3. ErrorInv => HookFree
    BY DEF ErrorInv
  <1> QED
    BY <1>1, <1>2, <1>3, PTL DEF Spec

-----------------------------------------------------------------------------
(* The children *)

LEMMA InitChildren == Init => ChildInv
  BY DEF Init, ChildInv, Active, Alive, Segs

\* The filter a request dies in may be alive; it is one of those left open then.
LEMMA ErrorPageChildren ==
  ASSUME TypeOK, FilterInv, ChildInv, seg \in Segs, PrintErrorPage,
         state = "run" \/ (state = "wait" /\ ~Alive(seg))
  PROVE  ChildInv'
  <1>a. /\ Len(page) \in Nat /\ Segs = 1..Len(page)
        /\ page' = page \o ErrorPage /\ Segs' = 1..(Len(page) + 3)
        /\ seg' = Len(page) + 1 /\ state' = "run" /\ saved' = None
    <2>1. page' = page \o ErrorPage /\ seg' = Len(page) + 1 /\ state' = "run" /\ saved' = None
      BY DEF PrintErrorPage
    <2> QED
      BY <2>1, PageShape, ErrorPageBehind
  <1>1. /\ pipe' = [c \in Segs' |-> IF c \in Segs THEN pipe[c] ELSE <<>>]
        /\ cheld' = [c \in Segs' |-> IF c \in Segs THEN cheld[c] ELSE <<>>]
        /\ child' = [c \in Segs' |-> IF c \in Segs THEN child[c] ELSE "none"]
    BY DEF PrintErrorPage, Grown, Segs, TypeOK
  <1>2. \A c \in Segs' : c >= seg' => c \notin Segs /\ child'[c] = "none"
    BY <1>a, <1>1
  <1>3. ASSUME NEW c \in Active' PROVE c \in leaked'
    <2>1. c \in Segs' /\ child'[c] \in {"forked", "running"}
      BY <1>3 DEF Active, Alive
    <2>2. c \in Segs /\ c \in Active
      BY <1>1, <2>1 DEF Active, Alive
    <2>3. c \in leaked \/ (c = seg /\ saved # None)
      <3>1. state = "wait" => seg \notin Active
        BY DEF Active
      <3> QED
        BY <2>2, <3>1 DEF ChildInv
    <2> QED
      BY <2>3 DEF PrintErrorPage
  <1>4. \A c \in Segs' : child'[c] \in {"none", "ended"} => cheld'[c] = <<>> /\ pipe'[c] = <<>>
    BY <1>1 DEF ChildInv
  <1>5. \A c \in Segs' : c > seg' => c >= seg'
    BY <1>a
  <1>6. seg' \in Segs' => seg' >= seg'
    BY <1>a
  <1> QED
    BY <1>a, <1>2, <1>3, <1>4, <1>5, <1>6 DEF ChildInv

LEMMA NextChildren == TypeOK /\ FilterInv /\ ChildInv /\ [Next]_vars => ChildInv'
  <1> SUFFICES ASSUME TypeOK, FilterInv, ChildInv, [Next]_vars PROVE ChildInv'
    OBVIOUS
  <1> USE DEF Segs, request, Alive
  <1>a. /\ Len(page) \in Nat /\ Segs = 1..Len(page)
        /\ None \notin Segs /\ None # 0
        /\ \A s \in Segs : s \in Nat /\ s # 0
        /\ seg \in Nat /\ fd1 \in {0} \cup Segs
    <2>1. seg \in 1..(Len(page) + 1) /\ fd1 \in {0} \cup Segs
      BY DEF TypeOK
    <2> QED
      BY <2>1, PageShape
  <1>b. /\ child \in [Segs -> {"none", "forked", "running", "ended", "failed", "killed"}]
        /\ pipe \in [Segs -> Seq(Chunks)] /\ cheld \in [Segs -> Seq(Chunks)]
    BY DEF TypeOK
  <1>c. state = "run" /\ seg \in Segs /\ saved = None => \A c \in Active : c \in leaked
    BY DEF ChildInv, Active
  <1>d. (\A c \in Active : c \in leaked) /\ seg' = seg + 1
          /\ UNCHANGED <<page, leaked, child, pipe, cheld>> => ChildInv'
    <2> SUFFICES ASSUME \A c \in Active : c \in leaked, seg' = seg + 1,
                        UNCHANGED <<page, leaked, child, pipe, cheld>>
                 PROVE  ChildInv'
      OBVIOUS
    <2>1. \A c \in Segs : c > seg' => c > seg
      BY <1>a
    <2>2. seg' > seg
      BY <1>a
    <2>3. \A c \in Segs : c > seg => child[c] = "none"
      BY DEF ChildInv
    <2> QED
      BY <2>1, <2>2, <2>3 DEF ChildInv, Active
  <1>1. CASE Html
    BY <1>1 DEF Html, AtSegment, childs, ChildInv, Active
  <1>2. CASE WriteOut
    <2>1. /\ UNCHANGED <<page, leaked, seg, saved, child, cheld>> /\ state' \in {state, "killed"}
          /\ state # "wait"
          /\ \/ pipe' = pipe
             \/ /\ fd1 \in Segs /\ child[fd1] \in {"forked", "running"}
                /\ pipe' = [pipe EXCEPT ![fd1] = Append(@, Head(buf))]
      BY <1>2, <1>a DEF WriteOut
    <2> QED
      BY <2>1, <1>b DEF ChildInv, Active
  <1>3. CASE OpenExec
    <2>1. saved = None /\ saved' # None /\ seg \in Segs /\ state = "run"
      BY <1>3, <1>a DEF OpenExec, AtSegment, Opened
    <2>2. /\ child' = [child EXCEPT ![seg] = "forked"]
          /\ UNCHANGED <<page, leaked, seg, state, pipe, cheld>>
      BY <1>3 DEF OpenExec
    <2>3. \A c \in Active' : c = seg \/ c \in leaked
      BY <1>b, <1>c, <2>1, <2>2 DEF Active
    <2>4. \A c \in Segs : c > seg => c # seg
      BY <1>a
    <2> QED
      BY <1>b, <2>1, <2>2, <2>3, <2>4 DEF ChildInv
  <1>4. CASE RestoreStdout
    BY <1>4 DEF RestoreStdout, AtSegment, ChildInv, Active, childs
  <1>5. CASE Waitpid
    <2>1. /\ \A c \in Active : c \in leaked
          /\ seg' = seg + 1 /\ UNCHANGED <<page, leaked, child, pipe, cheld>>
      BY <1>5 DEF Waitpid, Exited, ChildInv, Active, childs
    <2> QED
      BY <2>1, <1>d
  <1>6. CASE (Die \/ WaitpidKilled) /\ PrintErrorPage
    <2>1. seg \in Segs /\ (state = "run" \/ (state = "wait" /\ ~Alive(seg)))
      BY <1>6 DEF Die, WaitpidKilled, AtSegment, FilterInv
    <2> QED
      BY <1>6, <2>1, ErrorPageChildren
  <1>7. CASE OpenLua
    BY <1>7 DEF OpenLua, AtSegment, ChildInv, Active, childs
  <1>8. CASE CloseLua
    <2>1. saved = None /\ seg \in Segs /\ state = "run"
      BY <1>8, <1>a DEF CloseLua, AtSegment, FilterInv
    <2> QED
      BY <1>8, <1>c, <1>d, <2>1 DEF CloseLua, childs
  <1>9. CASE NextSegment
    <2>1. saved = None /\ seg \in Segs /\ state = "run"
      BY <1>9, <1>a DEF NextSegment, AtSegment, FilterInv
    <2> QED
      BY <1>9, <1>c, <1>d, <2>1 DEF NextSegment, childs
  <1>10. CASE EndOfPage
    BY <1>10 DEF EndOfPage, ChildInv, Active, childs
  <1>11. CASE Exit
    BY <1>11 DEF Exit, ChildInv, Active, childs
  <1>12. CASE (Die \/ WaitpidKilled) /\ GiveUp
    <2>1. state' = "exit" /\ UNCHANGED <<page, leaked, seg, saved, child, pipe, cheld>>
      BY <1>12 DEF GiveUp, childs
    <2>2. seg \in Active => saved # None \/ seg \in leaked
      BY <1>12 DEF Die, WaitpidKilled, AtSegment, ChildInv, Active
    <2> QED
      BY <2>1, <2>2 DEF ChildInv, Active
  <1>13. ASSUME NEW c \in Segs, ChildReads(c) PROVE ChildInv'
    <2>1. /\ child[c] = "running" /\ UNCHANGED <<page, leaked, seg, state, saved, child>>
          /\ pipe' = [pipe EXCEPT ![c] = Tail(@)]
          /\ \A d \in Segs : d # c => cheld'[d] = cheld[d]
      BY <1>13, <1>b DEF ChildReads
    <2> QED
      BY <2>1, <1>b DEF ChildInv, Active
  <1>14. ASSUME NEW c \in Segs, ChildWrites(c) \/ ExecFails(c) PROVE ChildInv'
    <2>1. /\ child[c] \in {"forked", "running"} /\ UNCHANGED <<page, leaked, seg, state, saved>>
          /\ \A d \in Segs : d # c => cheld'[d] = cheld[d]
          /\ \E chunk \in Chunks, next \in {"running", "failed"} : Emits(c, chunk, next)
      <3>1. cheld[c] # <<>> => Head(cheld[c]) \in Chunks
        BY <1>b, HeadTailProperties
      <3> QED
        BY <1>14, <1>b, <3>1, ChunkType DEF ChildWrites, ExecFails
    <2>2. /\ \E x \in {"running", "failed", "killed"} : child' = [child EXCEPT ![c] = x]
          /\ \A d \in Segs : d # c => child'[d] = child[d]
          /\ child'[c] \in {"running", "failed", "killed"}
          /\ \A d \in Segs : pipe'[d] = pipe[d] \/ Alive(d)
      BY <1>b, <2>1, EmitsType
    <2>3. \A d \in Active' : d \in Active
      BY <2>1, <2>2 DEF Active
    <2> QED
      BY <1>b, <2>1, <2>2, <2>3 DEF ChildInv, Active
  <1>15. ASSUME NEW c \in Segs, Execs(c) \/ ChildExits(c) \/ ChildKilled(c) PROVE ChildInv'
    <2>1. /\ child[c] \in {"forked", "running"}
          /\ \E x \in {"running", "ended", "killed"} :
               /\ child' = [child EXCEPT ![c] = x]
               /\ x = "ended" => cheld[c] = <<>> /\ pipe[c] = <<>>
          /\ UNCHANGED <<page, leaked, seg, state, saved, pipe, cheld>>
      BY <1>15 DEF Execs, ChildExits, InputEnded, ChildKilled
    <2> QED
      BY <2>1, <1>b DEF ChildInv, Active
  <1>16. CASE UNCHANGED vars
    BY <1>16 DEF vars, childs, ChildInv, Active
  <1> QED
    BY <1>1, <1>2, <1>3, <1>4, <1>5, <1>6, <1>7, <1>8, <1>9, <1>10, <1>11, <1>12, <1>13,
       <1>14, <1>15, <1>16 DEF Next, Process, Child, Faults, Die, WaitpidKilled

\* One filter is open at a time, in any request: whatever else is alive or
\* redirects descriptor 1 is a filter the request has died in.
THEOREM FiltersDoNotNest == Spec => []OneFilter
  <1>1. Init => TypeOK /\ FilterInv /\ ChildInv
    BY InitProcess, InitChildren
  <1>2. (TypeOK /\ FilterInv /\ ChildInv) /\ [Next]_vars => (TypeOK /\ FilterInv /\ ChildInv)'
    BY NextProcess, NextChildren
  <1>3. FilterInv /\ ChildInv => OneFilter
    BY DEF FilterInv, ChildInv, OneFilter
  <1> QED
    BY <1>1, <1>2, <1>3, PTL DEF Spec

-----------------------------------------------------------------------------
(* What is printed *)

\* The page in order, and one more chunk of it.
LEMMA OrderGrows ==
  ASSUME NEW cs \in Seq(Chunks), NEW c \in Chunks, InOrder(cs), c.at[1] \in Segs,
         Adjacent(LastAt(cs, Len(cs)), c.at), c.by = Through(c.at[1])
  PROVE  /\ InOrder(Append(cs, c))
         /\ LastAt(Append(cs, c), Len(Append(cs, c))) = c.at
  <1> DEFINE ds == Append(cs, c)
  <1>1. /\ ds \in Seq(Chunks) /\ Len(ds) = Len(cs) + 1 /\ Len(cs) \in Nat
        /\ \A i \in 1..Len(cs) : ds[i] = cs[i]
        /\ ds[Len(cs) + 1] = c
    BY AppendProperties
  <1>2. DOMAIN cs = 1..Len(cs) /\ DOMAIN ds = 1..(Len(cs) + 1)
    BY <1>1, LenProperties
  <1> HIDE DEF ds
  <1>3. ASSUME NEW i \in 1..(Len(cs) + 1)
        PROVE  /\ ds[i].at[1] \in Segs
               /\ Adjacent(LastAt(ds, i - 1), ds[i].at)
               /\ ds[i].by = Through(ds[i].at[1])
    <2>1. LastAt(ds, i - 1) = LastAt(cs, i - 1)
      BY <1>1 DEF LastAt
    <2>2. CASE i = Len(cs) + 1
      <3>1. i - 1 = Len(cs) /\ ds[i] = c
        BY <1>1, <2>2
      <3> QED
        BY <2>1, <3>1
    <2>3. CASE i \in 1..Len(cs)
      BY <1>1, <1>2, <2>1, <2>3 DEF InOrder
    <2> QED
      BY <1>1, <2>2, <2>3
  <1>4. InOrder(ds)
    BY <1>2, <1>3 DEF InOrder
  <1>5. LastAt(ds, Len(ds)) = c.at
    BY <1>1 DEF LastAt
  <1> QED
    BY <1>4, <1>5 DEF ds

\* The order of the chunks depends on the page.
LEMMA OrderOfPage ==
  ASSUME page' = page
  PROVE  /\ InOrder(printed)' <=> InOrder(printed')
         /\ \A a : (pos' = pos /\ seg' = seg) => (Reached(a)' <=> Reached(a))
  BY DEF InOrder, Adjacent, LenOf, Through, Segs, Reached, LastAt

\* At the end of a segment the page is printed up to the next one.
LEMMA SegmentPrinted ==
  ASSUME TypeOK, seg \in Segs, pos = Here.len, NEW a \in Nat \X Nat, Reached(a),
         page' = page, seg' = seg + 1, pos' = 0
  PROVE  Reached(a)'
  <1>1. seg \in Nat /\ Segs = 1..Len(page) /\ Len(page) \in Nat
    BY PageShape
  <1>2. LenOf(seg) = pos
    BY DEF LenOf, Here
  <1>3. \A s : LenOf(s)' = LenOf(s)
    BY DEF LenOf, Segs
  <1>4. CASE a = <<seg, pos>>
    <2>1. a[1] < seg' /\ a[2] = LenOf(a[1])
      BY <1>1, <1>2, <1>4
    <2>2. \A s : s \notin (a[1] + 1)..(seg' - 1)
      BY <1>1, <1>4
    <2> QED
      BY <1>3, <2>1, <2>2 DEF Reached
  <1>5. CASE /\ pos = 0 /\ a[1] < seg /\ a[2] = LenOf(a[1])
             /\ \A s \in (a[1] + 1)..(seg - 1) : LenOf(s) = 0
    <2>1. (seg + 1) - 1 = seg
      BY <1>1
    <2>2. ASSUME NEW s \in (a[1] + 1)..(seg' - 1) PROVE LenOf(s) = 0
      <3>1. CASE s = seg
        BY <1>2, <1>5, <3>1
      <3>2. CASE s # seg
        <4>1. s \in (a[1] + 1)..(seg - 1)
          BY <1>1, <2>1, <3>2
        <4> QED
          BY <1>5, <4>1
      <3> QED
        BY <3>1, <3>2
    <2> QED
      BY <1>1, <1>3, <1>5, <2>2 DEF Reached
  <1> QED
    BY <1>4, <1>5 DEF Reached

LEMMA LastAtType ==
  ASSUME NEW cs \in Seq(Chunks)
  PROVE  LastAt(cs, Len(cs)) \in Nat \X Nat
  <1>1. Len(cs) \in Nat /\ (Len(cs) # 0 => cs[Len(cs)] \in Chunks)
    BY ElementOfSeq
  <1> QED
    BY <1>1 DEF LastAt, Chunks

LEMMA InitPrinted == Init => PrintedInv
  <1> SUFFICES ASSUME Init PROVE PrintedInv
    OBVIOUS
  <1>1. printed = <<>> /\ Len(printed) = 0 /\ DOMAIN printed = {} /\ seg = 1 /\ pos = 0
    BY DEF Init
  <1>2. LastAt(printed, Len(printed)) = <<0, 0>>
    BY <1>1 DEF LastAt
  <1>3. LenOf(0) = 0
    <2>1. page \in Seq([cmd : Commands, len : Nat])
      BY PagesAssumption DEF Init
    <2> QED
      BY <2>1 DEF LenOf, Segs
  <1> QED
    BY <1>1, <1>2, <1>3 DEF PrintedInv, InOrder, Reached

LEMMA NextPrinted == TypeOK /\ FilterInv /\ PrintedInv /\ [Next]_vars => PrintedInv'
  <1> SUFFICES ASSUME TypeOK, FilterInv, PrintedInv, [Next]_vars, deaths' = 0 PROVE PrintedInv'
    BY DEF PrintedInv
  <1> USE DEF request
  <1> DEFINE last == LastAt(printed, Len(printed))
  <1>a. /\ Segs = 1..Len(page) /\ Len(page) \in Nat /\ None \notin Segs
        /\ \A s \in Segs : s \in Nat /\ s # 0
        /\ seg \in Nat /\ pos \in Nat /\ deaths \in Nat
    BY PageShape DEF TypeOK
  <1>b. last \in Nat \X Nat
    BY LastAtType DEF TypeOK
  <1>1. CASE Html
    <2>1. seg \in Segs /\ state = "run" /\ state' = state /\ pos < Here.len
      BY <1>1 DEF Html, AtSegment
    <2>2. InOrder(printed) /\ Reached(last)
      BY <1>1 DEF Html, PrintedInv
    <2> DEFINE c == IF Opened THEN Filtered(seg, Chunk(seg, pos + 1)) ELSE Chunk(seg, pos + 1)
    <2>3. printed' = Append(printed, c) /\ page' = page /\ seg' = seg /\ pos' = pos + 1
      BY <1>1 DEF Html, Put
    <2>4. /\ Chunk(seg, pos + 1) \in Chunks
          /\ Chunk(seg, pos + 1).at = <<seg, pos + 1>> /\ Chunk(seg, pos + 1).by = <<>>
      <3>1. pos + 1 \in Nat
        BY <1>a
      <3>2. Chunk(seg, pos + 1) \in Chunks
        BY <1>a, <3>1, ChunkType
      <3> QED
        BY <3>2 DEF Chunk
    <2>5. c \in Chunks /\ c.at = <<seg, pos + 1>> /\ c.by = IF Opened THEN <<seg>> ELSE <<>>
      <3>1. CASE Opened
        <4> DEFINE e == Chunk(seg, pos + 1)
        <4>1. c = Filtered(seg, e) /\ seg \in Nat
          BY <3>1, <1>a
        <4>2. e \in Chunks /\ e.at = <<seg, pos + 1>> /\ e.by = <<>>
          BY <2>4
        <4> HIDE DEF c, e
        <4>3. c \in Chunks /\ c.at = e.at /\ c.by = Append(e.by, seg)
          BY <4>1, <4>2, FilteredChunk
        <4> QED
          BY <3>1, <4>2, <4>3
      <3>2. CASE ~Opened
        BY <3>2, <2>4
      <3> QED
        BY <3>1, <3>2
    <2>6. Opened <=> FilterKind # "none"
      BY <1>1, <1>a, <2>1 DEF Html, Opened, FilterInv, FilterKind, Here
    <2>7. c.at[1] \in Segs /\ c.by = Through(c.at[1])
      BY <2>1, <2>5, <2>6 DEF Through, FilterKind, Here
    <2>8. Adjacent(last, c.at)
      <3> HIDE DEF last, c
      <3>1. pos + 1 <= LenOf(seg)
        BY <1>a, <2>1, PageShape DEF LenOf, Here
      <3>2. CASE last = <<seg, pos>>
        BY <2>5, <3>1, <3>2 DEF Adjacent
      <3>3. CASE last # <<seg, pos>>
        BY <2>2, <2>5, <3>3 DEF Adjacent, Reached
      <3> QED
        BY <3>2, <3>3
    <2>9. InOrder(printed') /\ LastAt(printed', Len(printed')) = <<seg, pos + 1>>
      <3>1. printed \in Seq(Chunks)
        BY DEF TypeOK
      <3> QED
        BY <2>2, <2>3, <2>5, <2>7, <2>8, <3>1, OrderGrows
    <2>10. InOrder(printed)'
      BY <2>3, <2>9, OrderOfPage
    <2>11. Reached(LastAt(printed, Len(printed)))'
      BY <2>3, <2>9 DEF Reached, LastAt
    <2> QED
      BY <2>10, <2>11 DEF PrintedInv
  <1>2. CASE Waitpid \/ CloseLua \/ NextSegment
    <2>1. /\ state \in {"run", "wait"} /\ seg \in Segs /\ pos = Here.len
          /\ UNCHANGED <<page, printed>> /\ seg' = seg + 1 /\ pos' = 0
      BY <1>2 DEF Waitpid, CloseLua, NextSegment, AtSegment, FilterInv
    <2>2. InOrder(printed) /\ Reached(last)
      BY <1>2 DEF Waitpid, CloseLua, NextSegment, PrintedInv
    <2>3. Reached(last)'
      BY <1>b, <2>1, <2>2, SegmentPrinted
    <2>4. InOrder(printed)'
      BY <2>1, <2>2, OrderOfPage
    <2> QED
      BY <2>1, <2>3, <2>4 DEF PrintedInv, LastAt
  <1>3. CASE (Die \/ WaitpidKilled) /\ (PrintErrorPage \/ GiveUp)
    <2>1. deaths' = deaths + 1 \/ deaths' = MaxDies
      BY <1>3 DEF PrintErrorPage, GiveUp
    <2> QED
      BY <1>a, <2>1, FilterAssumption
  <1>4. ASSUME UNCHANGED <<page, deaths, seg, pos, printed>> PROVE PrintedInv'
    <2>1. InOrder(printed) /\ Reached(last)
      BY <1>4 DEF PrintedInv
    <2>2. InOrder(printed)' /\ Reached(last)'
      BY <1>4, <2>1, OrderOfPage DEF LastAt
    <2> QED
      BY <1>4, <2>2 DEF PrintedInv, LastAt
  <1>5. CASE WriteOut \/ OpenExec \/ RestoreStdout \/ OpenLua \/ EndOfPage \/ Exit
    BY <1>4, <1>5 DEF WriteOut, OpenExec, RestoreStdout, OpenLua, EndOfPage, Exit
  <1>6. CASE \E c \in Segs : Child(c) \/ ExecFails(c) \/ ChildKilled(c)
    BY <1>4, <1>6 DEF Child, ChildReads, ChildWrites, ChildExits, Execs, ExecFails, ChildKilled
  <1>7. CASE UNCHANGED vars
    BY <1>4, <1>7 DEF vars
  <1> QED
    BY <1>1, <1>2, <1>3, <1>5, <1>6, <1>7 DEF Next, Process, Faults, Die, WaitpidKilled

-----------------------------------------------------------------------------
(* Nothing is lost *)

\* What the live child has; what was printed, by where it is now.
Middle    == IF Active = {} \/ seg \notin Segs THEN <<>> ELSE InChild(seg)
Conserved == printed = out \o Middle \o ForFd1(buf) \o held

LEMMA PartTypes ==
  ASSUME TypeOK
  PROVE  /\ out \in Seq(Chunks) /\ Middle \in Seq(Chunks) /\ held \in Seq(Chunks)
         /\ buf \in Seq(Chunks) /\ ForFd1(buf) \in Seq(Chunks)
         /\ out \o Middle \in Seq(Chunks)
         /\ out \o Middle \o ForFd1(buf) \in Seq(Chunks)
         /\ \A c \in Segs : InChild(c) \in Seq(Chunks)
  <1>1. /\ out \in Seq(Chunks) /\ held \in Seq(Chunks) /\ buf \in Seq(Chunks)
        /\ \A c \in Segs : pipe[c] \in Seq(Chunks) /\ cheld[c] \in Seq(Chunks) /\ c \in Nat
    BY PageShape DEF TypeOK
  <1>2. \A c \in Segs : InChild(c) \in Seq(Chunks)
    BY <1>1, AllChunks, ConcatProperties DEF InChild
  <1>3. Middle \in Seq(Chunks)
    BY <1>2, EmptySeq DEF Middle
  <1>4. ForFd1(buf) \in Seq(Chunks)
    BY <1>1, AllChunks DEF ForFd1, TypeOK
  <1> QED
    BY <1>1, <1>2, <1>3, <1>4, ConcatProperties

\* NothingLost says the same, child by child.
LEMMA ConservedByParts ==
  ASSUME TypeOK, FilterInv, ChildInv, deaths = 0, Healthy, Conserved
  PROVE  NothingLost
  <1>1. \A c \in Active : c = seg /\ c \in Segs
    BY DEF FilterInv, Redirected, ChildInv, Active
  <1>2. \A c \in Segs \ Active : InChild(c) = <<>>
    <2> SUFFICES ASSUME NEW c \in Segs, c \notin Active PROVE InChild(c) = <<>>
      OBVIOUS
    <2>1. child[c] \in {"none", "ended"}
      BY DEF TypeOK, Healthy, Active, Alive
    <2>2. cheld[c] = <<>> /\ pipe[c] = <<>>
      BY <2>1 DEF ChildInv
    <2> QED
      BY <2>2, AllEmpty DEF InChild
  <1>3. CASE Active = {}
    <2>1. out \o Middle = out
      BY <1>3, PartTypes, ConcatEmptySeq DEF Middle
    <2> QED
      BY <1>2, <1>3, <2>1 DEF NothingLost, Conserved
  <1>4. CASE Active # {}
    <2>1. \A c \in Active : Middle = InChild(c)
      BY <1>1, <1>4 DEF Middle
    <2> QED
      BY <1>1, <1>2, <1>4, <2>1 DEF NothingLost, Conserved
  <1> QED
    BY <1>3, <1>4

\* A chunk that is printed goes behind all others, in the buffer or in the
\* script, and has the name of the filter it will go through.
LEMMA PutConserves ==
  ASSUME TypeOK, FilterInv, Conserved, deaths = 0, NEW c \in Chunks, Put(c), seg \in Segs
  PROVE  printed' = out \o Middle \o ForFd1(buf') \o held'
  <1> DEFINE front == out \o Middle
             d     == IF Opened THEN Filtered(seg, c) ELSE c
  <1>1. /\ front \in Seq(Chunks) /\ buf \in Seq(Chunks) /\ held \in Seq(Chunks)
        /\ ForFd1(buf) \in Seq(Chunks) /\ front \o ForFd1(buf) \in Seq(Chunks)
    BY PartTypes
  <1>2. seg \in Nat /\ seg # 0 /\ None \notin Segs /\ None # 0
    BY PageShape
  <1>3. d \in Chunks
    BY <1>2, FilteredChunk
  <1>4. printed' = Append(printed, d) /\ printed = front \o ForFd1(buf) \o held
    BY DEF Put, Conserved
  <1> HIDE DEF front, d
  <1>5. CASE hook = None
    <2>1. buf' = Append(buf, c) /\ held' = held /\ held = <<>>
      BY <1>5 DEF Put, FilterInv
    <2>2. Opened <=> fd1 # 0
      BY <1>2, <1>5 DEF Opened, FilterInv, Redirected
    <2>3. ForFd1(buf') = Append(ForFd1(buf), d)
      <3>1. CASE fd1 = 0
        BY <2>1, <2>2, <3>1 DEF ForFd1, d
      <3>2. CASE fd1 # 0
        <4>1. fd1 = seg
          BY <2>2, <1>2, <1>5, <3>2 DEF FilterInv, Redirected, Opened
        <4> QED
          BY <1>1, <1>2, <2>1, <2>2, <3>2, <4>1, AllAppend DEF ForFd1, d
      <3> QED
        BY <3>1, <3>2
    <2>4. printed = front \o ForFd1(buf)
      BY <1>1, <1>4, <2>1, ChunksJoin
    <2>5. Append(front \o ForFd1(buf), d) = front \o Append(ForFd1(buf), d)
      BY <1>1, <1>3, ShiftLast, Zenon
    <2>6. /\ Append(ForFd1(buf), d) \in Seq(Chunks)
          /\ front \o Append(ForFd1(buf), d) \in Seq(Chunks)
      BY <1>1, <1>3, AppendProperties, ConcatProperties
    <2>7. (front \o Append(ForFd1(buf), d)) \o <<>> = front \o Append(ForFd1(buf), d)
      BY <2>6, ChunksJoin
    <2> QED
      BY <1>4, <2>1, <2>3, <2>4, <2>5, <2>7 DEF front
  <1>6. CASE hook # None
    <2> DEFINE kept == Append(held, d)
    <2>1. hook = seg /\ fd1 = 0 /\ Opened /\ d = Filtered(hook, c)
      BY <1>6 DEF FilterInv, Redirected, Opened, d
    <2>2. /\ ForFd1(buf) = buf /\ ForFd1(buf') = buf'
      BY <2>1 DEF ForFd1
    <2>3. \/ held' = <<>> /\ buf' = buf \o kept
          \/ held' = kept /\ buf' = buf
      BY <1>6, <2>1 DEF Put, ToScript
    <2>4. kept \in Seq(Chunks)
      BY <1>1, <1>3, AppendProperties
    <2>5. printed' = front \o buf \o kept
      <3>1. front \o buf \in Seq(Chunks)
        BY <1>1, ChunksJoin, Zenon
      <3>2. Append(front \o buf \o held, d) = front \o buf \o Append(held, d)
        BY <1>1, <1>3, <3>1, ShiftLast, Zenon
      <3> QED
        BY <1>4, <2>2, <3>2
    <2> HIDE DEF kept
    <2>6. front \o buf \o kept = front \o (buf \o kept)
      <3>1. front \in Seq(Chunks) /\ buf \in Seq(Chunks) /\ kept \in Seq(Chunks)
        BY <1>1, <2>4
      <3> QED
        BY <3>1, Join
    <2>7. front \o (buf \o kept) \in Seq(Chunks)
      BY <1>1, <2>4, ConcatProperties
    <2>8. front \o (buf \o kept) \o <<>> = front \o (buf \o kept)
      BY <2>7, ChunksJoin
    <2> QED
      BY <2>2, <2>3, <2>5, <2>6, <2>8 DEF front
  <1> QED
    BY <1>5, <1>6

\* What has failed stays failed.
LEMMA HealthLasts ==
  ASSUME TypeOK, ChildInv, [Next]_vars, deaths' = 0, Healthy'
  PROVE  deaths = 0 /\ Healthy
  <1> USE DEF Segs, request
  <1>1. /\ child \in [Segs -> {"none", "forked", "running", "ended", "failed", "killed"}]
        /\ deaths \in Nat
    BY DEF TypeOK
  <1>2. CASE OpenExec
    <2>1. child[seg] = "none" /\ seg \in Segs
      BY <1>2 DEF OpenExec, AtSegment, Opened, ChildInv
    <2> QED
      BY <1>1, <1>2, <2>1 DEF OpenExec, Healthy
  <1>3. ASSUME NEW c \in Segs, Child(c) \/ ExecFails(c) \/ ChildKilled(c)
        PROVE  deaths = 0 /\ Healthy
    <2>1. UNCHANGED <<page, deaths, state>>
      BY <1>3 DEF Child, ChildReads, ChildWrites, ChildExits, Execs, ExecFails, ChildKilled
    <2>2. child[c] \in {"forked", "running"}
      BY <1>3 DEF Child, ChildReads, ChildWrites, ChildExits, Execs, ExecFails, ChildKilled
    <2>3. \A d \in Segs : d # c => child'[d] = child[d]
      BY <1>1, <1>3 DEF Child, ChildReads, ChildWrites, ChildExits, Execs, ExecFails, ChildKilled, Emits
    <2> QED
      BY <2>1, <2>2, <2>3 DEF Healthy
  <1>4. ASSUME UNCHANGED <<page, child, deaths>>, state' = state \/ state # "killed"
        PROVE  deaths = 0 /\ Healthy
    BY <1>4 DEF Healthy
  <1>5. CASE Html \/ WriteOut \/ RestoreStdout \/ Waitpid \/ OpenLua \/ CloseLua
             \/ NextSegment \/ EndOfPage \/ Exit
    BY <1>4, <1>5 DEF Html, WriteOut, RestoreStdout, Waitpid, OpenLua, CloseLua,
                      NextSegment, EndOfPage, Exit, AtSegment, childs
  <1>6. CASE (Die \/ WaitpidKilled) /\ (PrintErrorPage \/ GiveUp)
    <2>1. deaths' = deaths + 1 \/ deaths' = MaxDies
      BY <1>6 DEF PrintErrorPage, GiveUp
    <2> QED
      BY <1>1, <2>1, FilterAssumption
  <1>7. CASE UNCHANGED vars
    BY <1>4, <1>7 DEF vars, childs
  <1> QED
    BY <1>2, <1>3, <1>5, <1>6, <1>7 DEF Next, Process, Faults, Die, WaitpidKilled

LEMMA InitConserved == Init => Conserved
  <1> SUFFICES ASSUME Init PROVE Conserved
    OBVIOUS
  <1>1. Middle = <<>>
    BY DEF Init, Middle, Active, Alive, Segs
  <1>2. ForFd1(buf) = <<>>
    BY DEF Init, ForFd1
  <1> QED
    BY <1>1, <1>2 DEF Init, Conserved

\* A step moves chunks from one place to the next, in their order.
LEMMA NextConserved ==
  ASSUME TypeOK, FilterInv, ChildInv, [Next]_vars, Conserved, deaths = 0, Healthy,
         deaths' = 0, Healthy'
  PROVE  Conserved'
  <1> USE DEF Segs, request, Alive
  <1>a. /\ out \in Seq(Chunks) /\ Middle \in Seq(Chunks) /\ held \in Seq(Chunks)
        /\ buf \in Seq(Chunks) /\ ForFd1(buf) \in Seq(Chunks)
    BY PartTypes
  <1>b. /\ \A s \in Segs : s \in Nat /\ s # 0
        /\ None \notin Segs /\ None # 0
        /\ child \in [Segs -> {"none", "forked", "running", "ended", "failed", "killed"}]
        /\ pipe \in [Segs -> Seq(Chunks)] /\ cheld \in [Segs -> Seq(Chunks)]
    BY PageShape DEF TypeOK
  <1>k. /\ leaked = {} /\ \A c \in Segs : sink[c] = 0
        /\ saved = None => fd1 = 0
        /\ saved # None => fd1 = seg
        /\ hook # None => hook = seg /\ saved = None
        /\ \A c \in Active : c = seg
    <2>1. leaked = {} /\ hook \in {seg, None}
      BY DEF FilterInv, Redirected
    <2> QED
      BY <2>1 DEF FilterInv, Redirected, ChildInv, Active
  <1>c. ASSUME UNCHANGED <<out, printed, held>>, Middle' = Middle, ForFd1(buf)' = ForFd1(buf)
        PROVE  Conserved'
    BY <1>c DEF Conserved
  <1>d. UNCHANGED <<page, seg, pipe, child, cheld>> => Middle' = Middle
    BY DEF Middle, Active, InChild, All
  <1>e. UNCHANGED <<page, child, pipe, cheld>> /\ Active = {} => Middle = <<>> /\ Middle' = <<>>
    BY DEF Middle, Active
  <1>f. UNCHANGED <<fd1, buf>> => ForFd1(buf)' = ForFd1(buf)
    BY DEF ForFd1, All
  <1>g. buf = <<>> /\ buf' = <<>> => ForFd1(buf) = <<>> /\ ForFd1(buf)' = <<>>
    BY DEF ForFd1, All
  <1>h. saved = None /\ state # "wait" => Active = {}
    BY <1>k DEF ChildInv, Active
  <1>1. CASE Html
    <2>0. pos + 1 \in Nat /\ seg \in Nat
      BY DEF TypeOK
    <2>1. /\ seg \in Segs /\ UNCHANGED <<page, seg, fd1, pipe, child, cheld, out>>
          /\ \E c \in Chunks : Put(c)
      BY <1>1, <2>0, ChunkType DEF Html, AtSegment, childs
    <2>2. printed' = out \o Middle \o ForFd1(buf') \o held'
      BY <2>1, PutConserves
    <2>3. ForFd1(buf)' = ForFd1(buf')
      BY <2>1 DEF ForFd1, All
    <2> QED
      BY <1>d, <2>1, <2>2, <2>3 DEF Conserved
  <1>2. CASE (Die \/ WaitpidKilled) /\ (PrintErrorPage \/ GiveUp)
    <2>1. deaths' = deaths + 1 \/ deaths' = MaxDies
      BY <1>2 DEF PrintErrorPage, GiveUp
    <2> QED
      BY <2>1, FilterAssumption
  <1>3. CASE OpenExec
    <2>1. saved = None /\ seg \in Segs /\ state = "run" /\ buf = <<>> /\ buf' = <<>>
      BY <1>3 DEF OpenExec, AtSegment, Opened, Flushed
    <2>2. cheld[seg] = <<>> /\ pipe[seg] = <<>> /\ Active = {}
      BY <1>h, <2>1 DEF ChildInv
    <2>3. InChild(seg)' = <<>>
      BY <1>3, <2>2 DEF OpenExec, InChild, All
    <2>4. Middle' = <<>> /\ Middle = <<>>
      BY <2>2, <2>3 DEF Middle
    <2>5. UNCHANGED <<out, printed, held>>
      BY <1>3 DEF OpenExec, filters
    <2> QED
      BY <1>c, <1>g, <2>1, <2>4, <2>5
  <1>4. CASE RestoreStdout
    <2>1. /\ buf = <<>> /\ buf' = <<>>
          /\ UNCHANGED <<page, seg, pipe, child, cheld, out, printed, held>>
      BY <1>4 DEF RestoreStdout, Flushed, childs, filters
    <2> QED
      BY <1>c, <1>d, <1>g, <2>1
  <1>5. CASE Waitpid
    <2>1. UNCHANGED <<page, pipe, child, cheld, fd1, buf, out, printed, held>>
      BY <1>5 DEF Waitpid, childs, filters
    <2>2. Active = {}
      BY <1>5, <1>k DEF Waitpid, Exited, Active
    <2> QED
      BY <1>c, <1>e, <1>f, <2>1, <2>2
  <1>6. CASE OpenLua \/ EndOfPage \/ Exit
    <2>1. UNCHANGED <<page, seg, pipe, child, cheld, fd1, buf, out, printed, held>>
      BY <1>6 DEF OpenLua, EndOfPage, Exit, childs, filters
    <2> QED
      BY <1>c, <1>d, <1>f, <2>1
  <1>7. CASE CloseLua
    <2>1. saved = None /\ fd1 = 0 /\ state = "run" /\ fd1' = 0
      BY <1>7, <1>b, <1>k DEF CloseLua, AtSegment
    <2>2. Active = {}
      BY <1>h, <2>1
    <2>3. /\ UNCHANGED <<page, child, pipe, cheld, out, printed>>
          /\ buf' = buf \o held /\ held' = <<>>
      BY <1>7 DEF CloseLua, childs
    <2>4. Middle = <<>> /\ Middle' = <<>> /\ ForFd1(buf) = buf /\ ForFd1(buf)' = buf \o held
      BY <1>e, <2>1, <2>2, <2>3 DEF ForFd1
    <2>5. out \o <<>> = out /\ out \o buf \o held = out \o (buf \o held)
      <3>1. out \in Seq(Chunks) /\ buf \in Seq(Chunks) /\ held \in Seq(Chunks)
        BY <1>a
      <3>2. out \o <<>> = out
        BY <3>1, JoinNone
      <3>3. out \o buf \o held = out \o (buf \o held)
        BY <3>1, Join
      <3> QED
        BY <3>2, <3>3
    <2>6. out \o (buf \o held) \in Seq(Chunks)
      BY <1>a, ConcatProperties
    <2>7. out \o (buf \o held) \o <<>> = out \o (buf \o held)
      BY <2>6, JoinNone, Zenon
    <2> QED
      BY <2>3, <2>4, <2>5, <2>7 DEF Conserved
  <1>8. CASE NextSegment
    <2>1. saved = None /\ state = "run"
      BY <1>8 DEF NextSegment, AtSegment, FilterInv
    <2>2. UNCHANGED <<page, pipe, child, cheld, fd1, buf, out, printed, held>>
      BY <1>8 DEF NextSegment, childs, filters
    <2> QED
      BY <1>c, <1>e, <1>f, <1>h, <2>1, <2>2
  <1>9. CASE WriteOut
    <2> DEFINE h == Head(buf)
               t == Tail(buf)
    <2>1. h \in Chunks /\ t \in Seq(Chunks) /\ buf = <<h>> \o t /\ buf' = t
      BY <1>9, <1>a, Take DEF WriteOut
    <2>2. UNCHANGED <<page, seg, fd1, child, cheld, printed, held>> /\ state # "wait"
      BY <1>9 DEF WriteOut, filters
    <2>3. CASE fd1 = 0
      <3>1. saved = None
        <4>1. seg # 0
          BY PageShape DEF TypeOK
        <4> QED
          BY <1>k, <2>3, <4>1
      <3>2. out' = Append(out, h) /\ pipe' = pipe
        BY <1>9, <2>3 DEF WriteOut
      <3>3. Middle = <<>> /\ Middle' = <<>>
        BY <1>e, <1>h, <2>2, <3>1, <3>2
      <3>4. ForFd1(buf) = buf /\ ForFd1(buf)' = t
        BY <2>1, <2>2, <2>3 DEF ForFd1
      <3> HIDE DEF h, t
      <3>5. Append(out, h) \o t = out \o buf
        BY <1>a, <2>1, ShiftFirst, Zenon
      <3>6. Append(out, h) \in Seq(Chunks)
        BY <1>a, <2>1, AppendProperties
      <3>7. out \o <<>> = out /\ Append(out, h) \o <<>> = Append(out, h)
        BY <1>a, <3>6, ChunksJoin
      <3> QED
        BY <2>2, <3>2, <3>3, <3>4, <3>5, <3>7 DEF Conserved
    <2>4. CASE fd1 # 0
      <3>1. /\ fd1 = seg /\ seg \in Segs /\ seg \in Nat
            /\ seg \in Active /\ out' = out
            /\ pipe' = [pipe EXCEPT ![seg] = Append(@, h)]
        BY <1>9, <1>b, <1>k, <2>4 DEF WriteOut, Healthy, Active, FilterInv
      <3> DEFINE C == cheld[seg]
                 P == All(seg, pipe[seg])
                 x == Filtered(seg, h)
                 T == All(seg, t)
                 F == out \o Middle
      <3>2. /\ C \in Seq(Chunks) /\ P \in Seq(Chunks) /\ x \in Chunks /\ T \in Seq(Chunks)
            /\ C \o P \in Seq(Chunks)
        BY <1>b, <2>1, <3>1, AllChunks, FilteredChunk, ConcatProperties
      <3>3. Middle = C \o P
        BY <3>1 DEF Middle, InChild
      <3>4. Middle' = C \o Append(P, x)
        <4>1. InChild(seg)' = cheld[seg] \o All(seg, pipe'[seg])
          BY <2>2 DEF InChild, All, Filtered
        <4>2. pipe'[seg] = Append(pipe[seg], h)
          BY <1>b, <3>1
        <4>3. All(seg, Append(pipe[seg], h)) = Append(P, x)
          BY <1>b, <2>1, <3>1, AllAppend
        <4>4. seg' = seg /\ Active' # {} /\ seg \in Segs'
          BY <2>2, <3>1 DEF Active
        <4> QED
          BY <4>1, <4>2, <4>3, <4>4 DEF Middle
      <3>5. ForFd1(buf) = <<x>> \o T
        <4>1. buf # <<>>
          BY <1>9 DEF WriteOut
        <4> QED
          BY <1>a, <2>4, <3>1, <4>1, AllTake DEF ForFd1
      <3>6. ForFd1(buf)' = T
        BY <2>1, <2>2, <2>4, <3>1 DEF ForFd1, All, Filtered
      <3>7. F \in Seq(Chunks)
        BY PartTypes
      <3> HIDE DEF C, P, x, T, F
      <3>8. F \o (<<x>> \o T) = Append(F, x) \o T
        BY <3>2, <3>7, ShiftFirst, Zenon
      <3>9. Append(F, x) = out \o Append(Middle, x)
        <4>1. Append(out \o Middle, x) = out \o Append(Middle, x)
          <5>1. out \in Seq(Chunks) /\ Middle \in Seq(Chunks) /\ x \in Chunks
            BY <1>a, <3>2
          <5> QED
            BY <5>1, ShiftLast
        <4> QED
          BY <4>1 DEF F
      <3>10. Append(Middle, x) = C \o Append(P, x)
        <4>1. Append(C \o P, x) = C \o Append(P, x)
          BY <3>2, ChunksShift
        <4> QED
          BY <3>3, <4>1
      <3>11. printed = out \o (C \o Append(P, x)) \o T \o held
        <4>1. printed = F \o (<<x>> \o T) \o held
          BY <3>5 DEF Conserved, F
        <4> QED
          BY <3>8, <3>9, <3>10, <4>1
      <3> QED
        BY <2>2, <3>1, <3>4, <3>6, <3>11 DEF Conserved
    <2> QED
      BY <2>3, <2>4
  <1>10. ASSUME NEW c \in Segs, ChildReads(c) PROVE Conserved'
    <2>1. /\ c = seg /\ seg \in Segs /\ seg \in Nat /\ seg \in Active
          /\ pipe[seg] # <<>> /\ pipe[seg] \in Seq(Chunks) /\ cheld[seg] \in Seq(Chunks)
      BY <1>10, <1>b, <1>k DEF ChildReads, Active
    <2> DEFINE h == Head(pipe[seg])
               t == Tail(pipe[seg])
               C == cheld[seg]
               x == Filtered(seg, h)
               T == All(seg, t)
               K == Append(C, x)
    <2>2. /\ UNCHANGED <<page, seg, fd1, buf, child, held, out, printed>>
          /\ pipe' = [pipe EXCEPT ![seg] = t]
          /\ cheld' = [cheld EXCEPT ![seg] = K]
      BY <1>10, <2>1 DEF ChildReads, filters
    <2>3. h \in Chunks /\ t \in Seq(Chunks)
      BY <2>1, HeadTailProperties
    <2>4. /\ C \in Seq(Chunks) /\ x \in Chunks /\ T \in Seq(Chunks)
      BY <2>1, <2>3, AllChunks, FilteredChunk
    <2>5. Middle = C \o (<<x>> \o T)
      BY <2>1, AllTake DEF Middle, InChild
    <2>6. Middle' = K \o T
      <3>1. InChild(seg)' = cheld'[seg] \o All(seg, pipe'[seg])
        BY <2>2 DEF InChild, All, Filtered
      <3>2. pipe'[seg] = t /\ cheld'[seg] = K
        BY <1>b, <2>1, <2>2
      <3>3. seg' = seg /\ Active' # {} /\ seg \in Segs'
        BY <2>1, <2>2 DEF Active
      <3> QED
        BY <3>1, <3>2, <3>3 DEF Middle
    <2> HIDE DEF h, t, C, x, T
    <2>7. K \o T = C \o (<<x>> \o T)
      BY <2>4, ChunksShift
    <2>8. Middle' = Middle
      BY <2>5, <2>6, <2>7
    <2> QED
      BY <1>c, <1>f, <2>2, <2>8
  <1>11. ASSUME NEW c \in Segs, ChildWrites(c) PROVE Conserved'
    <2>1. /\ c = seg /\ seg \in Segs /\ seg \in Nat /\ seg \in Active /\ child[seg] = "running"
          /\ cheld[seg] # <<>> /\ pipe[seg] \in Seq(Chunks) /\ cheld[seg] \in Seq(Chunks)
      BY <1>11, <1>b, <1>k DEF ChildWrites, Active
    <2> DEFINE h == Head(cheld[seg])
               t == Tail(cheld[seg])
               P == All(seg, pipe[seg])
               R == ForFd1(buf)
    <2>2. /\ UNCHANGED <<page, seg, fd1, buf, pipe, held, printed>>
          /\ out' = Append(out, h) /\ cheld' = [cheld EXCEPT ![seg] = t]
          /\ child' = [child EXCEPT ![seg] = "running"]
      BY <1>11, <1>k, <2>1 DEF ChildWrites, Emits, filters
    <2>3. h \in Chunks /\ t \in Seq(Chunks) /\ cheld[seg] = <<h>> \o t /\ P \in Seq(Chunks)
      BY <2>1, Take, AllChunks
    <2>4. Middle = (<<h>> \o t) \o P
      BY <2>1, <2>3 DEF Middle, InChild
    <2>5. Middle' = t \o P
      <3>1. InChild(seg)' = cheld'[seg] \o All(seg, pipe'[seg])
        BY <2>2 DEF InChild, All, Filtered
      <3>2. cheld'[seg] = t /\ pipe'[seg] = pipe[seg]
        BY <1>b, <2>1, <2>2
      <3>3. seg' = seg /\ Active' # {} /\ seg \in Segs'
        BY <1>b, <2>1, <2>2 DEF Active
      <3> QED
        BY <3>1, <3>2, <3>3 DEF Middle
    <2>6. R' = R
      BY <1>f, <2>2
    <2>7. printed = out \o Middle \o R \o held
      BY DEF Conserved
    <2> HIDE DEF h, t, P, R
    <2>8. <<h>> \in Seq(Chunks) /\ out \in Seq(Chunks) /\ t \o P \in Seq(Chunks)
      BY <1>a, <2>3, ConcatProperties
    <2>9. Middle = <<h>> \o (t \o P)
      BY <2>3, <2>4, <2>8, Join
    <2>10. Append(out, h) \o (t \o P) = out \o (<<h>> \o (t \o P))
      BY <2>3, <2>8, ShiftFirst
    <2>11. printed = Append(out, h) \o (t \o P) \o R \o held
      BY <2>7, <2>9, <2>10
    <2> QED
      BY <2>2, <2>5, <2>6, <2>11 DEF Conserved, R
  <1>15. ASSUME NEW c \in Segs, ChildExits(c) PROVE Conserved'
    <2>1. c = seg /\ seg \in Active /\ seg \in Segs /\ pipe[seg] = <<>> /\ cheld[seg] = <<>>
      BY <1>15, <1>b, <1>k DEF ChildExits, InputEnded, Active
    <2>2. /\ UNCHANGED <<page, seg, fd1, buf, held, out, printed>>
          /\ child' = [child EXCEPT ![seg] = "ended"]
      BY <1>15, <2>1 DEF ChildExits, filters
    <2>3. Middle = <<>>
      <3>1. <<>> \o <<>> = <<>>
        BY ChunksJoin
      <3> QED
        BY <2>1, <3>1, AllEmpty DEF Middle, InChild
    <2>4. Active' = {}
      BY <1>b, <1>k, <2>1, <2>2 DEF Active
    <2>5. Middle' = <<>>
      BY <2>4 DEF Middle
    <2> QED
      BY <1>c, <1>f, <2>2, <2>3, <2>5
  <1>12. ASSUME NEW c \in Segs, Execs(c) PROVE Conserved'
    <2>1. /\ UNCHANGED <<page, seg, fd1, buf, held, out, printed, pipe, cheld>>
          /\ child[c] = "forked" /\ child' = [child EXCEPT ![c] = "running"]
      BY <1>12 DEF Execs, filters
    <2>2. Active' = Active
      BY <1>b, <2>1 DEF Active
    <2>3. Middle' = Middle
      BY <2>1, <2>2 DEF Middle, InChild, All
    <2> QED
      BY <1>c, <1>f, <2>1, <2>3
  <1>13. ASSUME NEW c \in Segs, ExecFails(c) \/ ChildKilled(c) PROVE FALSE
    <2>1. page' = page /\ child'[c] \in {"failed", "killed"}
      BY <1>13, <1>b, <1>k DEF ExecFails, ChildKilled, Emits
    <2> QED
      BY <2>1 DEF Healthy
  <1>14. CASE UNCHANGED vars
    <2>1. UNCHANGED <<page, seg, pipe, child, cheld, fd1, buf, out, printed, held>>
      BY <1>14 DEF vars, childs, filters
    <2> QED
      BY <1>c, <1>d, <1>f, <2>1
  <1> QED
    BY <1>1, <1>2, <1>3, <1>4, <1>5, <1>6, <1>7, <1>8, <1>9, <1>10, <1>11, <1>15, <1>12, <1>13, <1>14
    DEF Next, Process, Child, Faults, Die, WaitpidKilled

-----------------------------------------------------------------------------
(* The theorems *)

\* When the process is done nothing is left on the way, and what was printed is
\* the page.
LEMMA DoneIsWhole ==
  ASSUME TypeOK, FilterInv, ChildInv, PrintedInv, Conserved, state = "done"
  PROVE  InOrder(out) /\ Adjacent(LastAt(out, Len(out)), <<Len(page) + 1, 1>>)
  <1>a. /\ Segs = 1..Len(page) /\ Len(page) \in Nat /\ None # 0
        /\ \A s \in Segs : s \in Nat
        /\ seg \in 1..(Len(page) + 1)
    BY PageShape DEF TypeOK
  <1>1. seg \notin Segs /\ pos = 0 /\ buf = <<>> /\ saved = None /\ hook = None /\ held = <<>> /\ fd1 = 0
    <2>1. deaths = 0 /\ seg \notin Segs /\ buf = <<>> /\ pos = 0
      BY DEF FilterInv
    <2>2. saved = None /\ leaked = {}
      BY <2>1 DEF FilterInv, Redirected
    <2>3. hook = None
      BY <1>a, <2>1 DEF FilterInv, Redirected, TypeOK
    <2> QED
      BY <2>1, <2>2, <2>3 DEF FilterInv, Redirected
  <1>2. seg = Len(page) + 1
    BY <1>a, <1>1
  <1>3. out = printed
    <2>1. Middle = <<>>
      BY <1>1 DEF Middle
    <2>2. ForFd1(buf) = <<>>
      BY <1>1 DEF ForFd1
    <2>3. out \o <<>> = out
      BY ChunksJoin DEF TypeOK
    <2> QED
      BY <1>1, <2>1, <2>2, <2>3 DEF Conserved
  <1> DEFINE a == LastAt(out, Len(out))
  <1>4. InOrder(out) /\ Reached(a)
    BY <1>3 DEF PrintedInv, FilterInv
  <1>5. a # <<seg, pos>>
    <2>1. Len(out) \in Nat /\ DOMAIN out = 1..Len(out)
      BY DEF TypeOK
    <2>2. CASE Len(out) = 0
      BY <1>a, <2>2 DEF LastAt
    <2>3. CASE Len(out) # 0
      <3>1. out[Len(out)].at[1] \in Segs
        BY <1>4, <2>1, <2>3 DEF InOrder
      <3> QED
        BY <1>1, <2>3, <3>1 DEF LastAt
    <2> QED
      BY <2>2, <2>3
  <1> HIDE DEF a
  <1>6. Adjacent(a, <<Len(page) + 1, 1>>)
    BY <1>2, <1>4, <1>5 DEF Reached, Adjacent
  <1> QED
    BY <1>4, <1>6 DEF a

FilterSafe == /\ TypeOK /\ FilterInv /\ ChildInv /\ PrintedInv
              /\ deaths = 0 /\ Healthy => Conserved

LEMMA FilterIsSafe == Spec => []FilterSafe
  <1>1. Init => FilterSafe
    BY InitProcess, InitChildren, InitPrinted, InitConserved DEF FilterSafe
  <1>2. FilterSafe /\ [Next]_vars => FilterSafe'
    <2> SUFFICES ASSUME FilterSafe, [Next]_vars PROVE FilterSafe'
      OBVIOUS
    <2>1. TypeOK' /\ FilterInv' /\ ChildInv' /\ PrintedInv'
      BY NextProcess, NextChildren, NextPrinted DEF FilterSafe
    <2>2. ASSUME deaths' = 0, Healthy' PROVE Conserved'
      BY <2>1, <2>2, HealthLasts, NextConserved DEF FilterSafe
    <2> QED
      BY <2>1, <2>2 DEF FilterSafe
  <1> QED
    BY <1>1, <1>2, PTL DEF Spec

\* In a request that does not die the buffer of stdout, a pipe, a child and a
\* script lose no chunk, double none and keep their order, until a filter is
\* killed or cannot be started: whatever was printed is, in its order, out or in
\* one of them, and one child is alive at most.
THEOREM FiltersLoseNothing == Spec => []NothingLost
  <1>1. FilterSafe => NothingLost
    <2> SUFFICES ASSUME FilterSafe, deaths = 0, Healthy PROVE NothingLost
      BY DEF NothingLost
    <2> QED
      BY ConservedByParts DEF FilterSafe
  <1> QED
    BY <1>1, FilterIsSafe, PTL

\* All that a run checks of the output: besides, a request that ends without
\* dying, and none of whose filters failed, has put out its whole page, every
\* chunk through its own filter and no other.
THEOREM OutputIsRight == Spec => []OutputInv
  <1>1. FilterSafe => PageWhole
    <2>1. TypeOK /\ FilterInv /\ state = "done" => deaths = 0
      BY DEF FilterInv
    <2> QED
      BY <2>1, DoneIsWhole DEF FilterSafe, PageWhole
  <1>2. FilterSafe => NothingLost
    <2> SUFFICES ASSUME FilterSafe, deaths = 0, Healthy PROVE NothingLost
      BY DEF NothingLost
    <2> QED
      BY ConservedByParts DEF FilterSafe
  <1>3. FilterSafe => OneFilter
    BY DEF FilterSafe, FilterInv, ChildInv, OneFilter
  <1>4. FilterSafe => OutputInv
    BY <1>1, <1>2, <1>3 DEF FilterSafe, OutputInv
  <1> QED
    BY <1>4, FilterIsSafe, PTL
=============================================================================
