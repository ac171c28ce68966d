-------------------------------- MODULE Refs --------------------------------
(***************************************************************************)
(* The branches and tags of a repository (ui-refs.c, ui-tag.c, the summary *)
(* page) and the snapshots to download.  A link to a snapshot does not     *)
(* name the revision but a file; the page snapshot guesses the revision    *)
(* from the name of the file (ui-snapshot.c), one lookup after the other,  *)
(* while others may push.                                                  *)
(*                                                                         *)
(* A name is a sequence of pieces, so that it can begin with the name of   *)
(* the repository or a "v" and end with the suffix of a format.            *)
(***************************************************************************)
EXTENDS Integers, Sequences, SequencesExt, FiniteSets

CONSTANTS
  None,
  Base,      \* cgit_snapshot_prefix(): the name of the repository
  Digits,    \* the pieces that begin with a digit
  Id,        \* the id of a commit
  Names,     \* the names of branches, in the order of strcmp()
  Repos,     \* the repositories to look at: tags, heads and conf
  Files,     \* the requests for a snapshot that a client may type
  NewRefs,   \* the references a push may bring
  IntMax,    \* the largest int
  MaxPushes  \* how many pushes there are

\* A name is a sequence of pieces, and no piece with a digit is a separator.
IsName(n) == n # <<>> /\ n \in Seq(ToSet(n))
ASSUME RefsAssumption ==
  /\ IntMax \in Nat /\ MaxPushes \in Nat
  /\ IsName(Base) /\ IsName(Id) /\ Digits \cap {"-", "_"} = {}
  /\ \A r \in NewRefs : r.date \in Nat

VARIABLES
  tags,    \* for each tag what it is and its date
  heads,   \* for each branch its date
  conf,    \* the limits of the summary, branch-sort, the formats, who is signed
  asked,   \* the page and its arguments
  step,    \* what it does next
  rows,    \* the rows that have been printed
  links,   \* the links to snapshots among them
  name, format, sig,   \* local variables of cgit_print_snapshot()
  answer,  \* what was sent as a snapshot
  pushes,
  was,     \* the references when the rows were printed
  link     \* the link the client came by

repo == <<tags, heads, conf>>
snap == <<name, format, sig, answer>>
vars == <<repo, asked, step, rows, links, snap, pushes, was, link>>

-----------------------------------------------------------------------------
(* References *)

Rev(kind, of) == [kind |-> kind, of |-> of]
Nothing       == Rev("nothing", <<>>)

\* repo_get_oid(): ids, then tags, then branches.
Resolve(n) ==
  IF n = Id THEN Rev("id", n)
  ELSE IF n \in DOMAIN tags THEN Rev("tag", n)
  ELSE IF n \in DOMAIN heads THEN Rev("head", n)
  ELSE Nothing
IsTag(n) == n \in DOMAIN tags

\* The object a tag names, or the one the tag object names.
IsCommit(r) ==
  CASE r.kind = "tag"            -> tags[r.of].what \in {"commit", "tag of commit", "tag of tag"}
    [] r.kind \in {"id", "head"} -> TRUE
    [] OTHER                     -> FALSE

-----------------------------------------------------------------------------
(* The lists *)

AsInt(d) == ((d + IntMax + 1) % (2 * (IntMax + 1))) - (IntMax + 1)
CmpAge(d, e) == AsInt(AsInt(e) - AsInt(d))

\* qsort(): equals in any order, and any order if the comparison contradicts itself.
Consistent(date) ==
  \A l, m, n \in DOMAIN date :
    /\ CmpAge(date[l], date[m]) < 0 <=> CmpAge(date[m], date[l]) > 0
    /\ CmpAge(date[l], date[m]) <= 0 /\ CmpAge(date[m], date[n]) <= 0 => CmpAge(date[l], date[n]) <= 0
ByAge(date) ==
  {s \in SetToSeqs(DOMAIN date) :
     Consistent(date) => \A j, k \in DOMAIN s : j < k => CmpAge(date[s[j]], date[s[k]]) <= 0}
Before(m, n) == \E p, q \in 1..Len(Names) : p < q /\ Names[p] = m /\ Names[q] = n
ByName(s) == {t \in SetToSeqs(ToSet(s)) : \A j, k \in DOMAIN t : j < k => Before(t[j], t[k])}

Cut(max, refs) == IF max = 0 \/ max > Cardinality(DOMAIN refs) THEN Cardinality(DOMAIN refs) ELSE max
RowsOf(kind, s) == [n \in 1..Len(s) |-> [kind |-> kind, name |-> s[n]]]
More(kind, max, refs) ==
  IF Cut(max, refs) < Cardinality(DOMAIN refs) THEN <<[kind |-> "more", name |-> <<kind>>]>> ELSE <<>>

CutByName(s, max, refs) ==   \* mutant: all are sorted by name, then cut
  IF conf.byAge THEN {SubSeq(s, 1, Cut(max, refs))} ELSE {SubSeq(t, 1, Cut(max, refs)) : t \in ByName(s)}
CutSorted(s, max, refs) ==
  LET newest == SubSeq(s, 1, Cut(max, refs)) IN IF conf.byAge THEN {newest} ELSE ByName(newest)

\* get_ref_age()
AgeOf(t) == [n \in DOMAIN t |-> IF t[n].what = "blob" THEN 0 ELSE t[n].date]
TagDate  == AgeOf(tags)

-----------------------------------------------------------------------------
(* The links to snapshots *)

Formats ==
  << <<".tar">>, <<".tar", ".gz">>, <<".tar", ".bz2">>, <<".tar", ".lz">>, <<".tar", ".xz">>, <<".tar", ".zst">>, <<".zip">> >>

\* The repositories have names, dates, limits and formats.
HaveDates(t, h) ==
  /\ IsFiniteSet(DOMAIN t) /\ \A n \in DOMAIN t : t[n].date \in Nat
  /\ IsFiniteSet(DOMAIN h) /\ \A n \in DOMAIN h : h[n] \in Nat
ASSUME ReposAssumption ==
  \A r \in Repos :
    /\ HaveDates(r.tags, r.heads) /\ \A n \in DOMAIN r.tags \cup DOMAIN r.heads : IsName(n)
    /\ r.conf.branches \in Nat /\ r.conf.tags \in Nat /\ r.conf.mask \subseteq 1..Len(Formats)

\* cgit_compose_snapshot_prefix(): the "v" of a version is left out if that is no
\* other tag.
WithoutV(n) == Tail(n)
Version(n)  == IsTag(n) /\ n[1] \in {"v", "V"} /\ Len(n) > 1 /\ n[2] \in Digits
Spellings(n) == {WithoutV(n), <<"v">> \o WithoutV(n), <<"V">> \o WithoutV(n)}
Pretty(n)   == Version(n) /\ Cardinality({m \in Spellings(n) : IsTag(m)}) = 1
ComposeAlways(n) ==   \* mutant: other tags are not looked at
  Base \o <<"-">> \o (IF Version(n) THEN WithoutV(n) ELSE n)
Compose(n) == Base \o <<"-">> \o (IF Pretty(n) THEN WithoutV(n) ELSE n)

\* cgit_print_snapshot_links(): the archives, and a signature for each that has one
\* or whose .tar has one.
Signed(n, f) == <<Resolve(n), f>> \in conf.signed
SigFormat(n, f) ==
  IF Signed(n, f) THEN {f} ELSE IF Formats[f][1] = ".tar" /\ Signed(n, 1) THEN {1} ELSE {}
FileStem(n) == IF IsPrefix(Base, n) THEN n ELSE Compose(n)
LinkTo(n, f, asc) ==
  [file |-> FileStem(n) \o Formats[f] \o asc, of |-> Resolve(n), format |-> f, sig |-> asc # <<>>]
SnapshotLinks(n) ==
  UNION {{LinkTo(n, f, <<>>)} \cup {LinkTo(n, g, <<".asc">>) : g \in SigFormat(n, f)} : f \in conf.mask}

-----------------------------------------------------------------------------
(* The pages *)

NoAnswer == [kind |-> "none", rev |-> Nothing, format |-> 0]
Page(p, arg) == [page |-> p, arg |-> arg, id |-> None, head |-> None]
Init ==
  /\ \E r \in Repos : tags = r.tags /\ heads = r.heads /\ conf = r.conf
  /\ \/ asked \in {Page("summary", None), Page("refs", "heads"), Page("refs", "tags"), Page("refs", None)}
     \/ asked \in Files
     \/ \E n \in DOMAIN heads \cup {Id} : asked = Page("commit", n)
  /\ step = "begin" /\ rows = <<>> /\ links = {} /\ pushes = 0
  /\ name = <<>> /\ format = 0 /\ sig = FALSE /\ answer = NoAnswer
  /\ was = [tags |-> tags, heads |-> heads] /\ link = None

LimitOf(of) == IF asked.page = "refs" THEN 0 ELSE IF of = "heads" THEN conf.branches ELSE conf.tags

\* cgit_print_branches()
PrintBranches ==
  /\ step = "begin" /\ asked.page \in {"summary", "refs"}
  /\ IF asked.page = "refs" /\ asked.arg = "tags"
       THEN UNCHANGED <<rows, was>>
       ELSE /\ \E s \in ByAge(heads) : \E t \in CutSorted(s, LimitOf("heads"), heads) :
                 rows' = rows \o RowsOf("branch", t) \o More("heads", LimitOf("heads"), heads)
            /\ was' = [was EXCEPT !.heads = heads]
  /\ step' = IF asked.page = "refs" /\ asked.arg = "heads" THEN "done" ELSE "tags"
  /\ UNCHANGED <<repo, asked, links, snap, pushes, link>>

\* cgit_print_tags(): a tag of something else than a commit has a link to that.
PrintTags ==
  /\ step = "tags"
  /\ \E s \in ByAge(TagDate) :
       LET shown == SubSeq(s, 1, Cut(LimitOf("tags"), tags))
           load  == {n \in ToSet(shown) : tags[n].what \in {"commit", "tag of commit"}}
       IN  /\ rows' = rows \o RowsOf("tag", shown) \o More("tags", LimitOf("tags"), tags)
           /\ links' = UNION {SnapshotLinks(n) : n \in load}
  /\ was' = [was EXCEPT !.tags = tags]
  /\ step' = "done"
  /\ UNCHANGED <<repo, asked, snap, pushes, link>>

\* cgit_print_tag(), whatever the tag is of, and cgit_print_commit()
PrintTag ==
  /\ step = "begin" /\ asked.page = "tag"
  /\ IF IsTag(asked.arg) THEN links' = SnapshotLinks(asked.arg) /\ step' = "done"
                         ELSE links' = links /\ step' = "error"
  /\ UNCHANGED <<repo, asked, rows, snap, pushes, was, link>>
PrintCommit ==
  /\ step = "begin" /\ asked.page = "commit"
  /\ IF IsCommit(Resolve(asked.arg)) THEN links' = SnapshotLinks(asked.arg) /\ step' = "done"
                                     ELSE links' = links /\ step' = "error"
  /\ UNCHANGED <<repo, asked, rows, snap, pushes, was, link>>

-----------------------------------------------------------------------------
(* The page snapshot *)

Stem(file, suffix) == SubSeq(file, 1, Len(file) - Len(suffix))
FormatOf(file) == {f \in 1..Len(Formats) : IsSuffix(Formats[f], file)}

PrintSnapshot ==
  /\ step = "begin" /\ asked.page = "snapshot"
  /\ LET asc  == IsSuffix(<<".asc">>, asked.arg)
         file == IF asc THEN Stem(asked.arg, <<".asc">>) ELSE asked.arg
         fits == FormatOf(file)
         f    == CHOOSE g \in fits : \A h \in fits : g <= h
     IN  IF fits = {} \/ (~asc /\ f \notin conf.mask)
           THEN step' = "error" /\ UNCHANGED <<name, format, sig>>
           ELSE /\ format' = f /\ sig' = asc
                /\ IF asked.id = None /\ asked.head = None
                     THEN name' = Stem(file, Formats[f]) /\ step' = "whole"
                     ELSE name' = (IF asked.id # None THEN asked.id ELSE asked.head) /\ step' = "write"
  /\ UNCHANGED <<repo, asked, rows, links, answer, pushes, was, link>>

\* get_ref_from_filename(): four lookups.
WithoutBase(n) ==
  IF ~IsPrefix(Base, n) THEN n
  ELSE LET rest  == SubSeq(n, Len(Base) + 1, Len(n))
           first == SelectInSeq(rest, LAMBDA c : c \notin {"-", "_"})
       IN  IF first = 0 THEN <<>> ELSE SubSeq(rest, first, Len(rest))
Lookup(at, next, changed) ==
  /\ step = at
  /\ IF Resolve(name) # Nothing THEN step' = "write" /\ name' = name
                                ELSE step' = next /\ name' = changed
  /\ UNCHANGED <<repo, asked, rows, links, format, sig, answer, pushes, was, link>>
TryWhole  == Lookup("whole", "rest", WithoutBase(name))
TryRest   == Lookup("rest", "v", <<"v">> \o name)
TrySmallV == Lookup("v", "V", <<"V">> \o Tail(name))
TryBigV   == Lookup("V", "error", name)

\* make_snapshot(), write_sig()
Write ==
  /\ step = "write"
  /\ LET rev == Resolve(name)
         ok  == IF sig THEN <<rev, format>> \in conf.signed ELSE IsCommit(rev)
     IN  /\ step' = IF ok THEN "done" ELSE "error"
         /\ answer' = IF ok THEN [kind |-> IF sig THEN "signature" ELSE "archive", rev |-> rev, format |-> format] ELSE answer
  /\ UNCHANGED <<repo, asked, rows, links, name, format, sig, pushes, was, link>>

-----------------------------------------------------------------------------
(* The client, and the others *)

Ask(p) ==
  /\ asked' = p /\ step' = "begin" /\ rows' = <<>> /\ links' = {}
  /\ name' = <<>> /\ format' = 0 /\ sig' = FALSE /\ answer' = NoAnswer
  /\ UNCHANGED <<repo, pushes, was>>
ClickLink == step = "done" /\ \E l \in links : Ask(Page("snapshot", l.file)) /\ link' = l
ClickTag  == step = "done" /\ \E r \in ToSet(rows) : r.kind = "tag" /\ Ask(Page("tag", r.name)) /\ link' = None
ClickMore == step = "done" /\ \E r \in ToSet(rows) : r.kind = "more" /\ Ask(Page("refs", r.name[1])) /\ link' = None
With(refs, new, value) == [n \in DOMAIN refs \cup {new} |-> IF n = new THEN value ELSE refs[n]]
Push ==
  /\ pushes < MaxPushes /\ pushes' = pushes + 1
  /\ \E r \in NewRefs :
       IF r.tag THEN tags' = With(tags, r.name, [what |-> "commit", date |-> r.date]) /\ heads' = heads
                ELSE heads' = With(heads, r.name, r.date) /\ tags' = tags
  /\ UNCHANGED <<conf, asked, step, rows, links, snap, was, link>>

Next ==
  \/ PrintBranches \/ PrintTags \/ PrintTag \/ PrintCommit
  \/ PrintSnapshot \/ TryWhole \/ TryRest \/ TrySmallV \/ TryBigV \/ Write
  \/ ClickLink \/ ClickTag \/ ClickMore \/ Push
Spec == Init /\ [][Next]_vars

-----------------------------------------------------------------------------
(* Properties *)

\* The types; a page has no more rows than references and links to more.
TypeOK ==
  /\ step \in {"begin", "tags", "done", "error", "whole", "rest", "v", "V", "write"}
  /\ format \in 0..Len(Formats) /\ sig \in BOOLEAN /\ pushes \in 0..MaxPushes
  /\ Len(rows) <= Cardinality(DOMAIN was.heads) + Cardinality(DOMAIN was.tags)

\* What a list leaves out is not newer than anything it shows, whatever the order
\* it shows it in, and there is a link to the rest (ui-refs.c:169-177, 193).  It
\* shows as many as it may.  This needs dates that are ints.
At(list, kind) == {n \in 1..Len(list) : list[n].kind = kind}
Shows(list, kind, of, date, max) ==
  LET show == {list[n].name : n \in At(list, kind)}
      left == DOMAIN date \ show
  IN  /\ show \subseteq DOMAIN date
      /\ left # {} => /\ Cardinality(At(list, kind)) = max
                      /\ \E n \in At(list, "more") : list[n].name = <<of>>
                      /\ \A n \in show, m \in left : date[m] <= date[n]
      /\ \A j, k \in At(list, kind) : j < k =>
           /\ list[j].name # list[k].name
           /\ IF kind = "branch" /\ ~conf.byAge THEN Before(list[j].name, list[k].name)
                                                ELSE date[list[k].name] <= date[list[j].name]
IntHeads == \A n \in DOMAIN was.heads : was.heads[n] <= IntMax
IntTags  == \A n \in DOMAIN was.tags : was.tags[n].date <= IntMax
ShowsHeads == asked.arg # "tags" => Shows(rows, "branch", "heads", was.heads, LimitOf("heads"))
ShowsTags  == asked.arg # "heads" => Shows(rows, "tag", "tags", AgeOf(was.tags), LimitOf("tags"))
NewestShown ==
  step = "done" /\ asked.page \in {"summary", "refs"} =>
    (IntHeads => ShowsHeads) /\ (IntTags => ShowsTags)

\* A link to a snapshot leads to the revision it was made for: the shortened name
\* of a tag can be turned back.  It cannot if another reference begins with the
\* name of the repository or the reference with a separator, or if a branch or an
\* id has the name of the tag with another "v" or none (ui-shared.c:1195 only looks
\* at tags).
Known     == DOMAIN tags \cup DOMAIN heads \cup {Id}
Others(n) == Known \ {n}
Clear(n) ==
  /\ \A m \in Others(n) : ~IsPrefix(Base, m)
  /\ n[1] \notin {"-", "_"}
  /\ \A v \in {<<>>, <<"v">>, <<"V">>} : n[1] \in {"v", "V"} => v \o Tail(n) \notin (DOMAIN heads \cup {Id}) \ {n}
LinkGivesRevision ==
  link # None /\ pushes = 0 /\ step = "done" /\ asked.page = "snapshot" /\ Clear(link.of.of) => answer.rev = link.of

\* A link to a snapshot leads to what it says, a signature or an archive in its
\* format, never to an error, if it is for a commit (ui-snapshot.c:292 does not ask
\* whether the format of a signature is allowed).
LinkServed ==
  link # None /\ pushes = 0 /\ IsCommit(link.of) /\ Clear(link.of.of) =>
    /\ step # "error"
    /\ step = "done" /\ asked.page = "snapshot" =>
         answer.kind = (IF link.sig THEN "signature" ELSE "archive") /\ answer.format = link.format

\* The lists of references, of whatever length and order.
ListsInv == TypeOK /\ NewestShown

\* A link to a snapshot gives the revision and the format it was made for.
LinkServes == LinkGivesRevision /\ LinkServed

-----------------------------------------------------------------------------
(* Why ListsInv holds: the invariant RefsProofs proves it from.  Between the two *)
(* lists the rows are those of the branches, and none is a tag.                  *)

RowsInv ==
  /\ ListsInv
  /\ conf.branches \in Nat /\ conf.tags \in Nat
  /\ HaveDates(tags, heads) /\ HaveDates(was.tags, was.heads) /\ was = [tags |-> was.tags, heads |-> was.heads]
  /\ step = "begin" => rows = <<>>
  /\ step \in {"whole", "rest", "v", "V", "write"} => asked.page \notin {"summary", "refs"}
  /\ step = "tags" =>
       /\ asked.page \in {"summary", "refs"}
       /\ rows \in Seq(ToSet(rows)) /\ Len(rows) <= Cardinality(DOMAIN was.heads)
       /\ \A n \in 1..Len(rows) : rows[n].kind \in {"branch", "more"}
       /\ IntHeads => ShowsHeads

-----------------------------------------------------------------------------
(* Why LinkServes holds: the invariant RefsProofs proves it from. *)

\* Until others push, the names of the references are those the links are made of.
Unpushed == \E r \in Repos : tags = r.tags /\ heads = r.heads /\ conf = r.conf
IsLink(l) == \E n \in Known : l \in SnapshotLinks(n)

\* What is looked up for a link to n: the name of the file, then what is behind the
\* name of the repository, then that with either "v".
Guessing(n) ==
  /\ step = "whole" => name = FileStem(n)
  /\ step = "rest"  => ~IsPrefix(Base, n) /\ name = IF Pretty(n) THEN WithoutV(n) ELSE n
  /\ step = "v"     => ~IsPrefix(Base, n) /\ Pretty(n) /\ name = <<"v">> \o WithoutV(n)
  /\ step = "V"     => Pretty(n) /\ name = n
  /\ step = "write" => name = n
Serves(l) ==
  /\ Guessing(l.of.of)
  /\ step \in {"whole", "rest", "v", "V", "write"} => format = l.format /\ sig = l.sig
  /\ step = "done" =>
       answer = [kind |-> IF l.sig THEN "signature" ELSE "archive", rev |-> l.of, format |-> l.format]
  /\ step = "error" => ~l.sig /\ ~IsCommit(l.of)
GuessInv ==
  /\ pushes \in Nat
  /\ pushes = 0 =>
       /\ Unpushed
       /\ step = "tags" => asked.page \in {"summary", "refs"}
       /\ \A l \in links : IsLink(l)
       /\ link # None => /\ IsLink(link) /\ asked = Page("snapshot", link.file)
                         /\ Clear(link.of.of) => Serves(link)
=============================================================================
