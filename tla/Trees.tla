------------------------------- MODULE Trees -------------------------------
(***************************************************************************)
(* The pages that look for a path in the tree of a commit: tree, plain,    *)
(* blame, blob and the readme of the page about (ui-tree.c, ui-plain.c,    *)
(* ui-blame.c, ui-blob.c, ui-summary.c).                                   *)
(*                                                                         *)
(* read_tree() of git walks the tree and calls walk_tree() of the page for *)
(* every entry its pathspec lets through; what the callback returns tells  *)
(* it to enter a directory.  The page is printed by the callbacks while    *)
(* the walk goes on.  A path is a sequence of names (without wildcards);   *)
(* where the code compares the lengths of two paths one of which is a      *)
(* prefix of the other, so does the model.                                 *)
(***************************************************************************)
EXTENDS Integers, Sequences, SequencesExt, FiniteSets

CONSTANTS
  None,       \* no path
  Names,      \* the names of entries, in the order of git
  Trees,      \* the trees of the commit: [path -> kind]
  Asked,      \* the paths a client asks for
  Readmes     \* the readme files of the repository that are tracked in it

\* A blob that is text, binary, or larger than max-blob-size; a symbolic link; a
\* submodule; an entry whose object can't be read; a directory.
Blobs == {"text", "binary", "big"}
Kinds == Blobs \cup {"link", "sub", "bad", "dir"}
Pages == {"tree", "plain", "blame", "blob", "about"}

\* What a revision may be the name of: a commit, an annotated tag of it, another
\* object, nothing.
Revs == {"commit", "tag", "notcommit", "unknown"}
Peels == {"commit", "tag"}   \* lookup_commit_reference() finds the commit

Paths == Seq(Range(Names)) \ {<<>>}

\* A tree is finite, a directory is not empty, and what an entry is in is a
\* directory.
ASSUME TreesAssumption ==
  /\ Names \in Seq(Range(Names)) /\ \A i, j \in 1..Len(Names) : Names[i] = Names[j] => i = j
  /\ None \notin Paths /\ Asked \subseteq Paths \cup {None} /\ Readmes \in Seq(Paths)
  /\ \A t \in Trees :
       /\ DOMAIN t \subseteq Paths /\ IsFiniteSet(DOMAIN t)
       /\ \A p \in DOMAIN t :
            /\ t[p] \in Kinds
            /\ t[p] = "dir" => \E q \in DOMAIN t : Len(q) = Len(p) + 1 /\ IsPrefix(p, q)
            /\ \A k \in 1..(Len(p) - 1) :
                 SubSeq(p, 1, k) \in DOMAIN t /\ t[SubSeq(p, 1, k)] = "dir"

VARIABLES
  tree,       \* the tree of the commit
  page, rev, path,   \* ctx.qry
  pc,         \* where the page is
  todo,       \* the directories read_tree() is in: [base, names it has not read]
  state,      \* walk_tree_context: state, match or found_path
  readme,     \* the readme that is looked for, or was chosen
  out         \* what was printed

vars == <<tree, page, rev, path, pc, todo, state, readme, out>>

Kind(p) == IF p \in DOMAIN tree THEN tree[p] ELSE "none"
Entries(dir) == {n \in Range(Names) : Append(dir, n) \in DOMAIN tree}

\* n comes before m in a directory.
Before(n, m) == \E i, j \in 1..Len(Names) : i < j /\ Names[i] = n /\ Names[j] = m

Emit(events) == out' = out \o events
PageStart == <<"head", <<>>>>
PageEnd == <<"tail", <<>>>>
Object(p) == <<"object", p>>
Item(p)   == <<"item", p>>
Note(n)   == <<"note", n>>
\* cgit_print_error_page()
ErrorPage(code) == <<PageStart, <<"error", code>>, PageEnd>>

Init ==
  /\ tree \in Trees
  /\ page \in Pages /\ rev \in Revs /\ path \in Asked
  /\ page = "about" => rev # "unknown"
  /\ pc = "begin"
  /\ todo = <<>> /\ state = 0 /\ readme = 0 /\ out = <<>>

-----------------------------------------------------------------------------
(* read_tree() of git *)

\* What it looks for: the path of the request, or the readme.
Dirname(p) == Front(p)
Sought ==
  IF page # "about" THEN path
  ELSE IF pc = "choose" \/ path = None THEN Readmes[readme]
  ELSE Dirname(Readmes[readme]) \o path

StartWalk == todo' = <<[base |-> <<>>, names |-> Entries(<<>>)]>>

Interesting(p) ==
  \/ Sought = None
  \/ IsPrefix(Sought, p)
  \/ IsPrefix(p, Sought) /\ Kind(p) \in {"dir", "sub"}

\* The pages' walk_tree(), at one entry: whether to enter it, the state it
\* leaves, and what it prints.
Answer(enter, st, events) == [enter |-> enter, state |-> st, out |-> events]

\* ui-tree.c print_object() leaves the end of the page to cgit_print_tree().
TreeObjectEnds(p) ==   \* mutant: it ends the page itself
  IF Kind(p) \in {"bad", "sub"} THEN ErrorPage("404") ELSE <<PageStart, Object(p), PageEnd>>
TreeObject(p) ==
  IF Kind(p) \in {"bad", "sub"} THEN ErrorPage("404")
  ELSE IF Kind(p) = "big" THEN <<PageStart, Note("big")>> ELSE <<PageStart, Object(p)>>

\* write_tree_link(): the directories it goes through while each holds nothing
\* but another.
Below(t, p) == {q \in DOMAIN t : Len(q) = Len(p) + 1 /\ IsPrefix(p, q)}
Through(t, p) ==
  {q \in DOMAIN t : IsPrefix(p, q) /\ \A k \in Len(p)..(Len(q) - 1) :
                      LET r == SubSeq(q, 1, k + 1) IN t[r] = "dir" /\ Below(t, SubSeq(q, 1, k)) = {r}}
Chain(t, p) == CHOOSE q \in Through(t, p) : \A r \in Through(t, p) : Len(r) <= Len(q)
ListItem(p) == <<Item(Chain(tree, p))>>

TreeEntry(p) ==
  IF state = 0 THEN
    IF p # path THEN Answer(TRUE, 0, <<>>)
    ELSE IF Kind(p) = "dir" THEN Answer(TRUE, 1, <<PageStart>>)
    ELSE Answer(FALSE, 2, TreeObject(p))
  ELSE Answer(FALSE, state, ListItem(p))

\* ui-plain.c: the length of the base tells whether this is the entry of the
\* path, one in its directory, or one on the way.
BaseLenNoSlash == IF path = None THEN -1 ELSE Len(path)   \* mutant: one too long
BaseLen == IF path = None THEN -1 ELSE Len(path) - 1
PlainEntry(p) ==
  LET len == Len(p) - 1
  IN  CASE len = BaseLen /\ Kind(p) = "bad"                 -> Answer(FALSE, state, ErrorPage("404"))
        [] len = BaseLen /\ Kind(p) \in Blobs \cup {"link"} -> Answer(FALSE, 1, <<Object(p)>>)
        [] len = BaseLen /\ Kind(p) = "dir"                 -> Answer(TRUE, 2, <<Note("dir")>>)
        [] len = BaseLen /\ Kind(p) = "sub"                 -> Answer(FALSE, state, <<>>)
        [] len > BaseLen                                    -> Answer(FALSE, 2, <<Item(p)>>)
        [] len < BaseLen                                    -> Answer(Kind(p) = "dir", state, <<>>)

\* ui-blame.c print_object(): a binary or too large file has no end of page.
BlameObject(p) ==
  CASE Kind(p) = "bad"              -> ErrorPage("404")
    [] Kind(p) \in {"binary", "big"} -> <<PageStart, Note(Kind(p))>>
    [] OTHER                        -> <<PageStart, Object(p), PageEnd>>
BlameEntry(p) ==
  LET len == Len(p) - 1
  IN  CASE len = BaseLen /\ Kind(p) \in Blobs \cup {"bad"} -> Answer(FALSE, 1, BlameObject(p))
        [] len = BaseLen /\ Kind(p) = "dir"                -> Answer(FALSE, 2, <<>>)
        [] len = BaseLen /\ Kind(p) \in {"link", "sub"}    -> Answer(FALSE, state, <<>>)
        [] len > BaseLen                                   -> Answer(FALSE, 2, <<>>)
        [] len < BaseLen                                   -> Answer(Kind(p) = "dir", state, <<>>)

\* ui-blob.c: a readme is only looked for among files.
Regular(p) == Kind(p) \in Blobs \cup {"bad"}
BlobAnyEntry(p) ==   \* mutant: file_only is forgotten
  IF p # Sought THEN Answer(TRUE, state, <<>>) ELSE Answer(FALSE, 1, <<>>)
BlobEntry(p) ==
  IF (page = "about" /\ ~Regular(p)) \/ p # Sought
    THEN Answer(TRUE, state, <<>>) ELSE Answer(FALSE, 1, <<>>)

Entry(p) ==
  CASE page = "tree"  -> TreeEntry(p)
    [] page = "plain" -> PlainEntry(p)
    [] page = "blame" -> BlameEntry(p)
    [] OTHER          -> BlobEntry(p)

Walking == pc \in {"walk", "choose"} /\ todo # <<>>
Top     == Last(todo)

\* The next entry: one that is not let through is passed over.  A submodule has
\* no tree in this repository, and git dies.
Visit ==
  /\ Walking
  /\ \E n \in Top.names :
       /\ \A m \in Top.names : m = n \/ Before(n, m)
       /\ LET p    == Append(Top.base, n)
              rest == Append(Front(todo), [base |-> Top.base, names |-> Top.names \ {n}])
              a    == IF Interesting(p) THEN Entry(p) ELSE Answer(FALSE, state, <<>>)
          IN  /\ state' = a.state
              /\ IF a.enter /\ Kind(p) = "sub"
                   THEN pc' = "done" /\ todo' = <<>> /\ Emit(a.out \o ErrorPage("400"))
                   ELSE /\ UNCHANGED pc /\ Emit(a.out)
                        /\ todo' = IF a.enter /\ Kind(p) = "dir"
                                     THEN Append(rest, [base |-> p, names |-> Entries(p)])
                                     ELSE rest
  /\ UNCHANGED <<tree, page, rev, path, readme>>

Leave ==
  /\ Walking /\ Top.names = {}
  /\ todo' = Front(todo)
  /\ UNCHANGED <<tree, page, rev, path, pc, state, readme, out>>

-----------------------------------------------------------------------------
(* The pages *)

Finish(events) == pc' = "done" /\ Emit(events) /\ UNCHANGED <<todo, state, readme>>
Walk(st, events) == pc' = "walk" /\ StartWalk /\ state' = st /\ Emit(events) /\ UNCHANGED readme

\* cgit_print_tree(), cgit_print_plain(), cgit_print_blame() and
\* cgit_print_blob() up to read_tree().
PrintTree ==
  IF rev \notin Peels THEN Finish(ErrorPage("404"))
  ELSE IF path = None THEN Walk(1, <<PageStart>>) ELSE Walk(0, <<>>)

PrintPlain ==
  IF rev \notin Peels THEN Finish(ErrorPage("404"))
  ELSE IF path = None THEN Walk(2, <<Note("dir")>>) ELSE Walk(0, <<>>)

PrintBlame == IF rev \notin Peels THEN Finish(ErrorPage("404")) ELSE Walk(0, <<>>)

PrintBlob ==
  IF rev = "unknown" THEN Finish(ErrorPage("404"))
  ELSE IF rev = "commit" /\ path # None THEN Walk(0, <<>>) ELSE Finish(<<Note("object")>>)

Begin ==
  /\ pc = "begin"
  /\ \/ page = "tree"  /\ PrintTree
     \/ page = "plain" /\ PrintPlain
     \/ page = "blame" /\ PrintBlame
     \/ page = "blob"  /\ PrintBlob
  /\ UNCHANGED <<tree, page, rev, path>>

\* ... and after it.  cgit_print_blob() does not ask whether the path was found:
\* the object is the commit then.
TreeEnd  == IF state = 0 THEN ErrorPage("404") ELSE <<PageEnd>>
PlainEnd == CASE state = 0 -> ErrorPage("404") [] state = 1 -> <<>> [] state = 2 -> <<Note("end")>>
BlameEnd == IF state = 1 THEN <<>> ELSE ErrorPage("404")
BlobEnd  ==
  CASE state = 0                      -> <<Note("commit")>>
    [] Kind(path) \in {"bad", "sub"}  -> ErrorPage("404")
    [] OTHER                          -> <<Object(path)>>

End ==
  /\ pc = "walk" /\ todo = <<>>
  /\ \/ page = "tree"  /\ Finish(TreeEnd)
     \/ page = "plain" /\ Finish(PlainEnd)
     \/ page = "blame" /\ Finish(BlameEnd)
     \/ page = "blob"  /\ Finish(BlobEnd)
  /\ UNCHANGED <<tree, page, rev, path>>

\* choose_readme(), with cgit_ref_path_exists(): the first that is a file, and
\* none if the revision is not itself a commit.
NextReadme ==
  /\ page = "about"
  /\ pc = "begin" \/ (pc = "choose" /\ todo = <<>> /\ state = 0)
  /\ IF rev = "commit" /\ readme < Len(Readmes)
       THEN pc' = "choose" /\ readme' = readme + 1 /\ StartWalk /\ UNCHANGED <<state, out>>
       ELSE Finish(<<Note("none")>>)
  /\ UNCHANGED <<tree, page, rev, path>>

\* cgit_print_repo_readme(): the readme, or a file beside it.
PrintReadme ==
  /\ pc = "choose" /\ todo = <<>> /\ state = 1
  /\ Walk(0, <<PageStart>>)
  /\ UNCHANGED <<tree, page, rev, path>>

\* cgit_print_file() prints nothing if it finds no file; nobody asks.
EndReadme ==
  /\ pc = "walk" /\ page = "about" /\ todo = <<>>
  /\ Finish(IF state = 1 /\ Kind(Sought) # "bad" THEN <<Object(Sought), PageEnd>> ELSE <<PageEnd>>)
  /\ UNCHANGED <<tree, page, rev, path>>

Done == pc = "done" /\ UNCHANGED vars

Next == Visit \/ Leave \/ Begin \/ End \/ NextReadme \/ PrintReadme \/ EndReadme \/ Done
Spec == Init /\ [][Next]_vars

-----------------------------------------------------------------------------
(* Properties *)

\* What is printed: by what, and of what.
Events ==
  ({"head", "tail"} \X {<<>>})
    \cup ({"object", "item"} \X Paths)
    \cup ({"note", "error"} \X {"big", "binary", "dir", "end", "none", "object", "commit", "400", "404"})

TypeOK ==
  /\ tree \in Trees /\ page \in Pages /\ rev \in Revs /\ path \in Asked
  /\ pc \in {"begin", "choose", "walk", "done"} /\ state \in 0..2
  /\ readme \in 0..Len(Readmes)
  /\ todo \in Seq([base : Seq(Range(Names)), names : SUBSET Range(Names)])
  /\ \A k \in 1..Len(todo) : \A n \in todo[k].names : Append(todo[k].base, n) \in DOMAIN tree
  /\ out \in Seq(Events)

Printed(what) == {k \in 1..Len(out) : out[k][1] = what}
Shown(what)   == {out[k][2] : k \in Printed(what)}

\* A page is what the client asked for: the object at the path, the entries of
\* the directory at the path (each once, in order), or an error, and an error
\* only if there is nothing to show.
Dir         == IF path = None THEN <<>> ELSE path
Listed(dir) == {p \in DOMAIN tree : IsPrefix(dir, p) /\ Len(p) = Len(dir) + 1}
IsDir       == path = None \/ Kind(path) = "dir"
Readable    == ~IsDir /\ Kind(path) \notin {"none", "sub", "bad"}
                      /\ (page = "blame" => Kind(path) # "link")
ShowsPath ==
  (pc = "done" /\ rev \in Peels /\ page \in {"tree", "plain", "blame"}) =>
    /\ Shown("object") \subseteq {path}
    /\ Readable => Printed("error") = {}
    /\ page \in {"tree", "plain"} =>
         /\ IF IsDir THEN Printed("error") = {} /\ Printed("object") = {}
                     ELSE Printed("item") = {}
         /\ IsDir => Cardinality(Printed("item")) = Cardinality(Listed(Dir))
         /\ IsDir => \A p \in Listed(Dir) : \E q \in Shown("item") : IsPrefix(p, q)
    /\ page = "blame" /\ IsDir => Printed("error") # {}
    /\ ~IsDir /\ ~Readable => Printed("error") # {}
    /\ Readable => Shown("object") = {path} \/ Printed("note") # {}

\* The rows of a directory are in the order of git.
NameAt(p) == p[Len(Dir) + 1]
InOrder ==
  \A j, k \in Printed("item") : j < k => Before(NameAt(out[j][2]), NameAt(out[k][2]))

\* A directory in the list of the page tree names the directories below it as
\* long as they hold nothing else: the last has a file, or two entries.
ChainEnds ==
  page = "tree" => \A p \in Shown("item") :
    Kind(p) = "dir" =>
      Cardinality(Listed(p)) > 1 \/ \E q \in Listed(p) : Kind(q) # "dir"

\* An HTML page has one beginning and one end, in this order, with everything
\* between them.  Four pages of the code have not: a tree's entry that cannot be
\* read (the error page gets a second end) and a plain one (two error pages),
\* blame of a binary or large file (no end), and a file beside the readme above
\* or below a submodule (the page of die() within the page).
Related(p, q) == IsPrefix(p, q) \/ IsPrefix(q, p)
Html == page \in {"tree", "blame"} \/ (page \in {"plain", "blob"} /\ Printed("error") # {})
        \/ (page = "about" /\ pc = "done" /\ out # <<Note("none")>>)
Unframed == /\ path # None
            /\ \/ page = "tree" /\ Kind(path) \in {"bad", "sub"}
               \/ page = "plain" /\ Kind(path) = "bad"
               \/ page = "blame" /\ Kind(path) \in {"binary", "big"}
               \/ page = "about" /\ \E p \in DOMAIN tree : Kind(p) = "sub" /\ Related(p, Sought)
FramedOnce ==
  pc = "done" /\ Html /\ ~Unframed =>
    Printed("head") = {1} /\ Printed("tail") = {Len(out)}

\* The readme that is shown is the first of the list that is a file, or a file
\* in its directory; only a submodule on the way to one, or in a directory of its
\* name, is an error.
First == CHOOSE k \in 1..Len(Readmes) :
           Regular(Readmes[k]) /\ \A j \in 1..(k - 1) : ~Regular(Readmes[j])
ReadmeShown ==
  pc = "done" /\ page = "about" /\ rev = "commit" =>
    IF Printed("error") # {} THEN
      \E p \in DOMAIN tree : Kind(p) = "sub" /\ (Related(p, Sought) \/ Related(p, Readmes[readme]))
    ELSE IF \A k \in 1..Len(Readmes) : ~Regular(Readmes[k]) THEN Printed("object") = {}
    ELSE /\ readme = First
         /\ path = None /\ Kind(Readmes[First]) # "bad" => Shown("object") = {Readmes[First]}
         /\ path # None => Shown("object") \subseteq {Front(Readmes[First]) \o path}

\* What the callbacks of a walk have put on the page, by parts.
WalkInv == TypeOK /\ ShowsPath /\ InOrder /\ ChainEnds

\* The page blob shows the object at the path (ui-blob.c:1).
BlobAtPath ==
  pc = "done" /\ page = "blob" /\ rev = "commit" /\ path # None =>
    out = <<Object(path)>> \/ Printed("error") # {}

-----------------------------------------------------------------------------
(* Why these hold: the invariants TreesProofs proves them from. *)

\* The walk has yet to read an entry on the way to q, and no more than one: it
\* comes to a path once.
Coming(q) ==
  \E k \in 1..Len(todo) : \E n \in todo[k].names : IsPrefix(Append(todo[k].base, n), q)
OneWay(q) ==
  \A k, l \in 1..Len(todo) : \A n \in todo[k].names, m \in todo[l].names :
    IsPrefix(Append(todo[k].base, n), q) /\ IsPrefix(Append(todo[l].base, m), q) =>
      k = l /\ n = m
WalkOnce == \A q \in DOMAIN tree : OneWay(q)

\* The readmes before the one that is looked for are not files, and this one is
\* ahead until it is found.
ReadmeInv ==
  page = "about" =>
    /\ pc = "begin" => readme = 0 /\ state = 0
    /\ \A k \in 1..(readme - 1) : ~Regular(Readmes[k])
    /\ pc \in {"choose", "walk"} =>
         /\ rev = "commit" /\ readme > 0 /\ state \in {0, 1}
         /\ state = 1 => Regular(Sought)
         /\ state = 0 /\ Regular(Sought) => Coming(Sought)
    /\ pc = "walk" => Regular(Readmes[readme])

\* A page that is not begun, begun, or begun and ended.
Frame     == {"head", "tail"}
Opened(s) == Len(s) > 0 /\ s[1][1] = "head" /\ \A k \in 2..Len(s) : s[k][1] \notin Frame
Framed(s) == /\ Len(s) > 1 /\ s[1][1] = "head" /\ s[Len(s)][1] = "tail"
             /\ \A k \in 2..(Len(s) - 1) : s[k][1] \notin Frame
NoError(s) == \A k \in 1..Len(s) : s[k][1] # "error"

\* What the page has printed when the callback says, by its state, that the path
\* is not found yet, or that it is.
FrameInv ==
  /\ pc = "choose" => page = "about"
  /\ pc = "begin" => state = 0
  /\ pc \in {"begin", "choose"} => out = <<>>
  /\ pc = "walk" =>
       /\ page = "tree"  => IF state = 0 THEN out = <<>> ELSE Unframed \/ Opened(out)
       /\ page = "plain" => Unframed \/ IF state = 0 THEN out = <<>> ELSE NoError(out)
       /\ page = "blame" => IF state # 1 THEN out = <<>>
                            ELSE /\ path # None /\ Kind(path) # "dir" /\ ~Coming(path)
                                 /\ Unframed \/ Framed(out)
       /\ page = "blob"  => out = <<>>
       /\ page = "about" => out = <<PageStart>>
  /\ pc = "done" =>
       \/ page = "about" /\ out = <<Note("none")>>
       \/ page \in {"plain", "blob"} /\ NoError(out)
       \/ Framed(out)
       \/ Unframed

\* The directories the walk is in lead to the one it reads, and none of them is
\* below the path: what the page lists, it does not enter.
StackInv ==
  pc \in {"walk", "choose"} =>
    \A k \in 1..Len(todo) :
      LET base == todo[k].base
      IN  /\ Len(base) = k - 1 /\ (base = <<>> \/ Kind(base) = "dir")
          /\ page \in {"tree", "plain", "blame"} /\ IsPrefix(Dir, base) => base = Dir /\ (path = None \/ ~Coming(path))

\* While a directory is listed: the entries that were read have their rows, each
\* before those that are still to come.
Read == {p \in Listed(Dir) : ~Coming(p)}
ListInv ==
  IF path # None /\ Coming(path) THEN state = 0 /\ out = <<>>
  ELSE /\ state # 0 /\ Shown("error") = {} /\ Shown("object") = {}
       /\ Cardinality(Printed("item")) = Cardinality(Read)
       /\ \A p \in Read : \E q \in Shown("item") : IsPrefix(p, q)
       /\ \A q \in Shown("item"), p \in Listed(Dir) : Coming(p) => Before(NameAt(q), NameAt(p))

\* While an object is looked for: it is ahead, or it was found and the page shows
\* what there is of it.
Ahead == state = 0 /\ out = <<>> /\ (path \in DOMAIN tree => Coming(path))
Found ==
  /\ path \in DOMAIN tree /\ ~Coming(path)
  /\ Shown("item") = {} /\ Shown("object") \subseteq {path}
  /\ IF Readable THEN /\ state # 0 /\ (page = "blame" => state = 1) /\ Shown("error") = {}
                      /\ Shown("object") = {path} \/ Shown("note") # {}
     ELSE state = 0 \/ Shown("error") # {}

PathInv ==
  /\ pc = "walk" /\ page \in {"tree", "plain", "blame"} =>
       /\ rev \in Peels
       /\ IF IsDir THEN page # "blame" => ListInv ELSE Ahead \/ Found
  /\ ~(page \in {"tree", "plain"} /\ IsDir) => Printed("item") = {}
  /\ ShowsPath /\ InOrder /\ ChainEnds
=============================================================================
