-------------------------------- MODULE Diff --------------------------------
(***************************************************************************)
(* The diff of a commit (ui-diff.c, ui-ssdiff.c and the diff driver of     *)
(* shared.c): git queues the pairs of files, each is counted for the       *)
(* diffstat and then printed line by line as xdiff returns its lines, one  *)
(* under the other or side by side.  Side by side, the removed and added   *)
(* lines wait in two lists until a line follows that is neither.           *)
(*                                                                         *)
(* A path and a line are sequences of characters.                          *)
(***************************************************************************)
EXTENDS Integers, Sequences, SequencesExt, FiniteSets

CONSTANTS
  Queues,     \* the pairs git may queue for a commit
  Limits,     \* the paths a diff is limited to
  MaxLine,    \* MAX_SSDIFF_M
  FirstSlots  \* the first allocation of items

\* A pair of files: paths, whether it is a submodule before or after, whether it
\* is binary, and its hunks.  A hunk has the first line and the number of lines
\* of both sides, whether the name of its function has a comma, and its lines:
\* their kind and their text with the end of the line.
LineKinds == {" ", "-", "+"}
Side(h, kinds) == SelectSeq(h.lines, LAMBDA l : l.kind \in kinds)
Removed == {" ", "-"}
Added   == {" ", "+"}

\* Where a pair has lines: the hunk and the place in it.
Places(p) == UNION {{j} \X (1..Len(p.hunks[j].lines)) : j \in 1..Len(p.hunks)}
KindAt(p, c) == p.hunks[c[1]].lines[c[2]].kind

\* What git queues: git has no text of a submodule to compare.
IsList(s)  == Len(s) \in Nat /\ s = [k \in 1..Len(s) |-> s[k]]
IsQueue(q) ==
  /\ IsList(q)
  /\ \A k \in 1..Len(q) :
       /\ Len(q[k].hunks) \in Nat /\ \A j \in 1..Len(q[k].hunks) : Len(q[k].hunks[j].lines) \in Nat
       /\ q[k].sub # "none" => Len(q[k].hunks) = 0

ASSUME DiffAssumption ==
  /\ MaxLine \in Nat /\ FirstSlots \in Nat \ {0}
  /\ \A l \in Limits : IsList(l)
  /\ \A q \in Queues : IsQueue(q) /\ \A k \in 1..Len(q) : \A j \in 1..Len(q[k].hunks) :
       LET h == q[k].hunks[j]
       IN  /\ \A n \in 1..Len(h.lines) : h.lines[n].kind \in LineKinds /\ Last(h.lines[n].text) = "nl"
           \* with the context of cgit_diff_files() only the last hunk of a
           \* file may end in a changed line
           /\ j < Len(q[k].hunks) => Last(h.lines).kind = " "

VARIABLES
  queue,     \* the pairs
  rev,       \* whether the commits are there
  raw,       \* rawdiff
  prefix,    \* the path the diff is limited to
  follow,    \* ctx.qry.follow and enable-follow-links
  dt,        \* ctx.qry.difftype (or "none")
  cfgdt,     \* ctx.cfg.difftype
  ctrls,     \* show_ctrls: the page is a diff, not a commit
  mode,      \* the effective type, once it is chosen
  at,        \* where the page is: "begin", "stat", "pair", "line", "done"; or "away"
  pair, line,                \* which pair, and which of its lines, comes next
  items, slots, max,         \* the diffstat: items, slots and max_changes
  adds, rems,                \* total_adds and total_rems
  oldNo, newNo,              \* current_old_line and current_new_line
  oldLines, newLines,        \* deferred_old and deferred_new
  page                       \* what was printed

asked    == <<queue, rev, raw, prefix, follow, cfgdt, ctrls>>
stat     == <<items, slots, max, adds, rems>>
deferred == <<oldNo, newNo, oldLines, newLines>>
diffVars == <<asked, dt, mode, at, pair, line, stat, deferred, page>>

Types == {"unified", "ssdiff", "statonly"}

\* The effective type is that of the request, if it has one; and so it is in the
\* page a link leads to, which names the type unless it is 0, "unified".
Difftype == IF dt = "none" THEN cfgdt ELSE dt
LinkType == IF dt \in {"none", "unified"} THEN cfgdt ELSE dt

\* show_filepair(): when a file is followed git is not told the path.
ShowFilepair(p) == ~follow \/ IsPrefix(prefix, p.one) \/ IsPrefix(prefix, p.two)

Emit(events) == page' = page \o events
Event(name)  == <<[ev |-> name]>>

-----------------------------------------------------------------------------
(* The lines xdiff returns for a pair *)

\* A submodule is a line with its commit, without an end.
Subproject(kind, id) == [kind |-> kind, text |-> id]
Stream(p) ==
  IF p.sub # "none" THEN
       (IF p.sub \in {"old", "both"} THEN <<Subproject("-", <<"1", "2">>)>> ELSE <<>>)
    \o (IF p.sub \in {"new", "both"} THEN <<Subproject("+", <<"3", "4">>)>> ELSE <<>>)
  ELSE IF p.binary THEN <<>>
  ELSE FlattenSeq([j \in 1..Len(p.hunks) |-> <<[kind |-> "@", hunk |-> p.hunks[j]]>> \o p.hunks[j].lines])

\* filediff_cb(): the buffers of a line, of which only the last ends it, are
\* joined, and the callback cuts off the end of the line.
Text(l) == Front(l.text)

-----------------------------------------------------------------------------
(* ui-ssdiff.c *)

\* longest_common_subsequence(): <<>> stands for none, and for lines too long.
\* The array has room for the places Allocated, and the loops go over all that
\* are Needed, the ends of both lines with them.
Allocated    == (0..(MaxLine - 1)) \X (0..(MaxLine - 1))
Needed(a, b) == (0..Len(a)) \X (0..Len(b))
Table(a, b) ==
  LET L[p \in Needed(a, b)] ==
        IF p[1] = Len(a) \/ p[2] = Len(b) THEN 0
        ELSE IF a[p[1] + 1] = b[p[2] + 1] THEN 1 + L[<<p[1] + 1, p[2] + 1>>]
        ELSE IF L[<<p[1] + 1, p[2]>>] > L[<<p[1], p[2] + 1>>]
          THEN L[<<p[1] + 1, p[2]>>] ELSE L[<<p[1], p[2] + 1>>]
  IN  L
Trace(a, b, L) ==
  LET R[p \in DOMAIN L] ==
        IF p[1] = Len(a) \/ p[2] = Len(b) THEN <<>>
        ELSE IF a[p[1] + 1] = b[p[2] + 1] THEN <<a[p[1] + 1]>> \o R[<<p[1] + 1, p[2] + 1>>]
        ELSE IF L[<<p[1] + 1, p[2]>>] >= L[<<p[1], p[2] + 1>>]
          THEN R[<<p[1] + 1, p[2]>>] ELSE R[<<p[1], p[2] + 1>>]
  IN  R[<<0, 0>>]
TooLongOver(a, b) == Len(a) > MaxLine \/ Len(b) > MaxLine   \* mutant: no room for the ends
TooLong(a, b) == Len(a) >= MaxLine \/ Len(b) >= MaxLine
Lcs(a, b)     == IF TooLong(a, b) THEN <<>> ELSE Trace(a, b, Table(a, b))

\* print_part_with_lcs(): which characters are outside of the spans.
Same(text, lcs) ==
  LET Matched[k \in 0..Len(text)] ==
        IF k = 0 THEN 0
        ELSE IF Matched[k - 1] < Len(lcs) /\ text[k] = lcs[Matched[k - 1] + 1]
          THEN Matched[k - 1] + 1 ELSE Matched[k - 1]
  IN  [k \in 1..Len(text) |-> Matched[k] > Matched[k - 1]]
AllSame(text) == [k \in 1..Len(text) |-> TRUE]

\* print_ssdiff_line(): the sides of a row, each empty or a line; a number that
\* is not positive is not printed.  The links of the numbers are to the pair.
Cell(l, same) == <<[no |-> IF l.no > 0 THEN l.no ELSE 0, text |-> l.text, same |-> same]>>
SsdiffRow(class, old, new) == [ev |-> "row", file |-> pair, class |-> class, old |-> old, new |-> new]
OneSide(l) == Cell(l, AllSame(l.text))

ChangedRow(k, individual) ==
  LET Left  == oldLines[k].text
      Right == newLines[k].text
      lcs   == Lcs(Left, Right)
      mark(l) == IF individual /\ ~TooLong(Left, Right) THEN Cell(l, Same(l.text, lcs)) ELSE OneSide(l)
  IN  IF k <= Len(oldLines) /\ k <= Len(newLines)
        THEN SsdiffRow("changed", mark(oldLines[k]), mark(newLines[k]))
      ELSE IF k <= Len(oldLines) THEN SsdiffRow("changed", OneSide(oldLines[k]), <<>>)
      ELSE SsdiffRow("changed", <<>>, OneSide(newLines[k]))

\* cgit_ssdiff_print_deferred_lines()
Deferred ==
  LET longer == IF Len(oldLines) > Len(newLines) THEN Len(oldLines) ELSE Len(newLines)
  IN  CASE newLines = <<>> -> [k \in 1..Len(oldLines) |-> SsdiffRow("del", OneSide(oldLines[k]), <<>>)]
        [] oldLines = <<>> -> [k \in 1..Len(newLines) |-> SsdiffRow("add", <<>>, OneSide(newLines[k]))]
        [] OTHER -> [k \in 1..longer |-> ChangedRow(k, Len(oldLines) = Len(newLines))]
NoneDeferred == oldLines' = <<>> /\ newLines' = <<>>

\* line_from_hunk(): a number is only found if there is a comma somewhere behind
\* it, and a side of one line has none.
OldStart(h) == IF Len(Side(h, Removed)) # 1 \/ Len(Side(h, Added)) # 1 \/ h.comma THEN h.old ELSE 0
NewStart(h) == IF Len(Side(h, Added)) # 1 \/ h.comma THEN h.new ELSE 0

Numbered(no, l) == [no |-> no, text |-> Text(l)]

\* cgit_ssdiff_line_cb()
SsdiffHunk(l) ==
  /\ l.kind = "@"
  /\ oldNo' = OldStart(l.hunk) /\ newNo' = NewStart(l.hunk)
  /\ Emit(<<[ev |-> "hunk", file |-> pair, old |-> <<>>, new |-> <<>>]>>)
  /\ UNCHANGED <<oldLines, newLines>>
SsdiffContext(l) ==
  /\ l.kind = " "
  /\ Emit(Deferred \o <<SsdiffRow("ctx", OneSide(Numbered(oldNo, l)), OneSide(Numbered(newNo, l)))>>)
  /\ oldNo' = oldNo + 1 /\ newNo' = newNo + 1
  /\ NoneDeferred
SsdiffAdded(l) ==
  /\ l.kind = "+"
  /\ newLines' = Append(newLines, Numbered(newNo, l)) /\ newNo' = newNo + 1
  /\ UNCHANGED <<oldNo, oldLines, page>>
SsdiffRemoved(l) ==
  /\ l.kind = "-"
  /\ oldLines' = Append(oldLines, Numbered(oldNo, l)) /\ oldNo' = oldNo + 1
  /\ UNCHANGED <<newNo, newLines, page>>

\* cgit_ssdiff_header_begin() and cgit_ssdiff_footer()
SsdiffHeader == oldNo' = -1 /\ newNo' = -1 /\ UNCHANGED <<oldLines, newLines>>
SsdiffFooterKeeps ==   \* mutant: the last lines are left for the next file
  Emit(Event("foot")) /\ UNCHANGED deferred
SsdiffFooter == Emit(Deferred \o Event("foot")) /\ NoneDeferred /\ UNCHANGED <<oldNo, newNo>>

-----------------------------------------------------------------------------
(* ui-diff.c *)

\* count_diff_lines()
Lines(p, kind) == IF p.binary THEN 0 ELSE Cardinality({c \in Places(p) : KindAt(p, c) = kind})

\* inspect_filepair()
Grow(n) == IF n < slots THEN slots ELSE IF slots = 0 THEN FirstSlots ELSE slots * 2
Item(p) == [path |-> p.two, added |-> Lines(p, "+"), removed |-> Lines(p, "-"), binary |-> p.binary]
InspectFilepair ==
  /\ at = "stat" /\ pair <= Len(queue)
  /\ pair' = pair + 1
  /\ LET i == Item(queue[pair])
     IN  IF ShowFilepair(queue[pair])
           THEN /\ items' = Append(items, i) /\ slots' = Grow(Len(items) + 1)
                /\ adds' = adds + i.added /\ rems' = rems + i.removed
                /\ max' = IF i.added + i.removed > max THEN i.added + i.removed ELSE max
           ELSE UNCHANGED stat
  /\ UNCHANGED <<asked, dt, mode, at, line, deferred, page>>

\* cgit_print_diffstat() after it: the rows link to the diff of a file, with the
\* type of ctx.qry.
ItemRow(i) == [ev |-> "item", item |-> i, dt |-> LinkType]
PrintDiffstat ==
  /\ at = "stat" /\ pair > Len(queue)
  /\ Emit([k \in 1..Len(items) |-> ItemRow(items[k])]
          \o <<[ev |-> "sum", files |-> Len(items), adds |-> adds, rems |-> rems, max |-> max]>>)
  /\ IF mode = "statonly" THEN at' = "done" ELSE at' = "pair"
  /\ pair' = 1
  /\ UNCHANGED <<asked, dt, mode, line, stat, deferred>>

\* filepair_cb()
FilepairCb ==
  /\ at = "pair" /\ pair <= Len(queue)
  /\ IF ShowFilepair(queue[pair])
       THEN /\ at' = "line" /\ line' = 1
            /\ Emit(<<[ev |-> "file", file |-> pair]>>)
            /\ IF mode = "ssdiff" THEN SsdiffHeader ELSE UNCHANGED deferred
            /\ UNCHANGED pair
       ELSE pair' = pair + 1 /\ UNCHANGED <<at, line, deferred, page>>
  /\ UNCHANGED <<asked, dt, mode, stat>>

\* print_line()
PrintLine(l) ==
  /\ Emit(<<[ev |-> "line", file |-> pair, kind |-> l.kind, text |-> IF l.kind = "@" THEN <<>> ELSE Text(l)]>>)
  /\ UNCHANGED deferred

DiffLine ==
  /\ at = "line" /\ line <= Len(Stream(queue[pair]))
  /\ LET l == Stream(queue[pair])[line]
     IN  IF mode = "ssdiff"
           THEN SsdiffHunk(l) \/ SsdiffContext(l) \/ SsdiffAdded(l) \/ SsdiffRemoved(l)
           ELSE PrintLine(l)
  /\ line' = line + 1
  /\ UNCHANGED <<asked, dt, mode, at, pair, stat>>

EndFilepair ==
  /\ at = "line" /\ line > Len(Stream(queue[pair]))
  /\ at' = "pair" /\ pair' = pair + 1
  /\ IF mode = "ssdiff" THEN SsdiffFooter ELSE UNCHANGED <<deferred, page>>
  /\ UNCHANGED <<asked, dt, mode, line, stat>>

\* cgit_print_diff(): the type of the page is chosen, and the links to single
\* files must not be for a diffstat.
NoReset == dt   \* mutant: it is left alone
Reset == IF Difftype = "statonly" THEN cfgdt ELSE dt
PrintDiff ==
  /\ at = "begin"
  /\ CASE ~rev -> /\ Emit(Event("head") \o Event("error") \o Event("tail"))
                  /\ at' = "done" /\ UNCHANGED <<dt, mode>>
       [] rev /\ raw -> Emit(Event("raw")) /\ at' = "done" /\ UNCHANGED <<dt, mode>>
       [] rev /\ ~raw -> /\ Emit(IF ctrls THEN Event("head") ELSE <<>>) /\ at' = "stat"
                         /\ mode' = Difftype /\ dt' = Reset
  /\ UNCHANGED <<asked, pair, line, stat, deferred>>

EndOf == IF ctrls THEN Event("tail") ELSE <<>>
EndDiff ==
  /\ at = "pair" /\ pair > Len(queue)
  /\ at' = "done" /\ Emit(EndOf)
  /\ UNCHANGED <<asked, dt, mode, pair, line, stat, deferred>>

-----------------------------------------------------------------------------

\* The page diff has the controls; rawdiff and the page of a commit do not, and
\* the latter has looked for its commits before.
DiffInit ==
  /\ queue \in Queues /\ cfgdt \in {"unified", "ssdiff"} /\ dt \in Types \cup {"none"}
  /\ ctrls \in BOOLEAN /\ raw \in BOOLEAN /\ rev \in BOOLEAN
  /\ ~(ctrls /\ raw) /\ (~ctrls /\ ~raw => rev)
  /\ follow \in BOOLEAN /\ prefix \in IF follow THEN Limits ELSE {<<>>}
  /\ mode = "none" /\ at = "begin" /\ pair = 1 /\ line = 1
  /\ items = <<>> /\ slots = 0 /\ max = 0 /\ adds = 0 /\ rems = 0
  /\ oldNo = 0 /\ newNo = 0 /\ oldLines = <<>> /\ newLines = <<>>
  /\ page = <<>>

Printing == PrintDiff \/ InspectFilepair \/ PrintDiffstat \/ FilepairCb \/ DiffLine \/ EndFilepair \/ EndDiff

-----------------------------------------------------------------------------
(* Properties *)

\* The types, and the array of the diffstat has room for its items (ui-diff.c:167).
DiffTypeOK ==
  /\ at \in {"begin", "stat", "pair", "line", "done", "away"} /\ mode \in Types \cup {"none"}
  /\ pair \in 1..(Len(queue) + 1) /\ Len(items) <= slots
  /\ adds \in Nat /\ rems \in Nat /\ max \in Nat

Printed(name) == {k \in 1..Len(page) : page[k].ev = name}
Begins(path) == Len(prefix) <= Len(path) /\ SubSeq(path, 1, Len(prefix)) = prefix
Shown == {k \in 1..Len(queue) : follow => Begins(queue[k].one) \/ Begins(queue[k].two)}

\* What the columns of a file must show: the lines of each hunk on one side, with
\* their numbers, and "@" where a hunk begins.
Column(p, start(_), kinds) ==
  FlattenSeq([j \in 1..Len(p.hunks) |->
    LET side == Side(p.hunks[j], kinds)
    IN  <<[no |-> -1, text |-> <<"@">>]>>
        \o [n \in 1..Len(side) |-> [no |-> start(p.hunks[j]) + n - 1, text |-> Text(side[n])]]])
\* What they do show; a row may have nothing on a side.
Cells(k, side(_)) ==
  FlattenSeq([n \in 1..Len(page) |->
    IF page[n].ev = "hunk" /\ page[n].file = k THEN <<[no |-> -1, text |-> <<"@">>]>>
    ELSE IF page[n].ev = "row" /\ page[n].file = k
      THEN [c \in 1..Len(side(page[n])) |-> [no |-> side(page[n])[c].no, text |-> side(page[n])[c].text]]
    ELSE <<>>])
\* A number may be missing where the side of a hunk is one line (the header of
\* the hunk then has no comma), and is right where it is there.
Agree(cells, lines) ==
  /\ Len(cells) = Len(lines)
  /\ \A n \in 1..Len(lines) :
       /\ cells[n].text = lines[n].text
       /\ cells[n].no # lines[n].no =>
            /\ cells[n].no = 0
            /\ lines[n - 1].text = <<"@">> /\ (n = Len(lines) \/ lines[n + 1].text = <<"@">>)

\* Side by side, the left column of a file is what was there before and the
\* right one what is there now: every line once, in its order, with its number
\* and under its file, however the rows are paired (ui-ssdiff.c:351, 415).
Aligned ==
  at = "done" /\ mode = "ssdiff" =>
    \A k \in Shown : queue[k].sub = "none" /\ ~queue[k].binary =>
      /\ Agree(Cells(k, LAMBDA r : r.old), Column(queue[k], LAMBDA h : h.old, Removed))
      /\ Agree(Cells(k, LAMBDA r : r.new), Column(queue[k], LAMBDA h : h.new, Added))

\* The characters of a text at the places in S; the common ones of two texts.
At(text, S) == SelectSeq([k \in 1..Len(text) |-> <<k, text[k]>>], LAMBDA c : c[1] \in S)
Chars(text, S) == LET c == At(text, S) IN [k \in 1..Len(c) |-> c[k][2]]
Common(a, b) == {Chars(a, S) : S \in SUBSET (1..Len(a))} \cap {Chars(b, S) : S \in SUBSET (1..Len(b))}
Kept(cell) == Chars(cell.text, {k \in 1..Len(cell.text) : cell.same[k]})

\* In a pair of changed lines, what is not marked as removed or added is the same
\* on both sides, and as much as can be (ui-ssdiff.c:40, 193).  Lines that are not
\* compared are not marked at all.
LcsMarks ==
  at = "done" =>
    \A n \in Printed("row") :
      LET old == page[n].old
          new == page[n].new
      IN  old # <<>> /\ new # <<>> /\ (Kept(old[1]) # old[1].text \/ Kept(new[1]) # new[1].text) =>
            /\ Kept(old[1]) = Kept(new[1])
            /\ \A c \in Common(old[1].text, new[1].text) : Len(c) <= Len(Kept(old[1]))

\* Two lines are only compared if the array has room for all of their places
\* (ui-ssdiff.c:35, 50).
LcsFits ==
  \A k \in 1..Len(oldLines) :
    Len(oldLines) = Len(newLines) /\ ~TooLong(oldLines[k].text, newLines[k].text) =>
      Needed(oldLines[k].text, newLines[k].text) \subseteq Allocated

\* A diff side by side, by parts.
SideBySide == DiffTypeOK /\ Aligned /\ LcsMarks /\ LcsFits

\* The diffstat is about the files that are shown below it, and its sums and its
\* scale are those of its rows (ui-diff.c:153, 215).
Changed(k, kinds) ==
  IF queue[k].binary \/ queue[k].sub # "none" THEN {} ELSE {c \in Places(queue[k]) : KindAt(queue[k], c) \in kinds}
Total(files, kinds) == Cardinality(UNION {{k} \X Changed(k, kinds) : k \in files})
Scale(files, most) ==
  /\ \A k \in files : Cardinality(Changed(k, {"+", "-"})) <= most
  /\ most > 0 => \E k \in files : Cardinality(Changed(k, {"+", "-"})) = most
SumsShown ==
  \A n \in Printed("sum") :
    /\ page[n].files = Cardinality(Shown) /\ Cardinality(Printed("item")) = page[n].files
    /\ page[n].adds = Total(Shown, {"+"}) /\ page[n].rems = Total(Shown, {"-"})
    /\ Scale(Shown, page[n].max)
SumsRight == at = "done" => SumsShown

\* A page begins once and ends once, and nothing comes after its end; the page of
\* a commit frames its diff itself.  A diffstat alone is left without an end
\* (ui-diff.c:486).
DiffFramed ==
  at = "done" =>
    IF ctrls \/ ~rev
      THEN /\ Printed("head") = {1}
           /\ Printed("tail") = IF mode = "statonly" THEN {} ELSE {Len(page)}
    ELSE Printed("head") \cup Printed("tail") = {}

\* The link of a file in a diffstat is to its diff (ui-diff.c:475).
StatNotCarried == \A n \in Printed("item") : page[n].dt # "statonly"

\* What stands around the lines of a diff, by parts.
DiffInv == SumsRight /\ DiffFramed /\ StatNotCarried

-----------------------------------------------------------------------------
(* Why DiffInv holds: the invariant HistoryProofs proves it from.  While the    *)
(* pairs are inspected the sums are about those already passed.                 *)

Passed  == {k \in Shown : k < pair}
Summed  == /\ Len(items) = Cardinality(Passed) /\ Scale(Passed, max)
           /\ adds = Total(Passed, {"+"}) /\ rems = Total(Passed, {"-"})
Fresh   == pair = 1 /\ items = <<>> /\ max = 0 /\ adds = 0 /\ rems = 0 /\ page = <<>> /\ mode = "none"
DiffIInv ==
  /\ DiffTypeOK /\ slots \in Nat /\ IsQueue(queue) /\ IsList(prefix)
  /\ cfgdt \in {"unified", "ssdiff"} /\ dt \in Types \cup {"none"}
  /\ ~(ctrls /\ raw) /\ (ctrls \/ raw \/ rev)
  /\ at \in {"begin", "away"} => Fresh
  /\ at \in {"stat", "pair", "line"} =>
       /\ rev /\ ~raw /\ dt # "statonly"
       /\ Printed("head") = (IF ctrls THEN {1} ELSE {}) /\ Printed("tail") = {}
  /\ at = "stat" => Summed /\ Printed("item") = {} /\ Printed("sum") = {}
  /\ at \in {"pair", "line"} => mode # "statonly"
  /\ at = "line" => pair <= Len(queue)
  /\ at \in {"pair", "line", "done"} => SumsShown
  /\ DiffInv
=============================================================================
