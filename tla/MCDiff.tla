------------------------------- MODULE MCDiff -------------------------------
(* Small commits: every pair of changed lines of up to three characters; every *)
(* hunk of up to four lines, alone and behind another; and every set of a few  *)
(* pairs with a submodule, a binary file and a rename, in the order of names.  *)
EXTENDS Diff

Line(kind, text) == [kind |-> kind, text |-> text \o <<"nl">>]
Hunk(old, new, comma, lines) == [old |-> old, new |-> new, comma |-> comma, lines |-> lines]
File(hunks) == [one |-> <<"f">>, two |-> <<"f">>, sub |-> "none", binary |-> FALSE, hunks |-> hunks]

Texts == UNION {[1..n -> {"a", "b"}] : n \in 0..3} \cup {<<"a", "a", "b", "a">>}
LineQueues ==
  {<<File(<<Hunk(3, 4, FALSE, <<Line("-", p[1]), Line("+", p[2])>>)>>)>> :
     p \in {q \in Texts \X Texts : q[1] # q[2]}}

\* What xdiff makes of a change: something differs, and what is removed comes first.
WellFormed(kinds) ==
  /\ \E k \in 1..Len(kinds) : kinds[k] # " "
  /\ \A k \in 1..(Len(kinds) - 1) : ~(kinds[k] = "+" /\ kinds[k + 1] = "-")

\* The text of the k-th line.
Letters == <<"a", "b", "c", "d">>
Body(kinds) == [k \in 1..Len(kinds) |-> Line(kinds[k], <<Letters[k]>>)]
Bodies(n) == {Body(k) : k \in {b \in UNION {[1..m -> LineKinds] : m \in 1..n} : WellFormed(b)}}
Firsts == {<<>>} \cup {<<Hunk(1, 1, FALSE, b)>> : b \in {c \in Bodies(2) : Last(c).kind = " "}}
HunkQueues ==
  {<<File(f \o <<Hunk(5, 6, comma, b)>>)>> : f \in Firsts, comma \in BOOLEAN, b \in Bodies(4)}

Edit(path, kinds) == [File(<<Hunk(2, 2, FALSE, Body(kinds))>>) EXCEPT !.one = path, !.two = path]
Pairs == <<Edit(<<"f">>, <<" ", "-">>),
           [Edit(<<"f", "b">>, <<>>) EXCEPT !.binary = TRUE, !.hunks = <<>>],
           Edit(<<"f", "o">>, <<"+">>),
           [Edit(<<"g">>, <<"-", "+", "+">>) EXCEPT !.one = <<"f", "o", "o">>],
           [Edit(<<"h">>, <<>>) EXCEPT !.sub = "both", !.hunks = <<>>]>>
ListQueues == {SelectSeq(Pairs, LAMBDA p : p.two \in S) : S \in SUBSET {Pairs[k].two : k \in 1..Len(Pairs)}}

MCQueues == LineQueues \cup HunkQueues \cup ListQueues
MCLimits == {<<"f">>, <<"f", "o">>}
=============================================================================
