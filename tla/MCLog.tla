------------------------------- MODULE MCLog -------------------------------
(* All histories of four commits or fewer, with a rename at most, and those of *)
(* five that change nothing but the file.                                      *)
EXTENDS Log

MCNames == <<"a", "b", "c">>

WellMade(h) ==
  /\ \A k, j \in 1..Len(h) : h[k] = "create" /\ h[j] \in {"create", "edit", "rename"} => k <= j
  /\ Cardinality({k \in 1..Len(h) : h[k] = "rename"}) <= 1
Later(n, kinds) == {h \in [1..n -> kinds] : WellMade(h)}

MCLong == {<<"root">> \o h : h \in Later(4, {"create", "edit", "rename"})}
MCHistories ==
  {<<"root">> \o h : h \in UNION {Later(n, Kinds \ {"root"}) : n \in 0..3}} \cup MCLong
=============================================================================
