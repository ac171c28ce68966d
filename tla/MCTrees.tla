------------------------------ MODULE MCTrees ------------------------------
(* All trees with the entries a and b at the root, where a may be a directory *)
(* of any two entries, whose a may be a directory of files.                   *)
EXTENDS Trees, TLC

MCNames == <<"a", "b">>

Leaf == (Kinds \ {"dir"}) \cup {"none"}
Present(f) == [p \in {q \in DOMAIN f : f[q] # "none"} |-> f[p]]
Under(a, b, aa, ab, aaa, aab) ==
  Present((<<"a">> :> a) @@ (<<"b">> :> b) @@ (<<"a", "a">> :> aa) @@ (<<"a", "b">> :> ab)
          @@ (<<"a", "a", "a">> :> aaa) @@ (<<"a", "a", "b">> :> aab))
AtB == {"none", "text", "sub"}

MCTrees ==
  {Under(a, b, "none", "none", "none", "none") : a \in Leaf, b \in AtB}
  \cup {Under("dir", b, aa, ab, "none", "none") :
          b \in AtB, aa \in Leaf, ab \in {"text", "sub"}}
  \cup {Under("dir", b, aa, "none", "none", "none") : b \in AtB, aa \in Leaf \ {"none"}}
  \cup {Under("dir", b, "dir", ab, aaa, "text") : b \in AtB, ab \in Leaf, aaa \in {"none", "text", "bad"}}

MCAsked == {None, <<"a">>, <<"b">>, <<"a", "a">>, <<"a", "b">>, <<"a", "a", "b">>}
MCReadmes == <<<<"b">>, <<"a", "a">>, <<"a">>>>
=============================================================================
