----------------------------- MODULE MCRouting -----------------------------
(* Four repositories, one in a directory with the name of another.  The first *)
(* has its default branch, the second one that is not a branch, the third     *)
(* none at all; the last is ignored.                                          *)
EXTENDS Routing

Base == [url |-> <<"a">>, ignore |-> FALSE, defbranch |-> "main", HEAD |-> "main",
         branches |-> <<"dev", "main">>, tags |-> {"v1"}, readme |-> TRUE,
         homepage |-> FALSE, follow |-> TRUE]
MCRepoList == <<Base,
  [Base EXCEPT !.url = <<"a", "b">>, !.defbranch = "gone", !.readme = FALSE],
  [Base EXCEPT !.url = <<"d", "c">>, !.defbranch = None, !.readme = FALSE,
               !.follow = FALSE],
  [Base EXCEPT !.url = <<"d">>, !.ignore = TRUE]>>

MCSha == {"s1"}

Urls == {<<"">>} \cup {u \o v : u \in {<<"a">>, <<"a", "b">>, <<"d", "c">>, <<"d">>},
                                 v \in {<<>>, <<"">>, <<"tree", "x", "">>, <<"about">>,
                                        <<"about", "x">>, <<"commit", "x", "y">>, <<"nopage", "">>}}
Arguments == {<<>>, <<<<"h", "dev">>>>, <<<<"h", "v1">>, <<"id", "s1">>>>, <<<<"h", "s1">>>>, <<<<"h", "bad">>>>}
Searches  == {<<<<"q", "z">>, <<"qt", "author">>, <<"ofs", 1>>, <<"showmsg", 1>>, <<"s", "name">>>>}
Diffs     == {<<<<"id", "s1">>, <<"id2", "old">>, <<"dt", 1>>, <<"follow", 1>>>>}
MCTyped == {[url |-> u, args |-> a] : u \in Urls, a \in Arguments}
           \cup {[url |-> u, args |-> a] : u \in {<<"">>, <<"a", "log">>, <<"d", "">>, <<"d", "c", "log", "x">>}, a \in Searches}
           \cup {[url |-> u \o <<"diff", "x">>, args |-> a] : u \in {<<"a">>, <<"a", "b">>}, a \in Diffs}
           \cup {[url |-> <<"">>, args |-> a] : a \in
                   {<<<<"r", <<"a">>>>, <<"p", "tree">>, <<"path", <<"x", "">>>>>>,
                    <<<<"p", "about">>>>, <<<<"p", "nopage">>>>, <<<<"p", "log">>>>}}
=============================================================================
