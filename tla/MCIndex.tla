------------------------------- MODULE MCIndex -------------------------------
(* Sites of three repositories: with sections that are missing, empty or differ *)
(* by case; with texts to search and to sort by, some of them with characters   *)
(* that are written as an escape; with times that are equal, unknown or too far *)
(* apart for an int.                                                            *)
EXTENDS Index

g == <<"g">>
h == <<"h">>
G == <<"G">>
H == <<"H">>
Special  == <<" ", "\"", "#", "%", "&", "'", "+", "<", "=", "?">>
OddTexts == <<<<"g", "%", "26">>, <<"g", "&", "amp;">>>> \o [n \in DOMAIN Special |-> <<"g", Special[n], "h">>]
MCAlphabet == <<<<>>, G, H, g>> \o OddTexts \o <<h>>
MCLower == "G" :> "g" @@ "H" :> "h"

Repo(name, section, owner) ==
  [name |-> name, section |-> section, owner |-> owner, desc |-> name, url |-> h \o name, hide |-> FALSE]
Agefile(age, head) == [age |-> age, head |-> head, packed |-> 1]
Cfg(bySection, caseSensitive, byAge, count) ==
  [sectionSort |-> bySection, caseSensitive |-> caseSensitive, byAge |-> byAge, maxCount |-> count]

\* Sections of three repositories.
Sections ==
  {[repos |-> <<Repo(g, s, None), Repo(G, t, None), Repo(H, u, None)>>,
    disk |-> <<Agefile(0, 3), Agefile(0, 2), Agefile(0, 1)>>, cfg |-> c] :
     s \in {None, <<>>, g}, <<t, u>> \in {<<None, h>>, <<None, g>>, <<G, g>>, <<g, g>>},
     c \in {Cfg(TRUE, TRUE, FALSE, 2), Cfg(TRUE, FALSE, FALSE, 1), Cfg(TRUE, FALSE, TRUE, 7), Cfg(FALSE, FALSE, FALSE, 7)}}

\* Owners, a repository that is hidden, and one under another url.
Searched ==
  {[repos |-> <<Repo(g, None, o), [Repo(h, g, G) EXCEPT !.hide = b], [Repo(h, None, IF b THEN G ELSE None) EXCEPT !.url = g, !.desc = None]>>,
    disk |-> <<Agefile(0, 2), Agefile(0, 2), Agefile(0, 3)>>, cfg |-> c] :
     o \in {None, g, h}, b \in BOOLEAN, c \in {Cfg(TRUE, FALSE, FALSE, 1), Cfg(FALSE, TRUE, FALSE, 2)}}

\* Texts with each of the characters that are escaped, and with escapes of their own.
Escapes ==
  {[repos |-> <<Repo(g, None, o), [Repo(h, None, o) EXCEPT !.url = o], Repo(H, None, G)>>,
    disk |-> <<Agefile(0, 2), Agefile(0, 2), Agefile(0, 3)>>, cfg |-> Cfg(FALSE, FALSE, FALSE, 1)] : o \in ToSet(OddTexts)}

\* Times.
Aged ==
  {[repos |-> <<Repo(g, None, None), Repo(h, None, None), Repo(G, g, None)>>,
    disk |-> <<Agefile(x, 1), [age |-> 0, head |-> 0, packed |-> 0], Agefile(0, y)>>, cfg |-> c] :
     x \in {0, 2, 9}, y \in {0, 2}, c \in {Cfg(TRUE, FALSE, TRUE, 2), Cfg(FALSE, FALSE, FALSE, 1)}}

MCSites == Sections \cup Searched \cup Escapes \cup Aged

Typed(search, url, sort, ofs) == [search |-> search, url |-> url, sort |-> sort, ofs |-> ofs]
MCRequests ==
  {Typed(None, None, None, 0), Typed(None, None, None, 1), Typed(None, None, None, -1),
   Typed(g, None, None, 0), Typed(<<>>, h, <<"other">>, 0), Typed(None, h, <<"idle">>, 0), Typed(None, None, <<"section">>, 0)}
=============================================================================
