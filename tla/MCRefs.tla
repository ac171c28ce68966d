------------------------------- MODULE MCRefs --------------------------------
(* Repositories named "p" with tags and branches whose names differ by a "v", *)
(* begin with "p" or end like a format, and lists that are longer than their   *)
(* limits, with equal dates and dates that are no ints.                        *)
EXTENDS Refs

N1 == <<"1">>
V1 == <<"v", "1">>
W1 == <<"V", "1">>
VX == <<"v", "x">>
VV == <<"v", "v", "1">>
P1 == <<"p", "-", "1">>
S1 == <<"_", "1">>
T1 == <<"v", "1", ".tar">>
M  == <<"m">>

MCNames == <<W1, N1, S1, M, P1, V1, T1, VV, VX>>
MCId    == <<"#">>
MCBase  == <<"p">>

Conf(branches, tagLimit, byAge, mask, signed) ==
  [branches |-> branches, tags |-> tagLimit, byAge |-> byAge, mask |-> mask, signed |-> signed]
Tag(n) == [kind |-> "tag", of |-> n]

\* Names of tags and branches, all with snapshots.
Named ==
  {[tags |-> [n \in t |-> [what |-> IF n = VX THEN "tag of blob" ELSE IF n = VV THEN "tag of tag" ELSE "commit", date |-> 1]],
    heads |-> [n \in {M} \cup h |-> 1],
    conf |-> Conf(2, 0, TRUE, {1, 2}, {})] :
     t \in {s \in SUBSET {N1, V1, W1, VX, VV, P1, S1, T1} : Cardinality(s) <= 3},
     h \in {s \in SUBSET {N1, V1, W1, P1} : Cardinality(s) <= 1}}

\* Formats and signatures.
Sealed ==
  {[tags |-> [n \in {V1, VX} |-> [what |-> "tag of commit", date |-> 1]], heads |-> [n \in {M} |-> 1],
    conf |-> Conf(1, 1, TRUE, mask, {<<Tag(V1), f>> : f \in signed})] :
     mask \in SUBSET {1, 2, 7}, signed \in SUBSET {1, 2, 7}}

\* Dates.
Dated ==
  {[tags |-> V1 :> [what |-> "blob", date |-> a] @@ W1 :> [what |-> "tag of commit", date |-> b] @@ N1 :> [what |-> "commit", date |-> c],
    heads |-> V1 :> a @@ M :> b @@ N1 :> c, conf |-> Conf(m, n, byAge, {}, {})] :
     a \in {1, 3}, b \in {1, 2, 3, 9}, c \in {2, 3}, m \in {0, 1, 2}, n \in {0, 2}, byAge \in BOOLEAN}

MCRepos == Named \cup Sealed \cup Dated
MCFiles ==
  {[page |-> "snapshot", arg |-> a, id |-> i, head |-> h] :
     a \in {<<"p", "-", "1", ".zip">>, <<"p", "1", ".tar", ".gz">>, <<"p", ".tar", ".asc">>, <<"x">>}, i \in {None, MCId}, h \in {None, M}}
MCNewRefs == {[name |-> N1, tag |-> TRUE, date |-> 3], [name |-> V1, tag |-> FALSE, date |-> 4]}
=============================================================================
