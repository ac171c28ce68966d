-------------------------------- MODULE Stats --------------------------------
(***************************************************************************)
(* The statistics page (ui-stats.c): the commits of each author in each of *)
(* the last weeks, months, quarters or years.  The commits are collected   *)
(* first, by the name of their period; the columns of the table are found  *)
(* again from the clock when the table begins, and once more for each of   *)
(* the rows "Others" and "Total".                                          *)
(*                                                                         *)
(* A time is a number of half days, in UTC, since a Thursday, 1970-01-01.  *)
(***************************************************************************)
EXTENDS Integers, Sequences, SequencesExt, FiniteSets

CONSTANTS
  Author,      \* the authors
  Columns,     \* how many periods a table has
  DefaultTop,  \* how many authors it has unless the request says
  Years,       \* the years of the calendar
  Clock,       \* the times a request may come at
  Dated(_, _), \* the committer dates to look at, given the period and the time
  MaxStats,    \* repo.max-stats
  MaxDated,    \* how many commits there are
  MaxTicks     \* how often the clock moves on during a request

Periods == <<"week", "month", "quarter", "year">>

ASSUME StatsAssumption ==
  /\ Columns \in Nat \ {0} /\ DefaultTop \in Nat \ {0} /\ MaxDated \in Nat /\ MaxTicks \in Nat
  /\ Years \subseteq Nat /\ MaxStats \in 0..Len(Periods) /\ Clock \subseteq Nat

VARIABLES
  commits,  \* the commits of the branch: author and committer date
  code,     \* ctx.qry.period: the index of the period, or 0
  ofs,      \* ctx.qry.ofs
  now,      \* the clock
  ticks,    \* how often it has moved on
  step,     \* where cgit_show_stats() is; "away" if nobody asked
  since,    \* the argument of --since
  got,      \* how many commits have been added
  list,     \* for each author the number of commits in each period
  ranked,   \* the authors, after qsort()
  tm,       \* the local variable of print_authors()
  table     \* the header and the rows that have been printed

askedStats == <<commits, code, ofs>>
statsVars  == <<askedStats, now, ticks, step, since, got, list, ranked, tm, table>>

-----------------------------------------------------------------------------
(* The calendar of the C library *)

Leap(y) == y % 4 = 0 /\ (y % 100 # 0 \/ y % 400 = 0)
YearDays(y) == IF Leap(y) THEN 366 ELSE 365
YearStart(y) == 365 * (y - 1970) + (y - 1969) \div 4 - (y - 1901) \div 100 + (y - 1601) \div 400
MonthDays(y) == <<31, IF Leap(y) THEN 29 ELSE 28, 31, 30, 31, 30, 31, 31, 30, 31, 30, 31>>
MonthStart == [y \in Years |->
  LET S[m \in 0..12] == IF m = 0 THEN YearStart(y) ELSE S[m - 1] + MonthDays(y)[m] IN S]

Timegm(t) == MonthStart[t.year][t.mon] + t.mday - 1
Calendar ==
  LET First == CHOOSE y \in Years : \A z \in Years : y <= z
      Final == CHOOSE y \in Years : \A z \in Years : z <= y
  IN  [d \in YearStart(First)..(YearStart(Final + 1) - 1) |->
         LET y == CHOOSE z \in Years : YearStart(z) <= d /\ d < YearStart(z + 1)
             m == CHOOSE k \in 0..11 : MonthStart[y][k] <= d /\ d < MonthStart[y][k + 1]
         IN  [year |-> y, mon |-> m, mday |-> d - MonthStart[y][m] + 1, wday |-> (d + 4) % 7]]
Gmtime(d)  == Calendar[d]
DayOf(t)   == t \div 2

\* strftime("W%V %G"): the week belongs to the year of its Thursday.
WeekName(t) ==
  LET thursday == Timegm(t) - ((t.wday + 6) % 7) + 3
      y        == Gmtime(thursday).year
  IN  <<(thursday - YearStart(y)) \div 7 + 1, y>>

-----------------------------------------------------------------------------
(* The periods *)

TruncSunday(t) == Gmtime(Timegm(t) - t.wday)   \* mutant: a week begins on Sunday
TruncWeek(t)  == Gmtime(Timegm(t) - ((t.wday + 6) % 7))
DecWeek(t)    == Gmtime(Timegm(t) - 7)
IncWeek(t)    == Gmtime(Timegm(t) + 7)

TruncMonth(t) == [t EXCEPT !.mday = 1]
DecMonth(t)   == IF t.mon = 0 THEN [t EXCEPT !.year = t.year - 1, !.mon = 11] ELSE [t EXCEPT !.mon = t.mon - 1]
IncMonth(t)   == IF t.mon = 11 THEN [t EXCEPT !.year = t.year + 1, !.mon = 0] ELSE [t EXCEPT !.mon = t.mon + 1]

TruncQuarter(t) ==
  LET first == TruncMonth(t)
  IN  CASE first.mon % 3 = 0 -> first
        [] first.mon % 3 = 1 -> DecMonth(first)
        [] first.mon % 3 = 2 -> DecMonth(DecMonth(first))

Trunc(p, t) ==
  CASE p = 1 -> TruncWeek(t)
    [] p = 2 -> TruncMonth(t)
    [] p = 3 -> TruncQuarter(t)
    [] p = 4 -> [TruncMonth(t) EXCEPT !.mon = 0]
Dec(p, t) ==
  CASE p = 1 -> DecWeek(t)
    [] p = 2 -> DecMonth(t)
    [] p = 3 -> DecMonth(DecMonth(DecMonth(t)))
    [] p = 4 -> [t EXCEPT !.year = t.year - 1]
Inc(p, t) ==
  CASE p = 1 -> IncWeek(t)
    [] p = 2 -> IncMonth(t)
    [] p = 3 -> IncMonth(IncMonth(IncMonth(t)))
    [] p = 4 -> [t EXCEPT !.year = t.year + 1]
Pretty(p, t) ==
  CASE p = 1 -> WeekName(t)
    [] p = 2 -> <<t.mon, t.year>>
    [] p = 3 -> <<t.mon \div 3 + 1, t.year>>
    [] p = 4 -> <<0, t.year>>

\* n steps back, and the names of the columns from there on.
Back(p, t, n) ==
  LET B[k \in 0..n] == IF k = 0 THEN t ELSE Dec(p, B[k - 1]) IN B[n]
Forth(p, t) ==
  LET F[k \in 0..Columns] == IF k = 0 THEN t ELSE Inc(p, F[k - 1]) IN F
FirstColumn(p, time) == Back(p, Trunc(p, Gmtime(DayOf(time))), Columns - 1)
NamesFrom(p, t) == LET F == Forth(p, t) IN [k \in 1..Columns |-> Pretty(p, F[k - 1])]

-----------------------------------------------------------------------------
(* cgit_show_stats() *)

StatsInit ==
  /\ now \in Clock /\ code \in 0..Len(Periods) /\ ofs \in {0, -1, 2}
  /\ commits \in IF code = 0 THEN {<<>>}
                 ELSE UNION {[1..n -> Author \X Dated(code, now)] : n \in 0..MaxDated}
  /\ ticks = 0 /\ step = "begin" /\ since = 0 /\ got = 0
  /\ list = [a \in Author |-> <<>>] /\ ranked = <<>> /\ tm = <<>> /\ table = <<>>

\* The period is looked up and must not be above the limit of the repository.
Find ==
  /\ step = "begin"
  /\ step' = IF code = 0 \/ code > MaxStats THEN "error" ELSE "collect"
  /\ UNCHANGED <<askedStats, now, ticks, since, got, list, ranked, tm, table>>

\* collect_stats(): git reads the date that begins the first period as a time on
\* that day, as late as it is now.
Collect ==
  /\ step = "collect"
  /\ since' = 2 * Timegm(FirstColumn(code, now)) + (now % 2)
  /\ step' = "walk"
  /\ UNCHANGED <<askedStats, now, ticks, got, list, ranked, tm, table>>

\* get_revision() passes over older commits; add_commit()
Counted(l, name) ==
  IF \E k \in 1..Len(l) : l[k].name = name
    THEN [k \in 1..Len(l) |-> IF l[k].name = name THEN [l[k] EXCEPT !.n = @ + 1] ELSE l[k]]
    ELSE Append(l, [name |-> name, n |-> 1])
AddCommit ==
  /\ step = "walk" /\ got < Len(commits)
  /\ got' = got + 1
  /\ LET author == commits[got + 1][1]
         date   == commits[got + 1][2]
     IN  list' = IF date < since THEN list
                 ELSE [list EXCEPT ![author] = Counted(@, Pretty(code, Trunc(code, Gmtime(DayOf(date)))))]
  /\ UNCHANGED <<askedStats, now, ticks, step, since, ranked, tm, table>>

\* qsort() by cmp_total_commits(), which leaves the order of equals open.
SumOf(l) == FoldLeft(LAMBDA s, e : s + e.n, 0, l)
Seen == {a \in Author : list[a] # <<>>}
Order(seq) == \A j, k \in 1..Len(seq) : j < k => SumOf(list[seq[j]]) >= SumOf(list[seq[k]])
Sort ==
  /\ step = "walk" /\ got = Len(commits)
  /\ \E seq \in SetToSeqs(Seen) : Order(seq) /\ ranked' = seq
  /\ step' = "head"
  /\ UNCHANGED <<askedStats, now, ticks, since, got, list, tm, table>>

\* print_authors()
Lookup(a, name) == SumOf(SelectSeq(list[a], LAMBDA e : e.name = name))
Header ==
  /\ step = "head"
  /\ LET first == FirstColumn(code, now)
     IN  /\ table' = <<[kind |-> "head", at |-> now, cells |-> NamesFrom(code, first)]>>
         /\ tm' = Forth(code, first)[Columns]
  /\ step' = "rows"
  /\ UNCHANGED <<askedStats, now, ticks, since, got, list, ranked>>

Top ==
  LET top == IF ofs = 0 THEN DefaultTop ELSE ofs
  IN  IF top <= 0 \/ top > Len(ranked) THEN Len(ranked) ELSE top
TableRow(kind, who, cells) == [kind |-> kind, who |-> who, at |-> now, cells |-> cells]
AuthorRow ==
  /\ step = "rows" /\ Len(table) - 1 < Top
  /\ LET author == ranked[Len(table)]
         first  == Back(code, tm, Columns)
         names  == NamesFrom(code, first)
     IN  /\ table' = Append(table, TableRow("author", {author}, [k \in 1..Columns |-> Lookup(author, names[k])]))
         /\ tm' = Forth(code, first)[Columns]
  /\ UNCHANGED <<askedStats, now, ticks, step, since, got, list, ranked>>

\* print_combined_authorrow()
Combined(from, to) ==
  LET names == NamesFrom(code, FirstColumn(code, now))
      cell(k) == FoldLeft(LAMBDA s, a : s + Lookup(a, names[k]), 0, SubSeq(ranked, from, to))
  IN  [k \in 1..Columns |-> cell(k)]
LeftOver == Top < Len(ranked)
OthersRow  == TableRow("others", {ranked[k] : k \in (Top + 1)..Len(ranked)}, Combined(Top + 1, Len(ranked)))
Others ==
  /\ step = "rows" /\ Len(table) - 1 = Top
  /\ step' = "total"
  /\ table' = IF LeftOver THEN Append(table, OthersRow) ELSE table
  /\ UNCHANGED <<askedStats, now, ticks, since, got, list, ranked, tm>>
TotalRow ==
  /\ step = "total" /\ step' = "done"
  /\ table' = Append(table, TableRow("total", ToSet(ranked), Combined(1, Len(ranked))))
  /\ UNCHANGED <<askedStats, now, ticks, since, got, list, ranked, tm>>

\* The clock goes on meanwhile.
TickStats ==
  /\ step \in {"collect", "walk", "head", "rows", "total"} /\ ticks < MaxTicks
  /\ now' = now + 1 /\ ticks' = ticks + 1
  /\ UNCHANGED <<askedStats, step, since, got, list, ranked, tm, table>>

StatsSent == step \in {"done", "error"}
StatsNext == Find \/ Collect \/ AddCommit \/ Sort \/ Header \/ AuthorRow \/ Others \/ TotalRow \/ TickStats

-----------------------------------------------------------------------------
(* Properties *)

\* The types; every row but the last stands for somebody (ui-stats.c:329, 356).
StatsTypeOK ==
  /\ step \in {"begin", "collect", "walk", "head", "rows", "total", "done", "error", "away"}
  /\ got \in 0..Len(commits) /\ ticks \in 0..MaxTicks
  /\ \A r \in 2..Len(table) : table[r].kind # "total" => table[r].who # {}

\* The number of the period a time is in, counted from no matter when.
Ordinal(time) ==
  LET d == Gmtime(DayOf(time))
  IN  CASE code = 1 -> (DayOf(time) + 3) \div 7
        [] code = 2 -> 12 * d.year + d.mon
        [] code = 3 -> 4 * d.year + d.mon \div 3
        [] code = 4 -> d.year
Within(authors, k, time) ==
  {c \in 1..Len(commits) : /\ commits[c][1] \in authors /\ commits[c][2] >= since
                           /\ Ordinal(commits[c][2]) = Ordinal(time) - Columns + k}

\* Each number in the table is that of the commits of its author, or of those the
\* row stands for, in the period that many before the one the row was printed in:
\* each commit is in the column of its date, whatever the months and the turns of
\* the year in between, and future ones are in none (ui-stats.c:192, 285, 342).  A
\* row of an author is under the header, however late it is printed.
CellsRight ==
  \A r \in 2..Len(table) : \A k \in 1..Columns :
    table[r].cells[k] =
      Cardinality(Within(table[r].who, k, IF table[r].kind = "author" THEN table[1].at ELSE table[r].at))

\* The row "Total" is the sum of the rows above, each author being in one of them
\* (ui-stats.c:356).  It is not when a period begins while the table is printed.
TotalIsSum ==
  step = "done" /\ table # <<>> =>
    \A k \in 1..Columns :
      Last(table).cells[k] = FoldLeft(LAMBDA s, r : s + r.cells[k], 0, SubSeq(table, 2, Len(table) - 1))

\* It is in a table that no new period began in.
TotalsAgree ==
  table # <<>> /\ Ordinal(table[1].at) = Ordinal(Last(table).at) => TotalIsSum

\* The authors come in the order of the sums in their rows if no commit is from
\* the future (ui-stats.c:213).
RowSum(r) == FoldLeft(LAMBDA s, n : s + n, 0, r.cells)
RowsRanked ==
  (\A c \in 1..Len(commits) : commits[c][2] <= now) /\ ticks = 0 =>
    \A j, k \in 2..Len(table) :
      j < k /\ table[k].kind = "author" => RowSum(table[j]) >= RowSum(table[k])

\* The table, by parts.
TableInv == StatsTypeOK /\ CellsRight /\ TotalsAgree /\ RowsRanked
=============================================================================
