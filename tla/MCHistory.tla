------------------------------ MODULE MCHistory ------------------------------
(* The log of MCLog, the diffs of MCDiff, and statistics at the turns of weeks, *)
(* months, quarters, years and leap years.                                      *)
EXTENDS History, MCLog, MCDiff

\* Years, months, days and halves of days.
MCYears == 2013..2024
Times   == {<<2019, 11, 31, 1>>, <<2020, 0, 5, 1>>, <<2020, 1, 29, 0>>, <<2020, 2, 31, 1>>, <<2021, 0, 3, 1>>}
MCClock == {2 * (MonthStart[t[1]][t[2]] + t[3] - 1) + t[4] : t \in Times}

\* Commits around the begin of the first two columns, of the present and of the
\* period to come.
Begin(p, time, k) == 2 * Timegm(Forth(p, FirstColumn(p, time))[k])
MCDated(p, time) ==
  {Begin(p, time, 0) + n : n \in {-1, 0, 1}} \cup {Begin(p, time, 1) - 1, Begin(p, time, 1), time, Begin(p, time, Columns)}
=============================================================================
