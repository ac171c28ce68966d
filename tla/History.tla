------------------------------- MODULE History -------------------------------
(***************************************************************************)
(* A client reads the history of a repository: the pages of its log, the   *)
(* diff of a commit, its statistics.  Each page is a process of its own    *)
(* (cgit.c:715); what leads from one to the other is the link of a row of  *)
(* the log, which names the commit and, in a followed log, the path the    *)
(* file has there.                                                         *)
(***************************************************************************)
EXTENDS Log, Diff, Stats

VARIABLES
  where,   \* the page the client looks at: "log", "diff" or "stats"
  clicked  \* the row of the log whose commit it looks at, or None

historyVars == <<where, clicked, logVars, diffVars, statsVars>>

NoLog   == [path |-> None, follow |-> FALSE, ofs |-> 0, id |-> 0]
LogAway ==
  /\ hist = <<"root">> /\ req = NoLog /\ pc = "away" /\ cur = 0 /\ sought = None /\ vpath = None
  /\ i = 0 /\ files = <<>> /\ counted = FALSE /\ rows = <<>> /\ links = NoLinks
  /\ start = [req |-> NoLog, tip |-> 1] /\ want = {} /\ trail = <<>> /\ left = <<>>
DiffAway ==
  /\ queue = <<>> /\ rev = TRUE /\ raw = FALSE /\ prefix = <<>> /\ follow = FALSE /\ dt = "none" /\ cfgdt = "unified"
  /\ ctrls = FALSE /\ mode = "none" /\ at = "away" /\ pair = 1 /\ line = 1
  /\ items = <<>> /\ slots = 0 /\ max = 0 /\ adds = 0 /\ rems = 0
  /\ oldNo = 0 /\ newNo = 0 /\ oldLines = <<>> /\ newLines = <<>> /\ page = <<>>
StatsAway ==
  /\ commits = <<>> /\ code = 0 /\ ofs = 0 /\ now = 0 /\ ticks = 0 /\ step = "away" /\ since = 0
  /\ got = 0 /\ list = <<>> /\ ranked = <<>> /\ tm = <<>> /\ table = <<>>

\* The client types the address of its first page.
Init ==
  /\ clicked = None
  /\ \/ where = "log" /\ LogInit /\ DiffAway /\ StatsAway
     \/ where = "diff" /\ LogAway /\ DiffInit /\ StatsAway
     \/ where = "stats" /\ LogAway /\ DiffAway /\ StatsInit

\* A name as the characters of a path, and the pairs of files git finds in a
\* commit: in a log that is not followed it only compares the path.
PathOf(n) == IF n = None THEN <<>> ELSE <<n>>
Edited(old, new) ==
  [one |-> PathOf(old), two |-> PathOf(new), sub |-> "none", binary |-> FALSE,
   hunks |-> <<[old |-> 1, new |-> 1, comma |-> FALSE, lines |-> <<[kind |-> "+", text |-> <<"x", "nl">>]>>]>>]
Beside   == [Edited(None, None) EXCEPT !.one = <<"b", "z">>, !.two = <<"b", "z">>]
PairsOf(k, path) ==
  LET old == IF hist[k] = "rename" THEN NameIn(k - 1) ELSE NameIn(k)
  IN  IF Changes(k) = {} THEN <<Beside>>
      ELSE IF path # None /\ ~req.follow THEN <<Edited(path, path)>>
      ELSE <<Edited(old, NameIn(k)), Beside>>

\* print_commit() links the subject to the page of the commit, which has its
\* diff without controls (ui-commit.c:145).
ClickRow ==
  /\ where = "log" /\ pc = "read"
  /\ \E k \in 1..Len(rows) :
       /\ clicked' = [changed |-> Changes(rows[k].id)]
       /\ queue' = PairsOf(rows[k].id, rows[k].path)
       /\ prefix' = PathOf(rows[k].path) /\ follow' = req.follow
  /\ where' = "diff" /\ at' = "begin" /\ cfgdt' \in {"unified", "ssdiff"}
  /\ UNCHANGED <<rev, raw, dt, ctrls, mode, pair, line, stat, deferred, page, statsVars>>
  /\ hist' = <<"root">> /\ req' = NoLog /\ pc' = "away" /\ cur' = 0 /\ sought' = None /\ vpath' = None
  /\ i' = 0 /\ files' = <<>> /\ counted' = FALSE /\ rows' = <<>> /\ links' = NoLinks
  /\ start' = [req |-> NoLog, tip |-> 1] /\ want' = {} /\ trail' = <<>> /\ left' = <<>>

ServeLog   == where = "log" /\ Serve /\ UNCHANGED <<where, clicked, diffVars, statsVars>>
ReadLog    == where = "log" /\ (ClickNext \/ ClickPrev \/ Push) /\ UNCHANGED <<where, clicked, diffVars, statsVars>>
ServeDiff  == where = "diff" /\ Printing /\ UNCHANGED <<where, clicked, logVars, statsVars>>
ServeStats == where = "stats" /\ StatsNext /\ UNCHANGED <<where, clicked, logVars, diffVars>>
ReadPage   == (pc = "read" \/ at = "done" \/ StatsSent) /\ UNCHANGED historyVars

Next == ServeLog \/ ReadLog \/ ClickRow \/ ServeDiff \/ ServeStats \/ ReadPage
Spec == Init /\ [][Next]_historyVars

-----------------------------------------------------------------------------
(* Properties *)

\* Whatever names a file had, the commit a row of a followed log leads to shows
\* what it did to the file: the name in the link is one of the two a rename has,
\* and either of them is enough for the diff (ui-log.c:119, ui-diff.c:144).
RowLeadsToDiff ==
  at = "done" /\ clicked # None /\ clicked.changed # {} =>
    \E n \in Printed("file") : queue[page[n].file].two \in {PathOf(p) : p \in clicked.changed}

\* A row has the path, the counts and the link of its own commit, by parts.
RowsOwn == RowNames /\ CountsOwn /\ RowLeadsToDiff

-----------------------------------------------------------------------------
(* Why these hold: the invariant HistoryProofs proves RowLeadsToDiff from. *)

\* git finds the file first, in a commit that changes it, and it is shown; once the
\* walk of the pairs is past it, it is on the page.
FirstShown == /\ Len(queue) >= 1 /\ ShowFilepair(queue[1])
              /\ queue[1].two \in {PathOf(p) : p \in clicked.changed}
ClickInv ==
  /\ IsList(page) /\ IsList(items) /\ IsList(oldLines) /\ IsList(newLines)
  /\ where = "log" => at = "away" /\ clicked = None /\ rev /\ ~raw /\ dt = "none" /\ pair = 1
  /\ clicked # None =>
       /\ where = "diff" /\ rev /\ ~raw /\ at # "away" /\ pair \in Nat \ {0}
       /\ IF at = "begin" THEN pair = 1 /\ dt = "none" /\ cfgdt # "statonly" ELSE mode # "statonly"
       /\ clicked.changed # {} =>
            /\ FirstShown
            /\ at \in {"line", "done"} \/ (at = "pair" /\ pair > 1) =>
                 \E n \in Printed("file") : page[n].file = 1
=============================================================================
