------------------------------ MODULE MCFilter ------------------------------
(* Pages of one segment, plain or through each kind of filter, and pages of   *)
(* two segments of one chunk through one filter after another.  The filters   *)
(* print at once or keep what they read.                                      *)
EXTENDS Filter

CONSTANTS MaxLen

MCKeeps == [now |-> 0, end |-> 10]

ExecNow == [prefix |-> None, script |-> "now"]
ExecEnd == [prefix |-> "exec", script |-> "end"]
LuaNow  == [prefix |-> "lua", script |-> "now"]
LuaEnd  == [prefix |-> "lua", script |-> "end"]
MCCommands == {None, ExecNow, ExecEnd, LuaNow, LuaEnd}

Segment(c, n) == [cmd |-> c, len |-> n]
MCPages ==
  {<<Segment(c, MaxLen)>> : c \in MCCommands} \cup {<<Segment(c, 0)>> : c \in {ExecEnd, LuaEnd}}
  \cup {<<Segment(cs[1], 1), Segment(cs[2], 1)>> :
          cs \in {<<ExecNow, LuaEnd>>, <<LuaEnd, ExecEnd>>, <<ExecEnd, ExecNow>>, <<LuaNow, LuaEnd>>}}
=============================================================================
