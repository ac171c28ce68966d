------------------------------- MODULE Filter -------------------------------
(***************************************************************************)
(* A page printed through filters (filter.c and its callers).  The page is *)
(* a sequence of segments; each is printed plainly or between              *)
(* cgit_open_filter() and cgit_close_filter().  An exec filter is a child  *)
(* process that reads a pipe and writes to what was standard output when   *)
(* it was forked; a Lua filter runs in the process, which hands it all it  *)
(* prints through a hook and takes the hook out while the script prints.   *)
(*                                                                         *)
(* What is printed goes through the buffer of stdout, which is written     *)
(* when it is full or flushed.  Git may die() at any time; then cgit       *)
(* prints an error page, with a filter of its own for the owner of the     *)
(* repository, while the filter it died in stays open, and exits.          *)
(***************************************************************************)
EXTENDS Integers, Sequences, SequencesExt

CONSTANTS Commands,  \* the commands of filters, None when a filter is not set
          Pages,     \* the pages to print: sequences of segments [cmd, len]
          PipeSize,  \* chunks a pipe holds
          Keeps,     \* [script -> chunks it keeps before it prints]
          MaxDies,   \* the nested calls of die() that git allows
          None

ASSUME FilterAssumption == /\ PipeSize \in Nat \ {0} /\ MaxDies \in Nat \ {0}
                           /\ None \notin Nat /\ None \in Commands
ASSUME PagesAssumption  == \A p \in Pages : p \in Seq([cmd : Commands, len : Nat])

(***************************************************************************)
(* cgit_new_filter(): the kind of a command [prefix, script].  A prefix of *)
(* one letter is a drive, and no prefix means exec.                        *)
(***************************************************************************)
Letter == "c"
Kind(cmd) == IF cmd = None THEN "none"
             ELSE CASE cmd.prefix \in {None, Letter}   -> "exec"
                    [] cmd.prefix \in {"exec", "lua"} -> cmd.prefix
                    [] OTHER                          -> "invalid"

VARIABLES page,    \* the page being printed, and the error pages behind it
          owner,   \* ctx.repo->owner_filter, None too when no header shows it
          deaths,  \* the calls of die()
          seg,     \* the segment
          pos,     \* the chunks of it that are printed
          state,   \* where the process is
          buf,     \* the buffer of stdout
          fd1,     \* descriptor 1: 0 is the real output, c the pipe of child c
          saved,   \* old_stdout of the open exec filter, None when there is none
          leaked,  \* the exec filters it died in: their pipes are never closed
          hook,    \* current_write_filter: the segment whose script is hooked, or None
          held,    \* what the script of a Lua filter has read and not printed
          pipe,    \* [child -> what its pipe holds]
          child,   \* [child -> "none", "forked", "running", "ended", "failed", "killed"]
          cheld,   \* [child -> what it has read and not written]
          sink,    \* [child -> its descriptor 1, that of the process at the fork]
          out,     \* the real output
          printed  \* history: what was printed, with the filter it went to

filters == <<hook, held>>
childs  == <<pipe, child, cheld, sink>>
request == <<page, owner, deaths, leaked>>
vars    == <<request, seg, pos, state, buf, fd1, saved, filters, childs, out, printed>>

Segs  == DOMAIN page
\* A chunk of the page and the filters it went through.
Chunk(s, k)    == [at |-> <<s, k>>, by |-> <<>>]
Error          == Chunk(0, 0)     \* the error page of a child
Filtered(s, c) == [c EXCEPT !.by = Append(@, s)]

Here       == page[seg]
AtSegment  == state = "run" /\ seg \in Segs
FilterKind == Kind(Here.cmd)
Opened     == saved # None \/ hook = seg
Full(s, kept) == Len(kept) > Keeps[page[s].cmd.script]

\* html() and all that end in fwrite(stdout): to the hooked script if there is
\* one (write_lua_filter()), else to the buffer.  The script prints what it
\* holds when that is too much, with the hook taken out (hook_lua_filter()).
ToScript(c) ==
  LET kept == Append(held, Filtered(hook, c))
  IN  IF Full(hook, kept)
        THEN held' = <<>> /\ buf' = buf \o kept
        ELSE held' = kept /\ buf' = buf
Put(c) == /\ IF hook = None THEN buf' = Append(buf, c) /\ held' = held ELSE ToScript(c)
          /\ printed' = Append(printed, IF Opened THEN Filtered(seg, c) ELSE c)

Html ==
  /\ AtSegment /\ pos < Here.len
  /\ FilterKind # "none" => Opened
  /\ Put(Chunk(seg, pos + 1))
  /\ pos' = pos + 1
  /\ UNCHANGED <<request, seg, state, fd1, saved, hook, childs, out>>

OneOver(c) == Len(pipe[c]) <= PipeSize   \* mutant
Fits(c)    == Len(pipe[c]) < PipeSize

\* The buffer is written, chunk by chunk, to what descriptor 1 is.  Writing to
\* a pipe nobody reads kills the process.
WriteOut ==
  /\ state \in {"run", "exit"} /\ buf # <<>>
  /\ IF fd1 = 0
       THEN /\ out' = Append(out, Head(buf))
            /\ UNCHANGED <<state, pipe>>
       ELSE IF child[fd1] \in {"forked", "running"}
       THEN /\ Fits(fd1)
            /\ pipe' = [pipe EXCEPT ![fd1] = Append(@, Head(buf))]
            /\ UNCHANGED <<state, out>>
       ELSE /\ state' = "killed"
            /\ UNCHANGED <<pipe, out>>
  /\ buf' = Tail(buf)
  /\ UNCHANGED <<request, seg, pos, fd1, saved, filters, child, cheld, sink, printed>>

NotFlushed == TRUE     \* mutant: no fflush() before the descriptor is replaced
Flushed    == buf = <<>>

-----------------------------------------------------------------------------
(* cgit_open_filter(), cgit_close_filter() *)

\* open_exec_filter(): flush, dup(), pipe(), fork(), dup2().  The child's
\* standard output is descriptor 1 of this moment.
OpenExec ==
  /\ AtSegment /\ FilterKind = "exec" /\ pos = 0 /\ ~Opened
  /\ Flushed
  /\ saved' = fd1
  /\ child' = [child EXCEPT ![seg] = "forked"]
  /\ sink' = [sink EXCEPT ![seg] = fd1]
  /\ fd1' = seg
  /\ UNCHANGED <<request, seg, pos, state, buf, filters, pipe, cheld, out, printed>>

\* close_exec_filter(): flush, restore descriptor 1 ...
RestoreStdout ==
  /\ AtSegment /\ FilterKind = "exec" /\ pos = Here.len /\ saved # None
  /\ Flushed
  /\ fd1' = saved
  /\ saved' = None
  /\ state' = "wait"
  /\ UNCHANGED <<request, seg, pos, buf, filters, childs, out, printed>>

Exited(c)  == child[c] \in {"ended", "failed"}

\* ... and wait for the child.
Waitpid ==
  /\ state = "wait"
  /\ Exited(seg)
  /\ state' = "run"
  /\ seg' = seg + 1 /\ pos' = 0
  /\ UNCHANGED <<request, buf, fd1, saved, filters, childs, out, printed>>

\* open_lua_filter(): flush, load the script, set the hook.  When there is one
\* already the assertion of hook_write() ends the process.
OpenLua ==
  /\ AtSegment /\ FilterKind = "lua" /\ pos = 0 /\ hook # seg
  /\ Flushed
  /\ IF hook = None THEN hook' = seg /\ state' = state
                    ELSE state' = "aborted" /\ hook' = hook
  /\ UNCHANGED <<request, seg, pos, buf, fd1, saved, held, childs, out, printed>>

\* close_lua_filter(): the script prints the rest, then the hook is taken out.
KeepsHook(h) == h      \* mutant: unhook_write() is missing
Unhooked(h)  == None

CloseLua ==
  /\ AtSegment /\ FilterKind = "lua" /\ pos = Here.len /\ hook = seg
  /\ buf' = buf \o held
  /\ held' = <<>>
  /\ hook' = Unhooked(hook)
  /\ seg' = seg + 1 /\ pos' = 0
  /\ UNCHANGED <<request, state, fd1, saved, childs, out, printed>>

\* A segment that is not filtered, or whose filter is not set.
NextSegment ==
  /\ AtSegment /\ FilterKind = "none" /\ pos = Here.len
  /\ seg' = seg + 1 /\ pos' = 0
  /\ UNCHANGED <<request, state, buf, fd1, saved, filters, childs, out, printed>>

-----------------------------------------------------------------------------
(* The end of the process *)

\* cgit_die_routine(): the error page is printed the way any page is, with the
\* owner filter in its header, wherever the process was; what was open stays
\* open, and the saved descriptor is not used again.  Beyond its limit git
\* exits without an error page.
ErrorPage   == <<[cmd |-> None, len |-> 1], [cmd |-> owner, len |-> 1], [cmd |-> None, len |-> 1]>>
Grown(f, v) == [c \in DOMAIN page' |-> IF c \in DOMAIN f THEN f[c] ELSE v]

PrintErrorPage ==
  /\ deaths < MaxDies
  /\ deaths' = deaths + 1
  /\ page' = page \o ErrorPage
  /\ seg' = Len(page) + 1 /\ pos' = 0 /\ state' = "run"
  /\ leaked' = IF saved = None THEN leaked ELSE leaked \cup {seg}
  /\ saved' = None
  /\ child' = Grown(child, "none") /\ sink' = Grown(sink, 0)
  /\ pipe' = Grown(pipe, <<>>) /\ cheld' = Grown(cheld, <<>>)
  /\ UNCHANGED <<owner, buf, fd1, filters, out, printed>>

GiveUp ==
  /\ deaths = MaxDies
  /\ state' = "exit"
  /\ UNCHANGED <<request, seg, pos, buf, fd1, saved, filters, childs, out, printed>>

\* die() in git or in a script.
Die == AtSegment /\ (PrintErrorPage \/ GiveUp)

\* close_exec_filter() dies when the child was killed by a signal.
WaitpidKilled == state = "wait" /\ child[seg] = "killed" /\ (PrintErrorPage \/ GiveUp)

EndOfPage ==
  /\ state = "run" /\ seg \notin Segs
  /\ state' = "exit"
  /\ UNCHANGED <<request, seg, pos, buf, fd1, saved, filters, childs, out, printed>>

\* exit(): the buffer is flushed, the filters are cleaned up, and descriptor 1
\* is closed.
Drained   == buf = <<>>

Exit ==
  /\ state = "exit" /\ Drained
  /\ state' = IF deaths = 0 THEN "done" ELSE "died"
  /\ UNCHANGED <<request, seg, pos, buf, fd1, saved, filters, childs, out, printed>>

-----------------------------------------------------------------------------
(* The children *)

Ended   == state \in {"done", "died", "killed", "aborted"}
Alive(c) == child[c] \in {"forked", "running"}

\* Who can write to the pipe of c: the process, while c is its descriptor 1 or
\* was left open when it died; then also the children it has forked since.
WriterKept(c) == ~(child[c] = "none")   \* mutant: pipe_fh[1] stays open in the child
Writer(c) == \/ ~Ended /\ (fd1 = c \/ c \in leaked)
             \/ c \in leaked /\ \E k \in Segs : k > c /\ Alive(k)

\* What child c writes goes where its descriptor 1 goes; it is killed when
\* nobody reads that.
Emits(c, chunk, next) ==
  IF sink[c] = 0
    THEN out' = Append(out, chunk) /\ pipe' = pipe /\ child' = [child EXCEPT ![c] = next]
    ELSE /\ out' = out
         /\ IF Alive(sink[c])
              THEN /\ Fits(sink[c])
                   /\ pipe' = [pipe EXCEPT ![sink[c]] = Append(@, chunk)]
                   /\ child' = [child EXCEPT ![c] = next]
              ELSE pipe' = pipe /\ child' = [child EXCEPT ![c] = "killed"]

ChildReads(c) ==
  /\ child[c] = "running" /\ pipe[c] # <<>> /\ ~Full(c, cheld[c])
  /\ cheld' = [cheld EXCEPT ![c] = Append(@, Filtered(c, Head(pipe[c])))]
  /\ pipe' = [pipe EXCEPT ![c] = Tail(@)]
  /\ UNCHANGED <<request, seg, pos, state, buf, fd1, saved, filters, child, sink, out, printed>>

\* A child writes when it holds too much, and at the end of its input.
InputEnded(c) == pipe[c] = <<>> /\ ~Writer(c)
ChildWrites(c) ==
  /\ child[c] = "running" /\ cheld[c] # <<>>
  /\ Full(c, cheld[c]) \/ InputEnded(c)
  /\ Emits(c, Head(cheld[c]), "running")
  /\ cheld' = [cheld EXCEPT ![c] = Tail(@)]
  /\ UNCHANGED <<request, seg, pos, state, buf, fd1, saved, filters, sink, printed>>

ChildExits(c) ==
  /\ child[c] = "running" /\ cheld[c] = <<>> /\ InputEnded(c)
  /\ child' = [child EXCEPT ![c] = "ended"]
  /\ UNCHANGED <<request, seg, pos, state, buf, fd1, saved, filters, pipe, cheld, sink, out, printed>>

Execs(c) ==
  /\ child[c] = "forked"
  /\ child' = [child EXCEPT ![c] = "running"]
  /\ UNCHANGED <<request, seg, pos, state, buf, fd1, saved, filters, pipe, cheld, sink, out, printed>>

\* execvp() fails in the child: its die() prints an error page too, to its
\* standard output, and it exits with 0.
ExecFails(c) ==
  /\ child[c] = "forked"
  /\ Emits(c, Error, "failed")
  /\ UNCHANGED <<request, seg, pos, state, buf, fd1, saved, filters, cheld, sink, printed>>

ChildKilled(c) ==
  /\ child[c] = "running"
  /\ child' = [child EXCEPT ![c] = "killed"]
  /\ UNCHANGED <<request, seg, pos, state, buf, fd1, saved, filters, pipe, cheld, sink, out, printed>>

-----------------------------------------------------------------------------
Init ==
  /\ page \in Pages /\ owner \in Commands /\ deaths = 0 /\ leaked = {}
  /\ seg = 1 /\ pos = 0 /\ state = "run"
  /\ buf = <<>> /\ fd1 = 0 /\ saved = None /\ hook = None /\ held = <<>>
  /\ pipe = [c \in Segs |-> <<>>]
  /\ child = [c \in Segs |-> "none"]
  /\ cheld = [c \in Segs |-> <<>>]
  /\ sink = [c \in Segs |-> 0]
  /\ out = <<>> /\ printed = <<>>

Process == \/ Html \/ WriteOut \/ OpenExec \/ RestoreStdout \/ Waitpid \/ WaitpidKilled
           \/ OpenLua \/ CloseLua \/ NextSegment \/ EndOfPage \/ Exit
Child(c) == Execs(c) \/ ChildReads(c) \/ ChildWrites(c) \/ ChildExits(c)
Faults   == Die \/ \E c \in Segs : ExecFails(c) \/ ChildKilled(c)

Next == Process \/ (\E c \in Segs : Child(c)) \/ Faults

\* The process and the filters run; nothing obliges anything to fail.
Segments == {n + k : n \in UNION {0..Len(p) : p \in Pages}, k \in 0..(3 * MaxDies)}
Fairness == WF_vars(Process) /\ \A c \in Segments : WF_vars(c \in Segs /\ Child(c))

Spec == Init /\ [][Next]_vars /\ Fairness
-----------------------------------------------------------------------------
Chunks == [at : Nat \X Nat, by : Seq(Nat)]

TypeOK ==
  /\ page \in Seq([cmd : Commands, len : Nat]) /\ owner \in Commands
  /\ deaths \in 0..MaxDies /\ leaked \subseteq Segs
  /\ seg \in 1..(Len(page) + 1) /\ pos \in Nat
  /\ state \in {"run", "wait", "exit", "done", "died", "killed", "aborted"}
  /\ fd1 \in {0} \cup Segs /\ saved \in {0, None} \cup Segs /\ hook \in Segs \cup {None}
  /\ {buf, held, out, printed} \subseteq Seq(Chunks)
  /\ pipe \in [Segs -> Seq(Chunks)] /\ cheld \in [Segs -> Seq(Chunks)]
  /\ \A c \in Segs : Len(pipe[c]) <= PipeSize
  /\ child \in [Segs -> {"none", "forked", "running", "ended", "failed", "killed"}]
  /\ sink \in [Segs -> {0} \cup Segs]

\* No filter was killed or could not be started.
Healthy == /\ state # "killed"
           /\ \A c \in Segs : child[c] \notin {"failed", "killed"}

All(c, cs) == [i \in DOMAIN cs |-> Filtered(c, cs[i])]
ForFd1(cs) == IF fd1 = 0 THEN cs ELSE All(fd1, cs)
Active     == {c \in Segs : Alive(c)}
InChild(c) == cheld[c] \o All(c, pipe[c])

\* Nothing is lost, doubled or overtaken in a request that does not die: what
\* has been printed is what came out, then what the child holds, what its pipe,
\* the buffer of stdout and the script hold, in this order.  Only one child is
\* alive at a time, and none that has ended kept anything
\* (filter.c:51-82: the flushes, the restored descriptor, the wait).
NothingLost ==
  deaths = 0 /\ Healthy =>
    /\ \A c, d \in Active : c = d
    /\ \A c \in Segs \ Active : InChild(c) = <<>>
    /\ \A c \in Active : printed = out \o InChild(c) \o ForFd1(buf) \o held
    /\ Active = {} => printed = out \o ForFd1(buf) \o held

\* In the page the chunk at b comes right after the one at a.  <<0, 0>> is
\* before the first chunk, and the end of the page is one segment further.
LenOf(s) == IF s \in Segs THEN page[s].len ELSE 0
Adjacent(a, b) ==
  \/ b = <<a[1], a[2] + 1>> /\ b[2] <= LenOf(a[1])
  \/ /\ a[1] < b[1] /\ a[2] = LenOf(a[1]) /\ b[2] = 1
     /\ \A s \in (a[1] + 1)..(b[1] - 1) : LenOf(s) = 0

\* The chunks that were put out, each after the one before it in the page and
\* through the filter of its segment and no other.
LastAt(cs, n) == IF n = 0 THEN <<0, 0>> ELSE cs[n].at
Through(s)    == IF Kind(page[s].cmd) = "none" THEN <<>> ELSE <<s>>
InOrder(cs)   == \A i \in DOMAIN cs : /\ cs[i].at[1] \in Segs
                                     /\ Adjacent(LastAt(cs, i - 1), cs[i].at)
                                     /\ cs[i].by = Through(cs[i].at[1])

\* A request that did not die has put out its whole page, each segment through
\* its own filter.
PageWhole ==
  state = "done" /\ Healthy =>
    InOrder(out) /\ Adjacent(LastAt(out, Len(out)), <<Len(page) + 1, 1>>)

\* The assertion of hook_write() that no hook is set (filter.c:184) fails in no
\* request that has not died; it fails only when a Lua filter was open at a
\* die() and the error page opens a Lua filter for the owner (ui-shared.c:1068).
HookFree ==
  state = "aborted" =>
    deaths > 0 /\ hook # None /\ hook < seg /\ Kind(owner) = "lua"

\* "assert(filter_write == NULL)", which an error page can break.
HooksNeverNest == state # "aborted"

\* One filter is open at a time, and its child is the only one that is alive;
\* besides there are only those that a request has died in.  Descriptor 1 is the
\* pipe of the open one, else of one it died in, else the real output.
Redirected ==
  /\ saved # None => fd1 = seg /\ hook # seg /\ saved \in {0} \cup leaked
  /\ saved = None => fd1 \in {0} \cup leaked
  /\ deaths = 0 => leaked = {} /\ hook \in {seg, None}
OneFilter == Redirected /\ \A c \in Active : c = seg \/ c \in leaked

\* What is printed, wherever it is by now, and who takes it: by parts.
OutputInv == TypeOK /\ NothingLost /\ PageWhole /\ OneFilter

-----------------------------------------------------------------------------
(* Why these hold *)

\* Between open and close: which filter is open, where the page is, and that
\* nothing is left in the buffer when descriptor 1 or the hook changes.
FilterInv ==
  /\ Redirected
  /\ saved # None => seg \in Segs /\ FilterKind = "exec"
  /\ hook # None  => hook <= seg /\ Kind(page[hook].cmd) = "lua"
  /\ hook = None  => held = <<>>
  /\ seg \in Segs => pos <= Here.len
  /\ state = "wait" => seg \in Segs /\ saved = None /\ FilterKind = "exec" /\ pos = Here.len
  /\ seg \notin Segs => pos = 0
  /\ state = "done" => deaths = 0 /\ seg \notin Segs /\ buf = <<>>
  /\ state = "exit" => seg \notin Segs \/ deaths > 0
  /\ \A c \in leaked : c < seg
  /\ \A c \in Segs : sink[c] \in {0} \cup leaked

\* Which segments are the error pages, and that only those are printed with a
\* hook or a pipe left from before.
ErrorInv ==
  /\ deaths > 0 => \A s \in Segs : s >= seg => page[s].cmd \in {None, owner}
  /\ HookFree

\* A child lives while its filter is open or waited for (or the process has
\* died in between), and one that was not started or has ended holds nothing.
ChildInv ==
  /\ \A c \in Segs : c > seg => child[c] = "none"
  /\ seg \in Segs /\ state = "run" /\ saved = None => child[seg] = "none"
  /\ \A c \in Active : c \in leaked \/ (c = seg /\ (saved # None \/ state = "wait"))
  /\ \A c \in Segs : child[c] \in {"none", "ended"} => cheld[c] = <<>> /\ pipe[c] = <<>>

\* What was printed is the page up to here, until the request dies.
Reached(a) ==
  \/ a = <<seg, pos>>
  \/ /\ pos = 0 /\ a[1] < seg /\ a[2] = LenOf(a[1])
     /\ \A s \in (a[1] + 1)..(seg - 1) : LenOf(s) = 0
PrintedInv ==
  deaths = 0 => InOrder(printed) /\ Reached(LastAt(printed, Len(printed)))

\* Every request ends: nobody waits for ever for a child that waits for the end
\* of its input (filter.c:57, 66, 78).  What a request that dies has printed,
\* before its error pages and on them, comes out in that order, although nobody
\* waits for the filters it died in; only what the script of such a filter still
\* held is lost.
Order(cs) == [i \in DOMAIN cs |-> cs[i].at]
RequestEnds ==
  /\ <>Ended
  /\ (state = "died" /\ Healthy) ~> (Order(printed) = Order(out \o held) \/ ~Healthy)
=============================================================================
