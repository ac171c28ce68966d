--------------------------- MODULE RepolistCache ---------------------------
(***************************************************************************)
(* The cached result of "scan-path" (cgit.c): process_cached_repolist()    *)
(* and generate_cached_repolist(), run by concurrent CGI requests and by   *)
(* the children they fork.                                                 *)
(*                                                                         *)
(* A request includes the cached rc file, or scans the path when there is  *)
(* none; when the file is older than cache-scanrc-ttl a child scans again. *)
(* The generator of a request is the request itself or its child, never    *)
(* both.  An inode is named after the request whose generator created it.  *)
(***************************************************************************)
EXTENDS Integers, FiniteSets

CONSTANTS
  Req,        \* the requests
  Past,       \* the inode of an rc file generated before
  NoFile,     \* no inode
  Chunks,     \* bound: the stdio buffers of a repolist, the last of them by fclose()
  Ttl,        \* ctx.cfg.cache_scanrc_ttl
  MaxTime,    \* bound on the clock
  MaxTree,    \* bound on the changes of the scanned tree
  MaxFaults   \* bound on failing calls and kills

Inode == Req \cup {Past}

ASSUME RepolistAssumption ==
  /\ Past \notin Req /\ NoFile \notin Inode
  /\ Chunks \in Nat \ {0}
  /\ {Ttl, MaxTime, MaxTree, MaxFaults} \subseteq Nat

VARIABLES
  rcName,     \* what "rc-<hash>" refers to
  lockName,   \* what "rc-<hash>.lock" refers to
  file,       \* the scan an inode holds, how much of it is written, its mtime
  tree,       \* how often the scanned tree has changed
  now,        \* time(NULL)
  faults,     \* failures so far
  pc,         \* where a request is in process_cached_repolist()
  gen,        \* where its generator is in generate_cached_repolist()
  forked,     \* the generator is a child process
  st,         \* stat() of the rc file
  fd,         \* the rc file being parsed
  got,        \* how much of it was parsed
  repolist    \* the scan in cgit_repolist, and how much of it

vars == <<rcName, lockName, file, tree, now, faults, pc, gen, forked, st, fd, got, repolist>>

NoScan == -1
NoStat == [ino |-> NoFile, mtime |-> 0]
NoList == [scan |-> NoScan, size |-> 0]

Init ==
  /\ rcName \in {NoFile, Past}
  /\ lockName = NoFile
  /\ file = [i \in Inode |-> [scan |-> IF i = Past THEN 0 ELSE NoScan,
                              size |-> IF i = Past THEN Chunks ELSE 0, mtime |-> 0]]
  /\ tree = 0
  /\ now = 0
  /\ faults = 0
  /\ pc = [r \in Req |-> "stat"]
  /\ gen = [r \in Req |-> "none"]
  /\ forked = [r \in Req |-> FALSE]
  /\ st = [r \in Req |-> NoStat]
  /\ fd = [r \in Req |-> NoFile]
  /\ got = [r \in Req |-> 0]
  /\ repolist = [r \in Req |-> NoList]

-----------------------------------------------------------------------------
Fault   == faults < MaxFaults /\ faults' = faults + 1
NoFault == UNCHANGED faults

Goto(r, label)    == pc' = [pc EXCEPT ![r] = label]
GotoGen(r, label) == gen' = [gen EXCEPT ![r] = label]

\* The list of the request is the one its own scan_tree() found.
Scanned(r) == repolist' = [repolist EXCEPT ![r] = [scan |-> tree, size |-> Chunks]]

(* process_cached_repolist() *)

StatRc(r) ==
  /\ pc[r] = "stat"
  /\ \/ /\ rcName = NoFile
        /\ Goto(r, "generate") /\ GotoGen(r, "open") /\ UNCHANGED st
     \/ /\ rcName # NoFile
        /\ st' = [st EXCEPT ![r] = [ino |-> rcName, mtime |-> file[rcName].mtime]]
        /\ Goto(r, "open") /\ UNCHANGED gen
  /\ UNCHANGED <<rcName, lockName, file, tree, now, faults, forked, fd, got, repolist>>

\* parse_configfile() opens the name again: it may refer to a newer file.  When
\* it cannot be opened nothing is parsed; nobody looks at the result.
OpenRc(r) ==
  /\ pc[r] = "open"
  /\ \/ fd' = [fd EXCEPT ![r] = rcName] /\ NoFault
     \/ UNCHANGED fd /\ Fault
  /\ Goto(r, "parse")
  /\ UNCHANGED <<rcName, lockName, file, tree, now, gen, forked, st, got, repolist>>

ParseRc(r) ==
  /\ pc[r] = "parse" /\ fd[r] # NoFile
  /\ got[r] < file[fd[r]].size
  /\ got' = [got EXCEPT ![r] = @ + 1]
  /\ UNCHANGED <<rcName, lockName, file, tree, now, faults, pc, gen, forked, st, fd, repolist>>

Expired(r) == now - st[r].mtime > Ttl

\* At the end of the file its repositories are in the list, and a child is
\* forked if the file was too old.  A fork() that fails is taken for the parent.
CheckAge(r) ==
  /\ pc[r] = "parse"
  /\ \/ fd[r] = NoFile /\ UNCHANGED repolist
     \/ /\ fd[r] # NoFile /\ got[r] = file[fd[r]].size
        /\ repolist' = [repolist EXCEPT ![r] = [scan |-> file[fd[r]].scan, size |-> got[r]]]
  /\ fd' = [fd EXCEPT ![r] = NoFile]
  /\ Goto(r, "done")
  /\ \/ ~Expired(r) /\ NoFault /\ UNCHANGED <<gen, forked>>
     \/ /\ Expired(r) /\ NoFault
        /\ forked' = [forked EXCEPT ![r] = TRUE]
        /\ GotoGen(r, "open")
     \/ Expired(r) /\ Fault /\ UNCHANGED <<gen, forked>>
  /\ UNCHANGED <<rcName, lockName, file, tree, now, st, got>>

\* Nothing was cached: the request that generates the rc file keeps what it
\* found, one that could not scans on its own account.
ScanUncached(r) ==
  /\ pc[r] = "generate"
  /\ \/ gen[r] = "end" /\ UNCHANGED repolist
     \/ gen[r] = "failed" /\ Scanned(r)
  /\ Goto(r, "done")
  /\ UNCHANGED <<rcName, lockName, file, tree, now, faults, gen, forked, st, fd, got>>

-----------------------------------------------------------------------------
(* generate_cached_repolist() *)

NoLock     == TRUE              \* mutant: fopen(locked_rc, "w")
RcAbsent   == rcName = NoFile   \* mutant: fopen(cached_rc, "wx")
LockAbsent == lockName = NoFile

\* fopen(locked_rc, "wx")
OpenLock(r) ==
  /\ gen[r] = "open"
  /\ \/ /\ LockAbsent /\ NoFault
        /\ lockName' = r
        /\ file' = [file EXCEPT ![r] = [scan |-> NoScan, size |-> 0, mtime |-> now]]
        /\ GotoGen(r, "scan")
     \/ /\ Fault \/ (~LockAbsent /\ NoFault)
        /\ GotoGen(r, "failed")
        /\ UNCHANGED <<lockName, file>>
  /\ UNCHANGED <<rcName, tree, now, pc, forked, st, fd, got, repolist>>

\* scan_tree() or scan_projects(), in the memory of the generator.
Scan(r) ==
  /\ gen[r] = "scan"
  /\ file' = [file EXCEPT ![r].scan = tree]
  /\ IF forked[r] THEN UNCHANGED repolist ELSE Scanned(r)
  /\ GotoGen(r, "print")
  /\ UNCHANGED <<rcName, lockName, tree, now, faults, pc, forked, st, fd, got>>

Grown(r, size) == [file EXCEPT ![r] = [@ EXCEPT !.size = size, !.mtime = now]]

\* print_repolist() fills a stdio buffer and it is written.
PrintRepolist(r) ==
  /\ gen[r] = "print"
  /\ file[r].size < Chunks - 1
  /\ file' = Grown(r, file[r].size + 1)
  /\ UNCHANGED <<rcName, lockName, tree, now, faults, pc, gen, forked, st, fd, got, repolist>>

\* The last buffer is still to be written: all of a short list is in it.  The
\* result of rename() is reported and otherwise ignored; it fails when the lock
\* file is gone.
Rename(r) ==
  /\ gen[r] = "print"
  /\ \/ rcName' = (IF lockName = NoFile THEN rcName ELSE lockName) /\ lockName' = NoFile /\ NoFault
     \/ Fault /\ UNCHANGED <<rcName, lockName>>
  /\ GotoGen(r, "close")
  /\ UNCHANGED <<file, tree, now, pc, forked, st, fd, got, repolist>>

LastUnwritten(r) == UNCHANGED file                  \* mutant: no fclose() before _exit()
LastWritten(r)   == file' = Grown(r, Chunks)

\* fclose() writes the last buffer; nobody looks at its result.
Close(r) ==
  /\ gen[r] = "close"
  /\ \/ LastWritten(r) /\ NoFault
     \/ UNCHANGED file /\ Fault
  /\ GotoGen(r, "end")
  /\ UNCHANGED <<rcName, lockName, tree, now, pc, forked, st, fd, got, repolist>>

-----------------------------------------------------------------------------
(* The environment *)

Generating == {"open", "scan", "print", "close"}

\* A generator is killed, or die()s while it scans; a child of its own does
\* not take the request with it.
KillGenerator(r) ==
  /\ gen[r] \in Generating
  /\ Fault
  /\ GotoGen(r, "dead")
  /\ pc' = IF forked[r] THEN pc ELSE [pc EXCEPT ![r] = "dead"]
  /\ UNCHANGED <<rcName, lockName, file, tree, now, forked, st, fd, got, repolist>>

TreeChange ==
  /\ tree < MaxTree
  /\ tree' = tree + 1
  /\ UNCHANGED <<rcName, lockName, file, now, faults, pc, gen, forked, st, fd, got, repolist>>

Tick ==
  /\ now < MaxTime
  /\ now' = now + 1
  /\ UNCHANGED <<rcName, lockName, file, tree, faults, pc, gen, forked, st, fd, got, repolist>>

Over(r)  == pc[r] \in {"done", "dead"} /\ gen[r] \notin Generating
Finished == (\A r \in Req : Over(r)) /\ UNCHANGED vars

Step(r) ==
  \/ StatRc(r) \/ OpenRc(r) \/ ParseRc(r) \/ CheckAge(r) \/ ScanUncached(r)
  \/ OpenLock(r) \/ Scan(r) \/ PrintRepolist(r) \/ Rename(r) \/ Close(r)

Next ==
  \/ \E r \in Req : Step(r) \/ KillGenerator(r)
  \/ TreeChange \/ Tick \/ Finished

Spec == Init /\ [][Next]_vars

\* No process is stopped for ever by the kernel.
FairSpec == Spec /\ \A r \in Req : WF_vars(Step(r))

-----------------------------------------------------------------------------
FileType == [scan : NoScan..MaxTree, size : 0..Chunks, mtime : 0..MaxTime]

\* Every variable has its type.
TypeOK ==
  /\ rcName \in Inode \cup {NoFile}
  /\ lockName \in Req \cup {NoFile}
  /\ file \in [Inode -> FileType]
  /\ tree \in 0..MaxTree
  /\ now \in 0..MaxTime
  /\ faults \in 0..MaxFaults
  /\ pc \in [Req -> {"stat", "open", "parse", "generate", "done", "dead"}]
  /\ gen \in [Req -> Generating \cup {"none", "end", "failed", "dead"}]
  /\ forked \in [Req -> BOOLEAN]
  /\ st \in [Req -> [ino : Inode \cup {NoFile}, mtime : 0..MaxTime]]
  /\ fd \in [Req -> Inode \cup {NoFile}]
  /\ got \in [Req -> 0..Chunks]
  /\ repolist \in [Req -> [scan : NoScan..MaxTree, size : 0..Chunks]]

\* The generators that have passed fopen() and not yet rename().
Holders == {r \in Req : gen[r] \in {"scan", "print"}}

\* The lock file belongs to the one generator that works on it, or it was left
\* by one that died or could not rename it.
Held == \A r \in Holders : lockName = r

LockInv == Held /\ (lockName # NoFile => lockName \in Holders \/ faults > 0)

\* A lock file that exists "only means we've got concurrent requests".
LockMeansConcurrent == lockName # NoFile => Holders # {}

\* The rc file is incomplete only between the rename() and the fclose() of its
\* generator, unless one of the two went wrong.
RcWhole ==
  rcName # NoFile /\ file[rcName].size < Chunks =>
    rcName # Past /\ (gen[rcName] = "close" \/ faults > 0)

\* The cached list is never replaced by the result of an earlier scan.
NeverOlder ==
  [][rcName # NoFile /\ rcName' # rcName => file[rcName].scan <= file[rcName'].scan]_rcName

\* A request gets its list from a scan that is not older than the list cached
\* when it looked ("if we fail to generate a cached repolist, we need to invoke
\* scan_tree manually"), and gets all of it, unless it came to the end of the file
\* between the rename() and the fclose() of its generator or something failed.
\* Without any list is only who could not open the rc file that it had found.
NeverBehind ==
  [][\A r \in Req : pc[r] # "done" /\ pc'[r] = "done" =>
       \/ st[r].ino # NoFile /\ fd[r] = NoFile /\ faults > 0
       \/ /\ repolist'[r].scan >= (IF st[r].ino = NoFile THEN 0 ELSE file[st[r].ino].scan)
          /\ \/ repolist'[r].size = Chunks
             \/ fd[r] \in Req /\ gen[fd[r]] = "close"
             \/ faults > 0]_pc

\* A finished request has the whole result of a scan ("save the resulting
\* repolist in 'cached_rc' and return 0 on success").
ServesWholeList == \A r \in Req : pc[r] = "done" => repolist[r].size = Chunks

\* A list that a request found to be older than cache-scanrc-ttl is replaced
\* if nothing fails ("the time-to-live [...] for the result of scanning a path").
RefreshedAfterTtl ==
  \A r \in Req : (pc[r] = "parse" /\ Expired(r)) ~> (rcName # st[r].ino \/ faults > 0)

-----------------------------------------------------------------------------
(* Why the safety properties hold *)

\* A request opens the rc file only when there is one, and has it open unless that
\* failed.
OpenInv ==
  \A r \in Req :
    /\ pc[r] = "open" => rcName # NoFile
    /\ pc[r] = "parse" => fd[r] # NoFile \/ faults > 0

\* A generator starts once, and its file is published only by its rename().
Unpublished == {"none", "open", "scan", "print", "failed"}

GenInv ==
  \A r \in Req :
    /\ pc[r] \in {"stat", "open", "parse"} => gen[r] = "none"
    /\ gen[r] \in Unpublished => rcName # r

\* The scan that is going to be published is as new as the published one.
ScanInv ==
  /\ \A i \in Inode : file[i].scan <= tree
  /\ \A r \in Req : gen[r] = "print" /\ rcName # NoFile => file[rcName].scan <= file[r].scan

\* A file is complete once its generator has ended without a failure.
SizeInv ==
  /\ file[Past].size = Chunks
  /\ \A r \in Req : gen[r] = "end" => file[r].size = Chunks \/ faults > 0
  /\ \A r \in Req : gen[r] = "dead" => faults > 0

\* The inductive invariant behind LockInv, RcWhole and NeverOlder.
ListInv == OpenInv /\ GenInv /\ ScanInv /\ SizeInv

\* A file that was the list once: it holds a scan that is not newer than the list.
Was(i) ==
  /\ i = Past \/ (i \in Req /\ gen[i] \notin Unpublished)
  /\ file[i].scan # NoScan /\ rcName # NoFile /\ file[i].scan <= file[rcName].scan

\* What a request looked at, opened and found comes one after the other.
Ahead(r) ==
  /\ pc[r] \in {"stat", "open"} => fd[r] = NoFile
  /\ pc[r] = "stat" => st[r].ino = NoFile /\ ~forked[r]
  /\ pc[r] \in {"open", "parse"} => st[r].ino # NoFile
  /\ st[r].ino # NoFile => Was(st[r].ino)
  /\ pc[r] = "parse" /\ fd[r] # NoFile =>
       Was(fd[r]) /\ file[st[r].ino].scan <= file[fd[r]].scan
  /\ pc[r] = "generate" =>
       /\ st[r].ino = NoFile /\ ~forked[r] /\ gen[r] # "none"
       /\ gen[r] \in {"print", "close", "end"} =>
            repolist[r].scan # NoScan /\ repolist[r].size = Chunks

\* The inductive invariant behind NeverBehind, together with ListInv.
BehindInv ==
  /\ rcName # NoFile => file[rcName].scan # NoScan
  /\ \A r \in Req : gen[r] = "print" => file[r].scan # NoScan
  /\ \A r \in Req : Ahead(r)
=============================================================================
