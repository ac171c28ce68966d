----------------------------- MODULE CacheSlot -----------------------------
(***************************************************************************)
(* One slot of the page cache (cache.c): the cache file, its lock file and *)
(* the CGI processes that serve requests whose keys hash to that slot.     *)
(*                                                                         *)
(* Every request is a process of its own that runs process_slot() once, so *)
(* the requests are the processes.  The actions are the system calls of    *)
(* process_slot(): between any two of them another process may run.        *)
(* Requests with different keys may share the slot: the file name is only  *)
(* hash_str(key) % size.                                                   *)
(***************************************************************************)
EXTENDS Integers, Sequences

CONSTANTS
  Proc,        \* the requests, each served by its own process
  Keys,        \* cache keys (query strings) that hash to this slot
  KeyOf,       \* the key of each request, and of the page found at the start
  PageLen,     \* chunks of output of the page of a key
  MaxLen,      \* bound: the longest page
  TtlOf,       \* calc_ttl() for the key: negative never expires, 0 no caching
  Bypass,      \* requests that call cache_process() with size <= 0
  Past,        \* the inode of a page cached before, and its request
  Left,        \* the inode of a lock file left by a process that died
  NoFile,      \* no inode: a name that does not exist, a closed descriptor
  NoProc,      \* no process: the owner of an unlocked file
  Hole,        \* a chunk of a file that was never written
  ErrorPage,   \* what cgit_die_routine() prints
  MaxTime,     \* bound on the clock
  MaxFaults,   \* bound on failing system calls, die() and kills
  Sendfile     \* built with HAVE_LINUX_SENDFILE

Req   == Proc \cup {Past}
Inode == Req \cup {Left}

ASSUME ConstAssumption ==
  /\ Past \notin Proc /\ Left \notin Req /\ NoFile \notin Inode /\ NoProc \notin Proc
  /\ KeyOf \in [Req -> Keys]
  /\ MaxLen \in Nat
  /\ PageLen \in [Keys -> 1..MaxLen]
  /\ TtlOf \in [Keys -> Int]
  /\ Bypass \subseteq Proc
  /\ MaxTime \in Nat /\ MaxFaults \in Nat
  /\ Sendfile \in BOOLEAN

ASSUME DistinctAssumption ==
  /\ Hole \notin Req \X (0..MaxLen) /\ ErrorPage \notin Req \X (0..MaxLen)

(***************************************************************************)
(* A page is its key (chunk 0, the key and its \0) and the chunks of       *)
(* output; a chunk names the request that generated it.                    *)
(***************************************************************************)
Chunk == (Req \X (0..MaxLen)) \cup {Hole, ErrorPage}
Last(r) == PageLen[KeyOf[r]]
Body(r) == [n \in 1..Last(r) |-> <<r, n>>]

File == [chunk : [0..MaxLen -> Chunk], size : 0..(MaxLen + 1), mtime : 0..MaxTime]

PageFile(r, t) ==
  [chunk |-> [n \in 0..MaxLen |-> IF n <= Last(r) THEN <<r, n>> ELSE Hole],
   size  |-> Last(r) + 1, mtime |-> t]

\* What a process that failed may leave in its lock file.
FailedFile == [chunk |-> [n \in 0..MaxLen |-> ErrorPage], size |-> MaxLen + 1, mtime |-> 0]

EmptyFile(t) == [chunk |-> [n \in 0..MaxLen |-> Hole], size |-> 0, mtime |-> t]

VARIABLES
  cacheName,   \* the inode the cache file name refers to, or NoFile
  lockName,    \* the inode the lock file name refers to, or NoFile
  file,        \* the contents of every inode
  owner,       \* the process that holds the fcntl() write lock of an inode
  now,         \* time(NULL)
  faults,      \* failures so far
  pc,          \* the next system call of a process
  hit,         \* process_slot() is in the branch of a matching slot
  cacheFd,     \* slot->cache_fd
  st,          \* slot->cache_st
  lockFd,      \* slot->lock_fd
  redirected,  \* STDOUT_FILENO is a duplicate of lock_fd
  woff,        \* the offset of the open lock file
  roff,        \* the offset of print_slot()
  sent,        \* what the client of the request has received
  sawExpired,  \* history: the fstat() result the process found to be expired
  slips        \* history: the ways in which a lock has not protected its file

fsVars   == <<cacheName, lockName, file, owner>>
fdVars   == <<cacheFd, st, lockFd, redirected, woff, roff>>
vars     == <<fsVars, now, faults, pc, hit, fdVars, sent, sawExpired, slips>>

FileStat == [ino : Inode \cup {NoFile}, mtime : 0..MaxTime, size : 0..(MaxLen + 1)]
NoStat == [ino |-> NoFile, mtime |-> 0, size |-> 0]

Init ==
  /\ cacheName \in {NoFile, Past}
  /\ lockName \in {NoFile, Left}
  /\ file = [i \in Inode |-> CASE i = Past -> PageFile(Past, 0)
                               [] i = Left -> FailedFile
                               [] OTHER    -> EmptyFile(0)]
  /\ owner = [i \in Inode |-> NoProc]
  /\ now = 0
  /\ faults = 0
  /\ pc = [p \in Proc |-> "start"]
  /\ hit = [p \in Proc |-> FALSE]
  /\ cacheFd = [p \in Proc |-> NoFile]
  /\ st = [p \in Proc |-> NoStat]
  /\ lockFd = [p \in Proc |-> NoFile]
  /\ redirected = [p \in Proc |-> FALSE]
  /\ woff = [p \in Proc |-> 0]
  /\ roff = [p \in Proc |-> 0]
  /\ sent = [p \in Proc |-> <<>>]
  /\ sawExpired = [p \in Proc |-> NoStat]
  /\ slips = {}

-----------------------------------------------------------------------------
At(p, label)      == pc[p] = label
Goto(p, label)    == pc' = [pc EXCEPT ![p] = label]
Fault             == faults < MaxFaults /\ faults' = faults + 1
NoFault           == UNCHANGED faults

\* An fcntl() lock goes when its process closes any descriptor of the file.
Released(p, i) == [owner EXCEPT ![i] = IF @ = p THEN NoProc ELSE @]
AllReleased(p) == [i \in Inode |-> IF owner[i] = p THEN NoProc ELSE owner[i]]

Stat(i) == [ino |-> i, mtime |-> file[i].mtime, size |-> file[i].size]

\* ftruncate(fd, 0).
NotEmptied(i) == [file EXCEPT ![i].mtime = now]   \* mutant: the call is missing
Emptied(i)    == [file EXCEPT ![i] = EmptyFile(now)]

\* Mutant: one chunk too many is counted.
WrittenTooFar(i, off, c) ==
  [file EXCEPT ![i] = [chunk |-> [@.chunk EXCEPT ![off] = c],
                       size  |-> off + 2, mtime |-> now]]

\* write(2) of one chunk at an offset: a gap before it reads as a hole.
Written(i, off, c) ==
  [file EXCEPT ![i] = [chunk |-> [@.chunk EXCEPT ![off] = c],
                       size  |-> IF @.size > off THEN @.size ELSE off + 1,
                       mtime |-> now]]

\* Where process_slot() goes when lock_slot() fails: serve the old page from
\* the descriptor it holds, or generate the page without caching it.
Fallback(p) == IF hit[p] THEN "print" ELSE "direct"

-----------------------------------------------------------------------------
(* cache_process() and open_slot() *)

Caches(p) == p \notin Bypass /\ TtlOf[KeyOf[p]] # 0

CacheProcess(p) ==
  /\ At(p, "start")
  /\ Goto(p, IF Caches(p) THEN "open" ELSE "direct")
  /\ UNCHANGED <<fsVars, now, faults, hit, fdVars, sent, sawExpired, slips>>

OpenSlot(p) ==
  /\ At(p, "open")
  /\ \/ cacheName = NoFile /\ Goto(p, "openlock") /\ UNCHANGED <<cacheFd, st>>
     \/ /\ cacheName # NoFile
        /\ cacheFd' = [cacheFd EXCEPT ![p] = cacheName]
        /\ st' = [st EXCEPT ![p] = Stat(cacheName)]
        /\ Goto(p, "readkey")
  /\ UNCHANGED <<fsVars, now, faults, hit, lockFd, redirected, woff, roff, sent, sawExpired, slips>>

\* The slot matches when its first chunk is the key of the request; otherwise
\* it is closed and the request goes on as if there were no slot.
MatchesAnyKey(p) == file[cacheFd[p]].size > 0   \* mutant: the keys are not compared

Matches(p) ==
  LET f == file[cacheFd[p]] IN
    f.size > 0 /\ \E r \in Req : f.chunk[0] = <<r, 0>> /\ KeyOf[r] = KeyOf[p]

\* Any call of open_slot() that fails has the effect of a key that differs.
ReadKey(p) ==
  /\ At(p, "readkey")
  /\ \/ /\ Matches(p) /\ NoFault
        /\ hit' = [hit EXCEPT ![p] = TRUE]
        /\ Goto(p, "check") /\ UNCHANGED <<cacheFd, owner>>
     \/ /\ Fault \/ (~Matches(p) /\ NoFault)
        /\ cacheFd' = [cacheFd EXCEPT ![p] = NoFile]
        /\ owner' = Released(p, cacheFd[p])
        /\ Goto(p, "openlock") /\ UNCHANGED hit
  /\ UNCHANGED <<cacheName, lockName, file, now, st, lockFd, redirected,
                 woff, roff, sent, sawExpired, slips>>

IsExpired(p) ==
  LET ttl == TtlOf[KeyOf[p]] IN ttl >= 0 /\ st[p].mtime + ttl < now

CheckExpired(p) ==
  /\ At(p, "check")
  /\ \/ /\ IsExpired(p)
        /\ sawExpired' = [sawExpired EXCEPT ![p] = st[p]]
        /\ Goto(p, "openlock") /\ UNCHANGED roff
     \/ /\ ~IsExpired(p)
        /\ roff' = [roff EXCEPT ![p] = 1]
        /\ Goto(p, "print") /\ UNCHANGED sawExpired
  /\ UNCHANGED <<fsVars, now, faults, hit, cacheFd, st, lockFd, redirected, woff, sent, slips>>

-----------------------------------------------------------------------------
(* lock_slot(): open, fcntl(F_SETLK), ftruncate, write the key *)

OpenLock(p) ==
  /\ At(p, "openlock")
  /\ \/ /\ lockName = NoFile
        /\ lockName' = p
        /\ file' = [file EXCEPT ![p] = EmptyFile(now)]
        /\ lockFd' = [lockFd EXCEPT ![p] = p]
        /\ Goto(p, "setlk") /\ NoFault
     \/ /\ lockName # NoFile
        /\ lockFd' = [lockFd EXCEPT ![p] = lockName]
        /\ Goto(p, "setlk") /\ NoFault /\ UNCHANGED <<lockName, file>>
     \/ Goto(p, Fallback(p)) /\ Fault /\ UNCHANGED <<lockName, file, lockFd>>
  /\ woff' = [woff EXCEPT ![p] = 0]
  /\ roff' = [roff EXCEPT ![p] = 1]
  /\ UNCHANGED <<cacheName, owner, now, hit, cacheFd, st, redirected, sent, sawExpired, slips>>

LockAlwaysFree(i) == TRUE                         \* mutant: no fcntl() lock
LockFreeIfNew(i)  == owner[i] = NoProc /\ i # Left \* mutant: the lock is the file itself
LockFree(i)       == owner[i] = NoProc

\* F_SETLK does not wait for the process that holds the lock.  The file may
\* have been renamed or deleted since open(2).
SetLock(p) ==
  /\ At(p, "setlk")
  /\ \/ /\ LockFree(lockFd[p])
        /\ owner' = [owner EXCEPT ![lockFd[p]] = p]
        /\ slips' = IF lockName = lockFd[p] THEN slips ELSE slips \cup {"gap"}
        /\ Goto(p, "trunc") /\ NoFault /\ UNCHANGED lockFd
     \/ /\ Fault \/ (~LockFree(lockFd[p]) /\ NoFault)
        /\ lockFd' = [lockFd EXCEPT ![p] = NoFile]
        /\ owner' = Released(p, lockFd[p])
        /\ Goto(p, Fallback(p)) /\ UNCHANGED slips
  /\ UNCHANGED <<cacheName, lockName, file, now, hit, cacheFd, st, redirected,
                 woff, roff, sent, sawExpired>>

\* A failure here returns with the lock file open, locked and in place.
Truncate(p) ==
  /\ At(p, "trunc")
  /\ \/ /\ file' = Emptied(lockFd[p])
        /\ Goto(p, "writekey") /\ NoFault
     \/ Goto(p, Fallback(p)) /\ Fault /\ UNCHANGED file
  /\ UNCHANGED <<cacheName, lockName, owner, now, hit, fdVars, sent, sawExpired, slips>>

WriteKey(p) ==
  /\ At(p, "writekey")
  /\ \/ /\ file' = Written(lockFd[p], 0, <<p, 0>>)
        /\ woff' = [woff EXCEPT ![p] = 1]
        /\ Goto(p, IF hit[p] THEN "modcheck" ELSE "redirect") /\ NoFault
     \/ Goto(p, Fallback(p)) /\ Fault /\ UNCHANGED <<file, woff>>
  /\ UNCHANGED <<cacheName, lockName, owner, now, hit, cacheFd, st, lockFd, redirected,
                 roff, sent, sawExpired, slips>>

-----------------------------------------------------------------------------
(* is_modified() and fill_slot() *)

AlwaysModified(p) == TRUE                         \* mutant: compares the wrong file
IsModified(p) == cacheName = NoFile \/ Stat(cacheName) # st[p]

CheckModified(p) ==
  /\ At(p, "modcheck")
  /\ \/ ~IsModified(p) /\ Goto(p, "redirect") /\ NoFault
     \/ IsModified(p) /\ Goto(p, "discard") /\ NoFault
     \/ Goto(p, "discard") /\ Fault   \* stat() fails
  /\ UNCHANGED <<fsVars, now, hit, fdVars, sent, sawExpired, slips>>

Redirect(p) ==
  /\ At(p, "redirect")
  /\ \/ /\ redirected' = [redirected EXCEPT ![p] = TRUE]
        /\ Goto(p, "fill") /\ NoFault
     \/ Goto(p, "discard") /\ Fault /\ UNCHANGED redirected
  /\ UNCHANGED <<fsVars, now, hit, cacheFd, st, lockFd, woff, roff, sent, sawExpired, slips>>

\* slot->fn() writes the next chunk of the page.
Fill(p) ==
  /\ At(p, "fill")
  /\ woff[p] <= Last(p)
  /\ file' = Written(lockFd[p], woff[p], <<p, woff[p]>>)
  /\ woff' = [woff EXCEPT ![p] = @ + 1]
  /\ UNCHANGED <<cacheName, lockName, owner, now, faults, pc, hit, cacheFd, st, lockFd,
                 redirected, roff, sent, sawExpired, slips>>

\* open_exec_filter() puts a pipe in the place of STDOUT_FILENO, which until
\* then is a duplicate of lock_fd: the lock of the process goes with it.
OpenFilter(p) ==
  /\ At(p, "fill")
  /\ owner[lockFd[p]] = p
  /\ owner' = Released(p, lockFd[p])
  /\ slips' = slips \cup {"filter"}
  /\ UNCHANGED <<cacheName, lockName, file, now, faults, pc, hit, fdVars, sent, sawExpired>>

FlushWithoutFstat(p) ==                           \* mutant: cache_st stays as it was
  /\ At(p, "fill") /\ woff[p] > Last(p)
  /\ Goto(p, "replace")
  /\ UNCHANGED <<fsVars, now, faults, hit, fdVars, sent, sawExpired, slips>>

Flush(p) ==
  /\ At(p, "fill")
  /\ woff[p] > Last(p)
  /\ \/ /\ st' = [st EXCEPT ![p] = Stat(lockFd[p])]
        /\ Goto(p, "replace") /\ NoFault
     \/ Goto(p, "discard") /\ Fault /\ UNCHANGED st
  /\ UNCHANGED <<fsVars, now, hit, cacheFd, lockFd, redirected, woff, roff, sent, sawExpired, slips>>

-----------------------------------------------------------------------------
(* unlock_slot() *)

\* unlock_slot(slot, 0) and close_lock(): delete what the lock name refers
\* to, restore stdout, close the lock file.  The result of unlink() is ignored.
Discard(p) ==
  /\ At(p, "discard")
  /\ \/ lockName' = NoFile /\ NoFault
     \/ UNCHANGED lockName /\ Fault
  /\ owner' = Released(p, lockFd[p])
  /\ redirected' = [redirected EXCEPT ![p] = FALSE]
  /\ lockFd' = [lockFd EXCEPT ![p] = NoFile]
  /\ Goto(p, Fallback(p))
  /\ UNCHANGED <<cacheName, file, now, hit, cacheFd, st, woff, roff, sent, sawExpired, slips>>

\* unlock_slot(slot, 1): rename what the lock name refers to, restore stdout;
\* the old slot is closed and the page is printed from the lock file.  The
\* result of rename() is ignored.
Replace(p) ==
  /\ At(p, "replace")
  /\ \/ /\ lockName # NoFile /\ cacheName' = lockName /\ lockName' = NoFile
        /\ NoFault /\ UNCHANGED slips
     \/ lockName = NoFile /\ UNCHANGED <<cacheName, lockName, slips>> /\ NoFault
     \/ /\ UNCHANGED <<cacheName, lockName>> /\ Fault
        /\ slips' = slips \cup {"rename"}
  /\ owner' = Released(p, lockFd[p])
  /\ redirected' = [redirected EXCEPT ![p] = FALSE]
  /\ cacheFd' = [cacheFd EXCEPT ![p] = lockFd[p]]
  /\ Goto(p, "print")
  /\ UNCHANGED <<file, now, hit, st, lockFd, woff, roff, sent, sawExpired>>

-----------------------------------------------------------------------------
(* print_slot(), the uncached page, and the end of the process *)

\* One chunk through sendfile() or read()/write().
PrintChunk(p) ==
  LET f == file[cacheFd[p]] IN
  /\ At(p, "print")
  /\ roff[p] < f.size
  /\ Sendfile => roff[p] # st[p].size
  /\ sent' = [sent EXCEPT ![p] = Append(@, f.chunk[roff[p]])]
  /\ roff' = [roff EXCEPT ![p] = @ + 1]
  /\ UNCHANGED <<fsVars, now, faults, pc, hit, cacheFd, st, lockFd, redirected, woff, sawExpired, slips>>

\* sendfile() is repeated until it has reached the size fstat() reported;
\* the read loop ends at the end of the file.
PrintedAll(p) ==
  IF Sendfile THEN roff[p] = st[p].size ELSE roff[p] >= file[cacheFd[p]].size

\* At the end of a file shorter than fstat() said, sendfile() returns 0 for ever.
Spinning(p) ==
  Sendfile /\ At(p, "print") /\ roff[p] # st[p].size /\ roff[p] >= file[cacheFd[p]].size

Spin(p) == Spinning(p) /\ UNCHANGED vars

PrintEnd(p) ==
  /\ At(p, "print")
  /\ PrintedAll(p)
  /\ cacheFd' = [cacheFd EXCEPT ![p] = NoFile]
  /\ owner' = Released(p, cacheFd[p])
  /\ Goto(p, "exit")
  /\ UNCHANGED <<cacheName, lockName, file, now, faults, hit, st, lockFd, redirected, woff,
                 roff, sent, sawExpired, slips>>

\* slot->fn() with stdout as it is: the client gets the page unless stdout
\* is still the lock file.
Direct(p) ==
  /\ At(p, "direct")
  /\ sent' = [sent EXCEPT ![p] = IF redirected[p] THEN @ ELSE @ \o Body(p)]
  /\ Goto(p, "exit")
  /\ UNCHANGED <<fsVars, now, faults, hit, fdVars, sawExpired, slips>>

\* The end of a process closes its descriptors.
Gone(p, label) ==
  /\ Goto(p, label)
  /\ owner' = AllReleased(p)
  /\ cacheFd' = [cacheFd EXCEPT ![p] = NoFile]
  /\ lockFd' = [lockFd EXCEPT ![p] = NoFile]
  /\ redirected' = [redirected EXCEPT ![p] = FALSE]
  /\ UNCHANGED <<cacheName, lockName, now, hit, st, woff, roff, sawExpired, slips>>

Exit(p) ==
  /\ At(p, "exit")
  /\ Gone(p, "done")
  /\ UNCHANGED <<file, faults, sent>>

\* die() during slot->fn(), or print_slot() fails and main() reports it: the
\* error page goes where stdout goes.
Die(p) ==
  /\ Fault
  /\ \/ /\ At(p, "fill") /\ woff[p] <= Last(p)
        /\ file' = Written(lockFd[p], woff[p], ErrorPage) /\ UNCHANGED sent
     \/ /\ At(p, "direct") \/ At(p, "print")
        /\ sent' = [sent EXCEPT ![p] = Append(@, ErrorPage)] /\ UNCHANGED file
  /\ Gone(p, "dead")

\* The web server kills the process, or the machine does.
Kill(p) ==
  /\ pc[p] \notin {"start", "exit", "done", "dead"}
  /\ Fault
  /\ Gone(p, "dead")
  /\ UNCHANGED <<file, sent>>

Tick ==
  /\ now < MaxTime
  /\ now' = now + 1
  /\ UNCHANGED <<fsVars, faults, pc, hit, fdVars, sent, sawExpired, slips>>

\* Every request has been served: nothing is left to do.
Over(p)  == pc[p] \in {"done", "dead"}
Finished == (\A p \in Proc : Over(p)) /\ UNCHANGED vars

-----------------------------------------------------------------------------
Step(p) ==
  \/ CacheProcess(p) \/ OpenSlot(p) \/ ReadKey(p) \/ CheckExpired(p)
  \/ OpenLock(p) \/ SetLock(p) \/ Truncate(p) \/ WriteKey(p)
  \/ CheckModified(p) \/ Redirect(p) \/ Fill(p) \/ Flush(p)
  \/ Discard(p) \/ Replace(p) \/ PrintChunk(p) \/ PrintEnd(p) \/ Direct(p) \/ Exit(p)

Next ==
  \/ \E p \in Proc : Step(p) \/ OpenFilter(p) \/ Die(p) \/ Kill(p) \/ Spin(p)
  \/ Tick
  \/ Finished

Spec == Init /\ [][Next]_vars

\* A process that can take a step is not stopped for ever by the kernel.
Fairness == \A p \in Proc : WF_vars(Step(p))
FairSpec == Spec /\ Fairness

-----------------------------------------------------------------------------
Labels == {"start", "open", "readkey", "check", "openlock", "setlk", "trunc", "writekey",
           "modcheck", "redirect", "fill", "discard", "replace", "print", "direct",
           "exit", "done", "dead"}

\* Every variable has its type: names and descriptors refer to inodes, files
\* fit the longest page, an offset never runs past the end of a page.
TypeOK ==
  /\ cacheName \in Inode \cup {NoFile}
  /\ lockName \in Inode \cup {NoFile}
  /\ file \in [Inode -> File]
  /\ owner \in [Inode -> Proc \cup {NoProc}]
  /\ now \in 0..MaxTime
  /\ faults \in 0..MaxFaults
  /\ pc \in [Proc -> Labels]
  /\ hit \in [Proc -> BOOLEAN]
  /\ cacheFd \in [Proc -> Inode \cup {NoFile}]
  /\ st \in [Proc -> FileStat]
  /\ lockFd \in [Proc -> Inode \cup {NoFile}]
  /\ redirected \in [Proc -> BOOLEAN]
  /\ woff \in [Proc -> 0..(MaxLen + 1)]
  /\ roff \in [Proc -> 0..(MaxLen + 1)]
  /\ sent \in [Proc -> Seq(Chunk)]
  /\ sawExpired \in [Proc -> FileStat]
  /\ slips \in SUBSET {"gap", "filter", "rename"}

\* Every lock was taken on the file behind the lock name, and held until its
\* process had renamed or deleted that file.
LocksKept == slips \subseteq {"rename"}

\* The inode holds the whole page of request r and nothing else.
IsPageOf(i, r) ==
  /\ file[i].size = Last(r) + 1
  /\ \A n \in 0..Last(r) : file[i].chunk[n] = <<r, n>>

\* As long as the locks are kept, the cache file is one complete page with its
\* key, whatever fails and whoever is killed: a page appears in the slot by
\* rename() only, from a lock file that was filled to the end (process_slot()).
SlotWhole  == cacheName # NoFile => \E r \in Req : IsPageOf(cacheName, r)
SlotIntact == LocksKept => SlotWhole

\* Nothing but these three prevents it: as long as no lock was taken too late,
\* dropped by a filter or given up in place by a failing rename(), a request
\* that ends normally has sent its client one complete page of its own key: from
\* the slot, from its lock file or generated without caching (print_slot() and
\* the fallbacks of process_slot()).
ServedIntact ==
  slips = {} => \A p \in Proc : pc[p] = "done" =>
    \E r \in Req : KeyOf[r] = KeyOf[p] /\ sent[p] = Body(r)

\* When fill_slot() has returned 0 the lock name refers to a complete page of
\* the process, if it was locked in time: "We've got a valid cache slot in the
\* lock file".
FilledIntact ==
  "gap" \notin slips =>
    \A p \in Proc : pc[p] = "replace" => lockName = lockFd[p] /\ IsPageOf(lockFd[p], p)

\* What the cache file name refers to is never written again, as long as the
\* locks are kept: a slot changes by being replaced.
SlotNeverPruned ==
  [][LocksKept' /\ cacheName # NoFile => file'[cacheName] = file[cacheName]]_<<cacheName, file, slips>>

\* The same of a lock taken too late: "This way we avoid pruning the newly
\* generated slot".  The code avoids it in fill_slot(), when lock_slot() has
\* already emptied the file.
NewSlotNotPruned ==
  [][slips' \subseteq {"gap"} /\ cacheName # NoFile =>
       file'[cacheName] = file[cacheName]]_<<cacheName, file, slips>>

AllOver == \A p \in Proc : Over(p)

\* A request held the lock on account of an earlier page than p's, and found that
\* page replaced when it came to fill the slot.
Overtaken(p) == \E q \in Proc : sawExpired[q] \notin {NoStat, sawExpired[p]}

\* An expired slot does not survive the requests that saw it expired: each of
\* them replaced it, or left it to another one that did.  A request that gives
\* up on a busy or modified slot relies on this, in vain only when the one that
\* made it busy is itself too late for an earlier page.
NoLostRefresh ==
  AllOver /\ faults = 0 =>
    \A p \in Proc : sawExpired[p] # NoStat =>
      cacheName # NoFile /\ (Stat(cacheName) # sawExpired[p] \/ Overtaken(p))

\* When requests were served and nothing failed, the slot holds a page and no
\* lock file is left, even if a dead process had left one.
SlotSettled ==
  AllOver /\ faults = 0 /\ (\E p \in Proc : Caches(p) /\ ~hit[p]) =>
    cacheName # NoFile /\ lockName = NoFile

\* No request runs for ever, but for a sendfile() loop on a file that another
\* request emptied because a lock has not protected it.
Termination == <>(\A p \in Proc : Over(p) \/ (slips # {} /\ Spinning(p)))

-----------------------------------------------------------------------------
Holding == {"trunc", "writekey", "modcheck", "redirect", "fill", "discard", "replace"}
Fresh   == {"start", "open", "readkey", "check", "openlock"}

\* A process uses a descriptor only while it is open.
FdInv ==
  \A p \in Proc :
    /\ pc[p] \in {"start", "open", "readkey"} => ~hit[p]
    /\ pc[p] \in Holding \cup {"setlk"} => lockFd[p] # NoFile
    /\ pc[p] \in {"readkey", "check", "print"} => cacheFd[p] # NoFile
    /\ hit[p] /\ pc[p] \in Holding \cup {"openlock", "setlk"} => cacheFd[p] # NoFile

\* A process between lock_slot() and unlock_slot() owns the lock of the file that
\* the lock name refers to.
LockInv == \A p \in Proc : pc[p] \in Holding => lockName = lockFd[p] /\ owner[lockFd[p]] = p

\* The two names never refer to the same file, nor to one not created yet.
NameInv ==
  /\ cacheName # NoFile => cacheName # lockName
  /\ \A p \in Proc : pc[p] \in Fresh => cacheName # p /\ lockName # p

\* The lock file of a process holds its page up to its write offset.
Filled(p) ==
  /\ pc[p] = "writekey" => file[lockFd[p]].size = 0
  /\ pc[p] \in {"modcheck", "redirect"} => woff[p] = 1
  /\ pc[p] = "fill" => woff[p] \in 1..(Last(p) + 1)
  /\ pc[p] \in {"modcheck", "redirect", "fill"} =>
       /\ file[lockFd[p]].size = woff[p]
       /\ \A n \in 0..(woff[p] - 1) : file[lockFd[p]].chunk[n] = <<p, n>>
  /\ pc[p] = "replace" => IsPageOf(lockFd[p], p)

FillInv == \A p \in Proc : Filled(p)

\* What holds as long as the locks are kept (LocksKept => SlotInv is inductive): one
\* process at a time fills the file that is going to be the slot, and nobody
\* writes the slot itself.
SlotInv == FdInv /\ LockInv /\ NameInv /\ FillInv /\ SlotWhole

(* Why ServedIntact holds, and why the slot is atomic: slips = {} => ReadInv. *)

\* A file that was in the slot: nobody is going to write it any more.
Published(i) ==
  /\ i # lockName
  /\ \A q \in Proc : pc[q] \in Fresh => i # q
  /\ \E r \in Req : IsPageOf(i, r)

\* The file a process reads is the page of a request with the key of its own,
\* and the client has received what comes before the offset.
HasKey(p)  == \E r \in Req : KeyOf[r] = KeyOf[p] /\ IsPageOf(cacheFd[p], r)
Sending(p, r) ==
  /\ KeyOf[r] = KeyOf[p] /\ IsPageOf(cacheFd[p], r)
  /\ roff[p] \in 1..(Last(r) + 1) /\ Len(sent[p]) = roff[p] - 1
  /\ \A n \in 1..(roff[p] - 1) : sent[p][n] = <<r, n>>

\* The descriptors a process has open at each point, and what is behind them.
Opened(p) ==
  /\ cacheFd[p] # NoFile => cacheName # NoFile /\ Published(cacheFd[p])
  /\ cacheFd[p] # NoFile /\ pc[p] # "replace" =>
       st[p] # NoStat /\ st[p].size = file[cacheFd[p]].size
  /\ pc[p] = "replace" => st[p] # NoStat /\ st[p].size = file[lockFd[p]].size
  /\ hit[p] => cacheName # NoFile
  /\ hit[p] /\ cacheFd[p] # NoFile => HasKey(p)
  /\ ~hit[p] /\ pc[p] \notin {"readkey", "print"} => cacheFd[p] = NoFile
  /\ pc[p] \in {"direct", "exit", "done", "dead"} => cacheFd[p] = NoFile
  /\ redirected[p] => pc[p] \in {"fill", "discard", "replace"}

Served(p) ==
  /\ pc[p] \notin {"print", "exit", "done", "dead"} => sent[p] = <<>>
  /\ pc[p] \in Holding \cup {"setlk"} => roff[p] = 1
  /\ pc[p] = "print" => \E r \in Req : Sending(p, r)
  /\ pc[p] \in {"exit", "done"} => \E r \in Req : KeyOf[r] = KeyOf[p] /\ sent[p] = Body(r)

\* Only the lock file of a process holds its chunks before it is published.
OwnKey(p) ==
  pc[p] \in Fresh \cup Holding \cup {"setlk"} =>
    \A i \in Inode : file[i].chunk[0] = <<p, 0>> => pc[p] \in Holding /\ i = lockFd[p]

ReadInv == \A p \in Proc : Opened(p) /\ Served(p) /\ OwnKey(p)

(* Why NoLostRefresh and SlotSettled hold, whatever becomes of the locks, as *)
(* long as nothing has failed.  A lock is held by a process on its way from  *)
(* lock_slot() to unlock_slot(), which ends with no file under the lock name. *)
LockedInv == \A i \in Inode : owner[i] # NoProc => pc[owner[i]] \in Holding /\ lockFd[owner[i]] = i

\* A process that has called lock_slot().
Tried(p) == Caches(p) /\ pc[p] \notin Fresh /\ (~hit[p] \/ sawExpired[p] # NoStat)

\* Once there was one, some process works on the lock file there is, and a
\* lock file there is until the slot has its first page.
Settling ==
  (\E p \in Proc : Tried(p)) =>
    /\ lockName # NoFile =>
         \E q \in Proc : pc[q] \in Holding \cup {"setlk"} /\ lockFd[q] = lockName
    /\ cacheName = NoFile => lockName # NoFile

\* The file was in the slot once, and never comes back to it.
Retired(s) == s.ino \notin {NoFile, lockName} /\ \A q \in Proc : pc[q] \in Fresh => s.ino # q

\* A process that saw the slot expired has the page that it saw replaced in the
\* slot, or has seen to it that there is a lock file; and it deletes that only if
\* the page it saw was not the last one.
Waiting == {"openlock", "setlk", "trunc", "writekey", "modcheck"}
Refreshing(p) ==
  /\ pc[p] \notin {"start", "direct", "exit", "done", "dead"} \/ hit[p] => Caches(p)
  /\ pc[p] \in {"readkey", "check"} \/ hit[p] => cacheName # NoFile
  /\ pc[p] \in {"readkey", "check"} => Retired(st[p])
  /\ pc[p] \in Fresh \ {"openlock"} => sawExpired[p] = NoStat
  /\ pc[p] \in {"check", "modcheck", "discard"} => hit[p]
  /\ hit[p] /\ pc[p] \in Waiting => sawExpired[p] = st[p] /\ sawExpired[p] # NoStat
  /\ pc[p] = "discard" => sawExpired[p] # NoStat /\ Stat(cacheName) # sawExpired[p]
  /\ sawExpired[p] # NoStat =>
       /\ hit[p] /\ Retired(sawExpired[p]) /\ sawExpired[p].mtime < now
       /\ \/ pc[p] = "openlock" \/ Stat(cacheName) # sawExpired[p]
          \/ Overtaken(p) \/ lockName # NoFile

RefreshInv ==
  faults = 0 => LockedInv /\ NameInv /\ Settling /\ \A p \in Proc : Refreshing(p)
=============================================================================
