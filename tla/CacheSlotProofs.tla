-------------------------- MODULE CacheSlotProofs ---------------------------
(***************************************************************************)
(* Theorems about one cache slot, for any number of requests, keys, page   *)
(* lengths and faults.                                                     *)
(*                                                                         *)
(* First the types, and that the cache file is always a complete page and  *)
(* is never written again, as long as the locks are kept: no lock is taken *)
(* on a file that has lost its name, or dropped by an exec filter.  The    *)
(* invariant is LocksKept => SlotInv.                                      *)
(*                                                                         *)
(* Then what the clients of the slot get: every request that ends has sent *)
(* one whole page of its key, and the system calls of process_slot()       *)
(* implement an atomic slot.  The invariant is slips = {} => ReadInv,      *)
(* which adds the readers of the slot to SlotInv.                          *)
(*                                                                         *)
(* And what is left in the slot when all requests are served and nothing   *)
(* has failed: an expired page has been replaced, and no lock file stays   *)
(* behind.  Requests do not wait for each other: the one that finds the    *)
(* lock busy gives up, so this is about what the holder of the lock is     *)
(* going to do.  It holds whatever becomes of the locks; the invariant is  *)
(* RefreshInv.                                                             *)
(***************************************************************************)
EXTENDS CacheSlotAtomic, TLAPS

TypeInv == TypeOK /\ FdInv

\* The constants in the form the steps use them.
LEMMA Constants ==
  /\ MaxLen \in Nat /\ MaxTime \in Nat /\ MaxFaults \in Nat
  /\ \A r \in Req : Last(r) \in 1..MaxLen
  /\ Proc \subseteq Req /\ Req \subseteq Inode /\ Past \in Req /\ Left \in Inode
  /\ NoFile \notin Inode /\ NoProc \notin Proc
  BY ConstAssumption DEF Last, Req, Inode

\* The system calls return values of the types of the variables.
LEMMA StatType == ASSUME TypeOK, NEW i \in Inode PROVE Stat(i) \in FileStat
  BY DEF TypeOK, Stat, FileStat, File

LEMMA EmptyType == ASSUME TypeOK PROVE EmptyFile(now) \in File
  BY Constants DEF TypeOK, EmptyFile, File, Chunk

LEMMA EmptiedType == ASSUME TypeOK, NEW i PROVE Emptied(i) \in [Inode -> File]
  BY EmptyType DEF TypeOK, Emptied

LEMMA WrittenType ==
  ASSUME TypeOK, NEW i \in Inode, NEW off \in 0..MaxLen, NEW c \in Chunk
  PROVE  Written(i, off, c) \in [Inode -> File]
  <1>1. /\ file[i].chunk \in [0..MaxLen -> Chunk]
        /\ file[i].size \in 0..(MaxLen + 1) /\ now \in 0..MaxTime
    BY DEF TypeOK, File
  <1>2. [file[i].chunk EXCEPT ![off] = c] \in [0..MaxLen -> Chunk]
    BY <1>1
  <1>3. (IF file[i].size > off THEN file[i].size ELSE off + 1) \in 0..(MaxLen + 1)
    BY <1>1, Constants
  <1>4. [chunk |-> [file[i].chunk EXCEPT ![off] = c],
         size  |-> IF file[i].size > off THEN file[i].size ELSE off + 1,
         mtime |-> now] \in File
    BY <1>1, <1>2, <1>3 DEF File
  <1> QED
    BY <1>4 DEF TypeOK, Written

LEMMA ChunkType ==
  ASSUME TypeOK, NEW i \in Inode, NEW n \in Nat, n < file[i].size
  PROVE  file[i].chunk[n] \in Chunk /\ n + 1 \in 0..(MaxLen + 1)
  <1>1. file[i].chunk \in [0..MaxLen -> Chunk] /\ file[i].size \in 0..(MaxLen + 1)
    BY DEF TypeOK, File
  <1>2. n \in 0..MaxLen
    BY <1>1, Constants
  <1> QED
    BY <1>1, <1>2, Constants

LEMMA BodyType == ASSUME NEW r \in Req PROVE Body(r) \in Seq(Chunk)
  <1>1. \A n \in 1..Last(r) : <<r, n>> \in Chunk
    BY Constants DEF Chunk
  <1> QED
    BY <1>1, Constants DEF Body

LEMMA FaultType ==
  ASSUME faults \in 0..MaxFaults, Fault \/ NoFault
  PROVE  faults' \in 0..MaxFaults
  BY Constants DEF Fault, NoFault

LEMMA ProcType ==
  ASSUME NEW p \in Proc
  PROVE  /\ p \in Req /\ p \in Inode /\ NoFile \notin Inode
         /\ MaxLen \in Nat /\ MaxLen >= 1 /\ Last(p) \in 1..MaxLen
  BY Constants

LEMMA FallbackType == ASSUME NEW p \in Proc PROVE Fallback(p) \in Labels
  BY DEF Fallback, Labels

LEMMA InitType == Init => TypeInv
  <1> SUFFICES ASSUME Init PROVE TypeInv
    OBVIOUS
  <1>1. \A n \in 0..MaxLen : n <= Last(Past) => <<Past, n>> \in Chunk
    BY Constants DEF Chunk
  <1>2. PageFile(Past, 0) \in File /\ FailedFile \in File /\ EmptyFile(0) \in File
    BY <1>1, Constants DEF PageFile, FailedFile, EmptyFile, File, Chunk
  <1>3. TypeOK
    BY <1>2, Constants DEF Init, TypeOK, FileStat, NoStat, Labels
  <1>4. FdInv
    BY Constants DEF Init, FdInv, Holding
  <1> QED
    BY <1>3, <1>4 DEF TypeInv

LEMMA NextType == TypeInv /\ [Next]_vars => TypeInv'
  <1> SUFFICES ASSUME TypeOK, FdInv, [Next]_vars PROVE TypeInv'
    BY DEF TypeInv
  <1> USE DEF At
  <1>0. /\ cacheName \in Inode \cup {NoFile} /\ lockName \in Inode \cup {NoFile}
        /\ file \in [Inode -> File] /\ st \in [Proc -> FileStat] /\ sawExpired \in [Proc -> FileStat]
        /\ lockFd \in [Proc -> Inode \cup {NoFile}] /\ cacheFd \in [Proc -> Inode \cup {NoFile}]
        /\ woff \in [Proc -> 0..(MaxLen + 1)] /\ roff \in [Proc -> 0..(MaxLen + 1)]
    BY DEF TypeOK
  <1>t. pc \in [Proc -> Labels]
    BY DEF TypeOK
  <1>1. ASSUME NEW p \in Proc, CacheProcess(p) PROVE TypeInv'
    <2>1. TypeOK'
      <3>1. pc' \in [Proc -> Labels]
        BY <1>1, <1>t DEF CacheProcess, Goto, Labels
      <3> QED
        BY <1>1, <3>1 DEF CacheProcess, TypeOK, fsVars, fdVars
    <2>2. FdInv'
      BY <1>1, ProcType DEF CacheProcess, TypeOK, FdInv, Holding, Goto, fsVars, fdVars
    <2> QED
      BY <2>1, <2>2 DEF TypeInv
  <1>2. ASSUME NEW p \in Proc, OpenSlot(p) PROVE TypeInv'
    <2>1. TypeOK'
      <3>1. pc' \in [Proc -> Labels]
        BY <1>2, <1>t DEF OpenSlot, Goto, Labels
      <3>2. cacheName # NoFile => cacheName \in Inode /\ Stat(cacheName) \in FileStat
        BY <1>0, StatType
      <3>3. /\ cacheFd' \in [Proc -> Inode \cup {NoFile}]
            /\ st' \in [Proc -> FileStat]
        BY <1>2, <1>0, <3>2 DEF OpenSlot
      <3> QED
        BY <1>2, <3>1, <3>3 DEF OpenSlot, TypeOK, fsVars
    <2>2. FdInv'
      BY <1>2, ProcType DEF OpenSlot, TypeOK, FdInv, Holding, Goto, fsVars
    <2> QED
      BY <2>1, <2>2 DEF TypeInv
  <1>3. ASSUME NEW p \in Proc, ReadKey(p) PROVE TypeInv'
    <2>1. TypeOK'
      <3>1. pc' \in [Proc -> Labels]
        BY <1>3, <1>t DEF ReadKey, Goto, Labels
      <3>2. faults' \in 0..MaxFaults
        BY <1>3, FaultType DEF ReadKey, TypeOK
      <3> QED
        BY <1>3, <3>1, <3>2 DEF ReadKey, TypeOK, Released
    <2>2. FdInv'
      BY <1>3, ProcType DEF ReadKey, TypeOK, FdInv, Holding, Goto
    <2> QED
      BY <2>1, <2>2 DEF TypeInv
  <1>4. ASSUME NEW p \in Proc, CheckExpired(p) PROVE TypeInv'
    <2>1. TypeOK'
      <3>1. pc' \in [Proc -> Labels]
        BY <1>4, <1>t DEF CheckExpired, Goto, Labels
      <3>2. sawExpired' \in [Proc -> FileStat] /\ roff' \in [Proc -> 0..(MaxLen + 1)]
        BY <1>4, <1>0, ProcType DEF CheckExpired
      <3> QED
        BY <1>4, <3>1, <3>2 DEF CheckExpired, TypeOK, fsVars
    <2>2. FdInv'
      BY <1>4, ProcType DEF CheckExpired, TypeOK, FdInv, Holding, Goto, fsVars
    <2> QED
      BY <2>1, <2>2 DEF TypeInv
  <1>5. ASSUME NEW p \in Proc, OpenLock(p) PROVE TypeInv'
    <2>1. TypeOK'
      <3>1. pc' \in [Proc -> Labels]
        BY <1>5, FallbackType DEF OpenLock, TypeOK, Goto, Labels
      <3>2. faults' \in 0..MaxFaults
        BY <1>5, FaultType DEF OpenLock, TypeOK
      <3>3. file' \in [Inode -> File]
        BY <1>5, <1>0, EmptyType, ProcType DEF OpenLock
      <3>4. /\ lockFd' \in [Proc -> Inode \cup {NoFile}] /\ lockName' \in Inode \cup {NoFile}
           /\ woff' \in [Proc -> 0..(MaxLen + 1)] /\ roff' \in [Proc -> 0..(MaxLen + 1)]
        BY <1>5, <1>0, ProcType DEF OpenLock
      <3> QED
        BY <1>5, <3>1, <3>2, <3>3, <3>4 DEF OpenLock, TypeOK
    <2>2. FdInv'
      BY <1>5, ProcType DEF OpenLock, TypeOK, FdInv, Holding, Goto, Fallback
    <2> QED
      BY <2>1, <2>2 DEF TypeInv
  <1>6. ASSUME NEW p \in Proc, SetLock(p) PROVE TypeInv'
    <2>1. TypeOK'
      <3>1. pc' \in [Proc -> Labels]
        BY <1>6, FallbackType DEF SetLock, TypeOK, Goto, Labels
      <3>2. faults' \in 0..MaxFaults
        BY <1>6, FaultType DEF SetLock, TypeOK
      <3> QED
        BY <1>6, <3>1, <3>2 DEF SetLock, TypeOK, Released
    <2>2. FdInv'
      BY <1>6, ProcType DEF SetLock, TypeOK, FdInv, Holding, Goto, Fallback
    <2> QED
      BY <2>1, <2>2 DEF TypeInv
  <1>7. ASSUME NEW p \in Proc, Truncate(p) PROVE TypeInv'
    <2>1. TypeOK'
      <3>1. pc' \in [Proc -> Labels]
        BY <1>7, FallbackType DEF Truncate, TypeOK, Goto, Labels
      <3>2. faults' \in 0..MaxFaults
        BY <1>7, FaultType DEF Truncate, TypeOK
      <3>3. file' \in [Inode -> File]
        BY <1>7, <1>0, EmptiedType DEF Truncate
      <3> QED
        BY <1>7, <3>1, <3>2, <3>3 DEF Truncate, TypeOK, fdVars
    <2>2. FdInv'
      BY <1>7, ProcType DEF Truncate, TypeOK, FdInv, Holding, Goto, Fallback, fdVars
    <2> QED
      BY <2>1, <2>2 DEF TypeInv
  <1>8. ASSUME NEW p \in Proc, WriteKey(p) PROVE TypeInv'
    <2>1. TypeOK'
      <3>1. pc' \in [Proc -> Labels]
        BY <1>8, FallbackType DEF WriteKey, TypeOK, Goto, Labels
      <3>2. faults' \in 0..MaxFaults
        BY <1>8, FaultType DEF WriteKey, TypeOK
      <3>3. lockFd[p] \in Inode /\ 0 \in 0..MaxLen /\ <<p, 0>> \in Chunk
        BY <1>8, ProcType DEF WriteKey, TypeOK, FdInv, Holding, Chunk
      <3>4. Written(lockFd[p], 0, <<p, 0>>) \in [Inode -> File]
        BY <3>3, WrittenType
      <3>5. file' \in [Inode -> File]
        BY <1>8, <1>0, <3>4 DEF WriteKey
      <3>6. woff' \in [Proc -> 0..(MaxLen + 1)]
        BY <1>8, <1>0, ProcType DEF WriteKey
      <3> QED
        BY <1>8, <3>1, <3>2, <3>3, <3>4, <3>5, <3>6 DEF WriteKey, TypeOK
    <2>2. FdInv'
      BY <1>8, ProcType DEF WriteKey, TypeOK, FdInv, Holding, Goto, Fallback
    <2> QED
      BY <2>1, <2>2 DEF TypeInv
  <1>9. ASSUME NEW p \in Proc, CheckModified(p) PROVE TypeInv'
    <2>1. TypeOK'
      <3>1. pc' \in [Proc -> Labels]
        BY <1>9, <1>t DEF CheckModified, Goto, Labels
      <3>2. faults' \in 0..MaxFaults
        BY <1>9, FaultType DEF CheckModified, TypeOK
      <3> QED
        BY <1>9, <3>1, <3>2 DEF CheckModified, TypeOK, fsVars, fdVars
    <2>2. FdInv'
      BY <1>9, ProcType DEF CheckModified, TypeOK, FdInv, Holding, Goto, fsVars, fdVars
    <2> QED
      BY <2>1, <2>2 DEF TypeInv
  <1>10. ASSUME NEW p \in Proc, Redirect(p) PROVE TypeInv'
    <2>1. TypeOK'
      <3>1. pc' \in [Proc -> Labels]
        BY <1>10, <1>t DEF Redirect, Goto, Labels
      <3>2. faults' \in 0..MaxFaults
        BY <1>10, FaultType DEF Redirect, TypeOK
      <3> QED
        BY <1>10, <3>1, <3>2 DEF Redirect, TypeOK, fsVars
    <2>2. FdInv'
      BY <1>10, ProcType DEF Redirect, TypeOK, FdInv, Holding, Goto, fsVars
    <2> QED
      BY <2>1, <2>2 DEF TypeInv
  <1>11. ASSUME NEW p \in Proc, Fill(p) PROVE TypeInv'
    <2>1. TypeOK'
      <3>1. lockFd[p] \in Inode /\ woff[p] \in 0..MaxLen /\ <<p, woff[p]>> \in Chunk
        BY <1>11, ProcType DEF Fill, TypeOK, FdInv, Holding, Chunk
      <3>2. file' \in [Inode -> File]
        BY <1>11, <3>1, WrittenType DEF Fill
      <3>3. woff' \in [Proc -> 0..(MaxLen + 1)]
        BY <1>11, <1>0, <3>1, ProcType DEF Fill
      <3> QED
        BY <1>11, <3>1, <3>2, <3>3 DEF Fill, TypeOK
    <2>2. FdInv'
      BY <1>11, ProcType DEF Fill, TypeOK, FdInv, Holding, Goto
    <2> QED
      BY <2>1, <2>2 DEF TypeInv
  <1>12. ASSUME NEW p \in Proc, Flush(p) PROVE TypeInv'
    <2>1. TypeOK'
      <3>1. pc' \in [Proc -> Labels]
        BY <1>12, <1>t DEF Flush, Goto, Labels
      <3>2. faults' \in 0..MaxFaults
        BY <1>12, FaultType DEF Flush, TypeOK
      <3>3. lockFd[p] \in Inode
        BY <1>12, <1>0 DEF Flush, FdInv, Holding
      <3>4. st' \in [Proc -> FileStat]
        BY <1>12, <1>0, <3>3, StatType DEF Flush
      <3> QED
        BY <1>12, <3>1, <3>2, <3>3, <3>4 DEF Flush, TypeOK, fsVars
    <2>2. FdInv'
      BY <1>12, ProcType DEF Flush, TypeOK, FdInv, Holding, Goto, fsVars
    <2> QED
      BY <2>1, <2>2 DEF TypeInv
  <1>13. ASSUME NEW p \in Proc, Discard(p) PROVE TypeInv'
    <2>1. TypeOK'
      <3>1. pc' \in [Proc -> Labels]
        BY <1>13, FallbackType DEF Discard, TypeOK, Goto, Labels
      <3>2. faults' \in 0..MaxFaults
        BY <1>13, FaultType DEF Discard, TypeOK
      <3> QED
        BY <1>13, <3>1, <3>2 DEF Discard, TypeOK, Released
    <2>2. FdInv'
      BY <1>13, ProcType DEF Discard, TypeOK, FdInv, Holding, Goto, Fallback
    <2> QED
      BY <2>1, <2>2 DEF TypeInv
  <1>14. ASSUME NEW p \in Proc, Replace(p) PROVE TypeInv'
    <2>1. TypeOK'
      <3>1. pc' \in [Proc -> Labels]
        BY <1>14, <1>t DEF Replace, Goto, Labels
      <3>2. faults' \in 0..MaxFaults
        BY <1>14, FaultType DEF Replace, TypeOK
      <3> QED
        BY <1>14, <3>1, <3>2 DEF Replace, TypeOK, Released
    <2>2. FdInv'
      BY <1>14, ProcType DEF Replace, TypeOK, FdInv, Holding, Goto
    <2> QED
      BY <2>1, <2>2 DEF TypeInv
  <1>15. ASSUME NEW p \in Proc, PrintChunk(p) PROVE TypeInv'
    <2>1. TypeOK'
      <3>1. cacheFd[p] \in Inode /\ roff[p] \in Nat
        BY <1>15 DEF PrintChunk, TypeOK, FdInv
      <3>2. file[cacheFd[p]].chunk[roff[p]] \in Chunk /\ roff[p] + 1 \in 0..(MaxLen + 1)
        BY <1>15, <3>1, ChunkType DEF PrintChunk
      <3> QED
        BY <1>15, <3>1, <3>2, ProcType DEF PrintChunk, TypeOK, fsVars
    <2>2. FdInv'
      BY <1>15, ProcType DEF PrintChunk, TypeOK, FdInv, Holding, Goto, fsVars
    <2> QED
      BY <2>1, <2>2 DEF TypeInv
  <1>16. ASSUME NEW p \in Proc, PrintEnd(p) PROVE TypeInv'
    <2>1. TypeOK'
      <3>1. pc' \in [Proc -> Labels]
        BY <1>16, <1>t DEF PrintEnd, Goto, Labels
      <3> QED
        BY <1>16, <3>1 DEF PrintEnd, TypeOK, Released
    <2>2. FdInv'
      BY <1>16, ProcType DEF PrintEnd, TypeOK, FdInv, Holding, Goto
    <2> QED
      BY <2>1, <2>2 DEF TypeInv
  <1>17. ASSUME NEW p \in Proc, Direct(p) PROVE TypeInv'
    <2>1. TypeOK'
      <3>1. pc' \in [Proc -> Labels]
        BY <1>17, <1>t DEF Direct, Goto, Labels
      <3>2. sent' \in [Proc -> Seq(Chunk)]
        BY <1>17, BodyType, ProcType DEF Direct, TypeOK
      <3> QED
        BY <1>17, <3>1, <3>2 DEF Direct, TypeOK, fsVars, fdVars
    <2>2. FdInv'
      BY <1>17, ProcType DEF Direct, TypeOK, FdInv, Holding, Goto, fsVars, fdVars
    <2> QED
      BY <2>1, <2>2 DEF TypeInv
  <1>18. ASSUME NEW p \in Proc, Exit(p) PROVE TypeInv'
    <2>1. TypeOK'
      <3>1. pc' \in [Proc -> Labels]
        BY <1>18 DEF Exit, Gone, TypeOK, Goto, Labels
      <3> QED
        BY <1>18, <3>1 DEF Exit, TypeOK, Gone, AllReleased
    <2>2. FdInv'
      BY <1>18, ProcType DEF Exit, TypeOK, FdInv, Holding, Goto, Gone
    <2> QED
      BY <2>1, <2>2 DEF TypeInv
  <1>19. ASSUME NEW p \in Proc, OpenFilter(p) PROVE TypeInv'
    <2>1. TypeOK'
      <3> QED
        BY <1>19 DEF OpenFilter, TypeOK, Released, fdVars
    <2>2. FdInv'
      BY <1>19, ProcType DEF OpenFilter, TypeOK, FdInv, Holding, Goto, fdVars
    <2> QED
      BY <2>1, <2>2 DEF TypeInv
  <1>20. ASSUME NEW p \in Proc, Die(p) PROVE TypeInv'
    <2>1. TypeOK'
      <3>1. pc' \in [Proc -> Labels]
        BY <1>20 DEF Die, Gone, TypeOK, Goto, Labels
      <3>2. faults' \in 0..MaxFaults
        BY <1>20, FaultType DEF Die, TypeOK
      <3>3. file' \in [Inode -> File] /\ sent' \in [Proc -> Seq(Chunk)]
        <4>1. CASE /\ At(p, "fill") /\ woff[p] <= Last(p)
                   /\ file' = Written(lockFd[p], woff[p], ErrorPage) /\ UNCHANGED sent
          <5>1. lockFd[p] \in Inode /\ woff[p] \in 0..MaxLen /\ ErrorPage \in Chunk
            BY <4>1, ProcType DEF TypeOK, FdInv, Holding, Chunk
          <5> QED
            BY <4>1, <5>1, WrittenType DEF TypeOK
        <4>2. CASE sent' = [sent EXCEPT ![p] = Append(@, ErrorPage)] /\ UNCHANGED file
          BY <4>2 DEF TypeOK, Chunk
        <4> QED
          BY <1>20, <4>1, <4>2 DEF Die
      <3> QED
        BY <1>20, <3>1, <3>2, <3>3 DEF Die, TypeOK, Gone, AllReleased
    <2>2. FdInv'
      BY <1>20, ProcType DEF Die, TypeOK, FdInv, Holding, Goto, Gone
    <2> QED
      BY <2>1, <2>2 DEF TypeInv
  <1>21. ASSUME NEW p \in Proc, Kill(p) PROVE TypeInv'
    <2>1. TypeOK'
      <3>1. pc' \in [Proc -> Labels]
        BY <1>21 DEF Kill, Gone, TypeOK, Goto, Labels
      <3>2. faults' \in 0..MaxFaults
        BY <1>21, FaultType DEF Kill, TypeOK
      <3> QED
        BY <1>21, <3>1, <3>2 DEF Kill, TypeOK, Gone, AllReleased
    <2>2. FdInv'
      BY <1>21, ProcType DEF Kill, TypeOK, FdInv, Holding, Goto, Gone
    <2> QED
      BY <2>1, <2>2 DEF TypeInv
  <1>90. CASE Tick
    BY <1>90, Constants DEF Tick, fsVars, fdVars, TypeInv, TypeOK, FdInv, Holding
  <1>91. CASE UNCHANGED vars
    BY <1>91 DEF vars, fsVars, fdVars, TypeInv, TypeOK, FdInv, Holding
  <1> QED
    BY <1>90, <1>91, <1>1, <1>2, <1>3, <1>4, <1>5, <1>6, <1>7, <1>8, <1>9, <1>10, <1>11, <1>12, <1>13, <1>14, <1>15, <1>16, <1>17, <1>18, <1>19, <1>20, <1>21 DEF Next, Step, Finished, Spin

\* Every variable keeps its type, for all values of the constants.
THEOREM TypeCorrect == Spec => []TypeOK
  <1>1. Spec => []TypeInv
    BY InitType, NextType, PTL DEF Spec
  <1> QED
    BY <1>1, PTL DEF TypeInv

-----------------------------------------------------------------------------
(* The slot stays intact *)

LEMMA InitSlot == Init => SlotInv
  <1> SUFFICES ASSUME Init PROVE SlotInv
    OBVIOUS
  <1>1. TypeInv /\ Past \in Req /\ Last(Past) \in 1..MaxLen /\ MaxLen \in Nat
    BY InitType, Constants
  <1>2. LockInv /\ FillInv
    BY DEF Init, LockInv, FillInv, Filled, Filled, Holding
  <1>3. NameInv
    BY ConstAssumption DEF Init, NameInv, Req, Inode
  <1>4. SlotWhole
    <2>1. Past \in Inode /\ file[Past] = PageFile(Past, 0)
      BY Constants, ConstAssumption DEF Init, Inode
    <2>2. IsPageOf(Past, Past)
      BY <1>1, <2>1 DEF PageFile, IsPageOf
    <2> QED
      BY <1>1, <2>2 DEF Init, SlotWhole
  <1> QED
    BY <1>1, <1>2, <1>3, <1>4 DEF TypeInv, SlotInv

\* Two processes are never between lock_slot() and unlock_slot() at once.
LEMMA OneHolder ==
  ASSUME LockInv, NEW p \in Proc, NEW q \in Proc, pc[p] \in Holding, pc[q] \in Holding
  PROVE  p = q
  BY DEF LockInv

\* The files that process_slot() writes are its lock file and a file it has
\* just created, and neither of them is the cache file.
LEMMA SlotUntouched ==
  ASSUME TypeOK, SlotInv, cacheName # NoFile, NEW p \in Proc, Step(p) \/ Die(p) \/ Kill(p)
  PROVE  file'[cacheName] = file[cacheName]
  <1>1. /\ LockInv /\ NameInv
        /\ file \in [Inode -> File] /\ cacheName \in Inode /\ lockFd \in [Proc -> Inode \cup {NoFile}]
    BY DEF TypeOK, SlotInv
  <1>2. CASE OpenLock(p)
    BY <1>1, <1>2 DEF OpenLock, NameInv, Fresh, At
  <1>3. CASE pc[p] \in Holding /\ \A i \in Inode \ {lockFd[p]} : file'[i] = file[i]
    BY <1>1, <1>3 DEF LockInv, NameInv
  <1>4. CASE Truncate(p) \/ WriteKey(p) \/ Fill(p)
    BY <1>1, <1>3, <1>4 DEF Truncate, WriteKey, Fill, Emptied, Written, Holding, At
  <1>5. CASE Die(p)
    BY <1>1, <1>3, <1>5 DEF Die, Written, Holding, At
  <1>7. CASE ~(OpenLock(p) \/ Truncate(p) \/ WriteKey(p) \/ Fill(p) \/ Die(p))
    <2>1. UNCHANGED file
      BY <1>7 DEF Step, Kill, Gone, CacheProcess, OpenSlot, ReadKey, CheckExpired, SetLock, CheckModified,
                  Redirect, Flush, Discard, Replace, PrintChunk, PrintEnd, Direct, Exit, fsVars
    <2> QED
      BY <2>1
  <1> QED
    BY <1>2, <1>4, <1>5, <1>7

LEMMA StepSlot ==
  ASSUME TypeOK, SlotInv, LocksKept', NEW p \in Proc, Step(p) \/ Die(p) \/ Kill(p)
  PROVE  LockInv' /\ NameInv' /\ FillInv' /\ SlotWhole'
  <1> USE DEF At, Goto
  <1>0. /\ file \in [Inode -> File] /\ owner \in [Inode -> Proc \cup {NoProc}]
        /\ pc \in [Proc -> Labels] /\ lockFd \in [Proc -> Inode \cup {NoFile}]
        /\ cacheFd \in [Proc -> Inode \cup {NoFile}] /\ woff \in [Proc -> 0..(MaxLen + 1)]
        /\ cacheName \in Inode \cup {NoFile} /\ lockName \in Inode \cup {NoFile}
    BY DEF TypeOK
  <1>a. /\ NoFile \notin Inode /\ NoProc \notin Proc /\ MaxLen \in Nat
        /\ \A q \in Proc : q \in Req /\ q \in Inode /\ Last(q) \in 1..MaxLen
    BY Constants
  <1>b. SetLock(p) => lockName = lockFd[p] \/ pc'[p] \in {"print", "direct"}
    BY <1>0 DEF SetLock, LocksKept, Fallback
  <1>c. FdInv /\ LockInv /\ NameInv /\ FillInv /\ SlotWhole
    BY DEF SlotInv
  <1>d. \A q \in Proc : pc[p] \in Holding /\ pc[q] \in Holding => p = q
    BY <1>c, OneHolder
  <1>1. CASE CacheProcess(p)
    <2>1. LockInv'
      BY <1>1, <1>0, <1>a, <1>c DEF CacheProcess, LockInv, FdInv, Holding, fsVars, fdVars
    <2>2. NameInv'
      BY <1>1, <1>0, <1>a, <1>c DEF CacheProcess, LockInv, FdInv, NameInv, Holding, Fresh, fsVars, fdVars
    <2>3. FillInv'
      BY <1>1, <1>0, <1>a, <1>c, <1>d DEF CacheProcess, FillInv, Filled, FdInv, IsPageOf, Holding, fsVars, fdVars
    <2>4. SlotWhole'
      BY <1>1, <1>0, <1>a, <1>c DEF CacheProcess, SlotWhole, IsPageOf, NameInv, LockInv, FillInv, Filled, Holding, Fresh, fsVars, fdVars
    <2> QED
      BY <2>1, <2>2, <2>3, <2>4
  <1>2. CASE OpenSlot(p)
    <2>1. LockInv'
      BY <1>2, <1>0, <1>a, <1>c DEF OpenSlot, LockInv, FdInv, Holding, fsVars
    <2>2. NameInv'
      BY <1>2, <1>0, <1>a, <1>c DEF OpenSlot, LockInv, FdInv, NameInv, Holding, Fresh, fsVars
    <2>3. FillInv'
      BY <1>2, <1>0, <1>a, <1>c, <1>d DEF OpenSlot, FillInv, Filled, FdInv, IsPageOf, Holding, fsVars
    <2>4. SlotWhole'
      BY <1>2, <1>0, <1>a, <1>c DEF OpenSlot, SlotWhole, IsPageOf, NameInv, LockInv, FillInv, Filled, Holding, Fresh, fsVars
    <2> QED
      BY <2>1, <2>2, <2>3, <2>4
  <1>3. CASE ReadKey(p)
    <2>1. LockInv'
      BY <1>3, <1>0, <1>a, <1>c DEF ReadKey, LockInv, FdInv, Holding, Released
    <2>2. NameInv'
      BY <1>3, <1>0, <1>a, <1>c DEF ReadKey, LockInv, FdInv, NameInv, Holding, Fresh, Released
    <2>3. FillInv'
      BY <1>3, <1>0, <1>a, <1>c, <1>d DEF ReadKey, FillInv, Filled, FdInv, IsPageOf, Holding, Released
    <2>4. SlotWhole'
      BY <1>3, <1>0, <1>a, <1>c DEF ReadKey, SlotWhole, IsPageOf, NameInv, LockInv, FillInv, Filled, Holding, Fresh, Released
    <2> QED
      BY <2>1, <2>2, <2>3, <2>4
  <1>4. CASE CheckExpired(p)
    <2>1. LockInv'
      BY <1>4, <1>0, <1>a, <1>c DEF CheckExpired, LockInv, FdInv, Holding, fsVars
    <2>2. NameInv'
      BY <1>4, <1>0, <1>a, <1>c DEF CheckExpired, LockInv, FdInv, NameInv, Holding, Fresh, fsVars
    <2>3. FillInv'
      BY <1>4, <1>0, <1>a, <1>c, <1>d DEF CheckExpired, FillInv, Filled, FdInv, IsPageOf, Holding, fsVars
    <2>4. SlotWhole'
      BY <1>4, <1>0, <1>a, <1>c DEF CheckExpired, SlotWhole, IsPageOf, NameInv, LockInv, FillInv, Filled, Holding, Fresh, fsVars
    <2> QED
      BY <2>1, <2>2, <2>3, <2>4
  <1>5. CASE OpenLock(p)
    <2>1. LockInv'
      BY <1>5, <1>0, <1>a, <1>c DEF OpenLock, LockInv, FdInv, Holding, Fallback
    <2>2. NameInv'
      BY <1>5, <1>0, <1>a, <1>c DEF OpenLock, LockInv, FdInv, NameInv, Holding, Fresh, Fallback
    <2>3. FillInv'
      <3>1. \A q \in Proc : pc'[q] \in Holding =>
              pc'[q] = pc[q] /\ lockFd'[q] = lockFd[q] /\ woff'[q] = woff[q] /\ file' = file
        BY <1>5, <1>0, <1>c DEF OpenLock, LockInv, FdInv, Holding, Fallback
      <3>2. ASSUME NEW q \in Proc PROVE Filled(q)'
        <4>1. CASE pc'[q] \notin Holding
          BY <4>1 DEF Filled, Holding
        <4>2. CASE pc'[q] \in Holding
          <5>1. Filled(q) /\ pc'[q] = pc[q] /\ lockFd'[q] = lockFd[q] /\ woff'[q] = woff[q] /\ file' = file
            BY <3>1, <4>2, <1>c DEF FillInv
          <5> QED
            BY <5>1 DEF Filled, IsPageOf
        <4> QED
          BY <4>1, <4>2
      <3> QED
        BY <3>2 DEF FillInv
    <2>4. SlotWhole'
      <3>1. cacheName' = cacheName /\ (cacheName # NoFile => file'[cacheName] = file[cacheName])
        BY <1>5, SlotUntouched DEF OpenLock
      <3> QED
        BY <3>1, <1>c DEF SlotWhole, IsPageOf
    <2> QED
      BY <2>1, <2>2, <2>3, <2>4
  <1>6. CASE SetLock(p)
    <2>1. LockInv'
      BY <1>6, <1>0, <1>a, <1>b, <1>c DEF SetLock, LockInv, FdInv, Holding, Released, LockFree, Fallback
    <2>2. NameInv'
      BY <1>6, <1>0, <1>a, <1>c DEF SetLock, LockInv, FdInv, NameInv, Holding, Fresh, Released, LockFree, Fallback
    <2>3. FillInv'
      BY <1>6, <1>0, <1>a, <1>c, <1>d, SMTT(30) DEF SetLock, FillInv, Filled, FdInv, IsPageOf, Holding, Released, LockFree, Fallback
    <2>4. SlotWhole'
      BY <1>6, <1>0, <1>a, <1>c DEF SetLock, SlotWhole, IsPageOf, NameInv, LockInv, FillInv, Filled, Holding, Fresh, Released, LockFree, Fallback
    <2> QED
      BY <2>1, <2>2, <2>3, <2>4
  <1>7. CASE Truncate(p)
    <2>1. LockInv'
      BY <1>7, <1>0, <1>a, <1>c DEF Truncate, LockInv, FdInv, Holding, Fallback, fdVars
    <2>2. NameInv'
      BY <1>7, <1>0, <1>a, <1>c DEF Truncate, LockInv, FdInv, NameInv, Holding, Fresh, Fallback, fdVars
    <2>3. FillInv'
      BY <1>7, <1>0, <1>a, <1>c, <1>d, SMTT(30) DEF Truncate, FillInv, Filled, FdInv, IsPageOf, Holding, Fallback, Emptied, EmptyFile, fdVars
    <2>4. SlotWhole'
      <3>1. cacheName' = cacheName /\ (cacheName # NoFile => file'[cacheName] = file[cacheName])
        BY <1>7, SlotUntouched DEF Truncate
      <3> QED
        BY <3>1, <1>c DEF SlotWhole, IsPageOf
    <2> QED
      BY <2>1, <2>2, <2>3, <2>4
  <1>8. CASE WriteKey(p)
    <2>1. LockInv'
      BY <1>8, <1>0, <1>a, <1>c DEF WriteKey, LockInv, FdInv, Holding, Fallback
    <2>2. NameInv'
      BY <1>8, <1>0, <1>a, <1>c DEF WriteKey, LockInv, FdInv, NameInv, Holding, Fresh, Fallback
    <2>3. FillInv'
      <3>1. \A q \in Proc \ {p} : pc'[q] \notin Holding
        BY <1>8, <1>0, <1>d DEF WriteKey, Holding
      <3>2. CASE Goto(p, Fallback(p))
        BY <1>8, <3>1, <3>2, <1>0 DEF Fallback, FillInv, Filled, Holding
      <3>3. CASE /\ file' = Written(lockFd[p], 0, <<p, 0>>) /\ woff' = [woff EXCEPT ![p] = 1]
                 /\ Goto(p, IF hit[p] THEN "modcheck" ELSE "redirect")
        <4>1. lockFd'[p] = lockFd[p] /\ lockFd[p] \in Inode /\ file[lockFd[p]].size = 0
          BY <1>8, <1>0, <1>c DEF WriteKey, FdInv, FillInv, Filled, Holding
        <4>2. file'[lockFd[p]].size = 1 /\ file'[lockFd[p]].chunk[0] = <<p, 0>> /\ woff'[p] = 1
          BY <3>3, <4>1, <1>0, <1>a DEF Written, File
        <4>3. pc'[p] \in {"modcheck", "redirect"}
          BY <3>3, <1>0
        <4> QED
          BY <3>1, <4>1, <4>2, <4>3 DEF FillInv, Filled, Holding
      <3> QED
        BY <1>8, <3>2, <3>3 DEF WriteKey
    <2>4. SlotWhole'
      <3>1. cacheName' = cacheName /\ (cacheName # NoFile => file'[cacheName] = file[cacheName])
        BY <1>8, SlotUntouched DEF WriteKey
      <3> QED
        BY <3>1, <1>c DEF SlotWhole, IsPageOf
    <2> QED
      BY <2>1, <2>2, <2>3, <2>4
  <1>9. CASE CheckModified(p)
    <2>1. LockInv'
      BY <1>9, <1>0, <1>a, <1>c DEF CheckModified, LockInv, FdInv, Holding, fsVars, fdVars
    <2>2. NameInv'
      BY <1>9, <1>0, <1>a, <1>c DEF CheckModified, LockInv, FdInv, NameInv, Holding, Fresh, fsVars, fdVars
    <2>3. FillInv'
      BY <1>9, <1>0, <1>a, <1>c, <1>d DEF CheckModified, FillInv, Filled, FdInv, IsPageOf, Holding, fsVars, fdVars
    <2>4. SlotWhole'
      BY <1>9, <1>0, <1>a, <1>c DEF CheckModified, SlotWhole, IsPageOf, NameInv, LockInv, FillInv, Filled, Holding, Fresh, fsVars, fdVars
    <2> QED
      BY <2>1, <2>2, <2>3, <2>4
  <1>10. CASE Redirect(p)
    <2>1. LockInv'
      BY <1>10, <1>0, <1>a, <1>c DEF Redirect, LockInv, FdInv, Holding, fsVars
    <2>2. NameInv'
      BY <1>10, <1>0, <1>a, <1>c DEF Redirect, LockInv, FdInv, NameInv, Holding, Fresh, fsVars
    <2>3. FillInv'
      BY <1>10, <1>0, <1>a, <1>c, <1>d DEF Redirect, FillInv, Filled, FdInv, IsPageOf, Holding, fsVars
    <2>4. SlotWhole'
      BY <1>10, <1>0, <1>a, <1>c DEF Redirect, SlotWhole, IsPageOf, NameInv, LockInv, FillInv, Filled, Holding, Fresh, fsVars
    <2> QED
      BY <2>1, <2>2, <2>3, <2>4
  <1>11. CASE Fill(p)
    <2>1. LockInv'
      BY <1>11, <1>0, <1>a, <1>c DEF Fill, LockInv, FdInv, Holding
    <2>2. NameInv'
      BY <1>11, <1>0, <1>a, <1>c DEF Fill, LockInv, FdInv, NameInv, Holding, Fresh
    <2>3. FillInv'
      <3>1. \A q \in Proc \ {p} : pc'[q] \notin Holding
        BY <1>11, <1>0, <1>d DEF Fill, Holding
      <3>2. /\ lockFd'[p] = lockFd[p] /\ lockFd[p] \in Inode /\ pc'[p] = "fill"
            /\ woff[p] \in 1..Last(p) /\ file[lockFd[p]].size = woff[p]
            /\ \A n \in 0..(woff[p] - 1) : file[lockFd[p]].chunk[n] = <<p, n>>
        BY <1>11, <1>0, <1>a, <1>c DEF Fill, FdInv, FillInv, Filled, Holding
      <3>3. woff'[p] = woff[p] + 1 /\ woff'[p] \in 1..(Last(p) + 1)
        BY <1>11, <1>0, <1>a, <3>2 DEF Fill
      <3>4. /\ file'[lockFd[p]].size = woff[p] + 1
            /\ file'[lockFd[p]].chunk = [file[lockFd[p]].chunk EXCEPT ![woff[p]] = <<p, woff[p]>>]
        BY <1>11, <1>0, <1>a, <3>2 DEF Fill, Written
      <3>5. file[lockFd[p]].chunk \in [0..MaxLen -> Chunk] /\ woff[p] \in 0..MaxLen
        BY <1>0, <1>a, <3>2 DEF File
      <3>6. \A n \in 0..(woff[p] + 1 - 1) : file'[lockFd[p]].chunk[n] = <<p, n>>
        BY <3>2, <3>4, <3>5, <1>a
      <3>7. Filled(p)'
        BY <3>2, <3>3, <3>4, <3>6, SMTT(30) DEF Filled
      <3>8. \A q \in Proc \ {p} : Filled(q)'
        BY <3>1 DEF Filled, Holding
      <3> QED
        BY <3>7, <3>8 DEF FillInv
    <2>4. SlotWhole'
      <3>1. cacheName' = cacheName /\ (cacheName # NoFile => file'[cacheName] = file[cacheName])
        BY <1>11, SlotUntouched DEF Fill
      <3> QED
        BY <3>1, <1>c DEF SlotWhole, IsPageOf
    <2> QED
      BY <2>1, <2>2, <2>3, <2>4
  <1>12. CASE Flush(p)
    <2>1. LockInv'
      BY <1>12, <1>0, <1>a, <1>c DEF Flush, LockInv, FdInv, Holding, fsVars
    <2>2. NameInv'
      BY <1>12, <1>0, <1>a, <1>c DEF Flush, LockInv, FdInv, NameInv, Holding, Fresh, fsVars
    <2>3. FillInv'
      BY <1>12, <1>0, <1>a, <1>c, <1>d DEF Flush, FillInv, Filled, FdInv, IsPageOf, Holding, fsVars
    <2>4. SlotWhole'
      BY <1>12, <1>0, <1>a, <1>c DEF Flush, SlotWhole, IsPageOf, NameInv, LockInv, FillInv, Filled, Holding, Fresh, fsVars
    <2> QED
      BY <2>1, <2>2, <2>3, <2>4
  <1>13. CASE Discard(p)
    <2>1. LockInv'
      BY <1>13, <1>0, <1>a, <1>c DEF Discard, LockInv, FdInv, Holding, Released, Fallback
    <2>2. NameInv'
      BY <1>13, <1>0, <1>a, <1>c DEF Discard, LockInv, FdInv, NameInv, Holding, Fresh, Released, Fallback
    <2>3. FillInv'
      BY <1>13, <1>0, <1>a, <1>c, <1>d DEF Discard, FillInv, Filled, FdInv, IsPageOf, Holding, Released, Fallback
    <2>4. SlotWhole'
      BY <1>13, <1>0, <1>a, <1>c DEF Discard, SlotWhole, IsPageOf, NameInv, LockInv, FillInv, Filled, Holding, Fresh, Released, Fallback
    <2> QED
      BY <2>1, <2>2, <2>3, <2>4
  <1>14. CASE Replace(p)
    <2>1. LockInv'
      BY <1>14, <1>0, <1>a, <1>c DEF Replace, LockInv, FdInv, Holding, Released
    <2>2. NameInv'
      BY <1>14, <1>0, <1>a, <1>c DEF Replace, LockInv, FdInv, NameInv, Holding, Fresh, Released
    <2>3. FillInv'
      BY <1>14, <1>0, <1>a, <1>c, <1>d DEF Replace, FillInv, Filled, FdInv, IsPageOf, Holding, Released
    <2>4. SlotWhole'
      BY <1>14, <1>0, <1>a, <1>c DEF Replace, SlotWhole, IsPageOf, NameInv, LockInv, FillInv, Filled, Holding, Fresh, Released
    <2> QED
      BY <2>1, <2>2, <2>3, <2>4
  <1>15. CASE PrintChunk(p)
    <2>1. LockInv'
      BY <1>15, <1>0, <1>a, <1>c DEF PrintChunk, LockInv, FdInv, Holding, fsVars
    <2>2. NameInv'
      BY <1>15, <1>0, <1>a, <1>c DEF PrintChunk, LockInv, FdInv, NameInv, Holding, Fresh, fsVars
    <2>3. FillInv'
      BY <1>15, <1>0, <1>a, <1>c, <1>d DEF PrintChunk, FillInv, Filled, FdInv, IsPageOf, Holding, fsVars
    <2>4. SlotWhole'
      BY <1>15, <1>0, <1>a, <1>c DEF PrintChunk, SlotWhole, IsPageOf, NameInv, LockInv, FillInv, Filled, Holding, Fresh, fsVars
    <2> QED
      BY <2>1, <2>2, <2>3, <2>4
  <1>16. CASE PrintEnd(p)
    <2>1. LockInv'
      BY <1>16, <1>0, <1>a, <1>c DEF PrintEnd, LockInv, FdInv, Holding, Released
    <2>2. NameInv'
      BY <1>16, <1>0, <1>a, <1>c DEF PrintEnd, LockInv, FdInv, NameInv, Holding, Fresh, Released
    <2>3. FillInv'
      BY <1>16, <1>0, <1>a, <1>c, <1>d DEF PrintEnd, FillInv, Filled, FdInv, IsPageOf, Holding, Released
    <2>4. SlotWhole'
      BY <1>16, <1>0, <1>a, <1>c DEF PrintEnd, SlotWhole, IsPageOf, NameInv, LockInv, FillInv, Filled, Holding, Fresh, Released
    <2> QED
      BY <2>1, <2>2, <2>3, <2>4
  <1>17. CASE Direct(p)
    <2>1. LockInv'
      BY <1>17, <1>0, <1>a, <1>c DEF Direct, LockInv, FdInv, Holding, fsVars, fdVars
    <2>2. NameInv'
      BY <1>17, <1>0, <1>a, <1>c DEF Direct, LockInv, FdInv, NameInv, Holding, Fresh, fsVars, fdVars
    <2>3. FillInv'
      BY <1>17, <1>0, <1>a, <1>c, <1>d DEF Direct, FillInv, Filled, FdInv, IsPageOf, Holding, fsVars, fdVars
    <2>4. SlotWhole'
      BY <1>17, <1>0, <1>a, <1>c DEF Direct, SlotWhole, IsPageOf, NameInv, LockInv, FillInv, Filled, Holding, Fresh, fsVars, fdVars
    <2> QED
      BY <2>1, <2>2, <2>3, <2>4
  <1>18. CASE Exit(p)
    <2>1. LockInv'
      BY <1>18, <1>0, <1>a, <1>c DEF Exit, LockInv, FdInv, Holding, Gone, AllReleased
    <2>2. NameInv'
      BY <1>18, <1>0, <1>a, <1>c DEF Exit, LockInv, FdInv, NameInv, Holding, Fresh, Gone, AllReleased
    <2>3. FillInv'
      BY <1>18, <1>0, <1>a, <1>c, <1>d DEF Exit, FillInv, Filled, FdInv, IsPageOf, Holding, Gone, AllReleased
    <2>4. SlotWhole'
      BY <1>18, <1>0, <1>a, <1>c DEF Exit, SlotWhole, IsPageOf, NameInv, LockInv, FillInv, Filled, Holding, Fresh, Gone, AllReleased
    <2> QED
      BY <2>1, <2>2, <2>3, <2>4
  <1>19. CASE Die(p)
    <2>1. LockInv'
      BY <1>19, <1>0, <1>a, <1>c DEF Die, LockInv, FdInv, Holding, Gone, AllReleased
    <2>2. NameInv'
      BY <1>19, <1>0, <1>a, <1>c DEF Die, LockInv, FdInv, NameInv, Holding, Fresh, Gone, AllReleased
    <2>3. FillInv'
      <3>1. /\ pc'[p] = "dead" /\ woff' = woff
            /\ \A q \in Proc \ {p} : pc'[q] = pc[q] /\ lockFd'[q] = lockFd[q]
        BY <1>19, <1>0 DEF Die, Gone
      <3>2. \A q \in Proc \ {p} : pc[q] \in Holding => file' = file
        BY <1>19, <1>d DEF Die, Holding
      <3>3. \A q \in Proc \ {p} : Filled(q)'
        <4> SUFFICES ASSUME NEW q \in Proc \ {p} PROVE Filled(q)'
          OBVIOUS
        <4>1. Filled(q) /\ pc'[q] = pc[q] /\ lockFd'[q] = lockFd[q] /\ woff' = woff
          BY <3>1, <1>c DEF FillInv
        <4>2. CASE pc[q] \in Holding
          BY <4>1, <4>2, <3>2 DEF Filled, IsPageOf
        <4>3. CASE pc[q] \notin Holding
          BY <4>1, <4>3 DEF Filled, Holding
        <4> QED
          BY <4>2, <4>3
      <3>4. Filled(p)'
        BY <3>1 DEF Filled
      <3> QED
        BY <3>3, <3>4 DEF FillInv
    <2>4. SlotWhole'
      <3>1. cacheName' = cacheName /\ (cacheName # NoFile => file'[cacheName] = file[cacheName])
        BY <1>19, SlotUntouched DEF Die, Gone
      <3> QED
        BY <3>1, <1>c DEF SlotWhole, IsPageOf
    <2> QED
      BY <2>1, <2>2, <2>3, <2>4
  <1>20. CASE Kill(p)
    <2>1. LockInv'
      BY <1>20, <1>0, <1>a, <1>c DEF Kill, LockInv, FdInv, Holding, Gone, AllReleased
    <2>2. NameInv'
      BY <1>20, <1>0, <1>a, <1>c DEF Kill, LockInv, FdInv, NameInv, Holding, Fresh, Gone, AllReleased
    <2>3. FillInv'
      BY <1>20, <1>0, <1>a, <1>c, <1>d DEF Kill, FillInv, Filled, FdInv, IsPageOf, Holding, Gone, AllReleased
    <2>4. SlotWhole'
      BY <1>20, <1>0, <1>a, <1>c DEF Kill, SlotWhole, IsPageOf, NameInv, LockInv, FillInv, Filled, Holding, Fresh, Gone, AllReleased
    <2> QED
      BY <2>1, <2>2, <2>3, <2>4
  <1> QED
    BY <1>1, <1>2, <1>3, <1>4, <1>5, <1>6, <1>7, <1>8, <1>9, <1>10, <1>11, <1>12, <1>13, <1>14, <1>15, <1>16, <1>17, <1>18, <1>19, <1>20 DEF Step

\* The whole invariant of the slot is kept by every step.
LEMMA NextSlot == TypeInv /\ SlotInv /\ LocksKept' /\ [Next]_vars => SlotInv'
  <1> SUFFICES ASSUME TypeInv, SlotInv, LocksKept', [Next]_vars PROVE SlotInv'
    OBVIOUS
  <1>1. FdInv'
    BY NextType DEF TypeInv
  <1>2. LockInv' /\ NameInv' /\ FillInv' /\ SlotWhole'
    <2>1. ASSUME NEW p \in Proc, Step(p) \/ Die(p) \/ Kill(p)
          PROVE  LockInv' /\ NameInv' /\ FillInv' /\ SlotWhole'
      BY <2>1, StepSlot DEF TypeInv
    <2>2. CASE Tick \/ UNCHANGED vars
      <3>1. UNCHANGED <<fsVars, pc, fdVars>>
        BY <2>2 DEF Tick, vars
      <3>2. LockInv' /\ NameInv'
        BY <3>1 DEF fsVars, fdVars, SlotInv, LockInv, NameInv
      <3>3. FillInv'
        BY <3>1 DEF fsVars, fdVars, SlotInv, FillInv, Filled, IsPageOf
      <3>4. SlotWhole'
        BY <3>1 DEF fsVars, SlotInv, SlotWhole, IsPageOf
      <3> QED
        BY <3>2, <3>3, <3>4
    <2> QED
      BY <2>1, <2>2 DEF Next, Finished, OpenFilter, Spin, LocksKept
  <1> QED
    BY <1>1, <1>2 DEF SlotInv

\* What has slipped stays slipped.
LEMMA SlipsGrow == TypeOK /\ [Next]_vars => slips \subseteq slips'
  <1> SUFFICES ASSUME TypeOK, [Next]_vars PROVE slips \subseteq slips'
    OBVIOUS
  <1>1. ASSUME NEW p \in Proc, Step(p) PROVE slips \subseteq slips'
    BY <1>1 DEF Step, CacheProcess, OpenSlot, ReadKey, CheckExpired, OpenLock, SetLock, Truncate,
                WriteKey, CheckModified, Redirect, Fill, Flush, Discard, Replace, PrintChunk, PrintEnd,
                Direct, Exit, Gone
  <1>2. ASSUME NEW p \in Proc, Die(p) \/ Kill(p) \/ OpenFilter(p) \/ Spin(p) PROVE slips \subseteq slips'
    BY <1>2 DEF Die, Kill, Gone, OpenFilter, Spin, vars
  <1> QED
    BY <1>1, <1>2 DEF Next, Tick, Finished, vars

LEMMA SlotInvariant == Spec => [](TypeInv /\ (LocksKept => SlotInv))
  <1>1. Init => TypeInv /\ SlotInv
    BY InitType, InitSlot
  <1>2. TypeInv /\ [Next]_vars /\ LocksKept' => LocksKept
    BY SlipsGrow DEF TypeInv, LocksKept
  <1>3. TypeInv /\ (LocksKept => SlotInv) /\ [Next]_vars => (TypeInv /\ (LocksKept => SlotInv))'
    BY <1>2, NextType, NextSlot
  <1> QED
    BY <1>1, <1>3, PTL DEF Spec

\* As long as the locks are kept the cache file is one complete page (the promise
\* of process_slot()).
THEOREM SlotIsIntact == Spec => []SlotIntact
  <1>1. TypeInv /\ (LocksKept => SlotInv) => SlotIntact
    BY DEF SlotInv, SlotIntact
  <1> QED
    BY <1>1, SlotInvariant, PTL

\* What the cache file name refers to is never written again, unless a lock was
\* taken after the lock file was renamed or deleted (lock_slot() opens it first,
\* cache.c 178-183) or was dropped by a filter: process_slot() changes a slot
\* only by replacing it.
THEOREM SlotIsNeverPruned == Spec => SlotNeverPruned
  <1>1. TypeInv /\ (LocksKept => SlotInv) /\ [Next]_vars
          => [LocksKept' /\ cacheName # NoFile
                => file'[cacheName] = file[cacheName]]_<<cacheName, file, slips>>
    <2> SUFFICES ASSUME TypeInv, LocksKept => SlotInv, [Next]_vars, LocksKept', cacheName # NoFile
                 PROVE  file'[cacheName] = file[cacheName]
      OBVIOUS
    <2>0. SlotInv
      BY SlipsGrow DEF TypeInv, LocksKept
    <2>1. ASSUME NEW p \in Proc, Step(p) \/ Die(p) \/ Kill(p) PROVE file'[cacheName] = file[cacheName]
      BY <2>0, <2>1, SlotUntouched DEF TypeInv
    <2>2. CASE UNCHANGED file
      BY <2>2
    <2> QED
      BY <2>1, <2>2 DEF Next, OpenFilter, Spin, Tick, Finished, vars, fsVars
  <1> QED
    BY <1>1, SlotInvariant, PTL DEF Spec, SlotNeverPruned

-----------------------------------------------------------------------------
(* What the clients get *)

\* The files a process has open, or that are the slot, stay as they are.
LEMMA Distinct ==
  /\ NoFile \notin Inode /\ NoProc \notin Proc
  /\ \A r \in Req : KeyOf[r] \in Keys /\ Last(r) \in 1..MaxLen /\ Last(r) \in Nat
  /\ \A r \in Req : <<r, 0>> # Hole /\ \A n \in 0..MaxLen : <<r, n>> # ErrorPage /\ <<r, n>> # Hole
  /\ MaxLen \in Nat /\ Proc \subseteq Req /\ Req \subseteq Inode
  BY Constants, ConstAssumption, DistinctAssumption

\* A step of a process leaves the others where they are.
LEMMA Frame ==
  ASSUME TypeOK, NEW p \in Proc, Step(p) \/ Die(p) \/ Kill(p), NEW q \in Proc \ {p}
  PROVE  /\ pc'[q] = pc[q] /\ hit'[q] = hit[q] /\ cacheFd'[q] = cacheFd[q] /\ st'[q] = st[q]
         /\ lockFd'[q] = lockFd[q] /\ redirected'[q] = redirected[q] /\ roff'[q] = roff[q]
         /\ sent'[q] = sent[q] /\ sawExpired'[q] = sawExpired[q] /\ woff'[q] = woff[q]
  <1> USE DEF Goto, fsVars, fdVars
  <1>0. /\ pc \in [Proc -> Labels] /\ hit \in [Proc -> BOOLEAN] /\ st \in [Proc -> FileStat]
        /\ cacheFd \in [Proc -> Inode \cup {NoFile}] /\ lockFd \in [Proc -> Inode \cup {NoFile}]
        /\ redirected \in [Proc -> BOOLEAN] /\ roff \in [Proc -> 0..(MaxLen + 1)]
        /\ woff \in [Proc -> 0..(MaxLen + 1)]
        /\ sent \in [Proc -> Seq(Chunk)] /\ sawExpired \in [Proc -> FileStat]
    BY DEF TypeOK
  <1>1. CASE CacheProcess(p) \/ OpenSlot(p) \/ ReadKey(p) \/ CheckExpired(p)
    BY <1>0, <1>1 DEF CacheProcess, OpenSlot, ReadKey, CheckExpired
  <1>2. CASE OpenLock(p) \/ SetLock(p) \/ Truncate(p) \/ WriteKey(p)
    BY <1>0, <1>2 DEF OpenLock, SetLock, Truncate, WriteKey
  <1>3. CASE CheckModified(p) \/ Redirect(p) \/ Fill(p) \/ Flush(p)
    BY <1>0, <1>3 DEF CheckModified, Redirect, Fill, Flush
  <1>4. CASE Discard(p) \/ Replace(p) \/ PrintChunk(p) \/ PrintEnd(p) \/ Direct(p)
    BY <1>0, <1>4 DEF Discard, Replace, PrintChunk, PrintEnd, Direct
  <1>5. CASE Exit(p) \/ Die(p) \/ Kill(p)
    BY <1>0, <1>5 DEF Exit, Die, Kill, Gone
  <1> QED
    BY <1>1, <1>2, <1>3, <1>4, <1>5 DEF Step

\* How a step changes the names: a lock name is given to a new file, or taken
\* away; the slot becomes what the lock name was.
LEMMA Names ==
  ASSUME TypeOK, NEW p \in Proc, Step(p) \/ Die(p) \/ Kill(p)
  PROVE  /\ lockName' \in {lockName, NoFile} \/ (pc[p] = "openlock" /\ lockName' = p)
         /\ cacheName # NoFile => cacheName' # NoFile
         /\ pc'[p] \in Fresh => pc[p] \in Fresh
         /\ cacheName' = cacheName
              \/ (Replace(p) /\ lockName # NoFile /\ cacheName' = lockName /\ lockName' = NoFile)
  <1> USE DEF Goto, At, fsVars, fdVars
  <1>0. pc \in [Proc -> Labels]
    BY DEF TypeOK
  <1>1. CASE CacheProcess(p) \/ OpenSlot(p) \/ ReadKey(p) \/ CheckExpired(p)
    BY <1>0, <1>1 DEF CacheProcess, OpenSlot, ReadKey, CheckExpired, Fresh
  <1>2. CASE OpenLock(p) \/ SetLock(p) \/ Truncate(p) \/ WriteKey(p)
    BY <1>0, <1>2 DEF OpenLock, SetLock, Truncate, WriteKey, Fresh, Fallback
  <1>3. CASE CheckModified(p) \/ Redirect(p) \/ Fill(p) \/ Flush(p)
    BY <1>0, <1>3 DEF CheckModified, Redirect, Fill, Flush, Fresh
  <1>4. CASE Discard(p) \/ Replace(p) \/ PrintChunk(p) \/ PrintEnd(p) \/ Direct(p)
    BY <1>0, <1>4 DEF Discard, Replace, PrintChunk, PrintEnd, Direct, Fresh, Fallback
  <1>5. CASE Exit(p) \/ Die(p) \/ Kill(p)
    BY <1>0, <1>5 DEF Exit, Die, Kill, Gone, Fresh
  <1> QED
    BY <1>1, <1>2, <1>3, <1>4, <1>5 DEF Step

\* The only file a process writes is its lock file, or the one it creates.
LEMMA Writes ==
  ASSUME TypeOK, SlotInv, NEW p \in Proc, Step(p) \/ Die(p) \/ Kill(p), NEW i \in Inode
  PROVE  \/ file'[i] = file[i]
         \/ pc[p] \in Holding /\ i = lockFd[p] /\ i = lockName
         \/ pc[p] \in Fresh /\ i = p
  <1> USE DEF At
  <1>0. LockInv /\ file \in [Inode -> File] /\ lockFd \in [Proc -> Inode \cup {NoFile}]
    BY DEF TypeOK, SlotInv
  <1>1. CASE OpenLock(p)
    BY <1>0, <1>1 DEF OpenLock, Fresh
  <1>2. CASE Truncate(p) \/ WriteKey(p) \/ Fill(p)
    BY <1>0, <1>2 DEF Truncate, WriteKey, Fill, Emptied, Written, Holding, LockInv
  <1>3. CASE Die(p)
    BY <1>0, <1>3 DEF Die, Written, Holding, LockInv
  <1>4. CASE ~(OpenLock(p) \/ Truncate(p) \/ WriteKey(p) \/ Fill(p) \/ Die(p))
    BY <1>4 DEF Step, Kill, Gone, CacheProcess, OpenSlot, ReadKey, CheckExpired, SetLock, CheckModified,
                Redirect, Flush, Discard, Replace, PrintChunk, PrintEnd, Direct, Exit, fsVars
  <1> QED
    BY <1>1, <1>2, <1>3, <1>4

\* A file that was in the slot is still the same page, and of the same age.
LEMMA StaysPublished ==
  ASSUME TypeOK, SlotInv, NEW p \in Proc, Step(p) \/ Die(p) \/ Kill(p), NEW i \in Inode, Published(i)
  PROVE  file'[i] = file[i] /\ Published(i)'
  <1>1. file'[i] = file[i]
    BY Writes DEF Published
  <1>2. (\E r \in Req : IsPageOf(i, r))'
    BY <1>1 DEF Published, IsPageOf
  <1>3. i # lockName'
    BY Names, Distinct DEF Published, Fresh
  <1>4. ASSUME NEW q \in Proc, pc'[q] \in Fresh PROVE i # q
    <2>1. pc[q] \in Fresh
      BY <1>4, Names, Frame
    <2> QED
      BY <2>1 DEF Published
  <1> QED
    BY <1>1, <1>2, <1>3, <1>4 DEF Published

LEMMA SlotPublished ==
  ASSUME TypeOK, SlotInv, cacheName # NoFile PROVE cacheName \in Inode /\ Published(cacheName)
  BY DEF TypeOK, SlotInv, NameInv, SlotWhole, Published

\* The page in a file has one author.
LEMMA OnePage ==
  ASSUME NEW i, NEW r \in Req, NEW s \in Req, IsPageOf(i, r), IsPageOf(i, s) PROVE r = s
  <1>1. file[i].chunk[0] = <<r, 0>> /\ file[i].chunk[0] = <<s, 0>>
    BY Distinct DEF IsPageOf
  <1> QED
    BY <1>1

\* A page holds no error and no hole; a process before unlock_slot() has not
\* left the lock file it locked.
LEMMA Moves ==
  ASSUME TypeOK, NEW p \in Proc, Step(p) \/ Die(p) \/ Kill(p),
         pc'[p] \in Fresh \cup Holding \cup {"setlk"}
  PROVE  /\ pc[p] \in Fresh \cup Holding \cup {"setlk"}
         /\ pc[p] \in Holding => pc'[p] \in Holding /\ lockFd'[p] = lockFd[p]
  <1> USE DEF Goto, At, fsVars, fdVars, Fresh, Holding
  <1>0. pc \in [Proc -> Labels] /\ lockFd \in [Proc -> Inode \cup {NoFile}]
    BY DEF TypeOK
  <1>1. CASE CacheProcess(p) \/ OpenSlot(p) \/ ReadKey(p) \/ CheckExpired(p)
    BY <1>0, <1>1 DEF CacheProcess, OpenSlot, ReadKey, CheckExpired
  <1>2. CASE OpenLock(p) \/ SetLock(p) \/ Truncate(p) \/ WriteKey(p)
    BY <1>0, <1>2 DEF OpenLock, SetLock, Truncate, WriteKey, Fallback
  <1>3. CASE CheckModified(p) \/ Redirect(p) \/ Fill(p) \/ Flush(p)
    BY <1>0, <1>3 DEF CheckModified, Redirect, Fill, Flush
  <1>4. CASE Discard(p) \/ Replace(p) \/ PrintChunk(p) \/ PrintEnd(p) \/ Direct(p)
    BY <1>0, <1>4 DEF Discard, Replace, PrintChunk, PrintEnd, Direct, Fallback
  <1>5. CASE Exit(p) \/ Die(p) \/ Kill(p)
    BY <1>0, <1>5 DEF Exit, Die, Kill, Gone
  <1> QED
    BY <1>1, <1>2, <1>3, <1>4, <1>5 DEF Step

\* The first chunk of a file is the key of the process that writes it.
LEMMA KeyWritten ==
  ASSUME TypeOK, SlotInv, NEW p \in Proc, Step(p) \/ Die(p) \/ Kill(p), NEW i \in Inode
  PROVE  \/ file'[i].chunk[0] \in {file[i].chunk[0], Hole}
         \/ file'[i].chunk[0] = <<p, 0>> /\ pc[p] \in Holding /\ i = lockFd[p]
  <1> USE DEF At
  <1>0. /\ file \in [Inode -> File] /\ file[i].chunk \in [0..MaxLen -> Chunk] /\ MaxLen \in Nat
        /\ lockFd \in [Proc -> Inode \cup {NoFile}] /\ woff[p] \in 0..(MaxLen + 1)
        /\ FillInv
    BY Distinct DEF TypeOK, SlotInv, File
  <1>1. CASE OpenLock(p)
    BY <1>0, <1>1 DEF OpenLock, EmptyFile
  <1>2. CASE Truncate(p)
    BY <1>0, <1>2 DEF Truncate, Emptied, EmptyFile
  <1>3. CASE WriteKey(p)
    BY <1>0, <1>3 DEF WriteKey, Written, Holding
  <1>4. ASSUME woff[p] # 0, NEW c, file' = Written(lockFd[p], woff[p], c)
        PROVE  file'[i].chunk[0] = file[i].chunk[0]
    BY <1>0, <1>4 DEF Written
  <1>5. pc[p] = "fill" => woff[p] # 0
    BY <1>0 DEF FillInv, Filled
  <1>6. CASE Fill(p) \/ Die(p)
    BY <1>0, <1>4, <1>5, <1>6 DEF Fill, Die
  <1>7. CASE ~(OpenLock(p) \/ Truncate(p) \/ WriteKey(p) \/ Fill(p) \/ Die(p))
    BY <1>7 DEF Step, Kill, Gone, CacheProcess, OpenSlot, ReadKey, CheckExpired, SetLock, CheckModified,
                Redirect, Flush, Discard, Replace, PrintChunk, PrintEnd, Direct, Exit, fsVars
  <1> QED
    BY <1>1, <1>2, <1>3, <1>6, <1>7

\* The lock file of a process is the only one with its key.
LEMMA StepOwnKey ==
  ASSUME TypeOK, SlotInv, ReadInv, NEW p \in Proc, Step(p) \/ Die(p) \/ Kill(p), NEW q \in Proc
  PROVE  OwnKey(q)'
  <1> SUFFICES ASSUME pc'[q] \in Fresh \cup Holding \cup {"setlk"},
                      NEW i \in Inode, file'[i].chunk[0] = <<q, 0>>
               PROVE  pc'[q] \in Holding /\ i = lockFd'[q]
    BY DEF OwnKey
  <1>0. OwnKey(q) /\ q \in Req /\ Hole # <<q, 0>>
    BY Distinct DEF ReadInv
  <1>1. CASE q # p
    <2>1. pc'[q] = pc[q] /\ lockFd'[q] = lockFd[q]
      BY <1>1, Frame
    <2>2. <<p, 0>> # <<q, 0>>
      BY <1>1
    <2>3. file'[i].chunk[0] \in {file[i].chunk[0], Hole, <<p, 0>>}
      BY KeyWritten
    <2>4. file[i].chunk[0] = <<q, 0>>
      BY <1>0, <2>2, <2>3
    <2> QED
      BY <1>0, <2>1, <2>4 DEF OwnKey
  <1>2. CASE q = p
    <2>1. /\ pc[p] \in Fresh \cup Holding \cup {"setlk"}
          /\ pc[p] \in Holding => pc'[p] \in Holding /\ lockFd'[p] = lockFd[p]
      BY <1>2, Moves
    <2>2. pc[p] \in Holding /\ i = lockFd[p]
      <3>1. CASE file'[i].chunk[0] = file[i].chunk[0]
        BY <1>0, <1>2, <2>1, <3>1 DEF OwnKey
      <3>2. CASE file'[i].chunk[0] # file[i].chunk[0]
        BY <1>0, <1>2, <3>2, KeyWritten
      <3> QED
        BY <3>1, <3>2
    <2> QED
      BY <1>2, <2>1, <2>2
  <1> QED
    BY <1>1, <1>2

\* A process keeps what it has read and sent while another one takes a step.
LEMMA OthersRead ==
  ASSUME TypeOK, SlotInv, ReadInv, NEW p \in Proc, Step(p) \/ Die(p) \/ Kill(p), NEW q \in Proc \ {p}
  PROVE  Opened(q)' /\ Served(q)'
  <1>0. Opened(q) /\ Served(q) /\ cacheFd[q] \in Inode \cup {NoFile}
    BY DEF ReadInv, TypeOK
  <1>1. /\ pc'[q] = pc[q] /\ hit'[q] = hit[q] /\ cacheFd'[q] = cacheFd[q] /\ st'[q] = st[q]
        /\ redirected'[q] = redirected[q] /\ roff'[q] = roff[q] /\ sent'[q] = sent[q]
    BY Frame
  <1>2. cacheName # NoFile => cacheName' # NoFile
    BY Names
  <1>3. cacheFd[q] # NoFile => file'[cacheFd[q]] = file[cacheFd[q]] /\ Published(cacheFd[q])'
    <2> SUFFICES ASSUME cacheFd[q] # NoFile
                 PROVE  file'[cacheFd[q]] = file[cacheFd[q]] /\ Published(cacheFd[q])'
      OBVIOUS
    <2>1. file'[cacheFd[q]] = file[cacheFd[q]] /\ \A i : i = cacheFd[q] => Published(i)'
      BY <1>0, StaysPublished DEF Opened
    <2> QED
      BY <1>1, <2>1
  <1>4. \A r \in Req : cacheFd[q] # NoFile /\ IsPageOf(cacheFd[q], r) => IsPageOf(cacheFd[q], r)'
    BY <1>1, <1>3 DEF IsPageOf
  <1>5. Opened(q)'
    <2>1. (cacheFd[q] # NoFile => cacheName # NoFile /\ Published(cacheFd[q]))'
      BY <1>0, <1>1, <1>2, <1>3 DEF Opened
    <2>2. (hit[q] /\ cacheFd[q] # NoFile => HasKey(q))'
      BY <1>0, <1>1, <1>4 DEF Opened, HasKey
    <2>3. (pc[q] = "replace" => st[q] # NoStat /\ st[q].size = file[lockFd[q]].size)'
      <3> SUFFICES ASSUME pc[q] = "replace" PROVE file'[lockFd[q]] = file[lockFd[q]]
        BY <1>0, <1>1, Frame DEF Opened
      <3>1. lockFd[q] # NoFile /\ lockFd[q] = lockName /\ lockFd[q] \in Inode
        BY DEF SlotInv, FdInv, LockInv, Holding, TypeOK
      <3>2. pc[p] \notin Holding /\ (pc[p] \in Fresh => lockFd[q] # p)
        BY <3>1, OneHolder DEF SlotInv, NameInv, Holding
      <3> QED
        BY <3>1, <3>2, Writes
    <2> QED
      BY <1>0, <1>1, <1>2, <1>3, <2>1, <2>2, <2>3 DEF Opened
  <1>6. Served(q)'
    <2>1. (pc[q] = "print" => \E r \in Req : Sending(q, r))'
      <3>1. pc[q] = "print" => cacheFd[q] # NoFile
        BY DEF SlotInv, FdInv
      <3> QED
        BY <1>0, <1>1, <1>4, <3>1 DEF Served, Sending
    <2> QED
      BY <1>0, <1>1, <2>1 DEF Served
  <1> QED
    BY <1>5, <1>6

\* What process_slot() has open of an old slot is a page it can fall back on.
LEMMA Printable ==
  ASSUME TypeOK, SlotInv, ReadInv, NEW p \in Proc, Step(p) \/ Die(p) \/ Kill(p),
         hit[p], pc[p] \in Holding \cup {"check", "openlock", "setlk"},
         cacheFd'[p] = cacheFd[p], roff'[p] = 1, sent'[p] = sent[p]
  PROVE  \E r \in Req : Sending(p, r)'
  <1>1. cacheFd[p] # NoFile /\ cacheFd[p] \in Inode /\ Published(cacheFd[p]) /\ HasKey(p)
    BY DEF SlotInv, FdInv, ReadInv, Opened, TypeOK
  <1>2. file'[cacheFd[p]] = file[cacheFd[p]]
    BY <1>1, StaysPublished
  <1>3. PICK r \in Req : KeyOf[r] = KeyOf[p] /\ IsPageOf(cacheFd[p], r)
    BY <1>1 DEF HasKey
  <1>4. sent[p] = <<>>
    BY DEF ReadInv, Served, Holding
  <1>5. Sending(p, r)'
    BY <1>2, <1>3, <1>4, Distinct DEF Sending, IsPageOf
  <1> QED
    BY <1>5

\* What a process has open stays what it is when it does not open another file.
LEMMA KeepsOpen ==
  ASSUME TypeOK, SlotInv, ReadInv, NEW p \in Proc, Step(p) \/ Die(p) \/ Kill(p),
         cacheFd'[p] = cacheFd[p], cacheFd[p] # NoFile
  PROVE  /\ cacheName' # NoFile /\ Published(cacheFd[p])' /\ (HasKey(p) => HasKey(p)')
         /\ file'[cacheFd[p]] = file[cacheFd[p]]
  <1>1. cacheFd[p] \in Inode /\ cacheName # NoFile /\ Published(cacheFd[p])
    BY DEF ReadInv, Opened, TypeOK
  <1>2. file'[cacheFd[p]] = file[cacheFd[p]] /\ \A i : i = cacheFd[p] => Published(i)'
    BY <1>1, StaysPublished
  <1>3. Published(cacheFd[p])'
    BY <1>2
  <1>4. HasKey(p) => HasKey(p)'
    BY <1>2 DEF HasKey, IsPageOf
  <1> QED
    BY <1>1, <1>2, <1>3, <1>4, Names

\* What a process sends is one page of its key, whichever way it gets it.
LEMMA OwnReads ==
  ASSUME TypeOK, SlotInv, ReadInv, slips' = {}, NEW p \in Proc, Step(p) \/ Die(p) \/ Kill(p)
  PROVE  Opened(p)' /\ Served(p)'
  <1> USE DEF At, Goto
  <1>0. /\ file \in [Inode -> File] /\ owner \in [Inode -> Proc \cup {NoProc}]
        /\ pc \in [Proc -> Labels] /\ lockFd \in [Proc -> Inode \cup {NoFile}]
        /\ cacheFd \in [Proc -> Inode \cup {NoFile}] /\ hit \in [Proc -> BOOLEAN]
        /\ st \in [Proc -> FileStat] /\ redirected \in [Proc -> BOOLEAN]
        /\ roff \in [Proc -> 0..(MaxLen + 1)] /\ sent \in [Proc -> Seq(Chunk)]
    BY DEF TypeOK
  <1>a. FdInv /\ Opened(p) /\ Served(p)
    BY DEF SlotInv, ReadInv
  <1>b. /\ cacheFd'[p] = cacheFd[p] /\ cacheFd[p] # NoFile =>
             /\ cacheName' # NoFile /\ Published(cacheFd[p])' /\ (HasKey(p) => HasKey(p)')
             /\ file'[cacheFd[p]] = file[cacheFd[p]]
        /\ cacheName # NoFile => cacheName' # NoFile
    BY KeepsOpen, Names
  <1>c. /\ hit[p] /\ pc[p] \in Holding \cup {"check", "openlock", "setlk"} =>
             (cacheFd'[p] = cacheFd[p] /\ roff'[p] = 1 /\ sent'[p] = sent[p] => \E r \in Req : Sending(p, r)')
    BY Printable
  <1>1. CASE CacheProcess(p)
    <2>1. Opened(p)'
      BY <1>0, <1>1, <1>a, <1>b DEF CacheProcess, Opened, FdInv, fsVars, fdVars
    <2>2. Served(p)'
      BY <1>0, <1>1, <1>a, <1>c DEF CacheProcess, Served, Holding, fsVars, fdVars
    <2> QED
      BY <2>1, <2>2
  <1>2. CASE OpenSlot(p)
    <2>1. Opened(p)'
      <3>1. CASE cacheName = NoFile
        BY <1>0, <1>2, <1>a, <1>b, <3>1 DEF OpenSlot, Opened, fsVars, FdInv
      <3>2. CASE cacheName # NoFile
        <4>1. cacheName \in Inode /\ Published(cacheName) /\ NoFile \notin Inode
          BY <3>2, SlotPublished, Distinct
        <4>2. \A i : i = cacheName => Published(i)'
          BY <4>1, StaysPublished
        <4>3. /\ pc'[p] = "readkey" /\ cacheFd'[p] = cacheName /\ cacheName' = cacheName
              /\ st'[p] = Stat(cacheName) /\ file' = file /\ redirected' = redirected
              /\ hit' = hit /\ ~hit[p] /\ ~redirected[p]
          BY <1>0, <1>2, <1>a, <3>2 DEF OpenSlot, fsVars, FdInv, Opened
        <4>4. Published(cacheFd[p])'
          BY <4>2, <4>3
        <4>5. st'[p] # NoStat /\ st'[p].size = file'[cacheFd'[p]].size
          BY <4>1, <4>3 DEF Stat, NoStat
        <4> QED
          BY <3>2, <4>3, <4>4, <4>5 DEF Opened
      <3> QED
        BY <3>1, <3>2
    <2>2. Served(p)'
      BY <1>0, <1>2, <1>a, <1>c DEF OpenSlot, Served, Holding, fsVars
    <2> QED
      BY <2>1, <2>2
  <1>3. CASE ReadKey(p)
    <2>1. Opened(p)'
      <3>1. Matches(p) => HasKey(p)
        <4> SUFFICES ASSUME Matches(p) PROVE HasKey(p)
          OBVIOUS
        <4>1. PICK r \in Req : file[cacheFd[p]].chunk[0] = <<r, 0>> /\ KeyOf[r] = KeyOf[p]
          BY DEF Matches
        <4>2. PICK s \in Req : IsPageOf(cacheFd[p], s)
          BY <1>3, <1>a DEF ReadKey, FdInv, Opened, Published
        <4>3. r = s
          BY <4>1, <4>2, Distinct DEF IsPageOf
        <4> QED
          BY <4>1, <4>2, <4>3 DEF HasKey
      <3> QED
        BY <1>0, <1>3, <1>a, <1>b, <3>1, Distinct DEF ReadKey, Opened, FdInv
    <2>2. Served(p)'
      BY <1>0, <1>3, <1>a, <1>c DEF ReadKey, Served, Holding
    <2> QED
      BY <2>1, <2>2
  <1>4. CASE CheckExpired(p)
    <2>1. Opened(p)'
      BY <1>0, <1>4, <1>a, <1>b DEF CheckExpired, Opened, fsVars
    <2>2. Served(p)'
      <3>1. hit[p] /\ pc[p] = "check" /\ cacheFd' = cacheFd /\ sent' = sent /\ sent[p] = <<>>
        BY <1>4, <1>a DEF CheckExpired, Opened, Served, FdInv
      <3>2. CASE pc'[p] = "openlock"
        BY <3>1, <3>2 DEF Served, Holding
      <3>3. CASE pc'[p] = "print" /\ roff'[p] = 1
        BY <1>c, <3>1, <3>3 DEF Served, Holding
      <3> QED
        BY <1>0, <1>4, <3>2, <3>3 DEF CheckExpired
    <2> QED
      BY <2>1, <2>2
  <1>5. CASE OpenLock(p)
    <2>1. Opened(p)'
      BY <1>0, <1>5, <1>a, <1>b DEF OpenLock, Opened, Fallback
    <2>2. Served(p)'
      BY <1>0, <1>5, <1>a, <1>c DEF OpenLock, Served, Holding, Fallback
    <2> QED
      BY <2>1, <2>2
  <1>6. CASE SetLock(p)
    <2>1. Opened(p)'
      BY <1>0, <1>6, <1>a, <1>b DEF SetLock, Opened, Fallback
    <2>2. Served(p)'
      BY <1>0, <1>6, <1>a, <1>b, <1>c DEF SetLock, Served, Holding, Fallback
    <2> QED
      BY <2>1, <2>2
  <1>7. CASE Truncate(p)
    <2>1. Opened(p)'
      BY <1>0, <1>7, <1>a, <1>b DEF Truncate, Opened, Fallback, fdVars
    <2>2. Served(p)'
      BY <1>0, <1>7, <1>a, <1>c DEF Truncate, Served, Holding, Fallback, fdVars
    <2> QED
      BY <2>1, <2>2
  <1>8. CASE WriteKey(p)
    <2>1. Opened(p)'
      BY <1>0, <1>8, <1>a, <1>b DEF WriteKey, Opened, Fallback
    <2>2. Served(p)'
      BY <1>0, <1>8, <1>a, <1>c DEF WriteKey, Served, Holding, Fallback
    <2> QED
      BY <2>1, <2>2
  <1>9. CASE CheckModified(p)
    <2>1. Opened(p)'
      BY <1>0, <1>9, <1>a, <1>b DEF CheckModified, Opened, fdVars
    <2>2. Served(p)'
      BY <1>0, <1>9, <1>a, <1>c DEF CheckModified, Served, Holding, fdVars
    <2> QED
      BY <2>1, <2>2
  <1>10. CASE Redirect(p)
    <2>1. Opened(p)'
      BY <1>0, <1>10, <1>a, <1>b DEF Redirect, Opened
    <2>2. Served(p)'
      BY <1>0, <1>10, <1>a, <1>c DEF Redirect, Served, Holding
    <2> QED
      BY <2>1, <2>2
  <1>11. CASE Fill(p)
    <2>1. Opened(p)'
      BY <1>0, <1>11, <1>a, <1>b DEF Fill, Opened
    <2>2. Served(p)'
      BY <1>0, <1>11, <1>a, <1>c DEF Fill, Served, Holding
    <2> QED
      BY <2>1, <2>2
  <1>12. CASE Flush(p)
    <2>1. Opened(p)'
      <3>1. lockFd[p] \in Inode /\ NoFile \notin Inode
        BY <1>0, <1>12, <1>a, Distinct DEF Flush, FdInv, Holding
      <3>2. CASE pc'[p] = "discard" /\ st' = st
        BY <1>0, <1>12, <1>a, <1>b, <3>2 DEF Flush, Opened, fsVars
      <3>3. CASE pc'[p] = "replace" /\ st'[p] = Stat(lockFd[p])
        <4>1. st'[p] # NoStat /\ st'[p].size = file'[lockFd'[p]].size
          BY <1>12, <3>1, <3>3 DEF Flush, Stat, NoStat, fsVars
        <4> QED
          BY <1>0, <1>12, <1>a, <1>b, <3>3, <4>1 DEF Flush, Opened, fsVars
      <3> QED
        BY <1>0, <1>12, <3>2, <3>3 DEF Flush
    <2>2. Served(p)'
      BY <1>0, <1>12, <1>a, <1>c DEF Flush, Served, Holding
    <2> QED
      BY <2>1, <2>2
  <1>13. CASE Discard(p)
    <2>1. Opened(p)'
      BY <1>0, <1>13, <1>a, <1>b DEF Discard, Opened, Fallback
    <2>2. Served(p)'
      BY <1>0, <1>13, <1>a, <1>c DEF Discard, Served, Holding, Fallback
    <2> QED
      BY <2>1, <2>2
  <1>14. CASE Replace(p)
    <2>1. Opened(p)'
      <3>0. /\ lockFd[p] \in Inode /\ lockFd[p] = lockName /\ lockName # NoFile
            /\ pc'[p] = "print" /\ cacheFd'[p] = lockFd[p] /\ file' = file
            /\ IsPageOf(lockFd[p], p) /\ p \in Req
        BY <1>0, <1>14, <1>a, Distinct DEF Replace, FdInv, SlotInv, LockInv, FillInv, Filled, Holding
      <3>1. IsPageOf(cacheFd[p], p)'
        BY <3>0 DEF IsPageOf
      <3>2. cacheName' = lockName /\ lockName' = NoFile /\ cacheName' # NoFile
        BY <1>14, <3>0 DEF Replace
      <3>3. Published(cacheFd[p])'
        <4>1. ASSUME NEW q \in Proc, pc'[q] \in Fresh PROVE lockFd[p] # q
          <5>1. pc[q] \in Fresh
            BY <4>1, Names, Frame
          <5> QED
            BY <3>0, <5>1 DEF SlotInv, NameInv
        <4> QED
          BY <3>0, <3>1, <3>2, <4>1, Distinct DEF Published
      <3>4. HasKey(p)'
        BY <3>0, <3>1 DEF HasKey
      <3>5. /\ st'[p] = st[p] /\ st[p] # NoStat /\ st[p].size = file[lockFd[p]].size
            /\ redirected'[p] = FALSE
        BY <1>0, <1>14, <1>a DEF Replace, Opened
      <3> QED
        BY <3>0, <3>2, <3>3, <3>4, <3>5 DEF Opened
    <2>2. Served(p)'
      <3>0. /\ lockFd[p] \in Inode /\ lockFd[p] = lockName /\ lockName # NoFile
            /\ pc'[p] = "print" /\ cacheFd'[p] = lockFd[p] /\ file' = file
            /\ IsPageOf(lockFd[p], p) /\ p \in Req
        BY <1>0, <1>14, <1>a, Distinct DEF Replace, FdInv, SlotInv, LockInv, FillInv, Filled, Holding
      <3>1. IsPageOf(cacheFd[p], p)'
        BY <3>0 DEF IsPageOf
      <3>2. roff'[p] = 1 /\ sent'[p] = <<>>
        BY <1>14, <1>a DEF Replace, Served, Holding
      <3>3. Sending(p, p)'
        BY <3>0, <3>1, <3>2, Distinct DEF Sending
      <3> QED
        BY <3>0, <3>3 DEF Served, Holding
    <2> QED
      BY <2>1, <2>2
  <1>15. CASE PrintChunk(p)
    <2>1. Opened(p)'
      BY <1>0, <1>15, <1>a, <1>b DEF PrintChunk, Opened
    <2>2. Served(p)'
      <3>1. PICK r \in Req : Sending(p, r)
        BY <1>15, <1>a DEF PrintChunk, Served
      <3>2. /\ file[cacheFd[p]].size = Last(r) + 1 /\ roff[p] \in 1..Last(r) /\ Last(r) \in Nat
            /\ file[cacheFd[p]].chunk[roff[p]] = <<r, roff[p]>>
        <4>1. /\ file[cacheFd[p]].size = Last(r) + 1 /\ roff[p] \in 1..(Last(r) + 1) /\ Last(r) \in Nat
              /\ \A n \in 0..Last(r) : file[cacheFd[p]].chunk[n] = <<r, n>>
          BY <3>1, Distinct DEF Sending, IsPageOf
        <4>2. roff[p] < file[cacheFd[p]].size
          BY <1>15 DEF PrintChunk
        <4>3. roff[p] \in 1..Last(r)
          BY <4>1, <4>2
        <4> QED
          BY <4>1, <4>3
      <3>3. /\ sent'[p] = Append(sent[p], <<r, roff[p]>>) /\ roff'[p] = roff[p] + 1
            /\ cacheFd' = cacheFd /\ file' = file /\ pc' = pc
        BY <1>0, <1>15, <3>2 DEF PrintChunk, fsVars
      <3>4. <<r, roff[p]>> \in Chunk
        BY <3>2, Distinct DEF Chunk
      <3>5. /\ Len(sent'[p]) = roff[p]
            /\ \A n \in 1..roff[p] : sent'[p][n] = <<r, n>>
        BY <1>0, <3>1, <3>2, <3>3, <3>4 DEF Sending
      <3>6. Sending(p, r)'
        <4>1. KeyOf[r] = KeyOf[p] /\ IsPageOf(cacheFd[p], r)'
          BY <3>1, <3>3 DEF Sending, IsPageOf
        <4>2. /\ roff'[p] \in 1..(Last(r) + 1) /\ Len(sent'[p]) = roff'[p] - 1
              /\ roff'[p] - 1 = roff[p]
          BY <3>2, <3>3, <3>5
        <4> QED
          BY <3>5, <4>1, <4>2 DEF Sending
      <3> QED
        BY <1>15, <3>3, <3>6 DEF PrintChunk, Served, Holding
    <2> QED
      BY <2>1, <2>2
  <1>16. CASE PrintEnd(p)
    <2>1. Opened(p)'
      BY <1>0, <1>16, <1>a, <1>b DEF PrintEnd, Opened
    <2>2. Served(p)'
      <3>1. PICK r \in Req : Sending(p, r)
        BY <1>16, <1>a DEF PrintEnd, Served
      <3>2. roff[p] = Last(r) + 1 /\ Last(r) \in Nat
        <4>1. /\ file[cacheFd[p]].size = Last(r) + 1 /\ roff[p] \in 1..(Last(r) + 1)
              /\ st[p].size = file[cacheFd[p]].size /\ Last(r) \in Nat
          BY <1>16, <1>a, <3>1, Distinct DEF PrintEnd, Sending, IsPageOf, Opened, FdInv
        <4> QED
          BY <1>16, <4>1 DEF PrintEnd, PrintedAll
      <3>3. /\ Len(sent[p]) = Last(r) /\ \A n \in 1..Last(r) : sent[p][n] = <<r, n>>
            /\ sent[p] \in Seq(Chunk)
        BY <1>0, <3>1, <3>2 DEF Sending
      <3>4. sent[p] = Body(r)
        <4>1. DOMAIN sent[p] = 1..Last(r) /\ sent[p] = [n \in DOMAIN sent[p] |-> sent[p][n]]
          BY <3>3
        <4> QED
          BY <3>3, <4>1 DEF Body
      <3>5. pc'[p] = "exit" /\ sent' = sent
        BY <1>0, <1>16 DEF PrintEnd
      <3> QED
        BY <3>1, <3>4, <3>5 DEF Served, Sending, Holding
    <2> QED
      BY <2>1, <2>2
  <1>17. CASE Direct(p)
    <2>1. Opened(p)'
      <3>1. pc'[p] = "exit" /\ cacheFd' = cacheFd /\ hit' = hit /\ st' = st /\ redirected' = redirected
        BY <1>0, <1>17 DEF Direct, fdVars
      <3>2. cacheFd[p] = NoFile
        BY <1>17, <1>a DEF Direct, Opened
      <3> QED
        BY <1>17, <1>a, <1>b, <3>1, <3>2 DEF Opened, Direct
    <2>2. Served(p)'
      <3>1. ~redirected[p] /\ sent[p] = <<>> /\ p \in Req
        BY <1>17, <1>a, Distinct DEF Direct, Opened, Served
      <3>2. Body(p) \in Seq(Chunk)
        BY <3>1, BodyType
      <3>3. sent'[p] = Body(p)
        BY <1>0, <1>17, <3>1, <3>2 DEF Direct
      <3>4. pc'[p] = "exit"
        BY <1>0, <1>17 DEF Direct
      <3> QED
        BY <3>1, <3>3, <3>4 DEF Served, Holding
    <2> QED
      BY <2>1, <2>2
  <1>18. CASE Exit(p)
    <2>1. Opened(p)'
      BY <1>0, <1>18, <1>a, <1>b DEF Exit, Opened, Gone
    <2>2. Served(p)'
      BY <1>0, <1>18, <1>a, <1>c DEF Exit, Served, Holding, Gone
    <2> QED
      BY <2>1, <2>2
  <1>19. CASE Die(p)
    <2>1. Opened(p)'
      BY <1>0, <1>19, <1>a, <1>b DEF Die, Opened, Gone
    <2>2. Served(p)'
      BY <1>0, <1>19, <1>a, <1>c DEF Die, Served, Holding, Gone
    <2> QED
      BY <2>1, <2>2
  <1>20. CASE Kill(p)
    <2>1. Opened(p)'
      BY <1>0, <1>20, <1>a, <1>b DEF Kill, Opened, Gone
    <2>2. Served(p)'
      BY <1>0, <1>20, <1>a, <1>c DEF Kill, Served, Holding, Gone
    <2> QED
      BY <2>1, <2>2
  <1> QED
    BY <1>1, <1>2, <1>3, <1>4, <1>5, <1>6, <1>7, <1>8, <1>9, <1>10, <1>11, <1>12, <1>13, <1>14, <1>15, <1>16, <1>17, <1>18, <1>19, <1>20 DEF Step

LEMMA InitRead == Init => ReadInv
  <1> SUFFICES ASSUME Init, NEW p \in Proc PROVE Opened(p) /\ Served(p) /\ OwnKey(p)
    BY DEF ReadInv
  <1>1. Opened(p) /\ Served(p)
    BY DEF Init, Opened, Served, Holding
  <1>2. OwnKey(p)
    <2>1. /\ p \in Req /\ Hole # <<p, 0>> /\ ErrorPage # <<p, 0>> /\ Past # p
          /\ MaxLen \in Nat /\ 0 \in 0..MaxLen /\ Last(Past) \in Nat
      BY Distinct, ConstAssumption DEF Req
    <2>2. \A i \in Inode : file[i].chunk[0] \in {<<Past, 0>>, ErrorPage, Hole}
      BY <2>1 DEF Init, PageFile, FailedFile, EmptyFile
    <2>3. <<Past, 0>> # <<p, 0>>
      BY <2>1
    <2>4. \A i \in Inode : file[i].chunk[0] # <<p, 0>>
      BY <2>1, <2>2, <2>3
    <2> QED
      BY <2>4 DEF OwnKey
  <1> QED
    BY <1>1, <1>2

LEMMA NextRead ==
  TypeInv /\ SlotInv /\ ReadInv /\ slips' = {} /\ [Next]_vars => ReadInv'
  <1> SUFFICES ASSUME TypeInv, SlotInv, ReadInv, slips' = {}, [Next]_vars
               PROVE  ReadInv'
    OBVIOUS
  <1>1. ASSUME NEW p \in Proc, Step(p) \/ Die(p) \/ Kill(p) PROVE ReadInv'
    BY <1>1, StepOwnKey, OthersRead, OwnReads DEF ReadInv, TypeInv
  <1>2. CASE UNCHANGED <<fsVars, pc, hit, fdVars, sent, sawExpired>>
    <2>1. ASSUME NEW i, Published(i) PROVE Published(i)'
      BY <1>2, <2>1 DEF fsVars, fdVars, Published, IsPageOf
    <2> QED
      BY <1>2, <2>1 DEF fsVars, fdVars, ReadInv, Opened, HasKey, Served, Sending, OwnKey, IsPageOf
  <1> QED
    BY <1>1, <1>2 DEF Next, OpenFilter, Spin, Tick, Finished, vars

LEMMA ReadInvariant == Spec => [](TypeInv /\ (slips = {} => SlotInv /\ ReadInv))
  <1>1. Init => ReadInv
    BY InitRead
  <1>2. /\ TypeInv /\ (LocksKept => SlotInv) /\ (slips = {} => ReadInv) /\ [Next]_vars
        => (slips = {} => ReadInv)'
    <2> SUFFICES ASSUME TypeInv, LocksKept => SlotInv, slips = {} => ReadInv, [Next]_vars, slips' = {}
                 PROVE  ReadInv'
      OBVIOUS
    <2>1. slips = {}
      BY SlipsGrow DEF TypeInv
    <2> QED
      BY <2>1, NextRead DEF LocksKept
  <1>3. slips = {} => LocksKept
    BY DEF LocksKept
  <1> QED
    BY <1>1, <1>2, <1>3, SlotInvariant, PTL DEF Spec

\* A request that ends normally has sent its client one complete page of its own
\* key (print_slot() and the fallbacks of process_slot()), unless a lock was
\* taken too late, dropped by a filter or given up in place by a failing rename().
THEOREM ServedIsIntact == Spec => []ServedIntact
  <1>1. TypeInv /\ (slips = {} => SlotInv /\ ReadInv) => ServedIntact
    BY DEF ReadInv, Served, ServedIntact
  <1> QED
    BY <1>1, ReadInvariant, PTL

\* Until then the sendfile() loop of print_slot() comes to the size that fstat()
\* has reported, and ends.
THEOREM NobodySpins == Spec => [](slips = {} => \A p \in Proc : ~Spinning(p))
  <1>1. TypeInv /\ SlotInv /\ ReadInv => \A p \in Proc : ~Spinning(p)
    <2> SUFFICES ASSUME TypeInv, ReadInv, SlotInv, NEW p \in Proc, pc[p] = "print" PROVE ~Spinning(p)
      BY DEF Spinning, At
    <2>1. cacheFd[p] # NoFile /\ st[p].size = file[cacheFd[p]].size
      BY DEF SlotInv, FdInv, ReadInv, Opened
    <2>2. PICK r \in Req : IsPageOf(cacheFd[p], r) /\ roff[p] \in 1..(Last(r) + 1)
      BY DEF ReadInv, Served, Sending
    <2>3. roff[p] <= st[p].size /\ roff[p] \in Int /\ st[p].size \in Int
      BY <2>1, <2>2, Distinct DEF IsPageOf
    <2> QED
      BY <2>1, <2>3 DEF Spinning
  <1> QED
    BY <1>1, ReadInvariant, PTL

-----------------------------------------------------------------------------
(* The refinement: what the system calls of a request are of the atomic slot. *)

LEMMA PageInIs == ASSUME NEW i \in Inode, NEW r \in Req, IsPageOf(i, r) PROVE PageIn(i) = r
  <1>1. \A s \in Req : IsPageOf(i, s) => s = r
    BY OnePage
  <1> QED
    BY <1>1, Distinct DEF PageIn

LEMMA PageSentIs == ASSUME NEW p \in Proc, NEW r \in Req, sent[p] = Body(r) PROVE PageSent(p) = r
  <1>1. ASSUME NEW s \in Req, sent[p] = Body(s) PROVE s = r
    <2>1. Body(s)[1] = <<s, 1>> /\ Body(r)[1] = <<r, 1>>
      BY Distinct DEF Body
    <2> QED
      BY <1>1, <2>1
  <1> QED
    BY <1>1 DEF PageSent

\* The page in a file does not change while the file does not.
LEMMA SamePage ==
  ASSUME NEW i, i # NoFile => file'[i] = file[i] PROVE PageIn(i)' = PageIn(i)
  <1>1. i # NoFile => \A r : IsPageOf(i, r)' <=> IsPageOf(i, r)
    BY DEF IsPageOf
  <1> QED
    BY <1>1 DEF PageIn

\* A file that a process has open, or that is the slot, holds a page.
LEMMA PageKnown ==
  ASSUME NEW i \in Inode, Published(i) PROVE PageIn(i) \in Req /\ PageIn(i) # NoFile /\ IsPageOf(i, PageIn(i))
  <1>1. PICK r \in Req : IsPageOf(i, r)
    BY DEF Published
  <1> QED
    BY <1>1, PageInIs, Distinct

\* The page in a file that a process keeps open.
LEMMA SameSeen ==
  ASSUME TypeOK, SlotInv, ReadInv, slips = {}, slips' = {}, NEW p \in Proc, Step(p) \/ Die(p) \/ Kill(p),
         NEW q \in Proc, cacheFd'[q] = cacheFd[q]
  PROVE  AbsSeen'[q] = AbsSeen[q]
  <1>1. cacheFd[q] # NoFile => file'[cacheFd[q]] = file[cacheFd[q]]
    BY StaysPublished DEF ReadInv, Opened, TypeOK
  <1>2. PageIn(cacheFd[q])' = PageIn(cacheFd[q])
    <2>1. \A i : i = cacheFd[q] => PageIn(i)' = PageIn(i)
      BY <1>1, SamePage
    <2> QED
      BY <2>1
  <1> QED
    BY <1>2 DEF AbsSeen

\* A step changes what one request sees and answers.
LEMMA AbsFrame ==
  ASSUME TypeOK, SlotInv, ReadInv, slips = {}, slips' = {}, NEW p \in Proc, Step(p) \/ Die(p) \/ Kill(p)
  PROVE  /\ AbsSeen' = [AbsSeen EXCEPT ![p] = AbsSeen'[p]]
         /\ AbsAnswer' = [AbsAnswer EXCEPT ![p] = AbsAnswer'[p]]
  <1>1. ASSUME NEW q \in Proc \ {p} PROVE AbsSeen'[q] = AbsSeen[q]
    BY <1>1, Frame, SameSeen
  <1>2. ASSUME NEW q \in Proc \ {p} PROVE AbsAnswer'[q] = AbsAnswer[q]
    <2>1. pc'[q] = pc[q] /\ sent'[q] = sent[q]
      BY Frame
    <2>2. PageSent(q)' = PageSent(q)
      BY <2>1 DEF PageSent
    <2> QED
      BY <2>1, <2>2 DEF AbsAnswer
  <1>3. AbsSeen = [q \in Proc |-> AbsSeen[q]] /\ AbsSeen' = [q \in Proc |-> AbsSeen'[q]]
    BY DEF AbsSeen
  <1>4. AbsAnswer = [q \in Proc |-> AbsAnswer[q]] /\ AbsAnswer' = [q \in Proc |-> AbsAnswer'[q]]
    BY DEF AbsAnswer
  <1> QED
    BY <1>1, <1>2, <1>3, <1>4

\* The slot changes by rename() only.
LEMMA SameSlot ==
  ASSUME TypeOK, SlotInv, NEW p \in Proc, Step(p) \/ Die(p) \/ Kill(p), cacheName' = cacheName
  PROVE  AbsPage' = AbsPage
  <1>1. cacheName # NoFile => file'[cacheName] = file[cacheName]
    BY SlotUntouched
  <1>2. \A i : i = cacheName => PageIn(i)' = PageIn(i)
    BY <1>1, SamePage
  <1> QED
    BY <1>2 DEF AbsPage

\* Steps with no effect on what is promised.
LEMMA Quiet ==
  ASSUME TypeOK, SlotInv, ReadInv, slips = {}, slips' = {}, NEW p \in Proc, Step(p) \/ Die(p) \/ Kill(p),
         cacheName' = cacheName, cacheFd'[p] = cacheFd[p],
         pc[p] \notin {"exit", "done", "dead"}, pc'[p] \notin {"exit", "done", "dead"}
  PROVE  UNCHANGED Atomic!vars
  <1>1. AbsPage' = AbsPage /\ AbsSeen'[p] = AbsSeen[p]
    BY SameSlot, SameSeen
  <1>2. AbsAnswer'[p] = AbsAnswer[p]
    BY DEF AbsAnswer
  <1>3. AbsSeen = [AbsSeen EXCEPT ![p] = AbsSeen[p]] /\ AbsAnswer = [AbsAnswer EXCEPT ![p] = AbsAnswer[p]]
    BY DEF AbsSeen, AbsAnswer
  <1> QED
    BY <1>1, <1>2, <1>3, AbsFrame DEF Atomic!vars

\* What an atomic slot is before it is used.
LEMMA InitAbs == Init => Atomic!Init
  <1> SUFFICES ASSUME Init PROVE Atomic!Init
    OBVIOUS
  <1>1. AbsSeen = [p \in Proc |-> NoFile] /\ AbsAnswer = [p \in Proc |-> NoFile]
    BY DEF Init, AbsSeen, AbsAnswer, PageIn
  <1>2. Past \in Req /\ Past \in Inode /\ Last(Past) \in 1..MaxLen /\ MaxLen \in Nat
    BY Constants, ConstAssumption DEF Req, Inode
  <1>3. IsPageOf(Past, Past)
    <2>1. file[Past] = PageFile(Past, 0)
      BY <1>2, ConstAssumption DEF Init, Inode
    <2> QED
      BY <1>2, <2>1 DEF PageFile, IsPageOf
  <1>4. AbsPage \in {NoFile, Past}
    <2>1. CASE cacheName = NoFile
      BY <2>1 DEF AbsPage, PageIn
    <2>2. CASE cacheName = Past
      BY <1>2, <1>3, <2>2, PageInIs DEF AbsPage
    <2> QED
      BY <2>1, <2>2 DEF Init
  <1>5. (slips = {}) = TRUE
    BY DEF Init
  <1> QED
    BY <1>1, <1>4, <1>5 DEF Atomic!Init

\* open_slot(): the request looks at the slot, and forgets it when it is not its own.
LEMMA OpenSlotAbs ==
  ASSUME TypeOK, SlotInv, ReadInv, slips = {}, slips' = {}, NEW p \in Proc, OpenSlot(p) PROVE [Atomic!Next]_Atomic!vars
  <1> USE DEF At, Goto
  <1>0. /\ pc[p] = "open" /\ pc'[p] \in {"openlock", "readkey"} /\ cacheName' = cacheName
        /\ file' = file /\ Step(p) /\ cacheFd[p] = NoFile
    BY DEF OpenSlot, fsVars, Step, TypeOK, SlotInv, FdInv, ReadInv, Opened
  <1>1. CASE cacheName = NoFile
    <2>1. cacheFd'[p] = cacheFd[p]
      BY <1>1 DEF OpenSlot
    <2> QED
      BY <1>0, <2>1, Quiet
  <1>2. CASE cacheName # NoFile
    <2>1. cacheFd'[p] = cacheName
      BY <1>2 DEF OpenSlot, TypeOK
    <2>2. AbsSeen'[p] = AbsPage' /\ AbsPage' = AbsPage
      BY <1>0, <2>1, SameSlot DEF AbsSeen, AbsPage
    <2>3. AbsPage # NoFile
      BY <1>2, SlotPublished, PageKnown DEF AbsPage
    <2>4. AbsSeen[p] = NoFile /\ AbsAnswer[p] = NoFile /\ AbsAnswer'[p] = NoFile
      BY <1>0 DEF AbsSeen, AbsAnswer, PageIn
    <2>5. AbsSeen' = [AbsSeen EXCEPT ![p] = AbsPage] /\ AbsAnswer' = AbsAnswer
      BY <1>0, <2>2, <2>4, AbsFrame DEF AbsAnswer
    <2>6. Atomic!Look(p)
      BY <2>2, <2>3, <2>4, <2>5 DEF Atomic!Look
    <2> QED
      BY <2>6 DEF Atomic!Next
  <1> QED
    BY <1>1, <1>2

LEMMA ReadKeyAbs ==
  ASSUME TypeOK, SlotInv, ReadInv, slips = {}, slips' = {}, NEW p \in Proc, ReadKey(p) PROVE [Atomic!Next]_Atomic!vars
  <1> USE DEF At, Goto
  <1>0. /\ pc[p] = "readkey" /\ pc'[p] \in {"check", "openlock"} /\ cacheName' = cacheName
        /\ file' = file /\ Step(p) /\ cacheFd[p] # NoFile
    BY DEF ReadKey, Step, TypeOK, SlotInv, FdInv
  <1>1. CASE cacheFd' = cacheFd
    BY <1>0, <1>1, Quiet
  <1>2. CASE cacheFd' = [cacheFd EXCEPT ![p] = NoFile]
    <2>1. AbsSeen[p] # NoFile
      BY <1>0, PageKnown DEF AbsSeen, ReadInv, Opened, TypeOK
    <2>2. AbsSeen'[p] = NoFile /\ AbsAnswer[p] = NoFile /\ AbsAnswer'[p] = NoFile /\ AbsPage' = AbsPage
      BY <1>0, <1>2, SameSlot DEF AbsSeen, AbsAnswer, PageIn, TypeOK
    <2>3. AbsSeen' = [AbsSeen EXCEPT ![p] = NoFile] /\ AbsAnswer' = AbsAnswer
      BY <1>0, <2>2, AbsFrame DEF AbsAnswer
    <2>4. Atomic!Forget(p)
      BY <2>1, <2>2, <2>3 DEF Atomic!Forget
    <2> QED
      BY <2>4 DEF Atomic!Next
  <1> QED
    BY <1>1, <1>2 DEF ReadKey

\* rename(): the page of the request becomes the slot.
LEMMA ReplaceAbs ==
  ASSUME TypeOK, SlotInv, ReadInv, slips = {}, slips' = {}, NEW p \in Proc, Replace(p) PROVE [Atomic!Next]_Atomic!vars
  <1> USE DEF At, Goto
  <1>0. /\ pc[p] = "replace" /\ pc'[p] = "print" /\ Step(p) /\ file' = file
        /\ lockFd[p] \in Inode /\ lockFd[p] = lockName /\ lockName # NoFile
        /\ IsPageOf(lockFd[p], p) /\ p \in Req /\ cacheFd'[p] = lockFd[p]
    BY Distinct DEF Replace, Step, TypeOK, SlotInv, FdInv, LockInv, FillInv, Filled, Holding
  <1>1. cacheName' = lockName
    BY <1>0 DEF Replace
  <1>2. AbsPage' = p /\ AbsSeen'[p] = p
    <2>1. PageIn(lockFd[p]) = p
      BY <1>0, PageInIs
    <2>2. \A i : i = lockFd[p] => PageIn(i)' = p
      BY <1>0, <2>1, SamePage
    <2> QED
      BY <1>0, <1>1, <2>2 DEF AbsPage, AbsSeen
  <1>3. AbsSeen[p] # p
    <2>1. CASE cacheFd[p] = NoFile
      BY <1>0, <2>1, Distinct DEF AbsSeen, PageIn
    <2>2. CASE cacheFd[p] # NoFile
      <3>1. cacheFd[p] \in Inode /\ Published(cacheFd[p])
        BY <2>2 DEF ReadInv, Opened, TypeOK
      <3>2. cacheFd[p] # lockFd[p]
        BY <1>0, <3>1 DEF Published
      <3>3. file[cacheFd[p]].chunk[0] # <<p, 0>>
        BY <1>0, <3>1, <3>2 DEF ReadInv, OwnKey, Holding
      <3>4. IsPageOf(cacheFd[p], AbsSeen[p]) /\ Last(AbsSeen[p]) \in Nat
        BY <3>1, PageKnown, Distinct DEF AbsSeen
      <3> QED
        BY <3>3, <3>4 DEF IsPageOf
    <2> QED
      BY <2>1, <2>2
  <1>4. AbsAnswer[p] = NoFile /\ AbsAnswer'[p] = NoFile
    BY <1>0 DEF AbsAnswer
  <1>5. AbsSeen' = [AbsSeen EXCEPT ![p] = p] /\ AbsAnswer' = AbsAnswer
    BY <1>0, <1>2, <1>4, AbsFrame DEF AbsAnswer
  <1>6. Atomic!Store(p)
    BY <1>2, <1>3, <1>4, <1>5 DEF Atomic!Store
  <1> QED
    BY <1>6 DEF Atomic!Next

\* The last chunk is sent: the answer is the page the request has open.
LEMMA PrintEndAbs ==
  ASSUME TypeOK, SlotInv, ReadInv, slips = {}, slips' = {}, NEW p \in Proc, PrintEnd(p) PROVE [Atomic!Next]_Atomic!vars
  <1> USE DEF At, Goto
  <1>0. /\ pc[p] = "print" /\ pc'[p] = "exit" /\ Step(p) /\ file' = file /\ cacheName' = cacheName
        /\ cacheFd[p] # NoFile /\ cacheFd[p] \in Inode /\ cacheFd'[p] = NoFile /\ sent' = sent
    BY DEF PrintEnd, Step, TypeOK, SlotInv, FdInv
  <1>1. PICK r \in Req : Sending(p, r)
    BY <1>0 DEF ReadInv, Served
  <1>2. PICK s \in Req : KeyOf[s] = KeyOf[p] /\ sent[p] = Body(s)
    BY <1>0, OwnReads DEF Served
  <1>3. r = s
    <2>1. Last(s) \in Nat /\ Last(s) >= 1 /\ Len(sent[p]) = Last(s) /\ sent[p][1] = <<s, 1>>
      BY <1>2, Distinct DEF Body
    <2>2. sent[p][1] = <<r, 1>>
      BY <1>1, <2>1, Distinct DEF Sending
    <2> QED
      BY <2>1, <2>2
  <1>4. AbsSeen[p] = r
    BY <1>0, <1>1, PageInIs DEF AbsSeen, Sending
  <1>5. AbsAnswer[p] = NoFile /\ AbsAnswer'[p] = r
    <2>1. PageSent(p) = r
      BY <1>2, <1>3, PageSentIs
    <2>2. PageSent(p)' = PageSent(p)
      BY <1>0 DEF PageSent
    <2> QED
      BY <1>0, <2>1, <2>2 DEF AbsAnswer
  <1>6. AbsSeen'[p] = NoFile /\ AbsPage' = AbsPage /\ r # NoFile
    BY <1>0, SameSlot, Distinct DEF AbsSeen, PageIn
  <1>7. AbsSeen' = [AbsSeen EXCEPT ![p] = NoFile] /\ AbsAnswer' = [AbsAnswer EXCEPT ![p] = r]
    BY <1>0, <1>5, <1>6, AbsFrame
  <1>8. Atomic!Answer(p)
    BY <1>2, <1>3, <1>4, <1>5, <1>6, <1>7 DEF Atomic!Answer
  <1> QED
    BY <1>8 DEF Atomic!Next

\* A page that is not cached is the answer.
LEMMA DirectAbs ==
  ASSUME TypeOK, SlotInv, ReadInv, slips = {}, slips' = {}, NEW p \in Proc, Direct(p) PROVE [Atomic!Next]_Atomic!vars
  <1> USE DEF At, Goto
  <1>0. /\ pc[p] = "direct" /\ pc'[p] = "exit" /\ Step(p) /\ file' = file /\ cacheName' = cacheName
        /\ cacheFd[p] = NoFile /\ cacheFd'[p] = NoFile /\ ~redirected[p] /\ sent[p] = <<>> /\ p \in Req
    BY Distinct DEF Direct, Step, TypeOK, ReadInv, Opened, Served, fsVars, fdVars
  <1>1. sent'[p] = Body(p)
    <2>1. Body(p) \in Seq(Chunk)
      BY <1>0, BodyType
    <2> QED
      BY <1>0, <2>1 DEF Direct, TypeOK
  <1>2. AbsAnswer[p] = NoFile /\ AbsAnswer'[p] = p
    <2>1. PageSent(p)' = p
      <3>1. ASSUME NEW s \in Req, Body(p) = Body(s) PROVE s = p
        <4>1. Body(s)[1] = <<s, 1>> /\ Body(p)[1] = <<p, 1>>
          BY <1>0, Distinct DEF Body
        <4> QED
          BY <3>1, <4>1
      <3> QED
        BY <1>0, <1>1, <3>1 DEF PageSent
    <2> QED
      BY <1>0, <2>1 DEF AbsAnswer
  <1>3. AbsSeen[p] = NoFile /\ AbsSeen'[p] = NoFile /\ AbsPage' = AbsPage /\ p # NoFile
    BY <1>0, SameSlot, Distinct DEF AbsSeen, PageIn
  <1>4. AbsSeen' = [AbsSeen EXCEPT ![p] = NoFile] /\ AbsAnswer' = [AbsAnswer EXCEPT ![p] = p]
    BY <1>0, <1>2, <1>3, AbsFrame
  <1>5. Atomic!Answer(p)
    BY <1>2, <1>3, <1>4 DEF Atomic!Answer
  <1> QED
    BY <1>5 DEF Atomic!Next

\* A request that dies has given no answer, and leaves the slot as it is.
LEMMA LoseAbs ==
  ASSUME TypeOK, SlotInv, ReadInv, slips = {}, slips' = {}, NEW p \in Proc, Die(p) \/ Kill(p) PROVE [Atomic!Next]_Atomic!vars
  <1> USE DEF At, Goto
  <1>0. /\ pc[p] \notin {"exit", "done", "dead"} /\ pc'[p] = "dead" /\ cacheName' = cacheName
        /\ cacheFd'[p] = NoFile
    BY DEF Die, Kill, Gone, TypeOK
  <1>1. AbsAnswer[p] = NoFile /\ AbsAnswer'[p] = Lost /\ AbsSeen'[p] = NoFile /\ AbsPage' = AbsPage
    BY <1>0, SameSlot DEF AbsAnswer, AbsSeen, PageIn
  <1>2. AbsSeen' = [AbsSeen EXCEPT ![p] = NoFile] /\ AbsAnswer' = [AbsAnswer EXCEPT ![p] = Lost]
    BY <1>1, AbsFrame
  <1>3. Atomic!Lose(p)
    BY <1>1, <1>2 DEF Atomic!Lose
  <1> QED
    BY <1>3 DEF Atomic!Next

LEMMA ExitAbs ==
  ASSUME TypeOK, SlotInv, ReadInv, slips = {}, slips' = {}, NEW p \in Proc, Exit(p) PROVE UNCHANGED Atomic!vars
  <1>0. /\ pc[p] = "exit" /\ pc'[p] = "done" /\ cacheName' = cacheName /\ Step(p)
        /\ cacheFd[p] = NoFile /\ cacheFd'[p] = NoFile /\ sent' = sent
    BY DEF Exit, Gone, Step, At, Goto, TypeOK, ReadInv, Opened
  <1>1. AbsPage' = AbsPage /\ AbsSeen'[p] = AbsSeen[p]
    BY <1>0, SameSlot DEF AbsSeen, PageIn
  <1>2. AbsAnswer'[p] = AbsAnswer[p]
    <2>1. PageSent(p)' = PageSent(p)
      BY <1>0 DEF PageSent
    <2> QED
      BY <1>0, <2>1 DEF AbsAnswer
  <1>3. AbsSeen = [AbsSeen EXCEPT ![p] = AbsSeen[p]] /\ AbsAnswer = [AbsAnswer EXCEPT ![p] = AbsAnswer[p]]
    BY DEF AbsSeen, AbsAnswer
  <1> QED
    BY <1>0, <1>1, <1>2, <1>3, AbsFrame DEF Atomic!vars

\* The other system calls do not show.
LEMMA QuietAbs ==
  ASSUME TypeOK, SlotInv, ReadInv, slips = {}, slips' = {}, NEW p \in Proc,
         \/ CacheProcess(p) \/ CheckExpired(p) \/ OpenLock(p) \/ SetLock(p) \/ Truncate(p) \/ WriteKey(p)
         \/ CheckModified(p) \/ Redirect(p) \/ Fill(p) \/ Flush(p) \/ Discard(p) \/ PrintChunk(p)
  PROVE  UNCHANGED Atomic!vars
  <1> USE DEF At, Goto, fsVars, fdVars
  <1>0. Step(p) /\ pc \in [Proc -> Labels]
    BY DEF Step, TypeOK
  <1>1. CASE CacheProcess(p) \/ CheckExpired(p) \/ OpenLock(p)
    BY <1>0, <1>1, Quiet DEF CacheProcess, CheckExpired, OpenLock, Fallback
  <1>2. CASE SetLock(p) \/ Truncate(p) \/ WriteKey(p)
    BY <1>0, <1>2, Quiet DEF SetLock, Truncate, WriteKey, Fallback
  <1>3. CASE CheckModified(p) \/ Redirect(p) \/ Fill(p) \/ Flush(p)
    BY <1>0, <1>3, Quiet DEF CheckModified, Redirect, Fill, Flush
  <1>4. CASE Discard(p) \/ PrintChunk(p)
    BY <1>0, <1>4, Quiet DEF Discard, PrintChunk, Fallback
  <1> QED
    BY <1>1, <1>2, <1>3, <1>4

LEMMA NextAbs ==
  TypeInv /\ (slips = {} => SlotInv /\ ReadInv) /\ [Next]_vars => [Atomic!Next]_Atomic!vars
  <1> SUFFICES ASSUME TypeInv, slips = {} => SlotInv /\ ReadInv, [Next]_vars
               PROVE  [Atomic!Next]_Atomic!vars
    OBVIOUS
  <1>0. TypeOK
    BY DEF TypeInv
  <1>1. CASE slips' # {}
    BY <1>1 DEF Atomic!Next
  <1>2. CASE slips' = {}
    <2>0. slips = {} /\ SlotInv /\ ReadInv
      BY <1>0, <1>2, SlipsGrow
    <2>1. ASSUME NEW p \in Proc, Step(p) PROVE [Atomic!Next]_Atomic!vars
      BY <1>0, <1>2, <2>0, <2>1, OpenSlotAbs, ReadKeyAbs, ReplaceAbs, PrintEndAbs, DirectAbs, ExitAbs,
         QuietAbs DEF Step
    <2>2. ASSUME NEW p \in Proc, Die(p) \/ Kill(p) PROVE [Atomic!Next]_Atomic!vars
      BY <1>0, <1>2, <2>0, <2>2, LoseAbs
    <2>3. CASE UNCHANGED <<cacheName, file, pc, cacheFd, sent, slips>>
      BY <2>3 DEF Atomic!vars, AbsPage, AbsSeen, AbsAnswer, PageIn, PageSent, IsPageOf
    <2>4. ASSUME NEW p \in Proc PROVE ~OpenFilter(p)
      BY <1>2 DEF OpenFilter
    <2> QED
      BY <2>1, <2>2, <2>3, <2>4 DEF Next, Spin, Tick, Finished, vars, fsVars, fdVars
  <1> QED
    BY <1>1, <1>2

\* The system calls of process_slot() implement an atomic slot, whatever the
\* number of requests that share it, as long as the locks protect their files.
THEOREM SlotIsAtomic == Spec => ImplementsAtomicSlot
  BY NextAbs, ReadInvariant, InitAbs, PTL DEF Spec, ImplementsAtomicSlot, Atomic!Spec

-----------------------------------------------------------------------------
(* What is left in the slot *)

LEMMA InitRefresh == Init => RefreshInv
  <1> SUFFICES ASSUME Init PROVE LockedInv /\ NameInv /\ Settling /\ \A p \in Proc : Refreshing(p)
    BY DEF RefreshInv
  <1>1. LockedInv
    BY DEF Init, LockedInv
  <1>2. NameInv
    BY ConstAssumption DEF Init, NameInv, Req, Inode
  <1>3. Settling
    BY DEF Init, Settling, Tried, Fresh
  <1>4. \A p \in Proc : Refreshing(p)
    BY DEF Init, Refreshing, Waiting
  <1> QED
    BY <1>1, <1>2, <1>3, <1>4

\* While nothing fails, an action is its successful branch.
LEMMA Sound == ASSUME faults = 0, faults' = 0 PROVE ~Fault
  BY DEF Fault

\* The lock file that is to become the slot is neither the slot nor one that is
\* yet to be created.
LEMMA StepNames ==
  ASSUME TypeOK, NameInv, NEW p \in Proc, Step(p) PROVE NameInv'
  <1>0. /\ \A q \in Proc : pc'[q] \in Fresh => pc[q] \in Fresh
        /\ pc[p] = "openlock" /\ pc'[p] \in Fresh => lockName' = lockName
    <2>1. pc'[p] \in Fresh => pc[p] \in Fresh
      BY Names
    <2>2. pc[p] = "openlock" /\ pc'[p] \in Fresh => lockName' = lockName
      <3> USE DEF At, Goto, Fresh
      <3>1. pc[p] = "openlock" => OpenLock(p)
        BY DEF Step, CacheProcess, OpenSlot, ReadKey, CheckExpired, SetLock, Truncate, WriteKey,
               CheckModified, Redirect, Fill, Flush, Discard, Replace, PrintChunk, PrintEnd, Direct, Exit
      <3> QED
        BY <3>1 DEF OpenLock, Fallback, TypeOK
    <2> QED
      BY <2>1, <2>2, Frame
  <1>1. CASE cacheName' = cacheName /\ lockName' \in {lockName, NoFile}
    <2>1. cacheName' # NoFile => cacheName' # lockName'
      BY <1>1 DEF NameInv
    <2>2. ASSUME NEW q \in Proc, pc'[q] \in Fresh PROVE cacheName' # q /\ lockName' # q
      BY <1>0, <1>1, <2>2, Distinct DEF NameInv
    <2> QED
      BY <2>1, <2>2 DEF NameInv
  <1>2. CASE cacheName' = cacheName /\ pc[p] = "openlock" /\ lockName' = p
    <2>1. cacheName # p /\ p # NoFile
      BY <1>2, Distinct DEF NameInv, Fresh
    <2>2. \A q \in Proc : pc'[q] \in Fresh => q # p \/ lockName = p
      BY <1>0, <1>2
    <2>3. lockName # p
      BY <1>2 DEF NameInv, Fresh
    <2> QED
      BY <1>0, <1>2, <2>1, <2>2, <2>3 DEF NameInv
  <1>3. CASE lockName # NoFile /\ cacheName' = lockName /\ lockName' = NoFile
    BY <1>0, <1>3, Distinct DEF NameInv
  <1> QED
    BY <1>1, <1>2, <1>3, Names

\* A file that a process writes is as new as the step.
LEMMA Ages ==
  ASSUME TypeOK, NEW p \in Proc, Step(p), NEW i \in Inode
  PROVE  now' = now /\ (file'[i] = file[i] \/ file'[i].mtime = now)
  <1> USE DEF fsVars, fdVars
  <1>0. file \in [Inode -> File]
    BY DEF TypeOK
  <1>1. CASE OpenLock(p)
    BY <1>0, <1>1 DEF OpenLock, EmptyFile
  <1>2. CASE Truncate(p) \/ WriteKey(p) \/ Fill(p)
    BY <1>0, <1>2 DEF Truncate, WriteKey, Fill, Emptied, EmptyFile, Written
  <1>3. CASE ~(OpenLock(p) \/ Truncate(p) \/ WriteKey(p) \/ Fill(p))
    BY <1>3 DEF Step, CacheProcess, OpenSlot, ReadKey, CheckExpired, SetLock, CheckModified, Redirect,
                Flush, Discard, Replace, PrintChunk, PrintEnd, Direct, Exit, Gone
  <1> QED
    BY <1>1, <1>2, <1>3

\* A file that was in the slot does not come back to it.
LEMMA StaysRetired ==
  ASSUME TypeOK, NEW p \in Proc, Step(p), NEW s, Retired(s) PROVE Retired(s)'
  <1>1. \A q \in Proc : pc'[q] \in Fresh => pc[q] \in Fresh
    BY Names, Frame
  <1>2. s.ino # lockName'
    BY Names DEF Retired, Fresh
  <1> QED
    BY <1>1, <1>2 DEF Retired

\* An expired page that is no longer the slot does not become it again, nor does
\* a file written since then look like it.
LEMMA StaysChanged ==
  ASSUME TypeOK, NEW p \in Proc, Step(p), NEW s, Retired(s), s.mtime < now, s.mtime \in Nat,
         cacheName # NoFile, Stat(cacheName) # s
  PROVE  Stat(cacheName)' # s
  <1>1. CASE cacheName' = cacheName
    <2>1. CASE file'[cacheName] = file[cacheName]
      BY <1>1, <2>1 DEF Stat
    <2>2. CASE file'[cacheName].mtime = now
      <3>1. now \in Nat
        BY Constants DEF TypeOK
      <3> QED
        BY <1>1, <2>2, <3>1 DEF Stat
    <2> QED
      BY <2>1, <2>2, Ages DEF TypeOK
  <1>2. CASE cacheName' = lockName
    BY <1>2 DEF Stat, Retired
  <1> QED
    BY <1>1, <1>2, Names

\* A lock file goes when it becomes the slot or is found to be too late.
LEMMA LockGone ==
  ASSUME TypeOK, faults = 0, faults' = 0, NEW p \in Proc, Step(p), lockName # NoFile, lockName' = NoFile
  PROVE  pc[p] = "discard" \/ cacheName' = lockName
  <1> USE DEF At, fsVars, fdVars
  <1>1. CASE OpenLock(p)
    BY <1>1, Distinct DEF OpenLock
  <1>2. CASE Discard(p)
    BY <1>2 DEF Discard
  <1>3. CASE Replace(p)
    BY <1>3, Sound DEF Replace
  <1>4. CASE ~(OpenLock(p) \/ Discard(p) \/ Replace(p))
    BY <1>4 DEF Step, CacheProcess, OpenSlot, ReadKey, CheckExpired, SetLock, Truncate, WriteKey,
                CheckModified, Redirect, Fill, Flush, PrintChunk, PrintEnd, Direct, Exit, Gone
  <1> QED
    BY <1>1, <1>2, <1>3, <1>4

LEMMA StepLocked ==
  ASSUME TypeOK, LockedInv, faults = 0, faults' = 0, NEW p \in Proc, Step(p)
  PROVE  LockedInv'
  <1> USE DEF At, Goto, Holding, fsVars, fdVars
  <1> SUFFICES ASSUME NEW i \in Inode, owner'[i] # NoProc
               PROVE  pc'[owner'[i]] \in Holding /\ lockFd'[owner'[i]] = i
    BY DEF LockedInv
  <1>0. /\ pc \in [Proc -> Labels] /\ lockFd \in [Proc -> Inode \cup {NoFile}]
        /\ owner \in [Inode -> Proc \cup {NoProc}] /\ ~Fault /\ NoProc \notin Proc
        /\ owner[i] # NoProc => pc[owner[i]] \in Holding /\ lockFd[owner[i]] = i
    BY Sound, Distinct DEF TypeOK, LockedInv
  <1>1. owner'[i] = owner[i] \/ (owner'[i] = p /\ SetLock(p) /\ pc'[p] = "trunc" /\ lockFd'[p] = i)
    BY <1>0 DEF Step, CacheProcess, OpenSlot, ReadKey, CheckExpired, OpenLock, SetLock, Truncate, WriteKey,
                CheckModified, Redirect, Fill, Flush, Discard, Replace, PrintChunk, PrintEnd, Direct, Exit,
                Gone, Released, AllReleased
  <1>2. CASE owner'[i] = p /\ SetLock(p) /\ pc'[p] = "trunc" /\ lockFd'[p] = i
    BY <1>2
  <1>3. CASE owner'[i] = owner[i] /\ owner[i] # p
    BY <1>0, <1>3, Frame
  <1>4. CASE owner'[i] = owner[i] /\ owner[i] = p
    <2>1. pc[p] \in Holding /\ lockFd[p] = i
      BY <1>0, <1>4
    <2>2. CASE Discard(p) \/ Replace(p)
      BY <1>0, <1>4, <2>1, <2>2 DEF Discard, Replace, Released
    <2>3. CASE Truncate(p) \/ WriteKey(p) \/ CheckModified(p) \/ Redirect(p) \/ Fill(p) \/ Flush(p)
      BY <1>0, <1>4, <2>1, <2>3 DEF Truncate, WriteKey, CheckModified, Redirect, Fill, Flush
    <2>4. CASE ~(\/ Discard(p) \/ Replace(p) \/ Truncate(p) \/ WriteKey(p) \/ CheckModified(p)
                 \/ Redirect(p) \/ Fill(p) \/ Flush(p))
      BY <2>1, <2>4 DEF Step, CacheProcess, OpenSlot, ReadKey, CheckExpired, OpenLock, SetLock, PrintChunk,
                        PrintEnd, Direct, Exit
    <2> QED
      BY <2>2, <2>3, <2>4
  <1> QED
    BY <1>1, <1>2, <1>3, <1>4

\* A process comes to have called lock_slot() by opening the lock file.
LEMMA FirstTry ==
  ASSUME TypeOK, faults = 0, faults' = 0, NEW p \in Proc, Step(p), ~Tried(p), Tried(p)',
         \A q \in Proc : Refreshing(q)
  PROVE  OpenLock(p)
  <1> USE DEF At, Goto, Fresh, fsVars, fdVars
  <1>0. /\ pc \in [Proc -> Labels] /\ hit \in [Proc -> BOOLEAN] /\ sawExpired \in [Proc -> FileStat]
        /\ ~Fault /\ Caches(p)
        /\ pc[p] \in Fresh \ {"openlock"} => sawExpired[p] = NoStat
    BY Sound DEF TypeOK, Tried, Caches, Refreshing
  <1>1. CASE CacheProcess(p) \/ OpenSlot(p) \/ ReadKey(p)
    BY <1>0, <1>1 DEF CacheProcess, OpenSlot, ReadKey, Tried
  <1>2. CASE CheckExpired(p)
    <2>1. hit[p]
      BY <1>2 DEF CheckExpired, Refreshing
    <2> QED
      BY <1>0, <1>2, <2>1 DEF CheckExpired, Tried
  <1>3. CASE pc[p] \notin Fresh /\ hit' = hit /\ sawExpired' = sawExpired
    BY <1>0, <1>3 DEF Tried, Caches
  <1>4. CASE ~(CacheProcess(p) \/ OpenSlot(p) \/ ReadKey(p) \/ CheckExpired(p) \/ OpenLock(p))
    BY <1>3, <1>4 DEF Step, SetLock, Truncate, WriteKey, CheckModified, Redirect, Fill, Flush, Discard,
                Replace, PrintChunk, PrintEnd, Direct, Exit, Gone
  <1> QED
    BY <1>1, <1>2, <1>4

LEMMA StepSettling ==
  ASSUME TypeOK, LockedInv, Settling, \A q \in Proc : Refreshing(q), faults = 0, faults' = 0,
         NEW p \in Proc, Step(p)
  PROVE  Settling'
  <1> USE DEF At, Goto
  <1>0. /\ pc \in [Proc -> Labels] /\ lockFd \in [Proc -> Inode \cup {NoFile}] /\ ~Fault
        /\ lockName \in Inode \cup {NoFile} /\ p # NoFile
    BY Sound, Distinct DEF TypeOK
  <1>1. CASE OpenLock(p)
    <2>1. lockName' # NoFile /\ pc'[p] = "setlk" /\ lockFd'[p] = lockName'
      BY <1>0, <1>1 DEF OpenLock
    <2> QED
      BY <2>1 DEF Settling
  <1>2. CASE ~OpenLock(p)
    <2> SUFFICES ASSUME NEW q \in Proc, Tried(q)'
                 PROVE  /\ lockName' # NoFile =>
                             \E w \in Proc : pc'[w] \in Holding \cup {"setlk"} /\ lockFd'[w] = lockName'
                        /\ cacheName' = NoFile => lockName' # NoFile
      BY DEF Settling
    <2>1. Tried(q)
      <3>1. CASE q = p
        BY <1>2, <3>1, FirstTry
      <3>2. CASE q # p
        BY <3>2, Frame DEF Tried, Caches
      <3> QED
        BY <3>1, <3>2
    <2>2. lockName' \in {lockName, NoFile}
      <3>1. pc[p] = "openlock" => OpenLock(p)
        BY DEF Step, CacheProcess, OpenSlot, ReadKey, CheckExpired, SetLock, Truncate, WriteKey,
               CheckModified, Redirect, Fill, Flush, Discard, Replace, PrintChunk, PrintEnd, Direct, Exit
      <3> QED
        BY <1>2, <3>1, Names
    <2>3. ASSUME lockName' # NoFile
          PROVE  \E w \in Proc : pc'[w] \in Holding \cup {"setlk"} /\ lockFd'[w] = lockName'
      <3>1. lockName' = lockName /\ lockName # NoFile
        BY <2>2, <2>3
      <3>2. PICK w \in Proc : pc[w] \in Holding \cup {"setlk"} /\ lockFd[w] = lockName
        BY <2>1, <3>1 DEF Settling
      <3>3. CASE w # p
        BY <3>1, <3>2, <3>3, Frame
      <3>4. CASE w = p /\ pc[p] = "setlk"
        <4>1. SetLock(p)
          BY <3>4 DEF Step, CacheProcess, OpenSlot, ReadKey, CheckExpired, OpenLock, Truncate, WriteKey,
                 CheckModified, Redirect, Fill, Flush, Discard, Replace, PrintChunk, PrintEnd, Direct, Exit
        <4>2. CASE LockFree(lockFd[p])
          BY <1>0, <3>1, <3>2, <3>4, <4>1, <4>2 DEF SetLock, Holding
        <4>3. CASE ~LockFree(lockFd[p])
          <5>1. owner[lockName] # NoProc /\ lockName \in Inode /\ owner[lockName] \in Proc
            BY <1>0, <3>1, <3>2, <3>4, <4>3 DEF LockFree, TypeOK
          <5>2. pc[owner[lockName]] \in Holding /\ lockFd[owner[lockName]] = lockName
            BY <5>1 DEF LockedInv
          <5>3. owner[lockName] # p
            BY <3>4, <5>2 DEF Holding
          <5> QED
            BY <3>1, <5>1, <5>2, <5>3, Frame
        <4> QED
          BY <4>2, <4>3
      <3>5. CASE w = p /\ pc[p] \in Holding
        <4>1. CASE Discard(p) \/ Replace(p)
          BY <1>0, <3>1, <4>1 DEF Discard, Replace
        <4>2. CASE Truncate(p) \/ WriteKey(p) \/ CheckModified(p) \/ Redirect(p) \/ Fill(p) \/ Flush(p)
          BY <1>0, <3>1, <3>2, <3>5, <4>2
            DEF Truncate, WriteKey, CheckModified, Redirect, Fill, Flush, Holding, fdVars
        <4>3. CASE ~(\/ Discard(p) \/ Replace(p) \/ Truncate(p) \/ WriteKey(p) \/ CheckModified(p)
                     \/ Redirect(p) \/ Fill(p) \/ Flush(p))
          BY <3>5, <4>3 DEF Step, CacheProcess, OpenSlot, ReadKey, CheckExpired, OpenLock, SetLock,
                            PrintChunk, PrintEnd, Direct, Exit, Holding
        <4> QED
          BY <4>1, <4>2, <4>3
      <3> QED
        BY <3>2, <3>3, <3>4, <3>5
    <2>4. ASSUME cacheName' = NoFile PROVE lockName' # NoFile
      <3>1. cacheName = NoFile /\ lockName # NoFile
        BY <2>1, <2>4, Names DEF Settling
      <3>2. pc[p] # "discard"
        BY <3>1 DEF Refreshing
      <3> QED
        BY <2>4, <3>1, <3>2, LockGone
    <2> QED
      BY <2>3, <2>4
  <1> QED
    BY <1>1, <1>2

\* A process that was late for a page is remembered.
LEMMA StaysOvertaken ==
  ASSUME TypeOK, \A q \in Proc : Refreshing(q), NEW p \in Proc, Step(p),
         NEW r \in Proc, sawExpired[r] # NoStat
  PROVE  sawExpired'[r] = sawExpired[r]
  <1> USE DEF At, fdVars
  <1>1. CASE r # p
    BY <1>1, Frame
  <1>2. CASE r = p
    <2>1. ~CheckExpired(p)
      BY <1>2 DEF CheckExpired, Refreshing, Fresh
    <2> QED
      BY <1>2, <2>1 DEF Step, CacheProcess, OpenSlot, ReadKey, OpenLock, SetLock, Truncate, WriteKey,
                        CheckModified, Redirect, Fill, Flush, Discard, Replace, PrintChunk, PrintEnd,
                        Direct, Exit, Gone
  <1> QED
    BY <1>1, <1>2

\* What a process waits for that has found the slot expired and opened the lock file.
LEMMA StepOutcome ==
  ASSUME TypeOK, \A q \in Proc : Refreshing(q), faults = 0, faults' = 0, NEW p \in Proc, Step(p),
         NEW q \in Proc, sawExpired[q] # NoStat,
         Stat(cacheName) # sawExpired[q] \/ Overtaken(q) \/ lockName # NoFile
  PROVE  \/ Stat(cacheName)' # sawExpired'[q]
         \/ Overtaken(q)' \/ lockName' # NoFile
  <1>0. /\ sawExpired[q].mtime \in Nat /\ sawExpired[q].mtime < now /\ Retired(sawExpired[q])
        /\ cacheName # NoFile /\ sawExpired'[q] = sawExpired[q]
    <2>1. sawExpired[q] \in FileStat /\ 0..MaxTime \subseteq Nat /\ Refreshing(q)
      BY Constants DEF TypeOK
    <2>2. hit[q] /\ Retired(sawExpired[q]) /\ sawExpired[q].mtime < now
      BY <2>1 DEF Refreshing
    <2>3. cacheName # NoFile
      BY <2>1, <2>2 DEF Refreshing
    <2> QED
      BY <2>1, <2>2, <2>3, StaysOvertaken DEF FileStat
  <1>1. CASE Stat(cacheName) # sawExpired[q]
    BY <1>0, <1>1, StaysChanged
  <1>2. ASSUME NEW r \in Proc, sawExpired[r] \notin {NoStat, sawExpired[q]} PROVE Overtaken(q)'
    BY <1>0, <1>2, StaysOvertaken DEF Overtaken
  <1>3. CASE lockName # NoFile /\ lockName' = NoFile
    <2>1. CASE cacheName' = lockName
      BY <1>0, <2>1 DEF Stat, Retired
    <2>2. CASE pc[p] = "discard" /\ Stat(cacheName) = sawExpired[q]
      BY <1>2, <2>2 DEF Refreshing
    <2> QED
      BY <1>1, <1>3, <2>1, <2>2, LockGone
  <1> QED
    BY <1>1, <1>2, <1>3 DEF Overtaken

LEMMA OthersRefreshing ==
  ASSUME TypeOK, \A q \in Proc : Refreshing(q), faults = 0, faults' = 0, NEW p \in Proc, Step(p),
         NEW q \in Proc \ {p}
  PROVE  Refreshing(q)'
  <1>0. /\ pc'[q] = pc[q] /\ hit'[q] = hit[q] /\ st'[q] = st[q] /\ sawExpired'[q] = sawExpired[q]
        /\ Refreshing(q) /\ sawExpired[q].mtime \in Nat
    <2>1. /\ pc'[q] = pc[q] /\ hit'[q] = hit[q] /\ st'[q] = st[q]
          /\ sawExpired'[q] = sawExpired[q]
      BY Frame
    <2>2. sawExpired[q] \in FileStat /\ 0..MaxTime \subseteq Nat
      BY Constants DEF TypeOK
    <2> QED
      BY <2>1, <2>2 DEF FileStat
  <1>1. cacheName # NoFile => cacheName' # NoFile
    BY Names
  <1>2. \A s : Retired(s) => Retired(s)'
    BY StaysRetired
  <1>3. (pc[q] \in {"readkey", "check"} => Retired(st[q]))'
    BY <1>0, <1>2 DEF Refreshing
  <1>4. sawExpired[q] # NoStat => Retired(sawExpired[q])' /\ sawExpired'[q].mtime < now'
    <2>1. \E i \in Inode : TRUE
      BY Constants
    <2>2. now' = now
      BY <2>1, Ages
    <2> QED
      BY <1>0, <1>2, <2>2 DEF Refreshing
  <1>5. pc[q] = "discard" => Stat(cacheName)' # sawExpired[q]
    BY <1>0, StaysChanged DEF Refreshing
  <1>6. sawExpired[q] # NoStat =>
          \/ pc[q] = "openlock" \/ Stat(cacheName)' # sawExpired[q] \/ Overtaken(q)' \/ lockName' # NoFile
    BY <1>0, StepOutcome DEF Refreshing
  <1> QED
    BY <1>0, <1>1, <1>3, <1>4, <1>5, <1>6 DEF Refreshing, Caches

LEMMA OwnRefreshing ==
  ASSUME TypeOK, FdInv, NameInv, \A q \in Proc : Refreshing(q), faults = 0, faults' = 0,
         NEW p \in Proc, Step(p)
  PROVE  Refreshing(p)'
  <1> USE DEF At, Goto, Waiting, Fresh, fsVars, fdVars
  <1>0. /\ pc \in [Proc -> Labels] /\ hit \in [Proc -> BOOLEAN] /\ sawExpired \in [Proc -> FileStat]
        /\ st \in [Proc -> FileStat] /\ now \in Nat /\ ~Fault /\ Refreshing(p)
        /\ sawExpired[p].mtime \in Nat /\ st[p].mtime \in Nat
    BY Sound, Constants DEF TypeOK, FileStat
  <1>1. cacheName # NoFile => cacheName' # NoFile
    BY Names
  <1>2. \A s : Retired(s) => Retired(s)'
    BY StaysRetired
  <1>3. now' = now
    <2>1. \E i \in Inode : TRUE
      BY Constants
    <2> QED
      BY <2>1, Ages
  <1>4. ASSUME sawExpired[p] # NoStat, pc[p] # "openlock"
        PROVE  /\ sawExpired'[p] = sawExpired[p]
               /\ Stat(cacheName)' # sawExpired[p] \/ Overtaken(p)' \/ lockName' # NoFile
    BY <1>0, <1>4, StepOutcome, StaysOvertaken DEF Refreshing
  <1>5. CASE CacheProcess(p)
    BY <1>0, <1>5 DEF CacheProcess, Refreshing, Caches
  <1>6. CASE OpenSlot(p)
    <2>1. hit[p] = FALSE /\ hit' = hit /\ sawExpired' = sawExpired /\ sawExpired[p] = NoStat /\ Caches(p)
      BY <1>0, <1>6 DEF OpenSlot, FdInv, Refreshing
    <2>2. CASE pc'[p] = "openlock"
      BY <2>1, <2>2 DEF Refreshing, Caches
    <2>3. CASE cacheName # NoFile /\ st'[p] = Stat(cacheName) /\ pc'[p] = "readkey"
      <3>1. Retired(Stat(cacheName))
        BY <2>3 DEF Retired, Stat, NameInv
      <3>2. Retired(st[p])'
        BY <1>2, <2>3, <3>1
      <3> QED
        BY <1>1, <2>1, <2>3, <3>2 DEF Refreshing, Caches
    <2> QED
      BY <1>0, <1>6, <2>2, <2>3 DEF OpenSlot
  <1>7. CASE ReadKey(p)
    <2>1. /\ st' = st /\ sawExpired' = sawExpired /\ sawExpired[p] = NoStat /\ Caches(p) /\ ~hit[p]
          /\ cacheName # NoFile /\ Retired(st[p])
          /\ (hit'[p] /\ pc'[p] = "check") \/ (~hit'[p] /\ pc'[p] = "openlock")
      BY <1>0, <1>7 DEF ReadKey, FdInv, Refreshing
    <2> QED
      BY <1>1, <1>2, <2>1 DEF Refreshing, Caches
  <1>8. CASE CheckExpired(p)
    <2>1. /\ st' = st /\ hit' = hit /\ hit[p] /\ Caches(p) /\ cacheName # NoFile /\ Retired(st[p])
          /\ sawExpired[p] = NoStat
      BY <1>0, <1>8 DEF CheckExpired, Refreshing
    <2>2. CASE IsExpired(p) /\ sawExpired'[p] = st[p] /\ pc'[p] = "openlock"
      <3>1. st[p].mtime < now
        BY <1>0, <2>2, Distinct, ConstAssumption DEF IsExpired
      <3>2. st[p] # NoStat
        BY <2>1 DEF Retired, NoStat
      <3> QED
        BY <1>1, <1>2, <1>3, <2>1, <2>2, <3>1, <3>2 DEF Refreshing, Caches
    <2>3. CASE sawExpired'[p] = NoStat /\ pc'[p] = "print"
      BY <1>1, <2>1, <2>3 DEF Refreshing, Caches
    <2> QED
      BY <1>0, <1>8, <2>1, <2>2, <2>3 DEF CheckExpired
  <1>9. CASE OpenLock(p)
    <2>1. /\ st' = st /\ hit' = hit /\ sawExpired' = sawExpired /\ pc'[p] = "setlk" /\ lockName' # NoFile
      BY <1>0, <1>9, Distinct DEF OpenLock
    <2> QED
      BY <1>0, <1>1, <1>2, <1>3, <1>9, <2>1 DEF OpenLock, Refreshing, Caches
  <1>10. CASE pc[p] \notin Fresh /\ hit' = hit /\ sawExpired' = sawExpired
    <2>1. sawExpired[p] # NoStat => Retired(sawExpired[p])' /\ sawExpired'[p].mtime < now'
      BY <1>0, <1>2, <1>3, <1>10 DEF Refreshing
    <2>2. /\ pc'[p] \in Labels \ Fresh
          /\ pc'[p] \notin {"direct", "exit", "done", "dead"} \/ hit'[p] => Caches(p)
          /\ pc'[p] \in Waiting \cup {"discard"} => pc[p] \in Waiting /\ st' = st
          /\ pc'[p] \in {"modcheck", "discard"} => hit[p]
      BY <1>0, <1>10 DEF Step, CacheProcess, OpenSlot, ReadKey, CheckExpired, OpenLock, SetLock, Truncate,
                WriteKey, CheckModified, Redirect, Fill, Flush, Discard, Replace, PrintChunk, PrintEnd,
                Direct, Exit, Gone, Fallback, Refreshing, Labels
    <2>3. pc'[p] = "discard" => CheckModified(p) /\ IsModified(p)
      BY <1>0, <1>10 DEF Step, CacheProcess, OpenSlot, ReadKey, CheckExpired, OpenLock, SetLock, Truncate,
                WriteKey, CheckModified, Redirect, Fill, Flush, Discard, Replace, PrintChunk, PrintEnd,
                Direct, Exit, Gone, Fallback
    <2>4. pc'[p] = "discard" => sawExpired'[p] # NoStat /\ Stat(cacheName)' # sawExpired'[p]
      <3> SUFFICES ASSUME pc'[p] = "discard" PROVE sawExpired[p] # NoStat /\ Stat(cacheName)' # sawExpired[p]
        BY <1>10
      <3>1. hit[p] /\ cacheName # NoFile /\ sawExpired[p] = st[p] /\ sawExpired[p] # NoStat
        BY <1>0, <2>2 DEF Refreshing
      <3>2. Stat(cacheName) # st[p] /\ cacheName' = cacheName /\ file' = file
        BY <2>3, <3>1 DEF IsModified, CheckModified
      <3> QED
        BY <3>1, <3>2 DEF Stat
    <2>5. hit'[p] /\ pc'[p] \in Waiting => sawExpired'[p] = st'[p] /\ sawExpired'[p] # NoStat
      BY <1>0, <1>10, <2>2 DEF Refreshing
    <2>6. sawExpired'[p] # NoStat =>
            /\ hit'[p]
            /\ Stat(cacheName)' # sawExpired'[p] \/ Overtaken(p)' \/ lockName' # NoFile
      BY <1>0, <1>4, <1>10 DEF Refreshing
    <2>7. hit'[p] => cacheName' # NoFile
      BY <1>0, <1>1, <1>10 DEF Refreshing
    <2> QED
      BY <1>0, <1>10, <2>1, <2>2, <2>4, <2>5, <2>6, <2>7 DEF Refreshing, Caches
  <1>11. CASE ~(CacheProcess(p) \/ OpenSlot(p) \/ ReadKey(p) \/ CheckExpired(p) \/ OpenLock(p))
    BY <1>10, <1>11 DEF Step, SetLock, Truncate, WriteKey, CheckModified, Redirect, Fill, Flush, Discard,
                Replace, PrintChunk, PrintEnd, Direct, Exit, Gone
  <1> QED
    BY <1>5, <1>6, <1>7, <1>8, <1>9, <1>11

LEMMA FaultsGrow == TypeOK /\ [Next]_vars => faults' >= faults
  <1> SUFFICES ASSUME TypeOK, [Next]_vars PROVE faults' >= faults
    OBVIOUS
  <1>0. faults \in Nat /\ (Fault => faults' >= faults) /\ (NoFault => faults' >= faults)
    BY DEF TypeOK, Fault, NoFault
  <1>1. ASSUME NEW p \in Proc, Step(p) \/ Die(p) \/ Kill(p) PROVE Fault \/ NoFault
    BY <1>1 DEF Step, Die, Kill, CacheProcess, OpenSlot, ReadKey, CheckExpired, OpenLock, SetLock, Truncate,
                WriteKey, CheckModified, Redirect, Fill, Flush, Discard, Replace, PrintChunk, PrintEnd,
                Direct, Exit, NoFault
  <1> QED
    BY <1>0, <1>1 DEF Next, OpenFilter, Spin, Tick, Finished, vars

LEMMA NextRefresh == TypeInv /\ RefreshInv /\ [Next]_vars => RefreshInv'
  <1> SUFFICES ASSUME TypeInv, RefreshInv, [Next]_vars, faults' = 0
               PROVE  LockedInv' /\ NameInv' /\ Settling' /\ \A p \in Proc : Refreshing(p)'
    BY DEF RefreshInv
  <1>0. /\ TypeOK /\ FdInv /\ faults = 0
        /\ LockedInv /\ NameInv /\ Settling /\ \A p \in Proc : Refreshing(p)
    BY FaultsGrow DEF TypeInv, TypeOK, RefreshInv
  <1>1. ASSUME NEW p \in Proc, Step(p)
        PROVE  LockedInv' /\ NameInv' /\ Settling' /\ \A q \in Proc : Refreshing(q)'
    BY <1>0, <1>1, StepLocked, StepNames, StepSettling, OthersRefreshing, OwnRefreshing
  <1>2. ASSUME NEW p \in Proc PROVE ~Die(p) /\ ~Kill(p)
    BY <1>0, Sound DEF Die, Kill
  <1>3. CASE /\ UNCHANGED <<cacheName, lockName, file, pc, hit, fdVars, sawExpired>>
             /\ now' >= now /\ \A i \in Inode : owner'[i] \in {owner[i], NoProc}
    <2>1. LockedInv' /\ NameInv'
      BY <1>0, <1>3 DEF LockedInv, NameInv, fdVars
    <2>2. Settling'
      BY <1>0, <1>3 DEF Settling, Tried, Caches, fdVars
    <2>3. ASSUME NEW p \in Proc PROVE Refreshing(p)'
      <3>1. now \in Nat /\ now' >= now /\ sawExpired[p].mtime \in Nat /\ Refreshing(p)
        BY <1>0, <1>3, Constants DEF TypeOK, FileStat
      <3>2. sawExpired[p].mtime < now => sawExpired[p].mtime < now' \/ now' \notin Int
        BY <3>1
      <3>3. now' \in Int
        BY NextType DEF TypeInv, TypeOK
      <3> QED
        BY <1>3, <3>1, <3>2, <3>3 DEF Refreshing, Retired, Stat, Overtaken, Caches, fdVars
    <2> QED
      BY <2>1, <2>2, <2>3
  <1>4. CASE \E p \in Proc : OpenFilter(p)
    BY <1>0, <1>3, <1>4 DEF OpenFilter, Released, TypeOK
  <1>5. CASE Tick
    BY <1>0, <1>3, <1>5 DEF Tick, fsVars, TypeOK
  <1>6. CASE UNCHANGED vars
    BY <1>0, <1>3, <1>6 DEF vars, fsVars, TypeOK
  <1> QED
    BY <1>1, <1>2, <1>4, <1>5, <1>6 DEF Next, Spin, Finished

LEMMA RefreshInvariant == Spec => [](TypeInv /\ RefreshInv)
  <1>1. Spec => []TypeInv
    BY InitType, NextType, PTL DEF Spec
  <1> QED
    BY <1>1, InitRefresh, NextRefresh, PTL DEF Spec

\* An expired slot does not survive the requests that saw it expired, unless one
\* of them was late for an earlier page (process_slot()): for any number of
\* requests, whether or not the locks are kept.
THEOREM RefreshIsNotLost == Spec => []NoLostRefresh
  <1>1. TypeInv /\ RefreshInv => NoLostRefresh
    <2> SUFFICES ASSUME RefreshInv, AllOver, faults = 0, NEW p \in Proc, sawExpired[p] # NoStat
                 PROVE  cacheName # NoFile /\ (Stat(cacheName) # sawExpired[p] \/ Overtaken(p))
      BY DEF NoLostRefresh
    <2>1. \A q \in Proc : pc[q] \in {"done", "dead"}
      BY DEF AllOver, Over
    <2>2. hit[p] /\ Refreshing(p) /\ Settling
      BY DEF RefreshInv, Refreshing
    <2>3. Tried(p)
      BY <2>1, <2>2 DEF Tried, Refreshing, Fresh
    <2>4. lockName = NoFile
      BY <2>1, <2>2, <2>3 DEF Settling, Holding
    <2> QED
      BY <2>1, <2>2, <2>4 DEF Refreshing
  <1> QED
    BY <1>1, RefreshInvariant, PTL

\* When requests through the cache were served and nothing failed, the slot has a
\* page and no lock file is left, even one a dead process had left, whether or
\* not the locks are kept.
THEOREM SlotIsSettled == Spec => []SlotSettled
  <1>1. TypeInv /\ RefreshInv => SlotSettled
    <2> SUFFICES ASSUME RefreshInv, AllOver, faults = 0, NEW p \in Proc, Caches(p), ~hit[p]
                 PROVE  cacheName # NoFile /\ lockName = NoFile
      BY DEF SlotSettled
    <2>1. \A q \in Proc : pc[q] \in {"done", "dead"}
      BY DEF AllOver, Over
    <2>2. Tried(p) /\ Settling
      BY <2>1 DEF Tried, Fresh, RefreshInv
    <2> QED
      BY <2>1, <2>2 DEF Settling, Holding
  <1> QED
    BY <1>1, RefreshInvariant, PTL
=============================================================================
