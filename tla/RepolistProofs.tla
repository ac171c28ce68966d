--------------------------- MODULE RepolistProofs ---------------------------
(***************************************************************************)
(* Theorems about the cached repository list, for any number of requests,  *)
(* any time-to-live and any number of failures.                            *)
(***************************************************************************)
EXTENDS RepolistCache, TLAPS

TypeInv == TypeOK /\ OpenInv /\ Held

LEMMA Constants ==
  /\ Chunks \in Nat /\ Chunks > 0 /\ MaxTime \in Nat /\ MaxTree \in Nat /\ MaxFaults \in Nat
  /\ Past \notin Req /\ NoFile \notin Inode
  /\ Inode = Req \cup {Past}
  BY RepolistAssumption DEF Inode

LEMMA FaultType ==
  ASSUME faults \in 0..MaxFaults, Fault \/ NoFault
  PROVE  faults' \in 0..MaxFaults /\ faults' >= faults
  BY Constants DEF Fault, NoFault

LEMMA GrownType ==
  ASSUME TypeOK, NEW r \in Req, NEW n \in 0..Chunks
  PROVE  Grown(r, n) \in [Inode -> FileType]
  <1>1. r \in Inode /\ file \in [Inode -> FileType] /\ now \in 0..MaxTime
    BY Constants DEF TypeOK
  <1>2. file[r] \in [scan : NoScan..MaxTree, size : 0..Chunks, mtime : 0..MaxTime]
    BY <1>1 DEF FileType
  <1>3. [file[r] EXCEPT !.size = n, !.mtime = now]
          \in [scan : NoScan..MaxTree, size : 0..Chunks, mtime : 0..MaxTime]
    BY <1>1, <1>2
  <1> QED
    BY <1>1, <1>3 DEF Grown, FileType

LEMMA GrownFile ==
  ASSUME TypeOK, NEW r \in Req, NEW n
  PROVE  /\ \A i \in Inode : Grown(r, n)[i].scan = file[i].scan
         /\ \A i \in Inode \ {r} : Grown(r, n)[i] = file[i]
         /\ Grown(r, n)[r].size = n
  <1>1. r \in Inode /\ file \in [Inode -> [scan : NoScan..MaxTree, size : 0..Chunks, mtime : 0..MaxTime]]
    BY Constants DEF TypeOK, FileType
  <1>2. /\ [file[r] EXCEPT !.size = n, !.mtime = now].scan = file[r].scan
        /\ [file[r] EXCEPT !.size = n, !.mtime = now].size = n
    BY <1>1
  <1> QED
    BY <1>1, <1>2 DEF Grown

LEMMA InitType == Init => TypeInv
  BY Constants DEF Init, TypeInv, TypeOK, OpenInv, Held, Holders, FileType, NoScan, NoStat, NoList, Generating

LEMMA NextType == TypeInv /\ [Next]_vars => TypeInv'
  <1> SUFFICES ASSUME TypeOK, OpenInv, Held, [Next]_vars PROVE TypeOK' /\ OpenInv' /\ Held'
    BY DEF TypeInv
  <1> USE Constants
  <1>0. /\ rcName \in Inode \cup {NoFile} /\ file \in [Inode -> FileType]
        /\ fd \in [Req -> Inode \cup {NoFile}] /\ got \in [Req -> 0..Chunks]
        /\ st \in [Req -> [ino : Inode \cup {NoFile}, mtime : 0..MaxTime]]
        /\ repolist \in [Req -> [scan : NoScan..MaxTree, size : 0..Chunks]]
        /\ tree \in 0..MaxTree /\ now \in 0..MaxTime /\ faults \in 0..MaxFaults
    BY DEF TypeOK
  <1>p. /\ pc \in [Req -> {"stat", "open", "parse", "generate", "done", "dead"}]
        /\ gen \in [Req -> Generating \cup {"none", "end", "failed", "dead"}]
    BY DEF TypeOK
  <1>f. \A i \in Inode : file[i].scan \in NoScan..MaxTree /\ file[i].size \in 0..Chunks
                           /\ file[i].mtime \in 0..MaxTime
    BY <1>0 DEF FileType
  <1>1. ASSUME NEW r \in Req, StatRc(r) PROVE TypeOK' /\ OpenInv' /\ Held'
    <2>1. /\ pc' \in [Req -> {"stat", "open", "parse", "generate", "done", "dead"}]
         /\ gen' \in [Req -> Generating \cup {"none", "end", "failed", "dead"}]
      BY <1>1, <1>p DEF StatRc, Goto, GotoGen, Generating
    <2>2. st' \in [Req -> [ino : Inode \cup {NoFile}, mtime : 0..MaxTime]]
      BY <1>1, <1>0, <1>f DEF StatRc
    <2>3. OpenInv'
      BY <1>1, <1>0, <1>p DEF StatRc, OpenInv, Goto, TypeOK
    <2>4. Held'
      BY <1>1, <1>0, <1>p DEF StatRc, Held, Holders, GotoGen, LockAbsent
    <2> QED
      BY <1>1, <2>1, <2>2, <2>3, <2>4 DEF StatRc, TypeOK
  <1>2. ASSUME NEW r \in Req, OpenRc(r) PROVE TypeOK' /\ OpenInv' /\ Held'
    <2>1. /\ pc' \in [Req -> {"stat", "open", "parse", "generate", "done", "dead"}]
         /\ gen' \in [Req -> Generating \cup {"none", "end", "failed", "dead"}]
      BY <1>2, <1>p DEF OpenRc, Goto, GotoGen, Generating
    <2>2. fd' \in [Req -> Inode \cup {NoFile}]
      BY <1>2, <1>0, <1>f DEF OpenRc
    <2>3. faults' \in 0..MaxFaults
      BY <1>2, <1>0, FaultType DEF OpenRc
    <2>4. OpenInv'
      BY <1>2, <1>0, <1>p DEF OpenRc, OpenInv, Goto, TypeOK, Fault, NoFault
    <2>5. Held'
      BY <1>2, <1>0, <1>p DEF OpenRc, Held, Holders, GotoGen, LockAbsent
    <2> QED
      BY <1>2, <2>1, <2>2, <2>3, <2>4, <2>5 DEF OpenRc, TypeOK
  <1>3. ASSUME NEW r \in Req, ParseRc(r) PROVE TypeOK' /\ OpenInv' /\ Held'
    <2>1. /\ pc' \in [Req -> {"stat", "open", "parse", "generate", "done", "dead"}]
         /\ gen' \in [Req -> Generating \cup {"none", "end", "failed", "dead"}]
      BY <1>3, <1>p DEF ParseRc, Goto, GotoGen, Generating
    <2>2. got' \in [Req -> 0..Chunks]
      BY <1>3, <1>0, <1>f DEF ParseRc, OpenInv
    <2>3. OpenInv'
      BY <1>3, <1>0, <1>p DEF ParseRc, OpenInv, Goto, TypeOK
    <2>4. Held'
      BY <1>3, <1>0, <1>p DEF ParseRc, Held, Holders, GotoGen, LockAbsent
    <2> QED
      BY <1>3, <2>1, <2>2, <2>3, <2>4 DEF ParseRc, TypeOK
  <1>4. ASSUME NEW r \in Req, CheckAge(r) PROVE TypeOK' /\ OpenInv' /\ Held'
    <2>1. /\ pc' \in [Req -> {"stat", "open", "parse", "generate", "done", "dead"}]
         /\ gen' \in [Req -> Generating \cup {"none", "end", "failed", "dead"}]
      BY <1>4, <1>p DEF CheckAge, Goto, GotoGen, Generating
    <2>2. faults' \in 0..MaxFaults
      BY <1>4, <1>0, FaultType DEF CheckAge
    <2>3. repolist' \in [Req -> [scan : NoScan..MaxTree, size : 0..Chunks]]
      BY <1>4, <1>0, <1>f DEF CheckAge, OpenInv
    <2>4. OpenInv'
      BY <1>4, <1>0, <1>p, FaultType DEF CheckAge, OpenInv, Goto, TypeOK
    <2>5. Held'
      BY <1>4, <1>0, <1>p DEF CheckAge, Held, Holders, GotoGen, LockAbsent
    <2>6. fd' \in [Req -> Inode \cup {NoFile}]
      BY <1>4, <1>0 DEF CheckAge
    <2> QED
      BY <1>4, <2>1, <2>2, <2>3, <2>4, <2>5, <2>6 DEF CheckAge, TypeOK
  <1>5. ASSUME NEW r \in Req, ScanUncached(r) PROVE TypeOK' /\ OpenInv' /\ Held'
    <2>1. /\ pc' \in [Req -> {"stat", "open", "parse", "generate", "done", "dead"}]
         /\ gen' \in [Req -> Generating \cup {"none", "end", "failed", "dead"}]
      BY <1>5, <1>p DEF ScanUncached, Goto, GotoGen, Generating
    <2>2. repolist' \in [Req -> [scan : NoScan..MaxTree, size : 0..Chunks]]
      BY <1>5, <1>0, <1>f DEF ScanUncached, Scanned, NoScan
    <2>3. OpenInv'
      BY <1>5, <1>0, <1>p DEF ScanUncached, OpenInv, Goto, TypeOK
    <2>4. Held'
      BY <1>5, <1>0, <1>p DEF ScanUncached, Held, Holders, GotoGen, LockAbsent
    <2> QED
      BY <1>5, <2>1, <2>2, <2>3, <2>4 DEF ScanUncached, TypeOK
  <1>6. ASSUME NEW r \in Req, OpenLock(r) PROVE TypeOK' /\ OpenInv' /\ Held'
    <2>1. /\ pc' \in [Req -> {"stat", "open", "parse", "generate", "done", "dead"}]
         /\ gen' \in [Req -> Generating \cup {"none", "end", "failed", "dead"}]
      BY <1>6, <1>p DEF OpenLock, Goto, GotoGen, Generating
    <2>2. faults' \in 0..MaxFaults
      BY <1>6, <1>0, FaultType DEF OpenLock
    <2>3. file' \in [Inode -> FileType]
      BY <1>6, <1>0, <1>f DEF OpenLock, FileType, NoScan, LockAbsent
    <2>4. lockName' \in Req \cup {NoFile}
      BY <1>6, <1>0, <1>f DEF OpenLock, FileType, NoScan, LockAbsent, TypeOK
    <2>5. OpenInv'
      BY <1>6, <1>0, <1>p DEF OpenLock, Fault, NoFault, OpenInv, Goto, TypeOK
    <2>6. Held'
      BY <1>6, <1>0, <1>p DEF OpenLock, Held, Holders, GotoGen, LockAbsent
    <2> QED
      BY <1>6, <2>1, <2>2, <2>3, <2>4, <2>5, <2>6 DEF OpenLock, TypeOK
  <1>7. ASSUME NEW r \in Req, Scan(r) PROVE TypeOK' /\ OpenInv' /\ Held'
    <2>1. /\ pc' \in [Req -> {"stat", "open", "parse", "generate", "done", "dead"}]
         /\ gen' \in [Req -> Generating \cup {"none", "end", "failed", "dead"}]
      BY <1>7, <1>p DEF Scan, Goto, GotoGen, Generating
    <2>2. file' \in [Inode -> FileType]
      BY <1>7, <1>0, <1>f DEF Scan, FileType, Scanned, NoScan
    <2>3. repolist' \in [Req -> [scan : NoScan..MaxTree, size : 0..Chunks]]
      <3>1. [scan |-> tree, size |-> Chunks] \in [scan : NoScan..MaxTree, size : 0..Chunks]
        BY <1>0, <1>f DEF NoScan
      <3>2. repolist \in [Req -> [scan : NoScan..MaxTree, size : 0..Chunks]]
        BY <1>0 DEF TypeOK
      <3>3. UNCHANGED repolist \/ Scanned(r)
        BY <1>7 DEF Scan
      <3> QED
        BY <3>1, <3>2, <3>3 DEF Scanned
    <2>4. OpenInv'
      BY <1>7, <1>0, <1>p DEF Scan, OpenInv, Goto, TypeOK
    <2>5. Held'
      BY <1>7, <1>0, <1>p DEF Scan, Held, Holders, GotoGen, LockAbsent
    <2> QED
      BY <1>7, <2>1, <2>2, <2>3, <2>4, <2>5 DEF Scan, TypeOK
  <1>8. ASSUME NEW r \in Req, PrintRepolist(r) PROVE TypeOK' /\ OpenInv' /\ Held'
    <2>1. /\ pc' \in [Req -> {"stat", "open", "parse", "generate", "done", "dead"}]
         /\ gen' \in [Req -> Generating \cup {"none", "end", "failed", "dead"}]
      BY <1>8, <1>p DEF PrintRepolist, Goto, GotoGen, Generating
    <2>2. file' \in [Inode -> FileType]
      <3>1. file[r].size + 1 \in 0..Chunks
        BY <1>8, <1>f DEF PrintRepolist
      <3> QED
        BY <1>8, <3>1, GrownType DEF PrintRepolist
    <2>3. OpenInv'
      BY <1>8, <1>0, <1>p DEF PrintRepolist, OpenInv, Goto, TypeOK
    <2>4. Held'
      BY <1>8, <1>0, <1>p DEF PrintRepolist, Held, Holders, GotoGen, LockAbsent
    <2> QED
      BY <1>8, <2>1, <2>2, <2>3, <2>4 DEF PrintRepolist, TypeOK
  <1>9. ASSUME NEW r \in Req, Rename(r) PROVE TypeOK' /\ OpenInv' /\ Held'
    <2>1. /\ pc' \in [Req -> {"stat", "open", "parse", "generate", "done", "dead"}]
         /\ gen' \in [Req -> Generating \cup {"none", "end", "failed", "dead"}]
      BY <1>9, <1>p DEF Rename, Goto, GotoGen, Generating
    <2>2. faults' \in 0..MaxFaults
      BY <1>9, <1>0, FaultType DEF Rename
    <2>3. rcName' \in Inode \cup {NoFile}
      BY <1>9, <1>0, <1>f DEF Rename, TypeOK
    <2>4. lockName' \in Req \cup {NoFile}
      BY <1>9, <1>0, <1>f DEF Rename, TypeOK
    <2>5. OpenInv'
      BY <1>9, <1>0, <1>p DEF Rename, Fault, NoFault, OpenInv, Goto, TypeOK, Held, Holders
    <2>6. Held'
      BY <1>9, <1>0, <1>p DEF Rename, Held, Holders, GotoGen, LockAbsent
    <2> QED
      BY <1>9, <2>1, <2>2, <2>3, <2>4, <2>5, <2>6 DEF Rename, TypeOK
  <1>10. ASSUME NEW r \in Req, Close(r) PROVE TypeOK' /\ OpenInv' /\ Held'
    <2>1. /\ pc' \in [Req -> {"stat", "open", "parse", "generate", "done", "dead"}]
         /\ gen' \in [Req -> Generating \cup {"none", "end", "failed", "dead"}]
      BY <1>10, <1>p DEF Close, Goto, GotoGen, Generating
    <2>2. faults' \in 0..MaxFaults
      BY <1>10, <1>0, FaultType DEF Close
    <2>3. file' \in [Inode -> FileType]
      BY <1>10, <1>0, GrownType DEF Close, LastWritten
    <2>4. OpenInv'
      BY <1>10, <1>0, <1>p DEF Close, Fault, NoFault, OpenInv, Goto, TypeOK
    <2>5. Held'
      BY <1>10, <1>0, <1>p DEF Close, Held, Holders, GotoGen, LockAbsent
    <2> QED
      BY <1>10, <2>1, <2>2, <2>3, <2>4, <2>5 DEF Close, TypeOK
  <1>11. ASSUME NEW r \in Req, KillGenerator(r) PROVE TypeOK' /\ OpenInv' /\ Held'
    <2>1. /\ pc' \in [Req -> {"stat", "open", "parse", "generate", "done", "dead"}]
         /\ gen' \in [Req -> Generating \cup {"none", "end", "failed", "dead"}]
      BY <1>11, <1>p DEF KillGenerator, Goto, GotoGen, Generating
    <2>2. faults' \in 0..MaxFaults
      BY <1>11, <1>0, FaultType DEF KillGenerator
    <2>3. OpenInv'
      BY <1>11, <1>0, <1>p DEF KillGenerator, Fault, NoFault, OpenInv, Goto, TypeOK
    <2>4. Held'
      BY <1>11, <1>0, <1>p DEF KillGenerator, Held, Holders, GotoGen, LockAbsent
    <2> QED
      BY <1>11, <2>1, <2>2, <2>3, <2>4 DEF KillGenerator, TypeOK
  <1>12. CASE TreeChange
    BY <1>12 DEF TreeChange, TypeOK, OpenInv, Held, Holders
  <1>13. CASE Tick
    BY <1>13 DEF Tick, TypeOK, OpenInv, Held, Holders
  <1>14. CASE UNCHANGED vars
    BY <1>14 DEF TypeOK, OpenInv, Held, Holders, vars
  <1> QED
    BY <1>1, <1>2, <1>3, <1>4, <1>5, <1>6, <1>7, <1>8, <1>9, <1>10, <1>11, <1>12, <1>13, <1>14 DEF Next, Step, Finished

\* The type invariant for any number of requests.
THEOREM TypeCorrect == Spec => []TypeOK
  <1>1. TypeInv => TypeOK
    BY DEF TypeInv
  <1> QED
    BY <1>1, InitType, NextType, PTL DEF Spec

-----------------------------------------------------------------------------
(* The published list *)

SafeInv == TypeInv /\ LockInv /\ GenInv /\ ScanInv /\ SizeInv

\* The parts of the types that the steps below use.
LEMMA Types ==
  ASSUME TypeOK
  PROVE  /\ pc \in [Req -> {"stat", "open", "parse", "generate", "done", "dead"}]
         /\ gen \in [Req -> Generating \cup {"none", "end", "failed", "dead"}]
         /\ file \in [Inode -> FileType] /\ tree \in Int /\ faults \in Nat
         /\ rcName \in Inode \cup {NoFile} /\ lockName \in Req \cup {NoFile}
         /\ \A i \in Inode : file[i].scan \in Int
  BY Constants DEF TypeOK, FileType, NoScan

LEMMA InitSafe == Init => SafeInv
  <1> SUFFICES ASSUME Init PROVE SafeInv
    OBVIOUS
  <1>1. LockInv /\ GenInv
    BY Constants DEF Init, LockInv, Held, Holders, GenInv, Unpublished
  <1>2. ScanInv /\ SizeInv
    BY Constants DEF Init, ScanInv, SizeInv, NoScan
  <1> QED
    BY <1>1, <1>2, InitType DEF SafeInv

LEMMA NextLock == TypeInv /\ LockInv /\ GenInv /\ [Next]_vars => LockInv'
  <1> SUFFICES ASSUME TypeOK, Held', LockInv, GenInv, [Next]_vars PROVE LockInv'
    BY NextType DEF TypeInv
  <1>0. faults \in Nat /\ gen \in [Req -> Generating \cup {"none", "end", "failed", "dead"}]
        /\ NoFile \notin Req
    BY Types, Constants
  <1>1. ASSUME NEW r \in Req, StatRc(r) \/ OpenRc(r) \/ ParseRc(r) \/ ScanUncached(r)
        PROVE  LockInv'
    BY <1>0, <1>1 DEF StatRc, OpenRc, ParseRc, ScanUncached, LockInv, Holders, GenInv, GotoGen, Fault, NoFault
  <1>2. ASSUME NEW r \in Req, CheckAge(r) PROVE LockInv'
    BY <1>0, <1>2 DEF CheckAge, LockInv, Holders, GenInv, GotoGen, Fault, NoFault
  <1>3. ASSUME NEW r \in Req, OpenLock(r) \/ Rename(r) PROVE LockInv'
    BY <1>0, <1>3 DEF OpenLock, Rename, LockInv, Held, Holders, GotoGen, Fault, NoFault
  <1>4. ASSUME NEW r \in Req, Scan(r) \/ PrintRepolist(r) PROVE LockInv'
    BY <1>0, <1>4 DEF Scan, PrintRepolist, LockInv, Holders, GotoGen
  <1>5. ASSUME NEW r \in Req, Close(r) \/ KillGenerator(r) PROVE LockInv'
    BY <1>0, <1>5 DEF Close, KillGenerator, LockInv, Held, Holders, GotoGen, Fault, NoFault
  <1>6. CASE TreeChange \/ Tick \/ UNCHANGED vars
    BY <1>6 DEF TreeChange, Tick, vars, LockInv, Holders
  <1> QED
    BY <1>1, <1>2, <1>3, <1>4, <1>5, <1>6 DEF Next, Step, Finished

LEMMA NextGen == TypeInv /\ LockInv /\ GenInv /\ [Next]_vars => GenInv'
  <1> SUFFICES ASSUME TypeOK, Held, GenInv, [Next]_vars PROVE GenInv'
    BY DEF TypeInv
  <1>0. /\ pc \in [Req -> {"stat", "open", "parse", "generate", "done", "dead"}]
        /\ gen \in [Req -> Generating \cup {"none", "end", "failed", "dead"}]
        /\ NoFile \notin Req
    BY Types, Constants
  <1>1. ASSUME NEW r \in Req, StatRc(r) \/ OpenRc(r) \/ ParseRc(r) \/ CheckAge(r) \/ ScanUncached(r)
        PROVE  GenInv'
    BY <1>0, <1>1 DEF StatRc, OpenRc, ParseRc, CheckAge, ScanUncached, GenInv, Unpublished, Goto, GotoGen
  <1>2. ASSUME NEW r \in Req, OpenLock(r) \/ Scan(r) \/ PrintRepolist(r) \/ Close(r) PROVE GenInv'
    BY <1>0, <1>2 DEF OpenLock, Scan, PrintRepolist, Close, GenInv, Unpublished, GotoGen
  <1>3. ASSUME NEW r \in Req, Rename(r) PROVE GenInv'
    BY <1>0, <1>3 DEF Rename, GenInv, Unpublished, GotoGen, Held, Holders
  <1>4. ASSUME NEW r \in Req, KillGenerator(r) PROVE GenInv'
    BY <1>0, <1>4 DEF KillGenerator, GenInv, Unpublished, GotoGen, Generating
  <1>5. CASE TreeChange \/ Tick \/ UNCHANGED vars
    BY <1>5 DEF TreeChange, Tick, vars, GenInv
  <1> QED
    BY <1>1, <1>2, <1>3, <1>4, <1>5 DEF Next, Step, Finished

\* The list is only ever replaced by a newer scan.
LEMMA NextScan ==
  TypeInv /\ LockInv /\ GenInv /\ ScanInv /\ [Next]_vars =>
    ScanInv' /\ (rcName # NoFile /\ rcName' # rcName => file[rcName].scan <= file[rcName'].scan)
  <1> SUFFICES ASSUME TypeOK, Held, GenInv, ScanInv, [Next]_vars
               PROVE  ScanInv' /\ (rcName # NoFile /\ rcName' # rcName =>
                                     file[rcName].scan <= file[rcName'].scan)
    BY DEF TypeInv, LockInv
  <1>0. /\ gen \in [Req -> Generating \cup {"none", "end", "failed", "dead"}]
        /\ file \in [Inode -> FileType] /\ tree \in Int /\ rcName \in Inode \cup {NoFile}
        /\ \A i \in Inode : file[i].scan \in Int
    BY Types
  <1>c. NoFile \notin Inode /\ Past \notin Req /\ Inode = Req \cup {Past}
    BY Constants
  <1>1. ASSUME NEW r \in Req, StatRc(r) \/ OpenRc(r) \/ ParseRc(r) \/ CheckAge(r) \/ ScanUncached(r)
        PROVE  ScanInv' /\ rcName' = rcName
    BY <1>0, <1>1 DEF StatRc, OpenRc, ParseRc, CheckAge, ScanUncached, ScanInv, GotoGen
  <1>2. ASSUME NEW r \in Req, OpenLock(r) PROVE ScanInv' /\ rcName' = rcName
    <2>1. \A i \in Inode \ {r} : file'[i] = file[i]
      BY <1>0, <1>2 DEF OpenLock
    <2>2. file'[r] = file[r] \/ file'[r].scan = NoScan
      BY <1>0, <1>2, <1>c DEF OpenLock
    <2>3. rcName # r
      BY <1>2 DEF OpenLock, GenInv, Unpublished
    <2>4. tree >= NoScan /\ tree' = tree /\ rcName' = rcName
      BY <1>2 DEF OpenLock, TypeOK, NoScan
    <2>5. \A q \in Req : gen'[q] = "print" => q # r /\ gen[q] = "print"
      BY <1>0, <1>2 DEF OpenLock, GotoGen
    <2> QED
      BY <1>0, <1>c, <2>1, <2>2, <2>3, <2>4, <2>5 DEF ScanInv
  <1>3. ASSUME NEW r \in Req, Scan(r) PROVE ScanInv' /\ rcName' = rcName
    <2>1. \A i \in Inode \ {r} : file'[i] = file[i]
      BY <1>0, <1>3 DEF Scan
    <2>2. file'[r].scan = tree
      BY <1>0, <1>3, <1>c DEF Scan, FileType
    <2>3. rcName # r /\ tree' = tree /\ rcName' = rcName
      BY <1>3 DEF Scan, GenInv, Unpublished
    <2>4. \A q \in Req : gen'[q] = "print" => q = r \/ gen[q] = "print"
      BY <1>0, <1>3 DEF Scan, GotoGen
    <2> QED
      BY <1>0, <1>c, <2>1, <2>2, <2>3, <2>4 DEF ScanInv
  <1>4. ASSUME NEW r \in Req, PrintRepolist(r) \/ Close(r) PROVE ScanInv' /\ rcName' = rcName
    <2>1. \A i \in Inode : file'[i].scan = file[i].scan
      BY <1>4, GrownFile DEF PrintRepolist, Close, LastWritten
    <2>2. tree' = tree /\ rcName' = rcName
      BY <1>4 DEF PrintRepolist, Close
    <2>3. \A q \in Req : gen'[q] = "print" => gen[q] = "print"
      BY <1>0, <1>4 DEF PrintRepolist, Close, GotoGen
    <2> QED
      BY <1>0, <1>c, <2>1, <2>2, <2>3 DEF ScanInv
  <1>5. ASSUME NEW r \in Req, Rename(r)
        PROVE  ScanInv' /\ (rcName # NoFile /\ rcName' # rcName =>
                              file[rcName].scan <= file[rcName'].scan)
    <2>1. lockName = r /\ gen[r] = "print"
      BY <1>5 DEF Rename, Held, Holders
    <2>2. \A q \in Req : gen'[q] = "print" => q # r /\ gen[q] = "print" /\ lockName = q
      BY <1>0, <1>5, <2>1 DEF Rename, GotoGen, Held, Holders
    <2> QED
      BY <1>0, <1>5, <2>1, <2>2, <1>c DEF Rename, ScanInv
  <1>6. ASSUME NEW r \in Req, KillGenerator(r) PROVE ScanInv' /\ rcName' = rcName
    BY <1>0, <1>6 DEF KillGenerator, ScanInv, GotoGen
  <1>7. CASE TreeChange \/ Tick \/ UNCHANGED vars
    BY <1>0, <1>7 DEF TreeChange, Tick, vars, ScanInv
  <1> QED
    <2>1. CASE TreeChange \/ Tick \/ UNCHANGED vars
      BY <2>1, <1>7 DEF TreeChange, Tick, vars
    <2>2. CASE \E r \in Req : Step(r) \/ KillGenerator(r)
      BY <2>2, <1>1, <1>2, <1>3, <1>4, <1>5, <1>6 DEF Step
    <2> QED
      BY <2>1, <2>2 DEF Next, Finished

LEMMA NextSize == TypeInv /\ GenInv /\ SizeInv /\ [Next]_vars => SizeInv'
  <1> SUFFICES ASSUME TypeOK, GenInv, SizeInv, [Next]_vars PROVE SizeInv'
    BY DEF TypeInv
  <1>0. /\ gen \in [Req -> Generating \cup {"none", "end", "failed", "dead"}]
        /\ file \in [Inode -> FileType] /\ faults \in Nat
        /\ Past \notin Req /\ Inode = Req \cup {Past}
    BY Types, Constants
  <1>1. ASSUME NEW r \in Req, StatRc(r) \/ OpenRc(r) \/ ParseRc(r) \/ CheckAge(r) \/ ScanUncached(r)
        PROVE  SizeInv'
    BY <1>0, <1>1 DEF StatRc, OpenRc, ParseRc, CheckAge, ScanUncached, SizeInv, GotoGen, Fault, NoFault
  <1>2. ASSUME NEW r \in Req, OpenLock(r) \/ Rename(r) PROVE SizeInv'
    BY <1>0, <1>2 DEF OpenLock, Rename, SizeInv, GotoGen, Fault, NoFault
  <1>3. ASSUME NEW r \in Req, Scan(r) \/ PrintRepolist(r) PROVE SizeInv'
    BY <1>0, <1>3 DEF Scan, PrintRepolist, Grown, SizeInv, GotoGen
  <1>4. ASSUME NEW r \in Req, Close(r) PROVE SizeInv'
    <2>1. /\ \A i \in Inode \ {r} : file'[i] = file[i]
          /\ file'[r].size = Chunks \/ faults' > 0
      BY <1>0, <1>4, GrownFile DEF Close, LastWritten, Fault
    <2> QED
      BY <1>0, <1>4, <2>1 DEF Close, SizeInv, GotoGen, Fault, NoFault
  <1>5. ASSUME NEW r \in Req, KillGenerator(r) PROVE SizeInv'
    BY <1>0, <1>5 DEF KillGenerator, SizeInv, GotoGen, Fault, Generating
  <1>6. CASE TreeChange \/ Tick \/ UNCHANGED vars
    BY <1>6 DEF TreeChange, Tick, vars, SizeInv
  <1> QED
    BY <1>1, <1>2, <1>3, <1>4, <1>5, <1>6 DEF Next, Step, Finished

LEMMA NextSafe == SafeInv /\ [Next]_vars => SafeInv'
  BY NextType, NextLock, NextGen, NextScan, NextSize DEF SafeInv

\* The lock file belongs to one generator at a time, or to a failed one.
THEOREM LockIsHeld == Spec => []LockInv
  <1>1. SafeInv => LockInv
    BY DEF SafeInv
  <1> QED
    BY <1>1, InitSafe, NextSafe, PTL DEF Spec

\* An incomplete list is one that its generator is about to close.
THEOREM ListIsWhole == Spec => []RcWhole
  <1>1. SafeInv => RcWhole
    <2> SUFFICES ASSUME SafeInv, rcName # NoFile, file[rcName].size < Chunks
                 PROVE  rcName # Past /\ (gen[rcName] = "close" \/ faults > 0)
      BY DEF RcWhole
    <2>1. TypeOK /\ GenInv /\ SizeInv
      BY DEF SafeInv, TypeInv
    <2>2. rcName \in Req
      BY <2>1, Types, Constants DEF SizeInv
    <2>3. gen[rcName] \in {"close", "end", "dead"}
      BY <2>1, <2>2, Types DEF GenInv, Unpublished, Generating
    <2>4. file[rcName].size # Chunks
      BY Constants
    <2> QED
      BY <2>1, <2>2, <2>3, <2>4, Constants DEF SizeInv
  <1> QED
    BY <1>1, InitSafe, NextSafe, PTL DEF Spec

\* The cached list never goes back to an older scan, however many children
\* scan at the same time and whatever fails.
THEOREM ListNeverOlder == Spec => NeverOlder
  <1>1. SafeInv /\ [Next]_vars =>
          [rcName # NoFile /\ rcName' # rcName => file[rcName].scan <= file[rcName'].scan]_rcName
    BY NextScan DEF SafeInv
  <1> QED
    BY <1>1, InitSafe, NextSafe, PTL DEF Spec, NeverOlder

-----------------------------------------------------------------------------
(* What a request gets *)

\* The scan in a file does not change once the file has been the list.
LEMMA ScanKept ==
  ASSUME TypeOK, GenInv, [Next]_vars, NEW i \in Inode, i = Past \/ gen[i] \notin Unpublished
  PROVE  file'[i].scan = file[i].scan /\ (i = Past \/ gen'[i] \notin Unpublished)
  <1> USE DEF Unpublished
  <1>0. /\ pc \in [Req -> {"stat", "open", "parse", "generate", "done", "dead"}]
        /\ gen \in [Req -> Generating \cup {"none", "end", "failed", "dead"}]
        /\ file \in [Inode -> FileType] /\ Past \notin Req /\ Inode = Req \cup {Past}
    BY Types, Constants
  <1>1. ASSUME NEW r \in Req, StatRc(r) \/ OpenRc(r) \/ ParseRc(r) \/ CheckAge(r) \/ ScanUncached(r)
        PROVE  file'[i].scan = file[i].scan /\ (i = Past \/ gen'[i] \notin Unpublished)
    BY <1>0, <1>1 DEF StatRc, OpenRc, ParseRc, CheckAge, ScanUncached, GenInv, GotoGen
  <1>2. ASSUME NEW r \in Req, OpenLock(r) \/ Scan(r)
        PROVE  file'[i].scan = file[i].scan /\ (i = Past \/ gen'[i] \notin Unpublished)
    BY <1>0, <1>2 DEF OpenLock, Scan, GotoGen
  <1>3. ASSUME NEW r \in Req, PrintRepolist(r) \/ Close(r)
        PROVE  file'[i].scan = file[i].scan /\ (i = Past \/ gen'[i] \notin Unpublished)
    BY <1>0, <1>3, GrownFile DEF PrintRepolist, Close, LastWritten, GotoGen
  <1>4. ASSUME NEW r \in Req, Rename(r) \/ KillGenerator(r)
        PROVE  file'[i].scan = file[i].scan /\ (i = Past \/ gen'[i] \notin Unpublished)
    BY <1>0, <1>4 DEF Rename, KillGenerator, GotoGen
  <1>5. CASE TreeChange \/ Tick \/ UNCHANGED vars
    BY <1>5 DEF TreeChange, Tick, vars
  <1> QED
    BY <1>1, <1>2, <1>3, <1>4, <1>5 DEF Next, Step, Finished

\* The list stays there and is replaced by newer scans only.
LEMMA ListAdvances ==
  ASSUME TypeInv, LockInv, GenInv, ScanInv, [Next]_vars, rcName # NoFile
  PROVE  /\ rcName' # NoFile /\ file[rcName].scan <= file'[rcName'].scan
         /\ file[rcName].scan # NoScan => file'[rcName'].scan # NoScan
  <1>0. /\ TypeOK /\ rcName \in Inode /\ NoFile \notin Inode /\ Inode = Req \cup {Past}
        /\ TypeOK' /\ \A i \in Inode : file[i].scan \in Int /\ file[i].scan >= NoScan
    BY Constants, NextType DEF TypeInv, TypeOK, FileType, NoScan
  <1>1. CASE rcName' = rcName
    <2>1. rcName = Past \/ gen[rcName] \notin Unpublished
      BY <1>0 DEF GenInv
    <2>2. file'[rcName].scan = file[rcName].scan
      BY <1>0, <2>1, ScanKept
    <2> QED
      BY <1>0, <1>1, <2>2
  <1>2. CASE rcName' # rcName
    <2>1. rcName' = lockName /\ lockName # NoFile /\ file' = file
      BY <1>2 DEF Next, Step, StatRc, OpenRc, ParseRc, CheckAge, ScanUncached, OpenLock, Scan, PrintRepolist,
                  Rename, Close, KillGenerator, TreeChange, Tick, Finished, vars
    <2>2. file[rcName].scan <= file[rcName'].scan
      BY <1>2, NextScan
    <2>3. rcName' \in Inode
      BY <1>0, <2>1 DEF TypeOK
    <2> QED
      BY <1>0, <2>1, <2>2, <2>3 DEF NoScan
  <1> QED
    BY <1>1, <1>2

LEMMA WasStays ==
  ASSUME TypeInv, LockInv, GenInv, ScanInv, [Next]_vars, NEW i, Was(i)
  PROVE  i \in Inode /\ Was(i)' /\ file'[i].scan = file[i].scan
  <1>1. /\ TypeOK /\ i \in Inode /\ rcName \in Inode /\ rcName' \in Inode \cup {NoFile}
        /\ \A j \in Inode : file[j].scan \in Int /\ file'[j].scan \in Int
    BY Constants, NextType DEF TypeInv, TypeOK, FileType, NoScan, Was
  <1> QED
    BY <1>1, ScanKept, ListAdvances DEF Was

\* A request that takes no part in a step keeps what it has.
LEMMA AheadStays ==
  ASSUME TypeInv, LockInv, GenInv, ScanInv, [Next]_vars, NEW r \in Req, Ahead(r),
         pc'[r] = pc[r], st'[r] = st[r], fd'[r] = fd[r], forked'[r] = forked[r], repolist'[r] = repolist[r],
         pc[r] = "generate" => gen'[r] = gen[r]
  PROVE  Ahead(r)'
  <1>1. st[r].ino # NoFile => Was(st[r].ino)' /\ file'[st[r].ino].scan = file[st[r].ino].scan
    <2>1. \A i : i = st[r].ino /\ Was(i) => Was(i)' /\ file'[i].scan = file[i].scan
      BY WasStays
    <2> QED
      BY <2>1 DEF Ahead
  <1>2. pc[r] = "parse" /\ fd[r] # NoFile => Was(fd[r])' /\ file'[fd[r]].scan = file[fd[r]].scan
    <2>1. \A i : i = fd[r] /\ Was(i) => Was(i)' /\ file'[i].scan = file[i].scan
      BY WasStays
    <2> QED
      BY <2>1 DEF Ahead
  <1> QED
    BY <1>1, <1>2 DEF Ahead

LEMMA InitBehind == Init => BehindInv
  BY Constants DEF Init, BehindInv, Ahead, NoScan, NoStat

LEMMA NextBehind == SafeInv /\ BehindInv /\ [Next]_vars => BehindInv'
  <1> SUFFICES ASSUME SafeInv, BehindInv, [Next]_vars PROVE BehindInv'
    OBVIOUS
  <1>0. /\ pc \in [Req -> {"stat", "open", "parse", "generate", "done", "dead"}]
        /\ gen \in [Req -> Generating \cup {"none", "end", "failed", "dead"}]
        /\ file \in [Inode -> FileType] /\ tree \in Int /\ tree # NoScan /\ forked \in [Req -> BOOLEAN]
        /\ st \in [Req -> [ino : Inode \cup {NoFile}, mtime : 0..MaxTime]]
        /\ fd \in [Req -> Inode \cup {NoFile}]
        /\ repolist \in [Req -> [scan : NoScan..MaxTree, size : 0..Chunks]]
        /\ rcName \in Inode \cup {NoFile} /\ lockName \in Req \cup {NoFile}
        /\ NoFile \notin Inode /\ Inode = Req \cup {Past} /\ Past \notin Req
        /\ \A i \in Inode : file[i].scan \in Int
    BY Types, Constants DEF SafeInv, TypeInv, TypeOK, NoScan
  <1>a. TypeOK /\ TypeInv /\ Held /\ LockInv /\ GenInv /\ ScanInv
    BY DEF SafeInv, TypeInv
  <1>1. (rcName # NoFile => file[rcName].scan # NoScan)'
    <2>1. CASE rcName # NoFile
      BY <1>a, <2>1, ListAdvances DEF BehindInv
    <2>2. CASE rcName = NoFile /\ rcName' # NoFile
      <3>1. PICK r \in Req : Rename(r)
        BY <2>2 DEF Next, Step, StatRc, OpenRc, ParseRc, CheckAge, ScanUncached, OpenLock, Scan, PrintRepolist,
                    Close, KillGenerator, TreeChange, Tick, Finished, vars
      <3>2. rcName' = r /\ gen[r] = "print" /\ file' = file
        BY <1>a, <2>2, <3>1 DEF Rename, Held, Holders
      <3> QED
        BY <3>2 DEF BehindInv
    <2> QED
      BY <2>1, <2>2
  <1>2. ASSUME NEW r \in Req, gen'[r] = "print" PROVE file'[r].scan # NoScan
    <2>1. ASSUME NEW q \in Req, Scan(q) PROVE file'[r].scan # NoScan
      BY <1>0, <1>2, <2>1 DEF Scan, GotoGen, BehindInv, FileType
    <2>2. ASSUME NEW q \in Req, PrintRepolist(q) \/ Close(q) PROVE file'[r].scan # NoScan
      BY <1>0, <1>a, <1>2, <2>2, GrownFile DEF PrintRepolist, Close, LastWritten, GotoGen, BehindInv
    <2>3. ASSUME NEW q \in Req, OpenLock(q) PROVE file'[r].scan # NoScan
      BY <1>0, <1>2, <2>3 DEF OpenLock, GotoGen, BehindInv
    <2>4. ASSUME NEW q \in Req, StatRc(q) \/ OpenRc(q) \/ ParseRc(q) \/ CheckAge(q) \/ ScanUncached(q)
                                  \/ Rename(q) \/ KillGenerator(q)
          PROVE  file'[r].scan # NoScan
      BY <1>0, <1>2, <2>4 DEF StatRc, OpenRc, ParseRc, CheckAge, ScanUncached, Rename, KillGenerator,
                              GotoGen, BehindInv
    <2>5. CASE TreeChange \/ Tick \/ UNCHANGED vars
      BY <1>2, <2>5 DEF TreeChange, Tick, vars, BehindInv
    <2> QED
      BY <2>1, <2>2, <2>3, <2>4, <2>5 DEF Next, Step, Finished
  <1>3. ASSUME NEW r \in Req, Ahead(r), Step(r) \/ KillGenerator(r) PROVE Ahead(r)'
    <2> USE <1>0, <1>a
    <2>1. CASE StatRc(r)
      <3>1. CASE rcName = NoFile
        BY <1>3, <2>1, <3>1 DEF StatRc, Ahead, Goto, GotoGen, GenInv
      <3>2. CASE rcName # NoFile
        <4>1. Was(rcName)
          BY <3>2 DEF Was, GenInv, BehindInv
        <4>2. \A i : i = rcName => Was(i)'
          BY <4>1, WasStays
        <4>3. /\ pc'[r] = "open" /\ st'[r].ino = rcName /\ rcName # NoFile
              /\ fd'[r] = NoFile
          BY <1>3, <2>1, <3>2 DEF StatRc, Ahead, Goto
        <4> QED
          BY <4>2, <4>3 DEF Ahead
      <3> QED
        BY <3>1, <3>2
    <2>2. CASE OpenRc(r)
      <3>1. rcName # NoFile /\ Was(rcName)
        BY <2>2 DEF OpenRc, SafeInv, TypeInv, OpenInv, Was, GenInv, BehindInv
      <3>2. \A i : i = rcName => Was(i)'
        BY <3>1, WasStays
      <3>3. st[r].ino # NoFile /\ Was(st[r].ino) /\ \A i : i = st[r].ino => Was(i)'
        BY <1>3, <2>2, WasStays DEF Ahead, OpenRc
      <3>4. /\ pc'[r] = "parse" /\ fd'[r] \in {rcName, NoFile}
            /\ UNCHANGED <<st, file, forked, repolist, gen, rcName>>
        BY <1>3, <2>2 DEF OpenRc, Goto, Ahead
      <3>5. file[st[r].ino].scan <= file[rcName].scan
        BY <3>3 DEF Was
      <3> QED
        BY <3>2, <3>3, <3>4, <3>5 DEF Ahead
    <2>3. CASE ParseRc(r)
      <3>1. UNCHANGED <<pc, st, fd, forked, repolist, gen>>
        BY <2>3 DEF ParseRc
      <3> QED
        BY <1>3, <3>1, AheadStays
    <2>4. CASE CheckAge(r)
      <3>1. pc[r] = "parse" /\ pc'[r] = "done" /\ st' = st
        BY <2>4 DEF CheckAge, Goto
      <3>2. (st[r].ino # NoFile => Was(st[r].ino))'
        BY <1>3, <3>1, WasStays DEF Ahead
      <3> QED
        BY <3>1, <3>2 DEF Ahead
    <2>5. CASE ScanUncached(r)
      <3>1. pc[r] = "generate" /\ pc'[r] = "done" /\ st' = st /\ st[r].ino = NoFile
        BY <1>3, <2>5 DEF ScanUncached, Goto, Ahead
      <3> QED
        BY <3>1 DEF Ahead
    <2>6. CASE OpenLock(r) \/ PrintRepolist(r) \/ Rename(r) \/ Close(r)
      <3>1. /\ UNCHANGED <<pc, st, fd, forked, repolist>>
            /\ gen'[r] \in {"print", "close", "end"} => gen[r] \in {"print", "close"}
            /\ gen'[r] # "none"
        BY <2>6 DEF OpenLock, PrintRepolist, Rename, Close, GotoGen
      <3>2. CASE pc[r] # "generate"
        BY <1>3, <3>1, <3>2, AheadStays
      <3>3. CASE pc[r] = "generate"
        BY <1>3, <3>1, <3>3 DEF Ahead
      <3> QED
        BY <3>2, <3>3
    <2>7. CASE Scan(r)
      <3>1. /\ UNCHANGED <<pc, st, fd, forked>> /\ gen'[r] = "print" /\ gen[r] = "scan"
            /\ forked[r] => repolist' = repolist
            /\ ~forked[r] => repolist'[r].scan = tree /\ repolist'[r].size = Chunks
        BY <2>7 DEF Scan, GotoGen, Scanned
      <3>2. CASE forked[r]
        BY <1>3, <3>1, <3>2, AheadStays DEF Ahead
      <3>3. CASE ~forked[r] /\ st[r].ino = NoFile
        BY <1>3, <3>1, <3>3 DEF Ahead, GenInv
      <3>4. CASE ~forked[r] /\ st[r].ino # NoFile
        <4>1. Was(st[r].ino) /\ st[r].ino \in Inode
          BY <1>3, <3>4 DEF Ahead, Was
        <4>2. \A i : i = st[r].ino => Was(i)' /\ file'[i].scan = file[i].scan
          BY <4>1, WasStays
        <4>3. (st[r].ino # NoFile => Was(st[r].ino))'
          BY <3>1, <4>2
        <4>4. file'[st[r].ino].scan <= tree
          BY <4>1, <4>2 DEF ScanInv
        <4> QED
          BY <1>3, <3>1, <3>4, <4>3, <4>4 DEF Ahead, GenInv
      <3> QED
        BY <3>2, <3>3, <3>4
    <2>8. CASE KillGenerator(r)
      <3>1. /\ UNCHANGED <<st, fd, forked, repolist>> /\ gen'[r] = "dead"
            /\ pc'[r] = pc[r] \/ pc'[r] = "dead"
            /\ forked[r] => pc'[r] = pc[r]
        BY <2>8 DEF KillGenerator, GotoGen
      <3>2. CASE pc'[r] = pc[r] /\ pc[r] # "generate"
        BY <1>3, <3>1, <3>2, AheadStays
      <3>3. CASE pc'[r] = "dead"
        <4>1. st[r].ino # NoFile => \A i : i = st[r].ino => Was(i)'
          BY <1>3, WasStays DEF Ahead
        <4> QED
          BY <3>1, <3>3, <4>1 DEF Ahead
      <3>4. CASE pc[r] = "generate"
        BY <1>3, <2>8, <3>3, <3>4 DEF Ahead, KillGenerator
      <3> QED
        BY <3>1, <3>2, <3>3, <3>4
    <2> QED
      BY <1>3, <2>1, <2>2, <2>3, <2>4, <2>5, <2>6, <2>7, <2>8 DEF Step
  <1>4. ASSUME NEW q \in Req, Step(q) \/ KillGenerator(q), NEW r \in Req \ {q}
        PROVE  UNCHANGED <<pc[r], st[r], fd[r], forked[r], repolist[r], gen[r]>>
    <2> USE <1>0 DEF Goto, GotoGen
    <2>1. CASE StatRc(q) \/ OpenRc(q) \/ ParseRc(q) \/ CheckAge(q)
      BY <2>1 DEF StatRc, OpenRc, ParseRc, CheckAge
    <2>2. CASE ScanUncached(q) \/ OpenLock(q) \/ Scan(q)
      BY <2>2 DEF ScanUncached, OpenLock, Scan, Scanned
    <2>3. CASE PrintRepolist(q) \/ Rename(q) \/ Close(q) \/ KillGenerator(q)
      BY <2>3 DEF PrintRepolist, Rename, Close, KillGenerator
    <2> QED
      BY <1>4, <2>1, <2>2, <2>3 DEF Step
  <1>5. ASSUME NEW r \in Req PROVE Ahead(r)'
    <2>1. Ahead(r)
      BY DEF BehindInv
    <2>2. CASE Step(r) \/ KillGenerator(r)
      BY <1>3, <2>1, <2>2
    <2>3. CASE UNCHANGED <<pc[r], st[r], fd[r], forked[r], repolist[r], gen[r]>>
      BY <1>a, <2>1, <2>3, AheadStays
    <2> QED
      BY <1>4, <2>2, <2>3 DEF Next, TreeChange, Tick, Finished, vars
  <1> QED
    BY <1>1, <1>2, <1>5 DEF BehindInv

\* A file that was the list once is whole, unless its generator has yet to close it.
LEMMA WholeOrEarly ==
  ASSUME SafeInv, NEW i, Was(i)
  PROVE  file[i].size = Chunks \/ (i \in Req /\ gen[i] = "close") \/ faults > 0
  <1>1. TypeOK /\ SizeInv
    BY DEF SafeInv, TypeInv
  <1>2. i \in Req => gen[i] \in Generating \cup {"none", "end", "failed", "dead"}
    BY <1>1, Types
  <1> QED
    BY <1>1, <1>2 DEF Was, SizeInv, Unpublished, Generating

\* Every request works with a list that is not older than the one that was cached
\* when it looked (process_cached_repolist()), whichever of the concurrent
\* generators wins, and with all of it unless it read the file before its generator
\* had closed it; or something failed.
THEOREM ListNeverBehind == Spec => NeverBehind
  <1>1. ASSUME SafeInv, BehindInv, [Next]_vars, NEW r \in Req, pc[r] # "done", pc'[r] = "done"
        PROVE  \/ st[r].ino # NoFile /\ fd[r] = NoFile /\ faults > 0
               \/ /\ repolist'[r].scan >= (IF st[r].ino = NoFile THEN 0 ELSE file[st[r].ino].scan)
                  /\ \/ repolist'[r].size = Chunks
                     \/ fd[r] \in Req /\ gen[fd[r]] = "close"
                     \/ faults > 0
    <2>0. /\ TypeOK /\ OpenInv /\ Ahead(r) /\ pc \in [Req -> {"stat", "open", "parse", "generate", "done", "dead"}]
          /\ repolist \in [Req -> [scan : NoScan..MaxTree, size : 0..Chunks]]
          /\ tree \in 0..MaxTree /\ \A i \in Inode : file[i].scan \in NoScan..MaxTree
      BY <1>1 DEF SafeInv, TypeInv, BehindInv, TypeOK, FileType
    <2>1. CheckAge(r) \/ ScanUncached(r)
      <3>1. ASSUME NEW q \in Req, Step(q) \/ KillGenerator(q) PROVE CheckAge(r) \/ ScanUncached(r)
        BY <1>1, <2>0, <3>1 DEF Step, StatRc, OpenRc, ParseRc, CheckAge, ScanUncached, OpenLock, Scan,
                                PrintRepolist, Rename, Close, KillGenerator, Goto
      <3> QED
        BY <1>1, <3>1 DEF Next, TreeChange, Tick, Finished, vars
    <2>2. CASE CheckAge(r) /\ fd[r] = NoFile
      BY <2>0, <2>2 DEF CheckAge, OpenInv, Ahead
    <2>3. CASE CheckAge(r) /\ fd[r] # NoFile
      <3>1. Was(fd[r]) /\ st[r].ino # NoFile /\ file[st[r].ino].scan <= file[fd[r]].scan
        BY <2>0, <2>3 DEF CheckAge, Ahead
      <3>2. /\ repolist'[r].scan = file[fd[r]].scan
            /\ repolist'[r].size = file[fd[r]].size
        BY <2>0, <2>3 DEF CheckAge
      <3>3. fd[r] \in Inode /\ Was(st[r].ino) /\ st[r].ino \in Inode
        BY <2>0, <3>1, Constants DEF Was, Ahead
      <3>4. file[fd[r]].size = Chunks \/ (fd[r] \in Req /\ gen[fd[r]] = "close") \/ faults > 0
        BY <1>1, <3>1, WholeOrEarly
      <3> QED
        BY <2>0, <3>1, <3>2, <3>3, <3>4
    <2>4. CASE ScanUncached(r)
      <3>1. st[r].ino = NoFile /\ repolist'[r].size = Chunks /\ repolist'[r].scan \in 0..MaxTree
        <4>1. CASE gen[r] = "end" /\ UNCHANGED repolist
          <5>1. repolist[r].scan # NoScan /\ repolist[r].size = Chunks /\ st[r].ino = NoFile
            BY <2>0, <2>4, <4>1 DEF ScanUncached, Ahead
          <5>2. repolist[r].scan \in NoScan..MaxTree
            BY <2>0
          <5> QED
            BY <4>1, <5>1, <5>2, Constants DEF NoScan
        <4>2. CASE Scanned(r)
          BY <2>0, <2>4, <4>2 DEF ScanUncached, Ahead, Scanned
        <4> QED
          BY <2>4, <4>1, <4>2 DEF ScanUncached
      <3> QED
        BY <3>1, Constants
    <2> QED
      BY <2>1, <2>2, <2>3, <2>4
  <1>2. SafeInv /\ BehindInv /\ [Next]_vars =>
          [\A r \in Req : pc[r] # "done" /\ pc'[r] = "done" =>
             \/ st[r].ino # NoFile /\ fd[r] = NoFile /\ faults > 0
             \/ /\ repolist'[r].scan >= (IF st[r].ino = NoFile THEN 0 ELSE file[st[r].ino].scan)
                /\ \/ repolist'[r].size = Chunks
                   \/ fd[r] \in Req /\ gen[fd[r]] = "close"
                   \/ faults > 0]_pc
    BY <1>1
  <1> QED
    BY <1>2, InitBehind, NextBehind, InitSafe, NextSafe, PTL DEF Spec, NeverBehind
=============================================================================
