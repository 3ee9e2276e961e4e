--------------------------- MODULE FileLockProofs ---------------------------
(* What TLAPS proves of the write lock, for any processes and instances.   *)
EXTENDS FileLock, TLAPS

\* What a lock file becomes is a lock file.
LEMMA LockFileTypes ==
  /\ \A i \in Instances :
        [owner |-> i, written |-> FALSE, old |-> FALSE, left |-> FALSE] \in LockFiles
  /\ \A l \in LockFiles : /\ [l EXCEPT !.written = TRUE] \in LockFiles
                          /\ [l EXCEPT !.old = TRUE] \in LockFiles
                          /\ [l EXCEPT !.left = TRUE] \in LockFiles
BY DEF LockFiles

\* A lock file just created is its creator's, empty and young.
LEMMA CreatedLock ==
  ASSUME NEW i \in Instances, Create(i), ~Exists
  PROVE  /\ lockFile' \in LockFiles
         /\ OwnFile(i)' /\ ~lockFile'.written /\ ~lockFile'.old /\ ~lockFile'.left
<1>1. lockFile' = [owner |-> i, written |-> FALSE, old |-> FALSE, left |-> FALSE]
  BY DEF Create
<1>2. lockFile' \in LockFiles
  BY <1>1, LockFileTypes
<1>3. lockFile' # NoLock
  BY <1>2, LockAssumption
<1>4. lockFile'.owner = i /\ ~lockFile'.written /\ ~lockFile'.old /\ ~lockFile'.left
  BY <1>1
<1>. QED
  BY <1>2, <1>3, <1>4 DEF OwnFile, Exists

\* Every variable keeps its type: an instance is always at one of the labelled calls.
THEOREM LockTypeCorrect == Spec => []TypeOK
<1>. USE LockAssumption DEF TypeOK, Exists, Content, LockFiles, Labels, Goto, Quiet,
         Acquiring, Releasing, Holding, AfterRelease, OwnFile
<1>1. ASSUME Init PROVE TypeOK
  <2>1. pc \in [Instances -> Labels] /\ readPid \in [Instances -> Pids \union {NaN}]
    BY <1>1 DEF Init
  <2>2. writing \subseteq Instances /\ alive \subseteq Pids
    BY <1>1 DEF Init
  <2>3. crashes \in 0..MaxCrashes /\ expiries \in 0..MaxExpiries
    BY <1>1 DEF Init
  <2>4. contended \in BOOLEAN
    BY <1>1 DEF Init
  <2>. QED
    BY <1>1, <2>1, <2>2, <2>3, <2>4 DEF Init
<1>2. TypeOK /\ [Next]_vars => TypeOK'
  <2>. SUFFICES ASSUME TypeOK, [Next]_vars PROVE TypeOK'
    OBVIOUS
  <2>1. ASSUME NEW i \in Instances, BeginAcquire(i) PROVE TypeOK'
    BY <2>1 DEF BeginAcquire
  <2>2. ASSUME NEW i \in Instances, ReadFile(i) PROVE TypeOK'
    BY <2>2 DEF ReadFile
  <2>3. ASSUME NEW i \in Instances, Stat(i) PROVE TypeOK'
    BY <2>3 DEF Stat
  <2>4. ASSUME NEW i \in Instances, Unlink(i) PROVE TypeOK'
    BY <2>4 DEF Unlink
  <2>5. ASSUME NEW i \in Instances, UnlinkQuietly(i) PROVE TypeOK'
    BY <2>5 DEF UnlinkQuietly
  <2>6. ASSUME NEW i \in Instances, Create(i) PROVE TypeOK'
    <3>1. lockFile' \in LockFiles \union {NoLock}
      <4>1. CASE Exists
        BY <2>6, <4>1 DEF Create
      <4>2. CASE ~Exists
        BY <2>6, <4>2, CreatedLock
      <4>. QED
        BY <4>1, <4>2
    <3>2. pc' \in [Instances -> Labels]
      BY <2>6 DEF Create
    <3>. QED
      BY <2>6, <3>1, <3>2 DEF Create
  <2>7. ASSUME NEW i \in Instances, AcquiredForPass(i) PROVE TypeOK'
    BY <2>7 DEF AcquiredForPass, Acquired
  <2>8. ASSUME NEW i \in Instances, AcquiredForIndexFiles(i) PROVE TypeOK'
    BY <2>8 DEF AcquiredForIndexFiles, Acquired
  <2>9. ASSUME NEW i \in Instances, WriteFails(i) PROVE TypeOK'
    BY <2>9 DEF WriteFails
  <2>10. ASSUME NEW i \in Instances, LockedPassEnds(i) PROVE TypeOK'
    BY <2>10 DEF LockedPassEnds
  <2>11. ASSUME NEW i \in Instances, IndexFilesEnds(i) PROVE TypeOK'
    BY <2>11 DEF IndexFilesEnds
  <2>12. ASSUME NEW i \in Instances, CheckOwner(i) PROVE TypeOK'
    BY <2>12 DEF CheckOwner
  <2>13. ASSUME NEW i \in Instances, Remove(i) PROVE TypeOK'
    BY <2>13 DEF Remove
  <2>14. ASSUME NEW p \in Pids, Crash(p) PROVE TypeOK'
    <3>1. lockFile' \in LockFiles \union {NoLock}
      BY <2>14, LockFileTypes DEF Crash
    <3>2. pc' \in [Instances -> Labels]
      BY <2>14 DEF Crash
    <3>3. readPid' \in [Instances -> Pids \union {NaN}]
      BY <2>14 DEF Crash
    <3>4. writing' \subseteq Instances /\ alive' \subseteq Pids
      BY <2>14 DEF Crash
    <3>5. crashes' \in 0..MaxCrashes
      BY <2>14 DEF Crash
    <3>. QED
      BY <2>14, <3>1, <3>2, <3>3, <3>4, <3>5 DEF Crash
  <2>15. ASSUME NEW p \in Pids, Restart(p) PROVE TypeOK'
    BY <2>15 DEF Restart
  <2>16. ASSUME Expire PROVE TypeOK'
    <3>1. lockFile' \in LockFiles
      BY <2>16, LockFileTypes DEF Expire
    <3>2. expiries' \in 0..MaxExpiries
      BY <2>16 DEF Expire
    <3>. QED
      BY <2>16, <3>1, <3>2 DEF Expire
  <2>17. CASE UNCHANGED vars
    BY <2>17 DEF vars
  <2>. QED
    BY <2>1, <2>2, <2>3, <2>4, <2>5, <2>6, <2>7, <2>8, <2>9,
       <2>10, <2>11, <2>12, <2>13, <2>14, <2>15, <2>16, <2>17 DEF Next, Step
<1>. QED
  BY <1>1, <1>2, PTL DEF Spec

\* An instance that is not idle lives in a running process.
LEMMA RunningAlive == Spec => []RunningIsAlive
<1>. USE LockAssumption DEF RunningIsAlive, Exists, Content, LockFiles, Labels, Goto, Quiet,
         Acquiring, Releasing, Holding, AfterRelease, OwnFile
<1>1. Init => RunningIsAlive
  BY DEF Init
<1>2. TypeOK /\ RunningIsAlive /\ [Next]_vars => RunningIsAlive'
  <2>. SUFFICES ASSUME TypeOK, RunningIsAlive, [Next]_vars PROVE RunningIsAlive'
    OBVIOUS
  <2>1. ASSUME NEW i \in Instances, BeginAcquire(i) PROVE RunningIsAlive'
    BY <2>1 DEF BeginAcquire, TypeOK, MayRun
  <2>2. ASSUME NEW i \in Instances, ReadFile(i) PROVE RunningIsAlive'
    BY <2>2 DEF ReadFile, TypeOK, MayRun
  <2>3. ASSUME NEW i \in Instances, Stat(i) PROVE RunningIsAlive'
    BY <2>3 DEF Stat, TypeOK, MayRun
  <2>4. ASSUME NEW i \in Instances, Unlink(i) PROVE RunningIsAlive'
    BY <2>4 DEF Unlink, TypeOK, MayRun
  <2>5. ASSUME NEW i \in Instances, UnlinkQuietly(i) PROVE RunningIsAlive'
    BY <2>5 DEF UnlinkQuietly, TypeOK, MayRun
  <2>6. ASSUME NEW i \in Instances, Create(i) PROVE RunningIsAlive'
    BY <2>6 DEF Create, TypeOK, MayRun
  <2>7. ASSUME NEW i \in Instances, AcquiredForPass(i) PROVE RunningIsAlive'
    BY <2>7 DEF AcquiredForPass, Acquired, TypeOK, MayRun
  <2>8. ASSUME NEW i \in Instances, AcquiredForIndexFiles(i) PROVE RunningIsAlive'
    BY <2>8 DEF AcquiredForIndexFiles, Acquired, TypeOK, MayRun
  <2>9. ASSUME NEW i \in Instances, WriteFails(i) PROVE RunningIsAlive'
    BY <2>9 DEF WriteFails, TypeOK, MayRun
  <2>10. ASSUME NEW i \in Instances, LockedPassEnds(i) PROVE RunningIsAlive'
    BY <2>10 DEF LockedPassEnds, TypeOK, MayRun
  <2>11. ASSUME NEW i \in Instances, IndexFilesEnds(i) PROVE RunningIsAlive'
    BY <2>11 DEF IndexFilesEnds, TypeOK, MayRun
  <2>12. ASSUME NEW i \in Instances, CheckOwner(i) PROVE RunningIsAlive'
    BY <2>12 DEF CheckOwner, TypeOK, MayRun
  <2>13. ASSUME NEW i \in Instances, Remove(i) PROVE RunningIsAlive'
    BY <2>13 DEF Remove, TypeOK, MayRun
  <2>14. ASSUME NEW p \in Pids, Crash(p) PROVE RunningIsAlive'
    BY <2>14 DEF Crash, TypeOK
  <2>15. ASSUME NEW p \in Pids, Restart(p) PROVE RunningIsAlive'
    BY <2>15 DEF Restart, TypeOK
  <2>16. ASSUME Expire PROVE RunningIsAlive'
    BY <2>16 DEF Expire
  <2>17. CASE UNCHANGED vars
    BY <2>17 DEF vars
  <2>. QED
    BY <2>1, <2>2, <2>3, <2>4, <2>5, <2>6, <2>7, <2>8, <2>9,
       <2>10, <2>11, <2>12, <2>13, <2>14, <2>15, <2>16, <2>17 DEF Next, Step
<1>. QED
  BY <1>1, <1>2, LockTypeCorrect, PTL DEF Spec

\* Without overlapping acquires and expired locks, the holder's lock file is its own and
\* nobody removes it: the strengthening of mutual exclusion.
LEMMA ExclusionInductive == Spec => []ExclusionInv
<1>. USE LockAssumption
     DEF ExclusionInv, OneAcquirer, HolderOwnsFile, AcquirerIsRight, Acquirers, Holders,
         Exists, Content, LockFiles, Labels, Goto, Quiet,
         Acquiring, Releasing, Holding, AfterRelease, OwnFile
<1>1. Init => ExclusionInv
  BY DEF Init
<1>2. TypeOK /\ RunningIsAlive /\ ExclusionInv /\ [Next]_vars => ExclusionInv'
  <2>. SUFFICES ASSUME TypeOK, RunningIsAlive, ExclusionInv, [Next]_vars
                PROVE  ExclusionInv'
    OBVIOUS
  <2>1. ASSUME NEW i \in Instances, BeginAcquire(i) PROVE ExclusionInv'
    <3>. SUFFICES ASSUME ~contended' PROVE OneAcquirer' /\ HolderOwnsFile' /\ AcquirerIsRight'
      OBVIOUS
    <3>1. OneAcquirer'
      <4>1. Acquirers = {}
        BY <2>1 DEF BeginAcquire, TypeOK
      <4>. QED
        BY <2>1, <4>1 DEF BeginAcquire, TypeOK
    <3>2. HolderOwnsFile'
      BY <2>1 DEF BeginAcquire, TypeOK
    <3>3. AcquirerIsRight'
      BY <2>1 DEF BeginAcquire, TypeOK
    <3>. QED
      BY <3>1, <3>2, <3>3
  <2>2. ASSUME NEW i \in Instances, ReadFile(i) PROVE ExclusionInv'
    BY <2>2 DEF ReadFile, TypeOK
  <2>3. ASSUME NEW i \in Instances, Stat(i) PROVE ExclusionInv'
    BY <2>3 DEF Stat, TypeOK, RunningIsAlive, LooksHeld
  <2>4. ASSUME NEW i \in Instances, Unlink(i) PROVE ExclusionInv'
    BY <2>4 DEF Unlink, TypeOK
  <2>5. ASSUME NEW i \in Instances, UnlinkQuietly(i) PROVE ExclusionInv'
    BY <2>5 DEF UnlinkQuietly, TypeOK
  <2>6. ASSUME NEW i \in Instances, Create(i) PROVE ExclusionInv'
    <3>. SUFFICES ASSUME ~contended' PROVE OneAcquirer' /\ HolderOwnsFile' /\ AcquirerIsRight'
      OBVIOUS
    <3>1. OneAcquirer'
      BY <2>6 DEF Create, TypeOK
    <3>2. HolderOwnsFile'
      BY <2>6 DEF Create, TypeOK
    <3>3. AcquirerIsRight'
      <4>1. \A j \in Acquirers' : j = i
        BY <2>6 DEF Create, TypeOK
      <4>2. pc'[i] = "write" => /\ OwnFile(i)' /\ ~lockFile'.written
                               /\ ~lockFile'.old /\ ~lockFile'.left
        BY <2>6, CreatedLock DEF Create, TypeOK
      <4>3. pc'[i] \in {"idle", "write"}
        BY <2>6 DEF Create, TypeOK
      <4>. QED
        BY <4>1, <4>2, <4>3
    <3>. QED
      BY <3>1, <3>2, <3>3
  <2>7. ASSUME NEW i \in Instances, AcquiredForPass(i) PROVE ExclusionInv'
    <3>. SUFFICES ASSUME ~contended' PROVE OneAcquirer' /\ HolderOwnsFile' /\ AcquirerIsRight'
      OBVIOUS
    <3>1. OneAcquirer'
      BY <2>7 DEF AcquiredForPass, Acquired, TypeOK
    <3>2. HolderOwnsFile'
      <4>1. ~contended /\ OwnFile(i) /\ ~lockFile.old /\ ~lockFile.left
        BY <2>7 DEF AcquiredForPass, Acquired
      <4>2. Holders = {}
        BY <2>7, <4>1 DEF AcquiredForPass, Acquired
      <4>3. lockFile' = [lockFile EXCEPT !.written = TRUE] /\ lockFile \in LockFiles
        BY <2>7, <4>1 DEF AcquiredForPass, Acquired, TypeOK
      <4>4. OwnFile(i)' /\ lockFile'.written /\ ~lockFile'.old /\ ~lockFile'.left
        BY <4>1, <4>3, LockAssumption
      <4>. QED
        BY <2>7, <4>2, <4>4 DEF AcquiredForPass, Acquired, TypeOK
    <3>3. AcquirerIsRight'
      BY <2>7 DEF AcquiredForPass, Acquired, TypeOK
    <3>. QED
      BY <3>1, <3>2, <3>3
  <2>8. ASSUME NEW i \in Instances, AcquiredForIndexFiles(i) PROVE ExclusionInv'
    <3>. SUFFICES ASSUME ~contended' PROVE OneAcquirer' /\ HolderOwnsFile' /\ AcquirerIsRight'
      OBVIOUS
    <3>1. OneAcquirer'
      BY <2>8 DEF AcquiredForIndexFiles, Acquired, TypeOK
    <3>2. HolderOwnsFile'
      <4>1. ~contended /\ OwnFile(i) /\ ~lockFile.old /\ ~lockFile.left
        BY <2>8 DEF AcquiredForIndexFiles, Acquired
      <4>2. Holders = {}
        BY <2>8, <4>1 DEF AcquiredForIndexFiles, Acquired
      <4>3. lockFile' = [lockFile EXCEPT !.written = TRUE] /\ lockFile \in LockFiles
        BY <2>8, <4>1 DEF AcquiredForIndexFiles, Acquired, TypeOK
      <4>4. OwnFile(i)' /\ lockFile'.written /\ ~lockFile'.old /\ ~lockFile'.left
        BY <4>1, <4>3, LockAssumption
      <4>. QED
        BY <2>8, <4>2, <4>4 DEF AcquiredForIndexFiles, Acquired, TypeOK
    <3>3. AcquirerIsRight'
      BY <2>8 DEF AcquiredForIndexFiles, Acquired, TypeOK
    <3>. QED
      BY <3>1, <3>2, <3>3
  <2>9. ASSUME NEW i \in Instances, WriteFails(i) PROVE ExclusionInv'
    BY <2>9 DEF WriteFails, TypeOK
  <2>10. ASSUME NEW i \in Instances, LockedPassEnds(i) PROVE ExclusionInv'
    BY <2>10 DEF LockedPassEnds, TypeOK
  <2>11. ASSUME NEW i \in Instances, IndexFilesEnds(i) PROVE ExclusionInv'
    BY <2>11 DEF IndexFilesEnds, TypeOK
  <2>12. ASSUME NEW i \in Instances, CheckOwner(i) PROVE ExclusionInv'
    BY <2>12 DEF CheckOwner, TypeOK
  <2>13. ASSUME NEW i \in Instances, Remove(i) PROVE ExclusionInv'
    BY <2>13 DEF Remove, TypeOK
  <2>14. ASSUME NEW p \in Pids, Crash(p) PROVE ExclusionInv'
    BY <2>14 DEF Crash, TypeOK
  <2>15. ASSUME NEW p \in Pids, Restart(p) PROVE ExclusionInv'
    BY <2>15 DEF Restart
  <2>16. ASSUME Expire PROVE ExclusionInv'
    <3>. SUFFICES ASSUME ~contended' PROVE OneAcquirer' /\ HolderOwnsFile' /\ AcquirerIsRight'
      OBVIOUS
    <3>1. OneAcquirer'
      BY <2>16 DEF Expire, TypeOK
    <3>2. HolderOwnsFile'
      BY <2>16 DEF Expire, TypeOK
    <3>3. AcquirerIsRight'
      BY <2>16 DEF Expire, TypeOK
    <3>. QED
      BY <3>1, <3>2, <3>3
  <2>17. CASE UNCHANGED vars
    BY <2>17 DEF vars
  <2>. QED
    BY <2>1, <2>2, <2>3, <2>4, <2>5, <2>6, <2>7, <2>8, <2>9,
       <2>10, <2>11, <2>12, <2>13, <2>14, <2>15, <2>16, <2>17 DEF Next, Step
<1>. QED
  BY <1>1, <1>2, LockTypeCorrect, RunningAlive, PTL DEF Spec

\* At most one instance holds the lock, for any number of processes and instances and
\* any crashes, while no two acquires have overlapped and no held lock has expired.
THEOREM ExclusionUncontended == Spec => []UncontendedExclusion
<1>1. ExclusionInv => UncontendedExclusion
  BY DEF ExclusionInv, UncontendedExclusion, HolderOwnsFile, OwnFile
<1>. QED
  BY <1>1, ExclusionInductive, PTL

\* However acquires interleave, a lock file that nobody left behind has an instance
\* that will remove it.
THEOREM LockHasOwner == Spec => []NoOrphanedLock
<1>. USE LockAssumption DEF OwnerInv, Exists, Content, LockFiles, Labels, Goto, Quiet,
         Acquiring, Releasing, Holding, AfterRelease, OwnFile
<1>1. Init => OwnerInv
  BY DEF Init
<1>2. TypeOK /\ OwnerInv /\ [Next]_vars => OwnerInv'
  <2>. SUFFICES ASSUME TypeOK, OwnerInv, [Next]_vars PROVE OwnerInv'
    OBVIOUS
  <2>1. ASSUME NEW i \in Instances, BeginAcquire(i) PROVE OwnerInv'
    BY <2>1 DEF BeginAcquire, TypeOK
  <2>2. ASSUME NEW i \in Instances, ReadFile(i) PROVE OwnerInv'
    BY <2>2 DEF ReadFile, TypeOK
  <2>3. ASSUME NEW i \in Instances, Stat(i) PROVE OwnerInv'
    BY <2>3 DEF Stat, TypeOK
  <2>4. ASSUME NEW i \in Instances, Unlink(i) PROVE OwnerInv'
    BY <2>4 DEF Unlink, TypeOK
  <2>5. ASSUME NEW i \in Instances, UnlinkQuietly(i) PROVE OwnerInv'
    BY <2>5 DEF UnlinkQuietly, TypeOK
  <2>6. ASSUME NEW i \in Instances, Create(i) PROVE OwnerInv'
    BY <2>6 DEF Create, TypeOK
  <2>7. ASSUME NEW i \in Instances, AcquiredForPass(i) PROVE OwnerInv'
    BY <2>7 DEF AcquiredForPass, Acquired, TypeOK
  <2>8. ASSUME NEW i \in Instances, AcquiredForIndexFiles(i) PROVE OwnerInv'
    BY <2>8 DEF AcquiredForIndexFiles, Acquired, TypeOK
  <2>9. ASSUME NEW i \in Instances, WriteFails(i) PROVE OwnerInv'
    BY <2>9 DEF WriteFails, TypeOK
  <2>10. ASSUME NEW i \in Instances, LockedPassEnds(i) PROVE OwnerInv'
    BY <2>10 DEF LockedPassEnds, TypeOK
  <2>11. ASSUME NEW i \in Instances, IndexFilesEnds(i) PROVE OwnerInv'
    BY <2>11 DEF IndexFilesEnds, TypeOK
  <2>12. ASSUME NEW i \in Instances, CheckOwner(i) PROVE OwnerInv'
    BY <2>12 DEF CheckOwner, TypeOK
  <2>13. ASSUME NEW i \in Instances, Remove(i) PROVE OwnerInv'
    BY <2>13 DEF Remove, TypeOK
  <2>14. ASSUME NEW p \in Pids, Crash(p) PROVE OwnerInv'
    BY <2>14 DEF Crash, TypeOK
  <2>15. ASSUME NEW p \in Pids, Restart(p) PROVE OwnerInv'
    BY <2>15 DEF Restart
  <2>16. ASSUME Expire PROVE OwnerInv'
    BY <2>16 DEF Expire
  <2>17. CASE UNCHANGED vars
    BY <2>17 DEF vars
  <2>. QED
    BY <2>1, <2>2, <2>3, <2>4, <2>5, <2>6, <2>7, <2>8, <2>9,
       <2>10, <2>11, <2>12, <2>13, <2>14, <2>15, <2>16, <2>17 DEF Next, Step
<1>3. OwnerInv => NoOrphanedLock
  BY DEF NoOrphanedLock
<1>. QED
  BY <1>1, <1>2, <1>3, LockTypeCorrect, PTL DEF Spec
============================================================================
