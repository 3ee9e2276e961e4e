------------------------- MODULE FileWatcherProofs -------------------------
(* What TLAPS proves of the auto-sync loop, for every project tree, every  *)
(* retry budget and every bound.                                           *)
EXTENDS FileWatcher, TLAPS

\* What stop() leaves behind: no watch, no walk, nothing pending; and a flush that is
\* still to resume will find both streaks of failures at zero.
QuietWhenStopped ==
    /\ degradedReason # "none" => stopped
    /\ stopped => /\ ~ready
                  /\ kernel = {} /\ dirWatchers = {} /\ events = {}
                  /\ walk = {} /\ listing = NoDir /\ Pending = {}
    /\ stopped /\ syncing => lockRetryCount = 0 /\ syncFailureRetryCount = 0
    /\ owner = "watcher" => syncing

LEMMA QuietInductive == Spec => []QuietWhenStopped
<1>. USE TreeAssumption, BoundAssumption
     DEF QuietWhenStopped, Pending,
         world, counters, watchSet, flushing, life, pass, gaps
<1>1. Init => QuietWhenStopped
  BY DEF Init
<1>2. QuietWhenStopped /\ [Next]_vars => QuietWhenStopped'
  <2>. SUFFICES ASSUME QuietWhenStopped, [Next]_vars PROVE QuietWhenStopped'
    OBVIOUS
  <2>1. ASSUME NEW f \in Files, WriteFile(f) PROVE QuietWhenStopped'
    BY <2>1 DEF WriteFile, Announce
  <2>2. ASSUME NEW f \in Files, DeleteFile(f) PROVE QuietWhenStopped'
    BY <2>2 DEF DeleteFile, Announce
  <2>3. ASSUME NEW d \in Dirs, CreateDir(d) PROVE QuietWhenStopped'
    BY <2>3 DEF CreateDir
  <2>4. ASSUME NEW d \in Dirs, RemoveDir(d) PROVE QuietWhenStopped'
    BY <2>4 DEF RemoveDir
  <2>5. ASSUME OtherWriterToggles PROVE QuietWhenStopped'
    BY <2>5 DEF OtherWriterToggles
  <2>6. ASSUME Start PROVE QuietWhenStopped'
    BY <2>6 DEF Start
  <2>7. ASSUME Unwatch PROVE QuietWhenStopped'
    BY <2>7 DEF Unwatch, StopWatcher
  <2>8. ASSUME NEW d \in Dirs, SkipDir(d) PROVE QuietWhenStopped'
    BY <2>8 DEF SkipDir
  <2>9. ASSUME NEW d \in Dirs, WatchDir(d) PROVE QuietWhenStopped'
    BY <2>9 DEF WatchDir, Unwatchable
  <2>10. ASSUME ListDir PROVE QuietWhenStopped'
    BY <2>10 DEF ListDir, Subdirectories, MarkedFiles
  <2>11. ASSUME FinishStart PROVE QuietWhenStopped'
    BY <2>11 DEF FinishStart
  <2>12. ASSUME NEW d \in Dirs, WatchDirFails(d) PROVE QuietWhenStopped'
    <3>1. CASE \E rearmed : Degrade("exhausted", rearmed)
      BY <2>12, <3>1 DEF WatchDirFails, Degrade, StopWatcher
    <3>2. CASE /\ UNCHANGED <<counters, life, syncing, owner>>
               /\ ~stopped
      BY <3>2
    <3>. QED
      BY <2>12, <3>1, <3>2 DEF WatchDirFails
  <2>13. ASSUME NEW d \in Dirs, DirWatchError(d) PROVE QuietWhenStopped'
    <3>1. CASE Degrade("exhausted", FALSE)
      BY <2>13, <3>1 DEF DirWatchError, Degrade, StopWatcher
    <3>2. CASE /\ UNCHANGED <<counters, life, syncing, owner>>
               /\ ~stopped
      BY <3>2
    <3>. QED
      BY <2>13, <3>1, <3>2 DEF DirWatchError, ActiveWatch
  <2>14. ASSUME NEW d \in Dirs, DirEvent(d) PROVE QuietWhenStopped'
    BY <2>14 DEF DirEvent, ActiveWatch
  <2>15. ASSUME NEW f \in Files, FileEvent(f) PROVE QuietWhenStopped'
    BY <2>15 DEF FileEvent, ActiveWatch, EventStamps
  <2>16. ASSUME Flush PROVE QuietWhenStopped'
    BY <2>16 DEF Flush, MayFlush
  <2>17. ASSUME NEW o \in {"watcher", "direct"}, BeginPass(o) PROVE QuietWhenStopped'
    BY <2>17 DEF BeginPass
  <2>18. ASSUME Scan PROVE QuietWhenStopped'
    BY <2>18 DEF Scan
  <2>19. ASSUME NEW f \in Files, CheckRemoval(f) PROVE QuietWhenStopped'
    BY <2>19 DEF CheckRemoval
  <2>20. ASSUME NEW f \in Files, CheckChange(f) PROVE QuietWhenStopped'
    BY <2>20 DEF CheckChange
  <2>21. ASSUME NEW f \in Files, IndexFile(f) PROVE QuietWhenStopped'
    BY <2>21 DEF IndexFile
  <2>22. ASSUME RemovalsDone PROVE QuietWhenStopped'
    BY <2>22 DEF RemovalsDone
  <2>23. ASSUME ChangesDone PROVE QuietWhenStopped'
    BY <2>23 DEF ChangesDone
  <2>24. ASSUME DirectPassEnds PROVE QuietWhenStopped'
    BY <2>24 DEF DirectPassEnds
  <2>25. ASSUME FlushSucceeds PROVE QuietWhenStopped'
    BY <2>25 DEF FlushSucceeds, StillPending, PassComplete
  <2>26. ASSUME FlushLockUnavailable PROVE QuietWhenStopped'
    BY <2>26 DEF FlushLockUnavailable, Degrade, StopWatcher, Reschedule
  <2>27. ASSUME FlushFails PROVE QuietWhenStopped'
    BY <2>27 DEF FlushFails, Degrade, StopWatcher, Reschedule
  <2>28. ASSUME ListDirFails PROVE QuietWhenStopped'
    BY <2>28 DEF ListDirFails
  <2>29. CASE UNCHANGED vars
    BY <2>29 DEF vars
  <2>. QED
    BY <2>1, <2>2, <2>3, <2>4, <2>5, <2>6, <2>7, <2>8, <2>9, <2>10,
       <2>11, <2>12, <2>13, <2>14, <2>15, <2>16, <2>17, <2>18, <2>19, <2>20,
       <2>21, <2>22, <2>23, <2>24, <2>25, <2>26, <2>27, <2>28, <2>29
    DEF Next, FileSystemStep, WatchTreeStep, PassStep
<1>. QED
  BY <1>1, <1>2, PTL DEF Spec

\* Every variable keeps its type; in particular the retry counters stay within the
\* budgets MAX_LOCK_RETRIES and MAX_SYNC_FAILURE_RETRIES.
THEOREM TypeCorrect == Spec => []TypeOK
<1>. USE TreeAssumption, BoundAssumption
     DEF TypeOK, DiskType, KernelType, WatchType, CountersType, PendingType,
         FlushType, PassType, Stamps,
         world, counters, watchSet, flushing, life, pass, gaps
<1>1. Init => TypeOK
  <2>. SUFFICES ASSUME Init PROVE TypeOK
    OBVIOUS
  <2>1. disk \in [Files -> Nat] /\ indexed \in [Files -> Nat]
    BY DEF Init
  <2>2. dirs \subseteq Dirs /\ created \in [Dirs -> Nat]
    BY DEF Init
  <2>3. pendingFiles \in [Files -> Stamps]
    BY DEF Init
  <2>4. DiskType /\ KernelType
    BY <2>1, <2>2 DEF Init
  <2>5. WatchType
    BY DEF Init
  <2>6. CountersType
    BY DEF Init
  <2>7. FlushType
    BY DEF Init
  <2>8. PassType
    BY <2>1 DEF Init
  <2>. QED
    BY <2>3, <2>4, <2>5, <2>6, <2>7, <2>8
<1>2. TypeOK /\ QuietWhenStopped /\ [Next]_vars => TypeOK'
  <2>. SUFFICES ASSUME TypeOK, QuietWhenStopped, [Next]_vars PROVE TypeOK'
    OBVIOUS
  <2>1. ASSUME NEW f \in Files, WriteFile(f) PROVE TypeOK'
    BY <2>1 DEF WriteFile, Announce
  <2>2. ASSUME NEW f \in Files, DeleteFile(f) PROVE TypeOK'
    BY <2>2 DEF DeleteFile, Announce
  <2>3. ASSUME NEW d \in Dirs, CreateDir(d) PROVE TypeOK'
    BY <2>3 DEF CreateDir
  <2>4. ASSUME NEW d \in Dirs, RemoveDir(d) PROVE TypeOK'
    BY <2>4 DEF RemoveDir
  <2>5. ASSUME OtherWriterToggles PROVE TypeOK'
    BY <2>5 DEF OtherWriterToggles
  <2>6. ASSUME Start PROVE TypeOK'
    <3>1. DiskType' /\ KernelType'
      BY <2>6 DEF Start
    <3>2. WatchType'
      BY <2>6 DEF Start
    <3>3. CountersType'
      BY <2>6 DEF Start
    <3>4. PendingType' /\ FlushType' /\ PassType'
      BY <2>6 DEF Start
    <3>. QED
      BY <3>1, <3>2, <3>3, <3>4
  <2>7. ASSUME Unwatch PROVE TypeOK'
    <3>1. DiskType'
      BY <2>7 DEF Unwatch, StopWatcher
    <3>2. KernelType'
      BY <2>7 DEF Unwatch, StopWatcher
    <3>3. WatchType'
      BY <2>7 DEF Unwatch, StopWatcher
    <3>4. CountersType'
      BY <2>7 DEF Unwatch, StopWatcher
    <3>5. PendingType'
      BY <2>7 DEF Unwatch, StopWatcher
    <3>6. FlushType'
      BY <2>7 DEF Unwatch, StopWatcher
    <3>7. PassType'
      BY <2>7 DEF Unwatch, StopWatcher
    <3>. QED
      BY <3>1, <3>2, <3>3, <3>4, <3>5, <3>6, <3>7
  <2>8. ASSUME NEW d \in Dirs, SkipDir(d) PROVE TypeOK'
    BY <2>8 DEF SkipDir
  <2>9. ASSUME NEW d \in Dirs, WatchDir(d) PROVE TypeOK'
    <3>1. DiskType'
      BY <2>9 DEF WatchDir, Unwatchable
    <3>2. KernelType'
      BY <2>9 DEF WatchDir, Unwatchable
    <3>3. WatchType'
      BY <2>9 DEF WatchDir, Unwatchable
    <3>4. CountersType'
      BY <2>9 DEF WatchDir, Unwatchable
    <3>5. PendingType'
      BY <2>9 DEF WatchDir, Unwatchable
    <3>6. FlushType'
      BY <2>9 DEF WatchDir, Unwatchable
    <3>7. PassType'
      BY <2>9 DEF WatchDir, Unwatchable
    <3>. QED
      BY <3>1, <3>2, <3>3, <3>4, <3>5, <3>6, <3>7
  <2>10. ASSUME ListDir PROVE TypeOK'
    BY <2>10 DEF ListDir, Subdirectories, MarkedFiles
  <2>11. ASSUME FinishStart PROVE TypeOK'
    BY <2>11 DEF FinishStart
  <2>12. ASSUME NEW d \in Dirs, WatchDirFails(d) PROVE TypeOK'
    <3>1. CASE \E rearmed \in BOOLEAN : Degrade("exhausted", rearmed)
      <4>. PICK rearmed \in BOOLEAN : Degrade("exhausted", rearmed)
        BY <3>1
      <4>1. DiskType'
        BY <2>12, <3>1 DEF WatchDirFails, Degrade, StopWatcher
      <4>2. KernelType'
        BY <2>12, <3>1 DEF WatchDirFails, Degrade, StopWatcher
      <4>3. WatchType'
        BY <2>12, <3>1 DEF WatchDirFails, Degrade, StopWatcher
      <4>4. CountersType'
        BY <2>12, <3>1 DEF WatchDirFails, Degrade, StopWatcher
      <4>5. PendingType'
        BY <2>12, <3>1 DEF WatchDirFails, Degrade, StopWatcher
      <4>6. FlushType'
        BY <2>12, <3>1 DEF WatchDirFails, Degrade, StopWatcher
      <4>7. PassType'
        BY <2>12, <3>1 DEF WatchDirFails, Degrade, StopWatcher
      <4>. QED
        BY <4>1, <4>2, <4>3, <4>4, <4>5, <4>6, <4>7
    <3>2. CASE UNCHANGED <<counters, flushing, life>>
      <4>1. DiskType'
        BY <2>12, <3>2 DEF WatchDirFails, Degrade, StopWatcher
      <4>2. KernelType'
        <5>1. kernel' \subseteq kernel /\ events' \subseteq events
          BY <2>12 DEF WatchDirFails, Degrade, StopWatcher
        <5>2. dirs' = dirs /\ otherWriter' = otherWriter /\ faults' \in Nat
          BY <2>12 DEF WatchDirFails
        <5>. QED
          BY <5>1, <5>2
      <4>3. WatchType'
        BY <2>12, <3>2 DEF WatchDirFails, Degrade, StopWatcher
      <4>4. CountersType'
        BY <2>12, <3>2 DEF WatchDirFails, Degrade, StopWatcher
      <4>5. PendingType'
        BY <2>12, <3>2 DEF WatchDirFails, Degrade, StopWatcher
      <4>6. FlushType'
        BY <2>12, <3>2 DEF WatchDirFails, Degrade, StopWatcher
      <4>7. PassType'
        BY <2>12, <3>2 DEF WatchDirFails, Degrade, StopWatcher
      <4>. QED
        BY <4>1, <4>2, <4>3, <4>4, <4>5, <4>6, <4>7
    <3>. QED
      BY <2>12, <3>1, <3>2 DEF WatchDirFails, Unwinds
  <2>13. ASSUME NEW d \in Dirs, DirWatchError(d) PROVE TypeOK'
    <3>1. CASE Degrade("exhausted", FALSE)
      <4>1. DiskType'
        BY <2>13, <3>1 DEF DirWatchError, Degrade, StopWatcher
      <4>2. KernelType'
        BY <2>13, <3>1 DEF DirWatchError, Degrade, StopWatcher
      <4>3. WatchType'
        BY <2>13, <3>1 DEF DirWatchError, Degrade, StopWatcher
      <4>4. CountersType'
        BY <2>13, <3>1 DEF DirWatchError, Degrade, StopWatcher
      <4>5. PendingType'
        BY <2>13, <3>1 DEF DirWatchError, Degrade, StopWatcher
      <4>6. FlushType'
        BY <2>13, <3>1 DEF DirWatchError, Degrade, StopWatcher
      <4>7. PassType'
        BY <2>13, <3>1 DEF DirWatchError, Degrade, StopWatcher
      <4>. QED
        BY <4>1, <4>2, <4>3, <4>4, <4>5, <4>6, <4>7
    <3>2. CASE UNCHANGED <<counters, flushing, life>>
      <4>1. DiskType'
        BY <2>13, <3>2 DEF DirWatchError, Degrade, StopWatcher
      <4>2. KernelType'
        <5>1. kernel' \subseteq kernel /\ events' \subseteq events
          BY <2>13 DEF DirWatchError, Degrade, StopWatcher
        <5>2. dirs' = dirs /\ otherWriter' = otherWriter /\ faults' \in Nat
          BY <2>13 DEF DirWatchError
        <5>. QED
          BY <5>1, <5>2
      <4>3. WatchType'
        BY <2>13, <3>2 DEF DirWatchError, Degrade, StopWatcher
      <4>4. CountersType'
        BY <2>13, <3>2 DEF DirWatchError, Degrade, StopWatcher
      <4>5. PendingType'
        BY <2>13, <3>2 DEF DirWatchError, Degrade, StopWatcher
      <4>6. FlushType'
        BY <2>13, <3>2 DEF DirWatchError, Degrade, StopWatcher
      <4>7. PassType'
        BY <2>13, <3>2 DEF DirWatchError, Degrade, StopWatcher
      <4>. QED
        BY <4>1, <4>2, <4>3, <4>4, <4>5, <4>6, <4>7
    <3>. QED
      BY <2>13, <3>1, <3>2 DEF DirWatchError
  <2>14. ASSUME NEW d \in Dirs, DirEvent(d) PROVE TypeOK'
    <3>1. DiskType' /\ KernelType'
      BY <2>14 DEF DirEvent
    <3>2. WatchType'
      BY <2>14 DEF DirEvent
    <3>3. CountersType' /\ PendingType' /\ FlushType' /\ PassType'
      BY <2>14 DEF DirEvent
    <3>. QED
      BY <3>1, <3>2, <3>3
  <2>15. ASSUME NEW f \in Files, FileEvent(f) PROVE TypeOK'
    BY <2>15 DEF FileEvent, EventStamps
  <2>16. ASSUME Flush PROVE TypeOK'
    <3>1. DiskType'
      BY <2>16 DEF Flush
    <3>2. KernelType'
      BY <2>16 DEF Flush
    <3>3. WatchType'
      BY <2>16 DEF Flush
    <3>4. CountersType'
      BY <2>16 DEF Flush
    <3>5. PendingType'
      BY <2>16 DEF Flush
    <3>6. FlushType'
      BY <2>16 DEF Flush
    <3>7. PassType'
      BY <2>16 DEF Flush
    <3>. QED
      BY <3>1, <3>2, <3>3, <3>4, <3>5, <3>6, <3>7
  <2>17. ASSUME NEW o \in {"watcher", "direct"}, BeginPass(o) PROVE TypeOK'
    BY <2>17 DEF BeginPass
  <2>18. ASSUME Scan PROVE TypeOK'
    BY <2>18 DEF Scan
  <2>19. ASSUME NEW f \in Files, CheckRemoval(f) PROVE TypeOK'
    BY <2>19 DEF CheckRemoval
  <2>20. ASSUME NEW f \in Files, CheckChange(f) PROVE TypeOK'
    BY <2>20 DEF CheckChange
  <2>21. ASSUME NEW f \in Files, IndexFile(f) PROVE TypeOK'
    BY <2>21 DEF IndexFile
  <2>22. ASSUME RemovalsDone PROVE TypeOK'
    BY <2>22 DEF RemovalsDone
  <2>23. ASSUME ChangesDone PROVE TypeOK'
    BY <2>23 DEF ChangesDone
  <2>24. ASSUME DirectPassEnds PROVE TypeOK'
    BY <2>24 DEF DirectPassEnds
  <2>25. ASSUME FlushSucceeds PROVE TypeOK'
    <3>1. DiskType'
      BY <2>25 DEF FlushSucceeds, StillPending
    <3>2. KernelType'
      BY <2>25 DEF FlushSucceeds, StillPending
    <3>3. WatchType'
      BY <2>25 DEF FlushSucceeds, StillPending
    <3>4. CountersType'
      BY <2>25 DEF FlushSucceeds, StillPending
    <3>5. PendingType'
      BY <2>25 DEF FlushSucceeds, StillPending
    <3>6. FlushType'
      BY <2>25 DEF FlushSucceeds, StillPending
    <3>7. PassType'
      BY <2>25 DEF FlushSucceeds, StillPending
    <3>. QED
      BY <3>1, <3>2, <3>3, <3>4, <3>5, <3>6, <3>7
  <2>26. ASSUME FlushLockUnavailable PROVE TypeOK'
    <3>1. DiskType'
      BY <2>26 DEF FlushLockUnavailable, LockBudgetSpent, Degrade, StopWatcher, Reschedule
    <3>2. KernelType'
      BY <2>26 DEF FlushLockUnavailable, LockBudgetSpent, Degrade, StopWatcher, Reschedule
    <3>3. WatchType'
      BY <2>26 DEF FlushLockUnavailable, LockBudgetSpent, Degrade, StopWatcher, Reschedule
    <3>4. CountersType'
      <4>1. CASE LockBudgetSpent /\ degradedReason = "none"
        BY <2>26, <4>1 DEF FlushLockUnavailable, Degrade, StopWatcher
      <4>2. CASE ~(LockBudgetSpent /\ degradedReason = "none")
        <5>1. lockRetryCount + 1 <= MaxLockRetries
          BY <2>26, <4>2 DEF FlushLockUnavailable, LockBudgetSpent, QuietWhenStopped
        <5>2. /\ lockRetryCount' = lockRetryCount + 1
              /\ syncFailureRetryCount' = syncFailureRetryCount
          BY <2>26, <4>2 DEF FlushLockUnavailable
        <5>. QED
          BY <5>1, <5>2
      <4>. QED
        BY <4>1, <4>2
    <3>5. PendingType'
      BY <2>26 DEF FlushLockUnavailable, LockBudgetSpent, Degrade, StopWatcher, Reschedule
    <3>6. FlushType'
      BY <2>26 DEF FlushLockUnavailable, LockBudgetSpent, Degrade, StopWatcher, Reschedule
    <3>7. PassType'
      BY <2>26 DEF FlushLockUnavailable, LockBudgetSpent, Degrade, StopWatcher, Reschedule
    <3>. QED
      BY <3>1, <3>2, <3>3, <3>4, <3>5, <3>6, <3>7
  <2>27. ASSUME FlushFails PROVE TypeOK'
    <3>1. DiskType'
      BY <2>27 DEF FlushFails, Degrade, StopWatcher, Reschedule
    <3>2. KernelType'
      BY <2>27 DEF FlushFails, Degrade, StopWatcher, Reschedule
    <3>3. WatchType'
      BY <2>27 DEF FlushFails, Degrade, StopWatcher, Reschedule
    <3>4. CountersType'
      <4>1. CASE syncFailureRetryCount + 1 > MaxSyncFailureRetries /\ degradedReason = "none"
        BY <2>27, <4>1 DEF FlushFails, Degrade, StopWatcher
      <4>2. CASE ~(syncFailureRetryCount + 1 > MaxSyncFailureRetries /\ degradedReason = "none")
        <5>1. syncFailureRetryCount + 1 <= MaxSyncFailureRetries
          BY <2>27, <4>2 DEF FlushFails, QuietWhenStopped
        <5>2. /\ lockRetryCount' = 0
              /\ syncFailureRetryCount' = syncFailureRetryCount + 1
          BY <2>27, <4>2 DEF FlushFails
        <5>. QED
          BY <5>1, <5>2
      <4>. QED
        BY <4>1, <4>2
    <3>5. PendingType'
      BY <2>27 DEF FlushFails, Degrade, StopWatcher, Reschedule
    <3>6. FlushType'
      BY <2>27 DEF FlushFails, Degrade, StopWatcher, Reschedule
    <3>7. PassType'
      BY <2>27 DEF FlushFails, Degrade, StopWatcher, Reschedule
    <3>. QED
      BY <3>1, <3>2, <3>3, <3>4, <3>5, <3>6, <3>7
  <2>28. ASSUME ListDirFails PROVE TypeOK'
    BY <2>28 DEF ListDirFails, Subdirectories
  <2>29. CASE UNCHANGED vars
    BY <2>29 DEF vars
  <2>. QED
    BY <2>1, <2>2, <2>3, <2>4, <2>5, <2>6, <2>7, <2>8, <2>9, <2>10,
       <2>11, <2>12, <2>13, <2>14, <2>15, <2>16, <2>17, <2>18, <2>19, <2>20,
       <2>21, <2>22, <2>23, <2>24, <2>25, <2>26, <2>27, <2>28, <2>29
    DEF Next, FileSystemStep, WatchTreeStep, PassStep
<1>. QED
  BY <1>1, <1>2, QuietInductive, PTL DEF Spec

\* Whatever is in flight when the watcher stops, it stays down: a resuming flush or a
\* late timer begins no sync, arms no timer and does not degrade it.
THEOREM StaysStopped == Spec => StopIsFinal
<1>. USE TreeAssumption, BoundAssumption
     DEF world, counters, watchSet, flushing, life, pass, gaps
<1>1. QuietWhenStopped /\ [Next]_vars /\ stopped /\ stopped'
        => /\ syncing' => syncing
           /\ debounceTimer' => debounceTimer
           /\ degradedReason' = degradedReason
  <2>. SUFFICES ASSUME QuietWhenStopped, [Next]_vars, stopped, stopped'
                PROVE  /\ syncing' => syncing
                       /\ debounceTimer' => debounceTimer
                       /\ degradedReason' = degradedReason
    OBVIOUS
  <2>1. CASE FileSystemStep
    BY <2>1 DEF FileSystemStep, WriteFile, DeleteFile, CreateDir, RemoveDir, OtherWriterToggles
  <2>2. ~Start /\ ~Unwatch /\ ~WatchTreeStep /\ ~ListDirFails
    BY DEF Start, Unwatch, ActiveWatch, WatchTreeStep, SkipDir, WatchDir, ListDir,
           FinishStart, ListDirFails, QuietWhenStopped
  <2>3. ASSUME NEW d \in Dirs PROVE ~WatchDirFails(d) /\ ~DirWatchError(d) /\ ~DirEvent(d)
    BY DEF WatchDirFails, DirWatchError, DirEvent, ActiveWatch, QuietWhenStopped
  <2>4. ASSUME NEW f \in Files PROVE ~FileEvent(f)
    BY DEF FileEvent, ActiveWatch
  <2>5. CASE Flush
    BY <2>5 DEF Flush, MayFlush
  <2>6. CASE BeginPass("watcher") \/ BeginPass("direct")
    BY <2>6 DEF BeginPass
  <2>7. CASE PassStep
    <3>1. CASE FlushSucceeds
      BY <3>1 DEF FlushSucceeds
    <3>2. CASE UNCHANGED <<flushing, life>>
      BY <3>2
    <3>. QED
      BY <2>7, <3>1, <3>2 DEF PassStep, Scan, CheckRemoval, CheckChange, IndexFile,
                              RemovalsDone, ChangesDone, DirectPassEnds
  <2>8. CASE FlushLockUnavailable
    <3>1. ~LockBudgetSpent
      BY <2>8 DEF FlushLockUnavailable, LockBudgetSpent, QuietWhenStopped
    <3>. QED
      BY <2>8, <3>1 DEF FlushLockUnavailable, Reschedule
  <2>9. CASE FlushFails
    <3>1. ~(syncFailureRetryCount + 1 > MaxSyncFailureRetries)
      BY <2>9 DEF FlushFails, QuietWhenStopped
    <3>. QED
      BY <2>9, <3>1 DEF FlushFails, Reschedule
  <2>10. CASE UNCHANGED vars
    BY <2>10 DEF vars
  <2>. QED
    BY <2>1, <2>2, <2>3, <2>4, <2>5, <2>6, <2>7, <2>8, <2>9, <2>10 DEF Next
<1>. QED
  BY <1>1, QuietInductive, PTL DEF Spec, StopIsFinal

\* Pending files always have a sync running or a timer to start one.
THEOREM WakeupKept == Spec => []NoLostWakeup
<1>. USE TreeAssumption, BoundAssumption
     DEF NoLostWakeup, ActiveWatch, Pending,
         world, counters, watchSet, flushing, life, pass, gaps
<1>1. Init => NoLostWakeup
  BY DEF Init
<1>2. NoLostWakeup /\ QuietWhenStopped /\ [Next]_vars => NoLostWakeup'
  <2>. SUFFICES ASSUME NoLostWakeup, QuietWhenStopped, [Next]_vars PROVE NoLostWakeup'
    OBVIOUS
  <2>1. ASSUME NEW f \in Files, WriteFile(f) PROVE NoLostWakeup'
    BY <2>1 DEF WriteFile, Announce
  <2>2. ASSUME NEW f \in Files, DeleteFile(f) PROVE NoLostWakeup'
    BY <2>2 DEF DeleteFile, Announce, TypeOK, DiskType
  <2>3. ASSUME NEW d \in Dirs, CreateDir(d) PROVE NoLostWakeup'
    BY <2>3 DEF CreateDir
  <2>4. ASSUME NEW d \in Dirs, RemoveDir(d) PROVE NoLostWakeup'
    BY <2>4 DEF RemoveDir
  <2>5. ASSUME OtherWriterToggles PROVE NoLostWakeup'
    BY <2>5 DEF OtherWriterToggles
  <2>6. ASSUME Start PROVE NoLostWakeup'
    BY <2>6 DEF Start, QuietWhenStopped
  <2>7. ASSUME Unwatch PROVE NoLostWakeup'
    BY <2>7 DEF Unwatch, StopWatcher
  <2>8. ASSUME NEW d \in Dirs, SkipDir(d) PROVE NoLostWakeup'
    BY <2>8 DEF SkipDir
  <2>9. ASSUME NEW d \in Dirs, WatchDir(d) PROVE NoLostWakeup'
    BY <2>9 DEF WatchDir, Unwatchable
  <2>10. ASSUME ListDir PROVE NoLostWakeup'
    BY <2>10 DEF ListDir, Subdirectories, MarkedFiles
  <2>11. ASSUME FinishStart PROVE NoLostWakeup'
    BY <2>11 DEF FinishStart
  <2>12. ASSUME NEW d \in Dirs, WatchDirFails(d) PROVE NoLostWakeup'
    <3>1. CASE \E rearmed : Degrade("exhausted", rearmed)
      BY <3>1 DEF Degrade, StopWatcher
    <3>2. CASE UNCHANGED <<flushing, life>>
      BY <3>2
    <3>. QED
      BY <2>12, <3>1, <3>2 DEF WatchDirFails
  <2>13. ASSUME NEW d \in Dirs, DirWatchError(d) PROVE NoLostWakeup'
    BY <2>13 DEF DirWatchError, Degrade, StopWatcher
  <2>14. ASSUME NEW d \in Dirs, DirEvent(d) PROVE NoLostWakeup'
    BY <2>14 DEF DirEvent
  <2>15. ASSUME NEW f \in Files, FileEvent(f) PROVE NoLostWakeup'
    BY <2>15 DEF FileEvent, EventStamps
  <2>16. ASSUME Flush PROVE NoLostWakeup'
    BY <2>16 DEF Flush, MayFlush
  <2>17. ASSUME NEW o \in {"watcher", "direct"}, BeginPass(o) PROVE NoLostWakeup'
    BY <2>17 DEF BeginPass
  <2>18. ASSUME Scan PROVE NoLostWakeup'
    BY <2>18 DEF Scan
  <2>19. ASSUME NEW f \in Files, CheckRemoval(f) PROVE NoLostWakeup'
    BY <2>19 DEF CheckRemoval
  <2>20. ASSUME NEW f \in Files, CheckChange(f) PROVE NoLostWakeup'
    BY <2>20 DEF CheckChange
  <2>21. ASSUME NEW f \in Files, IndexFile(f) PROVE NoLostWakeup'
    BY <2>21 DEF IndexFile
  <2>22. ASSUME RemovalsDone PROVE NoLostWakeup'
    BY <2>22 DEF RemovalsDone
  <2>23. ASSUME ChangesDone PROVE NoLostWakeup'
    BY <2>23 DEF ChangesDone
  <2>24. ASSUME DirectPassEnds PROVE NoLostWakeup'
    BY <2>24 DEF DirectPassEnds
  <2>25. ASSUME FlushSucceeds PROVE NoLostWakeup'
    BY <2>25 DEF FlushSucceeds, StillPending, PassComplete
  <2>26. ASSUME FlushLockUnavailable PROVE NoLostWakeup'
    <3>1. CASE Degrade("lock", FALSE)
      BY <3>1 DEF Degrade, StopWatcher
    <3>2. CASE Reschedule
      BY <3>2 DEF Reschedule
    <3>. QED
      BY <2>26, <3>1, <3>2 DEF FlushLockUnavailable
  <2>27. ASSUME FlushFails PROVE NoLostWakeup'
    <3>1. CASE Degrade("failure", FALSE)
      BY <3>1 DEF Degrade, StopWatcher
    <3>2. CASE Reschedule
      BY <3>2 DEF Reschedule
    <3>. QED
      BY <2>27, <3>1, <3>2 DEF FlushFails
  <2>28. ASSUME ListDirFails PROVE NoLostWakeup'
    BY <2>28 DEF ListDirFails
  <2>29. CASE UNCHANGED vars
    BY <2>29 DEF vars
  <2>. QED
    BY <2>1, <2>2, <2>3, <2>4, <2>5, <2>6, <2>7, <2>8, <2>9, <2>10,
       <2>11, <2>12, <2>13, <2>14, <2>15, <2>16, <2>17, <2>18, <2>19, <2>20,
       <2>21, <2>22, <2>23, <2>24, <2>25, <2>26, <2>27, <2>28, <2>29
    DEF Next, FileSystemStep, WatchTreeStep, PassStep
<1>. QED
  BY <1>1, <1>2, QuietInductive, PTL DEF Spec

\* Whatever the bounds and the tree, an edit the pass in progress has not read, or will
\* not see, is known to the watcher: the strengthening that makes the banner right.
THEOREM StalenessCovered == Spec => []Coverage
<1>. USE TreeAssumption, BoundAssumption
     DEF Coverage, PassOwned, ListingCurrent, ReadOrAnnounced,
         WritesAreNew, RemovalsAreStale, StaleOrAnnounced,
         Announced, Unread, Unlisted, Stale, ActiveWatch,
         world, counters, watchSet, flushing, life, pass, gaps
<1>1. Init => Coverage
  BY DEF Init
<1>2. Coverage /\ QuietWhenStopped /\ TypeOK /\ [Next]_vars => Coverage'
  <2>. SUFFICES ASSUME Coverage, QuietWhenStopped, TypeOK, [Next]_vars PROVE Coverage'
    OBVIOUS
  <2>1. ASSUME NEW f \in Files, WriteFile(f) PROVE Coverage'
    BY <2>1 DEF WriteFile, Announce, TypeOK, DiskType, PassType
  <2>2. ASSUME NEW f \in Files, DeleteFile(f) PROVE Coverage'
    BY <2>2 DEF DeleteFile, Announce, TypeOK, DiskType
  <2>3. ASSUME NEW d \in Dirs, CreateDir(d) PROVE Coverage'
    BY <2>3 DEF CreateDir
  <2>4. ASSUME NEW d \in Dirs, RemoveDir(d) PROVE Coverage'
    BY <2>4 DEF RemoveDir
  <2>5. ASSUME OtherWriterToggles PROVE Coverage'
    BY <2>5 DEF OtherWriterToggles
  <2>6. ASSUME Start PROVE Coverage'
    BY <2>6 DEF Start, QuietWhenStopped
  <2>7. ASSUME Unwatch PROVE Coverage'
    BY <2>7 DEF Unwatch, StopWatcher
  <2>8. ASSUME NEW d \in Dirs, SkipDir(d) PROVE Coverage'
    BY <2>8 DEF SkipDir
  <2>9. ASSUME NEW d \in Dirs, WatchDir(d) PROVE Coverage'
    BY <2>9 DEF WatchDir, Unwatchable
  <2>10. ASSUME ListDir PROVE Coverage'
    BY <2>10 DEF ListDir, Subdirectories, MarkedFiles
  <2>11. ASSUME FinishStart PROVE Coverage'
    BY <2>11 DEF FinishStart
  <2>12. ASSUME NEW d \in Dirs, WatchDirFails(d) PROVE Coverage'
    <3>1. CASE \E rearmed \in BOOLEAN : Degrade("exhausted", rearmed)
      BY <2>12, <3>1 DEF WatchDirFails, Degrade, StopWatcher
    <3>2. CASE UNCHANGED <<disk, writes, dirs, kernel, events, flushing, life, pass, listing, missed, skipped>>
      <4>1. PassOwned'
        BY <3>2
      <4>2. ListingCurrent'
        BY <3>2
      <4>3. ReadOrAnnounced'
        BY <3>2
      <4>4. WritesAreNew'
        BY <3>2
      <4>5. RemovalsAreStale'
        BY <3>2
      <4>6. StaleOrAnnounced'
        BY <3>2
      <4>. QED
        BY <4>1, <4>2, <4>3, <4>4, <4>5, <4>6
    <3>. QED
      BY <2>12, <3>1, <3>2 DEF WatchDirFails, Unwinds
  <2>13. ASSUME NEW d \in Dirs, DirWatchError(d) PROVE Coverage'
    <3>1. CASE Degrade("exhausted", FALSE)
      BY <2>13, <3>1 DEF DirWatchError, Degrade, StopWatcher
    <3>2. CASE /\ kernel' \subseteq kernel
               /\ UNCHANGED <<disk, writes, dirs, events, flushing, life, pass, listing, missed, skipped>>
      <4>1. PassOwned'
        BY <3>2
      <4>2. ListingCurrent'
        BY <3>2
      <4>3. ReadOrAnnounced'
        BY <3>2
      <4>4. WritesAreNew'
        BY <3>2
      <4>5. RemovalsAreStale'
        BY <3>2
      <4>6. StaleOrAnnounced'
        BY <3>2
      <4>. QED
        BY <4>1, <4>2, <4>3, <4>4, <4>5, <4>6
    <3>. QED
      BY <2>13, <3>1, <3>2 DEF DirWatchError
  <2>14. ASSUME NEW d \in Dirs, DirEvent(d) PROVE Coverage'
    BY <2>14 DEF DirEvent
  <2>15. ASSUME NEW f \in Files, FileEvent(f) PROVE Coverage'
    BY <2>15 DEF FileEvent, EventStamps, TypeOK, PendingType
  <2>16. ASSUME Flush PROVE Coverage'
    BY <2>16 DEF Flush, MayFlush, Pending
  <2>17. ASSUME NEW o \in {"watcher", "direct"}, BeginPass(o) PROVE Coverage'
    BY <2>17 DEF BeginPass, JSIdle, QuietWhenStopped
  <2>18. ASSUME Scan PROVE Coverage'
    BY <2>18 DEF Scan
  <2>19. ASSUME NEW f \in Files, CheckRemoval(f) PROVE Coverage'
    BY <2>19 DEF CheckRemoval, TypeOK, DiskType, PassType
  <2>20. ASSUME NEW f \in Files, CheckChange(f) PROVE Coverage'
    BY <2>20 DEF CheckChange
  <2>21. ASSUME NEW f \in Files, IndexFile(f) PROVE Coverage'
    BY <2>21 DEF IndexFile, TypeOK, PassType
  <2>22. ASSUME RemovalsDone PROVE Coverage'
    BY <2>22 DEF RemovalsDone
  <2>23. ASSUME ChangesDone PROVE Coverage'
    BY <2>23 DEF ChangesDone
  <2>24. ASSUME DirectPassEnds PROVE Coverage'
    BY <2>24 DEF DirectPassEnds
  <2>25. ASSUME FlushSucceeds PROVE Coverage'
    BY <2>25 DEF FlushSucceeds, StillPending, PassComplete
  <2>26. ASSUME FlushLockUnavailable PROVE Coverage'
    BY <2>26 DEF FlushLockUnavailable, LockBudgetSpent, Degrade, StopWatcher, Reschedule, ZeroShape, PassComplete
  <2>27. ASSUME FlushFails PROVE Coverage'
    BY <2>27 DEF FlushFails, Degrade, StopWatcher, Reschedule
  <2>28. ASSUME ListDirFails PROVE Coverage'
    BY <2>28 DEF ListDirFails, Subdirectories
  <2>29. CASE UNCHANGED vars
    BY <2>29 DEF vars
  <2>. QED
    BY <2>1, <2>2, <2>3, <2>4, <2>5, <2>6, <2>7, <2>8, <2>9, <2>10,
       <2>11, <2>12, <2>13, <2>14, <2>15, <2>16, <2>17, <2>18, <2>19, <2>20,
       <2>21, <2>22, <2>23, <2>24, <2>25, <2>26, <2>27, <2>28, <2>29
    DEF Next, FileSystemStep, WatchTreeStep, PassStep
<1>. QED
  BY <1>1, <1>2, QuietInductive, TypeCorrect, PTL DEF Spec

\* The staleness banner is never silent about a file whose index rows are out of date,
\* but for what changed unwatched or could not be read.
THEOREM BannerTruthful == Spec => []StalenessAnnounced
<1>1. StaleOrAnnounced => StalenessAnnounced
  BY DEF StaleOrAnnounced, StalenessAnnounced, Announced
<1>. QED
  BY <1>1, StalenessCovered, PTL DEF Coverage

\* A flush that ends clean drops no file from the pending set that changed after the
\* pass had read it.
THEOREM ClearingIsSound == Spec => ClearedMeansIndexed
<1>1. Coverage /\ QuietWhenStopped /\ FlushSucceeds =>
        \A f \in Files :
          /\ pendingFiles[f] # "no" /\ pendingFiles'[f] = "no" /\ Stale(f)
          => \/ f \in events \union skipped \union missed
             \/ Unlisted(DirOf[f])
  <2>. SUFFICES ASSUME Coverage, QuietWhenStopped, FlushSucceeds, NEW f \in Files,
                       pendingFiles[f] # "no", pendingFiles'[f] = "no", Stale(f)
                PROVE  Announced(f)
    BY DEF Announced
  <2>1. pendingFiles[f] # "after"
    BY DEF FlushSucceeds, StillPending
  <2>2. ~Unread(f)
    BY DEF FlushSucceeds, PassComplete, Unread
  <2>3. owner = "watcher" /\ ActiveWatch
    BY DEF FlushSucceeds, QuietWhenStopped, Pending, Coverage, PassOwned, ActiveWatch
  <2>. QED
    BY <2>1, <2>2, <2>3 DEF Coverage, ReadOrAnnounced
<1>. QED
  BY <1>1, StalenessCovered, QuietInductive, PTL DEF ClearedMeansIndexed

-----------------------------------------------------------------------------
(* The watched directory tree: for every tree in which no directory is     *)
(* removed and created again, every directory is found, and so a watcher   *)
(* with nothing left to do has a fresh index.                              *)

\* The inductive part: going up from an unwatched directory one meets a place the walk
\* or an event will start from.
LEMMA ReachInductive ==
    ASSUME MaxCreations = 1
    PROVE  Spec => []Reach
<1>. USE TreeAssumption, BoundAssumption
     DEF Reach, TreeClosed, WatchesAreLive, RootCovered, SubtreesCovered, Unlisted,
         world, counters, watchSet, flushing, life, pass, gaps
<1>1. Init => Reach
  BY DEF Init
<1>2. Reach /\ QuietWhenStopped /\ TypeOK /\ [Next]_vars => Reach'
  <2>. SUFFICES ASSUME Reach, QuietWhenStopped, TypeOK, [Next]_vars PROVE Reach'
    OBVIOUS
  <2>1. ASSUME NEW f \in Files, WriteFile(f) PROVE Reach'
    BY <2>1 DEF WriteFile, Announce
  <2>2. ASSUME NEW f \in Files, DeleteFile(f) PROVE Reach'
    BY <2>2 DEF DeleteFile, Announce
  <2>3. ASSUME NEW d \in Dirs, CreateDir(d) PROVE Reach'
    BY <2>3 DEF CreateDir, TypeOK, DiskType
  <2>4. ASSUME NEW d \in Dirs, RemoveDir(d) PROVE Reach'
    BY <2>4 DEF RemoveDir
  <2>5. ASSUME OtherWriterToggles PROVE Reach'
    BY <2>5 DEF OtherWriterToggles
  <2>6. ASSUME Start PROVE Reach'
    BY <2>6 DEF Start, QuietWhenStopped
  <2>7. ASSUME Unwatch PROVE Reach'
    BY <2>7 DEF Unwatch, StopWatcher
  <2>8. ASSUME NEW d \in Dirs, SkipDir(d) PROVE Reach'
    BY <2>8 DEF SkipDir
  <2>9. ASSUME NEW d \in Dirs, WatchDir(d) PROVE Reach'
    <3>1. /\ dirWatchers' = dirWatchers \union {d} /\ kernel' = kernel \union {d}
          /\ listing' = d /\ walk' = walk \ {d} /\ d \in dirs
          /\ UNCHANGED <<dirs, created, events, blind, stopped>>
      BY <2>9 DEF WatchDir, Unwatchable
    <3>2. TreeClosed' /\ WatchesAreLive' /\ RootCovered'
      BY <3>1
    <3>3. SubtreesCovered'
      BY <3>1, <2>9 DEF WatchDir, TypeOK, DiskType
    <3>. QED
      BY <3>2, <3>3
  <2>10. ASSUME ListDir PROVE Reach'
    BY <2>10 DEF ListDir, Subdirectories
  <2>11. ASSUME ListDirFails PROVE Reach'
    BY <2>11 DEF ListDirFails, Subdirectories
  <2>12. ASSUME FinishStart PROVE Reach'
    BY <2>12 DEF FinishStart
  <2>13. ASSUME NEW d \in Dirs, WatchDirFails(d) PROVE Reach'
    <3>1. CASE \E rearmed \in BOOLEAN : Degrade("exhausted", rearmed)
      BY <2>13, <3>1 DEF WatchDirFails, Degrade, StopWatcher
    <3>2. CASE /\ walk' = walk \ {d} /\ blind' = blind \union {d}
               /\ UNCHANGED <<dirs, created, dirWatchers, kernel, events, listing, stopped>>
      <4>1. TreeClosed' /\ WatchesAreLive' /\ RootCovered'
        BY <3>2
      <4>2. SubtreesCovered'
        BY <3>2
      <4>. QED
        BY <4>1, <4>2
    <3>. QED
      BY <2>13, <3>1, <3>2 DEF WatchDirFails, Unwinds
  <2>14. ASSUME NEW d \in Dirs, DirWatchError(d) PROVE Reach'
    <3>1. CASE Degrade("exhausted", FALSE)
      BY <2>14, <3>1 DEF DirWatchError, Degrade, StopWatcher
    <3>2. CASE /\ dirWatchers' = dirWatchers \ {d} /\ kernel' = kernel \ {d}
               /\ blind' = blind \union {d}
               /\ UNCHANGED <<dirs, created, events, walk, listing, stopped>>
      <4>1. TreeClosed' /\ WatchesAreLive' /\ RootCovered'
        BY <3>2
      <4>2. SubtreesCovered'
        BY <3>2
      <4>. QED
        BY <4>1, <4>2
    <3>. QED
      BY <2>14, <3>1, <3>2 DEF DirWatchError
  <2>15. ASSUME NEW d \in Dirs, DirEvent(d) PROVE Reach'
    BY <2>15 DEF DirEvent, JSIdle, ActiveWatch, TypeOK, WatchType
  <2>16. ASSUME NEW f \in Files, FileEvent(f) PROVE Reach'
    <3>1. /\ events' = events \ {f}
          /\ UNCHANGED <<dirs, created, dirWatchers, kernel, walk, listing, blind, stopped>>
      BY <2>16 DEF FileEvent
    <3>2. f \notin Dirs /\ dirs \subseteq Dirs
      BY TreeAssumption DEF TypeOK, DiskType
    <3>3. TreeClosed' /\ WatchesAreLive' /\ RootCovered'
      BY <3>1
    <3>4. SubtreesCovered'
      BY <3>1, <3>2
    <3>. QED
      BY <3>3, <3>4
  <2>17. ASSUME Flush PROVE Reach'
    BY <2>17 DEF Flush
  <2>18. ASSUME NEW o \in {"watcher", "direct"}, BeginPass(o) PROVE Reach'
    BY <2>18 DEF BeginPass
  <2>19. ASSUME Scan PROVE Reach'
    BY <2>19 DEF Scan
  <2>20. ASSUME NEW f \in Files, CheckRemoval(f) PROVE Reach'
    BY <2>20 DEF CheckRemoval
  <2>21. ASSUME NEW f \in Files, CheckChange(f) PROVE Reach'
    BY <2>21 DEF CheckChange
  <2>22. ASSUME NEW f \in Files, IndexFile(f) PROVE Reach'
    BY <2>22 DEF IndexFile
  <2>23. ASSUME RemovalsDone PROVE Reach'
    BY <2>23 DEF RemovalsDone
  <2>24. ASSUME ChangesDone PROVE Reach'
    BY <2>24 DEF ChangesDone
  <2>25. ASSUME DirectPassEnds PROVE Reach'
    BY <2>25 DEF DirectPassEnds
  <2>26. ASSUME FlushSucceeds PROVE Reach'
    BY <2>26 DEF FlushSucceeds
  <2>27. ASSUME FlushLockUnavailable PROVE Reach'
    BY <2>27 DEF FlushLockUnavailable, Degrade, StopWatcher, Reschedule
  <2>28. ASSUME FlushFails PROVE Reach'
    BY <2>28 DEF FlushFails, Degrade, StopWatcher, Reschedule
  <2>29. CASE UNCHANGED vars
    BY <2>29 DEF vars
  <2>. QED
    BY <2>1, <2>2, <2>3, <2>4, <2>5, <2>6, <2>7, <2>8, <2>9, <2>10, 
       <2>11, <2>12, <2>13, <2>14, <2>15, <2>16, <2>17, <2>18, <2>19, <2>20, 
       <2>21, <2>22, <2>23, <2>24, <2>25, <2>26, <2>27, <2>28, <2>29
    DEF Next, FileSystemStep, WatchTreeStep, PassStep
<1>. QED
  BY <1>1, <1>2, QuietInductive, TypeCorrect, PTL DEF Spec

\* While the watcher is active, a directory without a watch is about to be walked, its
\* event is queued, its parent is yet to be read, or the watcher gave up on it.
THEOREM SubtreesFound ==
    ASSUME MaxCreations = 1
    PROVE  Spec => []SubtreesAnnounced
<1>1. Reach => SubtreesAnnounced
  BY DEF Reach, SubtreesCovered, SubtreesAnnounced, ActiveWatch
<1>. QED
  BY <1>1, ReachInductive, PTL

\* A watcher with nothing queued, nothing pending and no directory given up has every
\* directory under watch, so the index is the disk.
THEOREM SettledMeansFresh ==
    ASSUME MaxCreations = 1
    PROVE  Spec => []SettledIsFresh
<1>1. Reach /\ StalenessAnnounced /\ TypeOK => SettledIsFresh
  <2>. SUFFICES ASSUME Reach, StalenessAnnounced, TypeOK,
                       ActiveWatch, JSIdle, events = {}, Pending = {}, blind = {},
                       NEW f \in Files, Stale(f)
                PROVE  f \in missed \union skipped
    BY DEF SettledIsFresh
  <2>. DEFINE unwatched == dirs \ ({Root} \union kernel)
  <2>1. walk = {} /\ listing = NoDir /\ ~stopped /\ NoDir \notin Dirs
    BY TreeAssumption DEF JSIdle, ActiveWatch
  <2>2. Root \in kernel
    BY <2>1 DEF Reach, RootCovered
  <2>3. ASSUME NEW d \in unwatched PROVE ParentOf[d] \in unwatched
    BY <2>1, <2>2, <2>3 DEF Reach, SubtreesCovered, Unlisted, TypeOK, DiskType
  <2>4. unwatched = {}
    <3>1. unwatched \in SUBSET (Dirs \ {Root})
      BY DEF TypeOK, DiskType
    <3>. HIDE DEF unwatched
    <3>. QED
      BY <2>3, <3>1, TreeAssumption
  <2>5. ~Unlisted(DirOf[f])
    BY <2>1, <2>2, <2>4, TreeAssumption DEF Unlisted, TypeOK, DiskType
  <2>6. pendingFiles[f] = "no"
    BY DEF Pending
  <2>. QED
    BY <2>5, <2>6 DEF StalenessAnnounced
<1>. QED
  BY <1>1, ReachInductive, BannerTruthful, TypeCorrect, PTL
============================================================================
