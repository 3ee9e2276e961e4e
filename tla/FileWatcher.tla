---------------------------- MODULE FileWatcher ----------------------------
(***************************************************************************)
(* The auto-sync loop of CodeGraph: a watcher (src/sync/watcher.ts) that   *)
(* turns file-system events into debounced syncs, the sync pass it runs    *)
(* (CodeGraph.sync, ExtractionOrchestrator.sync), and the world they race  *)
(* with: editors, other processes that hold the write lock, and the        *)
(* inotify queue.                                                          *)
(*                                                                         *)
(* One directory watch per directory, as on Linux.  The single recursive   *)
(* watch of macOS and Windows is the instance with Dirs = {Root}.          *)
(*                                                                         *)
(* JavaScript runs one callback at a time: while watchTree walks, no other *)
(* handler runs (JSIdle), but the file system moves on.  A sync pass is    *)
(* split wherever the code awaits or touches the disk.                     *)
(***************************************************************************)
EXTENDS Naturals, FiniteSets

CONSTANTS
    Dirs, Root, ParentOf,  \* the directories that may exist, and their tree
    Files, DirOf,          \* the source files, and the directory of each
    NoDir,                 \* "no directory": a value outside Dirs
    MaxDirWatches,         \* maxDirWatches()
    MaxLockRetries, MaxSyncFailureRetries,
    MaxWrites,             \* bound: versions ever written to disk
    MaxFaults,             \* bound: watch errors
    MaxCreations           \* bound: times one directory is created

ASSUME TreeAssumption ==
    /\ Root \in Dirs /\ NoDir \notin Dirs
    /\ ParentOf \in [Dirs \ {Root} -> Dirs]
    /\ \A ds \in SUBSET (Dirs \ {Root}) :  \* going up, one reaches the root
          ds # {} => \E d \in ds : ParentOf[d] \notin ds
    /\ DirOf \in [Files -> Dirs]
    /\ Dirs \intersect Files = {}

ASSUME BoundAssumption ==
    /\ MaxDirWatches \in Nat /\ MaxLockRetries \in Nat \ {0}
    /\ MaxSyncFailureRetries \in Nat \ {0}
    /\ MaxWrites \in Nat /\ MaxFaults \in Nat /\ MaxCreations \in Nat

VARIABLES
    \* The world.
    disk,         \* disk[f]: the version of f on disk, 0 when there is no f
    writes,       \* versions written so far
    dirs,         \* directories that exist
    created,      \* created[d]: times d was created
    kernel,       \* directories with a live inotify watch
    events,       \* queued inotify events, named by the entry they are about
    faults,       \* watch errors so far
    otherWriter,  \* another process holds the write lock
    \* The FileWatcher object.
    dirWatchers, degradedReason, inotifyLimitWarned, lockRetryCount,
    syncFailureRetryCount, debounceTimer, pendingFiles, syncing, stopped, ready,
    walk, listing,  \* watchTree in progress: directories to visit, the one being read
    descending,     \* and whether it has called itself
    \* The sync pass, and what it keeps current.
    phase, owner, listed, todo, filesToIndex, indexed,
    \* Why an edit may go unannounced (bookkeeping of this specification only).
    blind,        \* directories the watcher gave up on or lost
    missed,       \* files changed, or there to be found, while nobody looked
    skipped       \* files the last pass could not read or parse

world == <<disk, writes, dirs, created, kernel, events, faults, otherWriter>>
counters == <<lockRetryCount, syncFailureRetryCount>>
watchSet == <<dirWatchers, inotifyLimitWarned, walk, listing, descending>>
flushing == <<debounceTimer, pendingFiles, syncing>>
life == <<degradedReason, stopped, ready>>
pass == <<phase, owner, listed, todo, filesToIndex, indexed>>
gaps == <<blind, missed, skipped>>
vars == <<world, counters, watchSet, flushing, life, pass, gaps>>

(***************************************************************************)
(* lastSeenMs and syncStartedMs are only ever compared with each other:    *)
(* "before" stands for lastSeenMs <= syncStartedMs, "after" for the rest.  *)
(***************************************************************************)
Stamps == {"no", "before", "after"}

Pending == {f \in Files : pendingFiles[f] # "no"}
Stale(f) == disk[f] # indexed[f]
ActiveWatch == ready /\ ~stopped
JSIdle == stopped \/ (ready /\ walk = {} /\ listing = NoDir)

DiskType ==
    /\ disk \in [Files -> Nat] /\ writes \in Nat
    /\ dirs \subseteq Dirs /\ created \in [Dirs -> Nat]

KernelType ==
    /\ kernel \subseteq dirs /\ events \subseteq Files \union Dirs
    /\ faults \in Nat /\ otherWriter \in BOOLEAN

WatchType ==
    /\ dirWatchers \subseteq Dirs /\ inotifyLimitWarned \in BOOLEAN
    /\ walk \subseteq Dirs /\ listing \in Dirs \union {NoDir} /\ descending \in BOOLEAN
    /\ degradedReason \in {"none", "exhausted", "lock", "failure"}
    /\ stopped \in BOOLEAN /\ ready \in BOOLEAN
    /\ blind \subseteq Dirs /\ missed \subseteq Files /\ skipped \subseteq Files

CountersType ==
    /\ lockRetryCount \in 0..MaxLockRetries
    /\ syncFailureRetryCount \in 0..MaxSyncFailureRetries

PendingType == pendingFiles \in [Files -> Stamps]
FlushType == debounceTimer \in BOOLEAN /\ syncing \in BOOLEAN

PassType ==
    /\ phase \in {"idle", "scan", "removals", "changes", "index"}
    /\ owner \in {"watcher", "direct"}
    /\ listed \subseteq Files /\ todo \subseteq Files /\ filesToIndex \subseteq Files
    /\ indexed \in [Files -> Nat]

TypeOK ==
    /\ DiskType /\ KernelType /\ WatchType
    /\ CountersType /\ PendingType /\ FlushType /\ PassType

\* The index is complete and nothing watches: the state after `codegraph index`.
Init ==
    /\ \E present \in SUBSET Files, d0 \in SUBSET Dirs :
          /\ Root \in d0
          /\ \A d \in d0 \ {Root} : ParentOf[d] \in d0
          /\ \A f \in present : DirOf[f] \in d0
          /\ disk = [f \in Files |-> IF f \in present THEN 1 ELSE 0]
          /\ dirs = d0
          /\ created = [d \in Dirs |-> IF d \in d0 THEN 1 ELSE 0]
    /\ indexed = disk
    /\ writes = 1
    /\ kernel = {} /\ events = {} /\ faults = 0 /\ otherWriter = FALSE
    /\ dirWatchers = {} /\ inotifyLimitWarned = FALSE
    /\ degradedReason = "none" /\ lockRetryCount = 0 /\ syncFailureRetryCount = 0
    /\ debounceTimer = FALSE /\ pendingFiles = [f \in Files |-> "no"]
    /\ syncing = FALSE /\ stopped = TRUE /\ ready = FALSE
    /\ walk = {} /\ listing = NoDir /\ descending = FALSE
    /\ phase = "idle" /\ owner = "direct"
    /\ listed = {} /\ todo = {} /\ filesToIndex = {}
    /\ blind = {} /\ missed = {} /\ skipped = {}

----------------------------------------------------------------------------
(* The file system.  An inotify watch on a directory reports its entries.  *)

Announce(f) ==
    /\ events' = events \union {f}
    /\ missed' = missed \ {f}
    /\ skipped' = skipped \ {f}

\* An editor writes f; a write in a directory nobody watches yet is silent.
WriteFile(f) ==
    /\ DirOf[f] \in dirs /\ writes < MaxWrites
    /\ writes' = writes + 1
    /\ disk' = [disk EXCEPT ![f] = writes']
    /\ IF DirOf[f] \in kernel THEN Announce(f) ELSE UNCHANGED <<events, missed, skipped>>
    /\ UNCHANGED <<dirs, created, kernel, faults, otherWriter, blind>>
    /\ UNCHANGED <<counters, watchSet, flushing, life, pass>>

DeleteFile(f) ==
    /\ disk[f] # 0
    /\ disk' = [disk EXCEPT ![f] = 0]
    /\ IF DirOf[f] \in kernel
       THEN Announce(f)
       ELSE missed' = missed \union {f} /\ UNCHANGED <<events, skipped>>
    /\ UNCHANGED <<writes, dirs, created, kernel, faults, otherWriter, blind>>
    /\ UNCHANGED <<counters, watchSet, flushing, life, pass>>

CreateDir(d) ==
    /\ d \in Dirs \ dirs /\ d # Root
    /\ ParentOf[d] \in dirs /\ created[d] < MaxCreations
    /\ dirs' = dirs \union {d}
    /\ created' = [created EXCEPT ![d] = @ + 1]
    /\ events' = IF ParentOf[d] \in kernel THEN events \union {d} ELSE events
    /\ UNCHANGED <<disk, writes, kernel, faults, otherWriter>>
    /\ UNCHANGED <<counters, watchSet, flushing, life, pass, gaps>>

\* rmdir takes the kernel's watch with it; the FSWatcher object stays as it is.
RemoveDir(d) ==
    /\ d \in dirs \ {Root}
    /\ \A f \in Files : DirOf[f] = d => disk[f] = 0
    /\ \A e \in dirs \ {Root} : ParentOf[e] # d
    /\ dirs' = dirs \ {d}
    /\ kernel' = kernel \ {d}
    /\ events' = IF ParentOf[d] \in kernel THEN events \union {d} ELSE events
    /\ UNCHANGED <<disk, writes, created, faults, otherWriter>>
    /\ UNCHANGED <<counters, watchSet, flushing, life, pass, gaps>>

\* Another process takes the write lock when no pass of ours holds it, or lets it go.
OtherWriterToggles ==
    /\ otherWriter \/ phase = "idle"
    /\ otherWriter' = ~otherWriter
    /\ UNCHANGED <<disk, writes, dirs, created, kernel, events, faults>>
    /\ UNCHANGED <<counters, watchSet, flushing, life, pass, gaps>>

----------------------------------------------------------------------------
(* FileWatcher: start, stop, degrade.                                      *)

\* A slip: the streaks of failures survive a stop.
StopWatcherKeepsStreaks(rearmed) ==
    /\ stopped' = TRUE /\ ready' = FALSE
    /\ debounceTimer' = rearmed
    /\ pendingFiles' = [f \in Files |-> "no"]
    /\ dirWatchers' = {} /\ inotifyLimitWarned' = FALSE
    /\ UNCHANGED counters
    /\ walk' = {} /\ listing' = NoDir /\ descending' = FALSE
    /\ kernel' = {} /\ events' = {}
    /\ blind' = {} /\ missed' = {} /\ skipped' = {}

\* stop(): closes every watch and forgets the pending set; it clears the timer, which a
\* walk that it cuts short may arm once more.  It does not touch syncing: a flush in
\* flight will resume in the stopped watcher.
StopWatcher(rearmed) ==
    /\ stopped' = TRUE /\ ready' = FALSE
    /\ debounceTimer' = rearmed
    /\ pendingFiles' = [f \in Files |-> "no"]
    /\ dirWatchers' = {} /\ inotifyLimitWarned' = FALSE
    /\ lockRetryCount' = 0 /\ syncFailureRetryCount' = 0
    /\ walk' = {} /\ listing' = NoDir /\ descending' = FALSE
    /\ kernel' = {} /\ events' = {}
    /\ blind' = {} /\ missed' = {} /\ skipped' = {}

\* degrade(), unless it has degraded before: stop for good, and say why.
Degrade(reason, rearmed) ==
    /\ degradedReason = "none" /\ degradedReason' = reason
    /\ StopWatcher(rearmed)

\* CodeGraph.watch(): a fresh watcher; startPerDirectory begins at the root.  A flush or
\* timer of the watcher before it lives on in an object nobody holds: what is left of
\* it is its pass, which is now a direct one.
Start ==
    /\ stopped
    /\ stopped' = FALSE /\ degradedReason' = "none"
    /\ lockRetryCount' = 0 /\ syncFailureRetryCount' = 0
    /\ debounceTimer' = FALSE /\ syncing' = FALSE
    /\ owner' = "direct"
    /\ walk' = {Root}
    /\ UNCHANGED <<world, gaps, dirWatchers, inotifyLimitWarned, listing, descending>>
    /\ UNCHANGED <<ready, pendingFiles, phase, listed, todo, filesToIndex, indexed>>

\* The end of start(): events count from here.  What is stale now and unannounced
\* is the startup catch-up's, not the watcher's.
FinishStart ==
    /\ ~stopped /\ ~ready /\ walk = {} /\ listing = NoDir
    /\ ready' = TRUE
    /\ pendingFiles' = [f \in Files |-> "no"]
    /\ missed' = {f \in Files : Stale(f) /\ f \notin events}
    /\ skipped' = {}
    /\ UNCHANGED <<world, counters, watchSet, pass, blind>>
    /\ UNCHANGED <<debounceTimer, syncing, stopped, degradedReason>>

\* CodeGraph.unwatch().
Unwatch ==
    /\ ActiveWatch /\ JSIdle
    /\ StopWatcher(FALSE)
    /\ UNCHANGED <<disk, writes, dirs, created, faults, otherWriter>>
    /\ UNCHANGED <<degradedReason, syncing, pass>>

----------------------------------------------------------------------------
(* watchTree.  It installs the watch, then reads the directory; the file   *)
(* system can change between the two.                                      *)

\* The early returns: already watched, out of watches, or gone.
Unwatchable(d) ==
    \/ d \in dirWatchers
    \/ inotifyLimitWarned
    \/ Cardinality(dirWatchers) >= MaxDirWatches
    \/ d \notin dirs

SkipDir(d) ==
    /\ d \in walk /\ listing = NoDir /\ Unwatchable(d)
    /\ walk' = walk \ {d}
    /\ blind' = IF d \in dirs \ dirWatchers THEN blind \union {d} ELSE blind
    /\ UNCHANGED <<world, counters, flushing, life, pass, missed, skipped>>
    /\ UNCHANGED <<dirWatchers, inotifyLimitWarned, listing, descending>>

WatchDir(d) ==
    /\ d \in walk /\ listing = NoDir /\ ~Unwatchable(d)
    /\ walk' = walk \ {d}
    /\ dirWatchers' = dirWatchers \union {d}
    /\ kernel' = kernel \union {d}
    /\ listing' = d
    /\ UNCHANGED <<disk, writes, dirs, created, events, faults, otherWriter>>
    /\ UNCHANGED <<counters, flushing, life, pass, gaps, inotifyLimitWarned, descending>>

\* The walk unwinds through the directories it came from.  What follows in their
\* listings is still handled, and each source file, ignored or not, schedules a sync.
Unwinds == ready /\ descending

\* fs.watch throws: EMFILE degrades, ENOSPC stops further watches, the rest is skipped.
WatchDirFails(d) ==
    /\ d \in walk /\ listing = NoDir /\ ~Unwatchable(d)
    /\ faults < MaxFaults /\ faults' = faults + 1
    /\ \/ \E rearmed \in {FALSE, Unwinds} : Degrade("exhausted", rearmed)
       \/ /\ walk' = walk \ {d}
          /\ blind' = blind \union {d}
          /\ inotifyLimitWarned' \in {inotifyLimitWarned, TRUE}
          /\ UNCHANGED <<counters, debounceTimer, pendingFiles, life, kernel, events>>
          /\ UNCHANGED <<dirWatchers, listing, descending, missed, skipped>>
    /\ UNCHANGED <<disk, writes, dirs, created, otherWriter, syncing, pass>>

\* Slips: watchTree does not recurse, or does not mark what is already there.
SubdirectoriesForgotten == {}
MarkedFilesForgotten == {}

\* The directories and files readdirSync finds; markExisting holds after startup.
Subdirectories == {d \in dirs \ {Root} : ParentOf[d] = listing}
MarkedFiles == {f \in Files : ready /\ DirOf[f] = listing /\ disk[f] # 0}

\* readdirSync: visit the subdirectories; after startup, record the files found.
ListDir ==
    /\ listing # NoDir
    /\ walk' = walk \union Subdirectories
    /\ descending' = (walk' # {})
    /\ listing' = NoDir
    /\ pendingFiles' = [f \in Files |->
                          IF f \in MarkedFiles THEN "after" ELSE pendingFiles[f]]
    /\ debounceTimer' = (debounceTimer \/ MarkedFiles # {})
    /\ UNCHANGED <<world, counters, life, pass, gaps>>
    /\ UNCHANGED <<dirWatchers, inotifyLimitWarned, syncing>>

\* readdirSync throws, for want of descriptors say: watchTree returns without a word.
ListDirFails ==
    /\ listing # NoDir
    /\ faults < MaxFaults /\ faults' = faults + 1
    /\ listing' = NoDir
    /\ blind' = blind \union (Subdirectories \ kernel)
    /\ missed' = missed \union {f \in Files : DirOf[f] = listing /\ disk[f] # 0}
    /\ UNCHANGED <<disk, writes, dirs, created, kernel, events, otherWriter>>
    /\ UNCHANGED <<counters, flushing, life, pass, skipped>>
    /\ UNCHANGED <<dirWatchers, inotifyLimitWarned, walk, descending>>

\* A watch reports an error: EMFILE degrades, anything else closes that watch.
DirWatchError(d) ==
    /\ ActiveWatch /\ JSIdle /\ d \in dirWatchers
    /\ faults < MaxFaults /\ faults' = faults + 1
    /\ \/ Degrade("exhausted", FALSE)
       \/ /\ dirWatchers' = dirWatchers \ {d}
          /\ kernel' = kernel \ {d}
          /\ blind' = blind \union {d}
          /\ inotifyLimitWarned' \in {inotifyLimitWarned, TRUE}
          /\ UNCHANGED <<counters, debounceTimer, pendingFiles, life, events>>
          /\ UNCHANGED <<walk, listing, descending, missed, skipped>>
    /\ UNCHANGED <<disk, writes, dirs, created, otherWriter, syncing, pass>>

----------------------------------------------------------------------------
(* handleDirEvent and handleChange.                                        *)

\* The stamp of an event: an event of the very millisecond the sync began, before the
\* pass has read anything, still counts as seen before it.
EventStampsOfFirstEvent == IF syncing THEN {"before"} ELSE {"after"}  \* a slip
EventStamps == IF syncing /\ (phase = "idle" \/ owner = "direct")
               THEN {"before", "after"} ELSE {"after"}

FileEvent(f) ==
    /\ ActiveWatch /\ JSIdle /\ f \in events
    /\ events' = events \ {f}
    /\ \E s \in EventStamps : pendingFiles' = [pendingFiles EXCEPT ![f] = s]
    /\ debounceTimer' = TRUE
    /\ UNCHANGED <<disk, writes, dirs, created, kernel, faults, otherWriter>>
    /\ UNCHANGED <<counters, watchSet, life, pass, gaps, syncing>>

\* A directory that appeared is walked; one that vanished is not a source file.
DirEvent(d) ==
    /\ ActiveWatch /\ JSIdle /\ d \in events
    /\ events' = events \ {d}
    /\ walk' = IF d \in dirs THEN {d} ELSE {}
    /\ descending' = FALSE
    /\ UNCHANGED <<disk, writes, dirs, created, kernel, faults, otherWriter>>
    /\ UNCHANGED <<counters, flushing, life, pass, gaps>>
    /\ UNCHANGED <<dirWatchers, inotifyLimitWarned, listing>>

FlushesWhenStopped == ~syncing  \* a slip
MayFlush == ~syncing /\ ~stopped

\* The debounce timer fires: flush(), unless a sync is running or the watcher stopped.
Flush ==
    /\ JSIdle /\ debounceTimer
    /\ debounceTimer' = FALSE
    /\ IF ~MayFlush
       THEN UNCHANGED <<pendingFiles, syncing>>
       ELSE /\ syncing' = TRUE
            /\ pendingFiles' = [f \in Files |->
                                  IF f \in Pending THEN "before" ELSE "no"]
    /\ UNCHANGED <<world, counters, watchSet, life, pass, gaps>>

----------------------------------------------------------------------------
(* CodeGraph.sync and ExtractionOrchestrator.sync, one pass at a time      *)
(* under the index mutex.  A "watcher" pass is the one a flush waits for,  *)
(* also when its watcher has stopped since.  "direct" passes are the rest: *)
(* the startup catch-up, a CLI sync, or the pass of a watcher since        *)
(* replaced.                                                               *)

BeginPass(o) ==
    /\ JSIdle /\ phase = "idle" /\ ~otherWriter
    /\ o = "watcher" => syncing
    /\ phase' = "scan" /\ owner' = o
    /\ UNCHANGED <<world, counters, watchSet, flushing, life, gaps>>
    /\ UNCHANGED <<listed, todo, filesToIndex, indexed>>

\* scanDirectoryAsync, then getAllFiles.
Scan ==
    /\ JSIdle /\ phase = "scan"
    /\ phase' = "removals"
    /\ listed' = {f \in Files : disk[f] # 0}
    /\ todo' = {f \in Files : indexed[f] # 0}
    /\ UNCHANGED <<world, counters, watchSet, flushing, life, gaps>>
    /\ UNCHANGED <<owner, filesToIndex, indexed>>

CheckRemoval(f) ==
    /\ JSIdle /\ phase = "removals" /\ f \in todo
    /\ todo' = todo \ {f}
    /\ indexed' = IF f \notin listed \/ disk[f] = 0
                  THEN [indexed EXCEPT ![f] = 0] ELSE indexed
    /\ UNCHANGED <<world, counters, watchSet, flushing, life, gaps>>
    /\ UNCHANGED <<phase, owner, listed, filesToIndex>>

RemovalsDone ==
    /\ JSIdle /\ phase = "removals" /\ todo = {}
    /\ phase' = "changes" /\ todo' = listed
    /\ UNCHANGED <<world, counters, watchSet, flushing, life, gaps>>
    /\ UNCHANGED <<owner, listed, filesToIndex, indexed>>

\* stat, read and hash; a file that cannot be read is skipped.
CheckChange(f) ==
    /\ JSIdle /\ phase = "changes" /\ f \in todo
    /\ todo' = todo \ {f}
    /\ \/ /\ filesToIndex' = IF disk[f] # 0 /\ Stale(f) THEN filesToIndex \union {f}
                             ELSE filesToIndex
          /\ UNCHANGED <<faults, skipped>>
       \/ /\ disk[f] # 0 /\ faults < MaxFaults
          /\ faults' = faults + 1
          /\ skipped' = skipped \union {f}
          /\ UNCHANGED filesToIndex
    /\ UNCHANGED <<disk, writes, dirs, created, kernel, events, otherWriter>>
    /\ UNCHANGED <<counters, watchSet, flushing, life, blind, missed>>
    /\ UNCHANGED <<phase, owner, listed, indexed>>

ChangesDone ==
    /\ JSIdle /\ phase = "changes" /\ todo = {}
    /\ phase' = "index"
    /\ UNCHANGED <<world, counters, watchSet, flushing, life, gaps>>
    /\ UNCHANGED <<owner, listed, todo, filesToIndex, indexed>>

\* indexFile: a file that cannot be read, or parses to errors only, keeps its old rows.
IndexFile(f) ==
    /\ JSIdle /\ phase = "index" /\ f \in filesToIndex
    /\ filesToIndex' = filesToIndex \ {f}
    /\ \/ /\ indexed' = IF disk[f] # 0 THEN [indexed EXCEPT ![f] = disk[f]] ELSE indexed
          /\ missed' = IF disk[f] # 0 THEN missed \ {f} ELSE missed
          /\ skipped' = IF disk[f] # 0 THEN skipped \ {f} ELSE skipped
          /\ UNCHANGED faults
       \/ /\ disk[f] # 0 /\ faults < MaxFaults
          /\ faults' = faults + 1
          /\ skipped' = skipped \union {f}
          /\ UNCHANGED <<indexed, missed>>
    /\ UNCHANGED <<disk, writes, dirs, created, kernel, events, otherWriter>>
    /\ UNCHANGED <<counters, watchSet, flushing, life, blind>>
    /\ UNCHANGED <<phase, owner, listed, todo>>

PassComplete == phase = "index" /\ filesToIndex = {}

\* A direct pass ends, having finished or failed.
DirectPassEnds ==
    /\ JSIdle /\ phase # "idle" /\ owner = "direct"
    /\ phase' = "idle"
    /\ listed' = {} /\ todo' = {} /\ filesToIndex' = {}
    /\ UNCHANGED <<world, counters, watchSet, flushing, life, gaps, owner, indexed>>

----------------------------------------------------------------------------
(* How a flush ends.  Each outcome includes the finally block, which       *)
(* schedules another pass while anything is pending.  The watcher may have *)
(* stopped meanwhile: the flush resumes in it all the same.                *)

\* A slip: a clean sync empties the pending set.
StillPendingNever(f) == FALSE

\* What a clean sync leaves pending: the files with an event since it began.
StillPending(f) == pendingFiles[f] = "after"

FlushSucceeds ==
    /\ JSIdle /\ PassComplete /\ owner = "watcher"
    /\ phase' = "idle" /\ owner' = "direct"
    /\ lockRetryCount' = 0 /\ syncFailureRetryCount' = 0
    /\ syncing' = FALSE
    /\ pendingFiles' = [f \in Files |-> IF StillPending(f) THEN pendingFiles[f] ELSE "no"]
    /\ debounceTimer' = (debounceTimer \/ (~stopped /\ \E f \in Files : StillPending(f)))
    /\ listed' = {} /\ todo' = {} /\ filesToIndex' = {}
    /\ UNCHANGED <<world, watchSet, life, gaps, indexed>>

\* The zero-shape result of sync(): the write lock is taken, or an empty project was
\* scanned within a millisecond.
ZeroShape ==
    \/ phase = "idle" /\ otherWriter
    \/ PassComplete /\ owner = "watcher" /\ listed = {}

\* A slip: only a clean sync looks at what is left.
RescheduleForgotten ==
    UNCHANGED <<debounceTimer, pendingFiles, watchSet, life, gaps, kernel, events>>

\* The finally block after a failure that did not degrade the watcher.
Reschedule ==
    /\ debounceTimer' = (debounceTimer \/ (~stopped /\ Pending # {}))
    /\ UNCHANGED <<pendingFiles, watchSet, life, gaps, kernel, events>>

LockBudgetOffByOne == lockRetryCount > MaxLockRetries  \* a slip
LockBudgetSpent == lockRetryCount + 1 > MaxLockRetries

FlushLockUnavailable ==
    /\ JSIdle /\ syncing /\ ZeroShape
    /\ IF LockBudgetSpent /\ degradedReason = "none"
       THEN Degrade("lock", FALSE)
       ELSE /\ lockRetryCount' = lockRetryCount + 1
            /\ UNCHANGED syncFailureRetryCount
            /\ Reschedule
    /\ syncing' = FALSE
    /\ phase' = "idle" /\ owner' = "direct"
    /\ listed' = {} /\ todo' = {} /\ filesToIndex' = {}
    /\ UNCHANGED <<disk, writes, dirs, created, faults, otherWriter, indexed>>

\* Any other error, at any point of the pass.
FlushFails ==
    /\ JSIdle /\ phase # "idle" /\ owner = "watcher"
    /\ IF syncFailureRetryCount + 1 > MaxSyncFailureRetries /\ degradedReason = "none"
       THEN Degrade("failure", FALSE)
       ELSE /\ lockRetryCount' = 0
            /\ syncFailureRetryCount' = syncFailureRetryCount + 1
            /\ Reschedule
    /\ syncing' = FALSE
    /\ phase' = "idle" /\ owner' = "direct"
    /\ listed' = {} /\ todo' = {} /\ filesToIndex' = {}
    /\ UNCHANGED <<disk, writes, dirs, created, faults, otherWriter, indexed>>

----------------------------------------------------------------------------
FileSystemStep ==
    \/ \E f \in Files : WriteFile(f) \/ DeleteFile(f)
    \/ \E d \in Dirs : CreateDir(d) \/ RemoveDir(d)
    \/ OtherWriterToggles

WatchTreeStep ==
    \/ \E d \in Dirs : SkipDir(d) \/ WatchDir(d)
    \/ ListDir
    \/ FinishStart

PassStep ==
    \/ Scan
    \/ \E f \in Files : CheckRemoval(f) \/ CheckChange(f) \/ IndexFile(f)
    \/ RemovalsDone
    \/ ChangesDone
    \/ DirectPassEnds
    \/ FlushSucceeds

Next ==
    \/ FileSystemStep
    \/ Start
    \/ Unwatch
    \/ WatchTreeStep
    \/ \E d \in Dirs : WatchDirFails(d) \/ DirWatchError(d) \/ DirEvent(d)
    \/ ListDirFails
    \/ \E f \in Files : FileEvent(f)
    \/ Flush
    \/ BeginPass("watcher")
    \/ BeginPass("direct")
    \/ PassStep
    \/ FlushLockUnavailable
    \/ FlushFails

Spec == Init /\ [][Next]_vars

(***************************************************************************)
(* The event loop runs: a callback in progress returns, queued events and  *)
(* expired timers are served, a pass in progress takes its next step.      *)
(* The mutex hands a waiting flush its turn if the lock keeps coming free, *)
(* and a flush that finds the lock taken learns so.  Nothing is assumed of *)
(* editors, of other writers, or of direct passes being started.           *)
(***************************************************************************)
Fairness ==
    /\ WF_vars(WatchTreeStep)
    /\ \A e \in Files : WF_vars(FileEvent(e))
    /\ \A d \in Dirs : WF_vars(DirEvent(d))
    /\ WF_vars(Flush)
    /\ WF_vars(PassStep)
    /\ SF_vars(BeginPass("watcher") \/ FlushLockUnavailable)

FairSpec == Spec /\ Fairness

----------------------------------------------------------------------------
(* Properties.                                                             *)

\* A directory whose files the watcher does not know yet.
Unlisted(d) == d \in dirs /\ (d \notin kernel \/ d = listing)

\* The staleness banner tells the truth: while the watcher is active, a file whose
\* index rows differ from the disk is pending, or its event is still queued, or its
\* directory is yet to be read; except what changed unwatched or could not be read.
StalenessAnnounced ==
    ActiveWatch =>
        \A f \in Files :
            Stale(f) => \/ pendingFiles[f] # "no"
                        \/ f \in events
                        \/ Unlisted(DirOf[f])
                        \/ f \in missed \union skipped

\* New directories are picked up: one without a watch is about to be walked, or its
\* event is queued, or its parent is yet to be read, or the watcher gave up on it.
SubtreesAnnounced ==
    ActiveWatch =>
        \A d \in dirs \ {Root} :
            d \notin kernel => \/ d \in walk \union events \union blind
                               \/ Unlisted(ParentOf[d])

\* No lost wake-up: pending files always have a sync running or a timer to start one,
\* though a timer that fires during a sync is consumed without effect.
NoLostWakeup == ActiveWatch /\ Pending # {} => debounceTimer \/ syncing

\* With nothing queued, pending or running and no directory given up, the index is
\* the disk: what the user sees as "the index is never stale".
SettledIsFresh ==
    /\ ActiveWatch /\ JSIdle
    /\ events = {} /\ Pending = {} /\ blind = {}
    => \A f \in Files : Stale(f) => f \in missed \union skipped

\* Nothing that was in flight when the watcher stopped brings it back: a flush that
\* resumes in it, at whatever streak of failures, and a timer armed while it stopped
\* begin no sync, arm no timer, and neither degrade it nor change the reason it gave.
StopIsFinal ==
    [][stopped /\ stopped' => /\ syncing' => syncing
                              /\ debounceTimer' => debounceTimer
                              /\ degradedReason' = degradedReason]_vars

\* A clean sync removes no file from the pending set that has changed since the pass
\* read it, unless the change is still queued.
ClearedMeansIndexed ==
    [][FlushSucceeds =>
         \A f \in Files :
            /\ pendingFiles[f] # "no" /\ pendingFiles'[f] = "no" /\ Stale(f)
            => \/ f \in events \union skipped \union missed
               \/ Unlisted(DirOf[f])]_vars

\* The watcher gives up for lock contention only while another writer has the lock,
\* as the comment on the zero-shape result has it.
LockDegradeMeansContention ==
    [][degradedReason' = "lock" /\ degradedReason # "lock" => otherWriter]_vars

\* Auto-sync keeps its promise or says that it cannot: an announced edit is indexed,
\* or the watcher stops, degraded or told to.
EventuallyFresh ==
    \A f \in Files :
        ActiveWatch /\ Stale(f) /\ f \notin missed \union skipped /\ blind = {}
            ~> \/ ~Stale(f) \/ stopped
               \/ f \in missed \union skipped \/ blind # {}

----------------------------------------------------------------------------
(* Why the banner is right: the inductive strengthening of                 *)
(* StalenessAnnounced.                                                     *)

\* f is known to differ for a reason that outlives the pass in progress.
Announced(f) ==
    \/ f \in events \union missed \union skipped
    \/ disk[f] # 0 /\ Unlisted(DirOf[f])

\* The pass in progress is yet to compare f with the disk.
Unread(f) ==
    CASE phase = "scan"     -> TRUE
      [] phase = "removals" -> f \in todo \union listed
      [] phase = "changes"  -> f \in todo \union filesToIndex
      [] phase = "index"    -> f \in filesToIndex
      [] OTHER              -> TRUE

\* The pass of a watcher runs only inside its flush, over the files it listed.
PassOwned ==
    /\ owner = "watcher" => syncing /\ phase # "idle" /\ (ready \/ stopped)
    /\ phase \in {"idle", "scan", "removals"} => filesToIndex = {}
    /\ phase = "changes" => todo \subseteq listed
    /\ filesToIndex \subseteq listed

\* A file created or deleted since the scan is announced.
ListingCurrent ==
    ActiveWatch /\ owner = "watcher" /\ phase # "scan" =>
        \A f \in Files : (f \in listed) # (disk[f] # 0)
                            => pendingFiles[f] = "after" \/ Announced(f)

\* A file changed since the pass read it is announced, whatever was pending before.
ReadOrAnnounced ==
    ActiveWatch /\ owner = "watcher" =>
        \A f \in Files : Stale(f) => \/ pendingFiles[f] = "after"
                                     \/ Unread(f)
                                     \/ Announced(f)

StaleOrAnnounced ==
    ActiveWatch => \A f \in Files : Stale(f) => pendingFiles[f] # "no" \/ Announced(f)

\* A write is newer than anything indexed, so a file the pass is about to drop although
\* it has come back was stale before the drop too.
WritesAreNew == \A f \in Files : disk[f] <= writes /\ indexed[f] <= writes
RemovalsAreStale ==
    phase = "removals" =>
        \A f \in todo : indexed[f] # 0 /\ (f \notin listed => Stale(f))

\* Together they are inductive: a pass in progress never hides an edit.
Coverage ==
    /\ PassOwned /\ ListingCurrent /\ ReadOrAnnounced
    /\ WritesAreNew /\ RemovalsAreStale /\ StaleOrAnnounced

----------------------------------------------------------------------------
(* Why new directories are picked up: the inductive strengthening of       *)
(* SubtreesAnnounced and SettledIsFresh, for directories created once.     *)

TreeClosed == Root \in dirs /\ \A d \in dirs \ {Root} : ParentOf[d] \in dirs

\* An entry of dirWatchers is a live watch for as long as its directory exists.
WatchesAreLive ==
    /\ dirWatchers \intersect dirs \subseteq kernel
    /\ \A d \in dirWatchers \union dirs : created[d] >= 1

RootCovered == ~stopped => Root \in kernel \union walk \union blind

SubtreesCovered ==
    ~stopped =>
        \A d \in dirs \ {Root} :
            d \notin kernel => \/ d \in walk \union events \union blind
                               \/ Unlisted(ParentOf[d])

\* From the root down, every directory is watched, or it is known where the walk or an
\* event will find it.
Reach == TreeClosed /\ WatchesAreLive /\ RootCovered /\ SubtreesCovered
============================================================================
