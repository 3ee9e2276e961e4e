------------------------------ MODULE FileLock ------------------------------
(***************************************************************************)
(* The write lock of a CodeGraph project (FileLock in src/utils.ts): a     *)
(* file that holds the writer's process id, taken by every index, sync and *)
(* vocabulary pass of every process that has the project open.             *)
(*                                                                         *)
(* acquire() and release() are synchronous, so two instances of one        *)
(* process never interleave inside them; instances of different processes  *)
(* interleave between any two system calls.                                *)
(***************************************************************************)
EXTENDS Naturals

CONSTANTS
    Instances,   \* the CodeGraph objects that have the project open
    Pids,        \* the processes they live in
    PidOf,       \* the process of each instance
    NaN,         \* what parseInt makes of an empty file: a value outside Pids
    NoLock,      \* "no lock file": a model value
    MaxCrashes,  \* bound: processes that die
    MaxExpiries  \* bound: locks that grow older than STALE_TIMEOUT_MS

\* written: the process id is in the file; old: past STALE_TIMEOUT_MS;
\* left: its owner died, or failed to write it (bookkeeping of this specification).
LockFiles ==
    [owner : Instances, written : BOOLEAN, old : BOOLEAN, left : BOOLEAN]

ASSUME LockAssumption ==
    /\ PidOf \in [Instances -> Pids] /\ NaN \notin Pids
    /\ NoLock \notin LockFiles
    /\ MaxCrashes \in Nat /\ MaxExpiries \in Nat

VARIABLES
    lockFile,   \* the lock file, or NoLock
    pc,         \* where each instance is
    readPid,    \* what acquire() read in the lock file
    writing,    \* instances whose pass is writing the index
    alive,      \* processes that run
    crashes, expiries,
    contended   \* history: two acquires overlapped, or a lock outlived its timeout

vars == <<lockFile, pc, readPid, writing, alive, crashes, expiries, contended>>

Exists == lockFile # NoLock
Content == IF lockFile.written THEN PidOf[lockFile.owner] ELSE NaN

\* The system calls of acquire() still to be made, and those of release().
Acquiring == {"readFile", "stat", "unlink", "unlinkQuietly", "create", "write"}
Releasing == {"checkOwner", "remove"}
Holding == {"locked"} \union Releasing
Labels == {"idle", "unlocked"} \union Acquiring \union Holding

Acquirers == {i \in Instances : pc[i] \in Acquiring}

\* The event loop of i's process is free for i to take a step.
MayRun(i) ==
    /\ PidOf[i] \in alive
    /\ \A j \in Instances \ {i} :
          PidOf[j] = PidOf[i] => pc[j] \notin Acquiring \union Releasing

Init ==
    /\ lockFile = NoLock
    /\ pc = [i \in Instances |-> "idle"]
    /\ readPid = [i \in Instances |-> NaN]
    /\ writing = {}
    /\ alive = Pids
    /\ crashes = 0 /\ expiries = 0
    /\ contended = FALSE

Goto(i, label) == pc' = [pc EXCEPT ![i] = label]
Quiet == UNCHANGED <<alive, crashes, expiries, contended>>

----------------------------------------------------------------------------
(* acquire(): one action per system call.                                  *)

\* existsSync.
BeginAcquire(i) ==
    /\ MayRun(i) /\ pc[i] = "idle"
    /\ Goto(i, IF Exists THEN "readFile" ELSE "create")
    /\ contended' = (contended \/ Acquirers # {})
    /\ UNCHANGED <<lockFile, readPid, writing, alive, crashes, expiries>>

ReadFile(i) ==
    /\ MayRun(i) /\ pc[i] = "readFile"
    /\ IF Exists
       THEN Goto(i, "stat") /\ readPid' = [readPid EXCEPT ![i] = Content]
       ELSE Goto(i, "unlinkQuietly") /\ UNCHANGED readPid
    /\ UNCHANGED <<lockFile, writing>> /\ Quiet

\* Slips: the answer of isProcessAlive is reversed, or not asked for.
LooksHeldIfDead(pid) == ~lockFile.old /\ pid # NaN /\ pid \notin alive
LooksHeldIfYoung(pid) == ~lockFile.old

\* A young lock that names a live process is refused.
LooksHeld(pid) == ~lockFile.old /\ pid # NaN /\ pid \in alive

\* statSync and isProcessAlive.
Stat(i) ==
    /\ MayRun(i) /\ pc[i] = "stat"
    /\ \/ Exists /\ LooksHeld(readPid[i]) /\ Goto(i, "idle")
       \/ Exists /\ ~LooksHeld(readPid[i]) /\ Goto(i, "unlink")
       \/ ~Exists /\ Goto(i, "unlinkQuietly")
    /\ readPid' = [readPid EXCEPT ![i] = NaN]
    /\ UNCHANGED <<lockFile, writing>> /\ Quiet

\* unlinkSync of a lock found stale removes whatever is there by now.
Unlink(i) ==
    /\ MayRun(i) /\ pc[i] = "unlink"
    /\ lockFile' = NoLock
    /\ Goto(i, IF Exists THEN "create" ELSE "unlinkQuietly")
    /\ UNCHANGED <<readPid, writing>> /\ Quiet

\* The catch block: any error while looking at the lock ends in its removal.
UnlinkQuietly(i) ==
    /\ MayRun(i) /\ pc[i] = "unlinkQuietly"
    /\ lockFile' = NoLock
    /\ Goto(i, "create")
    /\ UNCHANGED <<readPid, writing>> /\ Quiet

\* writeFileSync with the wx flag: the file appears empty, or EEXIST refuses.
Create(i) ==
    /\ MayRun(i) /\ pc[i] = "create"
    /\ IF Exists
       THEN Goto(i, "idle") /\ UNCHANGED lockFile
       ELSE /\ Goto(i, "write")
            /\ lockFile' = [owner |-> i, written |-> FALSE, old |-> FALSE, left |-> FALSE]
    /\ UNCHANGED <<readPid, writing>> /\ Quiet

OwnFile(i) == Exists /\ lockFile.owner = i

\* The process id goes to the file just created, even if that has been unlinked; then
\* the pass starts, in the same turn of the event loop.
Acquired(i, label) ==
    /\ MayRun(i) /\ pc[i] = "write"
    /\ lockFile' = IF OwnFile(i) THEN [lockFile EXCEPT !.written = TRUE] ELSE lockFile
    /\ writing' = writing \union {i}
    /\ Goto(i, label)
    /\ UNCHANGED readPid /\ Quiet

\* indexAll, sync, healSegmentVocabIfEmpty: the pass runs between acquire and release.
AcquiredForPass(i) == Acquired(i, "locked")

\* CodeGraph.indexFiles returns its promise without awaiting it, so the finally block
\* releases the lock before the first file is read.
AcquiredForIndexFiles(i) == Acquired(i, "checkOwner")

\* The disk is full: acquire() throws, and an empty lock file stays.
WriteFails(i) ==
    /\ MayRun(i) /\ pc[i] = "write"
    /\ lockFile' = IF OwnFile(i) THEN [lockFile EXCEPT !.left = TRUE] ELSE lockFile
    /\ Goto(i, "idle")
    /\ UNCHANGED <<readPid, writing>> /\ Quiet

----------------------------------------------------------------------------
(* The end of a pass, and release().                                        *)

\* A slip: no release when the pass ends.
LockedPassEndsUnreleased(i) ==
    /\ MayRun(i) /\ pc[i] = "locked"
    /\ writing' = writing \ {i}
    /\ Goto(i, "idle")
    /\ UNCHANGED <<lockFile, readPid>> /\ Quiet

\* The pass returns or throws: finally, release().
LockedPassEnds(i) ==
    /\ MayRun(i) /\ pc[i] = "locked"
    /\ writing' = writing \ {i}
    /\ Goto(i, "checkOwner")
    /\ UNCHANGED <<lockFile, readPid>> /\ Quiet

\* Until indexFiles ends, the index mutex keeps other passes of the instance out.
IndexFilesEnds(i) ==
    /\ MayRun(i) /\ pc[i] = "unlocked"
    /\ writing' = writing \ {i}
    /\ Goto(i, "idle")
    /\ UNCHANGED <<lockFile, readPid>> /\ Quiet

AfterRelease(i) == IF i \in writing THEN "unlocked" ELSE "idle"

\* release(): remove the file only if it names this process.
CheckOwner(i) ==
    /\ MayRun(i) /\ pc[i] = "checkOwner"
    /\ Goto(i, IF Exists /\ Content = PidOf[i] THEN "remove" ELSE AfterRelease(i))
    /\ UNCHANGED <<lockFile, readPid, writing>> /\ Quiet

Remove(i) ==
    /\ MayRun(i) /\ pc[i] = "remove"
    /\ lockFile' = NoLock
    /\ Goto(i, AfterRelease(i))
    /\ UNCHANGED <<readPid, writing>> /\ Quiet

----------------------------------------------------------------------------
(* The world: processes die, process ids are used again, time passes.      *)

Crash(p) ==
    /\ p \in alive /\ crashes < MaxCrashes
    /\ alive' = alive \ {p} /\ crashes' = crashes + 1
    /\ pc' = [i \in Instances |-> IF PidOf[i] = p THEN "idle" ELSE pc[i]]
    /\ readPid' = [i \in Instances |-> IF PidOf[i] = p THEN NaN ELSE readPid[i]]
    /\ writing' = {i \in writing : PidOf[i] # p}
    /\ lockFile' = IF Exists /\ PidOf[lockFile.owner] = p
                   THEN [lockFile EXCEPT !.left = TRUE] ELSE lockFile
    /\ UNCHANGED <<expiries, contended>>

\* A new process, under the process id of a dead one.
Restart(p) ==
    /\ p \in Pids \ alive
    /\ alive' = alive \union {p}
    /\ UNCHANGED <<lockFile, pc, readPid, writing, crashes, expiries, contended>>

\* The lock file turns STALE_TIMEOUT_MS old.
Expire ==
    /\ Exists /\ ~lockFile.old /\ expiries < MaxExpiries
    /\ lockFile' = [lockFile EXCEPT !.old = TRUE]
    /\ expiries' = expiries + 1
    /\ contended' = (contended \/ ~lockFile.left)
    /\ UNCHANGED <<pc, readPid, writing, alive, crashes>>

Step(i) ==
    \/ BeginAcquire(i) \/ ReadFile(i) \/ Stat(i) \/ Unlink(i) \/ UnlinkQuietly(i)
    \/ Create(i) \/ AcquiredForPass(i) \/ AcquiredForIndexFiles(i) \/ WriteFails(i)
    \/ LockedPassEnds(i) \/ IndexFilesEnds(i)
    \/ CheckOwner(i) \/ Remove(i)

Next ==
    \/ \E i \in Instances : Step(i)
    \/ \E p \in Pids : Crash(p) \/ Restart(p)
    \/ Expire

Spec == Init /\ [][Next]_vars

\* Calls return, passes end, and every live process has another pass to run some time
\* (a watcher's next sync, a git hook, a user's command).  Nothing else is assumed.
FairSpec == Spec /\ \A i \in Instances : WF_vars(Step(i))

----------------------------------------------------------------------------
(* Properties.                                                             *)

TypeOK ==
    /\ lockFile \in LockFiles \union {NoLock}
    /\ pc \in [Instances -> Labels]
    /\ readPid \in [Instances -> Pids \union {NaN}]
    /\ writing \subseteq Instances /\ alive \subseteq Pids
    /\ crashes \in 0..MaxCrashes /\ expiries \in 0..MaxExpiries
    /\ contended \in BOOLEAN

Holders == {i \in Instances : pc[i] \in Holding}

\* While no two acquires have overlapped and no live holder's lock has expired, at most
\* one instance holds the lock, whoever dies and whatever a dead owner left behind.
UncontendedExclusion == ~contended => \A i, j \in Holders : i = j

\* The lock never locks everyone out: a lock file that nobody left behind belongs to an
\* instance that is writing it, holds it or is about to remove it.
NoOrphanedLock ==
    Exists /\ ~lockFile.left => pc[lockFile.owner] \in {"write"} \union Holding

\* What the class comment claims: one process at a time writes under the lock.
LockExcludes == \A i, j \in Holders : i = j

\* A lock whose owner is dead is broken by the next process that wants it.
AbandonedLockBroken ==
    Exists /\ lockFile.left /\ PidOf[lockFile.owner] \notin alive
        ~> \/ ~Exists \/ ~lockFile.left
           \/ PidOf[lockFile.owner] \in alive \/ alive = {}

----------------------------------------------------------------------------
(* Why they hold.                                                          *)

RunningIsAlive == \A i \in Instances : pc[i] # "idle" => PidOf[i] \in alive

OneAcquirer == \A i, j \in Acquirers : i = j

\* The lock file is its holder's: young, and with the process id in it.
HolderOwnsFile ==
    \A i \in Holders : OwnFile(i) /\ lockFile.written /\ ~lockFile.old /\ ~lockFile.left

\* What an instance inside acquire() may rely on: the file it created is there; what it
\* read is still what is there; and what it is about to remove, nobody holds.
AcquirerIsRight ==
    \A i \in Acquirers :
        /\ pc[i] = "write" => OwnFile(i) /\ ~lockFile.written /\ ~lockFile.old /\ ~lockFile.left
        /\ pc[i] = "stat" /\ Exists => readPid[i] = Content
        /\ pc[i] \in {"unlink", "unlinkQuietly"} => Holders = {}

ExclusionInv == ~contended => OneAcquirer /\ HolderOwnsFile /\ AcquirerIsRight

OwnerInv ==
    Exists /\ ~lockFile.left =>
        \/ pc[lockFile.owner] = "write"
        \/ pc[lockFile.owner] \in Holding /\ lockFile.written
============================================================================
