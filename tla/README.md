# A formal model of CodeGraph's index, its writers and its servers

CodeGraph keeps a graph of a code base (symbols, calls, imports) in an SQLite
database under `.codegraph/` and serves it to editors and agents over MCP. Its
promise is that the graph is never silently out of date: a file watcher keeps
it current, a banner names the files it has not caught up with, a write lock
keeps processes from writing together, one daemon per project serves every
editor through a proxy, and a pool of workers answers queries while all this
goes on. These are the parts where interleavings, deaths and retries decide
correctness, and the ones this project models.

TLA+ paths are relative to this directory, code paths to the repository root
(`src/sync/watcher.ts` and so on).

## 1. The system

### Components, their state and operations

| Component | State | Operations | Makes it correct |
|---|---|---|---|
| File watcher, `src/sync/watcher.ts` | `dirWatchers`, `pendingFiles`, `debounceTimer`, `syncing`, `stopped`, `ready`, `degradedReason`, `inotifyLimitWarned`, two retry counters | `start`, `stop`, `degrade`, `watchTree`, `handleDirEvent`, `handleChange`, `flush` | every edit is pending until a pass has indexed it; the watcher serves it, or says it cannot |
| Sync pass, `CodeGraph.sync` in `src/index.ts`, `ExtractionOrchestrator.sync` in `src/extraction/index.ts` | the scan's file list, the files still to compare, the files to index; the rows of the store | scan, drop vanished files, stat/read/hash, index, resolve | a pass that ran beside edits leaves nothing both stale and unannounced |
| Write lock and index mutex, `FileLock` and `Mutex` in `src/utils.ts` | the lock file, `held`; the mutex's queue | `acquire`, `release` | one writer; no lock survives its owner for ever |
| Query pool, `src/mcp/query-pool.ts` | `queue`, `idle`, `pendingWorkers`, `workers`, `inflight`, `totalCrashes`, jobs and their timers | `run`, worker messages and exits, `drain`, soft timer, `destroy` | each call answered exactly once, whatever the workers do; no call stranded beside a free worker |
| Tool dispatch, `src/mcp/tools.ts` | catch-up gate, default project | chooses pool or process; prepends the staleness banner | never answers from rows the banner should have named |
| Parse pool, `src/extraction/parse-pool.ts` | as the query pool, with `parseCounts` and hard timers | `requestParse`, worker messages and exits, `onTimeout`, `recycle`, `recycleAll`, `drain`, `destroy` | each parse settled once; a bad file costs one worker, not the index |
| Full index, `ExtractionOrchestrator.indexAll` in `src/extraction/index.ts` | the window (`nextSeq`, `nextToStore`, `inFlight`, `completed`), counts, errors, the files to retry | feed, flush in order, retry, retry without comments, abort | rows in the order of the files; every file counted and stored or reported; it ends |
| Shared daemon, `src/mcp/daemon*.ts` | pid file, socket, clients, timers | lock, bind, accept, sweep, idle exit, stop | one daemon per project; no daemon without clients for ever, none stopped under a live one |
| Proxy, `src/mcp/proxy.ts` | `daemonStatus`, `pending`, `inflight` | local handshake, route, fall back in process | each request gets one answer, the daemon's or its own |
| Engine and sessions, `src/mcp/engine.ts`, `session.ts`, `transport.ts` | `cg`, `initPromise`, `closed`, the pool | initialise, retry, stop, catch up | one open project per engine; nothing opened after stop |
| Watchdogs, `src/mcp/*watchdog.ts`, `early-ppid.ts`, `stdin-teardown.ts` | timers | kill a process whose host is gone or which hangs | no orphaned process |
| Index store, `src/db/`, and resolution, `src/resolution/index.ts` | tables of files, nodes, edges, unresolved references; the resolver's name caches | replace a file's rows, resolve references in batches, sweep orphans | files, symbols and edges agree, through any kill |
| Migration planner, `src/migration/order`, `src/migration/plan` | none across calls | order modules into units and waves, merge, split, annotate | no module and no dependency lost; every wave after what it needs |
| Extraction, matching strategies, graph, search, context, appgraph | none that lives across calls | pure functions and batch jobs over the store | their results |
| CLI, installer, upgrade, telemetry, web UI, git hooks | files they edit | user commands | out of scope |

### How they interact

The engine opens a project, starts the watcher and one direct catch-up pass,
and starts the query pool. File-system events reach the watcher as callbacks;
its debounce timer runs `flush`, which awaits `CodeGraph.sync` through the
callback built in `CodeGraph.watch`; `sync` takes the in-process mutex, then
the lock file, runs the orchestrator's pass and resolves references. Other
processes (a CLI command, a git hook, another server) meet this one only at the
lock file. An MCP host talks to a proxy over stdio; the proxy connects to the
project's daemon, or starts one, and serves the host in process when there is
none. The daemon holds the pid file and the socket, gives every connection a
session, and owns one engine. Tool calls go to the pool if it is healthy and
are otherwise served in process; either way `tools.ts` reads
`getPendingFiles()` to say which files of an answer may be stale.

### What is hard

* The watch on a directory is installed, and the directory read, while it is
  being filled (`watcher.ts:439-513`); inotify forgets a deleted directory
  without telling the `FSWatcher`.
* The pass awaits between scan, comparison and indexing, so edits land between
  any two steps, and the decision what stays pending is made from time stamps
  at its end (`watcher.ts:798-812`).
* A timer that fires during a sync is spent (`watcher.ts:774`); the `finally`
  block alone restores progress.
* `stop()` and `degrade()` can run while a flush is awaiting its pass.
* `acquire()` is a sequence of system calls against other processes' sequences.
* Workers die before they start, while idle and with a call in flight; timers
  answer calls whose results still come.
* A full index parses on workers that hang, run out of memory and are replaced,
  must commit in file order all the same, and tries again what they failed.
* A daemon's lock is three files that outlive it (pid file, socket path,
  registry record), taken over, given up and cleaned by processes that look
  first and act later.
* A request is at the proxy, in the socket, at the daemon, or in an answer not
  yet read when the daemon dies.
* A file's rows are replaced in five transactions, and its references resolved in
  later ones, with saves and kills between any two.
* Merging small units must keep their graph acyclic, which each single merge
  decides with what it knows of the others.

`PROJECT.json` lists these under `hazards`, each at its line with the
properties that cover it.

## 2. The modules

| Module | Models |
|---|---|
| `FileWatcher` | the watcher, the sync pass and the file system they watch |
| `FileWatcherProofs` | theorems about its passes, its pending set and the directory tree it watches |
| `FileLock` | `FileLock` in `utils.ts`, and its users `sync`, `indexAll`, `indexFiles` |
| `FileLockProofs` | theorems about it |
| `CallService` | abstract specification: what a service of calls promises its callers |
| `QueryPool` | `query-pool.ts`, which implements `CallService` |
| `QueryPoolProofs` | theorems about it, the refinement among them |
| `Proxy` | `runLocalHandshakeProxy`, which implements `CallService` too |
| `ProxyProofs` | theorems about it, the refinement among them |
| `Daemon` | the shared daemon, its candidates, its clients and the command that stops it |
| `DaemonProofs` | theorems about it |
| `ParsePool` | `parse-pool.ts`: its handlers, as operators on the pool's state |
| `FullIndex` | `indexAll` on the parse pool, which implements `CallService` |
| `FullIndexProofs` | lemmas: what each handler does to a pool, and that it leaves it sound; theorems about the index's commits, counts and errors, and about the pool it drives |
| `IndexStore` | the store, the passes that write it, and the resolution of references |
| `IndexStoreProofs` | theorems about it |
| `MigrationOrder` | `topo.ts`: components and waves |
| `UnitPlanning` | `unit-planning.ts`, on the order of `MigrationOrder` |
| `UnitPlanningProofs` | theorems about both: components, waves, merging and plan |
| `MC*` | instances for TLC |

`UnitPlanning` extends `MigrationOrder` and continues its state machine.
`FileWatcher` composes the watcher, the pass and the file system; `Daemon`
composes candidates, daemons, clients and the stop command. `Proxy` and
`Daemon` meet at the socket: `Daemon` has the connections and not the lines,
`Proxy` one connection and every line of it. `FullIndex` extends `ParsePool` and
drives it: the pool is one variable of its state machine.

### FileWatcher

State. `disk` and `indexed` give each source file's version on disk and in the
store; 0 is "no file". A version stands for contents, size and time together:
each write makes a new one. `dirs` is the directory tree, `kernel` the
directories inotify really watches, `events` the queued events, each the name
of the entry it is about (`handleDirEvent` looks only at that). The watcher's
fields keep their names; `walk` and `listing` are the program counter of
`watchTree`. `phase`, `listed`, `todo` and `filesToIndex` are the locals of a
pass; `owner` says whether a flush waits for it ("watcher") or nobody does
("direct": the catch-up pass, a CLI sync, or the pass of a watcher replaced
since).

Time stamps. `flush` compares `lastSeenMs <= syncStartedMs` and nothing else,
so a pending file is "before" or "after". At its start a flush makes every
pending file "before". An event handled while it runs is "after", or either
of the two while the pass has not begun (an event in the same millisecond).
Two consequences for the code are assumptions of the model: the clock does not
step back during a sync, and a pass does not begin to read files within the
millisecond in which its flush started *and* then handle an event in that same
millisecond.

Actions. The file system acts at any moment, also in the middle of
`watchTree`, which is synchronous only for JavaScript (`JSIdle`). A pass is
split at every await and disk access: `BeginPass`, `Scan`, one `CheckRemoval`
and one `CheckChange` per file, `IndexFile` per file, and its end, which is
`DirectPassEnds` or one of the three outcomes of a flush: `FlushSucceeds`,
`FlushLockUnavailable`, `FlushFails`. Each of the three is the whole rest of
`flush`, its `finally` block included; the last two may end in `degrade()`,
which is `StopWatcher` with a reason. `WatchDirFails` and `DirWatchError` are
the error paths of `fs.watch` (EMFILE, ENOSPC, anything else), `ListDirFails`
that of `readdirSync`.

After a stop. `stop()` leaves `syncing` set, so the flush and its pass go on,
and each of the three outcomes also happens in a stopped watcher: it counts a
failure or clears the streaks, looks at the budgets, and runs the `finally`
block. A `degrade()` in the middle of a walk has one more effect: `watchTree`
unwinds through the directories it came from (`descending`: there are any),
`handleChange` does not look at `stopped`, and a source file that follows in their
listings, an ignored one too since `ignoreMatcher` is gone, arms the timer that
`stop()` has just cleared (`rearmed`). The files of those listings are in `Files`
or not, so this may happen at each descent. `Flush` is that timer too: in a
stopped watcher it fires without effect.
`CodeGraph.watch` makes a new object (`Start`). What was in flight in the old
one then reaches nothing but a discarded object, and `onSyncComplete` and
`onSyncError`, which only log; its pass goes on as a direct one.

`blind`, `missed` and `skipped` are bookkeeping of the specification, written
and never read by guards. They record why the code makes no promise about a
file: its directory was given up on (limit, ENOSPC, an error), it was deleted
while nothing watched its directory or passed over when that could not be read,
or the last pass could not read or parse it. Properties except only these.

Abstracted. Debounce and back-off delays (a timer is set or not, and fires at
any time); which names are source files and which are ignored (`Files` are the
source files); symbolic links; resolution after the file loop. The recursive
watcher of macOS and Windows is the instance with `Dirs = {Root}`, but for its
errors: one that is not EMFILE is only logged, or stops `start()`. The inotify
queue does not overflow.

### FileLock

One action per system call of `acquire()` and `release()`. They are
synchronous, so instances of one process do not interleave inside them
(`MayRun`); processes do. `lockFile` is the file with its owner, whether the
process id is in it yet (`writeFileSync` with `wx` creates, then writes),
whether it is older than `STALE_TIMEOUT_MS`, and whether its owner left it
behind. `readPid` is what an `acquire()` in progress read. A crash may come
between any two calls; process ids are used again. `indexFiles` is its own path
through the actions: it returns a promise out of `try/finally` without awaiting
it, so its lock is gone before its first write (`AcquiredForIndexFiles`, then
`CheckOwner` while still in `writing`). `contended` is a history variable: two
`acquire()`s overlapped, or a lock that was not abandoned passed the timeout.

Abstracted. The in-process mutex is "one pass per instance at a time"; its
waiting order is not modelled. `isProcessAlive` answers correctly (the code
takes a live process of another user for dead).

### QueryPool and CallService

Each handler of the pool (`run`, a `ready` or `result` message, the death of a
worker, `destroy`, the soft timer) is one action that ends in `drain()`, as in
the code; `Drained` is growth followed by dispatch. `createWorker` may throw,
which costs a unit of the crash budget, and the growth loop tries again:
`LoopEnds` states when that loop may have stopped. Which idle worker gets a
call is left open, since nothing depends on it. `ToolHandler`'s choice between
pool and process is part of `Run`. A worker that could not open the project is
in `unopened`; it answers "cannotOpen".

`CallService` has four actions: calls are accepted, some of the open ones
answered, one served by the caller itself, or all answered by the shutdown.
`QueryPool!KeepsPromise` is the refinement, with calls "waiting" mapped to the
open ones.

Abstracted. Messages of terminated workers after `destroy()` are ignored (they
find no call). The soft timer may fire for any waiting call at any time.

### Proxy

Each handler of the proxy is one action: a line from the host (`Say`), the end
of the search for a daemon (`Attach`, `GiveUp`), a line from the daemon
(`Relay`), its loss (`LoseDaemon`), a call served by the in-process engine, and
`shutdown()`. `pending`, `inflight` and `status` are the code's variables;
`backlog` is the array that the last `for ... await` loop still has to serve.
`daemon` is what lies beyond the socket: lines not yet read, requests being
worked on, answers not yet read, and `heard`, the lines it has read so far. The
daemon may be dead already when the proxy attaches (the socket buffers what is
written), and dies at any moment with any tail of its answers unread. Lines are
of four kinds, as `handleLocally`, `trackInflight` and the reader of stdin tell
them apart. `said` and `heard` are history.

`KeepsPromise` maps a request without an answer to an open call, "daemon" and
"inProcess" to answers, and the exit to the shutdown; `LoseDaemon` answers
several at once.

Abstracted. Contents of lines; lists answered from constants; JSON-RPC ids (a
line is its own id, so the id a host might use twice is not modelled).

### ParsePool and FullIndex

`pool` is a record with the fields of `ParseWorkerPool`; each of its handlers is
an operator from that record to the set of records it may leave behind, for
`createWorker` may throw. `Drained` is growth, dispatch and the failing of what
nobody will run, and ends each handler as in the code. `answer` is the state of
the promises. `threads` is what lies beyond the pool: whether a worker's thread
is loading, which parse it computes, and the events of its death not yet
handled ("error" then "exit", or "exit" alone). A worker that timed out or was
recycled is terminated, and its exit still arrives; `late` counts the events of
threads that are out of service, and `AlreadyHandled` is what the pool does with
each. Their messages find no parse, since `inflight` is by worker, and are left
out.

`FullIndex` has one action per turn of `indexAll`: `Notice`, `PassOver` and
`Feed` are the loop over the files, `ComeBack` a parse that is settled, with
all of `flushOrdered`; `EndPass` decides between abort, end and retries;
`Retry`, `RetryUnread`, `RetryCameBack`, `StatFails` and `EndRetries` are both
retry loops, told apart by `phase`. `order` is the files fed: its length is
`nextSeq`. `rows`, `errors` and `counts` are what is stored and reported. What
awaits a parse runs before the next event (`Settling`), as promise callbacks do.
A parse reports symbols ("nodes"), symbols and an error of memory ("half"),
neither ("plain", also a file-level language), or an error alone ("broken");
one with warnings and no symbols, which the code counts as skipped, is left out.

Abstracted. Files do not change during the index, and the store is empty at
first: `IndexStore` has the reads, the stats and the transactions. `signal` is
looked at between batches of ten files and before each file; the model has the
second. `indexAll`'s wait for its pool to be destroyed is taken to end
(finding 28), and so is the loading of grammars (finding 29). A file of a
file-level language is counted as skipped; the code counts it as indexed.
A thread that exits by itself with code 0, which the pool ignores, is left out.

### Daemon

A candidate's way to the lock is one action per system call: the exclusive
create (`Acquire`), the read of the record it met (`ReadExisting`), the probe
and decision (`Judge`), the second read and probe of `clearStaleDaemonLock`
(`Reread`), its unlink (`Clear`), and the round of `TAKEOVER_MAX_RETRIES`
(`Retry`). A holder clears the socket path, binds it, serves, and in `stop()`
waits for its connections, reads its lock, removes it, and removes the socket
path last (`CloseDone`, `ReadOwnLock`, `ReleaseLock`, `Exit`). A connection is
counted when its hello has come or been given up (`Register`); its close is
delivered before or after that (`SeeClose`, `SeeEarlyClose`), or never, for the
clients in `Silent`. The idle timer, the dead-client sweep and the inactivity
backstop are `IdleFires`, `Sweep` and `BackstopFires`. The stop command reads
the pid, signals, waits, kills and cleans up, one action each. A client polls,
attaches, falls back, loses its daemon and leaves.

`disturbed` is history: processes whose lock or socket another one removed on
what it had read before. The code does not exclude that (findings 8 and 11
below); the properties except exactly those processes.

Abstracted. Time; the version hello, but for clients of another version; reuse
of process ids; the list of socket paths, which is one path here. The lock is
created by a hard link; the `O_EXCL` create for file systems without links
(`daemon.ts:586-587, 615-629`), which shows an empty record between creation and
write, is left out.

### IndexStore

One action per transaction of `storeExtractionResult` and of the resolver, one
per read of the disk. `DropOld` takes a file's old rows away with what the
foreign keys cascade to, remembering the incoming edges of other files;
`InsertNodes`, `ReinsertEdges`, `InsertRefs` and `UpsertRow` follow. `FilesDone`
ends the file loop and decides which references are resolved: those of the
changed files, or, in a sync, afterwards the sweep of all that is left
(`TakeBatch`, `SweepDone`). A batch is `Link` (edges), `DropResolved`,
`DropUnresolved`; `SecondPass` is the deferred resolution of references that
only it can resolve. `known` is the cache of names of the process that stays up,
against which it looks references up. A kill is `Crash`; `close()` in the middle
of a sync has the same effect on the store.

`blinded`, `torn`, `excused` and `interrupted` are history: which files were
saved unseen, killed between nodes and row, which references the code loses and
for which of its reasons. The README's findings 13, 14 and 17 are these reasons.

Abstracted. How a reference is scored among several candidates (`Targets`: any
of them); kinds of nodes and edges; which node of a file a reference starts
from; the vocabulary and search tables; two passes at a time, which the lock is
for.

### MigrationOrder and UnitPlanning

Sequential computations, one action per turn of a loop, from every input the
instance lists. `MigrationOrder` is Tarjan's search with its explicit stack
(`Start`, `Meet`, `Look`, `Close`), condensation, and the waves. `UnitPlanning`
goes on: passes that pack small units into bins until one packs nothing, the
second ordering (`EmitLevel`, or `Throw`), the order of the features of an
oversized module, its split, and the annotation of dependencies and waves.
The properties compare with reference definitions: reachability for components,
longest chains for waves, the declared edges for dependencies.

Abstracted. Names of units and features (numbers, in the order in which the
code sorts); the order in which groups and their members are visited, which is
any; how features are found in a module. Where several modules are oversized, the
model splits all along one graph of features, and the code each along its own.

## 3. The runs

All state spaces are explored exhaustively.

| Run | Shows |
|---|---|
| `watcher_tree` | three nested directories, one file in the deepest, one fault, three versions: the safety properties below |
| `watcher_flat` | one directory, two files, no faults: `EventuallyFresh` |
| `watcher_recreated` | finding 1 |
| `watcher_emptied` | finding 2 |
| `lock_pass` | two instances in the server and one in another process, one crash, one expiry: exclusion, no orphaned lock, and recovery from the dead |
| `lock_overlap` | finding 3 |
| `pool_pass` | two workers, three calls, crash budget 3, one retry: the pool's invariants, its refinement of `CallService`, and service without timers |
| `proxy_pass` | a handshake, two calls, a ping and a notification, a daemon found, not found, dead on arrival or lost: order, one answer each, refinement of `CallService` |
| `daemon_pass` | two candidates, two clients (one of another version, one whose close is lost), one kill or stop command, files left by a dead daemon: who holds lock and socket, when a daemon stops |
| `index_pass` | a caller and a callee, two saves, one kill: what store and files agree on after every pass |
| `index_all_pass` | three files in a window of two, two workers, two parses that hang or threads that die, spawns that throw, an abort: order, account, end, refinement of `CallService` |
| `plan_pass` | four modules, 528 inputs, one of the builds with two entries: order and plan |

Properties of the watcher. `StalenessAnnounced`: a file that differs from its
rows is pending, or its event is queued, or its directory is yet to be read.
`SubtreesAnnounced`: the same for directories that lack a watch.
`NoLostWakeup`: pending files have a sync running or a timer. `SettledIsFresh`:
nothing queued, pending or given up means index equals disk. `Coverage` is the
inductive invariant of section 5.
`StopIsFinal` (of steps): what is in flight when a watcher stops begins no sync,
arms no timer and does not degrade it. The first rests on the `stopped` guard of
`flush` (finding 31 is the timer it is needed for), the last on `stop()`
resetting the streaks, with budgets of at least one (`BoundAssumption`; the code
has 5 and 5). The second has two defences, the guard `!this.stopped` in the
`finally` block (855) and the `pendingFiles.clear()` of `stop()`: with either one
gone the other still holds, because `handleChange` adds to the pending set only
while `ready`.
`ClearedMeansIndexed` (of steps): a clean sync forgets only what it has read.
`EventuallyFresh`: an announced edit is indexed, or the watcher stops.

Properties of the lock. `UncontendedExclusion`, `NoOrphanedLock`,
`AbandonedLockBroken`. Of the pool: `PoolAccounted`, `NoStrandedCall`,
`KeepsPromise`, `Served`. Of the proxy: `DaemonHearsInOrder` (nothing is
skipped, repeated or overtaken between host and daemon), `KeepsPromise`,
`EveryRequestAnswered`.

Properties of the daemon. `LockKept`, `SoleDaemon` and `SocketKept`: lock,
daemon and socket path are one process's. `IdleTracksClients`: the idle timer is
armed exactly when no client is counted. `LiveClientKept` (of steps): only the
stop command ends a daemon with a client known to be alive.
`AbandonedDaemonsStop`: when all clients have hung up, all daemons stop serving.

Properties of the store. `SyncedIsFresh`: after an undisturbed pass the rows are
what is on disk. `NodesMatchRows`: a file's symbols are those of its row's hash.
`RefsDrained`: a completed pass leaves no unresolved reference, its own or
another's. `EdgesMatchReferences`: each reference with a target has its edge, no
edge is without its reference, and each loss has one of the named reasons.

Properties of the full index. `PoolAccounted`: each worker in service is
starting, idle or busy, each parse that waits is in the queue or on one worker,
and no event is charged twice. `CommittedInOrder`: rows are written in the order
of the files, each file once, within the window. `NoFileDropped`: at the end the
counts add up to the files, and what is not stored is reported once.
`IndexEnds`: it ends, even with no worker left. `KeepsPromise`: every parse is
settled once, and `destroy()` leaves none waiting.

Type invariants. The one of `FileWatcher`, whose retry budgets are in it, has a
place of its own in `watcher_tree`. Those of `FileLock`, `Daemon` and `Proxy`
are theorems; those of `QueryPool`, `IndexStore` (with the foreign keys) and
`UnitPlanning` are the first conjuncts of `PoolAccounted`, `NodesMatchRows` and
`UnitsSound`.

Properties of the planner. `ComponentsExact`, `WavesAreDepths`; `UnitsSound`
(modules are shared out, sizes kept, tracks not mixed), `NeverThrows` (where one
module needs all the others), `PlanKeepsDependencies`, `PlanningEnds`.

### Why the bounds are enough

*Tree.* A file two levels below the root makes `watchTree` recurse through a
directory that did not exist when its parent was read, which is the case two
levels are needed for; `MaxDirWatches` is 3, so that every directory can be
watched: the early return at the limit is reached through `inotifyLimitWarned`,
and the theorems hold for every limit. One fault and one budget unit of each
counter (two failures degrade) reach every branch. Three versions let a file be
written before, during and after one pass. `MaxCreations = 1` keeps the
recreated directory, where `SettledIsFresh` fails, out of the passing run;
finding 1 is the run that lets it in. For `StopIsFinal`, the one fault may hit a
walk at its second level, where the stop leaves a timer behind; one failure
before a stop and one after it exceed a budget of one, were the streaks not
reset. *Flat.* Two files are needed for one to
be read while the other changes; faults are off because a fault excuses the
file. *Lock.* Three instances over two processes give overlap inside a process
(excluded) and between processes. *Pool.* Two workers and three calls give a
queue behind full workers; a budget of 3 lets the breaker trip after a respawn;
one retry is the code's default. *Proxy.* Two calls can be in flight and at
different places when the daemon dies; the handshake, the ping and the
notification take the other branches; more lines only lengthen the queues.
*Full index.* Three files and a window of two let a parse finish behind a
slower one with a third file held back; two workers let one be replaced while
the other computes, and a concurrent spawn of one makes the growth loop stop
short; a budget of two is spent by two deaths, by two spawns that throw, or by
one of each, and `RecycleInterval` 2 recycles a worker in the middle.
`MaxTroubles` bounds hung parses and deaths, `MaxLate` the events of threads
out of service that are on their way at a time. One file can be unreadable, one
reports symbols or half of them, one an error, one nothing. *Daemon.* Two
candidates race for a lock, or a successor with an ending daemon; two clients
let one leave while the other stays; one kill or one stop command is what those
races need, and two takeover rounds let a candidate fail and succeed. *Index.*
One edge between two files, a name that moves, one that appears and one that
goes when its file grows too large; two saves let one race each of two passes;
one kill, at any of the transactions, and a batch of one reference. *Plan.*
Four modules are the fewest with which merges of two pairs can close a cycle;
the sizes make bins of two and three, a full one, and a module to split. The
theorems of section 5 have no bound of this kind.

### Fairness

The watcher: a JavaScript callback in progress returns, queued events and
expired timers are served, and a pass in progress takes its next step. The
event loop gives this as long as the process lives. Strong fairness is assumed
of one thing only: a flush that waits for the mutex, or looks at the lock file,
gets its turn if that is possible again and again; the mutex wakes its waiters
in order, and an unsuccessful look at the lock also ends the wait. Nothing is
assumed of editors, of the other writer, of faults, or of direct passes being
started. The lock: an instance in the middle of its calls goes on, passes end,
and some live process wants the lock again. The pool: a worker that starts
reports ready and one that computes reports its result, unless it dies; the
soft timers have no fairness, so `Served` holds without them. The proxy: the
search for a daemon ends (it polls a bounded number of times), socket events
are handled, the engine serves each call, a daemon that lives reads and answers;
nothing of the host. The daemon: each process runs what its event loop has to
run, except that nobody has to launch, leave, kill or stop, and that the
inactivity window is sure to pass only when all clients have hung up. The
full index: something happens as long as anything can, one weak fairness of
`Progress`, which holds because a parse that does not end is timed out, and
grammars are taken to load or to fail; no death, no failed spawn and no abort
is assumed. The planner: it computes until it is done.

Deadlock is not checked where the system may stop for good: a watcher, a pool, a
daemon and a proxy that have ended, a full index that is over, and a finished
plan.

## 4. Findings

Shown by runs; `PROJECT.json` quotes the contradicted lines:

1. A directory deleted and created again is never watched again
   (`watcher.ts:456`): its entry in `dirWatchers` outlives the kernel's watch.
2. A project emptied of source files makes the watcher give up for lock
   contention that does not exist (`index.ts:745`): a real pass over nothing
   has the same result as no pass.
3. Two overlapping `acquire()`s can both succeed (`utils.ts:260`): removal of a
   stale lock is not tied to the lock that was read. An empty lock file, the
   instant between creation and the writing of the process id, is enough.

Reached by the models, or met while reading, without a run of their own:

4. `indexFiles` returns its promise out of `try/finally` without awaiting it, so
   it releases the lock before it writes (`index.ts:572`). In `FileLock` it is
   `AcquiredForIndexFiles`, and a second process then writes beside it.
5. A worker that could not open the project stays in the pool and fails the
   calls it is given (`query-pool.ts:206`), where the comment on `healthy`
   promises in-process dispatch. In `QueryPool` it is the answer "cannotOpen".
6. Merging units can close a cycle when a project has two entry modules
   (4 needs 1, 3 needs 2; merged {4,2} and {3,1}): planning then throws, where
   the comment at `unit-planning.ts:543` says the rules "provably preserve
   acyclicity". `plan_pass` reaches `Throw`; `NeverThrows` is the claim that
   holds, of a project one module of which needs all the others. It is proved for
   projects of any size (`PlanningNeverThrows`).
7. `annotateUnitDependencies` looks only at earlier parts
   (`unit-planning.ts:225`), so a dependency inside a cycle of features is
   dropped, against its comment (217-220).
8. `clearStaleDaemonLock` reads, probes and unlinks in separate calls
   (`daemon.ts:652`): two candidates can remove each other's fresh lock, which
   the comment at 632-634 excludes. In `Daemon` the victim is `disturbed`.
9. The idle timer may stop a daemon with a connection whose hello is still
   unread (`daemon.ts:397-400`).
10. A connection closed before its hello is counted all the same
    (`daemon.ts:366-368`), and keeps the daemon until the sweep or the backstop.
11. `stop()`'s last unlink (`daemon.ts:346`) and `cleanupDaemonArtifacts`
    (`daemon-registry.ts:118-129`) can remove a successor's socket or lock.
12. With the daemon lost, any line with an id that is no request, such as the
    host's answer to the daemon's `roots/list`, is answered with an error
    (`proxy.ts:272-276`).
13. A kill between the transactions of `storeExtractionResult` loses the
    incoming edges of other files, kept in memory only, and can leave symbols
    without a row; one between `DropResolved` and the second pass loses the
    references put off (`resolution/index.ts:891`). No later sync restores them.
14. The resolver's caches outlive a pass (`resolution/index.ts:319-329`): the
    orphan sweep of a sync that changed no file, after another process was
    killed, may resolve that process's references against an old set of names,
    and drop them.
15. `indexAll` reads a file and then stats it (`extraction/index.ts:1697-1698`):
    an edit in between leaves the old hash under the new size and time, and
    every sync skips the file until its next edit. The comment at 2252-2256
    knows of one blind spot only, a save that keeps size and time.
16. A file that grows past the size limit, or no longer parses, keeps its old
    row and symbols (2019, 2055), and every sync tries it again.
17. A symbol that moves to another file takes no callers with it: the edges of
    unchanged files into the old place go with the old rows.
18. `CodeGraph.recreate()` deletes the database without the lock
    (`index.ts:341-371`), under a sync of another process that goes on writing
    to the deleted file.
19. The `else` branch at `index.ts:633-648` is never taken with changed files.
20. `engine.ts`: `stop()` while `doInitialize` awaits `open()` leaves an instance
    that nobody closes; `retryInitializeSync` can open a second one.
21. The catch-up gate is taken by the first tool call only
    (`tools.ts:1364-1367`): a second one beside it does not wait, although
    `engine.ts:286-295` describes what the gate is for.
22. `ledger set` (`migration/cli.ts:814-850`) reads, changes and writes the
    migration ledger without a lock, while parallel agents are told to use it.
23. A file whose extractor catches the error of memory that `tree-sitter.ts:510`
    throws again (`svelte-extractor.ts:64`, `astro-extractor.ts:70`,
    `cfml-extractor.ts:45`) is stored with the symbols found so far and the hash
    of its text. It is retried, but the better result is discarded, since the
    hash is unchanged (`extraction/index.ts:2077`), its error is removed, it is
    counted as indexed twice, and `filesErrored` can become negative (1830).
    In `FullIndex` it is the result "half".
24. Workers spawned after a death, a time-out or a recycling are not held to
    `MAX_CONCURRENT_SPAWN` (`parse-pool.ts:245, 256, 294`), whose comment says
    "Max workers cold-starting at once".
25. The retry pass takes errors that say "Worker exited" or "memory access out
    of bounds" (`extraction/index.ts:1789`). A worker out of JavaScript heap
    raises an error event first and rejects with "Worker error: ...", and is not
    retried, where `parse-pool.ts:179-183` promises it for OOM rejections; nor is
    a parse refused because the budget is spent.
26. `recycleAll()` runs once per retry pass (`extraction/index.ts:1798, 1844`)
    where the comment at 1781-1783 says "Recycle before each attempt".
27. The `stat` after a retry is outside any `try` (`extraction/index.ts:1825,
    1875`): a file deleted at that moment makes `indexAll` throw, and the pool is
    never destroyed. It is `StatFails` and the phase "threw".
28. `destroy()` awaits `terminate()` (`parse-pool.ts:358`), which the comment at
    254 says can hang.
29. A worker that never finishes loading its grammars has no time-out, and parses
    queued behind it wait for ever (`parse-pool.ts:208, 318`).
30. An abort during the retry pass ends it early and is reported as success
    (`extraction/index.ts:1804, 1893`); results of retries are stored at the end
    and not in the order of the files, which the comment at 1573-1577 says the
    graph depends on.
31. A watch that fails for want of descriptors, in a subdirectory of a directory
    that has just appeared, degrades the watcher in the middle of the walk; the
    source files listed after that subdirectory then arm the debounce timer of
    the stopped watcher (`watcher.ts:506-511, 565`), the recursion being meant
    only to "unwind" (453). The timer fires once, and `flush` returns at 774.

## 5. The proofs

All theorems hold for every value of the constants that satisfies the ASSUMEs
of the module: any tree, any files, any bounds; any instances and processes.

`FileWatcherProofs`. What `stop()` leaves behind is the inductive lemma
`QuietWhenStopped`: no watch, walk or pending file, and both streaks at zero
while a flush is still to resume. From it follow `StaysStopped` (the resuming
flush cannot exceed a budget) and, as inductive invariants, `TypeCorrect` (whose
bounds on the streaks need it) and `WakeupKept`. `StalenessAnnounced` is not
inductive: a pass might end, and clear, a file that changed after being read.
`Coverage` closes the gap by following the pass:

* `ReadOrAnnounced`: while a flush's pass runs, a stale file is stamped
  "after", or not yet read by the pass, or announced for some other reason (its
  event queued, its directory unread, or excused).
* `ListingCurrent` does the same for the scan's list, which decides removals
  and comparisons; `PassOwned` ties the pass to a running flush, which is why
  an event that arrives during it is stamped "after"; it also shapes `todo` and
  `filesToIndex`.
* `WritesAreNew` and `RemovalsAreStale`: a file that comes back while its row
  is being dropped was stale already, so the drop hides nothing. This needs
  versions never to repeat.
* `StaleOrAnnounced` is the banner's claim in the form the induction carries.

At the end of a pass nothing is unread, so what is stale is "after" or
announced, and clearing the "before" files is sound: that is `ClearingIsSound`
(`ClearedMeansIndexed`), and `BannerTruthful` follows from
`StaleOrAnnounced`. The proof has one step per action.

The tree, in the same module. `SubtreesFound` and `SettledMeansFresh` hold for every
tree in which no directory is created twice (`MaxCreations = 1`); without that
hypothesis they are false, which is finding 1. `Reach` is the invariant:
`WatchesAreLive` (an entry of `dirWatchers` is a live watch while its directory
exists) is what a second creation breaks; `SubtreesCovered` extends
`SubtreesAnnounced` to the startup walk. `SettledMeansFresh` then needs no
induction over data: were some directory unwatched, so would its parent be, and
the assumption on `ParentOf` (every set of directories without the root has a
member whose parent is outside) leaves no such set. A file in a watched and
listed directory is covered by `BannerTruthful`.

`FileLockProofs`. `UncontendedExclusion` needs what an `acquire()` in progress
may rely on (`AcquirerIsRight`): what it read is still what is there, and what
it is about to remove is held by nobody. That is true exactly while no second
`acquire()` runs beside it and no held lock expires, hence the history variable
`contended`. `HolderOwnsFile` gives exclusion: the lock file has one owner.
`LockHasOwner` rests on `OwnerInv`, which needs no such assumption: `release()`
finds its process id in the file whenever the file is its own.

`DaemonProofs`. `LockKept`, `SoleDaemon` and `SocketKept` follow from
`Arbitration`, inductive with `TypeOK`. Beside the two properties it has
`JudgedDead`, that a candidate about to unlink has judged a process that is dead
(so that whom it robs, if anybody, is another, who is then `disturbed`), and
`Started`, that a process whose id was in the pid file or was read from it has
started, so that one found dead stays dead. `IdleTracksClients` is one
conjunct of `ClientsTracked`; `Quiet` says which processes have no connections
and no timer, `StopsForGood` that a stopping process never serves again. Its
step has one lemma per way in which a set of connections changes.
`LiveClientKept` is a property of single steps and needs only `TypeOK`.

`ProxyProofs`. The invariant is `OneAnswerEach`: beside `TypeOK` it has `Placed`
(which queues are empty in which phase), `OnTheWay` (a line is in one place at
most on its way through the daemon, and there once) and `Owed` (what is held
back, in flight or being served waits for its answer, and a request on its way
through the daemon is in flight, so that the daemon's answer to it is the
first). `ProxyTypeCorrect` says more than it seems: a second answer would be the
value "twice", which is outside the type of `answer`. `DaemonHearsInOrder` is
inductive relative to it. For `ProxyImplementsService` each action is shown to
be a step of `CallService`, or to change nothing it sees, under the invariant.

`QueryPoolProofs`. `PoolInv` is a property of the pool between two handlers. It
adds two facts to `PoolAccounted` and `NoStrandedCall`: no call is in two places
(`OnePlace`, settled calls included, for a call that the soft timer answered may
still be queued or on a worker), and nobody holds a call that was not made
(`Held`). Each handler changes the pool and ends in `drain()`; so the proof has
one set of lemmas about `drain()` for a pool in any state a handler can leave it
in, and one lemma for each handler up to that call. `GrownSound` and `GivenSound`
say that growing and dispatching keep a pool sound, `GivenNotStranded` that a
pool comes out of dispatch with no call beside an idle worker, if the growth
loop has done its work (`FullyGrown`). `PoolImplementsService` shows that each
handler is one step of `CallService`; `Run` on an unfit pool is `SelfServe`.

`FullIndexProofs`. `IndexInv` says nothing of the pool. So `CommittedOnce` and
`NothingDropped` hold whatever the pool answers, and in whatever order. Its
parts: `FedInOrder` is `CommittedInOrder` with the bookkeeping of the window;
`OfCommitted`, that rows are of committed files; `Accounted`, that each file the
loop has passed is committed or not yet, and each committed one is counted once
and stored or on the list of errors once; `PassEnded`, that a pass that was not
aborted ends with nothing in flight. `ComeBackStep` is the step that matters: a
run of results becomes ready, of which the first was awaited, and the cursor
stops at the next file in flight (`CursorStep`). That `Max` finds the end of the
run, and that `AtPositions` drops and repeats nothing, are lemmas; the first
rests on the well-foundedness of the naturals, the second on the rank of a
number in a finite set.

The pool in `FullIndexProofs`, which comes first there. `ParsePoolAccounted` and
`ParsePoolImplementsService` rest on `PoolInv`. Of the pool alone it has
`AtEase`, which holds between two handlers: it is `Sound` (each worker is
starting, idle or busy, no call is in two places, the budget is charged at most
once per death), a call waits exactly while it is queued or on a worker (`Held`),
none is stranded in the queue (`NoneStranded`), and a pool destroyed has no
workers.
Of the pool and the index together: while a pass runs the pool is not destroyed,
the calls that wait are those of the window or of the one retry (`Awaited`), and
the files a pass has yet to reach are untried in it (`AttemptsLeft`), so that no
call is made twice. The lemmas about handlers take the pool as a
value: `AtEase(p)` and a handler's guard give `AtEase` of what the handler
returns, and say which calls it answered. As in the query pool, a handler changes
the pool and ends in `drain()`, so the lemmas about `drain()` come first. A
handler answers only calls that wait, and answers them with a result or an error:
that is `EventHandled`, from which the refinement follows. `recycleAll()` alone
does not end in `drain()`: it keeps `NoneStranded` because the index runs it when
no call waits, which is what `Awaited` says (`RecycledPool`). The theorems assume of the constants that no
result is named like an error.

`IndexStoreProofs`. `StoreInv` has what a pass holds in memory at each of its
places (`PassOK`) and the foreign keys with the rows of the file at hand
(`StoreOK`); `SymbolsMatchRows` follows. `SyncLeavesFresh` needs three parts
beside it. `RowsTruthful`: a row with the stat of its file has its content, or
the file was saved unseen; this is what makes the comparison of stats a sound
test, through any race of earlier passes. `ReadTruthful`: the same of what is
read of a file and not yet stored; here the order of stat and read matters.
`QuietPass`: while nothing is saved, what the pass has dealt with is fresh.
`RefsInv` follows the size of the table of references from batch to batch
(`PassDrainsRefs`): a batch that resolves nothing still deletes its rows, so
the loop cannot end on a table that did not shrink.
`EdgesInv` is `EdgesMatchReferences` for every state: a reference without its
edge is in the table, or excused, or held by the pass, among the edges of the
file being replaced or among those put off to the second pass. What it adds is
that nobody holds a reference that its file does not make, that a file being
stored has no edges of its own yet, and that a sync which changed files resolves
against names as they are. `SymbolsMatchRows` is the only one that needs no
other; `EdgesOfReferences` needs `StoreInv` and `RefsInv`. The assumptions on the
constants are types, that a content has finitely many references, and that
`None` is neither a content nor a row.

`UnitPlanningProofs`. The inputs are any finite set of modules, any graphs on
them, any sizes with `MinUnit` at most `MaxUnit`, and any features; groups and
their members come in any order. No lemma is an induction over data:
reachability is the least closed set (`Reach`), sorting is by rank (`InOrder`),
sums are those of the library, and where a proof by hand would be by induction
on a size, a counterexample of least cardinality is taken instead
(`MinFacts`, `MaxFacts`).

* `ComponentsAreExact` rests on `SearchInv`, the invariant of Tarjan's search
  with an explicit stack, between any two turns of its loop: `Chained`, that
  each module on the stack reaches a frame at or below it, and each frame all of
  the stack above it; `LowExact`, that the low number of a frame is that of a
  module it reaches, and bounds from below those of all that has been explored
  from it up to the next frame; `ClosedDown`, that a component is closed after
  all it depends on. When low and number agree, what is above on the stack
  reaches nothing below: it is a component, all of it.
* `WavesAreTheDepths`. `Emitting`: what waits is counted, what is gone has
  emitted all it needs, and every unit that is ready needs one of the last wave.
  That no unit is left waiting follows from `ClosedDown`: of the components that
  wait, the first closed has nothing to wait for.
* `UnitsAreSound`. `PlanSound` follows a pass: a bin is of one group, small, with
  no path between two of its members (`Apart`); a pack is a bin, or a bin and a
  unit that depends on all of it (`Packed`); packs share no unit. The
  code does not look whether the owner is in the group it takes over. It is not,
  for then it would have the group's dependents and depend on itself; except
  that a sole root may be in its own group, alone in a bin, consumed before that
  bin is looked at (the last conjunct on `bins`).
* `PlanningNeverThrows`. `NotCyclic`: every set of units has one that depends on
  none of the others. It holds of components, and each pass keeps it. What
  depends on a unit of a pack depends on all of the pack, or on its owner, since
  members of a group have the same dependents but for roots (`BlockEntered`): a
  cycle over packs is then one over units (`BlocksAcyclic`). Where one module
  needs all the others there is one root, and nothing depends on its pack. With
  two roots that argument fails, and so does the code (finding 6).
* `PlanKeepsThem`. `LaidSound`: `Topological` and `PartsLaid` say that a unit, and
  then a part, comes after all it depends on, which is why looking only at
  earlier parts finds every dependency; `Ranked` says the same of features that
  form no cycle, and `Staged` that each list is complete before the next is
  begun.

Type invariants of the components with proofs are theorems (`TypeCorrect`,
`LockTypeCorrect`, `DaemonTypeCorrect`, `ProxyTypeCorrect`), or parts of one
(`PoolIsAccounted`, `ParsePoolAccounted`, `SymbolsMatchRows`, `UnitsAreSound`).

Only model-checked: liveness (`EventuallyFresh`, `AbandonedLockBroken`,
`Served`, `EveryRequestAnswered`, `AbandonedDaemonsStop`, `PlanningEnds`,
`IndexEnds`), which is outside what the prover does. Every invariant and every
other action property that a passing run checks is a theorem.

## 6. Not modelled

The map covers a small part of the repository's lines, because most of them
hold no state machine: extractors for languages and frameworks, name matching
and call synthesis are pure functions of a file's text or of the store, best
tested on examples.

* Extraction, resolution strategies and framework resolvers, traversal, search,
  context, appgraph: pure functions, or read-only queries.
* The engine (`engine.ts`): findings 20 and 21 came from reading it.
* `recreate()` against a running sync (finding 18): it takes two databases at
  one path, which `IndexStore` does not have.
* Watchdogs: each ends its process, which is `Crash` in `FileLock`, `Daemon` and
  `IndexStore`, and `DaemonDies` or `Exit` in `Proxy`.
* `runProxy`, the older proxy, which nothing calls.
* CLI, installer, upgrade, telemetry, web UI, git hooks: user interaction and
  file editing, without a protocol beyond the write lock.
