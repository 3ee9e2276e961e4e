------------------------------- MODULE Daemon -------------------------------
(***************************************************************************)
(* The shared MCP daemon of one project (src/src/mcp/daemon.ts), the       *)
(* launchers that connect to it or spawn it (src/src/mcp/index.ts,         *)
(* src/src/mcp/proxy.ts) and the command that stops it                     *)
(* (src/src/mcp/daemon-registry.ts).                                       *)
(*                                                                         *)
(* Processes meet in three places of the file system: the pid file, which  *)
(* is the lock, the socket path and the registry record.  One step is one  *)
(* system call on one of them, or one callback of an event loop.           *)
(*                                                                         *)
(* Abstractions: time is a choice (a timer may fire whenever it is armed); *)
(* the ordered socket candidates are the first one the file system can     *)
(* host, the same for everyone; a client's connect includes the hello it   *)
(* reads; process identifiers are not reused.                              *)
(***************************************************************************)
EXTENDS Naturals, FiniteSets

CONSTANTS Processes,     \* the detached daemon processes that may be spawned
          Clients,       \* the proxies, one per MCP host session
          OtherVersion,  \* the clients of another package version
          Silent,        \* the clients whose socket close is never delivered
          Leftover,      \* the pid a process killed before left in the pid file
          None,
          MaxAttempts,   \* TAKEOVER_MAX_RETRIES
          MaxFaults      \* bound on kills and runs of the stop command together

\* A connection as the daemon knows it: whose it is, whether its session has started,
\* whether the client-hello named its pids, whether its close has been seen.
Connection == [daemon : Processes, counted : BOOLEAN, known : BOOLEAN, closed : BOOLEAN]

ASSUME DaemonAssumption ==
    /\ None \notin Processes \cup Clients \cup Connection
    /\ Leftover \notin Processes \cup {None}
    /\ OtherVersion \subseteq Clients
    /\ Silent \subseteq Clients
    /\ MaxAttempts \in Nat \ {0}
    /\ MaxFaults \in Nat

VARIABLES
    pc,          \* where each process is
    seen,        \* the pid each candidate judges: as read at EEXIST, then as re-read
    attempts,    \* takeover rounds each candidate has used
    idle,        \* is the process's idle timer armed?
    stopping,    \* has stop() begun?
    pidFile,     \* the pid in .codegraph/daemon.pid, or None
    sockFile,    \* the process whose socket the path leads to, or None
    registry,    \* the pid in the registry record of the project, or None
    client,      \* where each client is
    conn,        \* each client's connection as the daemon's end sees it, or None
    stopper,     \* the stop command: its step and the pid it stops
    faults,      \* kills and runs of the stop command so far
    disturbed    \* history: processes whose lock or socket another one removed
                 \* by mistake

procVars   == <<pc, seen, attempts, idle, stopping>>
fileVars   == <<pidFile, sockFile, registry>>
clientVars == <<client, conn>>
vars == <<procVars, fileVars, clientVars, stopper, faults, disturbed>>

ProcStates ==
    {"none", "acquire", "read", "judge", "reread", "clear", "retry",
     "unsock", "bind", "serving", "closing",
     "relread", "release", "relsock", "dead"}
ClientStates == {"idle", "polling", "attached", "local", "gone"}
StopperSteps == {"idle", "read", "signal", "wait", "sweeplock", "sweepsock"}

Pids == Processes \cup {Leftover}

\* isProcessAlive
Alive(p) == p \in Processes /\ pc[p] \notin {"none", "dead"}

\* The lock is p's from the link until it gives it up.
Holding(p) == pc[p] \in {"unsock", "bind", "serving", "closing", "relread", "release"}

ConnsOf(p)   == {c \in Clients : conn[c] # None /\ conn[c].daemon = p}
\* this.clients: a connection is counted once its client-hello is in or given up
Counted(p)   == {c \in ConnsOf(p) : conn[c].counted}
\* what server.close() waits for
OpenConns(p) == {c \in ConnsOf(p) : ~conn[c].closed}

\* the client's end of the connection is gone
Hungup(c) == client[c] \in {"local", "gone"}
\* peerIsDead: only a client whose pid is known can be found dead
PeerDead(c) == conn[c].known /\ client[c] = "gone"

\* History only: what process x owned was removed by one not entitled to it.
Removes(x, entitled) ==
    disturbed' = IF Alive(x) /\ ~entitled THEN disturbed \cup {x} ELSE disturbed

TypeOK ==
    /\ pc \in [Processes -> ProcStates]
    /\ seen \in [Processes -> Pids \cup {None}]
    /\ attempts \in [Processes -> 0..(MaxAttempts - 1)]
    /\ idle \in [Processes -> BOOLEAN]
    /\ stopping \in [Processes -> BOOLEAN]
    /\ pidFile \in Pids \cup {None}
    /\ sockFile \in Pids \cup {None}
    /\ registry \in Pids \cup {None}
    /\ client \in [Clients -> ClientStates]
    /\ conn \in [Clients -> Connection \cup {None}]
    /\ stopper \in [step : StopperSteps, pid : Pids \cup {None}]
    /\ faults \in 0..MaxFaults
    /\ disturbed \subseteq Processes

\* A killed daemon leaves its pid file, its socket path and its record behind.
Init ==
    /\ pc = [p \in Processes |-> "none"]
    /\ seen = [p \in Processes |-> None]
    /\ attempts = [p \in Processes |-> 0]
    /\ idle = [p \in Processes |-> FALSE]
    /\ stopping = [p \in Processes |-> FALSE]
    /\ \E left \in {None, Leftover} :
          pidFile = left /\ sockFile = left /\ registry = left
    /\ client = [c \in Clients |-> "idle"]
    /\ conn = [c \in Clients |-> None]
    /\ stopper = [step |-> "idle", pid |-> None]
    /\ faults = 0
    /\ disturbed = {}

GoTo(p, where) == pc' = [pc EXCEPT ![p] = where]

\* A process ends, and its memory and its connections with it.
Die(p) ==
    /\ GoTo(p, "dead")
    /\ seen' = [seen EXCEPT ![p] = None]
    /\ attempts' = [attempts EXCEPT ![p] = 0]
    /\ idle' = [idle EXCEPT ![p] = FALSE]
    /\ stopping' = [stopping EXCEPT ![p] = FALSE]
    /\ conn' = [c \in Clients |-> IF c \in ConnsOf(p) THEN None ELSE conn[c]]

-----------------------------------------------------------------------------
(* A candidate arbitrates the lock: startDaemonProcess.                    *)

\* A slip: the record is written over whatever is there, not linked into place.
AcquireOverwriting(p) ==
    /\ pc[p] = "acquire"
    /\ pidFile' = p
    /\ GoTo(p, "unsock")
    /\ attempts' = [attempts EXCEPT ![p] = 0]
    /\ UNCHANGED <<seen, idle, stopping, sockFile, registry, clientVars, stopper, faults, disturbed>>

\* tryAcquireDaemonLock: link() the complete record into place; EEXIST if taken.
Acquire(p) ==
    /\ pc[p] = "acquire"
    /\ IF pidFile = None
       THEN pidFile' = p /\ GoTo(p, "unsock") /\ attempts' = [attempts EXCEPT ![p] = 0]
       ELSE GoTo(p, "read") /\ UNCHANGED <<pidFile, attempts>>
    /\ UNCHANGED <<seen, idle, stopping, sockFile, registry, clientVars, stopper, faults, disturbed>>

\* The record of the holder; unreadable when it has gone meanwhile.
ReadExisting(p) ==
    /\ pc[p] = "read"
    /\ seen' = [seen EXCEPT ![p] = pidFile]
    /\ GoTo(p, "judge")
    /\ UNCHANGED <<attempts, idle, stopping, fileVars, clientVars, stopper, faults, disturbed>>

\* A live holder makes this process redundant; a dead one is cleared.
Judge(p) ==
    /\ pc[p] = "judge"
    /\ IF Alive(seen[p])
       THEN Die(p)
       ELSE GoTo(p, "reread") /\ UNCHANGED <<seen, attempts, idle, stopping, conn>>
    /\ UNCHANGED <<fileVars, client, stopper, faults, disturbed>>

\* A slip: the record re-read is not asked whether its process lives.
RereadUnprobed(p) ==
    /\ pc[p] = "reread"
    /\ IF pidFile = None \/ (seen[p] # None /\ pidFile # seen[p])
       THEN GoTo(p, "retry") /\ UNCHANGED seen
       ELSE GoTo(p, "clear") /\ seen' = [seen EXCEPT ![p] = pidFile]
    /\ UNCHANGED <<attempts, idle, stopping, fileVars, clientVars, stopper, faults, disturbed>>

\* clearStaleDaemonLock up to its unlink: gone, another pid, or alive after all
\* means there is nothing to clear.
Reread(p) ==
    /\ pc[p] = "reread"
    /\ IF \/ pidFile = None
          \/ seen[p] # None /\ pidFile # seen[p]
          \/ Alive(pidFile)
       THEN GoTo(p, "retry") /\ UNCHANGED seen
       ELSE GoTo(p, "clear") /\ seen' = [seen EXCEPT ![p] = pidFile]
    /\ UNCHANGED <<attempts, idle, stopping, fileVars, clientVars, stopper, faults, disturbed>>

\* The unlink takes whatever is there by now.
Clear(p) ==
    /\ pc[p] = "clear"
    /\ pidFile' = None
    /\ Removes(pidFile, pidFile = seen[p])
    /\ GoTo(p, "retry")
    /\ UNCHANGED <<seen, attempts, idle, stopping, sockFile, registry, clientVars, stopper, faults>>

Retry(p) ==
    /\ pc[p] = "retry"
    /\ IF attempts[p] + 1 < MaxAttempts
       THEN /\ seen' = [seen EXCEPT ![p] = None]
            /\ attempts' = [attempts EXCEPT ![p] = @ + 1]
            /\ GoTo(p, "acquire")
            /\ UNCHANGED <<idle, stopping, conn>>
       ELSE Die(p)
    /\ UNCHANGED <<fileVars, client, stopper, faults, disturbed>>

-----------------------------------------------------------------------------
(* The elected process serves: Daemon.start, stop and its timers.          *)

\* start() clears the socket path of a killed daemon before it binds.
ClearSocket(p) ==
    /\ pc[p] = "unsock"
    /\ sockFile' = None
    /\ Removes(sockFile, pidFile = p)
    /\ GoTo(p, "bind")
    /\ UNCHANGED <<seen, attempts, idle, stopping, pidFile, registry, clientVars, stopper, faults>>

\* listen(), registerDaemon, armIdleTimer and the signal handlers
Bind(p) ==
    /\ pc[p] = "bind"
    /\ sockFile = None
    /\ sockFile' = p
    /\ registry' = p
    /\ idle' = [idle EXCEPT ![p] = TRUE]
    /\ GoTo(p, "serving")
    /\ UNCHANGED <<seen, attempts, stopping, pidFile, clientVars, stopper, faults, disturbed>>

\* EADDRINUSE, or no candidate path can host a socket: give up the lock again.
BindFails(p) ==
    /\ pc[p] = "bind"
    /\ GoTo(p, "relread")
    /\ UNCHANGED <<seen, attempts, idle, stopping, fileVars, clientVars, stopper, faults, disturbed>>

\* The first, synchronous part of stop(): the timers, every counted session,
\* and the listening socket, whose path the runtime removes with it.
BeginStop(p) ==
    /\ GoTo(p, "closing")
    /\ stopping' = [stopping EXCEPT ![p] = TRUE]
    /\ idle' = [idle EXCEPT ![p] = FALSE]
    /\ conn' = [c \in Clients |-> IF c \in Counted(p) THEN None ELSE conn[c]]
    /\ sockFile' = None
    /\ Removes(sockFile, p \in {sockFile, pidFile})

\* server.close() calls back once no connection is left.
CloseDone(p) ==
    /\ pc[p] = "closing"
    /\ OpenConns(p) = {}
    /\ GoTo(p, "relread")
    /\ UNCHANGED <<seen, attempts, idle, stopping, fileVars, clientVars, stopper, faults, disturbed>>

\* cleanupLockfile: only a pid file that still names this process is removed.
ReadOwnLock(p) ==
    /\ pc[p] = "relread"
    /\ GoTo(p, IF pidFile = p THEN "release" ELSE "relsock")
    /\ UNCHANGED <<seen, attempts, idle, stopping, fileVars, clientVars, stopper, faults, disturbed>>

ReleaseLock(p) ==
    /\ pc[p] = "release"
    /\ pidFile' = None
    /\ Removes(pidFile, pidFile = p)
    /\ GoTo(p, "relsock")
    /\ UNCHANGED <<seen, attempts, idle, stopping, sockFile, registry, clientVars, stopper, faults>>

\* The end of stop(): the registry record, the socket path, exit.  A failed
\* start has no record to remove and unlinks the paths all the same.
Exit(p) ==
    /\ pc[p] = "relsock"
    /\ registry' = IF stopping[p] THEN None ELSE registry
    /\ sockFile' = None
    /\ Removes(sockFile, p \in {sockFile, pidFile})
    /\ Die(p)
    /\ UNCHANGED <<pidFile, client, stopper, faults>>

-----------------------------------------------------------------------------
(* Connections: handleConnection, readClientHello, dropClient, the timers. *)

\* A slip: dropping the last client does not arm the idle timer again.
DropClientsUnarmed(p, gone) ==
    /\ conn' = [c \in Clients |-> IF c \in gone THEN None ELSE conn[c]]
    /\ UNCHANGED idle

\* Some connections of p are dropped: dropClient re-arms the idle timer when it
\* drops the last counted one.
DropClients(p, gone) ==
    /\ conn' = [c \in Clients |-> IF c \in gone THEN None ELSE conn[c]]
    /\ idle' = [idle EXCEPT ![p] =
                    @ \/ (gone \cap Counted(p) # {} /\ Counted(p) \subseteq gone /\ ~stopping[p])]

\* The client-hello is in, or its timeout has passed: the session starts, even
\* when the daemon is stopping by then.
Register(p, c) ==
    /\ c \in OpenConns(p) \ Counted(p)
    /\ \E known \in {FALSE, c \notin OtherVersion} :
          conn' = [conn EXCEPT ![c].counted = TRUE, ![c].known = known]
    /\ idle' = [idle EXCEPT ![p] = FALSE]
    /\ UNCHANGED <<pc, seen, attempts, stopping, fileVars, client, stopper, faults, disturbed>>

\* The close of a counted connection reaches its session.
SeeClose(p, c) ==
    /\ c \in (Counted(p) \cap OpenConns(p)) \ Silent
    /\ Hungup(c)
    /\ DropClients(p, {c})
    /\ UNCHANGED <<pc, seen, attempts, stopping, fileVars, client, stopper, faults, disturbed>>

\* The close comes before the client-hello: the session starts on a socket whose
\* close event has been, and stays counted with no pid to check.
SeeEarlyClose(p, c) ==
    /\ c \in OpenConns(p) \ (Counted(p) \cup Silent)
    /\ Hungup(c)
    /\ conn' = [conn EXCEPT ![c].counted = TRUE, ![c].closed = TRUE]
    /\ idle' = [idle EXCEPT ![p] = FALSE]
    /\ UNCHANGED <<pc, seen, attempts, stopping, fileVars, client, stopper, faults, disturbed>>

\* The idle timer looks again at the counted clients before it stops the daemon
\* (it never finds one: IdleTracksClients).
IdleFires(p) ==
    /\ pc[p] = "serving"
    /\ idle[p]
    /\ Counted(p) = {}
    /\ BeginStop(p)
    /\ UNCHANGED <<seen, attempts, pidFile, registry, client, stopper, faults>>

Dead(p) == {c \in Counted(p) : PeerDead(c)}

\* reapDeadClients: drop the clients whose process is gone.
Sweep(p) ==
    /\ pc[p] = "serving"
    /\ Dead(p) # {}
    /\ DropClients(p, Dead(p))
    /\ UNCHANGED <<pc, seen, attempts, stopping, fileVars, client, stopper, faults, disturbed>>

\* A slip: a client whose pid is unknown is taken to be alive.
ProvablyAliveIfUnknown(c) == ~PeerDead(c)

ProvablyAlive(c) == conn[c].known /\ ~PeerDead(c)

\* A slip: the inactivity window stops the daemon whoever is still connected.
BackstopFiresAnyway(p) ==
    /\ pc[p] = "serving"
    /\ Counted(p) \ Dead(p) # {}
    /\ BeginStop(p)
    /\ UNCHANGED <<seen, attempts, pidFile, registry, client, stopper, faults>>

\* backstopShouldExit, the inactivity window over: after the same sweep, stop
\* unless no client or a provably live one is left.
BackstopFires(p) ==
    LET left == Counted(p) \ Dead(p)
    IN  /\ pc[p] = "serving"
        /\ left # {}
        /\ \A c \in left : ~ProvablyAlive(c)
        /\ BeginStop(p)
        /\ UNCHANGED <<seen, attempts, pidFile, registry, client, stopper, faults>>

\* The process is killed: by the liveness watchdog, by a user, by the system.
Crash(p) ==
    /\ faults < MaxFaults
    /\ Alive(p)
    /\ Die(p)
    /\ faults' = faults + 1
    /\ UNCHANGED <<fileVars, client, stopper, disturbed>>

-----------------------------------------------------------------------------
(* A client: getDaemonSocket, connectWithHello, and the loss of the link.  *)

Reachable(p) == sockFile = p /\ pc[p] = "serving"

\* The hello is written at once; a client of another version hangs up on it.
Connect(c, p) ==
    /\ Reachable(p)
    /\ conn[c] = None
    /\ conn' = [conn EXCEPT ![c] = [daemon |-> p, counted |-> FALSE, known |-> FALSE, closed |-> FALSE]]
    /\ client' = [client EXCEPT ![c] = IF c \in OtherVersion THEN "local" ELSE "attached"]
    /\ UNCHANGED <<procVars, fileVars, stopper, faults, disturbed>>

\* A daemon is listening already, or one is spawned and polled for.
Launch(c) ==
    /\ client[c] = "idle"
    /\ \/ \E p \in Processes : Connect(c, p)
       \/ /\ \A p \in Processes : ~Reachable(p)
          /\ \E p \in Processes : pc[p] = "none" /\ GoTo(p, "acquire")
          /\ client' = [client EXCEPT ![c] = "polling"]
          /\ UNCHANGED <<seen, attempts, idle, stopping, fileVars, conn, stopper, faults, disturbed>>

Poll(c) == client[c] = "polling" /\ \E p \in Processes : Connect(c, p)

\* The daemon never bound within the polling budget: serve in-process.
GiveUp(c) ==
    /\ client[c] = "polling"
    /\ client' = [client EXCEPT ![c] = "local"]
    /\ UNCHANGED <<procVars, fileVars, conn, stopper, faults, disturbed>>

\* onDaemonLost: serve in-process for the rest of the session.
LoseDaemon(c) ==
    /\ client[c] = "attached"
    /\ conn[c] = None
    /\ client' = [client EXCEPT ![c] = "local"]
    /\ UNCHANGED <<procVars, fileVars, conn, stopper, faults, disturbed>>

\* The host ends the session; what a session does without a daemon is not followed.
Leave(c) ==
    /\ client[c] = "attached"
    /\ client' = [client EXCEPT ![c] = "gone"]
    /\ UNCHANGED <<procVars, fileVars, conn, stopper, faults, disturbed>>

-----------------------------------------------------------------------------
(* The stop command: stopDaemonAt.                                         *)

StopperAt(step, pid) == stopper' = [step |-> step, pid |-> pid]

\* The pid of the pid file, else of a live registry record.
StopRead ==
    /\ stopper.step = "idle"
    /\ faults < MaxFaults
    /\ faults' = faults + 1
    /\ LET pid == IF pidFile # None THEN pidFile
                  ELSE IF Alive(registry) THEN registry ELSE None
       IN  StopperAt(IF pid = None THEN "sweeplock" ELSE "signal", pid)
    /\ UNCHANGED <<procVars, fileVars, clientVars, disturbed>>

\* SIGTERM stops a daemon that serves and kills one that has no handler yet; one
\* that is stopping goes on.
StopSignal ==
    /\ stopper.step = "signal"
    /\ LET p == stopper.pid
       IN  \/ /\ ~Alive(p)
              /\ StopperAt("sweeplock", None)
              /\ UNCHANGED <<procVars, sockFile, conn, disturbed>>
           \/ /\ Alive(p)
              /\ StopperAt("wait", p)
              /\ IF pc[p] = "serving"
                 THEN BeginStop(p) /\ UNCHANGED <<seen, attempts>>
                 ELSE /\ IF stopping[p] THEN UNCHANGED <<procVars, conn>> ELSE Die(p)
                      /\ UNCHANGED <<sockFile, disturbed>>
    /\ UNCHANGED <<pidFile, registry, client, faults>>

\* It has died, or has not within 3 s and is killed.
StopWait ==
    /\ stopper.step = "wait"
    /\ StopperAt("sweeplock", None)
    /\ IF Alive(stopper.pid) THEN Die(stopper.pid) ELSE UNCHANGED <<procVars, conn>>
    /\ UNCHANGED <<fileVars, client, faults, disturbed>>

\* cleanupDaemonArtifacts removes what is there, whoever it belongs to by now.
SweepLock ==
    /\ stopper.step = "sweeplock"
    /\ pidFile' = None
    /\ Removes(pidFile, FALSE)
    /\ StopperAt("sweepsock", None)
    /\ UNCHANGED <<procVars, sockFile, registry, clientVars, faults>>

SweepSocket ==
    /\ stopper.step = "sweepsock"
    /\ sockFile' = None
    /\ registry' = None
    /\ Removes(sockFile, FALSE)
    /\ StopperAt("idle", None)
    /\ UNCHANGED <<procVars, pidFile, clientVars, faults>>

-----------------------------------------------------------------------------
Candidate(p) ==
    \/ Acquire(p) \/ ReadExisting(p) \/ Judge(p) \/ Reread(p) \/ Clear(p) \/ Retry(p)

Lifecycle(p) ==
    \/ ClearSocket(p) \/ Bind(p) \/ CloseDone(p)
    \/ ReadOwnLock(p) \/ ReleaseLock(p) \/ Exit(p)

Timers(p) == IdleFires(p) \/ Sweep(p) \/ BackstopFires(p)

Connections(p, c) == Register(p, c) \/ SeeClose(p, c) \/ SeeEarlyClose(p, c)

Session(c) == Launch(c) \/ Poll(c) \/ GiveUp(c) \/ LoseDaemon(c) \/ Leave(c)

StopCommand == StopRead \/ StopSignal \/ StopWait \/ SweepLock \/ SweepSocket

\* What the event loop of a process is bound to run in the end; the inactivity
\* window is only sure to pass when every client has hung up.
EventLoop(p) ==
    \/ Candidate(p) \/ Lifecycle(p) \/ BindFails(p) \/ IdleFires(p) \/ Sweep(p)
    \/ BackstopFires(p) /\ \A c \in Counted(p) : Hungup(c)
    \/ \E c \in Clients : Connections(p, c)

Next ==
    \/ \E p \in Processes :
          \/ Candidate(p) \/ Lifecycle(p) \/ BindFails(p) \/ Timers(p) \/ Crash(p)
          \/ \E c \in Clients : Connections(p, c)
    \/ \E c \in Clients : Session(c)
    \/ StopCommand

\* Each process runs; nobody is bound to launch, leave, kill or stop anything.
Spec ==
    /\ Init
    /\ [][Next]_vars
    /\ \A p \in Processes : WF_vars(EventLoop(p))
    /\ WF_vars(StopSignal \/ StopWait \/ SweepLock \/ SweepSocket)

-----------------------------------------------------------------------------
(* What the daemon promises.                                               *)

\* The lock of a process that holds it stays its own until it gives it up, unless
\* another one removed it on what it had read before: no candidate, failed start
\* or ending daemon takes a live process's lock away.
LockKept ==
    \A p \in Processes : Holding(p) /\ p \notin disturbed => pidFile = p

\* At most one process is the daemon as long as no lock was removed by mistake.
SoleDaemon ==
    \A p, q \in Processes \ disturbed : Holding(p) /\ Holding(q) => p = q

\* The socket path leads to the serving daemon: start() may unlink the path
\* because it holds the lock, so no serving daemon is cut off by it.
SocketKept ==
    \A p \in Processes : pc[p] = "serving" /\ p \notin disturbed => sockFile = p

\* The idle timer of a serving daemon is armed exactly while it counts no client,
\* whichever of close, sweep and late hello changed the count.
IdleTracksClients ==
    \A p \in Processes : pc[p] = "serving" => (idle[p] <=> Counted(p) = {})

\* Only the stop command ends a daemon that serves a client known to be alive:
\* neither the idle timer nor the inactivity backstop does.
LiveClientKept ==
    [][\A p \in Processes :
          /\ pc[p] = "serving" /\ pc'[p] = "closing"
          /\ \E c \in Counted(p) : ProvablyAlive(c)
          => stopper.step = "signal" /\ stopper.pid = p]_vars

\* Daemons whose clients have all hung up stop serving, also when the close of one
\* was never delivered or came before it was counted.
AbandonedDaemonsStop ==
    (\A c \in Clients : Hungup(c)) ~> (\A p \in Processes : pc[p] # "serving")
=============================================================================
