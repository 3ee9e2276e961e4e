--------------------------- MODULE DaemonProofs ---------------------------
(* What TLAPS proves of the shared daemon, for any processes and clients.  *)
EXTENDS Daemon, TLAPS

\* The history only grows, by processes.
LEMMA RemovesTypes ==
  ASSUME NEW x, NEW entitled \in BOOLEAN, Removes(x, entitled), disturbed \subseteq Processes
  PROVE  disturbed' \subseteq Processes /\ disturbed \subseteq disturbed'
BY DEF Removes, Alive

\* A process that ends leaves every variable well typed.
LEMMA DieTypes ==
  ASSUME TypeOK, NEW p \in Processes, Die(p)
  PROVE  /\ pc' \in [Processes -> ProcStates]
         /\ seen' \in [Processes -> Pids \cup {None}]
         /\ attempts' \in [Processes -> 0..(MaxAttempts - 1)]
         /\ idle' \in [Processes -> BOOLEAN]
         /\ stopping' \in [Processes -> BOOLEAN]
         /\ conn' \in [Clients -> Connection \cup {None}]
<1>1. pc' \in [Processes -> ProcStates] /\ seen' \in [Processes -> Pids \cup {None}]
  BY DEF TypeOK, Die, GoTo, ProcStates
<1>2. attempts' \in [Processes -> 0..(MaxAttempts - 1)]
  BY DaemonAssumption DEF TypeOK, Die
<1>3. idle' \in [Processes -> BOOLEAN] /\ stopping' \in [Processes -> BOOLEAN]
  BY DEF TypeOK, Die
<1>4. conn' \in [Clients -> Connection \cup {None}]
  BY DEF TypeOK, Die
<1>. QED
  BY <1>1, <1>2, <1>3, <1>4

\* So does one that begins to stop.
LEMMA BeginStopTypes ==
  ASSUME TypeOK, NEW p \in Processes, BeginStop(p)
  PROVE  /\ pc' \in [Processes -> ProcStates]
         /\ idle' \in [Processes -> BOOLEAN]
         /\ stopping' \in [Processes -> BOOLEAN]
         /\ conn' \in [Clients -> Connection \cup {None}]
         /\ sockFile' \in Pids \cup {None}
         /\ disturbed' \subseteq Processes
<1>1. pc' \in [Processes -> ProcStates] /\ sockFile' \in Pids \cup {None}
  BY DEF TypeOK, BeginStop, GoTo, ProcStates
<1>2. idle' \in [Processes -> BOOLEAN] /\ stopping' \in [Processes -> BOOLEAN]
  BY DEF TypeOK, BeginStop
<1>3. conn' \in [Clients -> Connection \cup {None}]
  BY DEF TypeOK, BeginStop
<1>4. disturbed' \subseteq Processes
  BY DEF TypeOK, BeginStop, Removes, Alive
<1>. QED
  BY <1>1, <1>2, <1>3, <1>4

\* A connection that starts its session is counted, and otherwise the same.
LEMMA RegisterTypes ==
  ASSUME TypeOK, NEW c \in Clients, conn[c] # None, NEW known \in BOOLEAN,
         NEW new, \/ new = [conn EXCEPT ![c].counted = TRUE, ![c].known = known]
                  \/ new = [conn EXCEPT ![c].counted = TRUE, ![c].closed = TRUE]
  PROVE  /\ new \in [Clients -> Connection \cup {None}]
         /\ new[c] # None /\ new[c].daemon = conn[c].daemon /\ new[c].counted
         /\ \A d \in Clients : d # c => new[d] = conn[d]
<1>1. conn[c] \in Connection
  BY DEF TypeOK
<1>2. \A r \in Connection :
        \A s \in {[[r EXCEPT !.counted = TRUE] EXCEPT !.known = known],
                  [[r EXCEPT !.counted = TRUE] EXCEPT !.closed = TRUE]} :
           s \in Connection /\ s.daemon = r.daemon /\ s.counted
  BY DEF Connection
<1>3. PICK s \in {[[conn[c] EXCEPT !.counted = TRUE] EXCEPT !.known = known],
                  [[conn[c] EXCEPT !.counted = TRUE] EXCEPT !.closed = TRUE]} :
           new = [conn EXCEPT ![c] = s]
  BY Zenon DEF TypeOK
<1>4. s \in Connection /\ s.daemon = conn[c].daemon /\ s.counted
  BY <1>1, <1>2, <1>3
<1>5. s # None
  BY <1>4, DaemonAssumption
<1>. QED
  BY <1>3, <1>4, <1>5 DEF TypeOK

\* Every step keeps every variable well typed.
LEMMA TypeStep == TypeOK /\ [Next]_vars => TypeOK'
<1>. SUFFICES ASSUME TypeOK, [Next]_vars PROVE TypeOK'
  OBVIOUS
<1>. USE DaemonAssumption DEF TypeOK, Pids, ProcStates, ClientStates, StopperSteps, Connection,
         GoTo, procVars, fileVars, clientVars, ConnsOf, Counted
<1>1. ASSUME NEW p \in Processes, Acquire(p) PROVE TypeOK'
  BY <1>1 DEF Acquire
<1>2. ASSUME NEW p \in Processes, ReadExisting(p) PROVE TypeOK'
  BY <1>2 DEF ReadExisting
<1>3. ASSUME NEW p \in Processes, Judge(p) PROVE TypeOK'
  <2>1. CASE Alive(seen[p])
    BY <1>3, <2>1, DieTypes DEF Judge
  <2>2. CASE ~Alive(seen[p])
    BY <1>3, <2>2 DEF Judge
  <2>. QED
    BY <2>1, <2>2
<1>4. ASSUME NEW p \in Processes, Reread(p) PROVE TypeOK'
  BY <1>4 DEF Reread
<1>5. ASSUME NEW p \in Processes, Clear(p) PROVE TypeOK'
  BY <1>5, RemovesTypes DEF Clear
<1>6. ASSUME NEW p \in Processes, Retry(p) PROVE TypeOK'
  <2>1. CASE attempts[p] + 1 < MaxAttempts
    BY <1>6, <2>1 DEF Retry
  <2>2. CASE ~(attempts[p] + 1 < MaxAttempts)
    BY <1>6, <2>2, DieTypes DEF Retry
  <2>. QED
    BY <2>1, <2>2
<1>7. ASSUME NEW p \in Processes, ClearSocket(p) PROVE TypeOK'
  BY <1>7, RemovesTypes DEF ClearSocket
<1>8. ASSUME NEW p \in Processes, Bind(p) PROVE TypeOK'
  BY <1>8 DEF Bind
<1>9. ASSUME NEW p \in Processes, CloseDone(p) PROVE TypeOK'
  BY <1>9 DEF CloseDone
<1>10. ASSUME NEW p \in Processes, ReadOwnLock(p) PROVE TypeOK'
  BY <1>10 DEF ReadOwnLock
<1>11. ASSUME NEW p \in Processes, ReleaseLock(p) PROVE TypeOK'
  BY <1>11, RemovesTypes DEF ReleaseLock
<1>12. ASSUME NEW p \in Processes, Exit(p) PROVE TypeOK'
  BY <1>12, DieTypes DEF Exit, Removes, Alive
<1>13. ASSUME NEW p \in Processes, BindFails(p) PROVE TypeOK'
  BY <1>13 DEF BindFails
<1>14. ASSUME NEW p \in Processes, IdleFires(p) PROVE TypeOK'
  BY <1>14, BeginStopTypes DEF IdleFires
<1>15. ASSUME NEW p \in Processes, Sweep(p) PROVE TypeOK'
  BY <1>15 DEF Sweep, DropClients
<1>16. ASSUME NEW p \in Processes, BackstopFires(p) PROVE TypeOK'
  BY <1>16, BeginStopTypes DEF BackstopFires
<1>17. ASSUME NEW p \in Processes, Crash(p) PROVE TypeOK'
  BY <1>17, DieTypes DEF Crash
<1>18. ASSUME NEW p \in Processes, NEW c \in Clients, Register(p, c) PROVE TypeOK'
  <2>1. conn[c] # None
    BY <1>18 DEF Register, OpenConns
  <2>2. PICK known \in {FALSE, c \notin OtherVersion} :
           conn' = [conn EXCEPT ![c].counted = TRUE, ![c].known = known]
    BY <1>18 DEF Register
  <2>3. known \in BOOLEAN
    OBVIOUS
  <2>4. conn' \in [Clients -> Connection \cup {None}]
    BY <2>1, <2>2, <2>3, RegisterTypes
  <2>. QED
    BY <1>18, <2>4 DEF Register
<1>19. ASSUME NEW p \in Processes, NEW c \in Clients, SeeClose(p, c) PROVE TypeOK'
  BY <1>19 DEF SeeClose, DropClients
<1>20. ASSUME NEW p \in Processes, NEW c \in Clients, SeeEarlyClose(p, c) PROVE TypeOK'
  <2>1. conn[c] # None
    BY <1>20 DEF SeeEarlyClose, OpenConns
  <2>2. conn' \in [Clients -> Connection \cup {None}]
    BY <1>20, <2>1, RegisterTypes DEF SeeEarlyClose
  <2>. QED
    BY <1>20, <2>2 DEF SeeEarlyClose
<1>21. ASSUME NEW c \in Clients, Launch(c) PROVE TypeOK'
  <2>1. CASE \E p \in Processes : Connect(c, p)
    BY <1>21, <2>1 DEF Connect
  <2>2. CASE ~(\E p \in Processes : Connect(c, p))
    BY <1>21, <2>2 DEF Launch
  <2>. QED
    BY <2>1, <2>2
<1>22. ASSUME NEW c \in Clients, Poll(c) PROVE TypeOK'
  BY <1>22 DEF Poll, Connect
<1>23. ASSUME NEW c \in Clients, GiveUp(c) PROVE TypeOK'
  BY <1>23 DEF GiveUp
<1>24. ASSUME NEW c \in Clients, LoseDaemon(c) PROVE TypeOK'
  BY <1>24 DEF LoseDaemon
<1>25. ASSUME NEW c \in Clients, Leave(c) PROVE TypeOK'
  BY <1>25 DEF Leave
<1>26. ASSUME StopRead PROVE TypeOK'
  BY <1>26 DEF StopRead, StopperAt
<1>27. ASSUME StopSignal PROVE TypeOK'
  <2>. DEFINE p == stopper.pid
  <2>1. CASE ~Alive(p)
    BY <1>27, <2>1 DEF StopSignal, StopperAt
  <2>2. CASE Alive(p)
    <3>1. p \in Processes /\ stopper' \in [step : StopperSteps, pid : Pids \cup {None}]
      BY <1>27, <2>2 DEF StopSignal, StopperAt, Alive
    <3>2. CASE pc[p] = "serving"
      BY <1>27, <2>2, <3>1, <3>2, BeginStopTypes DEF StopSignal
    <3>3. CASE pc[p] # "serving" /\ stopping[p]
      BY <1>27, <2>2, <3>1, <3>3 DEF StopSignal
    <3>4. CASE pc[p] # "serving" /\ ~stopping[p]
      BY <1>27, <2>2, <3>1, <3>4, DieTypes DEF StopSignal
    <3>. QED
      BY <3>2, <3>3, <3>4
  <2>. QED
    BY <2>1, <2>2
<1>28. ASSUME StopWait PROVE TypeOK'
  <2>1. CASE Alive(stopper.pid)
    BY <1>28, <2>1, DieTypes DEF StopWait, StopperAt, Alive
  <2>2. CASE ~Alive(stopper.pid)
    BY <1>28, <2>2 DEF StopWait, StopperAt
  <2>. QED
    BY <2>1, <2>2
<1>29. ASSUME SweepLock PROVE TypeOK'
  BY <1>29, RemovesTypes DEF SweepLock, StopperAt
<1>30. ASSUME SweepSocket PROVE TypeOK'
  BY <1>30, RemovesTypes DEF SweepSocket, StopperAt
<1>31. ASSUME UNCHANGED vars PROVE TypeOK'
  BY <1>31 DEF vars, procVars, fileVars, clientVars
<1>. QED
  BY <1>1, <1>2, <1>3, <1>4, <1>5, <1>6, <1>7, <1>8, <1>9, <1>10, <1>11, <1>12, <1>13, <1>14, <1>15, <1>16,
     <1>17, <1>18, <1>19, <1>20, <1>21, <1>22, <1>23, <1>24, <1>25, <1>26, <1>27, <1>28, <1>29, <1>30, <1>31
     DEF Next, Candidate, Lifecycle, Timers, Connections, Session, StopCommand

\* Every variable keeps its type: a candidate uses fewer than MaxAttempts takeover
\* rounds before it has the lock or gives up, however the lock changes hands.
THEOREM DaemonTypeCorrect == Spec => []TypeOK
<1>1. Init => TypeOK
  BY DaemonAssumption DEF Init, TypeOK, Pids, ProcStates, ClientStates, StopperSteps
<1>. QED
  BY <1>1, TypeStep, PTL DEF Spec

-----------------------------------------------------------------------------
\* A candidate about to unlink the lock has seen that its process is dead.
JudgedDead == \A p \in Processes : pc[p] = "clear" => ~Alive(seen[p])

\* What is in the pid file, or was read from it, is a process that has started: one
\* found dead stays dead.
Started ==
  /\ \A p \in Processes : seen[p] \in Processes => pc[seen[p]] # "none"
  /\ pidFile \in Processes => pc[pidFile] # "none"

\* Inductive with TypeOK: start() may unlink the socket because the lock is its own,
\* and the lock of a live process stays because whoever is about to remove it has
\* found another, dead process in it.
Arbitration == Started /\ JudgedDead /\ LockKept /\ SocketKept

LEMMA ArbitrationStep == TypeOK /\ Arbitration /\ [Next]_vars => Arbitration'
<1>. SUFFICES ASSUME TypeOK, Arbitration, [Next]_vars PROVE Arbitration'
  OBVIOUS
<1>. USE DaemonAssumption DEF Arbitration, TypeOK, Started, JudgedDead, LockKept, SocketKept,
         Holding, Alive, GoTo, Removes, procVars, fileVars, clientVars
<1>1. ASSUME NEW p \in Processes, Acquire(p) PROVE Arbitration'
  BY <1>1 DEF Acquire
<1>2. ASSUME NEW p \in Processes, ReadExisting(p) PROVE Arbitration'
  BY <1>2 DEF ReadExisting
<1>3. ASSUME NEW p \in Processes, Judge(p) PROVE Arbitration'
  BY <1>3 DEF Judge, Die
<1>4. ASSUME NEW p \in Processes, Reread(p) PROVE Arbitration'
  BY <1>4 DEF Reread
<1>5. ASSUME NEW p \in Processes, Clear(p) PROVE Arbitration'
  BY <1>5 DEF Clear
<1>6. ASSUME NEW p \in Processes, Retry(p) PROVE Arbitration'
  BY <1>6 DEF Retry, Die
<1>7. ASSUME NEW p \in Processes, ClearSocket(p) PROVE Arbitration'
  BY <1>7 DEF ClearSocket
<1>8. ASSUME NEW p \in Processes, Bind(p) PROVE Arbitration'
  BY <1>8 DEF Bind
<1>9. ASSUME NEW p \in Processes, CloseDone(p) PROVE Arbitration'
  BY <1>9 DEF CloseDone
<1>10. ASSUME NEW p \in Processes, ReadOwnLock(p) PROVE Arbitration'
  BY <1>10 DEF ReadOwnLock
<1>11. ASSUME NEW p \in Processes, ReleaseLock(p) PROVE Arbitration'
  BY <1>11 DEF ReleaseLock
<1>12. ASSUME NEW p \in Processes, Exit(p) PROVE Arbitration'
  BY <1>12 DEF Exit, Die
<1>13. ASSUME NEW p \in Processes, BindFails(p) PROVE Arbitration'
  BY <1>13 DEF BindFails
<1>14. ASSUME NEW p \in Processes, IdleFires(p) PROVE Arbitration'
  BY <1>14 DEF IdleFires, BeginStop
<1>15. ASSUME NEW p \in Processes, Sweep(p) PROVE Arbitration'
  BY <1>15 DEF Sweep, DropClients
<1>16. ASSUME NEW p \in Processes, BackstopFires(p) PROVE Arbitration'
  BY <1>16 DEF BackstopFires, BeginStop
<1>17. ASSUME NEW p \in Processes, Crash(p) PROVE Arbitration'
  BY <1>17 DEF Crash, Die
<1>18. ASSUME NEW p \in Processes, NEW c \in Clients, Register(p, c) PROVE Arbitration'
  BY <1>18 DEF Register
<1>19. ASSUME NEW p \in Processes, NEW c \in Clients, SeeClose(p, c) PROVE Arbitration'
  BY <1>19 DEF SeeClose, DropClients
<1>20. ASSUME NEW p \in Processes, NEW c \in Clients, SeeEarlyClose(p, c) PROVE Arbitration'
  BY <1>20 DEF SeeEarlyClose
<1>21. ASSUME NEW c \in Clients, Launch(c) PROVE Arbitration'
  BY <1>21 DEF Launch, Connect
<1>22. ASSUME NEW c \in Clients, Poll(c) PROVE Arbitration'
  BY <1>22 DEF Poll, Connect
<1>23. ASSUME NEW c \in Clients, GiveUp(c) PROVE Arbitration'
  BY <1>23 DEF GiveUp
<1>24. ASSUME NEW c \in Clients, LoseDaemon(c) PROVE Arbitration'
  BY <1>24 DEF LoseDaemon
<1>25. ASSUME NEW c \in Clients, Leave(c) PROVE Arbitration'
  BY <1>25 DEF Leave
<1>26. ASSUME StopRead PROVE Arbitration'
  BY <1>26 DEF StopRead, StopperAt
<1>27. ASSUME StopSignal PROVE Arbitration'
  BY <1>27 DEF StopSignal, StopperAt, BeginStop, Die
<1>28. ASSUME StopWait PROVE Arbitration'
  BY <1>28 DEF StopWait, StopperAt, Die
<1>29. ASSUME SweepLock PROVE Arbitration'
  BY <1>29 DEF SweepLock, StopperAt
<1>30. ASSUME SweepSocket PROVE Arbitration'
  BY <1>30 DEF SweepSocket, StopperAt
<1>31. ASSUME UNCHANGED vars PROVE Arbitration'
  BY <1>31 DEF vars, procVars, fileVars, clientVars
<1>. QED
  BY <1>1, <1>2, <1>3, <1>4, <1>5, <1>6, <1>7, <1>8, <1>9, <1>10, <1>11, <1>12, <1>13, <1>14, <1>15, <1>16,
     <1>17, <1>18, <1>19, <1>20, <1>21, <1>22, <1>23, <1>24, <1>25, <1>26, <1>27, <1>28, <1>29, <1>30, <1>31
     DEF Next, Candidate, Lifecycle, Timers, Connections, Session, StopCommand

LEMMA ArbitrationInvariant == Spec => [](TypeOK /\ Arbitration)
<1>1. Init => TypeOK /\ Arbitration
  <2>1. Init => TypeOK
    BY DaemonAssumption DEF Init, TypeOK, Pids, ProcStates, ClientStates, StopperSteps
  <2>2. Init => Arbitration
    BY DaemonAssumption DEF Init, Arbitration, Started, JudgedDead, LockKept, SocketKept, Holding
  <2>. QED
    BY <2>1, <2>2
<1>. QED
  BY <1>1, TypeStep, ArbitrationStep, PTL DEF Spec

\* The lock of a live process is its own until it gives it up, unless another one
\* removed it on what it had read before.
THEOREM LockStays == Spec => []LockKept
<1>1. Arbitration => LockKept
  BY DEF Arbitration
<1>. QED
  BY <1>1, ArbitrationInvariant, PTL

\* As long as nothing was removed by mistake there is one daemon, out of any number
\* of candidates.
THEOREM DaemonIsSole == Spec => []SoleDaemon
<1>1. Arbitration => SoleDaemon
  BY DEF Arbitration, LockKept, SoleDaemon
<1>. QED
  BY <1>1, ArbitrationInvariant, PTL

\* The socket path leads to the serving daemon.
THEOREM SocketStays == Spec => []SocketKept
<1>1. Arbitration => SocketKept
  BY DEF Arbitration
<1>. QED
  BY <1>1, ArbitrationInvariant, PTL

-----------------------------------------------------------------------------
\* A process that does not serve yet, or no longer runs, has no connection.
Quiet ==
  \A p \in Processes :
     pc[p] \in {"none", "acquire", "read", "judge", "reread", "clear", "retry",
                "unsock", "bind", "dead"}
     => ConnsOf(p) = {}

\* A process that has begun to stop no longer serves.
StopsForGood ==
  \A p \in Processes : stopping[p] => pc[p] \in {"closing", "relread", "release", "relsock"}

\* Inductive with TypeOK: the clients counted and the idle timer.
ClientsTracked == Quiet /\ StopsForGood /\ IdleTracksClients

LEMMA CountedIsConnected == ASSUME NEW p PROVE Counted(p) \subseteq ConnsOf(p)
BY DEF Counted

LEMMA ConnsApart == ASSUME NEW p, NEW q, p # q PROVE ConnsOf(p) \cap ConnsOf(q) = {}
BY DEF ConnsOf

\* Connections that stay, that are dropped, that are made and that are counted.
LEMMA ConnsKept ==
  ASSUME conn' = conn, NEW p
  PROVE  ConnsOf(p)' = ConnsOf(p) /\ Counted(p)' = Counted(p)
BY DEF ConnsOf, Counted

LEMMA ConnsDropped ==
  ASSUME NEW p, NEW gone, DropClients(p, gone), NEW q
  PROVE  ConnsOf(q)' = ConnsOf(q) \ gone /\ Counted(q)' = Counted(q) \ gone
BY DEF DropClients, ConnsOf, Counted

\* Dropping the last client arms the idle timer again.
LEMMA IdleRearmed ==
  ASSUME TypeOK, NEW p \in Processes, NEW gone, DropClients(p, gone), ~stopping[p],
         idle[p] <=> Counted(p) = {}
  PROVE  idle'[p] <=> Counted(p)' = {}
<1>1. Counted(p)' = Counted(p) \ gone
  BY ConnsDropped
<1>2. idle'[p] = (idle[p] \/ (gone \cap Counted(p) # {} /\ Counted(p) \subseteq gone))
  BY DEF TypeOK, DropClients
<1>3. Counted(p) = {} => (idle'[p] <=> Counted(p)' = {})
  <2>1. idle[p] \in BOOLEAN
    BY DEF TypeOK
  <2>. QED
    BY <1>1, <1>2, <2>1
<1>4. Counted(p) # {} => (idle'[p] <=> Counted(p)' = {})
  <2>1. Counted(p) # {} => ((gone \cap Counted(p) # {} /\ Counted(p) \subseteq gone) <=> Counted(p) \ gone = {})
    OBVIOUS
  <2>. QED
    BY <1>1, <1>2, <2>1
<1>. QED
  BY <1>3, <1>4

LEMMA ConnsDie ==
  ASSUME NEW p \in Processes, Die(p), NEW q \in Processes
  PROVE  /\ q = p => ConnsOf(q)' = {} /\ Counted(q)' = {}
         /\ q # p => ConnsOf(q)' = ConnsOf(q) /\ Counted(q)' = Counted(q)
BY DEF Die, ConnsOf, Counted

LEMMA ConnsStopped ==
  ASSUME NEW p \in Processes, BeginStop(p), NEW q \in Processes
  PROVE  /\ q = p => Counted(q)' = {}
         /\ q # p => ConnsOf(q)' = ConnsOf(q) /\ Counted(q)' = Counted(q)
BY DEF BeginStop, ConnsOf, Counted

LEMMA ConnMade ==
  ASSUME TypeOK, NEW c \in Clients, NEW q \in Processes, Connect(c, q), NEW p \in Processes
  PROVE  /\ Counted(p)' = Counted(p)
         /\ p # q => ConnsOf(p)' = ConnsOf(p)
<1>. USE DaemonAssumption DEF TypeOK
<1>1. conn[c] = None /\ conn'[c].daemon = q /\ ~conn'[c].counted
  BY DEF Connect
<1>2. \A d \in Clients : d # c => conn'[d] = conn[d]
  BY DEF Connect
<1>. QED
  BY <1>1, <1>2, CountedIsConnected DEF ConnsOf, Counted

LEMMA ConnCounted ==
  ASSUME TypeOK, NEW p \in Processes, NEW c \in Clients, Register(p, c) \/ SeeEarlyClose(p, c),
         NEW q \in Processes
  PROVE  /\ ConnsOf(q)' = ConnsOf(q)
         /\ Counted(q)' = IF q = p THEN Counted(q) \cup {c} ELSE Counted(q)
<1>1. conn[c] # None /\ conn[c].daemon = p
  BY DEF Register, SeeEarlyClose, OpenConns, ConnsOf
<1>2. PICK known \in BOOLEAN :
         \/ conn' = [conn EXCEPT ![c].counted = TRUE, ![c].known = known]
         \/ conn' = [conn EXCEPT ![c].counted = TRUE, ![c].closed = TRUE]
  BY DEF Register, SeeEarlyClose
<1>3. conn'[c] # None /\ conn'[c].daemon = p /\ conn'[c].counted
  BY <1>1, <1>2, RegisterTypes
<1>4. \A d \in Clients : d # c => conn'[d] = conn[d]
  BY <1>1, <1>2, RegisterTypes
<1>. QED
  BY <1>1, <1>3, <1>4 DEF ConnsOf, Counted

LEMMA ClientsTrackedStep == TypeOK /\ ClientsTracked /\ [Next]_vars => ClientsTracked'
<1>. SUFFICES ASSUME TypeOK, ClientsTracked, [Next]_vars PROVE ClientsTracked'
  OBVIOUS
<1>. USE DaemonAssumption DEF ClientsTracked, TypeOK, Quiet, StopsForGood, IdleTracksClients, Connection,
         Alive, GoTo, procVars, fileVars, clientVars
<1>1. ASSUME NEW p \in Processes, Acquire(p) PROVE ClientsTracked'
  BY <1>1, ConnsKept DEF Acquire
<1>2. ASSUME NEW p \in Processes, ReadExisting(p) PROVE ClientsTracked'
  BY <1>2, ConnsKept DEF ReadExisting
<1>3. ASSUME NEW p \in Processes, Judge(p) PROVE ClientsTracked'
  <2>1. CASE Alive(seen[p])
    BY <1>3, <2>1, ConnsDie DEF Judge, Die
  <2>2. CASE ~(Alive(seen[p]))
    BY <1>3, <2>2, ConnsKept DEF Judge
  <2>. QED
    BY <2>1, <2>2
<1>4. ASSUME NEW p \in Processes, Reread(p) PROVE ClientsTracked'
  BY <1>4, ConnsKept DEF Reread
<1>5. ASSUME NEW p \in Processes, Clear(p) PROVE ClientsTracked'
  BY <1>5, ConnsKept DEF Clear
<1>6. ASSUME NEW p \in Processes, Retry(p) PROVE ClientsTracked'
  <2>1. CASE attempts[p] + 1 < MaxAttempts
    BY <1>6, <2>1, ConnsKept DEF Retry
  <2>2. CASE ~(attempts[p] + 1 < MaxAttempts)
    BY <1>6, <2>2, ConnsDie DEF Retry, Die
  <2>. QED
    BY <2>1, <2>2
<1>7. ASSUME NEW p \in Processes, ClearSocket(p) PROVE ClientsTracked'
  BY <1>7, ConnsKept DEF ClearSocket
<1>8. ASSUME NEW p \in Processes, Bind(p) PROVE ClientsTracked'
  BY <1>8, ConnsKept, CountedIsConnected DEF Bind
<1>9. ASSUME NEW p \in Processes, CloseDone(p) PROVE ClientsTracked'
  BY <1>9, ConnsKept DEF CloseDone
<1>10. ASSUME NEW p \in Processes, ReadOwnLock(p) PROVE ClientsTracked'
  BY <1>10, ConnsKept DEF ReadOwnLock
<1>11. ASSUME NEW p \in Processes, ReleaseLock(p) PROVE ClientsTracked'
  BY <1>11, ConnsKept DEF ReleaseLock
<1>12. ASSUME NEW p \in Processes, Exit(p) PROVE ClientsTracked'
  <2>1. Die(p)
    BY <1>12 DEF Exit
  <2>2. \A q \in Processes :
           /\ q = p => ConnsOf(q)' = {} /\ Counted(q)' = {}
           /\ q # p => ConnsOf(q)' = ConnsOf(q) /\ Counted(q)' = Counted(q)
    BY <2>1, ConnsDie
  <2>. QED
    BY <1>12, <2>2, CountedIsConnected DEF Exit, Die
<1>13. ASSUME NEW p \in Processes, BindFails(p) PROVE ClientsTracked'
  BY <1>13, ConnsKept DEF BindFails
<1>14. ASSUME NEW p \in Processes, IdleFires(p) PROVE ClientsTracked'
  <2>1. BeginStop(p)
    BY <1>14 DEF IdleFires
  <2>2. \A q \in Processes :
           /\ q = p => Counted(q)' = {}
           /\ q # p => ConnsOf(q)' = ConnsOf(q) /\ Counted(q)' = Counted(q)
    BY <2>1, ConnsStopped
  <2>. QED
    BY <1>14, <2>2, CountedIsConnected DEF IdleFires, BeginStop
<1>15. ASSUME NEW p \in Processes, Sweep(p) PROVE ClientsTracked'
  <2>1. DropClients(p, Dead(p))
    BY <1>15 DEF Sweep
  <2>2. \A q \in Processes :
           ConnsOf(q)' = ConnsOf(q) \ Dead(p) /\ Counted(q)' = Counted(q) \ Dead(p)
    BY <2>1, ConnsDropped
  <2>3. /\ \A q \in Processes : q # p => idle'[q] = idle[q]
        /\ pc[p] = "serving" => (idle'[p] <=> Counted(p)' = {})
    <3>1. \A q \in Processes : q # p => idle'[q] = idle[q]
      BY <2>1 DEF DropClients
    <3>2. pc[p] = "serving" => (idle'[p] <=> Counted(p)' = {})
      BY <2>1, IdleRearmed
    <3>. QED
      BY <3>1, <3>2
  <2>4. Dead(p) \subseteq Counted(p)
    BY <1>15 DEF Sweep, Dead
  <2>5. \A q \in Processes : q # p => Counted(q) \ Dead(p) = Counted(q)
    BY <2>4, ConnsApart, CountedIsConnected
  <2>. QED
    BY <1>15, <2>2, <2>3, <2>5 DEF Sweep
<1>16. ASSUME NEW p \in Processes, BackstopFires(p) PROVE ClientsTracked'
  <2>1. BeginStop(p)
    BY <1>16 DEF BackstopFires
  <2>2. \A q \in Processes :
           /\ q = p => Counted(q)' = {}
           /\ q # p => ConnsOf(q)' = ConnsOf(q) /\ Counted(q)' = Counted(q)
    BY <2>1, ConnsStopped
  <2>. QED
    BY <1>16, <2>2, CountedIsConnected DEF BackstopFires, BeginStop
<1>17. ASSUME NEW p \in Processes, Crash(p) PROVE ClientsTracked'
  <2>1. Die(p)
    BY <1>17 DEF Crash
  <2>2. \A q \in Processes :
           /\ q = p => ConnsOf(q)' = {} /\ Counted(q)' = {}
           /\ q # p => ConnsOf(q)' = ConnsOf(q) /\ Counted(q)' = Counted(q)
    BY <2>1, ConnsDie
  <2>. QED
    BY <1>17, <2>2, CountedIsConnected DEF Crash, Die
<1>18. ASSUME NEW p \in Processes, NEW c \in Clients, Register(p, c) PROVE ClientsTracked'
  <2>1. \A q \in Processes :
           /\ ConnsOf(q)' = ConnsOf(q)
           /\ Counted(q)' = IF q = p THEN Counted(q) \cup {c} ELSE Counted(q)
    BY <1>18, ConnCounted
  <2>. QED
    BY <1>18, <2>1 DEF Register
<1>19. ASSUME NEW p \in Processes, NEW c \in Clients, SeeClose(p, c) PROVE ClientsTracked'
  <2>1. DropClients(p, {c})
    BY <1>19 DEF SeeClose
  <2>2. \A q \in Processes :
           ConnsOf(q)' = ConnsOf(q) \ {c} /\ Counted(q)' = Counted(q) \ {c}
    BY <2>1, ConnsDropped
  <2>3. /\ \A q \in Processes : q # p => idle'[q] = idle[q]
        /\ pc[p] = "serving" => (idle'[p] <=> Counted(p)' = {})
    <3>1. \A q \in Processes : q # p => idle'[q] = idle[q]
      BY <2>1 DEF DropClients
    <3>2. pc[p] = "serving" => (idle'[p] <=> Counted(p)' = {})
      BY <2>1, IdleRearmed
    <3>. QED
      BY <3>1, <3>2
  <2>4. {c} \subseteq Counted(p)
    BY <1>19 DEF SeeClose, Dead
  <2>5. \A q \in Processes : q # p => Counted(q) \ {c} = Counted(q)
    BY <2>4, ConnsApart, CountedIsConnected
  <2>. QED
    BY <1>19, <2>2, <2>3, <2>5 DEF SeeClose
<1>20. ASSUME NEW p \in Processes, NEW c \in Clients, SeeEarlyClose(p, c) PROVE ClientsTracked'
  <2>1. \A q \in Processes :
           /\ ConnsOf(q)' = ConnsOf(q)
           /\ Counted(q)' = IF q = p THEN Counted(q) \cup {c} ELSE Counted(q)
    BY <1>20, ConnCounted
  <2>. QED
    BY <1>20, <2>1 DEF SeeEarlyClose
<1>21. ASSUME NEW c \in Clients, Launch(c) PROVE ClientsTracked'
  <2>1. CASE \E p \in Processes : Connect(c, p)
    <3>1. PICK p \in Processes : Connect(c, p)
      BY <2>1
    <3>2. \A q \in Processes : Counted(q)' = Counted(q) /\ (q # p => ConnsOf(q)' = ConnsOf(q))
      BY <3>1, ConnMade
    <3>. QED
      BY <3>1, <3>2 DEF Connect, Reachable
  <2>2. CASE ~(\E p \in Processes : Connect(c, p))
    BY <1>21, <2>2, ConnsKept DEF Launch
  <2>. QED
    BY <2>1, <2>2
<1>22. ASSUME NEW c \in Clients, Poll(c) PROVE ClientsTracked'
  <2>1. PICK p \in Processes : Connect(c, p)
    BY <1>22 DEF Poll
  <2>2. \A q \in Processes : Counted(q)' = Counted(q) /\ (q # p => ConnsOf(q)' = ConnsOf(q))
    BY <2>1, ConnMade
  <2>. QED
    BY <2>1, <2>2 DEF Connect, Reachable
<1>23. ASSUME NEW c \in Clients, GiveUp(c) PROVE ClientsTracked'
  BY <1>23, ConnsKept DEF GiveUp
<1>24. ASSUME NEW c \in Clients, LoseDaemon(c) PROVE ClientsTracked'
  BY <1>24, ConnsKept DEF LoseDaemon
<1>25. ASSUME NEW c \in Clients, Leave(c) PROVE ClientsTracked'
  BY <1>25, ConnsKept DEF Leave
<1>26. ASSUME StopRead PROVE ClientsTracked'
  BY <1>26, ConnsKept DEF StopRead, StopperAt
<1>27. ASSUME StopSignal PROVE ClientsTracked'
  <2>. DEFINE p == stopper.pid
  <2>1. CASE ~Alive(p)
    BY <1>27, <2>1, ConnsKept DEF StopSignal, StopperAt
  <2>2. CASE Alive(p) /\ pc[p] = "serving"
    BY <1>27, <2>2, ConnsStopped DEF StopSignal, BeginStop
  <2>3. CASE Alive(p) /\ pc[p] # "serving" /\ stopping[p]
    BY <1>27, <2>3, ConnsKept DEF StopSignal
  <2>4. CASE Alive(p) /\ pc[p] # "serving" /\ ~stopping[p]
    BY <1>27, <2>4, ConnsDie DEF StopSignal, Die
  <2>. QED
    BY <2>1, <2>2, <2>3, <2>4
<1>28. ASSUME StopWait PROVE ClientsTracked'
  <2>1. CASE Alive(stopper.pid)
    BY <1>28, <2>1, ConnsDie DEF StopWait, StopperAt, Die
  <2>2. CASE ~(Alive(stopper.pid))
    BY <1>28, <2>2, ConnsKept DEF StopWait, StopperAt
  <2>. QED
    BY <2>1, <2>2
<1>29. ASSUME SweepLock PROVE ClientsTracked'
  BY <1>29, ConnsKept DEF SweepLock, StopperAt
<1>30. ASSUME SweepSocket PROVE ClientsTracked'
  BY <1>30, ConnsKept DEF SweepSocket, StopperAt
<1>31. ASSUME UNCHANGED vars PROVE ClientsTracked'
  BY <1>31, ConnsKept DEF vars, procVars, fileVars, clientVars
<1>. QED
  BY <1>1, <1>2, <1>3, <1>4, <1>5, <1>6, <1>7, <1>8, <1>9, <1>10, <1>11, <1>12, <1>13, <1>14, <1>15, <1>16,
     <1>17, <1>18, <1>19, <1>20, <1>21, <1>22, <1>23, <1>24, <1>25, <1>26, <1>27, <1>28, <1>29, <1>30, <1>31
     DEF Next, Candidate, Lifecycle, Timers, Connections, Session, StopCommand

\* The idle timer of a serving daemon is armed exactly while it counts no client, for
\* any number of clients that come, go, vanish or hang up early.
THEOREM IdleTimerTracks == Spec => []IdleTracksClients
<1>1. Init => TypeOK /\ ClientsTracked
  <2>1. Init => TypeOK
    BY DaemonAssumption DEF Init, TypeOK, Pids, ProcStates, ClientStates, StopperSteps
  <2>2. Init => ClientsTracked
    BY DEF Init, ClientsTracked, Quiet, StopsForGood, IdleTracksClients, ConnsOf
  <2>. QED
    BY <2>1, <2>2
<1>2. ClientsTracked => IdleTracksClients
  BY DEF ClientsTracked
<1>. QED
  BY <1>1, <1>2, TypeStep, ClientsTrackedStep, PTL DEF Spec

\* What a step that ends p's service means for a client known to be alive.
KeepsLiveClients ==
  \A p \in Processes :
     /\ pc[p] = "serving" /\ pc'[p] = "closing"
     /\ \E c \in Counted(p) : ProvablyAlive(c)
     => stopper.step = "signal" /\ stopper.pid = p

LEMMA KeepsLiveClientsStep == TypeOK /\ [Next]_vars => KeepsLiveClients
<1>. SUFFICES ASSUME TypeOK, [Next]_vars PROVE KeepsLiveClients
  OBVIOUS
<1>. USE DEF KeepsLiveClients, TypeOK, GoTo, procVars, fileVars, clientVars
<1>1. ASSUME NEW p \in Processes, Acquire(p) PROVE KeepsLiveClients
  BY <1>1 DEF Acquire
<1>2. ASSUME NEW p \in Processes, ReadExisting(p) PROVE KeepsLiveClients
  BY <1>2 DEF ReadExisting
<1>3. ASSUME NEW p \in Processes, Judge(p) PROVE KeepsLiveClients
  BY <1>3 DEF Judge, Die
<1>4. ASSUME NEW p \in Processes, Reread(p) PROVE KeepsLiveClients
  BY <1>4 DEF Reread
<1>5. ASSUME NEW p \in Processes, Clear(p) PROVE KeepsLiveClients
  BY <1>5 DEF Clear
<1>6. ASSUME NEW p \in Processes, Retry(p) PROVE KeepsLiveClients
  BY <1>6 DEF Retry, Die
<1>7. ASSUME NEW p \in Processes, ClearSocket(p) PROVE KeepsLiveClients
  BY <1>7 DEF ClearSocket
<1>8. ASSUME NEW p \in Processes, Bind(p) PROVE KeepsLiveClients
  BY <1>8 DEF Bind
<1>9. ASSUME NEW p \in Processes, CloseDone(p) PROVE KeepsLiveClients
  BY <1>9 DEF CloseDone
<1>10. ASSUME NEW p \in Processes, ReadOwnLock(p) PROVE KeepsLiveClients
  BY <1>10 DEF ReadOwnLock
<1>11. ASSUME NEW p \in Processes, ReleaseLock(p) PROVE KeepsLiveClients
  BY <1>11 DEF ReleaseLock
<1>12. ASSUME NEW p \in Processes, Exit(p) PROVE KeepsLiveClients
  BY <1>12 DEF Exit, Die
<1>13. ASSUME NEW p \in Processes, BindFails(p) PROVE KeepsLiveClients
  BY <1>13 DEF BindFails
<1>14. ASSUME NEW p \in Processes, IdleFires(p) PROVE KeepsLiveClients
  BY <1>14 DEF IdleFires, BeginStop
<1>15. ASSUME NEW p \in Processes, Sweep(p) PROVE KeepsLiveClients
  BY <1>15 DEF Sweep, DropClients
<1>16. ASSUME NEW p \in Processes, BackstopFires(p) PROVE KeepsLiveClients
  BY <1>16 DEF BackstopFires, BeginStop, Dead, ProvablyAlive
<1>17. ASSUME NEW p \in Processes, Crash(p) PROVE KeepsLiveClients
  BY <1>17 DEF Crash, Die
<1>18. ASSUME NEW p \in Processes, NEW c \in Clients, Register(p, c) PROVE KeepsLiveClients
  BY <1>18 DEF Register
<1>19. ASSUME NEW p \in Processes, NEW c \in Clients, SeeClose(p, c) PROVE KeepsLiveClients
  BY <1>19 DEF SeeClose, DropClients
<1>20. ASSUME NEW p \in Processes, NEW c \in Clients, SeeEarlyClose(p, c) PROVE KeepsLiveClients
  BY <1>20 DEF SeeEarlyClose
<1>21. ASSUME NEW c \in Clients, Launch(c) PROVE KeepsLiveClients
  BY <1>21 DEF Launch, Connect
<1>22. ASSUME NEW c \in Clients, Poll(c) PROVE KeepsLiveClients
  BY <1>22 DEF Poll, Connect
<1>23. ASSUME NEW c \in Clients, GiveUp(c) PROVE KeepsLiveClients
  BY <1>23 DEF GiveUp
<1>24. ASSUME NEW c \in Clients, LoseDaemon(c) PROVE KeepsLiveClients
  BY <1>24 DEF LoseDaemon
<1>25. ASSUME NEW c \in Clients, Leave(c) PROVE KeepsLiveClients
  BY <1>25 DEF Leave
<1>26. ASSUME StopRead PROVE KeepsLiveClients
  BY <1>26 DEF StopRead, StopperAt
<1>27. ASSUME StopSignal PROVE KeepsLiveClients
  BY <1>27 DEF StopSignal, StopperAt, BeginStop, Die
<1>28. ASSUME StopWait PROVE KeepsLiveClients
  BY <1>28 DEF StopWait, StopperAt, Die
<1>29. ASSUME SweepLock PROVE KeepsLiveClients
  BY <1>29 DEF SweepLock, StopperAt
<1>30. ASSUME SweepSocket PROVE KeepsLiveClients
  BY <1>30 DEF SweepSocket, StopperAt
<1>31. ASSUME UNCHANGED vars PROVE KeepsLiveClients
  BY <1>31 DEF vars, procVars, fileVars, clientVars
<1>. QED
  BY <1>1, <1>2, <1>3, <1>4, <1>5, <1>6, <1>7, <1>8, <1>9, <1>10, <1>11, <1>12, <1>13, <1>14, <1>15, <1>16,
     <1>17, <1>18, <1>19, <1>20, <1>21, <1>22, <1>23, <1>24, <1>25, <1>26, <1>27, <1>28, <1>29, <1>30, <1>31
     DEF Next, Candidate, Lifecycle, Timers, Connections, Session, StopCommand

\* Only the stop command ends a daemon that serves a client known to be alive.
THEOREM LiveClientsKept == Spec => LiveClientKept
<1>1. TypeOK /\ [Next]_vars => [KeepsLiveClients]_vars
  BY KeepsLiveClientsStep
<1>2. Spec => [][KeepsLiveClients]_vars
  BY <1>1, DaemonTypeCorrect, PTL DEF Spec
<1>. QED
  BY <1>2 DEF LiveClientKept, KeepsLiveClients
=============================================================================
