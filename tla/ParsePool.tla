----------------------------- MODULE ParsePool -----------------------------
(***************************************************************************)
(* The worker pool that parses files for a full index                      *)
(* (src/extraction/parse-pool.ts).  It is the query pool without retries   *)
(* and soft timers, and with three ways to take a worker out of service    *)
(* that its death is not: a parse that takes too long, a worker that has   *)
(* parsed enough, and recycleAll().  The thread's exit then still arrives. *)
(*                                                                         *)
(* Handlers are operators on the pool's state "p"; where createWorker()    *)
(* may throw they give the set of states the handler may leave.            *)
(***************************************************************************)
EXTENDS Naturals, Sequences, SequencesExt, FiniteSetsExt

CONSTANTS
    Calls,      \* requests to parse a text
    Results,    \* what a thread may report
    Workers,    \* slots for workers in service, numbered
    NoCall,     \* "no call": a value outside Calls
    MaxSize, MaxConcurrentSpawn, CrashBudget, RecycleInterval

Rejections == {"workerError", "workerExited", "timedOut", "exhausted"}

ASSUME PoolAssumption ==
    /\ Results \intersect (Rejections \union {"none", "waiting", "refused", "shutdown"}) = {}
    /\ Workers \subseteq Nat /\ IsFiniteSet(Workers)
    /\ IsFiniteSet(Calls) /\ NoCall \notin Calls
    /\ MaxSize = Cardinality(Workers) /\ MaxSize > 0
    /\ MaxConcurrentSpawn \in Nat \ {0} /\ RecycleInterval \in Nat \ {0}
    /\ CrashBudget \in Nat

\* A thread: whether it is to report its grammars, the call it is to report on, and the
\* events of its death still to come.  The pool's "late" counts the events still to come of
\* threads whose worker is out of service; what such a thread has reported finds no call, for
\* "inflight" is by worker, and is left out.
NewThread == [loads |-> TRUE, parses |-> NoCall, dies |-> <<>>]
NoThread == [loads |-> FALSE, parses |-> NoCall, dies |-> <<>>]

Healthy(p) == ~p.destroyed /\ p.totalCrashes < CrashBudget
Busy(p) == {w \in Workers : p.inflight[w] # NoCall}

----------------------------------------------------------------------------
(* Spawning and removing.  "faults" counts what the crash budget is for:   *)
(* deaths of threads, and spawns that throw.                               *)

Least(S, n) == {w \in S : Cardinality({v \in S : v < w}) < n}

Spawned(p, n, throws) ==
    LET new == Least(Workers \ p.workers, n)
    IN  [p EXCEPT !.workers = @ \union new, !.pending = @ \union new,
                  !.threads = [w \in Workers |-> IF w \in new THEN NewThread ELSE @[w]],
                  !.totalCrashes = @ + throws, !.faults = @ + throws]

\* spawnOne(), called for a worker that has gone, so that there is room.
SpawnOne(p) == IF Healthy(p) THEN {Spawned(p, 1, 0), Spawned(p, 0, 1)} ELSE {p}

\* The elements of s at the positions in I, in their order.
AtPositions(s, I) ==
    [k \in 1..Cardinality(I) |-> s[CHOOSE i \in I : Cardinality({j \in I : j <= i}) = k]]

Removed(p, W) ==
    [p EXCEPT !.workers = @ \ W, !.pending = @ \ W,
              !.parseCounts = [w \in Workers |-> IF w \in W THEN 0 ELSE @[w]],
              !.idle = AtPositions(@, {i \in DOMAIN p.idle : p.idle[i] \notin W})]

\* terminate(), which also brings the exit of a thread that lived.
Terminated(p, W) ==
    LET two == {w \in W : Len(p.threads[w].dies) = 2}
    IN  [p EXCEPT !.threads = [w \in Workers |-> IF w \in W THEN NoThread ELSE @[w]],
                  !.late = @ + Cardinality(W) + Cardinality(two)]

Retired(p, W) == Terminated(Removed(p, W), W)

\* settle(): the first answer counts.
Settled(p, C, a) ==
    [p EXCEPT !.answer = [c \in Calls |-> IF c \in C /\ @[c] = "waiting" THEN a ELSE @[c]]]

----------------------------------------------------------------------------
(* drain(): grow, dispatch, and fail what nobody will ever run.            *)

\* How far the growth loop may go.
Room(p) ==
    Min({ Max({0, Len(p.queue) - (Len(p.idle) + Cardinality(p.pending))}),
          MaxSize - Cardinality(p.workers),
          Max({0, MaxConcurrentSpawn - Cardinality(p.pending)}) })

\* The loop ends when there is no room left, or when spawns that throw have spent the budget.
Grown(p) ==
    IF ~Healthy(p) THEN {p}
    ELSE LET left == CrashBudget - p.totalCrashes
         IN  {Spawned(p, Room(p), k) : k \in IF Room(p) = 0 THEN {0} ELSE 0..(left - 1)}
               \union {Spawned(p, n, left) : n \in 0..(Room(p) - 1)}

\* The worker that came free last takes the oldest call, and so on.  No call is settled
\* while it is queued, so the loop that passes over such calls finds none.
Dispatched(p) ==
    LET k == Min({Len(p.queue), Len(p.idle)})
        turn == [w \in Workers |-> {i \in 1..k : p.idle[Len(p.idle) + 1 - i] = w}]
        given == [w \in Workers |->
                    IF turn[w] = {} THEN NoCall ELSE p.queue[Min(turn[w])]]
    IN  [p EXCEPT !.queue = SubSeq(@, k + 1, Len(@)),
                  !.idle = SubSeq(@, 1, Len(@) - k),
                  !.inflight = [w \in Workers |-> IF turn[w] = {} THEN @[w] ELSE given[w]],
                  !.parseCounts = [w \in Workers |-> IF turn[w] = {} THEN @[w] ELSE @[w] + 1],
                  !.threads = [w \in Workers |->
                      IF turn[w] = {} \/ @[w].dies # <<>> THEN @[w]
                      ELSE [@[w] EXCEPT !.parses = given[w]]]]

Hanging(p) == p  \* a slip: nobody looks after the last worker's queue

HangPrevented(p) ==
    IF p.queue # <<>> /\ p.idle = <<>> /\ p.pending = {} /\ p.workers = {}
    THEN [Settled(p, ToSet(p.queue), "exhausted") EXCEPT !.queue = <<>>]
    ELSE p

Drained(p) == {HangPrevented(Dispatched(q)) : q \in Grown(p)}

----------------------------------------------------------------------------
(* The handlers.                                                           *)

NoPool == [queue |-> <<>>, idle |-> <<>>, pending |-> {}, workers |-> {},
           inflight |-> [w \in Workers |-> NoCall], parseCounts |-> [w \in Workers |-> 0],
           totalCrashes |-> 0, faults |-> 0, destroyed |-> FALSE,
           late |-> 0,
           answer |-> [c \in Calls |-> "none"], threads |-> [w \in Workers |-> NoThread]]

\* The constructor spawns one eager worker.
NewPool == SpawnOne(NoPool)

\* requestParse(): a call that nobody will run is refused in the call itself.
Requested(p, c) ==
    LET asked == [p EXCEPT !.queue = Append(@, c), !.answer[c] = "waiting"]
    IN  {IF q.answer[c] = "exhausted" THEN [q EXCEPT !.answer[c] = "refused"] ELSE q
           : q \in Drained(asked)}

\* A "grammars-loaded" message.
GrammarsLoaded(p, w) ==
    Drained([p EXCEPT !.threads[w].loads = FALSE, !.pending = @ \ {w}, !.idle = Append(@, w)])

\* A "parse-result" message: the worker is recycled when it has parsed enough.
ParseResult(p, w, a) ==
    LET c == p.threads[w].parses
        heard == [p EXCEPT !.threads[w].parses = NoCall]
        free == [heard EXCEPT !.inflight[w] = NoCall]
        kept == IF p.parseCounts[w] >= RecycleInterval
                THEN SpawnOne(Retired(free, {w}))
                ELSE {[free EXCEPT !.idle = Append(@, w)]}
    IN  IF p.inflight[w] # c THEN {heard}
        ELSE UNION {Drained(Settled(q, {c}, a)) : q \in kept}

\* onWorkerGone, for the first event of the death of a worker in service.
WorkerGone(p, w) ==
    LET events == p.threads[w].dies
        gone == [Removed(p, {w}) EXCEPT !.threads[w] = NoThread, !.late = @ + Len(events) - 1,
                                        !.totalCrashes = @ + 1, !.inflight[w] = NoCall]
        why == IF Head(events) = "error" THEN "workerError" ELSE "workerExited"
    IN  UNION {Drained(q) : q \in SpawnOne(Settled(gone, {p.inflight[w]}, why))}

\* A slip: every event of a death is charged.
ChargedAgain(p) == [p EXCEPT !.late = @ - 1, !.totalCrashes = @ + 1]

\* onWorkerGone, for an event of a worker that is out of service: it returns at once.
AlreadyHandled(p) == [p EXCEPT !.late = @ - 1]

\* onTimeout: the worker goes, and the budget is not charged.
TimedOut(p, w) ==
    LET gone == [Retired(p, {w}) EXCEPT !.inflight[w] = NoCall]
    IN  UNION {Drained(q) : q \in SpawnOne(Settled(gone, {p.inflight[w]}, "timedOut"))}

\* recycleAll(): the idle workers are replaced, one spawn for each while the pool is healthy.
RecycledAll(p) ==
    LET old == ToSet(p.idle)
        n == Cardinality(old)
        gone == Retired(p, old)
        left == CrashBudget - p.totalCrashes
    IN  IF ~Healthy(p) THEN {gone}
        ELSE {Spawned(gone, n - k, k) : k \in 0..Min({n, left})}
               \union {Spawned(gone, s, left) : s \in {s \in 0..n : s + left < n}}

\* A slip: the parses in flight are rejected, those in the queue forgotten.
QueueForgotten(p) ==
    LET asked == {p.inflight[w] : w \in Busy(p)}
    IN  [Settled(p, asked, "shutdown") EXCEPT
            !.destroyed = TRUE, !.workers = {}, !.pending = {}, !.idle = <<>>, !.queue = <<>>,
            !.inflight = [w \in Workers |-> NoCall], !.parseCounts = [w \in Workers |-> 0],
            !.late = 0, !.threads = [w \in Workers |-> NoThread]]

\* destroy(): nobody is left waiting.  What the threads still send finds no worker and no call.
Destroyed(p) ==
    LET asked == ToSet(p.queue) \union {p.inflight[w] : w \in Busy(p)}
    IN  [Settled(p, asked, "shutdown") EXCEPT
            !.destroyed = TRUE, !.workers = {}, !.pending = {}, !.idle = <<>>, !.queue = <<>>,
            !.inflight = [w \in Workers |-> NoCall], !.parseCounts = [w \in Workers |-> 0],
            !.late = 0, !.threads = [w \in Workers |-> NoThread]]

\* A thread dies: process.exit(1), or an error event first.
Died(p, w, events) == [p EXCEPT !.threads[w].dies = events, !.faults = @ + 1]
============================================================================
