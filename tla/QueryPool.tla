----------------------------- MODULE QueryPool -----------------------------
(***************************************************************************)
(* The worker pool that answers the read tools of the daemon               *)
(* (src/mcp/query-pool.ts): a queue of calls, workers that start lazily,   *)
(* serve one call at a time and may die, a circuit breaker over their      *)
(* deaths, and a timer that answers a call kept waiting.                   *)
(*                                                                         *)
(* Every handler runs on the main event loop and is one action; it ends in *)
(* drain(), which is part of it.  What the worker threads do between their *)
(* messages is not visible to the pool.                                    *)
(***************************************************************************)
EXTENDS Integers, Sequences, FiniteSetsExt, Functions

CONSTANTS
    Calls,      \* tool calls, in the life of the pool
    Workers,    \* names of worker threads; a name is used again after a death
    NoCall,     \* "no call": a value outside Calls
    MaxSize, MaxConcurrentSpawn, CrashBudget, MaxRetries

ASSUME PoolAssumption ==
    /\ IsFiniteSet(Calls) /\ IsFiniteSet(Workers) /\ NoCall \notin Calls
    /\ MaxSize \in 1..Cardinality(Workers)
    /\ MaxConcurrentSpawn \in Nat \ {0}
    /\ CrashBudget \in Nat /\ MaxRetries \in Nat

VARIABLES
    pool,       \* the fields queue, idle, pendingWorkers, workers, inflight, totalCrashes
    destroyed,
    retries,    \* retries[c]: times call c went back to the queue
    answer,     \* answer[c]: how call c was settled, "waiting" before that
    unopened    \* workers that could not open the project

vars == <<pool, destroyed, retries, answer, unopened>>

Settled(c) == answer[c] \notin {"none", "waiting"}
Busy(p) == {w \in Workers : p.inflight[w] # NoCall}
Healthy(p) == ~destroyed /\ p.totalCrashes < CrashBudget

----------------------------------------------------------------------------
(* drain(): grow, then dispatch.  ans is the answers as the handler leaves *)
(* them.                                                                   *)

Spawn(p, new, throws) ==
    [p EXCEPT !.workers = @ \union new, !.pendingWorkers = @ \union new,
              !.totalCrashes = @ + throws]

Unused(p) == Workers \ p.workers

\* A slip: growth compares the queue with all workers, busy ones too.
RoomBesidesBusy(p) ==
    Max({0, Min({Len(p.queue), MaxSize}) - Cardinality(p.workers)})

\* How far the growth loop may go.
Room(p) ==
    Min({ Max({0, Len(p.queue) - Cardinality(p.idle \union p.pendingWorkers)}),
          MaxSize - Cardinality(p.workers),
          Max({0, MaxConcurrentSpawn - Cardinality(p.pendingWorkers)}) })

\* The growth loop has spawned the workers "new", and "throws" attempts have thrown: it
\* ends with no room left, or with the budget spent.
LoopEnds(p, new, throws) ==
    \/ Cardinality(new) = Room(p) /\ p.totalCrashes + throws < CrashBudget
    \/ Cardinality(new) < Room(p) /\ p.totalCrashes + throws = CrashBudget

Grown(p) ==
    IF ~Healthy(p) \/ Room(p) = 0 THEN {p}
    ELSE UNION {{Spawn(p, new, throws) : throws \in {k \in 0..CrashBudget : LoopEnds(p, new, k)}}
                  : new \in SUBSET Unused(p)}

\* Places in the queue whose call nobody has answered yet.
Waits(q, ans) == {k \in 1..Len(q) : ans[q[k]] = "waiting"}

\* A slip: one call too many is shifted off.
BehindNext(q, cut) == SubSeq(q, cut + 2, Len(q))

\* The queue once "cut" calls have been shifted off it.
Behind(q, cut) == SubSeq(q, cut + 1, Len(q))

\* Which idle workers may be given the unsettled ones of the first "cut" calls.
Assignments(p, ans, cut) ==
    UNION {Bijection(W, {k \in Waits(p.queue, ans) : k <= cut}) : W \in SUBSET p.idle}

\* The dispatch loop ends with no worker idle, and then on a call it dispatched, or with
\* nothing queued.
StopsAt(p, ans, cut, given) ==
    IF DOMAIN given = p.idle THEN cut = 0 \/ cut \in Waits(p.queue, ans)
                             ELSE cut = Len(p.queue)

\* "cut" calls shifted off, the unsettled ones given to workers; the settled ones go.
Given(p, cut, given) ==
    [p EXCEPT !.queue = Behind(@, cut),
              !.idle = @ \ DOMAIN given,
              !.inflight = [w \in Workers |-> IF w \in DOMAIN given THEN p.queue[given[w]]
                                                                     ELSE @[w]]]

Dispatched(p, ans) ==
    UNION {{Given(p, cut, given) :
               given \in {g \in Assignments(p, ans, cut) : StopsAt(p, ans, cut, g)}}
             : cut \in 0..Len(p.queue)}

Drained(p, ans) == UNION {Dispatched(q, ans) : q \in Grown(p)}

SettleAgain(c, a) == [answer EXCEPT ![c] = a]  \* a slip: the last answer counts

\* settle(): the first answer counts.
Settle(c, a) == [answer EXCEPT ![c] = IF @ = "waiting" THEN a ELSE @]

----------------------------------------------------------------------------
\* The constructor spawns one eager worker, or counts a crash if that throws.
Init ==
    /\ destroyed = FALSE
    /\ retries = [c \in Calls |-> 0]
    /\ answer = [c \in Calls |-> "none"]
    /\ unopened = {}
    /\ LET empty == [queue |-> <<>>, idle |-> {}, pendingWorkers |-> {}, workers |-> {},
                     inflight |-> [w \in Workers |-> NoCall], totalCrashes |-> 0]
       IN  pool \in {Spawn(empty, {w}, 0) : w \in Workers} \union {Spawn(empty, {}, 1)}

\* ToolHandler: on the pool while it is healthy, else in process; run().
Run(c) ==
    /\ answer[c] = "none"
    /\ IF Healthy(pool)
       THEN /\ answer' = [answer EXCEPT ![c] = "waiting"]
            /\ pool' \in Drained([pool EXCEPT !.queue = Append(@, c)], answer')
       ELSE /\ answer' = [answer EXCEPT ![c] = "inProcess"]
            /\ UNCHANGED pool
    /\ UNCHANGED <<destroyed, retries, unopened>>

\* A slip: a worker that is ready still counts as starting.
ReadyStaysPending(w) ==
    /\ w \in pool.pendingWorkers \ pool.idle
    /\ pool' \in Drained([pool EXCEPT !.idle = @ \union {w}], answer)
    /\ UNCHANGED <<destroyed, retries, answer, unopened>>

\* A "ready" message; a worker that could not open the project counts as a crash and
\* joins the idle ones.
Ready(w) ==
    /\ w \in pool.pendingWorkers
    /\ \E ok \in BOOLEAN :
          /\ unopened' = IF ok THEN unopened ELSE unopened \union {w}
          /\ pool' \in Drained([pool EXCEPT !.pendingWorkers = @ \ {w},
                                            !.idle = @ \union {w},
                                            !.totalCrashes = @ + IF ok THEN 0 ELSE 1],
                               answer)
    /\ UNCHANGED <<destroyed, retries, answer>>

\* A slip: the queue is not looked at when a worker comes free.
ResultWithoutDrain(w) ==
    /\ w \in Busy(pool)
    /\ answer' = Settle(pool.inflight[w], "result")
    /\ pool' = [pool EXCEPT !.inflight[w] = NoCall, !.idle = @ \union {w}]
    /\ UNCHANGED <<destroyed, retries, unopened>>

\* A "result" message.
Result(w) ==
    /\ w \in Busy(pool)
    /\ answer' = Settle(pool.inflight[w], IF w \in unopened THEN "cannotOpen" ELSE "result")
    /\ pool' \in Drained([pool EXCEPT !.inflight[w] = NoCall, !.idle = @ \union {w}], answer')
    /\ UNCHANGED <<destroyed, retries, unopened>>

\* Whether a call whose worker died is tried again.
MayRetry(c, p) == retries[c] < MaxRetries /\ Healthy(p)

\* onWorkerGone: respawn while healthy; the call in flight goes to the head of the queue,
\* or is given up.
WorkerGone(w) ==
    /\ w \in pool.workers
    /\ unopened' = unopened \ {w}
    /\ LET c == pool.inflight[w]
           gone == [pool EXCEPT !.workers = @ \ {w}, !.pendingWorkers = @ \ {w},
                                !.idle = @ \ {w}, !.inflight[w] = NoCall,
                                !.totalCrashes = @ + 1]
       IN  \E p \in IF Healthy(gone)
                    THEN {Spawn(gone, {v}, 0) : v \in Unused(gone)} \union {Spawn(gone, {}, 1)}
                    ELSE {gone} :
              \/ /\ c = NoCall
                 /\ pool' \in Drained(p, answer)
                 /\ UNCHANGED <<retries, answer>>
              \/ /\ c # NoCall /\ MayRetry(c, p)
                 /\ retries' = [retries EXCEPT ![c] = @ + 1]
                 /\ pool' \in Drained([p EXCEPT !.queue = <<c>> \o @], answer)
                 /\ UNCHANGED answer
              \/ /\ c # NoCall /\ ~MayRetry(c, p)
                 /\ answer' = Settle(c, "crashed")
                 /\ pool' \in Drained(p, answer')
                 /\ UNCHANGED retries
    /\ UNCHANGED destroyed

\* The soft timer of a call answers it with guidance to retry.
SoftTimeout(c) ==
    /\ answer[c] = "waiting"
    /\ answer' = Settle(c, "busy")
    /\ UNCHANGED <<pool, destroyed, retries, unopened>>

InQueue(c, p) == \E k \in 1..Len(p.queue) : p.queue[k] = c
InFlight(c, p) == \E w \in Workers : p.inflight[w] = c

\* destroy(): answer what is outstanding and forget every worker.  What terminated
\* workers still send finds no call.
Destroy ==
    /\ ~destroyed /\ destroyed' = TRUE
    /\ answer' = [c \in Calls |->
                    IF answer[c] = "waiting" /\ (InQueue(c, pool) \/ InFlight(c, pool))
                    THEN "shutdown" ELSE answer[c]]
    /\ pool' = [pool EXCEPT !.queue = <<>>, !.idle = {}, !.pendingWorkers = {},
                            !.workers = {}, !.inflight = [w \in Workers |-> NoCall]]
    /\ UNCHANGED <<retries, unopened>>

Next ==
    \/ \E c \in Calls : Run(c) \/ SoftTimeout(c)
    \/ \E w \in Workers : Ready(w) \/ Result(w) \/ WorkerGone(w)
    \/ Destroy

Spec == Init /\ [][Next]_vars

\* A worker that starts reports ready, and one that works reports a result, unless it
\* dies first.  The soft timers get no fairness here: service must not rest on them.
FairSpec == Spec /\ \A w \in Workers : WF_vars(Ready(w)) /\ WF_vars(Result(w))

----------------------------------------------------------------------------
(* Properties.                                                             *)

TypeOK ==
    /\ pool \in [queue : Seq(Calls), idle : SUBSET Workers, pendingWorkers : SUBSET Workers,
                 workers : SUBSET Workers, inflight : [Workers -> Calls \union {NoCall}],
                 totalCrashes : Nat]
    /\ destroyed \in BOOLEAN
    /\ retries \in [Calls -> 0..MaxRetries]
    /\ answer \in [Calls -> {"none", "waiting", "result", "cannotOpen", "crashed",
                             "busy", "shutdown", "inProcess"}]
    /\ unopened \subseteq Workers

\* A worker is starting, idle or busy, never two of them and never none, and there are
\* no more than the pool may have, through every death and respawn.
WorkersAccounted ==
    /\ pool.workers = pool.idle \union pool.pendingWorkers \union Busy(pool)
    /\ pool.idle \intersect pool.pendingWorkers = {}
    /\ (pool.idle \union pool.pendingWorkers) \intersect Busy(pool) = {}
    /\ Cardinality(pool.workers) <= MaxSize

\* Nothing is lost or counted twice (query-pool.ts:220-266): the workers are accounted for, and
\* a call that waits is in one place, once in the queue or in flight on one worker.
PoolAccounted ==
    /\ TypeOK /\ WorkersAccounted
    /\ \A c \in Calls : answer[c] = "waiting" =>
          Cardinality({k \in 1..Len(pool.queue) : pool.queue[k] = c})
            + Cardinality({w \in Workers : pool.inflight[w] = c}) = 1

\* No call is stranded between handlers: if one is queued no worker is idle, and while
\* the pool is healthy a worker is on its way or every slot is taken.
NoStrandedCall ==
    Waits(pool.queue, answer) # {} =>
        /\ pool.idle = {}
        /\ Healthy(pool) => \/ pool.pendingWorkers # {}
                            \/ Cardinality(pool.workers) = MaxSize

\* Without any timer's help, a call is answered unless the circuit breaker trips.
Served ==
    \A c \in Calls : answer[c] = "waiting" ~> answer[c] # "waiting" \/ ~Healthy(pool)

\* The pool keeps the promise of CallService.
Service == INSTANCE CallService WITH
    Answers <- {"result", "cannotOpen", "crashed", "busy"},
    open <- {c \in Calls : answer[c] = "waiting"},
    answers <- [c \in Calls |-> IF answer[c] = "waiting" THEN "none" ELSE answer[c]],
    down <- destroyed

KeepsPromise == Service!Spec
============================================================================
