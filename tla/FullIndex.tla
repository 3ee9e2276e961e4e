----------------------------- MODULE FullIndex -----------------------------
(***************************************************************************)
(* ExtractionOrchestrator.indexAll (src/extraction/index.ts) on the parse  *)
(* pool: files are fed in order within a window, parsed in any order,      *)
(* committed in the order of feeding; what a dead worker failed is tried   *)
(* again on new workers, one at a time, and then without comments.  The    *)
(* caller may abort.                                                       *)
(*                                                                         *)
(* Files do not change meanwhile and the store is empty at first; the      *)
(* store under changing files is IndexStore.                               *)
(***************************************************************************)
EXTENDS ParsePool, Integers

CONSTANTS
    NFiles,      \* the files of the scan, 1..NFiles
    WindowSize,
    Yields,      \* Yields[f]: what parsing f may report, a subset of Results
    Unread,      \* files that reading may fail for, or that may be too large
    MayAbort,    \* whether the caller may abort
    MaxTroubles, \* bound on parses that take too long and deaths of threads
    MaxLate      \* bound on the events to come of threads out of service

Files == 1..NFiles

\* The attempts at a file: in the first pass, in the retry pass, and without comments.
Attempts == 1..3
Requests == Files \X Attempts

\* "nodes": symbols and no error.  "half": the symbols found before an error of memory that
\* the extractor of the file's language caught.  "plain": neither symbols nor errors.
\* "broken": an error and nothing else.
ParseResults == {"nodes", "half", "plain", "broken"}
Stores(r) == r \in {"nodes", "half", "plain"}

ASSUME IndexAssumption ==
    /\ NFiles \in Nat /\ WindowSize \in Nat \ {0} /\ MaxTroubles \in Nat /\ MaxLate \in Nat
    /\ Calls = Requests /\ Results = ParseResults
    /\ Yields \in [Files -> SUBSET ParseResults] /\ Unread \subseteq Files
    /\ MayAbort \in BOOLEAN

VARIABLES
    pool,       \* the parse pool
    phase,      \* where indexAll is
    signal,     \* the caller has aborted
    aborted,    \* and the loop has noticed
    next,       \* the file the loop is at
    order,      \* the files fed, by sequence number: nextSeq is its length
    nextToStore,
    inFlight,   \* files fed, whose parse has not come back
    completed,  \* files whose parse has come back and is not committed
    rows,       \* rows[f]: what the store has of f
    errors,     \* the list of errors, as files and whether a retry may help
    counts,     \* filesIndexed, filesSkipped, filesErrored
    todo,       \* files of the retry pass still to be tried
    failing,    \* stillFailing
    asked       \* the retry that is awaited

vars == <<pool, phase, signal, aborted, next, order, nextToStore, inFlight, completed, rows,
          errors, counts, todo, failing, asked>>
firstPass == <<aborted, next, order, nextToStore, inFlight, completed>>
outcome == <<rows, errors, counts>>
retries == <<todo, failing, asked>>

NoFile == 0

Init ==
    /\ pool \in NewPool
    /\ phase = "feeding" /\ signal = FALSE /\ aborted = FALSE
    /\ next = 1 /\ order = <<>> /\ nextToStore = 0
    /\ inFlight = {} /\ completed = {}
    /\ rows = [f \in Files |-> "none"] /\ errors = <<>>
    /\ counts = [indexed |-> 0, skipped |-> 0, errored |-> 0]
    /\ todo = <<>> /\ failing = <<>> /\ asked = NoFile

----------------------------------------------------------------------------
(* The first pass.                                                         *)

\* A slip: one file too many.
WindowWide == Len(order) - nextToStore <= WindowSize \/ inFlight = {}

\* feed() has returned: there is room in the window, or nothing to wait for.
WindowOpen == Len(order) - nextToStore < WindowSize \/ inFlight = {}

AtNextFile == phase = "feeding" /\ ~aborted /\ next <= NFiles /\ WindowOpen

\* The loop finds the abort.
Notice ==
    /\ AtNextFile /\ signal
    /\ aborted' = TRUE
    /\ UNCHANGED <<pool, phase, signal, next, order, nextToStore, inFlight, completed>>
    /\ UNCHANGED outcome /\ UNCHANGED retries

\* A file that cannot be read, or is too large, is not parsed.
PassOver ==
    /\ AtNextFile /\ ~signal /\ next \in Unread
    /\ next' = next + 1
    /\ errors' = Append(errors, [file |-> next, retryable |-> FALSE])
    /\ \/ counts' = [counts EXCEPT !.errored = @ + 1]
       \/ counts' = [counts EXCEPT !.skipped = @ + 1]
    /\ UNCHANGED <<pool, phase, signal, aborted, order, nextToStore, inFlight, completed, rows>>
    /\ UNCHANGED retries

Feed ==
    /\ AtNextFile /\ ~signal
    /\ next' = next + 1
    /\ order' = Append(order, next)
    /\ inFlight' = inFlight \union {next}
    /\ pool' \in Requested(pool, <<next, 1>>)
    /\ UNCHANGED <<phase, signal, aborted, nextToStore, completed>>
    /\ UNCHANGED outcome /\ UNCHANGED retries

\* How attempt k at f has ended, and whether it has.
Came(f, k) == pool.answer[<<f, k>>]
Ended(f, k) == Came(f, k) \notin {"none", "waiting"}

\* A slip: only what may be tried again is put on the list.
ErrorsToRetry(run) ==
    LET failed == AtPositions(run, {i \in DOMAIN run : Came(run[i], 1) \in {"workerExited", "half"}})
    IN  [i \in DOMAIN failed |-> [file |-> failed[i], retryable |-> TRUE]]

\* The entries that a run of files adds to the list of errors; the retry pass takes those
\* whose message says "Worker exited" or tells of an error of memory.
ErrorsOf(run) ==
    LET failed == AtPositions(run, {i \in DOMAIN run : Came(run[i], 1) \notin {"nodes", "plain"}})
    IN  [i \in DOMAIN failed |-> [file |-> failed[i],
             retryable |-> Came(failed[i], 1) \in {"workerExited", "half"}]]

CountIf(run, R) == Cardinality({i \in DOMAIN run : Came(run[i], 1) \in R})

\* storeResult, recordParseFailure for a run of files.
Commit(run) ==
    /\ rows' = [f \in Files |-> IF f \in ToSet(run) /\ Stores(Came(f, 1)) THEN Came(f, 1) ELSE rows[f]]
    /\ errors' = errors \o ErrorsOf(run)
    /\ LET indexed == CountIf(run, {"nodes", "half"})
           skipped == CountIf(run, {"plain"})
       IN  counts' = [indexed |-> counts.indexed + indexed, skipped |-> counts.skipped + skipped,
                      errored |-> counts.errored + (Len(run) - indexed - skipped)]

\* A parse comes back: flushOrdered commits the results that are next in order.
ComeBack(f) ==
    /\ f \in inFlight /\ Ended(f, 1)
    /\ inFlight' = inFlight \ {f}
    /\ LET here == completed \union {f}
           ready == {n \in nextToStore..Len(order) : ToSet(SubSeq(order, nextToStore + 1, n)) \subseteq here}
           run == SubSeq(order, nextToStore + 1, Max(ready))
       IN  IF aborted
           THEN completed' = here /\ UNCHANGED <<nextToStore, rows, errors, counts>>
           ELSE /\ nextToStore' = Max(ready)
                /\ completed' = here \ ToSet(run)
                /\ Commit(run)
    /\ UNCHANGED <<pool, phase, signal, aborted, next, order>> /\ UNCHANGED retries

\* The end of the first pass, or of one that was aborted; in the end the pool is destroyed.
EndPass ==
    /\ phase = "feeding"
    /\ aborted \/ (next > NFiles /\ inFlight = {})
    /\ LET again == AtPositions(errors, {i \in DOMAIN errors : errors[i].retryable})
       IN  IF aborted \/ signal
           THEN /\ phase' = "aborted" /\ pool' = Destroyed(pool)
                /\ UNCHANGED retries
           ELSE IF again = <<>>
           THEN /\ phase' = "done" /\ pool' = Destroyed(pool)
                /\ UNCHANGED retries
           ELSE /\ phase' = "retrying"
                /\ pool' \in RecycledAll(pool) /\ pool'.late <= MaxLate
                /\ todo' = [i \in DOMAIN again |-> again[i].file]
                /\ UNCHANGED <<failing, asked>>
    /\ UNCHANGED signal /\ UNCHANGED firstPass /\ UNCHANGED outcome

----------------------------------------------------------------------------
(* The retries.                                                            *)

Attempt == IF phase = "retrying" THEN 2 ELSE 3
Retrying == phase \in {"retrying", "stripping"}

\* A file that cannot be read again is passed over.
RetryUnread ==
    /\ Retrying /\ asked = NoFile /\ todo # <<>> /\ ~signal /\ Head(todo) \in Unread
    /\ todo' = Tail(todo)
    /\ UNCHANGED <<pool, phase, signal, failing, asked>>
    /\ UNCHANGED firstPass /\ UNCHANGED outcome

Retry ==
    /\ Retrying /\ asked = NoFile /\ todo # <<>> /\ ~signal
    /\ asked' = Head(todo) /\ todo' = Tail(todo)
    /\ pool' \in Requested(pool, <<Head(todo), Attempt>>)
    /\ UNCHANGED <<phase, signal, failing>>
    /\ UNCHANGED firstPass /\ UNCHANGED outcome

Without(es, f) == AtPositions(es, {i \in DOMAIN es : es[i].file # f})

\* The retry comes back.  A file the store has with the same hash is left as it is.
RetryCameBack ==
    /\ Retrying /\ asked # NoFile /\ Ended(asked, Attempt)
    /\ asked' = NoFile
    /\ LET r == Came(asked, Attempt)
       IN  \/ /\ r \notin Results
              /\ failing' = IF Attempt = 2 THEN Append(failing, asked) ELSE failing
              /\ UNCHANGED outcome
           \/ /\ Stores(r)
              /\ rows' = [rows EXCEPT ![asked] = IF @ = "none" THEN r ELSE @]
              /\ errors' = Without(errors, asked)
              /\ counts' = [counts EXCEPT !.errored = @ - 1, !.indexed = @ + 1]
              /\ UNCHANGED failing
           \/ /\ r = "broken"
              /\ UNCHANGED <<failing, rows, errors, counts>>
    /\ UNCHANGED <<pool, phase, signal, todo>> /\ UNCHANGED firstPass

\* The file of a retry that succeeded is gone when it is looked at for its size and time:
\* indexAll ends with that error, and leaves the pool to its threads.
StatFails ==
    /\ Retrying /\ asked # NoFile /\ Stores(Came(asked, Attempt)) /\ asked \in Unread
    /\ phase' = "threw"
    /\ UNCHANGED <<pool, signal>> /\ UNCHANGED retries
    /\ UNCHANGED firstPass /\ UNCHANGED outcome

EndRetries ==
    /\ Retrying /\ asked = NoFile /\ (todo = <<>> \/ signal)
    /\ IF phase = "retrying" /\ failing # <<>>
       THEN /\ phase' = "stripping"
            /\ pool' \in RecycledAll(pool) /\ pool'.late <= MaxLate
            /\ todo' = failing /\ failing' = <<>>
       ELSE /\ phase' = "done" /\ pool' = Destroyed(pool)
            /\ todo' = <<>> /\ UNCHANGED failing
    /\ UNCHANGED <<signal, asked>> /\ UNCHANGED firstPass /\ UNCHANGED outcome

----------------------------------------------------------------------------
(* The pool's events, and the caller.  What awaits an answer runs before   *)
(* the next event.                                                         *)

Settling ==
    \/ \E f \in inFlight : Ended(f, 1)
    \/ asked # NoFile /\ Ended(asked, Attempt)

Stays == UNCHANGED <<phase, signal>> /\ UNCHANGED firstPass /\ UNCHANGED outcome /\ UNCHANGED retries

Loads(w) ==
    /\ ~Settling /\ pool.threads[w].loads
    /\ pool' \in GrammarsLoaded(pool, w)
    /\ Stays

Reports(w) ==
    /\ ~Settling /\ pool.threads[w].parses # NoCall
    /\ \E r \in Yields[pool.threads[w].parses[1]] : pool' \in ParseResult(pool, w, r)
    /\ pool'.late <= MaxLate
    /\ Stays

Goes(w) ==
    /\ ~Settling /\ pool.threads[w].dies # <<>>
    /\ pool' \in WorkerGone(pool, w) /\ pool'.late <= MaxLate
    /\ Stays

LateEvent ==
    /\ ~Settling /\ pool.late > 0
    /\ pool' = AlreadyHandled(pool)
    /\ Stays

\* Parses that take too long, deaths and spawns that throw; for the first two, the bound is
\* MaxTroubles.
Troubles == pool.faults + Cardinality({c \in Calls : pool.answer[c] = "timedOut"})

\* The timer of a parse, which runs while the parse is not settled.
TakesTooLong(w) ==
    /\ ~Settling /\ w \in pool.workers
    /\ pool.inflight[w] # NoCall /\ pool.answer[pool.inflight[w]] = "waiting"
    /\ Troubles < MaxTroubles
    /\ pool' \in TimedOut(pool, w) /\ pool'.late <= MaxLate
    /\ Stays

Dies(w) ==
    /\ ~Settling /\ w \in pool.workers /\ pool.threads[w].dies = <<>>
    /\ Troubles < MaxTroubles
    /\ \E events \in {<<"exit">>, <<"error", "exit">>} : pool' = Died(pool, w, events)
    /\ Stays

Abort ==
    /\ MayAbort /\ ~signal /\ phase \in {"feeding", "retrying", "stripping"}
    /\ signal' = TRUE
    /\ UNCHANGED <<pool, phase>> /\ UNCHANGED firstPass /\ UNCHANGED outcome /\ UNCHANGED retries

IndexStep ==
    \/ Notice \/ PassOver \/ Feed \/ EndPass
    \/ \E f \in Files : ComeBack(f)
    \/ RetryUnread \/ Retry \/ RetryCameBack \/ StatFails \/ EndRetries

Progress ==
    \/ IndexStep \/ LateEvent
    \/ \E w \in Workers : Loads(w) \/ Reports(w) \/ Goes(w) \/ TakesTooLong(w)

Next == Progress \/ Abort \/ \E w \in Workers : Dies(w)

Spec == Init /\ [][Next]_vars

\* As long as indexAll has something to do, a thread has something to report or a parse is
\* running, one of them goes on: a thread loads its grammars or dies, a parse ends within
\* its time or its timer expires.  Nobody has to abort, and no thread has to die.
FairSpec == Spec /\ WF_vars(Progress)

----------------------------------------------------------------------------
(* Properties.                                                             *)

\* Capacity neither leaks nor grows, however workers go (parse-pool.ts:230-262, 284): a worker
\* is starting, idle or busy, never two of them and never none; a call that waits is once in
\* the queue or on one worker; none is queued while a worker is idle, nor without a worker
\* to come; and the budget is charged once for each death and for nothing else.
PoolAccounted ==
    /\ pool.workers = pool.pending \union ToSet(pool.idle) \union Busy(pool)
    /\ Cardinality(pool.workers)
         = Cardinality(pool.pending) + Len(pool.idle) + Cardinality(Busy(pool))
    /\ Cardinality(pool.workers) <= MaxSize
    /\ \A c \in Calls : pool.answer[c] = "waiting" =>
          Cardinality({i \in DOMAIN pool.queue : pool.queue[i] = c})
            + Cardinality({w \in Workers : pool.inflight[w] = c}) = 1
    /\ pool.queue # <<>> => pool.idle = <<>> /\ pool.workers # {}
    /\ pool.totalCrashes <= pool.faults

\* Results are committed in the order of the files, each once, however the parses end, so
\* that the graph does not depend on their timing; and what is parsed or waits to be
\* committed stays within the window (index.ts:1571-1580, 1667-1672).
CommittedInOrder ==
    /\ \A i, j \in DOMAIN order : i < j => order[i] < order[j]
    /\ ~aborted => \A i \in DOMAIN order :
          /\ i <= nextToStore <=> order[i] \notin inFlight \union completed
          /\ i = nextToStore + 1 => order[i] \in inFlight
    /\ Len(order) - nextToStore <= WindowSize
    /\ \A f \in Files : rows[f] # "none" => \E i \in 1..nextToStore : order[i] = f

\* A full index that ends has accounted for every file: the three counts add up to the scan
\* (src/index.ts:526-548 calls the index complete then), and a file that is not in the
\* store is on the list of errors, once.
NoFileDropped ==
    /\ phase = "done" =>
          /\ counts.indexed + counts.skipped + counts.errored = NFiles
          /\ \A f \in Files : rows[f] # "none" \/ \E i \in DOMAIN errors : errors[i].file = f
    /\ \A i, j \in DOMAIN errors : errors[i].file = errors[j].file => i = j

\* A full index ends, whichever parses hang or kill their worker, and if no worker can be
\* had any more.
IndexEnds == <>(phase \in {"done", "aborted", "threw"})

\* The pool is a call service: every parse it takes on is settled once, resolved or rejected,
\* and destroy() leaves none waiting.
Service == INSTANCE CallService WITH
    Answers <- {"resolved", "rejected"},
    open <- {c \in Calls : pool.answer[c] = "waiting"},
    answers <- [c \in Calls |-> CASE pool.answer[c] \in Results -> "resolved"
                                 [] pool.answer[c] \in Rejections -> "rejected"
                                 [] pool.answer[c] = "shutdown" -> "shutdown"
                                 [] OTHER -> "none"],
    down <- pool.destroyed

KeepsPromise == Service!Spec
============================================================================
