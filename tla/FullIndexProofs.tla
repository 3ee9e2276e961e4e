-------------------------- MODULE FullIndexProofs --------------------------
(* What TLAPS proves of the full index and of the parse pool it runs on:   *)
(* first lemmas about the pool's handlers, for any calls, workers and      *)
(* limits, and whoever drives it; then the full index, for any files and   *)
(* window.                                                                 *)
EXTENDS FullIndex, FiniteSetTheorems, SequenceTheorems, TLAPS

----------------------------------------------------------------------------
(* Operators the model is built from.                                      *)

\* The rank of each number in a set of them.
UpTo(I, i) == {j \in I : j <= i}
Rank(I) == [i \in I |-> Cardinality(UpTo(I, i))]

\* Ranks number the elements from 1 on.
LEMMA RankNumbers ==
  ASSUME NEW I, I \subseteq Nat, IsFiniteSet(I)
  PROVE  /\ Rank(I) \in [I -> 1..Cardinality(I)]
         /\ \A i, j \in I : Rank(I)[i] = Rank(I)[j] => i = j
         /\ \A k \in 1..Cardinality(I) : \E i \in I : Rank(I)[i] = k
<1>. DEFINE upto(i) == UpTo(I, i)
            rank == Rank(I)
            n == Cardinality(I)
<1>0. n \in Nat
  BY FS_CardinalityType
<1>1. \A i \in I : IsFiniteSet(upto(i)) /\ Cardinality(upto(i)) \in Nat /\ Cardinality(upto(i)) <= n
  BY FS_Subset, FS_CardinalityType DEF UpTo
<1>2. \A i \in I : Cardinality(upto(i)) # 0
  BY <1>1, FS_EmptySet DEF UpTo
<1>3. rank \in [I -> 1..n]
  BY <1>0, <1>1, <1>2 DEF Rank
<1>4. ASSUME NEW i \in I, NEW j \in I, i < j, rank[i] = rank[j]
      PROVE  FALSE
  <2>0. i \in Nat /\ j \in Nat /\ i < j
    BY <1>4
  <2>1. upto(i) \in SUBSET upto(j) /\ j \in upto(j) /\ j \notin upto(i)
    <3>1. \A x \in I : x \in Nat /\ (x <= i => x <= j)
      BY <2>0
    <3>2. j \in upto(j) /\ j \notin upto(i)
      BY <2>0 DEF UpTo
    <3>. QED
      BY <3>1, <3>2 DEF UpTo
  <2>2. Cardinality(upto(i)) = Cardinality(upto(j))
    BY <1>4 DEF Rank
  <2>3. upto(i) = upto(j)
    BY <1>1, <2>1, <2>2, FS_Subset
  <2>. QED
    BY <2>1, <2>3
<1>5. \A i, j \in I : rank[i] = rank[j] => i = j
  <2>1. \A i, j \in I : i < j \/ j < i \/ i = j
    OBVIOUS
  <2>. QED
    BY <1>4, <2>1
<1>6. rank \in Injection(I, 1..n)
  BY <1>3, <1>5 DEF Injection, IsInjective
<1>7. IsFiniteSet(1..n) /\ Cardinality(1..n) = n
  BY <1>0, FS_Interval
<1>8. rank \in Surjection(I, 1..n)
  BY <1>6, <1>7, FS_Injection
<1>9. \A k \in 1..n : \E i \in I : rank[i] = k
  BY <1>8 DEF Surjection
<1>. QED
  BY <1>3, <1>5, <1>9

\* t lists the elements of s at the positions in I, each once.
Lists(t, s, I) ==
  \E pos \in [DOMAIN t -> I] :
     /\ \A k \in DOMAIN t : t[k] = s[pos[k]]
     /\ \A j, k \in DOMAIN t : pos[j] = pos[k] => j = k
     /\ \A i \in I : \E k \in DOMAIN t : pos[k] = i

\* AtPositions gives each of the elements at the positions once.
LEMMA AtPositionsFacts ==
  ASSUME NEW S, NEW s \in Seq(S), NEW I \in SUBSET (DOMAIN s)
  PROVE  AtPositions(s, I) \in Seq(S) /\ Lists(AtPositions(s, I), s, I)
<1>. DEFINE rank == Rank(I)
            n == Cardinality(I)
            pos == [k \in 1..n |-> CHOOSE i \in I : Cardinality({j \in I : j <= i}) = k]
            t == AtPositions(s, I)
<1>1. I \subseteq 1..Len(s) /\ Len(s) \in Nat
  BY LenProperties
<1>2. I \subseteq Nat /\ IsFiniteSet(I) /\ n \in Nat
  <2>1. IsFiniteSet(1..Len(s)) /\ I \in SUBSET (1..Len(s))
    BY <1>1, FS_Interval
  <2>2. IsFiniteSet(I)
    BY <2>1, FS_Subset
  <2>. QED
    BY <1>1, <2>2, FS_CardinalityType
<1>3. /\ rank \in [I -> 1..n]
      /\ \A i, j \in I : rank[i] = rank[j] => i = j
      /\ \A k \in 1..n : \E i \in I : rank[i] = k
  BY <1>2, RankNumbers
<1>4. \A k \in 1..n : pos[k] \in I /\ rank[pos[k]] = k
  BY <1>3 DEF Rank, UpTo
<1>5. t = [k \in 1..n |-> s[pos[k]]]
  BY DEF AtPositions
<1>. HIDE DEF rank, pos, n, t
<1>6. \A k \in 1..n : s[pos[k]] \in S
  BY <1>1, <1>4, ElementOfSeq
<1>7. t \in Seq(S) /\ Len(t) = n
  BY <1>2, <1>5, <1>6, SeqDef, LenProperties
<1>8. pos \in [1..n -> I]
  BY <1>4 DEF pos
<1>9. \A j, k \in 1..n : pos[j] = pos[k] => j = k
  BY <1>4
<1>10. \A i \in I : \E k \in 1..n : pos[k] = i
  <2>. SUFFICES ASSUME NEW i \in I PROVE pos[rank[i]] = i /\ rank[i] \in 1..n
    OBVIOUS
  <2>1. rank[i] \in 1..n
    BY <1>3
  <2>. QED
    BY <1>3, <1>4, <2>1
<1>11. DOMAIN t = 1..n
  BY <1>5
<1>12. Lists(t, s, I)
  BY <1>5, <1>8, <1>9, <1>10, <1>11 DEF Lists
<1>. QED
  BY <1>7, <1>12 DEF t

----------------------------------------------------------------------------
(* The pool's invariant.                                                   *)

Verdicts == {"none", "waiting", "refused", "shutdown"} \union Results \union Rejections

ThreadType == [loads : BOOLEAN, parses : Calls \union {NoCall},
               dies : {<<>>, <<"exit">>, <<"error", "exit">>}]

PoolType == [queue : Seq(Calls), idle : Seq(Workers), pending : SUBSET Workers,
             workers : SUBSET Workers, inflight : [Workers -> Calls \union {NoCall}],
             parseCounts : [Workers -> Nat], totalCrashes : Nat, faults : Nat,
             destroyed : BOOLEAN, late : Int, answer : [Calls -> Verdicts],
             threads : [Workers -> ThreadType]]

\* A worker in service is starting, idle or busy, and never two of them.
WorkersPlaced(p) ==
  /\ p.workers = p.pending \union ToSet(p.idle) \union Busy(p)
  /\ p.pending \intersect (ToSet(p.idle) \union Busy(p)) = {}
  /\ ToSet(p.idle) \intersect Busy(p) = {}
  /\ \A i, j \in 1..Len(p.idle) : p.idle[i] = p.idle[j] => i = j

\* No call is in two places of the pool.
OnePlace(p) ==
  /\ \A j, k \in 1..Len(p.queue) : p.queue[j] = p.queue[k] => j = k
  /\ \A v, w \in Workers : p.inflight[v] # NoCall /\ p.inflight[v] = p.inflight[w] => v = w
  /\ \A k \in 1..Len(p.queue), w \in Workers : p.queue[k] # p.inflight[w]

\* The calls in the pool are those that wait.
InPool(p, c) == (\E k \in 1..Len(p.queue) : p.queue[k] = c) \/ (\E w \in Workers : p.inflight[w] = c)
Held(p) == \A c \in Calls : p.answer[c] = "waiting" <=> InPool(p, c)

\* Threads that load belong to workers that start; deaths to come, to workers in service.
ThreadsPlaced(p) ==
  \A w \in Workers : /\ p.threads[w].loads => w \in p.pending
                     /\ p.threads[w].dies # <<>> => w \in p.workers

\* What was charged to the budget, and what is going to be, has happened.
Dying(p) == {w \in Workers : p.threads[w].dies # <<>>}
Charged(p) == p.totalCrashes + Cardinality(Dying(p)) <= p.faults

Sound(p) == p \in PoolType /\ WorkersPlaced(p) /\ OnePlace(p) /\ ThreadsPlaced(p) /\ Charged(p)

\* Of a pool that a handler leaves behind.
NoneStranded(p) == p.queue # <<>> => p.idle = <<>> /\ p.workers # {}
AtEase(p) == Sound(p) /\ Held(p) /\ NoneStranded(p) /\ (p.destroyed => p.workers = {})

LEMMA ToSetFacts ==
  ASSUME NEW S, NEW s \in Seq(S)
  PROVE  /\ ToSet(s) \subseteq S /\ Len(s) \in Nat
         /\ \A x : x \in ToSet(s) <=> \E i \in 1..Len(s) : s[i] = x
         /\ \A i \in 1..Len(s) : s[i] \in S /\ s[i] \in ToSet(s)
BY ElementOfSeq, LenProperties DEF ToSet

LEMMA IdleElements ==
  ASSUME NEW p \in PoolType
  PROVE  \A x : x \in ToSet(p.idle) <=> \E i \in 1..Len(p.idle) : p.idle[i] = x
<1>1. p.idle \in Seq(Workers)
  BY DEF PoolType
<1>. QED
  BY <1>1, ToSetFacts, Zenon

LEMMA WorkersFinite ==
  ASSUME NEW S \in SUBSET Workers
  PROVE  IsFiniteSet(S) /\ Cardinality(S) \in Nat
BY PoolAssumption, FS_Subset, FS_CardinalityType

\* Deaths that are not to come any more have been charged.
LEMMA DyingFewer ==
  ASSUME NEW p \in PoolType, NEW q \in PoolType, Dying(q) \subseteq Dying(p)
  PROVE  Cardinality(Dying(q)) <= Cardinality(Dying(p)) /\ Cardinality(Dying(q)) \in Nat
<1>1. Dying(p) \in SUBSET Workers /\ Dying(q) \in SUBSET Dying(p)
  BY DEF Dying
<1>. QED
  BY <1>1, WorkersFinite, FS_Subset, FS_CardinalityType

----------------------------------------------------------------------------
(* Starting workers.                                                       *)

\* Starting workers keeps the pool sound.
LEMMA SpawnedSound ==
  ASSUME NEW p, Sound(p), NEW n, NEW throws \in Nat
  PROVE  /\ Sound(Spawned(p, n, throws))
         /\ Spawned(p, n, throws).queue = p.queue /\ Spawned(p, n, throws).idle = p.idle
         /\ Spawned(p, n, throws).inflight = p.inflight /\ Spawned(p, n, throws).answer = p.answer
         /\ Spawned(p, n, throws).destroyed = p.destroyed
         /\ p.workers \subseteq Spawned(p, n, throws).workers
<1>. DEFINE new == Least(Workers \ p.workers, n)
            q == Spawned(p, n, throws)
<1>1. new \subseteq Workers \ p.workers
  BY DEF Least
<1>2. q = [p EXCEPT !.workers = @ \union new, !.pending = @ \union new,
                    !.threads = [w \in Workers |-> IF w \in new THEN NewThread ELSE @[w]],
                    !.totalCrashes = @ + throws, !.faults = @ + throws]
  BY DEF Spawned
<1>. HIDE DEF new, q
<1>3. p \in PoolType
  BY DEF Sound
<1>4. NewThread \in ThreadType /\ NewThread.dies = <<>>
  BY DEF NewThread, ThreadType
<1>5. /\ q.workers = p.workers \union new /\ q.pending = p.pending \union new
      /\ q.threads = [w \in Workers |-> IF w \in new THEN NewThread ELSE p.threads[w]]
      /\ q.totalCrashes = p.totalCrashes + throws /\ q.faults = p.faults + throws
      /\ q.queue = p.queue /\ q.idle = p.idle /\ q.inflight = p.inflight
      /\ q.answer = p.answer /\ q.destroyed = p.destroyed
  BY <1>2, <1>3 DEF PoolType
<1>6. q \in PoolType
  <2>1. q.threads \in [Workers -> ThreadType]
    BY <1>3, <1>4, <1>5 DEF PoolType
  <2>2. q.totalCrashes \in Nat /\ q.faults \in Nat
    BY <1>3, <1>5 DEF PoolType
  <2>. QED
    BY <1>1, <1>2, <1>3, <1>5, <2>1, <2>2 DEF PoolType
<1>7. WorkersPlaced(q)
  BY <1>1, <1>5 DEF Sound, WorkersPlaced, Busy
<1>8. OnePlace(q)
  BY <1>5 DEF Sound, OnePlace
<1>9. ThreadsPlaced(q)
  BY <1>4, <1>5 DEF Sound, ThreadsPlaced
<1>10. Charged(q)
  <2>1. Dying(q) \subseteq Dying(p)
    BY <1>4, <1>5 DEF Dying
  <2>2. Cardinality(Dying(q)) <= Cardinality(Dying(p)) /\ Cardinality(Dying(q)) \in Nat
    BY <1>3, <1>6, <2>1, DyingFewer
  <2>3. Cardinality(Dying(p)) \in Nat
    BY WorkersFinite DEF Dying
  <2>. QED
    BY <1>3, <1>5, <2>2, <2>3 DEF Sound, Charged, PoolType
<1>. QED
  BY <1>5, <1>6, <1>7, <1>8, <1>9, <1>10 DEF Sound, q

\* q is p with some workers started.
MoreWorkers(p, q) ==
  /\ q.queue = p.queue /\ q.idle = p.idle /\ q.inflight = p.inflight
  /\ q.answer = p.answer /\ q.destroyed = p.destroyed /\ p.workers \subseteq q.workers

LEMMA BudgetLeft ==
  ASSUME NEW p, Sound(p), Healthy(p)
  PROVE  CrashBudget - p.totalCrashes \in Nat \ {0}
BY PoolAssumption DEF Sound, PoolType, Healthy

LEMMA GrownSound ==
  ASSUME NEW p, Sound(p), NEW q \in Grown(p)
  PROVE  Sound(q) /\ MoreWorkers(p, q)
<1>1. q = p \/ \E n, throws : throws \in Nat /\ q = Spawned(p, n, throws)
  <2>1. CASE ~Healthy(p)
    BY <2>1 DEF Grown
  <2>2. CASE Healthy(p)
    <3>. DEFINE left == CrashBudget - p.totalCrashes
    <3>1. left \in Nat \ {0}
      BY <2>2, BudgetLeft
    <3>2. \/ \E k \in (IF Room(p) = 0 THEN {0} ELSE 0..(left - 1)) : q = Spawned(p, Room(p), k)
          \/ \E n \in 0..(Room(p) - 1) : q = Spawned(p, n, left)
      BY <2>2 DEF Grown
    <3>. HIDE DEF left
    <3>3. (IF Room(p) = 0 THEN {0} ELSE 0..(left - 1)) \subseteq Nat
      BY <3>1
    <3>. QED
      BY <3>1, <3>2, <3>3
  <2>. QED
    BY <2>1, <2>2
<1>. QED
  BY <1>1, SpawnedSound DEF MoreWorkers

LEMMA SpawnOneSound ==
  ASSUME NEW p, Sound(p), NEW q \in SpawnOne(p)
  PROVE  Sound(q) /\ MoreWorkers(p, q)
<1>1. q = p \/ q = Spawned(p, 1, 0) \/ q = Spawned(p, 0, 1)
  BY DEF SpawnOne
<1>. QED
  BY <1>1, SpawnedSound DEF MoreWorkers

----------------------------------------------------------------------------
(* Giving calls to workers.                                                *)

\* How many calls are dispatched, and the worker that takes the i-th of them.
Turns(p) == Min({Len(p.queue), Len(p.idle)})
Taker(p, i) == p.idle[Len(p.idle) + 1 - i]

LEMMA TurnsFacts ==
  ASSUME NEW p \in PoolType
  PROVE  /\ Turns(p) \in Nat /\ Turns(p) <= Len(p.queue) /\ Turns(p) <= Len(p.idle)
         /\ Turns(p) = Len(p.queue) \/ Turns(p) = Len(p.idle)
         /\ Len(p.queue) \in Nat /\ Len(p.idle) \in Nat
         /\ \A i \in 1..Turns(p) : Len(p.idle) + 1 - i \in 1..Len(p.idle) /\ Taker(p, i) \in Workers
<1>1. Len(p.queue) \in Nat /\ Len(p.idle) \in Nat
  BY LenProperties DEF PoolType
<1>2. \E m \in {Len(p.queue), Len(p.idle)} : \A x \in {Len(p.queue), Len(p.idle)} : m <= x
  BY <1>1
<1>3. /\ Turns(p) \in {Len(p.queue), Len(p.idle)}
      /\ Turns(p) <= Len(p.queue) /\ Turns(p) <= Len(p.idle)
  BY <1>2 DEF Turns, Min
<1>4. \A i \in 1..Turns(p) : Len(p.idle) + 1 - i \in 1..Len(p.idle)
  BY <1>1, <1>3
<1>5. \A i \in 1..Len(p.idle) : p.idle[i] \in Workers
  BY ElementOfSeq DEF PoolType
<1>. QED
  BY <1>1, <1>3, <1>4, <1>5 DEF Taker

\* No worker takes two calls.
LEMMA TakersDistinct ==
  ASSUME NEW p, Sound(p), NEW i \in 1..Turns(p), NEW j \in 1..Turns(p), Taker(p, i) = Taker(p, j)
  PROVE  i = j
<1>1. /\ Len(p.idle) + 1 - i \in 1..Len(p.idle) /\ Len(p.idle) + 1 - j \in 1..Len(p.idle)
      /\ Len(p.idle) \in Nat
  BY TurnsFacts DEF Sound
<1>2. Len(p.idle) + 1 - i = Len(p.idle) + 1 - j
  BY <1>1 DEF Sound, WorkersPlaced, Taker
<1>. QED
  BY <1>1, <1>2

LEMMA DispatchedFields ==
  ASSUME NEW p, Sound(p)
  PROVE  /\ Dispatched(p) \in PoolType
         /\ Dispatched(p).queue = SubSeq(p.queue, Turns(p) + 1, Len(p.queue))
         /\ Dispatched(p).idle = SubSeq(p.idle, 1, Len(p.idle) - Turns(p))
         /\ \A i \in 1..Turns(p) : Dispatched(p).inflight[Taker(p, i)] = p.queue[i]
         /\ \A w \in Workers : (\A i \in 1..Turns(p) : Taker(p, i) # w) =>
              Dispatched(p).inflight[w] = p.inflight[w]
         /\ \A w \in Workers : /\ Dispatched(p).threads[w].loads = p.threads[w].loads
                               /\ Dispatched(p).threads[w].dies = p.threads[w].dies
         /\ Dispatched(p).workers = p.workers /\ Dispatched(p).pending = p.pending
         /\ Dispatched(p).totalCrashes = p.totalCrashes /\ Dispatched(p).faults = p.faults
         /\ Dispatched(p).answer = p.answer /\ Dispatched(p).destroyed = p.destroyed
<1>. DEFINE k == Turns(p)
            turn == [w \in Workers |-> {i \in 1..k : Taker(p, i) = w}]
            given == [w \in Workers |-> IF turn[w] = {} THEN NoCall ELSE p.queue[Min(turn[w])]]
            inflight == [w \in Workers |-> IF turn[w] = {} THEN p.inflight[w] ELSE given[w]]
            parseCounts == [w \in Workers |-> IF turn[w] = {} THEN p.parseCounts[w]
                                                               ELSE p.parseCounts[w] + 1]
            threads == [w \in Workers |->
                          IF turn[w] = {} \/ p.threads[w].dies # <<>> THEN p.threads[w]
                          ELSE [p.threads[w] EXCEPT !.parses = given[w]]]
            d == Dispatched(p)
<1>1. p \in PoolType
  BY DEF Sound
<1>2. d = [p EXCEPT !.queue = SubSeq(p.queue, k + 1, Len(p.queue)),
                    !.idle = SubSeq(p.idle, 1, Len(p.idle) - k),
                    !.inflight = inflight, !.parseCounts = parseCounts, !.threads = threads]
  BY DEF Dispatched, Turns, Taker
<1>3. /\ k \in Nat /\ k <= Len(p.queue) /\ k <= Len(p.idle)
      /\ Len(p.queue) \in Nat /\ Len(p.idle) \in Nat
      /\ \A i \in 1..k : Taker(p, i) \in Workers
  BY <1>1, TurnsFacts
<1>4. ASSUME NEW i \in 1..k PROVE turn[Taker(p, i)] = {i} /\ Min(turn[Taker(p, i)]) = i
  <2>1. turn[Taker(p, i)] = {i}
    BY <1>3, TakersDistinct
  <2>2. i \in Nat
    BY <1>3
  <2>3. Min({i}) = i
    BY <2>2 DEF Min
  <2>. QED
    BY <2>1, <2>3
<1>5. \A i \in 1..k : given[Taker(p, i)] = p.queue[i]
  BY <1>3, <1>4
<1>6. \A i \in 1..k : p.queue[i] \in Calls
  <2>1. \A i \in 1..Len(p.queue) : p.queue[i] \in Calls
    BY <1>1, ElementOfSeq DEF PoolType
  <2>. QED
    BY <1>3, <2>1
<1>7. \A w \in Workers : turn[w] # {} => \E i \in 1..k : w = Taker(p, i)
  OBVIOUS
<1>. HIDE DEF given
<1>8. \A w \in Workers : turn[w] # {} => given[w] \in Calls
  BY <1>5, <1>6, <1>7
<1>9. inflight \in [Workers -> Calls \union {NoCall}]
  BY <1>1, <1>8 DEF PoolType
<1>10. parseCounts \in [Workers -> Nat]
  BY <1>1 DEF PoolType
<1>11. threads \in [Workers -> ThreadType]
  <2>1. \A w \in Workers : p.threads[w] \in ThreadType
    BY <1>1 DEF PoolType
  <2>. QED
    BY <1>8, <2>1 DEF ThreadType
<1>12. \A w \in Workers : /\ threads[w].loads = p.threads[w].loads
                          /\ threads[w].dies = p.threads[w].dies
  <2>1. \A w \in Workers : p.threads[w] \in ThreadType
    BY <1>1 DEF PoolType
  <2>. QED
    BY <2>1 DEF ThreadType
<1>13. /\ \A i \in 1..k : inflight[Taker(p, i)] = p.queue[i]
       /\ \A w \in Workers : (\A i \in 1..k : Taker(p, i) # w) => inflight[w] = p.inflight[w]
  <2>1. \A i \in 1..k : inflight[Taker(p, i)] = given[Taker(p, i)]
    BY <1>3, <1>4
  <2>. QED
    BY <1>5, <2>1
<1>14. /\ SubSeq(p.queue, k + 1, Len(p.queue)) \in Seq(Calls)
       /\ SubSeq(p.idle, 1, Len(p.idle) - k) \in Seq(Workers)
  <2>1. p.queue \in Seq(Calls) /\ p.idle \in Seq(Workers)
    BY <1>1 DEF PoolType
  <2>2. \A i \in (k + 1)..Len(p.queue) : p.queue[i] \in Calls
    BY <1>3, <2>1, ElementOfSeq
  <2>3. \A i \in 1..(Len(p.idle) - k) : p.idle[i] \in Workers
    BY <1>3, <2>1, ElementOfSeq
  <2>. QED
    BY <1>3, <2>1, <2>2, <2>3, SubSeqProperties
<1>. HIDE DEF d, inflight, parseCounts, threads, k
<1>15. /\ d.queue = SubSeq(p.queue, k + 1, Len(p.queue))
       /\ d.idle = SubSeq(p.idle, 1, Len(p.idle) - k)
       /\ d.inflight = inflight /\ d.parseCounts = parseCounts /\ d.threads = threads
       /\ d.workers = p.workers /\ d.pending = p.pending
       /\ d.totalCrashes = p.totalCrashes /\ d.faults = p.faults
       /\ d.answer = p.answer /\ d.destroyed = p.destroyed /\ d.late = p.late
  BY <1>1, <1>2 DEF PoolType
<1>16. d \in PoolType
  BY <1>1, <1>2, <1>9, <1>10, <1>11, <1>14, <1>15 DEF PoolType
<1>. QED
  BY <1>12, <1>13, <1>15, <1>16 DEF d, k

\* What dispatch leaves, in terms of what there was.
LEMMA DispatchedParts ==
  ASSUME NEW p, Sound(p)
  PROVE  /\ Len(Dispatched(p).queue) = Len(p.queue) - Turns(p)
         /\ \A j \in 1..Len(Dispatched(p).queue) : Dispatched(p).queue[j] = p.queue[Turns(p) + j]
         /\ Len(Dispatched(p).idle) = Len(p.idle) - Turns(p)
         /\ \A j \in 1..Len(Dispatched(p).idle) : Dispatched(p).idle[j] = p.idle[j]
         /\ \A i \in 1..Turns(p) : Taker(p, i) \notin ToSet(Dispatched(p).idle)
         /\ \A w : w \in ToSet(p.idle) <=>
              w \in ToSet(Dispatched(p).idle) \/ \E i \in 1..Turns(p) : w = Taker(p, i)
<1>. DEFINE k == Turns(p)
            n == Len(p.idle)
            d == Dispatched(p)
<1>1. p \in PoolType /\ d \in PoolType
  BY DispatchedFields DEF Sound
<1>2. /\ k \in Nat /\ n \in Nat /\ Len(p.queue) \in Nat /\ k <= n /\ k <= Len(p.queue)
      /\ p.queue \in Seq(Calls) /\ p.idle \in Seq(Workers)
  BY <1>1, TurnsFacts DEF PoolType
<1>3. /\ d.queue = SubSeq(p.queue, k + 1, Len(p.queue))
      /\ d.idle = SubSeq(p.idle, 1, n - k)
  BY DispatchedFields
<1>4. \A i \in 1..k : n + 1 - i \in 1..n /\ Taker(p, i) = p.idle[n + 1 - i]
  BY <1>2 DEF Taker
<1>. HIDE DEF k, d
<1>5. Len(d.queue) = Len(p.queue) - k /\ \A j \in 1..Len(d.queue) : d.queue[j] = p.queue[k + j]
  <2>1. \A i \in (k + 1)..Len(p.queue) : p.queue[i] \in Calls
    BY <1>2, ElementOfSeq
  <2>2. /\ Len(d.queue) = IF k + 1 <= Len(p.queue) THEN Len(p.queue) - (k + 1) + 1 ELSE 0
        /\ \A j \in 1..(Len(p.queue) - (k + 1) + 1) : d.queue[j] = p.queue[(k + 1) + j - 1]
    BY <1>2, <1>3, <2>1, SubSeqProperties
  <2>3. Len(d.queue) = Len(p.queue) - k
    BY <1>2, <2>2
  <2>4. ASSUME NEW j \in 1..Len(d.queue) PROVE d.queue[j] = p.queue[k + j]
    <3>1. j \in 1..(Len(p.queue) - (k + 1) + 1) /\ (k + 1) + j - 1 = k + j
      BY <1>2, <2>3
    <3>. QED
      BY <2>2, <3>1
  <2>. QED
    BY <2>3, <2>4
<1>6. Len(d.idle) = n - k /\ \A j \in 1..Len(d.idle) : d.idle[j] = p.idle[j]
  <2>1. \A i \in 1..(n - k) : p.idle[i] \in Workers
    BY <1>2, ElementOfSeq
  <2>2. /\ Len(d.idle) = IF 1 <= n - k THEN (n - k) - 1 + 1 ELSE 0
        /\ \A j \in 1..((n - k) - 1 + 1) : d.idle[j] = p.idle[1 + j - 1]
    BY <1>2, <1>3, <2>1, SubSeqProperties
  <2>3. Len(d.idle) = n - k
    BY <1>2, <2>2
  <2>4. ASSUME NEW j \in 1..Len(d.idle) PROVE d.idle[j] = p.idle[j]
    <3>1. j \in 1..((n - k) - 1 + 1) /\ 1 + j - 1 = j
      BY <1>2, <2>3
    <3>. QED
      BY <2>2, <3>1
  <2>. QED
    BY <2>3, <2>4
<1>7. \A i, j \in 1..n : p.idle[i] = p.idle[j] => i = j
  BY DEF Sound, WorkersPlaced
<1>8. /\ \A w : w \in ToSet(p.idle) <=> \E j \in 1..n : p.idle[j] = w
      /\ \A w : w \in ToSet(d.idle) <=> \E j \in 1..(n - k) : d.idle[j] = w
  <2>1. d.idle \in Seq(Workers)
    BY <1>1 DEF PoolType
  <2>2. \A w : w \in ToSet(d.idle) <=> \E j \in 1..Len(d.idle) : d.idle[j] = w
    BY <2>1, ToSetFacts, Zenon
  <2>3. \A w : w \in ToSet(p.idle) <=> \E j \in 1..n : p.idle[j] = w
    BY <1>2, ToSetFacts, Zenon
  <2>. QED
    BY <1>6, <2>2, <2>3, Zenon
<1>. HIDE DEF n
<1>9. ASSUME NEW i \in 1..k PROVE Taker(p, i) \notin ToSet(d.idle)
  <2>1. \A j \in 1..(n - k) : j \in 1..n /\ n + 1 - i # j
    BY <1>2
  <2>. QED
    BY <1>4, <1>6, <1>7, <1>8, <2>1
<1>10. ASSUME NEW w
       PROVE  w \in ToSet(p.idle) <=> w \in ToSet(d.idle) \/ \E i \in 1..k : w = Taker(p, i)
  <2>1. ASSUME NEW j \in 1..n, p.idle[j] = w
        PROVE  w \in ToSet(d.idle) \/ \E i \in 1..k : w = Taker(p, i)
    <3>1. CASE j <= n - k
      BY <1>2, <1>6, <1>8, <2>1, <3>1
    <3>2. CASE ~(j <= n - k)
      <4>1. n + 1 - j \in 1..k /\ n + 1 - (n + 1 - j) = j
        BY <1>2, <3>2
      <4>. QED
        BY <1>4, <2>1, <4>1
    <3>. QED
      BY <3>1, <3>2
  <2>2. w \in ToSet(d.idle) => w \in ToSet(p.idle)
    <3>1. \A j \in 1..(n - k) : j \in 1..n
      BY <1>2
    <3>. QED
      BY <1>6, <1>8, <3>1
  <2>3. (\E i \in 1..k : w = Taker(p, i)) => w \in ToSet(p.idle)
    BY <1>4, <1>8
  <2>. QED
    BY <1>8, <2>1, <2>2, <2>3
<1>. QED
  BY <1>5, <1>6, <1>9, <1>10 DEF d, k, n

\* Dispatch keeps the pool sound, and goes on until no call waits or no worker is free.
LEMMA DispatchedSound ==
  ASSUME NEW p, Sound(p)
  PROVE  /\ Sound(Dispatched(p))
         /\ \A c \in Calls : InPool(Dispatched(p), c) <=> InPool(p, c)
         /\ Dispatched(p).queue = <<>> \/ Dispatched(p).idle = <<>>
         /\ p.idle = <<>> => Dispatched(p).queue = p.queue
<1>. DEFINE k == Turns(p)
            d == Dispatched(p)
            Took(w) == \E i \in 1..k : w = Taker(p, i)
<1>1. /\ p \in PoolType /\ d \in PoolType
      /\ k \in Nat /\ k <= Len(p.queue) /\ k <= Len(p.idle)
      /\ k = Len(p.queue) \/ k = Len(p.idle)
      /\ Len(p.queue) \in Nat /\ Len(p.idle) \in Nat
      /\ \A i \in 1..k : Taker(p, i) \in Workers
  BY DispatchedFields, TurnsFacts DEF Sound
<1>2. /\ \A i \in 1..k : d.inflight[Taker(p, i)] = p.queue[i]
      /\ \A w \in Workers : ~Took(w) => d.inflight[w] = p.inflight[w]
      /\ \A w \in Workers : d.threads[w].loads = p.threads[w].loads /\ d.threads[w].dies = p.threads[w].dies
      /\ d.workers = p.workers /\ d.pending = p.pending
      /\ d.totalCrashes = p.totalCrashes /\ d.faults = p.faults
  BY DispatchedFields
<1>3. /\ Len(d.queue) = Len(p.queue) - k
      /\ \A j \in 1..Len(d.queue) : d.queue[j] = p.queue[k + j]
      /\ Len(d.idle) = Len(p.idle) - k
      /\ \A j \in 1..Len(d.idle) : d.idle[j] = p.idle[j]
      /\ \A w : Took(w) => w \notin ToSet(d.idle)
      /\ \A w : w \in ToSet(p.idle) <=> w \in ToSet(d.idle) \/ Took(w)
  <2>1. \A i \in 1..k : Taker(p, i) \notin ToSet(d.idle)
    BY DispatchedParts, Zenon
  <2>2. \A w : w \in ToSet(p.idle) <=> w \in ToSet(d.idle) \/ Took(w)
    BY DispatchedParts, Zenon
  <2>3. /\ Len(d.queue) = Len(p.queue) - k
        /\ \A j \in 1..Len(d.queue) : d.queue[j] = p.queue[k + j]
        /\ Len(d.idle) = Len(p.idle) - k
        /\ \A j \in 1..Len(d.idle) : d.idle[j] = p.idle[j]
    BY DispatchedParts, Zenon
  <2>. QED
    BY <2>1, <2>2, <2>3, Zenon
<1>. HIDE DEF k, d, Took
<1>4. \A i \in 1..Len(p.queue) : p.queue[i] \in Calls /\ p.queue[i] # NoCall
  <2>1. p.queue \in Seq(Calls)
    BY <1>1 DEF PoolType
  <2>2. \A i \in 1..Len(p.queue) : p.queue[i] \in Calls
    BY <2>1
  <2>. QED
    BY <2>2, PoolAssumption
<1>5. \A i \in 1..k : i \in 1..Len(p.queue)
  BY <1>1
<1>6. \A w \in Workers : w \in Busy(d) <=> w \in Busy(p) \/ Took(w)
  BY <1>2, <1>4, <1>5 DEF Busy, Took
<1>7. \A w : Took(w) => w \in Workers /\ w \notin Busy(p) /\ w \notin p.pending
  BY <1>1, <1>3 DEF Sound, WorkersPlaced, Took
<1>8. \A w : w \in ToSet(p.idle) => w \in Workers
  BY <1>1, ToSetFacts DEF PoolType
<1>9. WorkersPlaced(d)
  <2>1. Busy(d) = Busy(p) \union {w \in Workers : Took(w)}
    BY <1>6 DEF Busy
  <2>2. ToSet(p.idle) = ToSet(d.idle) \union {w \in Workers : Took(w)}
    BY <1>3, <1>7
  <2>3. d.workers = d.pending \union ToSet(d.idle) \union Busy(d)
    BY <1>2, <2>1, <2>2 DEF Sound, WorkersPlaced
  <2>4. /\ d.pending \intersect (ToSet(d.idle) \union Busy(d)) = {}
        /\ ToSet(d.idle) \intersect Busy(d) = {}
    BY <1>2, <1>3, <1>7, <2>1, <2>2 DEF Sound, WorkersPlaced
  <2>5. \A i, j \in 1..Len(d.idle) : d.idle[i] = d.idle[j] => i = j
    <3>1. \A i \in 1..Len(d.idle) : i \in 1..Len(p.idle)
      BY <1>1, <1>3
    <3>. QED
      BY <1>3, <3>1 DEF Sound, WorkersPlaced
  <2>. QED
    BY <2>3, <2>4, <2>5 DEF WorkersPlaced
<1>10. \A j \in 1..Len(d.queue) : k + j \in 1..Len(p.queue) /\ d.queue[j] = p.queue[k + j]
  BY <1>1, <1>3
<1>11. \A i \in 1..k, j \in 1..Len(d.queue) : i # k + j
  BY <1>1, <1>3
<1>12. /\ \A i, j \in 1..Len(p.queue) : p.queue[i] = p.queue[j] => i = j
       /\ \A v, w \in Workers : p.inflight[v] # NoCall /\ p.inflight[v] = p.inflight[w] => v = w
       /\ \A i \in 1..Len(p.queue), w \in Workers : p.queue[i] # p.inflight[w]
  BY DEF Sound, OnePlace
<1>13. OnePlace(d)
  <2>1. \A i, j \in 1..Len(d.queue) : d.queue[i] = d.queue[j] => i = j
    <3>. SUFFICES ASSUME NEW i \in 1..Len(d.queue), NEW j \in 1..Len(d.queue), d.queue[i] = d.queue[j]
                  PROVE  i = j
      OBVIOUS
    <3>1. k + i = k + j
      BY <1>10, <1>12
    <3>2. i \in Nat /\ j \in Nat
      BY <1>1, <1>3
    <3>. QED
      BY <1>1, <3>1, <3>2
  <2>2. ASSUME NEW v \in Workers, NEW w \in Workers, d.inflight[v] # NoCall,
               d.inflight[v] = d.inflight[w]
        PROVE  v = w
    <3>1. CASE Took(v) /\ Took(w)
      <4>1. PICK i \in 1..k : v = Taker(p, i)
        BY <3>1 DEF Took
      <4>2. PICK j \in 1..k : w = Taker(p, j)
        BY <3>1 DEF Took
      <4>. QED
        BY <1>2, <1>5, <1>12, <2>2, <4>1, <4>2
    <3>2. CASE Took(v) /\ ~Took(w)
      <4>1. PICK i \in 1..k : v = Taker(p, i)
        BY <3>2 DEF Took
      <4>. QED
        BY <1>2, <1>5, <1>12, <2>2, <3>2, <4>1
    <3>3. CASE ~Took(v) /\ Took(w)
      <4>1. PICK j \in 1..k : w = Taker(p, j)
        BY <3>3 DEF Took
      <4>. QED
        BY <1>2, <1>5, <1>12, <2>2, <3>3, <4>1
    <3>4. CASE ~Took(v) /\ ~Took(w)
      BY <1>2, <1>12, <2>2, <3>4
    <3>. QED
      BY <3>1, <3>2, <3>3, <3>4
  <2>3. ASSUME NEW j \in 1..Len(d.queue), NEW w \in Workers
        PROVE  d.queue[j] # d.inflight[w]
    <3>1. CASE Took(w)
      <4>1. PICK i \in 1..k : w = Taker(p, i)
        BY <3>1 DEF Took
      <4>. QED
        BY <1>2, <1>5, <1>10, <1>11, <1>12, <4>1
    <3>2. CASE ~Took(w)
      BY <1>2, <1>10, <1>12, <3>2
    <3>. QED
      BY <3>1, <3>2
  <2>. QED
    BY <2>1, <2>2, <2>3 DEF OnePlace
<1>14. ThreadsPlaced(d)
  BY <1>2 DEF Sound, ThreadsPlaced
<1>15. Charged(d)
  <2>1. Dying(d) = Dying(p)
    BY <1>2 DEF Dying
  <2>. QED
    BY <1>2, <2>1 DEF Sound, Charged
<1>16. ASSUME NEW c \in Calls PROVE InPool(d, c) <=> InPool(p, c)
  <2>1. c # NoCall
    BY PoolAssumption
  <2>2. ASSUME InPool(d, c) PROVE InPool(p, c)
    <3>1. ASSUME NEW j \in 1..Len(d.queue), d.queue[j] = c PROVE InPool(p, c)
      BY <1>10, <3>1 DEF InPool
    <3>2. ASSUME NEW w \in Workers, d.inflight[w] = c PROVE InPool(p, c)
      <4>1. CASE Took(w)
        BY <1>2, <1>5, <3>2, <4>1 DEF InPool, Took
      <4>2. CASE ~Took(w)
        BY <1>2, <3>2, <4>2 DEF InPool
      <4>. QED
        BY <4>1, <4>2
    <3>. QED
      BY <2>2, <3>1, <3>2 DEF InPool
  <2>3. ASSUME InPool(p, c) PROVE InPool(d, c)
    <3>1. ASSUME NEW i \in 1..Len(p.queue), p.queue[i] = c PROVE InPool(d, c)
      <4>1. CASE i <= k
        BY <1>1, <1>2, <3>1, <4>1 DEF InPool
      <4>2. CASE ~(i <= k)
        <5>1. i - k \in 1..Len(d.queue) /\ k + (i - k) = i
          BY <1>1, <1>3, <4>2
        <5>. QED
          BY <1>10, <3>1, <5>1 DEF InPool
      <4>. QED
        BY <4>1, <4>2
    <3>2. ASSUME NEW w \in Workers, p.inflight[w] = c PROVE InPool(d, c)
      <4>1. w \in Busy(p)
        BY <2>1, <3>2 DEF Busy
      <4>2. ~Took(w)
        BY <1>7, <4>1
      <4>. QED
        BY <1>2, <3>2, <4>2 DEF InPool
    <3>. QED
      BY <2>3, <3>1, <3>2 DEF InPool
  <2>. QED
    BY <2>2, <2>3
<1>17. d.queue = <<>> \/ d.idle = <<>>
  <2>1. Len(d.queue) = 0 \/ Len(d.idle) = 0
    BY <1>1, <1>3
  <2>2. d.queue \in Seq(Calls) /\ d.idle \in Seq(Workers)
    BY <1>1 DEF PoolType
  <2>. QED
    BY <2>1, <2>2, EmptySeq
<1>18. ASSUME p.idle = <<>> PROVE d.queue = p.queue
  <2>1. k = 0
    BY <1>1, <1>18, EmptySeq
  <2>2. Len(d.queue) = Len(p.queue) /\ \A j \in 1..Len(d.queue) : d.queue[j] = p.queue[j]
    BY <1>1, <1>3, <2>1
  <2>3. d.queue \in Seq(Calls) /\ p.queue \in Seq(Calls)
    BY <1>1 DEF PoolType
  <2>. QED
    BY <2>2, <2>3, SeqEqual
<1>. QED
  BY <1>1, <1>9, <1>13, <1>14, <1>15, <1>16, <1>17, <1>18 DEF Sound, d

----------------------------------------------------------------------------
(* Draining the queue.                                                     *)

LEMMA SettledFacts ==
  ASSUME NEW p, Sound(p), NEW C, NEW a \in Verdicts
  PROVE  /\ Sound(Settled(p, C, a))
         /\ \A c \in Calls : Settled(p, C, a).answer[c] =
              IF c \in C /\ p.answer[c] = "waiting" THEN a ELSE p.answer[c]
         /\ \A c \in Calls : InPool(Settled(p, C, a), c) <=> InPool(p, c)
         /\ Settled(p, C, a).queue = p.queue /\ Settled(p, C, a).workers = p.workers
         /\ Settled(p, C, a).idle = p.idle /\ Settled(p, C, a).inflight = p.inflight
         /\ Settled(p, C, a).destroyed = p.destroyed
<1>. DEFINE answer == [c \in Calls |-> IF c \in C /\ p.answer[c] = "waiting" THEN a ELSE p.answer[c]]
            q == Settled(p, C, a)
<1>1. p \in PoolType
  BY DEF Sound
<1>2. q = [p EXCEPT !.answer = answer]
  BY DEF Settled
<1>3. answer \in [Calls -> Verdicts]
  BY <1>1 DEF PoolType
<1>4. \A c \in Calls : answer[c] = IF c \in C /\ p.answer[c] = "waiting" THEN a ELSE p.answer[c]
  OBVIOUS
<1>. HIDE DEF answer, q
<1>5. /\ q.queue = p.queue /\ q.idle = p.idle /\ q.pending = p.pending /\ q.workers = p.workers
      /\ q.inflight = p.inflight /\ q.parseCounts = p.parseCounts /\ q.late = p.late
      /\ q.totalCrashes = p.totalCrashes /\ q.faults = p.faults /\ q.destroyed = p.destroyed
      /\ q.threads = p.threads /\ q.answer = answer
  BY <1>1, <1>2 DEF PoolType
<1>6. q \in PoolType
  BY <1>1, <1>2, <1>3 DEF PoolType
<1>7. WorkersPlaced(q) /\ OnePlace(q)
  BY <1>5 DEF Sound, WorkersPlaced, OnePlace, Busy
<1>8. ThreadsPlaced(q) /\ Charged(q)
  BY <1>5 DEF Sound, ThreadsPlaced, Charged, Dying
<1>9. \A c \in Calls : InPool(q, c) <=> InPool(p, c)
  BY <1>5 DEF InPool
<1>. QED
  BY <1>4, <1>5, <1>6, <1>7, <1>8, <1>9 DEF Sound, q

\* With no worker in service and none to come, all that waits is in the queue, and fails.
LEMMA HangPreventedSound ==
  ASSUME NEW p, Sound(p), Held(p), p.queue # <<>> => p.idle = <<>>
  PROVE  /\ Sound(HangPrevented(p)) /\ Held(HangPrevented(p)) /\ NoneStranded(HangPrevented(p))
         /\ HangPrevented(p).destroyed = p.destroyed
         /\ HangPrevented(p).workers = p.workers
         /\ \/ HangPrevented(p).answer = p.answer
            \/ \A c \in Calls : HangPrevented(p).answer[c] =
                 IF p.answer[c] = "waiting" THEN "exhausted" ELSE p.answer[c]
<1>1. p \in PoolType
  BY DEF Sound
<1>2. CASE p.queue # <<>> /\ p.idle = <<>> /\ p.pending = {} /\ p.workers = {}
  <2>. DEFINE s == Settled(p, ToSet(p.queue), "exhausted")
              q == [s EXCEPT !.queue = <<>>]
  <2>1. HangPrevented(p) = q
    BY <1>2 DEF HangPrevented
  <2>2. "exhausted" \in Verdicts
    BY DEF Verdicts, Rejections
  <2>3. /\ Sound(s) /\ s.workers = {} /\ s.destroyed = p.destroyed
        /\ \A c \in Calls : s.answer[c] =
              IF c \in ToSet(p.queue) /\ p.answer[c] = "waiting" THEN "exhausted" ELSE p.answer[c]
    <3>1. Sound(s) /\ s.workers = p.workers /\ s.destroyed = p.destroyed
      BY <2>2, SettledFacts, ZenonT(30)
    <3>2. \A c \in Calls : s.answer[c] =
              IF c \in ToSet(p.queue) /\ p.answer[c] = "waiting" THEN "exhausted" ELSE p.answer[c]
      BY <2>2, SettledFacts
    <3>. QED
      BY <1>2, <3>1, <3>2
  <2>. HIDE DEF s
  <2>4. \A w \in Workers : p.inflight[w] = NoCall
    BY <1>2 DEF Sound, WorkersPlaced, Busy
  <2>5. \A c \in Calls : p.answer[c] = "waiting" => c \in ToSet(p.queue)
    <3>1. \A c \in Calls : p.answer[c] = "waiting" => \E k \in 1..Len(p.queue) : p.queue[k] = c
      BY <2>4, PoolAssumption DEF Held, InPool
    <3>. QED
      BY <1>1, <3>1, ToSetFacts DEF PoolType
  <2>6. /\ q.queue = <<>> /\ q.idle = s.idle /\ q.pending = s.pending /\ q.workers = s.workers
        /\ q.inflight = s.inflight /\ q.parseCounts = s.parseCounts /\ q.late = s.late
        /\ q.totalCrashes = s.totalCrashes /\ q.faults = s.faults /\ q.destroyed = s.destroyed
        /\ q.threads = s.threads /\ q.answer = s.answer /\ q \in PoolType
    <3>1. s \in PoolType /\ <<>> \in Seq(Calls)
      BY <2>3 DEF Sound
    <3>. QED
      BY <3>1 DEF PoolType
  <2>. HIDE DEF q
  <2>7. Len(q.queue) = 0
    BY <2>6
  <2>8. Sound(q)
    <3>1. WorkersPlaced(q)
      BY <2>3, <2>6 DEF Sound, WorkersPlaced, Busy
    <3>2. OnePlace(q)
      BY <2>3, <2>6, <2>7 DEF Sound, OnePlace
    <3>3. ThreadsPlaced(q) /\ Charged(q)
      BY <2>3, <2>6 DEF Sound, ThreadsPlaced, Charged, Dying
    <3>. QED
      BY <2>6, <3>1, <3>2, <3>3 DEF Sound
  <2>9. \A c \in Calls : q.answer[c] = IF p.answer[c] = "waiting" THEN "exhausted" ELSE p.answer[c]
    BY <2>3, <2>5, <2>6
  <2>10. Held(q)
    <3>1. \A w \in Workers : q.inflight[w] = NoCall
      BY <2>3, <2>6, <2>8 DEF Sound, WorkersPlaced, Busy
    <3>2. ASSUME NEW c \in Calls PROVE ~InPool(q, c)
      <4>1. NoCall # c
        BY PoolAssumption
      <4>2. 1..Len(q.queue) = {}
        BY <2>7
      <4>. QED
        BY <3>1, <4>1, <4>2, Zenon DEF InPool
    <3>. QED
      BY <2>9, <3>2 DEF Held
  <2>. QED
    BY <1>2, <2>1, <2>3, <2>6, <2>8, <2>9, <2>10 DEF NoneStranded
<1>3. CASE ~(p.queue # <<>> /\ p.idle = <<>> /\ p.pending = {} /\ p.workers = {})
  <2>1. HangPrevented(p) = p
    BY <1>3 DEF HangPrevented
  <2>2. p.workers = {} => p.pending = {}
    BY DEF Sound, WorkersPlaced
  <2>. QED
    BY <1>3, <2>1, <2>2 DEF NoneStranded
<1>. QED
  BY <1>2, <1>3

\* Draining leaves the pool at ease; it answers nothing, or fails all that waits.
LEMMA DrainedAtEase ==
  ASSUME NEW p, Sound(p), Held(p), ~p.destroyed, NEW q \in Drained(p)
  PROVE  /\ AtEase(q) /\ ~q.destroyed
         /\ \/ q.answer = p.answer
            \/ \A c \in Calls : q.answer[c] =
                 IF p.answer[c] = "waiting" THEN "exhausted" ELSE p.answer[c]
<1>1. PICK g \in Grown(p) : q = HangPrevented(Dispatched(g))
  BY DEF Drained
<1>2. Sound(g) /\ MoreWorkers(p, g)
  BY GrownSound
<1>. DEFINE d == Dispatched(g)
<1>3. /\ Sound(d)
      /\ \A c \in Calls : InPool(d, c) <=> InPool(g, c)
      /\ d.queue = <<>> \/ d.idle = <<>>
  <2>1. Sound(d) /\ (d.queue = <<>> \/ d.idle = <<>>)
    BY <1>2, DispatchedSound, Zenon
  <2>2. \A c \in Calls : InPool(d, c) <=> InPool(g, c)
    BY <1>2, DispatchedSound, Zenon
  <2>. QED
    BY <2>1, <2>2
<1>4. d.answer = g.answer /\ d.destroyed = g.destroyed
  BY <1>2, DispatchedFields, Zenon
<1>. HIDE DEF d
<1>5. \A c \in Calls : InPool(g, c) <=> InPool(p, c)
  BY <1>2 DEF InPool, MoreWorkers
<1>6. Held(d) /\ d.answer = p.answer /\ ~d.destroyed
  BY <1>2, <1>3, <1>4, <1>5 DEF Held, MoreWorkers
<1>7. q = HangPrevented(d)
  BY <1>1 DEF d
<1>8. /\ Sound(q) /\ Held(q) /\ NoneStranded(q) /\ q.destroyed = d.destroyed
      /\ \/ q.answer = d.answer
         \/ \A c \in Calls : q.answer[c] = IF d.answer[c] = "waiting" THEN "exhausted" ELSE d.answer[c]
  <2>1. d.queue # <<>> => d.idle = <<>>
    BY <1>3
  <2>2. /\ Sound(q) /\ Held(q) /\ NoneStranded(q) /\ q.destroyed = d.destroyed
    BY <1>3, <1>6, <1>7, <2>1, HangPreventedSound, Zenon
  <2>3. \/ q.answer = d.answer
        \/ \A c \in Calls : q.answer[c] = IF d.answer[c] = "waiting" THEN "exhausted" ELSE d.answer[c]
    BY <1>3, <1>6, <1>7, <2>1, HangPreventedSound, Zenon
  <2>. QED
    BY <2>2, <2>3
<1>. QED
  BY <1>6, <1>8 DEF AtEase

----------------------------------------------------------------------------
(* Workers that go, and workers that come free.                            *)

\* q is p without the workers in W, and without the calls these were at.
LeftBy(p, q, W) ==
  /\ q.workers = p.workers \ W /\ q.pending = p.pending \ W
  /\ q.idle = AtPositions(p.idle, {i \in DOMAIN p.idle : p.idle[i] \notin W})
  /\ \A w \in Workers : q.inflight[w] = IF w \in W THEN NoCall ELSE p.inflight[w]
  /\ q.threads = [w \in Workers |-> IF w \in W THEN NoThread ELSE p.threads[w]]
  /\ q.queue = p.queue /\ q.faults = p.faults

LEMMA LeftBySound ==
  ASSUME NEW p, Sound(p), NEW q \in PoolType, NEW W \in SUBSET Workers, LeftBy(p, q, W),
         q.totalCrashes + Cardinality(Dying(q)) <= p.totalCrashes + Cardinality(Dying(p))
  PROVE  /\ Sound(q)
         /\ \A c \in Calls : InPool(q, c) <=> InPool(p, c) /\ \A w \in W : p.inflight[w] # c
<1>. DEFINE I == {i \in DOMAIN p.idle : p.idle[i] \notin W}
<1>1. /\ p \in PoolType /\ p.idle \in Seq(Workers) /\ q.idle \in Seq(Workers)
      /\ I \in SUBSET (DOMAIN p.idle) /\ q.idle = AtPositions(p.idle, I)
  BY DEF Sound, PoolType, LeftBy
<1>2. Lists(q.idle, p.idle, I)
  BY <1>1, AtPositionsFacts
<1>. HIDE DEF I
<1>3. PICK pos \in [DOMAIN q.idle -> I] :
         /\ \A k \in DOMAIN q.idle : q.idle[k] = p.idle[pos[k]]
         /\ \A j, k \in DOMAIN q.idle : pos[j] = pos[k] => j = k
         /\ \A i \in I : \E k \in DOMAIN q.idle : pos[k] = i
  BY <1>2 DEF Lists
<1>4. DOMAIN q.idle = 1..Len(q.idle) /\ DOMAIN p.idle = 1..Len(p.idle)
  BY <1>1, LenProperties
<1>5. I = {i \in 1..Len(p.idle) : p.idle[i] \notin W}
  BY <1>4 DEF I
<1>6. ToSet(q.idle) = ToSet(p.idle) \ W
  <2>1. ASSUME NEW k \in 1..Len(q.idle) PROVE q.idle[k] \in ToSet(p.idle) \ W
    <3>1. pos[k] \in I /\ q.idle[k] = p.idle[pos[k]]
      BY <1>3, <1>4
    <3>. QED
      BY <1>1, <1>5, <3>1, ToSetFacts
  <2>2. ASSUME NEW i \in 1..Len(p.idle), p.idle[i] \notin W PROVE p.idle[i] \in ToSet(q.idle)
    <3>1. PICK k \in 1..Len(q.idle) : pos[k] = i
      BY <1>3, <1>4, <1>5, <2>2
    <3>2. q.idle[k] = p.idle[i]
      BY <1>3, <1>4, <3>1
    <3>. QED
      BY <1>1, <3>2, ToSetFacts
  <2>3. /\ \A x : x \in ToSet(p.idle) <=> \E i \in 1..Len(p.idle) : p.idle[i] = x
        /\ \A x : x \in ToSet(q.idle) <=> \E i \in 1..Len(q.idle) : q.idle[i] = x
    <3>1. \A x : x \in ToSet(p.idle) <=> \E i \in 1..Len(p.idle) : p.idle[i] = x
      BY <1>1, ToSetFacts, Zenon
    <3>2. \A x : x \in ToSet(q.idle) <=> \E i \in 1..Len(q.idle) : q.idle[i] = x
      BY <1>1, ToSetFacts, Zenon
    <3>. QED
      BY <3>1, <3>2
  <2>. QED
    BY <2>1, <2>2, <2>3
<1>7. Busy(q) = Busy(p) \ W
  BY DEF Busy, LeftBy
<1>8. WorkersPlaced(q)
  <2>1. q.workers = q.pending \union ToSet(q.idle) \union Busy(q)
    BY <1>6, <1>7 DEF Sound, WorkersPlaced, LeftBy
  <2>2. /\ q.pending \intersect (ToSet(q.idle) \union Busy(q)) = {}
        /\ ToSet(q.idle) \intersect Busy(q) = {}
    BY <1>6, <1>7 DEF Sound, WorkersPlaced, LeftBy
  <2>3. \A i, j \in 1..Len(q.idle) : q.idle[i] = q.idle[j] => i = j
    <3>. SUFFICES ASSUME NEW i \in 1..Len(q.idle), NEW j \in 1..Len(q.idle), q.idle[i] = q.idle[j]
                  PROVE  i = j
      OBVIOUS
    <3>1. pos[i] \in 1..Len(p.idle) /\ pos[j] \in 1..Len(p.idle) /\ p.idle[pos[i]] = p.idle[pos[j]]
      BY <1>3, <1>4, <1>5
    <3>2. pos[i] = pos[j]
      BY <3>1 DEF Sound, WorkersPlaced
    <3>. QED
      BY <1>3, <1>4, <3>2
  <2>. QED
    BY <2>1, <2>2, <2>3 DEF WorkersPlaced
<1>9. OnePlace(q)
  <2>1. \A w \in Workers : q.inflight[w] = NoCall \/ q.inflight[w] = p.inflight[w]
    BY DEF LeftBy
  <2>2. \A k \in 1..Len(q.queue) : q.queue[k] # NoCall
    BY ElementOfSeq, PoolAssumption DEF PoolType
  <2>3. q.queue = p.queue
    BY DEF LeftBy
  <2>4. \A v, w \in Workers : q.inflight[v] # NoCall /\ q.inflight[v] = q.inflight[w] => v = w
    BY <2>1 DEF Sound, OnePlace
  <2>5. \A k \in 1..Len(q.queue), w \in Workers : q.queue[k] # q.inflight[w]
    BY <2>1, <2>2, <2>3 DEF Sound, OnePlace
  <2>6. \A j, k \in 1..Len(q.queue) : q.queue[j] = q.queue[k] => j = k
    BY <2>3 DEF Sound, OnePlace
  <2>. QED
    BY <2>4, <2>5, <2>6 DEF OnePlace
<1>10. ThreadsPlaced(q)
  <2>1. NoThread.loads = FALSE /\ NoThread.dies = <<>>
    BY DEF NoThread
  <2>. QED
    BY <2>1 DEF Sound, ThreadsPlaced, LeftBy
<1>11. Charged(q)
  <2>1. Dying(p) \in SUBSET Workers /\ Dying(q) \in SUBSET Workers
    BY DEF Dying
  <2>2. Cardinality(Dying(p)) \in Nat /\ Cardinality(Dying(q)) \in Nat
    BY <2>1, WorkersFinite
  <2>3. /\ p.totalCrashes \in Nat /\ q.totalCrashes \in Nat /\ p.faults \in Nat /\ q.faults = p.faults
        /\ p.totalCrashes + Cardinality(Dying(p)) <= p.faults
    BY <1>1 DEF Sound, Charged, PoolType, LeftBy
  <2>. QED
    BY <2>2, <2>3 DEF Charged
<1>12. ASSUME NEW c \in Calls
       PROVE  InPool(q, c) <=> InPool(p, c) /\ \A w \in W : p.inflight[w] # c
  <2>1. c # NoCall /\ q.queue = p.queue
    BY PoolAssumption DEF LeftBy
  <2>2. \A w \in Workers : q.inflight[w] = c <=> p.inflight[w] = c /\ w \notin W
    BY <2>1 DEF LeftBy
  <2>3. \A v, w \in Workers : p.inflight[v] = c /\ p.inflight[w] = c => v = w
    BY <2>1 DEF Sound, OnePlace
  <2>4. \A k \in 1..Len(p.queue), w \in Workers : p.queue[k] = c => p.inflight[w] # c
    BY DEF Sound, OnePlace
  <2>. QED
    BY <2>1, <2>2, <2>3, <2>4 DEF InPool
<1>. QED
  BY <1>8, <1>9, <1>10, <1>11, <1>12 DEF Sound

\* q is p after w came free for another call.
CameFree(p, q, w) ==
  /\ q.workers = p.workers /\ q.pending = p.pending \ {w} /\ q.idle = Append(p.idle, w)
  /\ \A v \in Workers : q.inflight[v] = IF v = w THEN NoCall ELSE p.inflight[v]
  /\ \A v \in Workers : /\ q.threads[v].loads => p.threads[v].loads /\ v # w
                        /\ q.threads[v].dies = p.threads[v].dies
  /\ q.queue = p.queue /\ q.faults = p.faults /\ q.totalCrashes = p.totalCrashes

LEMMA CameFreeSound ==
  ASSUME NEW p, Sound(p), NEW q \in PoolType, NEW w \in p.workers, w \notin ToSet(p.idle),
         CameFree(p, q, w)
  PROVE  /\ Sound(q)
         /\ \A c \in Calls : InPool(q, c) <=> InPool(p, c) /\ p.inflight[w] # c
<1>1. p \in PoolType /\ p.idle \in Seq(Workers) /\ q.idle \in Seq(Workers) /\ w \in Workers
  BY DEF Sound, PoolType
<1>2. /\ Len(p.idle) \in Nat /\ Len(q.idle) = Len(p.idle) + 1 /\ q.idle[Len(q.idle)] = w
      /\ \A i \in 1..Len(p.idle) : q.idle[i] = p.idle[i]
  BY <1>1, AppendProperties, LenProperties DEF CameFree
<1>3. \A x : x \in ToSet(p.idle) <=> \E i \in 1..Len(p.idle) : p.idle[i] = x
  BY <1>1, IdleElements
<1>4. \A x : x \in ToSet(q.idle) <=> \E i \in 1..Len(q.idle) : q.idle[i] = x
  BY IdleElements
<1>5. \A i \in 1..Len(q.idle) : i \in 1..Len(p.idle) \/ i = Len(q.idle)
  BY <1>2
<1>6. ToSet(q.idle) = ToSet(p.idle) \union {w}
  <2>1. \A i \in 1..Len(p.idle) : i \in 1..Len(q.idle)
    BY <1>2
  <2>2. Len(q.idle) \in 1..Len(q.idle)
    BY <1>2
  <2>. QED
    BY <1>2, <1>3, <1>4, <1>5, <2>1, <2>2
<1>7. Busy(q) = Busy(p) \ {w}
  BY <1>1 DEF Busy, CameFree
<1>8. WorkersPlaced(q)
  <2>1. q.workers = q.pending \union ToSet(q.idle) \union Busy(q)
    BY <1>6, <1>7 DEF Sound, WorkersPlaced, CameFree
  <2>2. /\ q.pending \intersect (ToSet(q.idle) \union Busy(q)) = {}
        /\ ToSet(q.idle) \intersect Busy(q) = {}
    BY <1>6, <1>7 DEF Sound, WorkersPlaced, CameFree
  <2>3. \A i, j \in 1..Len(q.idle) : q.idle[i] = q.idle[j] => i = j
    <3>1. \A i \in 1..Len(p.idle) : q.idle[i] # w
      BY <1>2, <1>3
    <3>2. \A i, j \in 1..Len(p.idle) : q.idle[i] = q.idle[j] => i = j
      BY <1>2 DEF Sound, WorkersPlaced
    <3>. QED
      BY <1>2, <1>5, <3>1, <3>2
  <2>. QED
    BY <2>1, <2>2, <2>3 DEF WorkersPlaced
<1>9. OnePlace(q)
  <2>1. \A v \in Workers : q.inflight[v] = NoCall \/ q.inflight[v] = p.inflight[v]
    BY DEF CameFree
  <2>2. \A k \in 1..Len(q.queue) : q.queue[k] # NoCall
    BY ElementOfSeq, PoolAssumption DEF PoolType
  <2>3. q.queue = p.queue
    BY DEF CameFree
  <2>4. \A u, v \in Workers : q.inflight[u] # NoCall /\ q.inflight[u] = q.inflight[v] => u = v
    BY <2>1 DEF Sound, OnePlace
  <2>5. \A k \in 1..Len(q.queue), v \in Workers : q.queue[k] # q.inflight[v]
    BY <2>1, <2>2, <2>3 DEF Sound, OnePlace
  <2>6. \A j, k \in 1..Len(q.queue) : q.queue[j] = q.queue[k] => j = k
    BY <2>3 DEF Sound, OnePlace
  <2>. QED
    BY <2>4, <2>5, <2>6 DEF OnePlace
<1>10. ThreadsPlaced(q)
  BY DEF Sound, ThreadsPlaced, CameFree
<1>11. Charged(q)
  <2>1. Dying(q) = Dying(p)
    BY DEF Dying, CameFree
  <2>. QED
    BY <2>1 DEF Sound, Charged, CameFree
<1>12. ASSUME NEW c \in Calls PROVE InPool(q, c) <=> InPool(p, c) /\ p.inflight[w] # c
  <2>1. c # NoCall /\ q.queue = p.queue
    BY PoolAssumption DEF CameFree
  <2>2. \A v \in Workers : q.inflight[v] = c <=> p.inflight[v] = c /\ v # w
    BY <2>1 DEF CameFree
  <2>3. \A u, v \in Workers : p.inflight[u] = c /\ p.inflight[v] = c => u = v
    BY <2>1 DEF Sound, OnePlace
  <2>4. \A k \in 1..Len(p.queue), v \in Workers : p.queue[k] = c => p.inflight[v] # c
    BY DEF Sound, OnePlace
  <2>. QED
    BY <1>1, <2>1, <2>2, <2>3, <2>4 DEF InPool
<1>. QED
  BY <1>8, <1>9, <1>10, <1>11, <1>12 DEF Sound

\* What remove() and terminate() leave.
LEMMA RemovedFields ==
  ASSUME NEW p \in PoolType, NEW W \in SUBSET Workers
  PROVE  /\ Removed(p, W) \in PoolType
         /\ Removed(p, W).workers = p.workers \ W /\ Removed(p, W).pending = p.pending \ W
         /\ Removed(p, W).idle = AtPositions(p.idle, {i \in DOMAIN p.idle : p.idle[i] \notin W})
         /\ Removed(p, W).inflight = p.inflight /\ Removed(p, W).threads = p.threads
         /\ Removed(p, W).queue = p.queue /\ Removed(p, W).faults = p.faults
         /\ Removed(p, W).totalCrashes = p.totalCrashes /\ Removed(p, W).late = p.late
         /\ Removed(p, W).answer = p.answer /\ Removed(p, W).destroyed = p.destroyed
<1>. DEFINE r == Removed(p, W)
            idle == AtPositions(p.idle, {i \in DOMAIN p.idle : p.idle[i] \notin W})
            parseCounts == [w \in Workers |-> IF w \in W THEN 0 ELSE p.parseCounts[w]]
<1>1. r = [p EXCEPT !.workers = p.workers \ W, !.pending = p.pending \ W,
                    !.parseCounts = parseCounts, !.idle = idle]
  BY DEF Removed
<1>2. idle \in Seq(Workers)
  <2>1. p.idle \in Seq(Workers) /\ {i \in DOMAIN p.idle : p.idle[i] \notin W} \in SUBSET (DOMAIN p.idle)
    BY DEF PoolType
  <2>. QED
    BY <2>1, AtPositionsFacts
<1>3. parseCounts \in [Workers -> Nat]
  BY DEF PoolType
<1>. HIDE DEF r, idle, parseCounts
<1>4. /\ r.workers = p.workers \ W /\ r.pending = p.pending \ W
      /\ r.idle = idle /\ r.queue = p.queue /\ r.inflight = p.inflight /\ r.faults = p.faults
      /\ r.totalCrashes = p.totalCrashes /\ r.destroyed = p.destroyed /\ r.late = p.late
      /\ r.answer = p.answer /\ r.threads = p.threads /\ r \in PoolType
  BY <1>1, <1>2, <1>3 DEF PoolType
<1>. QED
  BY <1>4 DEF r, idle

LEMMA RetiredFields ==
  ASSUME NEW p \in PoolType, NEW W \in SUBSET Workers
  PROVE  /\ Retired(p, W) \in PoolType
         /\ Retired(p, W).workers = p.workers \ W /\ Retired(p, W).pending = p.pending \ W
         /\ Retired(p, W).idle = AtPositions(p.idle, {i \in DOMAIN p.idle : p.idle[i] \notin W})
         /\ Retired(p, W).inflight = p.inflight
         /\ Retired(p, W).threads = [w \in Workers |-> IF w \in W THEN NoThread ELSE p.threads[w]]
         /\ Retired(p, W).queue = p.queue /\ Retired(p, W).faults = p.faults
         /\ Retired(p, W).totalCrashes = p.totalCrashes
         /\ Retired(p, W).answer = p.answer /\ Retired(p, W).destroyed = p.destroyed
<1>. DEFINE r == Removed(p, W)
            q == Retired(p, W)
            idle == AtPositions(p.idle, {i \in DOMAIN p.idle : p.idle[i] \notin W})
            threads == [w \in Workers |-> IF w \in W THEN NoThread ELSE p.threads[w]]
            two == {w \in W : Len(r.threads[w].dies) = 2}
            late == p.late + Cardinality(W) + Cardinality(two)
<1>1. threads \in [Workers -> ThreadType]
  <2>1. NoThread \in ThreadType
    BY DEF NoThread, ThreadType
  <2>. QED
    BY <2>1 DEF PoolType
<1>2. q = [r EXCEPT !.threads = [w \in Workers |-> IF w \in W THEN NoThread ELSE r.threads[w]],
                    !.late = r.late + Cardinality(W) + Cardinality(two)]
  BY DEF Retired, Terminated
<1>3. two \in SUBSET Workers
  OBVIOUS
<1>4. /\ r \in PoolType /\ r.workers = p.workers \ W /\ r.pending = p.pending \ W
      /\ r.idle = idle /\ r.inflight = p.inflight /\ r.threads = p.threads
      /\ r.queue = p.queue /\ r.faults = p.faults /\ r.totalCrashes = p.totalCrashes
      /\ r.late = p.late /\ r.answer = p.answer /\ r.destroyed = p.destroyed
  BY RemovedFields, Zenon
<1>. HIDE DEF r, q, idle, two
<1>5. late \in Int
  <2>1. Cardinality(W) \in Nat /\ Cardinality(two) \in Nat
    BY <1>3, WorkersFinite
  <2>2. p.late \in Int
    BY DEF PoolType
  <2>. QED
    BY <2>1, <2>2
<1>6. q = [r EXCEPT !.threads = threads, !.late = late]
  BY <1>2, <1>4
<1>. HIDE DEF threads, late
<1>7. /\ q.workers = r.workers /\ q.pending = r.pending
      /\ q.idle = r.idle /\ q.queue = r.queue /\ q.inflight = r.inflight /\ q.faults = r.faults
      /\ q.totalCrashes = r.totalCrashes /\ q.destroyed = r.destroyed
      /\ q.answer = r.answer /\ q.threads = threads /\ q \in PoolType
  BY <1>1, <1>4, <1>5, <1>6 DEF PoolType
<1>. QED
  BY <1>4, <1>7 DEF q, idle, threads

----------------------------------------------------------------------------
(* The handlers.                                                           *)

\* A handler that adds no call answers some of those that wait, or none.
Answered(p, q) ==
  \A c \in Calls : \/ q.answer[c] = p.answer[c]
                   \/ p.answer[c] = "waiting" /\ q.answer[c] \in Results \union Rejections

Handled(p, q) == AtEase(q) /\ q.destroyed = p.destroyed /\ Answered(p, q)

\* A handler that answers c, or nothing if c is no call, and then drains the queue.
LEMMA AnsweredAndDrained ==
  ASSUME NEW p, AtEase(p), NEW s, Sound(s), ~p.destroyed, ~s.destroyed,
         NEW c, NEW a \in Results \union Rejections,
         \A d \in Calls : s.answer[d] = IF d = c /\ p.answer[d] = "waiting" THEN a ELSE p.answer[d],
         \A d \in Calls : InPool(s, d) <=> InPool(p, d) /\ d # c,
         NEW q \in Drained(s)
  PROVE  Handled(p, q)
<1>1. a # "waiting"
  BY PoolAssumption DEF Rejections
<1>2. Held(s)
  BY <1>1 DEF AtEase, Held
<1>3. AtEase(q) /\ ~q.destroyed
  BY <1>2, DrainedAtEase, Zenon
<1>4. \/ q.answer = s.answer
      \/ \A d \in Calls : q.answer[d] = IF s.answer[d] = "waiting" THEN "exhausted" ELSE s.answer[d]
  BY <1>2, DrainedAtEase, Zenon
<1>5. "exhausted" \in Rejections
  BY DEF Rejections
<1>6. Answered(p, q)
  <2>. SUFFICES ASSUME NEW d \in Calls
                PROVE  \/ q.answer[d] = p.answer[d]
                       \/ p.answer[d] = "waiting" /\ q.answer[d] \in Results \union Rejections
    BY DEF Answered
  <2>1. q.answer[d] = s.answer[d] \/ (s.answer[d] = "waiting" /\ q.answer[d] = "exhausted")
    BY <1>4
  <2>2. s.answer[d] = p.answer[d] \/ (p.answer[d] = "waiting" /\ s.answer[d] = a)
    OBVIOUS
  <2>. QED
    BY <1>1, <1>5, <2>1, <2>2
<1>7. q.destroyed = p.destroyed
  BY <1>3 DEF AtEase, Sound, PoolType
<1>. QED
  BY <1>3, <1>6, <1>7 DEF Handled

LEMMA NewPoolAtEase ==
  ASSUME NEW q \in NewPool
  PROVE  AtEase(q) /\ ~q.destroyed /\ \A c \in Calls : q.answer[c] = "none"
<1>1. /\ NoPool.queue = <<>> /\ NoPool.idle = <<>> /\ NoPool.pending = {} /\ NoPool.workers = {}
      /\ NoPool.inflight = [w \in Workers |-> NoCall] /\ NoPool.totalCrashes = 0 /\ NoPool.faults = 0
      /\ NoPool.destroyed = FALSE /\ NoPool.answer = [c \in Calls |-> "none"]
      /\ NoPool.threads = [w \in Workers |-> NoThread]
      /\ NoPool.parseCounts = [w \in Workers |-> 0] /\ NoPool.late = 0
  BY DEF NoPool
<1>2. NoThread \in ThreadType /\ NoThread.loads = FALSE /\ NoThread.dies = <<>>
  BY DEF NoThread, ThreadType
<1>3. NoPool \in PoolType
  <2>1. "none" \in Verdicts /\ <<>> \in Seq(Calls) /\ <<>> \in Seq(Workers)
    BY DEF Verdicts
  <2>. QED
    BY <1>2, <2>1 DEF NoPool, PoolType
<1>4. Len(NoPool.queue) = 0 /\ Len(NoPool.idle) = 0
  BY <1>1
<1>5. Busy(NoPool) = {} /\ ToSet(NoPool.idle) = {} /\ Dying(NoPool) = {}
  <2>1. ToSet(<<>>) = {}
    BY DEF ToSet
  <2>. QED
    BY <1>1, <1>2, <2>1 DEF Busy, Dying
<1>6. Sound(NoPool)
  <2>1. WorkersPlaced(NoPool)
    BY <1>1, <1>4, <1>5 DEF WorkersPlaced
  <2>2. OnePlace(NoPool)
    BY <1>1, <1>4 DEF OnePlace
  <2>3. ThreadsPlaced(NoPool)
    BY <1>1, <1>2 DEF ThreadsPlaced
  <2>4. Charged(NoPool)
    BY <1>1, <1>5, FS_EmptySet DEF Charged
  <2>. QED
    BY <1>3, <2>1, <2>2, <2>3, <2>4 DEF Sound
<1>7. q \in SpawnOne(NoPool)
  BY DEF NewPool
<1>8. Sound(q) /\ MoreWorkers(NoPool, q)
  BY <1>6, <1>7, SpawnOneSound, Zenon
<1>9. /\ q.queue = <<>> /\ Len(q.queue) = 0 /\ ~q.destroyed
      /\ \A w \in Workers : q.inflight[w] = NoCall
      /\ \A c \in Calls : q.answer[c] = "none"
  BY <1>1, <1>4, <1>8 DEF MoreWorkers
<1>10. Held(q)
  BY <1>9, PoolAssumption DEF Held, InPool
<1>. QED
  BY <1>8, <1>9, <1>10 DEF AtEase, NoneStranded

\* A new call is taken on, or it is refused together with all that wait.
LEMMA RequestedAtEase ==
  ASSUME NEW p, AtEase(p), ~p.destroyed, NEW c \in Calls, p.answer[c] = "none",
         NEW r \in Requested(p, c)
  PROVE  /\ AtEase(r) /\ ~r.destroyed
         /\ \/ \A d \in Calls : r.answer[d] = IF d = c THEN "waiting" ELSE p.answer[d]
            \/ \A d \in Calls : r.answer[d] = IF d = c THEN "refused"
                                              ELSE IF p.answer[d] = "waiting" THEN "exhausted"
                                              ELSE p.answer[d]
<1>. DEFINE b == [p EXCEPT !.queue = Append(p.queue, c), !.answer = [p.answer EXCEPT ![c] = "waiting"]]
<1>1. p \in PoolType /\ Sound(p) /\ Held(p) /\ p.queue \in Seq(Calls) /\ c # NoCall
  BY PoolAssumption DEF AtEase, Sound, PoolType
<1>2. PICK q \in Drained(b) : r = IF q.answer[c] = "exhausted"
                                  THEN [q EXCEPT !.answer = [q.answer EXCEPT ![c] = "refused"]] ELSE q
  BY DEF Requested
<1>. HIDE DEF b
<1>3. /\ b.queue = Append(p.queue, c) /\ b.answer = [p.answer EXCEPT ![c] = "waiting"]
      /\ b.idle = p.idle /\ b.pending = p.pending /\ b.workers = p.workers
      /\ b.inflight = p.inflight /\ b.totalCrashes = p.totalCrashes /\ b.faults = p.faults
      /\ b.destroyed = p.destroyed /\ b.threads = p.threads
  BY <1>1 DEF b, PoolType
<1>4. b \in PoolType
  <2>1. [p.answer EXCEPT ![c] = "waiting"] \in [Calls -> Verdicts]
    BY <1>1 DEF PoolType, Verdicts
  <2>2. Append(p.queue, c) \in Seq(Calls)
    BY <1>1, AppendProperties
  <2>. QED
    BY <1>1, <2>1, <2>2 DEF b, PoolType
<1>5. /\ Len(p.queue) \in Nat /\ Len(b.queue) = Len(p.queue) + 1 /\ b.queue[Len(p.queue) + 1] = c
      /\ \A i \in 1..Len(p.queue) : b.queue[i] = p.queue[i]
  BY <1>1, <1>3, AppendProperties, LenProperties
<1>6. \A i \in 1..Len(b.queue) : i \in 1..Len(p.queue) \/ i = Len(p.queue) + 1
  BY <1>5
<1>7. \A i \in 1..Len(p.queue) : i \in 1..Len(b.queue)
  BY <1>5
<1>8. ~InPool(p, c)
  BY <1>1 DEF Held
<1>9. \A d \in Calls : d # c => (InPool(b, d) <=> InPool(p, d))
  BY <1>3, <1>5, <1>6, <1>7 DEF InPool
<1>10. InPool(b, c)
  <2>1. Len(p.queue) + 1 \in 1..Len(b.queue)
    BY <1>5
  <2>. QED
    BY <1>5, <2>1 DEF InPool
<1>11. \A d \in Calls : b.answer[d] = IF d = c THEN "waiting" ELSE p.answer[d]
  BY <1>1, <1>3 DEF PoolType
<1>12. Held(b)
  BY <1>1, <1>9, <1>10, <1>11 DEF Held
<1>13. Sound(b)
  <2>1. WorkersPlaced(b)
    BY <1>1, <1>3 DEF Sound, WorkersPlaced, Busy
  <2>2. ThreadsPlaced(b) /\ Charged(b)
    BY <1>1, <1>3 DEF Sound, ThreadsPlaced, Charged, Dying
  <2>3. \A i \in 1..Len(p.queue) : b.queue[i] # c
    BY <1>5, <1>8 DEF InPool
  <2>4. \A w \in Workers : b.inflight[w] # c
    BY <1>3, <1>8 DEF InPool
  <2>5. OnePlace(b)
    <3>1. \A i, j \in 1..Len(p.queue) : b.queue[i] = b.queue[j] => i = j
      BY <1>1, <1>5 DEF Sound, OnePlace
    <3>2. \A i, j \in 1..Len(b.queue) : b.queue[i] = b.queue[j] => i = j
      BY <1>5, <1>6, <2>3, <3>1
    <3>3. \A i \in 1..Len(p.queue), w \in Workers : b.queue[i] # b.inflight[w]
      BY <1>1, <1>3, <1>5 DEF Sound, OnePlace
    <3>4. \A i \in 1..Len(b.queue), w \in Workers : b.queue[i] # b.inflight[w]
      BY <1>5, <1>6, <2>4, <3>3
    <3>5. \A v, w \in Workers : b.inflight[v] # NoCall /\ b.inflight[v] = b.inflight[w] => v = w
      BY <1>1, <1>3 DEF Sound, OnePlace
    <3>. QED
      BY <3>2, <3>4, <3>5 DEF OnePlace
  <2>. QED
    BY <1>4, <2>1, <2>2, <2>5 DEF Sound
<1>14. ~b.destroyed
  BY <1>3
<1>15. AtEase(q) /\ ~q.destroyed
  BY <1>12, <1>13, <1>14, DrainedAtEase, Zenon
<1>16. \/ q.answer = b.answer
       \/ \A d \in Calls : q.answer[d] = IF b.answer[d] = "waiting" THEN "exhausted" ELSE b.answer[d]
  BY <1>12, <1>13, <1>14, DrainedAtEase, Zenon
<1>17. CASE q.answer = b.answer
  <2>1. r = q
    BY <1>2, <1>11, <1>17
  <2>. QED
    BY <1>11, <1>15, <1>17, <2>1
<1>18. CASE \A d \in Calls : q.answer[d] = IF b.answer[d] = "waiting" THEN "exhausted" ELSE b.answer[d]
  <2>1. r = [q EXCEPT !.answer = [q.answer EXCEPT ![c] = "refused"]]
    BY <1>2, <1>11, <1>18
  <2>2. q \in PoolType /\ Sound(q) /\ Held(q) /\ NoneStranded(q)
    BY <1>15 DEF AtEase, Sound
  <2>3. /\ r.queue = q.queue /\ r.answer = [q.answer EXCEPT ![c] = "refused"]
        /\ r.idle = q.idle /\ r.pending = q.pending /\ r.workers = q.workers
        /\ r.inflight = q.inflight /\ r.totalCrashes = q.totalCrashes /\ r.faults = q.faults
        /\ r.destroyed = q.destroyed /\ r.threads = q.threads
    BY <2>1, <2>2 DEF PoolType
  <2>4. r \in PoolType
    <3>1. [q.answer EXCEPT ![c] = "refused"] \in [Calls -> Verdicts]
      BY <2>2 DEF PoolType, Verdicts
    <3>. QED
      BY <2>1, <2>2, <3>1 DEF PoolType
  <2>5. \A d \in Calls : r.answer[d] = IF d = c THEN "refused" ELSE q.answer[d]
    BY <2>2, <2>3 DEF PoolType
  <2>6. Sound(r)
    <3>1. WorkersPlaced(r)
      BY <2>2, <2>3 DEF Sound, WorkersPlaced, Busy
    <3>2. ThreadsPlaced(r) /\ Charged(r)
      BY <2>2, <2>3 DEF Sound, ThreadsPlaced, Charged, Dying
    <3>3. OnePlace(r)
      BY <2>2, <2>3 DEF Sound, OnePlace
    <3>. QED
      BY <2>4, <3>1, <3>2, <3>3 DEF Sound
  <2>7. \A d \in Calls : InPool(r, d) <=> InPool(q, d)
    BY <2>3 DEF InPool
  <2>8. q.answer[c] = "exhausted"
    BY <1>11, <1>18
  <2>9. Held(r)
    BY <2>2, <2>5, <2>7, <2>8 DEF Held
  <2>10. \A d \in Calls : r.answer[d] = IF d = c THEN "refused"
                                        ELSE IF p.answer[d] = "waiting" THEN "exhausted"
                                        ELSE p.answer[d]
    BY <1>11, <1>18, <2>5
  <2>. QED
    BY <1>15, <2>2, <2>3, <2>6, <2>9, <2>10 DEF AtEase, NoneStranded
<1>. QED
  BY <1>16, <1>17, <1>18

\* A worker in service keeps the pool from having been destroyed.
LEMMA InService ==
  ASSUME NEW p, AtEase(p), NEW w \in p.workers
  PROVE  p \in PoolType /\ Sound(p) /\ Held(p) /\ ~p.destroyed /\ w \in Workers
BY DEF AtEase, Sound, PoolType

LEMMA GrammarsLoadedAtEase ==
  ASSUME NEW p, AtEase(p), NEW w \in Workers, p.threads[w].loads, NEW q \in GrammarsLoaded(p, w)
  PROVE  Handled(p, q)
<1>. DEFINE threads == [p.threads EXCEPT ![w].loads = FALSE]
            b == [p EXCEPT !.threads = threads, !.pending = p.pending \ {w},
                           !.idle = Append(p.idle, w)]
<1>1. w \in p.pending /\ w \in p.workers
  BY DEF AtEase, Sound, ThreadsPlaced, WorkersPlaced
<1>2. p \in PoolType /\ Sound(p) /\ Held(p) /\ ~p.destroyed
  BY <1>1, InService
<1>3. q \in Drained(b)
  BY DEF GrammarsLoaded
<1>4. /\ threads \in [Workers -> ThreadType]
      /\ \A v \in Workers : /\ threads[v].loads => p.threads[v].loads /\ v # w
                            /\ threads[v].dies = p.threads[v].dies
  <2>1. \A v \in Workers : p.threads[v] \in ThreadType
    BY <1>2 DEF PoolType
  <2>2. p.threads \in [Workers -> ThreadType]
    BY <1>2 DEF PoolType
  <2>. QED
    BY <2>1, <2>2 DEF ThreadType
<1>5. Append(p.idle, w) \in Seq(Workers)
  BY <1>2, AppendProperties DEF PoolType
<1>. HIDE DEF threads, b
<1>6. /\ b.threads = threads /\ b.pending = p.pending \ {w} /\ b.idle = Append(p.idle, w)
      /\ b.queue = p.queue /\ b.workers = p.workers /\ b.inflight = p.inflight
      /\ b.totalCrashes = p.totalCrashes /\ b.faults = p.faults
      /\ b.destroyed = p.destroyed /\ b.answer = p.answer
  BY <1>2 DEF PoolType, b
<1>7. b \in PoolType
  BY <1>2, <1>4, <1>5 DEF PoolType, b
<1>8. w \notin ToSet(p.idle) /\ p.inflight[w] = NoCall
  BY <1>1, <1>2 DEF Sound, WorkersPlaced, Busy
<1>9. CameFree(p, b, w)
  BY <1>4, <1>6, <1>8 DEF CameFree
<1>10. Sound(b)
  BY <1>1, <1>2, <1>7, <1>8, <1>9, CameFreeSound, Zenon
<1>11. \A c \in Calls : InPool(b, c) <=> InPool(p, c) /\ p.inflight[w] # c
  BY <1>1, <1>2, <1>7, <1>8, <1>9, CameFreeSound, Zenon
<1>12. \A c \in Calls : InPool(b, c) <=> InPool(p, c) /\ c # NoCall
  BY <1>8, <1>11
<1>13. \A c \in Calls : b.answer[c] =
         IF c = NoCall /\ p.answer[c] = "waiting" THEN "exhausted" ELSE p.answer[c]
  BY <1>6, PoolAssumption
<1>14. "exhausted" \in Results \union Rejections
  BY DEF Rejections
<1>15. ~b.destroyed
  BY <1>2, <1>6
<1>. QED
  BY <1>2, <1>3, <1>10, <1>12, <1>13, <1>14, <1>15, AnsweredAndDrained

LEMMA ParseResultAtEase ==
  ASSUME NEW p, AtEase(p), NEW w \in Workers, p.threads[w].parses # NoCall,
         NEW a \in Results, NEW q \in ParseResult(p, w, a)
  PROVE  Handled(p, q)
<1>. DEFINE c == p.threads[w].parses
            threads == [p.threads EXCEPT ![w].parses = NoCall]
            heard == [p EXCEPT !.threads = threads]
            inflight == [p.inflight EXCEPT ![w] = NoCall]
            free == [heard EXCEPT !.inflight = inflight]
            idled == [free EXCEPT !.idle = Append(free.idle, w)]
            kept == IF p.parseCounts[w] >= RecycleInterval THEN SpawnOne(Retired(free, {w}))
                                                           ELSE {idled}
<1>1. p \in PoolType /\ Sound(p) /\ Held(p) /\ NoneStranded(p)
  BY DEF AtEase, Sound
<1>2. ParseResult(p, w, a) = IF p.inflight[w] # c THEN {heard}
                             ELSE UNION {Drained(Settled(g, {c}, a)) : g \in kept}
  BY DEF ParseResult
<1>3. c \in Calls
  <2>1. p.threads[w] \in ThreadType
    BY <1>1 DEF PoolType
  <2>. QED
    BY <2>1 DEF ThreadType
<1>4. /\ threads \in [Workers -> ThreadType]
      /\ \A v \in Workers : /\ threads[v].loads = p.threads[v].loads
                            /\ threads[v].dies = p.threads[v].dies
      /\ \A v \in Workers : v # w => threads[v] = p.threads[v]
  <2>1. \A v \in Workers : p.threads[v] \in ThreadType
    BY <1>1 DEF PoolType
  <2>2. p.threads \in [Workers -> ThreadType]
    BY <1>1 DEF PoolType
  <2>. QED
    BY <2>1, <2>2 DEF ThreadType
<1>5. inflight \in [Workers -> Calls \union {NoCall}]
      /\ \A v \in Workers : inflight[v] = IF v = w THEN NoCall ELSE p.inflight[v]
  BY <1>1 DEF PoolType
<1>. HIDE DEF c, threads, heard, inflight, free, idled, kept
<1>6. /\ heard.threads = threads /\ heard.pending = p.pending /\ heard.idle = p.idle
      /\ heard.queue = p.queue /\ heard.workers = p.workers /\ heard.inflight = p.inflight
      /\ heard.totalCrashes = p.totalCrashes /\ heard.faults = p.faults
      /\ heard.destroyed = p.destroyed /\ heard.answer = p.answer /\ heard \in PoolType
  BY <1>1, <1>4 DEF PoolType, heard
<1>7. /\ free.threads = threads /\ free.pending = p.pending /\ free.idle = p.idle
      /\ free.queue = p.queue /\ free.workers = p.workers /\ free.inflight = inflight
      /\ free.totalCrashes = p.totalCrashes /\ free.faults = p.faults
      /\ free.destroyed = p.destroyed /\ free.answer = p.answer /\ free \in PoolType
  <2>1. free = [heard EXCEPT !.inflight = inflight]
    BY DEF free
  <2>2. /\ free.threads = heard.threads /\ free.pending = heard.pending /\ free.idle = heard.idle
        /\ free.queue = heard.queue /\ free.workers = heard.workers /\ free.inflight = inflight
        /\ free.totalCrashes = heard.totalCrashes /\ free.faults = heard.faults
        /\ free.destroyed = heard.destroyed /\ free.answer = heard.answer /\ free \in PoolType
    BY <1>5, <1>6, <2>1 DEF PoolType
  <2>. QED
    BY <1>6, <2>2
<1>8. CASE p.inflight[w] # c
  <2>1. q = heard
    BY <1>2, <1>8, Zenon
  <2>2. Sound(heard)
    <3>1. WorkersPlaced(heard) /\ OnePlace(heard)
      BY <1>1, <1>6 DEF Sound, WorkersPlaced, OnePlace, Busy
    <3>2. ThreadsPlaced(heard)
      BY <1>1, <1>4, <1>6 DEF Sound, ThreadsPlaced
    <3>3. Charged(heard)
      <4>1. Dying(heard) = Dying(p)
        BY <1>4, <1>6 DEF Dying
      <4>. QED
        BY <1>1, <1>6, <4>1 DEF Sound, Charged
    <3>. QED
      BY <1>6, <3>1, <3>2, <3>3 DEF Sound
  <2>3. Held(heard)
    BY <1>1, <1>6 DEF Held, InPool
  <2>. QED
    BY <1>1, <1>6, <2>1, <2>2, <2>3 DEF AtEase, NoneStranded, Handled, Answered
<1>9. CASE p.inflight[w] = c
  <2>1. PICK g \in kept : q \in Drained(Settled(g, {c}, a))
    <3>1. q \in UNION {Drained(Settled(g, {c}, a)) : g \in kept}
      BY <1>2, <1>9, Zenon
    <3>. QED
      BY <3>1, Zenon
  <2>2. w \in Busy(p) /\ w \in p.workers /\ w \notin ToSet(p.idle) /\ w \notin p.pending
    BY <1>1, <1>3, <1>9, PoolAssumption DEF Sound, WorkersPlaced, Busy
  <2>3. ~p.destroyed
    BY <2>2, InService
  <2>4. ~p.threads[w].loads
    BY <1>1, <2>2 DEF Sound, ThreadsPlaced
  <2>5. /\ Sound(g) /\ g.answer = p.answer /\ g.destroyed = p.destroyed
        /\ \A d \in Calls : InPool(g, d) <=> InPool(p, d) /\ d # c
    <3>1. CASE p.parseCounts[w] >= RecycleInterval
      <4>. DEFINE r == Retired(free, {w})
      <4>1. g \in SpawnOne(r)
        BY <2>1, <3>1 DEF kept
      <4>2. {w} \in SUBSET Workers
        OBVIOUS
      <4>3. /\ r \in PoolType
            /\ r.workers = free.workers \ {w} /\ r.pending = free.pending \ {w}
            /\ r.idle = AtPositions(free.idle, {i \in DOMAIN free.idle : free.idle[i] \notin {w}})
            /\ r.inflight = free.inflight
            /\ r.threads = [v \in Workers |-> IF v \in {w} THEN NoThread ELSE free.threads[v]]
            /\ r.queue = free.queue /\ r.faults = free.faults
            /\ r.totalCrashes = free.totalCrashes
            /\ r.answer = free.answer /\ r.destroyed = free.destroyed
        BY <1>7, <4>2, RetiredFields, Zenon
      <4>. HIDE DEF r
      <4>4. r.threads = [v \in Workers |-> IF v \in {w} THEN NoThread ELSE p.threads[v]]
        BY <1>4, <1>7, <4>3
      <4>5. LeftBy(p, r, {w})
        BY <1>5, <1>7, <4>3, <4>4 DEF LeftBy
      <4>6. r.totalCrashes + Cardinality(Dying(r)) <= p.totalCrashes + Cardinality(Dying(p))
        <5>1. Dying(r) \subseteq Dying(p)
          BY <4>4 DEF Dying, NoThread
        <5>2. Cardinality(Dying(r)) <= Cardinality(Dying(p)) /\ Cardinality(Dying(r)) \in Nat
          BY <1>1, <4>3, <5>1, DyingFewer
        <5>3. Cardinality(Dying(p)) \in Nat /\ p.totalCrashes \in Nat /\ r.totalCrashes = p.totalCrashes
          BY <1>1, <1>7, <4>3, WorkersFinite DEF Dying, PoolType
        <5>. QED
          BY <5>2, <5>3
      <4>7. Sound(r)
        BY <1>1, <4>2, <4>3, <4>5, <4>6, LeftBySound, Zenon
      <4>8. \A d \in Calls : InPool(r, d) <=> InPool(p, d) /\ \A v \in {w} : p.inflight[v] # d
        BY <1>1, <4>2, <4>3, <4>5, <4>6, LeftBySound
      <4>9. Sound(g) /\ MoreWorkers(r, g)
        BY <4>1, <4>7, SpawnOneSound, Zenon
      <4>10. \A d \in Calls : InPool(g, d) <=> InPool(r, d)
        BY <4>9 DEF MoreWorkers, InPool
      <4>11. g.answer = p.answer /\ g.destroyed = p.destroyed
        BY <1>7, <4>3, <4>9 DEF MoreWorkers
      <4>. QED
        BY <1>9, <4>8, <4>9, <4>10, <4>11
    <3>2. CASE ~(p.parseCounts[w] >= RecycleInterval)
      <4>1. g = idled
        BY <2>1, <3>2 DEF kept
      <4>2. idled = [free EXCEPT !.idle = Append(p.idle, w)]
        BY <1>7 DEF idled
      <4>3. Append(p.idle, w) \in Seq(Workers)
        BY <1>1, AppendProperties DEF PoolType
      <4>4. /\ g.idle = Append(p.idle, w) /\ g \in PoolType
            /\ g.threads = free.threads /\ g.pending = free.pending
            /\ g.queue = free.queue /\ g.workers = free.workers /\ g.inflight = free.inflight
            /\ g.totalCrashes = free.totalCrashes /\ g.faults = free.faults
            /\ g.destroyed = free.destroyed /\ g.answer = free.answer
        BY <1>7, <4>1, <4>2, <4>3 DEF PoolType
      <4>5. CameFree(p, g, w)
        <5>1. \A v \in Workers : g.threads[v].loads => p.threads[v].loads /\ v # w
          BY <1>4, <1>7, <2>4, <4>4
        <5>2. p.pending = p.pending \ {w}
          BY <2>2
        <5>. QED
          BY <1>4, <1>5, <1>7, <4>4, <5>1, <5>2 DEF CameFree
      <4>6. Sound(g)
        BY <1>1, <2>2, <4>4, <4>5, CameFreeSound, Zenon
      <4>7. \A d \in Calls : InPool(g, d) <=> InPool(p, d) /\ p.inflight[w] # d
        BY <1>1, <2>2, <4>4, <4>5, CameFreeSound
      <4>. QED
        BY <1>7, <1>9, <4>4, <4>6, <4>7
    <3>. QED
      BY <3>1, <3>2
  <2>. DEFINE s == Settled(g, {c}, a)
  <2>6. a \in Verdicts /\ a \in Results \union Rejections
    BY DEF Verdicts
  <2>7. Sound(s) /\ s.destroyed = g.destroyed
    BY <2>5, <2>6, SettledFacts, Zenon
  <2>8. \A d \in Calls : s.answer[d] = IF d \in {c} /\ g.answer[d] = "waiting" THEN a ELSE g.answer[d]
    BY <2>5, <2>6, SettledFacts
  <2>9. \A d \in Calls : InPool(s, d) <=> InPool(g, d)
    BY <2>5, <2>6, SettledFacts, Zenon
  <2>. HIDE DEF s
  <2>10. \A d \in Calls : s.answer[d] = IF d = c /\ p.answer[d] = "waiting" THEN a ELSE p.answer[d]
    BY <2>5, <2>8
  <2>11. \A d \in Calls : InPool(s, d) <=> InPool(p, d) /\ d # c
    BY <2>5, <2>9
  <2>12. ~s.destroyed /\ q \in Drained(s)
    BY <2>1, <2>3, <2>5, <2>7 DEF s
  <2>. QED
    BY <2>3, <2>6, <2>7, <2>10, <2>11, <2>12, AnsweredAndDrained
<1>. QED
  BY <1>8, <1>9

\* After a worker went, with or without a call, one is started and the queue is drained.
LEMMA ReplacedAtEase ==
  ASSUME NEW p, AtEase(p), ~p.destroyed, NEW w \in Workers, NEW gone \in PoolType,
         LeftBy(p, gone, {w}), gone.answer = p.answer, gone.destroyed = p.destroyed,
         gone.totalCrashes + Cardinality(Dying(gone)) <= p.totalCrashes + Cardinality(Dying(p)),
         NEW a \in Rejections,
         NEW s \in SpawnOne(Settled(gone, {p.inflight[w]}, a)), NEW q \in Drained(s)
  PROVE  Handled(p, q)
<1>. DEFINE c == p.inflight[w]
            t == Settled(gone, {c}, a)
<1>1. p \in PoolType /\ Sound(p) /\ Held(p) /\ {w} \in SUBSET Workers /\ a \in Verdicts
  BY DEF AtEase, Sound, Verdicts
<1>2. Sound(gone)
  BY <1>1, LeftBySound, Zenon
<1>3. \A d \in Calls : InPool(gone, d) <=> InPool(p, d) /\ \A v \in {w} : p.inflight[v] # d
  BY <1>1, LeftBySound
<1>4. Sound(t) /\ t.destroyed = gone.destroyed
  BY <1>1, <1>2, SettledFacts, Zenon
<1>5. \A d \in Calls : t.answer[d] = IF d \in {c} /\ gone.answer[d] = "waiting" THEN a ELSE gone.answer[d]
  BY <1>1, <1>2, SettledFacts
<1>6. \A d \in Calls : InPool(t, d) <=> InPool(gone, d)
  BY <1>1, <1>2, SettledFacts
<1>7. Sound(s) /\ MoreWorkers(t, s)
  BY <1>4, SpawnOneSound, Zenon
<1>. HIDE DEF t
<1>8. \A d \in Calls : s.answer[d] = IF d = c /\ p.answer[d] = "waiting" THEN a ELSE p.answer[d]
  BY <1>5, <1>7 DEF MoreWorkers
<1>9. \A d \in Calls : InPool(s, d) <=> InPool(p, d) /\ d # c
  <2>1. \A d \in Calls : InPool(s, d) <=> InPool(t, d)
    BY <1>7 DEF MoreWorkers, InPool
  <2>. QED
    BY <1>3, <1>6, <2>1
<1>10. ~s.destroyed
  BY <1>4, <1>7 DEF MoreWorkers
<1>11. a \in Results \union Rejections
  OBVIOUS
<1>. HIDE DEF c
<1>. QED
  BY <1>7, <1>8, <1>9, <1>10, <1>11, AnsweredAndDrained

LEMMA WorkerGoneAtEase ==
  ASSUME NEW p, AtEase(p), NEW w \in Workers, p.threads[w].dies # <<>>,
         NEW q \in WorkerGone(p, w)
  PROVE  Handled(p, q)
<1>. DEFINE events == p.threads[w].dies
            r == Removed(p, {w})
            threads == [p.threads EXCEPT ![w] = NoThread]
            inflight == [p.inflight EXCEPT ![w] = NoCall]
            late == p.late + Len(events) - 1
            gone == [r EXCEPT !.threads = threads, !.late = late,
                              !.totalCrashes = p.totalCrashes + 1, !.inflight = inflight]
            why == IF Head(events) = "error" THEN "workerError" ELSE "workerExited"
<1>1. w \in p.workers
  BY DEF AtEase, Sound, ThreadsPlaced
<1>2. p \in PoolType /\ Sound(p) /\ Held(p) /\ ~p.destroyed /\ {w} \in SUBSET Workers
  BY <1>1, InService
<1>3. /\ r \in PoolType
      /\ r.workers = p.workers \ {w} /\ r.pending = p.pending \ {w}
      /\ r.idle = AtPositions(p.idle, {i \in DOMAIN p.idle : p.idle[i] \notin {w}})
      /\ r.inflight = p.inflight /\ r.threads = p.threads
      /\ r.queue = p.queue /\ r.faults = p.faults
      /\ r.totalCrashes = p.totalCrashes /\ r.late = p.late
      /\ r.answer = p.answer /\ r.destroyed = p.destroyed
  BY <1>2, RemovedFields, Zenon
<1>4. WorkerGone(p, w) = UNION {Drained(s) : s \in SpawnOne(Settled(gone, {p.inflight[w]}, why))}
  BY <1>3 DEF WorkerGone
<1>5. PICK s \in SpawnOne(Settled(gone, {p.inflight[w]}, why)) : q \in Drained(s)
  <2>1. q \in UNION {Drained(s) : s \in SpawnOne(Settled(gone, {p.inflight[w]}, why))}
    BY <1>4, Zenon
  <2>. QED
    BY <2>1, Zenon
<1>6. why \in Rejections
  BY DEF Rejections
<1>7. NoThread \in ThreadType /\ NoThread.dies = <<>>
  BY DEF NoThread, ThreadType
<1>8. /\ threads \in [Workers -> ThreadType]
      /\ threads = [v \in Workers |-> IF v \in {w} THEN NoThread ELSE p.threads[v]]
  BY <1>2, <1>7 DEF PoolType
<1>9. /\ inflight \in [Workers -> Calls \union {NoCall}]
      /\ \A v \in Workers : inflight[v] = IF v \in {w} THEN NoCall ELSE p.inflight[v]
  BY <1>2 DEF PoolType
<1>10. late \in Int /\ p.totalCrashes \in Nat /\ p.totalCrashes + 1 \in Nat
  <2>1. p.threads[w] \in ThreadType /\ p.late \in Int /\ p.totalCrashes \in Nat
    BY <1>2 DEF PoolType
  <2>2. Len(events) \in Nat
    BY <2>1 DEF ThreadType
  <2>. QED
    BY <2>1, <2>2, SMTT(20)
<1>. HIDE DEF r, threads, inflight, late, gone, why
<1>11. /\ gone.threads = threads /\ gone.totalCrashes = p.totalCrashes + 1 /\ gone.inflight = inflight
       /\ gone.workers = r.workers /\ gone.pending = r.pending /\ gone.idle = r.idle
       /\ gone.queue = r.queue /\ gone.faults = r.faults /\ gone.answer = r.answer
       /\ gone.destroyed = r.destroyed /\ gone \in PoolType
  BY <1>3, <1>8, <1>9, <1>10 DEF gone, PoolType
<1>12. LeftBy(p, gone, {w})
  BY <1>3, <1>8, <1>9, <1>11 DEF LeftBy
<1>13. gone.totalCrashes + Cardinality(Dying(gone)) <= p.totalCrashes + Cardinality(Dying(p))
  <2>1. Dying(gone) = Dying(p) \ {w} /\ w \in Dying(p)
    BY <1>7, <1>8, <1>11 DEF Dying
  <2>2. IsFiniteSet(Dying(p)) /\ Cardinality(Dying(p)) \in Nat
    BY WorkersFinite DEF Dying
  <2>3. Cardinality(Dying(gone)) = Cardinality(Dying(p)) - 1
    BY <2>1, <2>2, FS_RemoveElement
  <2>4. gone.totalCrashes = p.totalCrashes + 1
    BY <1>11
  <2>. QED
    BY <1>10, <2>2, <2>3, <2>4
<1>14. gone.answer = p.answer /\ gone.destroyed = p.destroyed
  BY <1>3, <1>11
<1>. QED
  BY <1>2, <1>5, <1>6, <1>11, <1>12, <1>13, <1>14, ReplacedAtEase

LEMMA TimedOutAtEase ==
  ASSUME NEW p, AtEase(p), NEW w \in p.workers, NEW q \in TimedOut(p, w)
  PROVE  Handled(p, q)
<1>. DEFINE r == Retired(p, {w})
            inflight == [p.inflight EXCEPT ![w] = NoCall]
            gone == [r EXCEPT !.inflight = inflight]
<1>1. p \in PoolType /\ Sound(p) /\ Held(p) /\ ~p.destroyed /\ {w} \in SUBSET Workers /\ w \in Workers
  BY InService
<1>2. /\ r \in PoolType
      /\ r.workers = p.workers \ {w} /\ r.pending = p.pending \ {w}
      /\ r.idle = AtPositions(p.idle, {i \in DOMAIN p.idle : p.idle[i] \notin {w}})
      /\ r.inflight = p.inflight
      /\ r.threads = [v \in Workers |-> IF v \in {w} THEN NoThread ELSE p.threads[v]]
      /\ r.queue = p.queue /\ r.faults = p.faults /\ r.totalCrashes = p.totalCrashes
      /\ r.answer = p.answer /\ r.destroyed = p.destroyed
  BY <1>1, RetiredFields, Zenon
<1>3. TimedOut(p, w) = UNION {Drained(s) : s \in SpawnOne(Settled(gone, {p.inflight[w]}, "timedOut"))}
  BY <1>2 DEF TimedOut
<1>4. PICK s \in SpawnOne(Settled(gone, {p.inflight[w]}, "timedOut")) : q \in Drained(s)
  <2>1. q \in UNION {Drained(s) : s \in SpawnOne(Settled(gone, {p.inflight[w]}, "timedOut"))}
    BY <1>3, Zenon
  <2>. QED
    BY <2>1, Zenon
<1>5. "timedOut" \in Rejections
  BY DEF Rejections
<1>6. /\ inflight \in [Workers -> Calls \union {NoCall}]
      /\ \A v \in Workers : inflight[v] = IF v \in {w} THEN NoCall ELSE p.inflight[v]
  BY <1>1 DEF PoolType
<1>. HIDE DEF r, inflight, gone
<1>7. /\ gone.threads = r.threads /\ gone.totalCrashes = r.totalCrashes /\ gone.inflight = inflight
      /\ gone.workers = r.workers /\ gone.pending = r.pending /\ gone.idle = r.idle
      /\ gone.queue = r.queue /\ gone.faults = r.faults /\ gone.answer = r.answer
      /\ gone.destroyed = r.destroyed /\ gone \in PoolType
  BY <1>2, <1>6 DEF gone, PoolType
<1>8. LeftBy(p, gone, {w})
  BY <1>2, <1>6, <1>7 DEF LeftBy
<1>9. gone.totalCrashes + Cardinality(Dying(gone)) <= p.totalCrashes + Cardinality(Dying(p))
  <2>1. Dying(gone) \subseteq Dying(p)
    BY <1>2, <1>7 DEF Dying, NoThread
  <2>2. Cardinality(Dying(gone)) <= Cardinality(Dying(p)) /\ Cardinality(Dying(gone)) \in Nat
    BY <1>1, <1>7, <2>1, DyingFewer
  <2>3. Cardinality(Dying(p)) \in Nat /\ p.totalCrashes \in Nat /\ gone.totalCrashes = p.totalCrashes
    BY <1>1, <1>2, <1>7, WorkersFinite DEF Dying, PoolType
  <2>. QED
    BY <2>2, <2>3
<1>10. gone.answer = p.answer /\ gone.destroyed = p.destroyed
  BY <1>2, <1>7
<1>. QED
  BY <1>1, <1>4, <1>5, <1>7, <1>8, <1>9, <1>10, ReplacedAtEase

LEMMA AlreadyHandledAtEase ==
  ASSUME NEW p, AtEase(p), NEW q, q = AlreadyHandled(p)
  PROVE  Handled(p, q)
<1>1. p \in PoolType /\ Sound(p) /\ Held(p)
  BY DEF AtEase, Sound
<1>2. p.late - 1 \in Int
  BY <1>1 DEF PoolType
<1>3. /\ q.queue = p.queue /\ q.idle = p.idle /\ q.pending = p.pending /\ q.workers = p.workers
      /\ q.inflight = p.inflight /\ q.totalCrashes = p.totalCrashes /\ q.faults = p.faults
      /\ q.destroyed = p.destroyed /\ q.threads = p.threads /\ q.answer = p.answer /\ q \in PoolType
  BY <1>1, <1>2 DEF AlreadyHandled, PoolType
<1>4. WorkersPlaced(q) /\ OnePlace(q)
  BY <1>1, <1>3 DEF Sound, WorkersPlaced, OnePlace, Busy
<1>5. ThreadsPlaced(q) /\ Charged(q)
  BY <1>1, <1>3 DEF Sound, ThreadsPlaced, Charged, Dying
<1>6. Held(q)
  BY <1>1, <1>3 DEF Held, InPool
<1>. QED
  BY <1>3, <1>4, <1>5, <1>6 DEF AtEase, Sound, NoneStranded, Handled, Answered

LEMMA DiedAtEase ==
  ASSUME NEW p, AtEase(p), NEW w \in p.workers, p.threads[w].dies = <<>>,
         NEW events \in {<<"exit">>, <<"error", "exit">>}, NEW q, q = Died(p, w, events)
  PROVE  Handled(p, q)
<1>. DEFINE threads == [p.threads EXCEPT ![w].dies = events]
<1>1. p \in PoolType /\ Sound(p) /\ Held(p) /\ w \in Workers
  BY InService
<1>2. /\ threads \in [Workers -> ThreadType] /\ threads[w].dies = events
      /\ \A v \in Workers : threads[v].loads = p.threads[v].loads
      /\ \A v \in Workers : v # w => threads[v].dies = p.threads[v].dies
  <2>1. \A v \in Workers : p.threads[v] \in ThreadType
    BY <1>1 DEF PoolType
  <2>2. p.threads \in [Workers -> ThreadType]
    BY <1>1 DEF PoolType
  <2>. QED
    BY <1>1, <2>1, <2>2 DEF ThreadType
<1>3. q = [p EXCEPT !.threads = threads, !.faults = p.faults + 1]
  BY DEF Died
<1>4. p.faults + 1 \in Nat /\ p.faults \in Nat
  BY <1>1 DEF PoolType
<1>. HIDE DEF threads
<1>5. /\ q.queue = p.queue /\ q.idle = p.idle /\ q.pending = p.pending /\ q.workers = p.workers
      /\ q.inflight = p.inflight /\ q.totalCrashes = p.totalCrashes /\ q.faults = p.faults + 1
      /\ q.destroyed = p.destroyed /\ q.threads = threads /\ q.answer = p.answer /\ q \in PoolType
  BY <1>1, <1>2, <1>3, <1>4 DEF PoolType
<1>6. WorkersPlaced(q) /\ OnePlace(q)
  BY <1>1, <1>5 DEF Sound, WorkersPlaced, OnePlace, Busy
<1>7. ThreadsPlaced(q)
  <2>1. \A v \in Workers : q.threads[v].loads => v \in q.pending
    BY <1>1, <1>2, <1>5 DEF Sound, ThreadsPlaced
  <2>2. \A v \in Workers : q.threads[v].dies # <<>> => v \in q.workers
    BY <1>1, <1>2, <1>5 DEF Sound, ThreadsPlaced
  <2>. QED
    BY <2>1, <2>2 DEF ThreadsPlaced
<1>8. Charged(q)
  <2>1. events # <<>>
    OBVIOUS
  <2>2. Dying(q) = Dying(p) \union {w} /\ w \notin Dying(p)
    BY <1>1, <1>2, <1>5, <2>1 DEF Dying
  <2>3. IsFiniteSet(Dying(p)) /\ Cardinality(Dying(p)) \in Nat
    BY WorkersFinite DEF Dying
  <2>4. Cardinality(Dying(q)) = Cardinality(Dying(p)) + 1
    BY <2>2, <2>3, FS_AddElement
  <2>5. p.totalCrashes \in Nat /\ p.totalCrashes + Cardinality(Dying(p)) <= p.faults
    BY <1>1 DEF Sound, Charged, PoolType
  <2>. QED
    BY <1>4, <1>5, <2>3, <2>4, <2>5 DEF Charged
<1>9. Held(q)
  BY <1>1, <1>5 DEF Held, InPool
<1>. QED
  BY <1>5, <1>6, <1>7, <1>8, <1>9 DEF AtEase, Sound, NoneStranded, Handled, Answered

\* recycleAll(), called when nothing waits in the queue.
LEMMA RecycledAllAtEase ==
  ASSUME NEW p, AtEase(p), p.queue = <<>>, NEW q \in RecycledAll(p)
  PROVE  AtEase(q) /\ q.destroyed = p.destroyed /\ q.answer = p.answer
<1>. DEFINE old == ToSet(p.idle)
            n == Cardinality(old)
            gone == Retired(p, old)
            left == CrashBudget - p.totalCrashes
<1>1. p \in PoolType /\ Sound(p) /\ Held(p) /\ old \in SUBSET Workers
  BY ToSetFacts DEF AtEase, Sound, PoolType
<1>2. IF ~Healthy(p) THEN q = gone
      ELSE \/ \E k \in 0..Min({n, left}) : q = Spawned(gone, n - k, k)
           \/ \E s \in {s \in 0..n : s + left < n} : q = Spawned(gone, s, left)
  BY DEF RecycledAll
<1>3. /\ gone \in PoolType
      /\ gone.workers = p.workers \ old /\ gone.pending = p.pending \ old
      /\ gone.idle = AtPositions(p.idle, {i \in DOMAIN p.idle : p.idle[i] \notin old})
      /\ gone.inflight = p.inflight
      /\ gone.threads = [w \in Workers |-> IF w \in old THEN NoThread ELSE p.threads[w]]
      /\ gone.queue = p.queue /\ gone.faults = p.faults /\ gone.totalCrashes = p.totalCrashes
      /\ gone.answer = p.answer /\ gone.destroyed = p.destroyed
  BY <1>1, RetiredFields, Zenon
<1>4. \A w \in Workers : w \in old => p.inflight[w] = NoCall
  BY <1>1 DEF Sound, WorkersPlaced, Busy
<1>5. n \in Nat
  BY <1>1, WorkersFinite
<1>. HIDE DEF old, n, gone
<1>6. LeftBy(p, gone, old)
  BY <1>3, <1>4 DEF LeftBy
<1>7. gone.totalCrashes + Cardinality(Dying(gone)) <= p.totalCrashes + Cardinality(Dying(p))
  <2>1. Dying(gone) \subseteq Dying(p)
    BY <1>3 DEF Dying, NoThread
  <2>2. Cardinality(Dying(gone)) <= Cardinality(Dying(p)) /\ Cardinality(Dying(gone)) \in Nat
    BY <1>1, <1>3, <2>1, DyingFewer
  <2>3. Cardinality(Dying(p)) \in Nat /\ p.totalCrashes \in Nat /\ gone.totalCrashes = p.totalCrashes
    BY <1>1, <1>3, WorkersFinite DEF Dying, PoolType
  <2>. QED
    BY <2>2, <2>3
<1>8. Sound(gone)
  BY <1>1, <1>3, <1>6, <1>7, LeftBySound, Zenon
<1>9. \A c \in Calls : InPool(gone, c) <=> InPool(p, c) /\ \A w \in old : p.inflight[w] # c
  BY <1>1, <1>3, <1>6, <1>7, LeftBySound
<1>10. \A c \in Calls : InPool(gone, c) <=> InPool(p, c)
  BY <1>1, <1>4, <1>9, PoolAssumption
<1>11. q = gone \/ \E s, throws : throws \in Nat /\ q = Spawned(gone, s, throws)
  <2>1. CASE ~Healthy(p)
    BY <1>2, <2>1
  <2>2. CASE Healthy(p)
    <3>1. left \in Nat
      BY <1>1, <2>2, BudgetLeft
    <3>. HIDE DEF left
    <3>2. Min({n, left}) \in Nat
      <4>1. \E m \in {n, left} : \A x \in {n, left} : m <= x
        BY <1>5, <3>1
      <4>2. Min({n, left}) \in {n, left}
        BY <4>1 DEF Min
      <4>. QED
        BY <1>5, <3>1, <4>2
    <3>3. \A k \in 0..Min({n, left}) : k \in Nat
      BY <3>2
    <3>. QED
      BY <1>2, <2>2, <3>1, <3>3
  <2>. QED
    BY <2>1, <2>2
<1>12. Sound(q) /\ MoreWorkers(gone, q)
  BY <1>8, <1>11, SpawnedSound DEF MoreWorkers
<1>13. q.queue = <<>> /\ q.answer = p.answer /\ q.destroyed = p.destroyed /\ q.inflight = gone.inflight
  BY <1>3, <1>12 DEF MoreWorkers
<1>14. Held(q)
  <2>1. \A c \in Calls : InPool(q, c) <=> InPool(gone, c)
    BY <1>12 DEF MoreWorkers, InPool
  <2>. QED
    BY <1>1, <1>10, <1>13, <2>1 DEF Held
<1>15. q.destroyed => q.workers = {}
  <2>1. ASSUME q.destroyed PROVE q = gone
    <3>1. ~Healthy(p)
      BY <1>13, <2>1 DEF Healthy
    <3>. QED
      BY <1>2, <3>1
  <2>2. p.destroyed => p.workers = {}
    BY DEF AtEase
  <2>. QED
    BY <1>3, <1>13, <2>1, <2>2
<1>. QED
  BY <1>12, <1>13, <1>14, <1>15 DEF AtEase, NoneStranded

\* destroy() tells all that wait.
LEMMA DestroyedAtEase ==
  ASSUME NEW p, AtEase(p), NEW q, q = Destroyed(p)
  PROVE  /\ AtEase(q) /\ q.destroyed
         /\ \A c \in Calls : q.answer[c] = IF p.answer[c] = "waiting" THEN "shutdown" ELSE p.answer[c]
<1>. DEFINE C == ToSet(p.queue) \union {p.inflight[w] : w \in Busy(p)}
            s == Settled(p, C, "shutdown")
<1>1. p \in PoolType /\ Sound(p) /\ Held(p) /\ p.queue \in Seq(Calls)
  BY DEF AtEase, Sound, PoolType
<1>2. "shutdown" \in Verdicts
  BY DEF Verdicts
<1>3. Sound(s)
  BY <1>1, <1>2, SettledFacts, Zenon
<1>4. \A c \in Calls : s.answer[c] = IF c \in C /\ p.answer[c] = "waiting" THEN "shutdown" ELSE p.answer[c]
  BY <1>1, <1>2, SettledFacts
<1>5. \A c \in Calls : p.answer[c] = "waiting" => c \in C
  <2>. SUFFICES ASSUME NEW c \in Calls, p.answer[c] = "waiting" PROVE c \in C
    OBVIOUS
  <2>1. InPool(p, c) /\ c # NoCall
    BY <1>1, PoolAssumption DEF Held
  <2>2. CASE \E k \in 1..Len(p.queue) : p.queue[k] = c
    <3>1. c \in ToSet(p.queue)
      BY <1>1, <2>2, ToSetFacts
    <3>. QED
      BY <3>1
  <2>3. CASE \E w \in Workers : p.inflight[w] = c
    BY <2>1, <2>3 DEF Busy
  <2>. QED
    BY <2>1, <2>2, <2>3 DEF InPool
<1>6. q = [s EXCEPT !.destroyed = TRUE, !.workers = {}, !.pending = {}, !.idle = <<>>, !.queue = <<>>,
                    !.inflight = [w \in Workers |-> NoCall], !.parseCounts = [w \in Workers |-> 0],
                    !.late = 0, !.threads = [w \in Workers |-> NoThread]]
  BY DEF Destroyed
<1>. HIDE DEF C, s
<1>7. NoThread \in ThreadType /\ NoThread.dies = <<>> /\ NoThread.loads = FALSE
  BY DEF NoThread, ThreadType
<1>8. /\ [w \in Workers |-> NoThread] \in [Workers -> ThreadType]
      /\ [w \in Workers |-> NoCall] \in [Workers -> Calls \union {NoCall}]
      /\ [w \in Workers |-> 0] \in [Workers -> Nat] /\ <<>> \in Seq(Calls) /\ <<>> \in Seq(Workers)
  BY <1>7
<1>9. s \in PoolType
  BY <1>3 DEF Sound
<1>10. /\ q.destroyed = TRUE /\ q.workers = {} /\ q.pending = {} /\ q.idle = <<>> /\ q.queue = <<>>
       /\ q.inflight = [w \in Workers |-> NoCall] /\ q.threads = [w \in Workers |-> NoThread]
       /\ q.totalCrashes = s.totalCrashes /\ q.faults = s.faults /\ q.answer = s.answer
  BY <1>6, <1>9 DEF PoolType
<1>11. q \in PoolType
  <2>. DEFINE inflight == [w \in Workers |-> NoCall]
              parseCounts == [w \in Workers |-> 0]
              threads == [w \in Workers |-> NoThread]
  <2>1. q = [s EXCEPT !.destroyed = TRUE, !.workers = {}, !.pending = {}, !.idle = <<>>, !.queue = <<>>,
                      !.inflight = inflight, !.parseCounts = parseCounts, !.late = 0, !.threads = threads]
    BY <1>6
  <2>2. /\ threads \in [Workers -> ThreadType] /\ inflight \in [Workers -> Calls \union {NoCall}]
        /\ parseCounts \in [Workers -> Nat]
    BY <1>8
  <2>. HIDE DEF inflight, parseCounts, threads
  <2>3. q = [queue |-> <<>>, idle |-> <<>>, pending |-> {}, workers |-> {}, inflight |-> inflight,
             parseCounts |-> parseCounts, totalCrashes |-> s.totalCrashes, faults |-> s.faults,
             destroyed |-> TRUE, late |-> 0, answer |-> s.answer, threads |-> threads]
    BY <1>9, <2>1, ZenonT(30) DEF PoolType
  <2>4. s.totalCrashes \in Nat /\ s.faults \in Nat /\ s.answer \in [Calls -> Verdicts]
    BY <1>9 DEF PoolType
  <2>. QED
    BY <1>8, <2>2, <2>3, <2>4 DEF PoolType
<1>12. Busy(q) = {} /\ ToSet(q.idle) = {} /\ Dying(q) = {} /\ Len(q.idle) = 0 /\ Len(q.queue) = 0
  <2>1. ToSet(<<>>) = {}
    BY DEF ToSet
  <2>. QED
    BY <1>7, <1>10, <2>1 DEF Busy, Dying
<1>13. WorkersPlaced(q)
  BY <1>10, <1>12 DEF WorkersPlaced
<1>14. OnePlace(q)
  BY <1>10, <1>12 DEF OnePlace
<1>15. ThreadsPlaced(q)
  BY <1>7, <1>10 DEF ThreadsPlaced
<1>16. Charged(q)
  <2>1. s.totalCrashes \in Nat /\ s.faults \in Nat /\ s.totalCrashes + Cardinality(Dying(s)) <= s.faults
    BY <1>3 DEF Sound, Charged, PoolType
  <2>2. Cardinality(Dying(s)) \in Nat /\ Cardinality(Dying(q)) = 0
    BY <1>12, WorkersFinite, FS_EmptySet DEF Dying
  <2>. QED
    BY <1>10, <2>1, <2>2 DEF Charged
<1>17. \A c \in Calls : q.answer[c] = IF p.answer[c] = "waiting" THEN "shutdown" ELSE p.answer[c]
  BY <1>4, <1>5, <1>10
<1>18. Held(q)
  <2>1. \A c \in Calls : ~InPool(q, c)
    BY <1>10, <1>12, PoolAssumption DEF InPool
  <2>. QED
    BY <1>17, <2>1 DEF Held
<1>. QED
  BY <1>10, <1>11, <1>13, <1>14, <1>15, <1>16, <1>17, <1>18 DEF AtEase, Sound, NoneStranded

----------------------------------------------------------------------------
(* What a pool at ease amounts to, in numbers.                             *)

LEMMA CallsCounted ==
  ASSUME NEW p, AtEase(p), NEW c \in Calls, p.answer[c] = "waiting"
  PROVE  Cardinality({i \in DOMAIN p.queue : p.queue[i] = c})
           + Cardinality({w \in Workers : p.inflight[w] = c}) = 1
<1>. DEFINE Q == {i \in DOMAIN p.queue : p.queue[i] = c}
            F == {w \in Workers : p.inflight[w] = c}
<1>1. OnePlace(p) /\ InPool(p, c) /\ c # NoCall /\ DOMAIN p.queue = 1..Len(p.queue)
  BY PoolAssumption, LenProperties DEF AtEase, Sound, Held, PoolType
<1>2. CASE \E k \in 1..Len(p.queue) : p.queue[k] = c
  <2>1. PICK k \in 1..Len(p.queue) : p.queue[k] = c
    BY <1>2
  <2>2. Q = {k} /\ F = {}
    BY <1>1, <2>1 DEF OnePlace
  <2>3. Cardinality(Q) = 1 /\ Cardinality(F) = 0
    BY <2>2, FS_Singleton, FS_EmptySet
  <2>. QED
    BY <2>3
<1>3. CASE \E w \in Workers : p.inflight[w] = c
  <2>1. PICK w \in Workers : p.inflight[w] = c
    BY <1>3
  <2>2. Q = {} /\ F = {w}
    BY <1>1, <2>1 DEF OnePlace
  <2>3. Cardinality(Q) = 0 /\ Cardinality(F) = 1
    BY <2>2, FS_Singleton, FS_EmptySet
  <2>. QED
    BY <2>3
<1>. QED
  BY <1>1, <1>2, <1>3 DEF InPool

LEMMA WorkersCounted ==
  ASSUME NEW p, AtEase(p)
  PROVE  /\ Cardinality(p.workers)
              = Cardinality(p.pending) + Len(p.idle) + Cardinality(Busy(p))
         /\ Cardinality(p.workers) <= MaxSize
<1>. DEFINE I == ToSet(p.idle)
            B == Busy(p)
<1>1. p \in PoolType /\ WorkersPlaced(p) /\ p.idle \in Seq(Workers) /\ Len(p.idle) \in Nat
  BY LenProperties DEF AtEase, Sound, PoolType
<1>2. I \in SUBSET Workers /\ B \in SUBSET Workers /\ p.pending \in SUBSET Workers
      /\ p.workers \in SUBSET Workers
  BY <1>1, ToSetFacts DEF PoolType, Busy
<1>3. /\ IsFiniteSet(I) /\ IsFiniteSet(B) /\ IsFiniteSet(p.pending)
      /\ Cardinality(I) \in Nat /\ Cardinality(B) \in Nat /\ Cardinality(p.pending) \in Nat
  BY <1>2, WorkersFinite
<1>4. Cardinality(I) = Len(p.idle)
  <2>1. \A x : x \in I <=> \E i \in 1..Len(p.idle) : p.idle[i] = x
    BY <1>1, IdleElements, Zenon
  <2>2. \A i, j \in 1..Len(p.idle) : p.idle[i] = p.idle[j] => i = j
    BY <1>1 DEF WorkersPlaced
  <2>3. p.idle \in [1..Len(p.idle) -> I]
    BY <1>1, <2>1, SeqDef, LenProperties
  <2>4. p.idle \in Bijection(1..Len(p.idle), I)
    BY <2>1, <2>2, <2>3 DEF Bijection, Injection, Surjection, IsInjective
  <2>5. ExistsBijection(1..Len(p.idle), I)
    BY <2>4 DEF ExistsBijection
  <2>. QED
    BY <1>1, <2>5, FS_CountingElements
<1>5. p.workers = (p.pending \union I) \union B
  BY <1>1 DEF WorkersPlaced
<1>6. p.pending \intersect I = {} /\ (p.pending \union I) \intersect B = {}
  BY <1>1 DEF WorkersPlaced
<1>. HIDE DEF I, B
<1>7. /\ IsFiniteSet(p.pending \union I)
      /\ Cardinality(p.pending \union I) = Cardinality(p.pending) + Cardinality(I)
  <2>1. Cardinality(p.pending \intersect I) = 0
    BY <1>6, FS_EmptySet
  <2>2. /\ IsFiniteSet(p.pending \union I)
        /\ Cardinality(p.pending \union I) =
             Cardinality(p.pending) + Cardinality(I) - Cardinality(p.pending \intersect I)
    BY <1>3, FS_Union, Zenon
  <2>. QED
    BY <1>3, <2>1, <2>2
<1>8. Cardinality(p.workers) = Cardinality(p.pending \union I) + Cardinality(B)
  <2>1. Cardinality((p.pending \union I) \intersect B) = 0
    BY <1>6, FS_EmptySet
  <2>2. Cardinality(p.workers) = Cardinality(p.pending \union I) + Cardinality(B)
                                   - Cardinality((p.pending \union I) \intersect B)
    BY <1>3, <1>5, <1>7, FS_Union
  <2>. QED
    BY <1>3, <1>7, <2>1, <2>2
<1>9. Cardinality(p.workers) <= MaxSize
  BY <1>2, PoolAssumption, FS_Subset
<1>. QED
  BY <1>3, <1>4, <1>7, <1>8, <1>9 DEF B

LEMMA BudgetCounted ==
  ASSUME NEW p, AtEase(p)
  PROVE  p.totalCrashes <= p.faults
<1>1. p.totalCrashes \in Nat /\ p.faults \in Nat /\ p.totalCrashes + Cardinality(Dying(p)) <= p.faults
  BY DEF AtEase, Sound, Charged, PoolType
<1>2. Cardinality(Dying(p)) \in Nat
  BY WorkersFinite DEF Dying
<1>. QED
  BY <1>1, <1>2

----------------------------------------------------------------------------
(* The full index.                                                         *)

\* A bounded set of integers that is not empty has a greatest element, which Max gives.
LEMMA MaxOfBounded ==
  ASSUME NEW a \in Int, NEW b \in Int, NEW S \in SUBSET (a..b), S # {}
  PROVE  Max(S) \in S /\ \A x \in S : x <= Max(S)
<1>. DEFINE R == OpToRel(<, Nat)
            D == {b - x : x \in S}
<1>1. D \subseteq Nat /\ D # {}
  OBVIOUS
<1>2. IsWellFoundedOn(R, Nat)
  BY NatLessThanWellFounded
<1>3. \A x, y \in Nat : y < x => <<y, x>> \in R
  BY DEF OpToRel
<1>. HIDE DEF R
<1>4. IsWellFoundedOn(R, D)
  BY <1>1, <1>2, IsWellFoundedOnSubset
<1>5. PICK d \in D : \A y \in D : ~(<<y, d>> \in R)
  BY <1>1, <1>4, WFMin
<1>6. PICK m \in S : d = b - m
  BY DEF D
<1>7. \A x \in S : x <= m
  <2>. SUFFICES ASSUME NEW x \in S, ~(x <= m) PROVE FALSE
    OBVIOUS
  <2>1. b - x \in D /\ b - x < d /\ b - x \in Nat /\ d \in Nat
    BY <1>1, <1>6
  <2>. QED
    BY <1>3, <1>5, <2>1
<1>. QED
  BY <1>7 DEF Max

----------------------------------------------------------------------------
(* The invariant.  It says nothing of the pool: what the full index does   *)
(* is right whatever the pool answers, and whenever.                       *)

Entries == [file : Files, retryable : BOOLEAN]
Phases == {"feeding", "retrying", "stripping", "done", "aborted", "threw"}

IndexTypeOK ==
  /\ phase \in Phases /\ aborted \in BOOLEAN
  /\ next \in 1..(NFiles + 1)
  /\ order \in Seq(Files) /\ nextToStore \in 0..Len(order)
  /\ inFlight \subseteq Files /\ completed \subseteq Files
  /\ rows \in [Files -> ParseResults \union {"none"}]
  /\ errors \in Seq(Entries)
  /\ counts \in [indexed : Int, skipped : Int, errored : Int]
  /\ todo \in Seq(Files) /\ failing \in Seq(Files) /\ asked \in Files \union {NoFile}

\* Files are fed in order, and come back between the cursor and the end.
FedInOrder ==
  /\ \A i, j \in DOMAIN order : i < j => order[i] < order[j]
  /\ \A i \in DOMAIN order : order[i] < next
  /\ \A f \in inFlight \union completed : f < next
  /\ inFlight \intersect completed = {}
  /\ Len(order) - nextToStore <= WindowSize
  /\ ~aborted => \A i \in DOMAIN order :
        /\ i <= nextToStore <=> order[i] \notin inFlight \union completed
        /\ i = nextToStore + 1 => order[i] \in inFlight

\* A file that is committed, and one that is fed and is not.
Committed(f) == \E i \in 1..nextToStore : order[i] = f
Uncommitted(f) == \E i \in (nextToStore + 1)..Len(order) : order[i] = f
InErrors(f) == \E i \in DOMAIN errors : errors[i].file = f

\* What is stored, or may be retried, is committed.
OfCommitted ==
  /\ \A f \in Files : rows[f] # "none" => Committed(f)
  /\ \A i \in DOMAIN errors : errors[i].retryable => Committed(errors[i].file)
  /\ \A i \in DOMAIN todo : Committed(todo[i])
  /\ \A i \in DOMAIN failing : Committed(failing[i])
  /\ asked # NoFile => Committed(asked)

\* Every file the loop has passed is stored, on the list of errors or still to be
\* committed, and is counted when it is one of the first two.
Accounted ==
  /\ counts.indexed + counts.skipped + counts.errored = (next - 1) - (Len(order) - nextToStore)
  /\ \A f \in Files : f < next => rows[f] # "none" \/ InErrors(f) \/ Uncommitted(f)
  /\ \A f \in Files : InErrors(f) => f < next /\ ~Uncommitted(f)
  /\ \A i, j \in DOMAIN errors : errors[i].file = errors[j].file => i = j

\* Past the first pass, all of it is committed.
PassEnded ==
  phase \in {"retrying", "stripping", "done"} =>
      next = NFiles + 1 /\ nextToStore = Len(order) /\ inFlight = {}

IndexInv == IndexTypeOK /\ FedInOrder /\ OfCommitted /\ Accounted /\ PassEnded

----------------------------------------------------------------------------
(* The first pass.                                                         *)

LEMMA InitInv == Init => IndexInv
<1>. SUFFICES ASSUME Init PROVE IndexInv
  OBVIOUS
<1>1. NFiles \in Nat /\ WindowSize \in Nat
  BY IndexAssumption
<1>2. IndexTypeOK
  <2>1. next \in 1..(NFiles + 1) /\ nextToStore \in 0..Len(order)
    BY <1>1 DEF Init
  <2>2. rows \in [Files -> ParseResults \union {"none"}]
    BY DEF Init
  <2>3. phase \in Phases /\ aborted \in BOOLEAN
    BY DEF Init, Phases
  <2>4. order \in Seq(Files) /\ errors \in Seq(Entries) /\ todo \in Seq(Files)
        /\ failing \in Seq(Files) /\ asked \in Files \union {NoFile}
    BY EmptySeq DEF Init
  <2>5. counts \in [indexed : Int, skipped : Int, errored : Int]
        /\ inFlight \subseteq Files /\ completed \subseteq Files
    BY DEF Init
  <2>. QED
    BY <2>1, <2>2, <2>3, <2>4, <2>5 DEF IndexTypeOK
<1>3. FedInOrder
  BY <1>1 DEF Init, FedInOrder
<1>4. OfCommitted
  BY DEF Init, OfCommitted, NoFile
<1>5. Accounted
  <2>1. \A f \in Files : ~(f < next) /\ ~InErrors(f)
    BY DEF Init, InErrors, Files
  <2>2. counts.indexed = 0 /\ counts.skipped = 0 /\ counts.errored = 0 /\ next = 1
        /\ Len(order) = 0 /\ nextToStore = 0 /\ DOMAIN errors = {}
    BY DEF Init
  <2>. QED
    BY <2>1, <2>2 DEF Accounted
<1>6. PassEnded
  BY DEF Init, PassEnded
<1>. QED
  BY <1>2, <1>3, <1>4, <1>5, <1>6 DEF IndexInv

\* Nothing but the pool and the abort's signal changes.
LEMMA FrameStep ==
  ASSUME IndexInv, UNCHANGED phase, UNCHANGED firstPass, UNCHANGED outcome, UNCHANGED retries
  PROVE  IndexInv'
<1>1. /\ phase' = phase /\ aborted' = aborted /\ next' = next /\ order' = order
      /\ nextToStore' = nextToStore /\ inFlight' = inFlight /\ completed' = completed
      /\ rows' = rows /\ errors' = errors /\ counts' = counts
      /\ todo' = todo /\ failing' = failing /\ asked' = asked
  BY DEF firstPass, outcome, retries
<1>. QED
  BY <1>1 DEF IndexInv, IndexTypeOK, FedInOrder, OfCommitted, Accounted, PassEnded, Committed,
              Uncommitted, InErrors

LEMMA NoticeStep ==
  ASSUME IndexInv, Notice
  PROVE  IndexInv'
<1>1. /\ aborted' = TRUE /\ phase' = phase /\ next' = next /\ order' = order
      /\ nextToStore' = nextToStore /\ inFlight' = inFlight /\ completed' = completed
      /\ rows' = rows /\ errors' = errors /\ counts' = counts
      /\ todo' = todo /\ failing' = failing /\ asked' = asked
  BY DEF Notice, outcome, retries
<1>. QED
  BY <1>1 DEF IndexInv, IndexTypeOK, FedInOrder, OfCommitted, Accounted, PassEnded, Committed,
              Uncommitted, InErrors

LEMMA PassOverStep ==
  ASSUME IndexInv, PassOver
  PROVE  IndexInv'
<1>0. /\ IndexTypeOK /\ FedInOrder /\ OfCommitted /\ Accounted /\ PassEnded
      /\ phase = "feeding" /\ next <= NFiles
      /\ next' = next + 1 /\ errors' = Append(errors, [file |-> next, retryable |-> FALSE])
      /\ \/ counts' = [counts EXCEPT !.errored = @ + 1]
         \/ counts' = [counts EXCEPT !.skipped = @ + 1]
      /\ phase' = phase /\ aborted' = aborted /\ order' = order
      /\ nextToStore' = nextToStore /\ inFlight' = inFlight /\ completed' = completed
      /\ rows' = rows /\ todo' = todo /\ failing' = failing /\ asked' = asked
  BY DEF IndexInv, PassOver, AtNextFile, retries
<1>1. /\ next \in Files /\ next' \in 1..(NFiles + 1) /\ NFiles \in Nat
      /\ order \in Seq(Files) /\ errors \in Seq(Entries) /\ nextToStore \in 0..Len(order)
      /\ Len(order) \in Nat
  BY <1>0, IndexAssumption, LenProperties, SMTT(20) DEF IndexTypeOK, Files
<1>2. [file |-> next, retryable |-> FALSE] \in Entries
  BY <1>1 DEF Entries
<1>3. /\ errors' \in Seq(Entries) /\ Len(errors') = Len(errors) + 1 /\ Len(errors) \in Nat
      /\ DOMAIN errors' = 1..(Len(errors) + 1) /\ DOMAIN errors = 1..Len(errors)
      /\ \A i \in 1..Len(errors) : errors'[i] = errors[i]
      /\ errors'[Len(errors) + 1].file = next /\ ~errors'[Len(errors) + 1].retryable
  BY <1>0, <1>1, <1>2, AppendProperties, LenProperties
<1>4. /\ counts' \in [indexed : Int, skipped : Int, errored : Int]
      /\ counts'.indexed + counts'.skipped + counts'.errored
           = counts.indexed + counts.skipped + counts.errored + 1
      /\ counts.indexed + counts.skipped + counts.errored \in Int
  <2>1. counts \in [indexed : Int, skipped : Int, errored : Int]
    BY <1>0 DEF IndexTypeOK
  <2>2. CASE counts' = [counts EXCEPT !.errored = @ + 1]
    BY <2>1, <2>2
  <2>3. CASE counts' = [counts EXCEPT !.skipped = @ + 1]
    BY <2>1, <2>3
  <2>. QED
    BY <1>0, <2>2, <2>3
<1>5. IndexTypeOK'
  BY <1>0, <1>1, <1>3, <1>4 DEF IndexTypeOK
<1>6. FedInOrder'
  <2>1. \A i \in DOMAIN order : order[i] \in Int
    BY <1>1, ElementOfSeq DEF Files
  <2>. QED
    BY <1>0, <1>1, <2>1, SMTT(20) DEF FedInOrder, Files, IndexTypeOK
<1>7. OfCommitted'
  BY <1>0, <1>3 DEF OfCommitted, Committed
<1>8. Accounted'
  <2>1. \A f \in Files : InErrors(f)' <=> InErrors(f) \/ f = next
    BY <1>3 DEF InErrors
  <2>2. \A f \in Files : Uncommitted(f)' <=> Uncommitted(f)
    BY <1>0 DEF Uncommitted
  <2>3. ~Uncommitted(next)
    BY <1>0, <1>1, SMTT(20) DEF Uncommitted, FedInOrder, Files
  <2>4. \A f \in Files : f \in Int /\ (f < next' <=> f < next \/ f = next)
    BY <1>0, <1>1 DEF Files
  <2>5. \A i \in 1..Len(errors) : errors[i].file \in Files /\ errors[i].file # next
    <3>1. \A i \in 1..Len(errors) : errors[i].file \in Files
      <4>1. \A i \in 1..Len(errors) : errors[i] \in Entries
        BY <1>1, ElementOfSeq
      <4>. QED
        BY <4>1 DEF Entries
    <3>2. \A i \in 1..Len(errors) : InErrors(errors[i].file)
      BY <1>3 DEF InErrors
    <3>3. \A i \in 1..Len(errors) : errors[i].file < next
      BY <1>0, <3>1, <3>2 DEF Accounted
    <3>. QED
      BY <1>1, <3>1, <3>3 DEF Files
  <2>6. \A i, j \in DOMAIN errors' : errors'[i].file = errors'[j].file => i = j
    BY <1>0, <1>3, <2>5 DEF Accounted
  <2>7. counts'.indexed + counts'.skipped + counts'.errored
          = (next' - 1) - (Len(order') - nextToStore')
    <3>1. counts.indexed + counts.skipped + counts.errored
            = (next - 1) - (Len(order) - nextToStore)
      BY <1>0 DEF Accounted
    <3>2. next \in Int /\ nextToStore \in Int
      BY <1>1 DEF Files
    <3>3. next' = next + 1 /\ order' = order /\ nextToStore' = nextToStore
      BY <1>0
    <3>4. Len(order) \in Int
      BY <1>1
    <3>. QED
      BY <1>4, <3>1, <3>2, <3>3, <3>4
  <2>. QED
    BY <1>0, <2>1, <2>2, <2>3, <2>4, <2>6, <2>7 DEF Accounted
<1>9. PassEnded'
  BY <1>0 DEF PassEnded
<1>. QED
  BY <1>5, <1>6, <1>7, <1>8, <1>9 DEF IndexInv

LEMMA FeedStep ==
  ASSUME IndexInv, Feed
  PROVE  IndexInv'
<1>0. /\ IndexTypeOK /\ FedInOrder /\ OfCommitted /\ Accounted /\ PassEnded
      /\ phase = "feeding" /\ next <= NFiles /\ ~aborted /\ WindowOpen
      /\ next' = next + 1 /\ order' = Append(order, next) /\ inFlight' = inFlight \union {next}
      /\ phase' = phase /\ aborted' = aborted /\ nextToStore' = nextToStore
      /\ completed' = completed /\ counts' = counts /\ errors' = errors
      /\ rows' = rows /\ todo' = todo /\ failing' = failing /\ asked' = asked
  BY DEF IndexInv, Feed, AtNextFile, retries, outcome
<1>1. /\ next \in Files /\ next' \in 1..(NFiles + 1) /\ NFiles \in Nat /\ WindowSize \in Nat \ {0}
      /\ order \in Seq(Files) /\ nextToStore \in 0..Len(order) /\ Len(order) \in Nat
      /\ inFlight \subseteq Files /\ completed \subseteq Files
  BY <1>0, IndexAssumption, LenProperties DEF IndexTypeOK, Files
<1>2. /\ order' \in Seq(Files) /\ Len(order') = Len(order) + 1
      /\ DOMAIN order' = 1..(Len(order) + 1) /\ DOMAIN order = 1..Len(order)
      /\ \A i \in 1..Len(order) : order'[i] = order[i]
      /\ order'[Len(order) + 1] = next
      /\ \A i \in 1..Len(order) : order[i] \in Files
  BY <1>0, <1>1, AppendProperties, LenProperties, ElementOfSeq
<1>3. \A f \in Files : f \in Int /\ (f < next' <=> f < next \/ f = next) /\ (f < next => f # next)
  BY <1>0, <1>1 DEF Files
<1>4. IndexTypeOK'
  BY <1>0, <1>1, <1>2 DEF IndexTypeOK
<1>5. FedInOrder'
  <2>1. \A i, j \in DOMAIN order' : i < j => order'[i] < order'[j]
    BY <1>0, <1>1, <1>2 DEF FedInOrder
  <2>2. \A i \in DOMAIN order' : order'[i] < next'
    <3>1. \A i \in 1..Len(order) : order[i] < next
      BY <1>0, <1>2 DEF FedInOrder
    <3>2. order'[Len(order) + 1] < next'
      BY <1>2, <1>3, <1>1
    <3>3. \A i \in 1..Len(order) : order'[i] < next'
      BY <1>1, <1>2, <1>3, <3>1
    <3>. QED
      BY <1>1, <1>2, <3>2, <3>3
  <2>3. \A f \in inFlight' \union completed' : f < next'
    BY <1>0, <1>1, <1>3 DEF FedInOrder
  <2>4. inFlight' \intersect completed' = {}
    BY <1>0, <1>1, <1>3 DEF FedInOrder
  <2>5. Len(order') - nextToStore' <= WindowSize
    <3>1. CASE Len(order) - nextToStore < WindowSize
      BY <1>0, <1>1, <1>2, <3>1
    <3>2. CASE inFlight = {}
      <4>1. ~(nextToStore < Len(order))
        <5>1. nextToStore < Len(order) => nextToStore + 1 \in DOMAIN order
          BY <1>1, <1>2
        <5>. QED
          BY <1>0, <3>2, <5>1 DEF FedInOrder
      <4>. QED
        BY <1>0, <1>1, <1>2, <4>1
    <3>. QED
      BY <1>0, <3>1, <3>2 DEF WindowOpen
  <2>6. \A i \in DOMAIN order' :
          /\ i <= nextToStore' <=> order'[i] \notin inFlight' \union completed'
          /\ i = nextToStore' + 1 => order'[i] \in inFlight'
    <3>. SUFFICES ASSUME NEW i \in DOMAIN order'
                  PROVE  /\ i <= nextToStore <=> order'[i] \notin inFlight' \union completed
                         /\ i = nextToStore + 1 => order'[i] \in inFlight'
      BY <1>0
    <3>1. CASE i = Len(order) + 1
      BY <1>0, <1>1, <1>2, <3>1
    <3>2. CASE i # Len(order) + 1
      <4>1. i \in DOMAIN order /\ order'[i] = order[i]
        BY <1>1, <1>2, <3>2
      <4>2. order[i] # next
        BY <1>0, <1>2, <1>3, <4>1 DEF FedInOrder
      <4>. QED
        BY <1>0, <4>1, <4>2 DEF FedInOrder
    <3>. QED
      BY <3>1, <3>2
  <2>. QED
    BY <2>1, <2>2, <2>3, <2>4, <2>5, <2>6 DEF FedInOrder
<1>6. OfCommitted'
  <2>1. \A f : Committed(f)' <=> Committed(f)
    BY <1>0, <1>1, <1>2 DEF Committed
  <2>. QED
    BY <1>0, <2>1 DEF OfCommitted
<1>7. Accounted'
  <2>1. \A f \in Files : Uncommitted(f)' <=> Uncommitted(f) \/ f = next
    BY <1>0, <1>1, <1>2 DEF Uncommitted
  <2>2. \A f : InErrors(f)' <=> InErrors(f)
    BY <1>0 DEF InErrors
  <2>3. counts'.indexed + counts'.skipped + counts'.errored
          = (next' - 1) - (Len(order') - nextToStore')
    BY <1>0, <1>1, <1>2 DEF Accounted, IndexTypeOK, Files
  <2>. QED
    BY <1>0, <1>3, <2>1, <2>2, <2>3 DEF Accounted
<1>8. PassEnded'
  BY <1>0 DEF PassEnded
<1>. QED
  BY <1>4, <1>5, <1>6, <1>7, <1>8 DEF IndexInv

\* A segment of a sequence.
LEMMA SegmentFacts ==
  ASSUME NEW S, NEW s \in Seq(S), NEW a \in 0..Len(s), NEW b \in a..Len(s)
  PROVE  LET seg == SubSeq(s, a + 1, b)
         IN  /\ seg \in Seq(S) /\ Len(seg) = b - a
             /\ \A i \in 1..(b - a) : seg[i] = s[a + i]
             /\ ToSet(seg) = {s[i] : i \in (a + 1)..b}
<1>. DEFINE seg == SubSeq(s, a + 1, b)
<1>0. Len(s) \in Nat /\ a \in Nat /\ b \in Nat /\ a <= b /\ b <= Len(s)
  BY LenProperties
<1>1. \A i \in (a + 1)..b : s[i] \in S
  BY <1>0, ElementOfSeq
<1>2. seg \in Seq(S) /\ Len(seg) = b - a /\ \A i \in 1..(b - a) : seg[i] = s[a + i]
  BY <1>0, <1>1, SubSeqProperties
<1>3. DOMAIN seg = 1..(b - a)
  BY <1>2, LenProperties
<1>. HIDE DEF seg
<1>4. ASSUME NEW i \in (a + 1)..b
      PROVE  \E k \in 1..(b - a) : seg[k] = s[i]
  <2>1. i - a \in 1..(b - a) /\ a + (i - a) = i
    BY <1>0
  <2>. QED
    BY <1>2, <2>1
<1>5. \A k \in 1..(b - a) : a + k \in (a + 1)..b
  BY <1>0
<1>6. ToSet(seg) = {s[i] : i \in (a + 1)..b}
  <2>1. ToSet(seg) = {seg[k] : k \in 1..(b - a)}
    BY <1>3 DEF ToSet
  <2>2. ASSUME NEW k \in 1..(b - a) PROVE seg[k] \in {s[i] : i \in (a + 1)..b}
    BY <1>2, <1>5
  <2>. QED
    BY <1>4, <2>1, <2>2
<1>. QED
  BY <1>2, <1>6 DEF seg

\* The entries for a run of files: one for each that failed, and for no other file.
LEMMA ErrorsOfFacts ==
  ASSUME NEW run \in Seq(Files), \A i, j \in DOMAIN run : run[i] = run[j] => i = j
  PROVE  LET es == ErrorsOf(run)
         IN  /\ es \in Seq(Entries)
             /\ \A i \in DOMAIN es : es[i].file \in ToSet(run)
             /\ \A i, j \in DOMAIN es : es[i].file = es[j].file => i = j
             /\ \A f \in ToSet(run) : ~Stores(Came(f, 1)) => \E i \in DOMAIN es : es[i].file = f
<1>. DEFINE I == {i \in DOMAIN run : Came(run[i], 1) \notin {"nodes", "plain"}}
            failed == AtPositions(run, I)
            es == ErrorsOf(run)
            n == Len(failed)
<1>1. failed \in Seq(Files) /\ Lists(failed, run, I)
  <2>1. I \in SUBSET (DOMAIN run)
    OBVIOUS
  <2>. HIDE DEF I
  <2>. QED
    BY <2>1, AtPositionsFacts
<1>2. DOMAIN failed = 1..n /\ n \in Nat
  BY <1>1, LenProperties
<1>3. es = [i \in DOMAIN failed |-> [file |-> failed[i],
               retryable |-> Came(failed[i], 1) \in {"workerExited", "half"}]]
  BY DEF ErrorsOf
<1>. HIDE DEF failed, n
<1>4. PICK pos \in [DOMAIN failed -> I] :
            /\ \A k \in DOMAIN failed : failed[k] = run[pos[k]]
            /\ \A j, k \in DOMAIN failed : pos[j] = pos[k] => j = k
            /\ \A i \in I : \E k \in DOMAIN failed : pos[k] = i
  BY <1>1, Zenon DEF Lists
<1>. HIDE DEF es
<1>5. \A i \in 1..n : failed[i] \in Files
  BY <1>1, <1>2, ElementOfSeq
<1>6. DOMAIN es = 1..n /\ \A i \in 1..n : es[i] \in Entries /\ es[i].file = failed[i]
  BY <1>2, <1>3, <1>5 DEF Entries
<1>7. es \in Seq(Entries)
  <2>1. es \in [1..n -> Entries] /\ n \in Nat
    BY <1>2, <1>3, <1>6
  <2>. QED
    BY <2>1, SeqDef
<1>8. \A i \in 1..n : pos[i] \in DOMAIN run /\ es[i].file = run[pos[i]]
  BY <1>2, <1>4, <1>6
<1>9. \A i \in DOMAIN es : es[i].file \in ToSet(run)
  BY <1>6, <1>8 DEF ToSet
<1>10. \A i, j \in DOMAIN es : es[i].file = es[j].file => i = j
  BY <1>2, <1>4, <1>6, <1>8
<1>11. ASSUME NEW f \in ToSet(run), ~Stores(Came(f, 1))
       PROVE  \E i \in DOMAIN es : es[i].file = f
  <2>1. PICK i \in DOMAIN run : run[i] = f
    BY <1>11 DEF ToSet
  <2>2. i \in I
    BY <1>11, <2>1 DEF Stores
  <2>. QED
    BY <1>2, <1>4, <1>6, <1>8, <2>1, <2>2
<1>. QED
  BY <1>7, <1>9, <1>10, <1>11 DEF es

\* Committing a run counts each of its files once.
LEMMA CommitCounts ==
  ASSUME NEW run \in Seq(Files), Commit(run),
         counts \in [indexed : Int, skipped : Int, errored : Int]
  PROVE  /\ counts' \in [indexed : Int, skipped : Int, errored : Int]
         /\ counts'.indexed + counts'.skipped + counts'.errored
              = counts.indexed + counts.skipped + counts.errored + Len(run)
<1>1. ASSUME NEW R PROVE CountIf(run, R) \in Nat
  <2>1. IsFiniteSet(DOMAIN run)
    BY FS_Interval, LenProperties
  <2>2. IsFiniteSet({i \in DOMAIN run : Came(run[i], 1) \in R})
    BY <2>1, FS_Subset
  <2>. QED
    BY <2>2, FS_CardinalityType DEF CountIf
<1>. DEFINE a == CountIf(run, {"nodes", "half"})
            b == CountIf(run, {"plain"})
<1>2. a \in Int /\ b \in Int /\ Len(run) \in Int
  BY <1>1, LenProperties
<1>3. counts' = [indexed |-> counts.indexed + a, skipped |-> counts.skipped + b,
                 errored |-> counts.errored + (Len(run) - a - b)]
  BY DEF Commit
<1>. HIDE DEF a, b
<1>. QED
  BY <1>2, <1>3, SMTT(20)

\* What is next in order, and has come back, is committed; how far that goes.
Ready(here) == {n \in nextToStore..Len(order) : ToSet(SubSeq(order, nextToStore + 1, n)) \subseteq here}

LEMMA ReadyFacts ==
  ASSUME IndexTypeOK, NEW here
  PROVE  LET m == Max(Ready(here))
             run == SubSeq(order, nextToStore + 1, m)
         IN  /\ m \in nextToStore..Len(order)
             /\ \A i \in (nextToStore + 1)..m : order[i] \in here
             /\ m < Len(order) => order[m + 1] \notin here
             /\ run \in Seq(Files) /\ Len(run) = m - nextToStore
             /\ \A i \in 1..(m - nextToStore) : run[i] = order[nextToStore + i]
             /\ ToSet(run) = {order[i] : i \in (nextToStore + 1)..m}
<1>. DEFINE a == nextToStore
            L == Len(order)
            seg(n) == {order[i] : i \in (a + 1)..n}
            m == Max(Ready(here))
<1>0. order \in Seq(Files) /\ a \in 0..L /\ L \in Nat
  BY LenProperties DEF IndexTypeOK
<1>1. \A n \in a..L : ToSet(SubSeq(order, a + 1, n)) = seg(n)
  BY <1>0, SegmentFacts
<1>2. Ready(here) = {n \in a..L : seg(n) \subseteq here}
  BY <1>1 DEF Ready
<1>3. a \in Ready(here)
  <2>1. a \in a..L /\ seg(a) = {}
    BY <1>0
  <2>. QED
    BY <1>2, <2>1
<1>4. m \in Ready(here) /\ \A x \in Ready(here) : x <= m
  <2>1. Ready(here) \in SUBSET (a..L) /\ Ready(here) # {}
    BY <1>2, <1>3
  <2>2. a \in Int /\ L \in Int
    BY <1>0
  <2>. QED
    BY <2>1, <2>2, MaxOfBounded
<1>5. m \in a..L /\ seg(m) \subseteq here
  BY <1>2, <1>4
<1>. HIDE DEF m
<1>6. ASSUME m < L PROVE order[m + 1] \notin here
  <2>1. m + 1 \in a..L /\ ~(m + 1 <= m)
    BY <1>0, <1>5, <1>6
  <2>2. ~(seg(m + 1) \subseteq here)
    BY <1>2, <1>4, <2>1
  <2>3. PICK i \in (a + 1)..(m + 1) : order[i] \notin here
    BY <2>2
  <2>4. i = m + 1
    <3>1. i \in (a + 1)..m => order[i] \in here
      BY <1>5
    <3>. QED
      BY <1>0, <1>5, <2>3, <3>1
  <2>. QED
    BY <2>3, <2>4
<1>7. LET run == SubSeq(order, a + 1, m)
      IN  /\ run \in Seq(Files) /\ Len(run) = m - a
          /\ \A i \in 1..(m - a) : run[i] = order[a + i]
          /\ ToSet(run) = {order[i] : i \in (a + 1)..m}
  BY <1>0, <1>5, SegmentFacts
<1>. QED
  BY <1>5, <1>6, <1>7 DEF m

\* The cursor moves over the files that are committed.
LEMMA CursorStep ==
  ASSUME IndexTypeOK, FedInOrder, ~aborted, NEW f \in inFlight,
         NEW m \in nextToStore..Len(order),
         \A i \in (nextToStore + 1)..m : order[i] \in completed \union {f},
         m < Len(order) => order[m + 1] \notin completed \union {f},
         nextToStore' = m, inFlight' = inFlight \ {f},
         completed' = (completed \union {f}) \ {order[i] : i \in (nextToStore + 1)..m},
         UNCHANGED <<aborted, next, order>>
  PROVE  FedInOrder'
<1>0. /\ order \in Seq(Files) /\ nextToStore \in 0..Len(order) /\ Len(order) \in Nat
      /\ DOMAIN order = 1..Len(order) /\ WindowSize \in Nat
      /\ aborted' = aborted /\ next' = next /\ order' = order
  BY LenProperties, IndexAssumption DEF IndexTypeOK
<1>1. \A i \in DOMAIN order : order[i] \in Int
  <2>1. \A i \in DOMAIN order : order[i] \in Files
    BY <1>0, ElementOfSeq
  <2>. QED
    BY <2>1 DEF Files
<1>2. \A i, j \in DOMAIN order : order[i] = order[j] => i = j
  <2>1. \A i, j \in DOMAIN order : i < j \/ j < i \/ i = j
    BY <1>0
  <2>. QED
    BY <1>1, <2>1 DEF FedInOrder
<1>3. ASSUME NEW i \in DOMAIN order
      PROVE  /\ i <= m <=> order[i] \notin inFlight' \union completed'
             /\ i = m + 1 => order[i] \in inFlight'
  <2>0. i \in Int /\ m \in Int /\ nextToStore \in Int /\ i >= 1 /\ i <= Len(order) /\ nextToStore <= m
    BY <1>0
  <2>1. CASE i <= nextToStore
    <3>1. order[i] \notin inFlight \union completed
      BY <2>1 DEF FedInOrder
    <3>. QED
      BY <2>0, <2>1, <3>1
  <2>2. CASE nextToStore < i /\ i <= m
    <3>1. order[i] \in completed \union {f} /\ order[i] \notin completed'
      BY <2>0, <2>2
    <3>2. order[i] \notin inFlight'
      BY <3>1 DEF FedInOrder
    <3>. QED
      BY <2>0, <2>2, <3>1, <3>2
  <2>3. CASE m < i
    <3>1. order[i] \in inFlight \union completed
      BY <2>0, <2>3 DEF FedInOrder
    <3>2. order[i] \notin {order[j] : j \in (nextToStore + 1)..m}
      BY <1>0, <1>2, <2>0, <2>3
    <3>3. order[i] \in inFlight' \union completed'
      BY <3>1, <3>2
    <3>4. i = m + 1 => order[i] \in inFlight'
      BY <2>0, <3>1
    <3>. QED
      BY <2>0, <2>3, <3>3, <3>4
  <2>. QED
    BY <2>0, <2>1, <2>2, <2>3
<1>4. Len(order) - m <= WindowSize
  BY <1>0 DEF FedInOrder
<1>5. /\ \A g \in inFlight' \union completed' : g < next
      /\ inFlight' \intersect completed' = {}
  BY DEF FedInOrder
<1>. QED
  BY <1>0, <1>3, <1>4, <1>5 DEF FedInOrder

LEMMA ComeBackStep ==
  ASSUME IndexInv, NEW f \in Files, ComeBack(f)
  PROVE  IndexInv'
<1>. DEFINE here == completed \union {f}
            m == Max(Ready(here))
            run == SubSeq(order, nextToStore + 1, m)
<1>0. /\ IndexTypeOK /\ FedInOrder /\ OfCommitted /\ Accounted /\ PassEnded
      /\ f \in inFlight /\ inFlight' = inFlight \ {f}
      /\ phase' = phase /\ aborted' = aborted /\ next' = next /\ order' = order
      /\ todo' = todo /\ failing' = failing /\ asked' = asked
  BY DEF IndexInv, ComeBack, retries
<1>1. PassEnded'
  BY <1>0 DEF PassEnded
<1>2. CASE aborted
  <2>1. /\ completed' = here /\ nextToStore' = nextToStore /\ rows' = rows /\ errors' = errors
        /\ counts' = counts
    BY <1>2 DEF ComeBack
  <2>2. IndexTypeOK'
    BY <1>0, <2>1 DEF IndexTypeOK
  <2>3. FedInOrder'
    BY <1>0, <1>2, <2>1 DEF FedInOrder
  <2>4. OfCommitted' /\ Accounted'
    BY <1>0, <2>1 DEF OfCommitted, Accounted, Committed, Uncommitted, InErrors
  <2>. QED
    BY <1>1, <2>2, <2>3, <2>4 DEF IndexInv
<1>3. CASE ~aborted
  <2>1. nextToStore' = m /\ completed' = here \ ToSet(run) /\ Commit(run)
    BY <1>3 DEF ComeBack, Ready
  <2>2. /\ m \in nextToStore..Len(order)
        /\ \A i \in (nextToStore + 1)..m : order[i] \in here
        /\ m < Len(order) => order[m + 1] \notin here
        /\ run \in Seq(Files) /\ Len(run) = m - nextToStore
        /\ \A i \in 1..(m - nextToStore) : run[i] = order[nextToStore + i]
        /\ ToSet(run) = {order[i] : i \in (nextToStore + 1)..m}
    BY <1>0, ReadyFacts
  <2>. HIDE DEF m, run
  <2>3. /\ order \in Seq(Files) /\ nextToStore \in 0..Len(order) /\ Len(order) \in Nat
        /\ DOMAIN order = 1..Len(order) /\ DOMAIN run = 1..(m - nextToStore)
        /\ m \in Int /\ nextToStore \in Int /\ nextToStore <= m /\ m <= Len(order)
    BY <1>0, <2>2, LenProperties DEF IndexTypeOK
  <2>4. \A i, j \in DOMAIN order : order[i] = order[j] => i = j
    <3>1. \A i \in DOMAIN order : order[i] \in Int
      <4>1. \A i \in DOMAIN order : order[i] \in Files
        BY <2>3, ElementOfSeq
      <4>. QED
        BY <4>1 DEF Files
    <3>2. \A i, j \in DOMAIN order : i < j \/ j < i \/ i = j
      BY <2>3
    <3>. QED
      BY <1>0, <3>1, <3>2 DEF FedInOrder
  <2>5. FedInOrder'
    BY <1>0, <1>3, <2>1, <2>2, CursorStep
  <2>6. \A i, j \in DOMAIN run : run[i] = run[j] => i = j
    <3>. SUFFICES ASSUME NEW i \in DOMAIN run, NEW j \in DOMAIN run, run[i] = run[j]
                  PROVE  i = j
      OBVIOUS
    <3>1. nextToStore + i \in DOMAIN order /\ nextToStore + j \in DOMAIN order
      BY <2>3
    <3>2. nextToStore + i = nextToStore + j
      BY <2>2, <2>3, <2>4, <3>1
    <3>. QED
      BY <2>3, <3>2
  <2>7. /\ ErrorsOf(run) \in Seq(Entries)
        /\ \A i \in DOMAIN ErrorsOf(run) : ErrorsOf(run)[i].file \in ToSet(run)
        /\ \A i, j \in DOMAIN ErrorsOf(run) :
              ErrorsOf(run)[i].file = ErrorsOf(run)[j].file => i = j
        /\ \A g \in ToSet(run) :
              ~Stores(Came(g, 1)) => \E i \in DOMAIN ErrorsOf(run) : ErrorsOf(run)[i].file = g
    BY <2>2, <2>6, ErrorsOfFacts
  <2>8. /\ counts' \in [indexed : Int, skipped : Int, errored : Int]
        /\ counts'.indexed + counts'.skipped + counts'.errored
             = counts.indexed + counts.skipped + counts.errored + Len(run)
    BY <1>0, <2>1, <2>2, CommitCounts DEF IndexTypeOK
  <2>. DEFINE es == ErrorsOf(run)
  <2>9. /\ errors' \in Seq(Entries) /\ errors \in Seq(Entries)
        /\ Len(errors) \in Nat /\ Len(es) \in Nat
        /\ DOMAIN errors = 1..Len(errors) /\ DOMAIN es = 1..Len(es)
        /\ DOMAIN errors' = 1..(Len(errors) + Len(es))
        /\ \A i \in 1..Len(errors) : errors'[i] = errors[i]
        /\ \A i \in (Len(errors) + 1)..(Len(errors) + Len(es)) :
              /\ i - Len(errors) \in 1..Len(es) /\ errors'[i] = es[i - Len(errors)]
    <3>1. errors' = errors \o es /\ errors \in Seq(Entries) /\ es \in Seq(Entries)
      BY <1>0, <2>1, <2>7 DEF Commit, IndexTypeOK
    <3>. HIDE DEF es
    <3>. QED
      BY <3>1, ConcatProperties, LenProperties
  <2>10. rows' = [g \in Files |-> IF g \in ToSet(run) /\ Stores(Came(g, 1)) THEN Came(g, 1) ELSE rows[g]]
    BY <2>1 DEF Commit
  <2>11. IndexTypeOK'
    <3>1. rows' \in [Files -> ParseResults \union {"none"}]
      BY <1>0, <2>10 DEF IndexTypeOK, Stores, ParseResults
    <3>2. nextToStore' \in 0..Len(order)
      BY <2>1, <2>2, <2>3
    <3>3. completed' \subseteq Files /\ inFlight' \subseteq Files
      BY <1>0, <2>1 DEF IndexTypeOK
    <3>. QED
      BY <1>0, <2>8, <2>9, <3>1, <3>2, <3>3 DEF IndexTypeOK
  <2>12. \A g : Committed(g)' <=> Committed(g) \/ g \in ToSet(run)
    <3>1. \A i : i \in 1..m <=> i \in 1..nextToStore \/ i \in (nextToStore + 1)..m
      BY <2>3
    <3>. QED
      BY <1>0, <2>1, <2>2, <3>1 DEF Committed
  <2>13. \A g \in Files : Uncommitted(g)' <=> Uncommitted(g) /\ g \notin ToSet(run)
    <3>1. \A i : i \in (nextToStore + 1)..Len(order) <=> i \in (nextToStore + 1)..m \/ i \in (m + 1)..Len(order)
      BY <2>3
    <3>2. \A i \in (m + 1)..Len(order), j \in (nextToStore + 1)..m : order[i] # order[j]
      <4>. SUFFICES ASSUME NEW i \in (m + 1)..Len(order), NEW j \in (nextToStore + 1)..m
                    PROVE  order[i] # order[j]
        OBVIOUS
      <4>1. i \in DOMAIN order /\ j \in DOMAIN order /\ i # j
        BY <2>3
      <4>. QED
        BY <2>4, <4>1
    <3>. QED
      BY <1>0, <2>1, <2>2, <3>1, <3>2 DEF Uncommitted
  <2>14. \A g \in ToSet(run) : Uncommitted(g) /\ g \in Files /\ g < next
    <3>1. \A i \in (nextToStore + 1)..m : i \in (nextToStore + 1)..Len(order) /\ i \in DOMAIN order
      BY <2>3
    <3>. QED
      BY <1>0, <2>2, <2>3, <3>1, ElementOfSeq DEF Uncommitted, FedInOrder
  <2>15. \A g : InErrors(g)' <=> InErrors(g) \/ \E i \in DOMAIN es : es[i].file = g
    <3>. SUFFICES ASSUME NEW g
                  PROVE  InErrors(g)' <=> InErrors(g) \/ \E i \in DOMAIN es : es[i].file = g
      OBVIOUS
    <3>1. ASSUME NEW i \in DOMAIN errors', errors'[i].file = g
          PROVE  InErrors(g) \/ \E k \in DOMAIN es : es[k].file = g
      <4>1. CASE i \in 1..Len(errors)
        BY <2>9, <3>1, <4>1 DEF InErrors
      <4>2. CASE i \in (Len(errors) + 1)..(Len(errors) + Len(es))
        BY <2>9, <3>1, <4>2
      <4>. QED
        BY <2>9, <4>1, <4>2
    <3>2. ASSUME NEW i \in DOMAIN errors, errors[i].file = g PROVE InErrors(g)'
      <4>1. i \in DOMAIN errors' /\ errors'[i] = errors[i]
        BY <2>9
      <4>. QED
        BY <3>2, <4>1 DEF InErrors
    <3>3. ASSUME NEW i \in DOMAIN es, es[i].file = g PROVE InErrors(g)'
      <4>1. /\ Len(errors) + i \in (Len(errors) + 1)..(Len(errors) + Len(es))
            /\ (Len(errors) + i) - Len(errors) = i
        BY <2>9
      <4>2. Len(errors) + i \in DOMAIN errors' /\ errors'[Len(errors) + i] = es[i]
        BY <2>9, <4>1
      <4>. QED
        BY <3>3, <4>2 DEF InErrors
    <3>. QED
      BY <3>1, <3>2, <3>3 DEF InErrors
  <2>16. OfCommitted'
    <3>1. \A g \in Files : rows'[g] # "none" => rows[g] # "none" \/ g \in ToSet(run)
      BY <2>10
    <3>2. \A i \in DOMAIN errors' : errors'[i].retryable =>
            \/ i \in DOMAIN errors /\ errors'[i] = errors[i]
            \/ errors'[i].file \in ToSet(run)
      <4>. SUFFICES ASSUME NEW i \in DOMAIN errors'
                    PROVE  \/ i \in DOMAIN errors /\ errors'[i] = errors[i]
                           \/ errors'[i].file \in ToSet(run)
        OBVIOUS
      <4>1. i \in 1..Len(errors) \/ i \in (Len(errors) + 1)..(Len(errors) + Len(es))
        BY <2>9
      <4>. QED
        BY <2>7, <2>9, <4>1
    <3>. QED
      BY <1>0, <2>12, <3>1, <3>2 DEF OfCommitted
  <2>17. Accounted'
    <3>1. counts'.indexed + counts'.skipped + counts'.errored
            = (next' - 1) - (Len(order') - nextToStore')
      <4>1. counts.indexed + counts.skipped + counts.errored = (next - 1) - (Len(order) - nextToStore)
        BY <1>0 DEF Accounted
      <4>2. next \in Int /\ next' = next /\ order' = order
        BY <1>0 DEF IndexTypeOK
      <4>. QED
        BY <2>1, <2>2, <2>3, <2>8, <4>1, <4>2, SMTT(20)
    <3>2. \A g \in Files : g < next => rows'[g] # "none" \/ InErrors(g)' \/ Uncommitted(g)'
      <4>. SUFFICES ASSUME NEW g \in Files, g < next
                    PROVE  rows'[g] # "none" \/ InErrors(g)' \/ Uncommitted(g)'
        OBVIOUS
      <4>1. CASE g \in ToSet(run)
        BY <2>7, <2>10, <2>15, <4>1 DEF Stores
      <4>2. CASE g \notin ToSet(run)
        BY <1>0, <2>10, <2>13, <2>15, <4>2 DEF Accounted
      <4>. QED
        BY <4>1, <4>2
    <3>3. \A g \in Files : InErrors(g)' => g < next /\ ~Uncommitted(g)'
      BY <1>0, <2>7, <2>13, <2>14, <2>15 DEF Accounted
    <3>4. \A i, j \in DOMAIN errors' : errors'[i].file = errors'[j].file => i = j
      <4>1. \A i \in 1..Len(errors) : errors'[i].file \notin ToSet(run)
        <5>1. \A i \in 1..Len(errors) : errors[i].file \in Files /\ InErrors(errors[i].file)
          <6>1. \A i \in 1..Len(errors) : errors[i] \in Entries
            BY <2>9, ElementOfSeq
          <6>. QED
            BY <2>9, <6>1 DEF InErrors, Entries
        <5>. QED
          BY <1>0, <2>9, <2>14, <5>1 DEF Accounted
      <4>2. \A i \in (Len(errors) + 1)..(Len(errors) + Len(es)) : errors'[i].file \in ToSet(run)
        BY <2>7, <2>9, SMTT(20)
      <4>. SUFFICES ASSUME NEW i \in DOMAIN errors', NEW j \in DOMAIN errors',
                           errors'[i].file = errors'[j].file
                    PROVE  i = j
        OBVIOUS
      <4>3. CASE i \in 1..Len(errors) /\ j \in 1..Len(errors)
        BY <1>0, <2>9, <4>3 DEF Accounted
      <4>4. CASE /\ i \in (Len(errors) + 1)..(Len(errors) + Len(es))
                 /\ j \in (Len(errors) + 1)..(Len(errors) + Len(es))
        <5>0. /\ i - Len(errors) \in DOMAIN es /\ j - Len(errors) \in DOMAIN es
              /\ es[i - Len(errors)].file = es[j - Len(errors)].file
          BY <2>9, <4>4
        <5>1. i - Len(errors) = j - Len(errors)
          BY <2>7, <5>0
        <5>. QED
          BY <2>9, <4>4, <5>1
      <4>. QED
        BY <2>9, <4>1, <4>2, <4>3, <4>4
    <3>. QED
      BY <1>0, <3>1, <3>2, <3>3, <3>4 DEF Accounted
  <2>. QED
    BY <1>1, <2>5, <2>11, <2>16, <2>17 DEF IndexInv
<1>. QED
  BY <1>2, <1>3

----------------------------------------------------------------------------
(* The end of the pass, and the retries.                                   *)

\* Of what is at some positions, only what is there is found.
LEMMA AtPositionsMembers ==
  ASSUME NEW S, NEW s \in Seq(S), NEW I \in SUBSET (DOMAIN s)
  PROVE  /\ AtPositions(s, I) \in Seq(S)
         /\ \A k \in DOMAIN AtPositions(s, I) : \E i \in I : AtPositions(s, I)[k] = s[i]
         /\ \A i \in I : \E k \in DOMAIN AtPositions(s, I) : AtPositions(s, I)[k] = s[i]
BY AtPositionsFacts DEF Lists

LEMMA EndPassStep ==
  ASSUME IndexInv, EndPass
  PROVE  IndexInv'
<1>. DEFINE again == AtPositions(errors, {i \in DOMAIN errors : errors[i].retryable})
<1>0. /\ IndexTypeOK /\ FedInOrder /\ OfCommitted /\ Accounted /\ PassEnded
      /\ phase = "feeding" /\ (aborted \/ (next > NFiles /\ inFlight = {}))
      /\ aborted' = aborted /\ next' = next /\ order' = order
      /\ nextToStore' = nextToStore /\ inFlight' = inFlight /\ completed' = completed
      /\ rows' = rows /\ errors' = errors /\ counts' = counts
  BY DEF IndexInv, EndPass, firstPass, outcome
<1>1. /\ phase' \in {"aborted", "done", "retrying"}
      /\ phase' # "aborted" => ~aborted
      /\ \/ todo' = todo /\ failing' = failing /\ asked' = asked
         \/ todo' = [i \in DOMAIN again |-> again[i].file] /\ failing' = failing /\ asked' = asked
  BY DEF EndPass, retries
<1>2. /\ errors \in Seq(Entries) /\ order \in Seq(Files) /\ nextToStore \in 0..Len(order)
      /\ Len(order) \in Nat /\ DOMAIN order = 1..Len(order) /\ next \in 1..(NFiles + 1)
      /\ NFiles \in Nat
  BY <1>0, LenProperties, IndexAssumption DEF IndexTypeOK
<1>3. /\ again \in Seq(Entries)
      /\ \A k \in DOMAIN again : \E i \in DOMAIN errors : again[k] = errors[i] /\ errors[i].retryable
  <2>. DEFINE I == {i \in DOMAIN errors : errors[i].retryable}
  <2>1. I \in SUBSET (DOMAIN errors) /\ \A i \in I : errors[i].retryable
    OBVIOUS
  <2>. HIDE DEF I
  <2>2. /\ AtPositions(errors, I) \in Seq(Entries)
        /\ \A k \in DOMAIN AtPositions(errors, I) : \E i \in I : AtPositions(errors, I)[k] = errors[i]
    BY <1>2, <2>1, AtPositionsMembers
  <2>3. again = AtPositions(errors, I)
    BY DEF I
  <2>. HIDE DEF again
  <2>. QED
    BY <2>1, <2>2, <2>3
<1>. HIDE DEF again
<1>4. todo' \in Seq(Files) /\ \A i \in DOMAIN todo' : Committed(todo'[i])
  <2>1. CASE todo' = todo
    BY <1>0, <2>1 DEF IndexTypeOK, OfCommitted
  <2>2. CASE todo' = [i \in DOMAIN again |-> again[i].file]
    <3>1. \A i \in DOMAIN again : again[i] \in Entries
      BY <1>3, ElementOfSeq
    <3>2. \A i \in DOMAIN again : again[i].file \in Files
      BY <3>1 DEF Entries
    <3>3. Len(again) \in Nat /\ DOMAIN again = 1..Len(again)
      BY <1>3, LenProperties
    <3>4. todo' \in [1..Len(again) -> Files]
      BY <2>2, <3>2, <3>3
    <3>5. todo' \in Seq(Files)
      BY <3>3, <3>4, SeqDef
    <3>6. \A i \in DOMAIN again : Committed(again[i].file)
      BY <1>0, <1>3 DEF OfCommitted
    <3>. QED
      BY <2>2, <3>5, <3>6
  <2>. QED
    BY <1>1, <2>1, <2>2
<1>5. IndexTypeOK'
  BY <1>0, <1>1, <1>4 DEF IndexTypeOK, Phases
<1>6. FedInOrder' /\ Accounted'
  BY <1>0 DEF FedInOrder, Accounted, InErrors, Uncommitted
<1>7. OfCommitted'
  BY <1>0, <1>1, <1>4 DEF OfCommitted, Committed
<1>8. PassEnded'
  <2>. SUFFICES ASSUME phase' # "aborted"
                PROVE  next = NFiles + 1 /\ nextToStore = Len(order) /\ inFlight = {}
    BY <1>0 DEF PassEnded
  <2>1. ~aborted /\ next > NFiles /\ inFlight = {}
    BY <1>0, <1>1
  <2>2. next = NFiles + 1
    BY <1>2, <2>1
  <2>3. ~(nextToStore < Len(order))
    <3>1. nextToStore < Len(order) => nextToStore + 1 \in DOMAIN order
      BY <1>2
    <3>. QED
      BY <1>0, <2>1, <3>1 DEF FedInOrder
  <2>4. nextToStore = Len(order)
    <3>1. nextToStore \in 0..Len(order) /\ Len(order) \in Nat
      BY <1>2
    <3>2. \A n \in Nat : \A k \in 0..n : ~(k < n) => k = n
      OBVIOUS
    <3>. QED
      BY <2>3, <3>1, <3>2
  <2>. QED
    BY <2>1, <2>2, <2>4
<1>. QED
  BY <1>5, <1>6, <1>7, <1>8 DEF IndexInv

\* Steps that change only which files are to be retried.
LEMMA RetryListStep ==
  ASSUME IndexInv, UNCHANGED firstPass, UNCHANGED outcome,
         phase' \in Phases, phase' \in {"retrying", "stripping", "done"} =>
                               phase \in {"retrying", "stripping", "done"},
         todo' \in Seq(Files), failing' \in Seq(Files), asked' \in Files \union {NoFile},
         \A i \in DOMAIN todo' : Committed(todo'[i]),
         \A i \in DOMAIN failing' : Committed(failing'[i]),
         asked' # NoFile => Committed(asked')
  PROVE  IndexInv'
<1>1. /\ aborted' = aborted /\ next' = next /\ order' = order
      /\ nextToStore' = nextToStore /\ inFlight' = inFlight /\ completed' = completed
      /\ rows' = rows /\ errors' = errors /\ counts' = counts
  BY DEF firstPass, outcome
<1>2. IndexTypeOK'
  BY <1>1 DEF IndexInv, IndexTypeOK
<1>3. FedInOrder' /\ Accounted'
  BY <1>1 DEF IndexInv, FedInOrder, Accounted, InErrors, Uncommitted
<1>4. OfCommitted'
  BY <1>1 DEF IndexInv, OfCommitted, Committed
<1>5. PassEnded'
  BY <1>1 DEF IndexInv, PassEnded
<1>. QED
  BY <1>2, <1>3, <1>4, <1>5 DEF IndexInv

\* The head and the rest of the list of files to retry.
LEMMA TodoFacts ==
  ASSUME IndexInv, todo # <<>>
  PROVE  /\ Head(todo) \in Files /\ Committed(Head(todo))
         /\ Tail(todo) \in Seq(Files) /\ \A i \in DOMAIN Tail(todo) : Committed(Tail(todo)[i])
<1>1. todo \in Seq(Files) /\ \A i \in DOMAIN todo : Committed(todo[i])
  BY DEF IndexInv, IndexTypeOK, OfCommitted
<1>2. /\ Len(todo) \in Nat /\ Len(todo) # 0 /\ DOMAIN todo = 1..Len(todo)
      /\ Head(todo) = todo[1] /\ 1 \in DOMAIN todo
  BY <1>1, EmptySeq, LenProperties, HeadTailProperties
<1>3. /\ Tail(todo) \in Seq(Files) /\ DOMAIN Tail(todo) = 1..(Len(todo) - 1)
      /\ \A i \in 1..(Len(todo) - 1) : i + 1 \in DOMAIN todo /\ Tail(todo)[i] = todo[i + 1]
  BY <1>1, <1>2, HeadTailProperties, LenProperties
<1>. QED
  BY <1>1, <1>2, <1>3, ElementOfSeq

LEMMA RetryUnreadStep ==
  ASSUME IndexInv, RetryUnread
  PROVE  IndexInv'
<1>1. /\ todo # <<>> /\ todo' = Tail(todo) /\ phase' = phase /\ failing' = failing
      /\ asked' = asked /\ UNCHANGED firstPass /\ UNCHANGED outcome
  BY DEF RetryUnread
<1>2. /\ phase \in Phases /\ failing \in Seq(Files) /\ asked \in Files \union {NoFile}
      /\ \A i \in DOMAIN failing : Committed(failing[i])
      /\ asked # NoFile => Committed(asked)
  BY DEF IndexInv, IndexTypeOK, OfCommitted
<1>. QED
  BY <1>1, <1>2, TodoFacts, RetryListStep

LEMMA RetryStep ==
  ASSUME IndexInv, Retry
  PROVE  IndexInv'
<1>1. /\ todo # <<>> /\ todo' = Tail(todo) /\ phase' = phase /\ failing' = failing
      /\ asked' = Head(todo) /\ UNCHANGED firstPass /\ UNCHANGED outcome
  BY DEF Retry
<1>2. /\ phase \in Phases /\ failing \in Seq(Files)
      /\ \A i \in DOMAIN failing : Committed(failing[i])
  BY DEF IndexInv, IndexTypeOK, OfCommitted
<1>. QED
  BY <1>1, <1>2, TodoFacts, RetryListStep

LEMMA StatFailsStep ==
  ASSUME IndexInv, StatFails
  PROVE  IndexInv'
<1>1. /\ phase' = "threw" /\ todo' = todo /\ failing' = failing /\ asked' = asked
      /\ UNCHANGED firstPass /\ UNCHANGED outcome
  BY DEF StatFails, retries
<1>2. /\ todo \in Seq(Files) /\ failing \in Seq(Files) /\ asked \in Files \union {NoFile}
      /\ \A i \in DOMAIN failing : Committed(failing[i])
      /\ \A i \in DOMAIN todo : Committed(todo[i])
      /\ asked # NoFile => Committed(asked)
  BY DEF IndexInv, IndexTypeOK, OfCommitted
<1>3. phase' \in Phases /\ phase' \notin {"retrying", "stripping", "done"}
  BY <1>1 DEF Phases
<1>. QED
  BY <1>1, <1>2, <1>3, RetryListStep

LEMMA EndRetriesStep ==
  ASSUME IndexInv, EndRetries
  PROVE  IndexInv'
<1>1. /\ phase \in {"retrying", "stripping"} /\ phase' \in {"stripping", "done"}
      /\ UNCHANGED firstPass /\ UNCHANGED outcome /\ asked' = asked
      /\ \/ todo' = failing /\ failing' = <<>>
         \/ todo' = <<>> /\ failing' = failing
  BY DEF EndRetries, Retrying
<1>2. /\ failing \in Seq(Files) /\ asked \in Files \union {NoFile}
      /\ \A i \in DOMAIN failing : Committed(failing[i])
      /\ asked # NoFile => Committed(asked)
  BY DEF IndexInv, IndexTypeOK, OfCommitted
<1>3. <<>> \in Seq(Files) /\ DOMAIN <<>> = {}
  BY EmptySeq
<1>4. phase' \in Phases
  BY <1>1 DEF Phases
<1>5. /\ todo' \in Seq(Files) /\ failing' \in Seq(Files)
      /\ \A i \in DOMAIN todo' : Committed(todo'[i])
      /\ \A i \in DOMAIN failing' : Committed(failing'[i])
  BY <1>1, <1>2, <1>3
<1>. QED
  BY <1>1, <1>2, <1>4, <1>5, RetryListStep

\* The list of errors without those of a file.
LEMMA WithoutFacts ==
  ASSUME NEW es \in Seq(Entries), NEW f
  PROVE  /\ Without(es, f) \in Seq(Entries)
         /\ \A k \in DOMAIN Without(es, f) :
              \E i \in DOMAIN es : es[i].file # f /\ Without(es, f)[k] = es[i]
         /\ \A i \in DOMAIN es : es[i].file # f =>
              \E k \in DOMAIN Without(es, f) : Without(es, f)[k] = es[i]
         /\ (\A i, j \in DOMAIN es : es[i].file = es[j].file => i = j) =>
              \A i, j \in DOMAIN Without(es, f) :
                 Without(es, f)[i].file = Without(es, f)[j].file => i = j
<1>. DEFINE I == {i \in DOMAIN es : es[i].file # f}
            t == AtPositions(es, I)
<1>1. I \in SUBSET (DOMAIN es) /\ \A i \in DOMAIN es : i \in I <=> es[i].file # f
  OBVIOUS
<1>2. Without(es, f) = t
  BY DEF Without
<1>. HIDE DEF I
<1>3. t \in Seq(Entries) /\ Lists(t, es, I)
  BY <1>1, AtPositionsFacts
<1>. HIDE DEF t
<1>4. PICK pos \in [DOMAIN t -> I] :
            /\ \A k \in DOMAIN t : t[k] = es[pos[k]]
            /\ \A j, k \in DOMAIN t : pos[j] = pos[k] => j = k
            /\ \A i \in I : \E k \in DOMAIN t : pos[k] = i
  BY <1>3 DEF Lists
<1>5. \A k \in DOMAIN t : pos[k] \in DOMAIN es /\ es[pos[k]].file # f
  BY <1>1, <1>4
<1>6. \A k \in DOMAIN t : \E i \in DOMAIN es : es[i].file # f /\ t[k] = es[i]
  BY <1>4, <1>5
<1>7. \A i \in DOMAIN es : es[i].file # f => \E k \in DOMAIN t : t[k] = es[i]
  BY <1>1, <1>4
<1>8. ASSUME \A i, j \in DOMAIN es : es[i].file = es[j].file => i = j
      PROVE  \A i, j \in DOMAIN t : t[i].file = t[j].file => i = j
  BY <1>4, <1>5, <1>8
<1>. QED
  BY <1>2, <1>3, <1>6, <1>7, <1>8

LEMMA RetryCameBackStep ==
  ASSUME IndexInv, RetryCameBack
  PROVE  IndexInv'
<1>. DEFINE r == Came(asked, Attempt)
<1>0. /\ IndexTypeOK /\ FedInOrder /\ OfCommitted /\ Accounted /\ PassEnded
      /\ asked # NoFile /\ asked' = NoFile /\ phase' = phase /\ todo' = todo
      /\ UNCHANGED firstPass
      /\ aborted' = aborted /\ next' = next /\ order' = order
      /\ nextToStore' = nextToStore /\ inFlight' = inFlight /\ completed' = completed
  BY DEF IndexInv, RetryCameBack, firstPass
<1>1. /\ asked \in Files /\ Committed(asked) /\ phase \in Phases
      /\ todo \in Seq(Files) /\ failing \in Seq(Files)
      /\ \A i \in DOMAIN failing : Committed(failing[i])
      /\ \A i \in DOMAIN todo : Committed(todo[i])
      /\ errors \in Seq(Entries) /\ rows \in [Files -> ParseResults \union {"none"}]
  BY <1>0 DEF IndexTypeOK, OfCommitted
<1>2. \/ failing' = Append(failing, asked) /\ UNCHANGED outcome
      \/ failing' = failing /\ UNCHANGED outcome
      \/ /\ Stores(r)
         /\ rows' = [rows EXCEPT ![asked] = IF @ = "none" THEN r ELSE @]
         /\ errors' = Without(errors, asked)
         /\ counts' = [counts EXCEPT !.errored = @ - 1, !.indexed = @ + 1]
         /\ failing' = failing
  BY DEF RetryCameBack, outcome
<1>. HIDE DEF r
<1>3. CASE failing' = Append(failing, asked) /\ UNCHANGED outcome
  <2>1. /\ failing' \in Seq(Files) /\ DOMAIN failing' = 1..(Len(failing) + 1)
        /\ DOMAIN failing = 1..Len(failing) /\ Len(failing) \in Nat
        /\ \A i \in 1..Len(failing) : failing'[i] = failing[i]
        /\ failing'[Len(failing) + 1] = asked
    BY <1>1, <1>3, AppendProperties, LenProperties
  <2>2. \A i \in DOMAIN failing' : Committed(failing'[i])
    <3>1. \A i \in 1..(Len(failing) + 1) : i \in 1..Len(failing) \/ i = Len(failing) + 1
      BY <2>1
    <3>. QED
      BY <1>1, <2>1, <3>1
  <2>. QED
    BY <1>0, <1>1, <1>3, <2>1, <2>2, RetryListStep
<1>4. CASE failing' = failing /\ UNCHANGED outcome
  BY <1>0, <1>1, <1>4, RetryListStep
<1>5. CASE /\ Stores(r)
           /\ rows' = [rows EXCEPT ![asked] = IF @ = "none" THEN r ELSE @]
           /\ errors' = Without(errors, asked)
           /\ counts' = [counts EXCEPT !.errored = @ - 1, !.indexed = @ + 1]
           /\ failing' = failing
  <2>1. /\ rows' \in [Files -> ParseResults \union {"none"}] /\ rows'[asked] # "none"
        /\ \A g \in Files : g # asked => rows'[g] = rows[g]
    BY <1>1, <1>5 DEF Stores, ParseResults
  <2>2. /\ errors' \in Seq(Entries)
        /\ \A k \in DOMAIN errors' :
             \E i \in DOMAIN errors : errors[i].file # asked /\ errors'[k] = errors[i]
        /\ \A i \in DOMAIN errors : errors[i].file # asked =>
             \E k \in DOMAIN errors' : errors'[k] = errors[i]
        /\ \A i, j \in DOMAIN errors' : errors'[i].file = errors'[j].file => i = j
    <3>1. \A i, j \in DOMAIN errors : errors[i].file = errors[j].file => i = j
      BY <1>0 DEF Accounted
    <3>. DEFINE t == Without(errors, asked)
    <3>2. errors \in Seq(Entries) /\ errors' = t
      BY <1>1, <1>5
    <3>3. t \in Seq(Entries)
      BY <3>2, WithoutFacts
    <3>4. \A k \in DOMAIN t : \E i \in DOMAIN errors : errors[i].file # asked /\ t[k] = errors[i]
      BY <3>2, WithoutFacts
    <3>5. \A i \in DOMAIN errors : errors[i].file # asked => \E k \in DOMAIN t : t[k] = errors[i]
      BY <3>2, WithoutFacts
    <3>6. \A i, j \in DOMAIN t : t[i].file = t[j].file => i = j
      <4>. HIDE DEF t
      <4>1. (\A i, j \in DOMAIN errors : errors[i].file = errors[j].file => i = j) =>
               \A i, j \in DOMAIN t : t[i].file = t[j].file => i = j
        BY <3>2, WithoutFacts, Zenon DEF t
      <4>. QED
        BY <3>1, <4>1
    <3>. HIDE DEF t
    <3>. QED
      BY <3>2, <3>3, <3>4, <3>5, <3>6
  <2>3. /\ counts' \in [indexed : Int, skipped : Int, errored : Int]
        /\ counts'.indexed + counts'.skipped + counts'.errored
             = counts.indexed + counts.skipped + counts.errored
    <3>1. counts \in [indexed : Int, skipped : Int, errored : Int]
      BY <1>0 DEF IndexTypeOK
    <3>2. counts.indexed \in Int /\ counts.skipped \in Int /\ counts.errored \in Int
      BY <3>1
    <3>3. counts' = [indexed |-> counts.indexed + 1, skipped |-> counts.skipped,
                     errored |-> counts.errored - 1]
      BY <1>5, <3>1
    <3>. QED
      BY <3>2, <3>3
  <2>4. \A g : InErrors(g)' <=> InErrors(g) /\ g # asked
    <3>1. \A g : InErrors(g)' => InErrors(g) /\ g # asked
      BY <2>2 DEF InErrors
    <3>2. \A g : InErrors(g) /\ g # asked => InErrors(g)'
      BY <2>2 DEF InErrors
    <3>. QED
      BY <3>1, <3>2
  <2>5. \A g : /\ Committed(g)' <=> Committed(g)
               /\ Uncommitted(g)' <=> Uncommitted(g)
    BY <1>0 DEF Committed, Uncommitted
  <2>6. IndexTypeOK'
    BY <1>0, <1>1, <1>5, <2>1, <2>2, <2>3 DEF IndexTypeOK
  <2>7. FedInOrder' /\ PassEnded'
    BY <1>0 DEF FedInOrder, PassEnded
  <2>8. OfCommitted'
    <3>1. \A g \in Files : rows'[g] # "none" => Committed(g)
      BY <1>0, <1>1, <2>1 DEF OfCommitted
    <3>2. \A k \in DOMAIN errors' : errors'[k].retryable => Committed(errors'[k].file)
      BY <1>0, <2>2 DEF OfCommitted
    <3>. QED
      BY <1>0, <1>1, <1>5, <2>5, <3>1, <3>2 DEF OfCommitted
  <2>9. Accounted'
    <3>1. counts'.indexed + counts'.skipped + counts'.errored
            = (next' - 1) - (Len(order') - nextToStore')
      BY <1>0, <2>3 DEF Accounted
    <3>2. \A g \in Files : g < next => rows'[g] # "none" \/ InErrors(g)' \/ Uncommitted(g)'
      BY <1>0, <2>1, <2>4, <2>5 DEF Accounted
    <3>3. \A g \in Files : InErrors(g)' => g < next /\ ~Uncommitted(g)'
      BY <1>0, <2>4, <2>5 DEF Accounted
    <3>. QED
      BY <1>0, <2>2, <3>1, <3>2, <3>3 DEF Accounted
  <2>. QED
    BY <2>6, <2>7, <2>8, <2>9 DEF IndexInv
<1>. QED
  BY <1>2, <1>3, <1>4, <1>5

----------------------------------------------------------------------------
(* The specification.                                                      *)

LEMMA NextInv ==
  ASSUME IndexInv, [Next]_vars
  PROVE  IndexInv'
<1>1. CASE IndexStep
  <2>1. ASSUME NEW f \in Files, ComeBack(f) PROVE IndexInv'
    BY <2>1, ComeBackStep
  <2>. QED
    BY <1>1, <2>1, NoticeStep, PassOverStep, FeedStep, EndPassStep, RetryUnreadStep, RetryStep,
       RetryCameBackStep, StatFailsStep, EndRetriesStep DEF IndexStep
<1>2. CASE \/ LateEvent
           \/ \E w \in Workers : Loads(w) \/ Reports(w) \/ Goes(w) \/ TakesTooLong(w) \/ Dies(w)
  BY <1>2, FrameStep DEF LateEvent, Loads, Reports, Goes, TakesTooLong, Dies, Stays
<1>3. CASE Abort
  BY <1>3, FrameStep DEF Abort
<1>4. CASE UNCHANGED vars
  BY <1>4, FrameStep DEF vars, firstPass, outcome, retries
<1>. QED
  BY <1>1, <1>2, <1>3, <1>4 DEF Next, Progress

LEMMA IndexInvariant == Spec => []IndexInv
BY InitInv, NextInv, PTL DEF Spec

\* Results are committed in the order of the files and each once, whatever the pool answers
\* and in whichever order; the window holds (flushOrdered and feed,
\* src/extraction/index.ts:1642-1674).
THEOREM CommittedOnce == Spec => []CommittedInOrder
<1>1. IndexInv => CommittedInOrder
  <2>. SUFFICES ASSUME IndexInv PROVE CommittedInOrder
    OBVIOUS
  <2>1. \A f \in Files : rows[f] # "none" => \E i \in 1..nextToStore : order[i] = f
    BY DEF IndexInv, OfCommitted, Committed
  <2>. QED
    BY <2>1 DEF IndexInv, FedInOrder, CommittedInOrder
<1>. QED
  BY <1>1, IndexInvariant, PTL

\* A full index that ends has counted every file of the scan, and a file that is not in the
\* store is on the list of errors, once (storeResult and recordParseFailure,
\* src/extraction/index.ts:1589-1636, and the retries, 1787-1891).
THEOREM NothingDropped == Spec => []NoFileDropped
<1>1. IndexInv => NoFileDropped
  <2>. SUFFICES ASSUME IndexInv PROVE NoFileDropped
    OBVIOUS
  <2>1. /\ FedInOrder /\ Accounted /\ PassEnded /\ order \in Seq(Files)
        /\ NFiles \in Nat /\ Len(order) \in Nat
    BY IndexAssumption, LenProperties DEF IndexInv, IndexTypeOK
  <2>2. \A i, j \in DOMAIN errors : errors[i].file = errors[j].file => i = j
    BY <2>1 DEF Accounted
  <2>3. ASSUME phase = "done"
        PROVE  /\ counts.indexed + counts.skipped + counts.errored = NFiles
               /\ \A f \in Files : rows[f] # "none" \/ InErrors(f)
    <3>1. next = NFiles + 1 /\ nextToStore = Len(order)
      BY <2>1, <2>3 DEF PassEnded
    <3>2. \A f \in Files : f < next /\ ~Uncommitted(f)
      BY <2>1, <3>1 DEF Files, Uncommitted
    <3>3. counts.indexed + counts.skipped + counts.errored = NFiles
      BY <2>1, <3>1 DEF Accounted
    <3>. QED
      BY <2>1, <3>2, <3>3 DEF Accounted
  <2>. QED
    BY <2>2, <2>3 DEF NoFileDropped, InErrors
<1>. QED
  BY <1>1, IndexInvariant, PTL

----------------------------------------------------------------------------
(* The pool under the index.                                               *)

Running == phase \in {"feeding", "retrying", "stripping"}
Untried(f, k) == pool.answer[<<f, k>>] = "none"
Distinct(s) == \A i, j \in DOMAIN s : s[i] = s[j] => i = j

\* What waits in the pool is what the index awaits.
Awaited ==
  \A c \in Calls : pool.answer[c] = "waiting" =>
    \/ \E f \in inFlight : c = <<f, 1>>
    \/ Retrying /\ asked # NoFile /\ c = <<asked, Attempt>>

\* Each attempt is made once.
AttemptsLeft ==
  /\ \A f \in Files : f >= next => Untried(f, 1)
  /\ phase = "feeding" => (\A f \in Files : Untried(f, 2)) /\ failing = <<>> /\ asked = NoFile
  /\ phase \in {"feeding", "retrying"} => \A f \in Files : Untried(f, 3)
  /\ Retrying => Distinct(todo) /\ \A i \in DOMAIN todo : Untried(todo[i], Attempt)
  /\ phase = "retrying" =>
       Distinct(failing) /\ \A i \in DOMAIN failing : failing[i] # asked /\ ~Untried(failing[i], 2)

PoolInv == AtEase(pool) /\ (Running => ~pool.destroyed) /\ Awaited /\ AttemptsLeft

LEMMA CallFacts ==
  /\ \A f \in Files, k \in Attempts : <<f, k>> \in Calls
  /\ \A c \in Calls : \E f \in Files, k \in Attempts : c = <<f, k>>
  /\ NoFile \notin Files /\ NFiles \in Nat
  /\ "none" \notin Results \union Rejections /\ "waiting" \notin Results \union Rejections
  /\ 1 \in Attempts /\ 2 \in Attempts /\ 3 \in Attempts
<1>1. Calls = Requests /\ NFiles \in Nat
  BY IndexAssumption
<1>2. "none" \notin Results \union Rejections /\ "waiting" \notin Results \union Rejections
  BY PoolAssumption DEF Rejections
<1>3. NoFile \notin Files
  BY <1>1 DEF NoFile, Files
<1>4. \A c \in Requests : \E f \in Files, k \in Attempts : c = <<f, k>>
  BY DEF Requests
<1>5. \A f \in Files, k \in Attempts : <<f, k>> \in Requests
  BY DEF Requests
<1>6. 1 \in Attempts /\ 2 \in Attempts /\ 3 \in Attempts
  BY DEF Attempts
<1>. QED
  BY <1>1, <1>2, <1>3, <1>4, <1>5, <1>6

\* The lists of the retries hold files.
LEMMA ListFacts ==
  ASSUME IndexInv
  PROVE  /\ \A i \in DOMAIN todo : todo[i] \in Files
         /\ \A i \in DOMAIN failing : failing[i] \in Files
<1>1. todo \in Seq(Files) /\ failing \in Seq(Files)
  BY DEF IndexInv, IndexTypeOK
<1>2. DOMAIN todo = 1..Len(todo) /\ DOMAIN failing = 1..Len(failing)
  BY <1>1, LenProperties
<1>. QED
  BY <1>1, <1>2, ElementOfSeq

\* A pool in which nothing waits has an empty queue.
LEMMA QueueEmpty ==
  ASSUME NEW p, AtEase(p), \A c \in Calls : p.answer[c] # "waiting"
  PROVE  p.queue = <<>>
<1>1. p.queue \in Seq(Calls) /\ Held(p)
  BY DEF AtEase, Sound, PoolType
<1>2. \A i \in 1..Len(p.queue) : p.queue[i] \in Calls
  BY <1>1, ElementOfSeq
<1>3. \A i \in 1..Len(p.queue) : FALSE
  BY <1>1, <1>2 DEF Held, InPool
<1>4. Len(p.queue) \in Nat
  BY <1>1, LenProperties
<1>5. Len(p.queue) = 0
  <2>1. Len(p.queue) # 0 => 1 \in 1..Len(p.queue)
    BY <1>4
  <2>. QED
    BY <1>3, <2>1
<1>. QED
  BY <1>1, <1>5, EmptySeq

\* Which attempts have been made does not change.
LEMMA AttemptsFrame ==
  ASSUME IndexInv, AttemptsLeft, UNCHANGED <<phase, next, failing, todo, asked>>,
         \A f \in Files, k \in Attempts :
            pool.answer[<<f, k>>] = "none" <=> pool'.answer[<<f, k>>] = "none"
  PROVE  AttemptsLeft'
<1>1. phase' = phase /\ next' = next /\ failing' = failing /\ todo' = todo /\ asked' = asked
  OBVIOUS
<1>2. \A i \in DOMAIN todo : todo[i] \in Files
  BY ListFacts
<1>3. \A i \in DOMAIN failing : failing[i] \in Files
  BY ListFacts
<1>4. 1 \in Attempts /\ 2 \in Attempts /\ 3 \in Attempts /\ Attempt \in {2, 3} /\ Attempt' = Attempt
  BY <1>1 DEF Attempts, Attempt
<1>5. \A f \in Files : (f >= next => Untried(f, 1))'
  BY <1>1, <1>4 DEF AttemptsLeft, Untried
<1>6. (phase = "feeding" => (\A f \in Files : Untried(f, 2)) /\ failing = <<>> /\ asked = NoFile)'
  BY <1>1, <1>4 DEF AttemptsLeft, Untried
<1>7. (phase \in {"feeding", "retrying"} => \A f \in Files : Untried(f, 3))'
  BY <1>1, <1>4 DEF AttemptsLeft, Untried
<1>8. (Retrying => Distinct(todo) /\ \A i \in DOMAIN todo : Untried(todo[i], Attempt))'
  <2>. SUFFICES ASSUME Retrying'
                PROVE  Distinct(todo') /\ \A i \in DOMAIN todo' : Untried(todo[i], Attempt)'
    OBVIOUS
  <2>1. Retrying
    BY <1>1 DEF Retrying
  <2>2. Distinct(todo) /\ \A i \in DOMAIN todo : Untried(todo[i], Attempt)
    BY <2>1 DEF AttemptsLeft
  <2>3. \A i \in DOMAIN todo : pool'.answer[<<todo[i], Attempt>>] = "none"
    BY <1>2, <1>4, <2>2 DEF Untried
  <2>. QED
    BY <1>1, <1>4, <2>2, <2>3 DEF Untried
<1>9. (phase = "retrying" =>
        Distinct(failing) /\ \A i \in DOMAIN failing : failing[i] # asked /\ ~Untried(failing[i], 2))'
  BY <1>1, <1>3, <1>4 DEF AttemptsLeft, Untried
<1>. QED
  BY <1>5, <1>6, <1>7, <1>8, <1>9 DEF AttemptsLeft

\* What answers calls that wait, or none.
LEMMA HandledStep ==
  ASSUME IndexInv, PoolInv, Handled(pool, pool'),
         UNCHANGED <<phase, next, inFlight, failing, todo, asked>>
  PROVE  PoolInv'
<1>1. /\ phase' = phase /\ next' = next /\ failing' = failing /\ todo' = todo /\ asked' = asked
      /\ inFlight' = inFlight
  OBVIOUS
<1>2. AtEase(pool') /\ pool'.destroyed = pool.destroyed
  BY DEF Handled
<1>3. \A c \in Calls : /\ pool'.answer[c] = "waiting" => pool.answer[c] = "waiting"
                       /\ pool.answer[c] = "none" <=> pool'.answer[c] = "none"
  BY CallFacts DEF Handled, Answered
<1>4. Awaited'
  <2>1. Retrying' = Retrying /\ Attempt' = Attempt
    BY <1>1 DEF Retrying, Attempt
  <2>. QED
    BY <1>1, <1>3, <2>1 DEF PoolInv, Awaited
<1>5. \A f \in Files, k \in Attempts :
        pool.answer[<<f, k>>] = "none" <=> pool'.answer[<<f, k>>] = "none"
  BY <1>3, CallFacts
<1>6. AttemptsLeft'
  BY <1>1, <1>5, AttemptsFrame DEF PoolInv
<1>7. Running' => ~pool'.destroyed
  BY <1>1, <1>2 DEF PoolInv, Running
<1>. QED
  BY <1>2, <1>4, <1>6, <1>7 DEF PoolInv

\* What does not touch the pool.
LEMMA PoolFrame ==
  ASSUME IndexInv, PoolInv, UNCHANGED <<pool, phase, next, failing, todo, asked>>,
         \A f \in inFlight : f \in inFlight' \/ pool.answer[<<f, 1>>] # "waiting"
  PROVE  PoolInv'
<1>1. /\ pool' = pool /\ phase' = phase /\ next' = next /\ failing' = failing /\ todo' = todo
      /\ asked' = asked
  OBVIOUS
<1>2. Awaited'
  <2>1. Retrying' = Retrying /\ Attempt' = Attempt
    BY <1>1 DEF Retrying, Attempt
  <2>. QED
    BY <1>1, <2>1 DEF PoolInv, Awaited
<1>3. AttemptsLeft'
  BY <1>1, AttemptsFrame DEF PoolInv
<1>. QED
  BY <1>1, <1>2, <1>3 DEF PoolInv, Running

LEMMA PoolInvInit == Init => PoolInv
<1>. SUFFICES ASSUME Init PROVE PoolInv
  OBVIOUS
<1>1. pool \in NewPool
  BY DEF Init
<1>2. AtEase(pool) /\ ~pool.destroyed
  BY <1>1, NewPoolAtEase, Zenon
<1>3. \A c \in Calls : pool.answer[c] = "none"
  BY <1>1, NewPoolAtEase, Zenon
<1>4. Awaited
  BY <1>3 DEF Awaited
<1>5. \A f \in Files, k \in Attempts : Untried(f, k)
  BY <1>3, CallFacts DEF Untried
<1>6. AttemptsLeft
  BY <1>5, CallFacts DEF Init, AttemptsLeft, Retrying
<1>. QED
  BY <1>2, <1>4, <1>6 DEF PoolInv

LEMMA PassOverPool ==
  ASSUME IndexInv, PoolInv, PassOver
  PROVE  PoolInv'
<1>1. /\ pool' = pool /\ phase' = phase /\ next' = next + 1 /\ failing' = failing /\ todo' = todo
      /\ asked' = asked /\ inFlight' = inFlight /\ phase = "feeding"
  BY DEF PassOver, retries, AtNextFile
<1>2. Awaited'
  <2>1. Retrying' = Retrying /\ Attempt' = Attempt
    BY <1>1 DEF Retrying, Attempt
  <2>. QED
    BY <1>1, <2>1 DEF PoolInv, Awaited
<1>3. \A f \in Files : f >= next + 1 => f >= next
  BY DEF IndexInv, IndexTypeOK, Files
<1>4. AttemptsLeft'
  BY <1>1, <1>3 DEF PoolInv, AttemptsLeft, Untried, Retrying
<1>. QED
  BY <1>1, <1>2, <1>4 DEF PoolInv, Running

\* What a request may make of the pool, in terms of what is asked of it here.
LEMMA RequestFacts ==
  ASSUME PoolInv, Running, NEW f \in Files, NEW k \in Attempts, Untried(f, k),
         pool' \in Requested(pool, <<f, k>>)
  PROVE  /\ AtEase(pool') /\ ~pool'.destroyed
         /\ \A c \in Calls : c # <<f, k>> =>
              /\ pool'.answer[c] = "waiting" => pool.answer[c] = "waiting"
              /\ pool.answer[c] = "none" <=> pool'.answer[c] = "none"
         /\ pool'.answer[<<f, k>>] # "none"
<1>1. AtEase(pool) /\ ~pool.destroyed /\ <<f, k>> \in Calls /\ pool.answer[<<f, k>>] = "none"
  BY CallFacts DEF PoolInv, Untried
<1>2. AtEase(pool') /\ ~pool'.destroyed
  BY <1>1, RequestedAtEase, Zenon
<1>3. \/ \A d \in Calls : pool'.answer[d] = IF d = <<f, k>> THEN "waiting" ELSE pool.answer[d]
      \/ \A d \in Calls : pool'.answer[d] = IF d = <<f, k>> THEN "refused"
                                            ELSE IF pool.answer[d] = "waiting" THEN "exhausted"
                                            ELSE pool.answer[d]
  BY <1>1, RequestedAtEase
<1>. QED
  BY <1>1, <1>2, <1>3

LEMMA FeedPool ==
  ASSUME IndexInv, PoolInv, Feed
  PROVE  PoolInv'
<1>1. /\ phase' = phase /\ next' = next + 1 /\ failing' = failing /\ todo' = todo
      /\ asked' = asked /\ inFlight' = inFlight \union {next} /\ phase = "feeding"
      /\ next <= NFiles /\ pool' \in Requested(pool, <<next, 1>>)
  BY DEF Feed, retries, AtNextFile
<1>2. next \in Files /\ next \in Nat
  BY <1>1, CallFacts DEF IndexInv, IndexTypeOK, Files
<1>3. Running /\ Untried(next, 1)
  <2>1. next >= next
    BY <1>2
  <2>. QED
    BY <1>1, <1>2, <2>1 DEF PoolInv, AttemptsLeft, Running
<1>4. 1 \in Attempts
  BY CallFacts
<1>5. /\ AtEase(pool') /\ ~pool'.destroyed
      /\ \A c \in Calls : c # <<next, 1>> =>
           /\ pool'.answer[c] = "waiting" => pool.answer[c] = "waiting"
           /\ pool.answer[c] = "none" <=> pool'.answer[c] = "none"
  BY <1>1, <1>2, <1>3, <1>4, RequestFacts
<1>6. Awaited'
  BY <1>1, <1>5 DEF PoolInv, Awaited, Retrying
<1>7. \A f \in Files : f >= next + 1 => f >= next /\ f # next
  BY <1>2 DEF Files
<1>8. \A f \in Files, k \in Attempts : f # next \/ k # 1 =>
        (pool.answer[<<f, k>>] = "none" <=> pool'.answer[<<f, k>>] = "none")
  <2>. SUFFICES ASSUME NEW f \in Files, NEW k \in Attempts, f # next \/ k # 1
                PROVE  pool.answer[<<f, k>>] = "none" <=> pool'.answer[<<f, k>>] = "none"
    OBVIOUS
  <2>1. <<f, k>> \in Calls /\ <<f, k>> # <<next, 1>>
    BY CallFacts
  <2>. QED
    BY <1>5, <2>1
<1>9. AttemptsLeft'
  <2>1. \A f \in Files : (f >= next => Untried(f, 1))'
    BY <1>1, <1>7, <1>8, CallFacts DEF PoolInv, AttemptsLeft, Untried
  <2>2. \A f \in Files : Untried(f, 2)' /\ Untried(f, 3)'
    <3>1. \A f \in Files : pool.answer[<<f, 2>>] = "none" /\ pool.answer[<<f, 3>>] = "none"
      BY <1>1 DEF PoolInv, AttemptsLeft, Untried
    <3>2. 2 \in Attempts /\ 3 \in Attempts /\ 2 # 1 /\ 3 # 1
      BY CallFacts
    <3>3. ASSUME NEW f \in Files
          PROVE  pool'.answer[<<f, 2>>] = "none" /\ pool'.answer[<<f, 3>>] = "none"
      <4>1. pool.answer[<<f, 2>>] = "none" <=> pool'.answer[<<f, 2>>] = "none"
        BY <1>8, <3>2, Zenon
      <4>2. pool.answer[<<f, 3>>] = "none" <=> pool'.answer[<<f, 3>>] = "none"
        BY <1>8, <3>2, Zenon
      <4>. QED
        BY <3>1, <4>1, <4>2
    <3>. QED
      BY <3>3 DEF Untried
  <2>3. failing' = <<>> /\ asked' = NoFile
    BY <1>1 DEF PoolInv, AttemptsLeft
  <2>. QED
    BY <1>1, <2>1, <2>2, <2>3 DEF AttemptsLeft, Retrying
<1>. QED
  BY <1>5, <1>6, <1>9 DEF PoolInv

\* The pool is destroyed in the end.
LEMMA EndedPool ==
  ASSUME IndexInv, PoolInv, pool' = Destroyed(pool), phase' \in {"done", "aborted"}, next' = next
  PROVE  PoolInv'
<1>1. AtEase(pool)
  BY DEF PoolInv
<1>2. AtEase(pool') /\ pool'.destroyed
  BY <1>1, DestroyedAtEase, Zenon
<1>3. \A c \in Calls : pool'.answer[c] = IF pool.answer[c] = "waiting" THEN "shutdown" ELSE pool.answer[c]
  BY <1>1, DestroyedAtEase
<1>4. Awaited'
  BY <1>3 DEF Awaited
<1>5. \A f \in Files : (f >= next => Untried(f, 1))'
  BY <1>3, CallFacts DEF PoolInv, AttemptsLeft, Untried
<1>6. AttemptsLeft'
  BY <1>5 DEF AttemptsLeft, Retrying
<1>. QED
  BY <1>2, <1>4, <1>6 DEF PoolInv, Running

\* The retries begin, with or without comments, when nothing is awaited.
LEMMA RecycledPool ==
  ASSUME IndexInv, PoolInv, Running, \A c \in Calls : pool.answer[c] # "waiting",
         pool' \in RecycledAll(pool)
  PROVE  AtEase(pool') /\ ~pool'.destroyed /\ pool'.answer = pool.answer
<1>1. AtEase(pool) /\ ~pool.destroyed
  BY DEF PoolInv
<1>2. pool.queue = <<>>
  BY <1>1, QueueEmpty, Zenon
<1>3. AtEase(pool') /\ pool'.destroyed = pool.destroyed /\ pool'.answer = pool.answer
  BY <1>1, <1>2, RecycledAllAtEase, Zenon
<1>. QED
  BY <1>1, <1>3

LEMMA EndPassPool ==
  ASSUME IndexInv, PoolInv, EndPass
  PROVE  PoolInv'
<1>. DEFINE I == {i \in DOMAIN errors : errors[i].retryable}
            again == AtPositions(errors, I)
<1>1. /\ phase = "feeding" /\ next' = next /\ inFlight' = inFlight
      /\ \/ phase' \in {"done", "aborted"} /\ pool' = Destroyed(pool)
         \/ /\ ~aborted /\ phase' = "retrying" /\ pool' \in RecycledAll(pool)
            /\ todo' = [i \in DOMAIN again |-> again[i].file]
            /\ failing' = failing /\ asked' = asked
  BY DEF EndPass, firstPass
<1>2. CASE phase' \in {"done", "aborted"} /\ pool' = Destroyed(pool)
  BY <1>1, <1>2, EndedPool
<1>3. CASE /\ ~aborted /\ phase' = "retrying" /\ pool' \in RecycledAll(pool)
           /\ todo' = [i \in DOMAIN again |-> again[i].file]
           /\ failing' = failing /\ asked' = asked
  <2>1. inFlight = {}
    BY <1>3 DEF EndPass
  <2>2. \A c \in Calls : pool.answer[c] # "waiting"
    BY <1>1, <2>1 DEF PoolInv, Awaited, Retrying
  <2>3. AtEase(pool') /\ ~pool'.destroyed /\ pool'.answer = pool.answer
    BY <1>1, <1>3, <2>2, RecycledPool DEF Running
  <2>4. errors \in Seq(Entries) /\ I \in SUBSET (DOMAIN errors)
    BY DEF IndexInv, IndexTypeOK
  <2>5. again \in Seq(Entries) /\ Lists(again, errors, I)
    BY <2>4, AtPositionsFacts
  <2>. HIDE DEF I, again
  <2>6. PICK pos \in [DOMAIN again -> I] :
           /\ \A k \in DOMAIN again : again[k] = errors[pos[k]]
           /\ \A j, k \in DOMAIN again : pos[j] = pos[k] => j = k
    BY <2>5, Zenon DEF Lists
  <2>7. \A i, j \in DOMAIN errors : errors[i].file = errors[j].file => i = j
    BY DEF IndexInv, Accounted
  <2>8. \A i, j \in DOMAIN again : again[i].file = again[j].file => i = j
    BY <2>4, <2>6, <2>7
  <2>9. Distinct(todo')
    BY <1>3, <2>8 DEF Distinct
  <2>10. \A i \in DOMAIN todo' : todo'[i] \in Files
    <3>1. DOMAIN again = 1..Len(again) /\ \A i \in 1..Len(again) : again[i] \in Entries
      BY <2>5, LenProperties, ElementOfSeq
    <3>2. \A i \in DOMAIN again : again[i].file \in Files
      BY <3>1 DEF Entries
    <3>. QED
      BY <1>3, <3>2
  <2>11. /\ \A f \in Files : f >= next => pool.answer[<<f, 1>>] = "none"
         /\ \A f \in Files : pool.answer[<<f, 2>>] = "none"
         /\ \A f \in Files : pool.answer[<<f, 3>>] = "none"
         /\ failing = <<>>
    BY <1>1 DEF PoolInv, AttemptsLeft, Untried
  <2>12. Attempt' = 2
    BY <1>3 DEF Attempt
  <2>13. (Distinct(todo) /\ \A i \in DOMAIN todo : Untried(todo[i], Attempt))'
    BY <2>3, <2>9, <2>10, <2>11, <2>12 DEF Untried
  <2>14. Distinct(failing') /\ DOMAIN failing' = {}
    BY <1>3, <2>11 DEF Distinct
  <2>15. AttemptsLeft'
    BY <1>1, <1>3, <2>3, <2>11, <2>13, <2>14 DEF AttemptsLeft, Untried
  <2>16. Awaited'
    BY <2>2, <2>3 DEF Awaited
  <2>. QED
    BY <2>3, <2>15, <2>16 DEF PoolInv
<1>. QED
  BY <1>1, <1>2, <1>3

\* The list of files to retry is shorter by its head.
LEMMA TailFacts ==
  ASSUME IndexInv, PoolInv, Retrying, todo # <<>>
  PROVE  /\ Head(todo) \in Files /\ Untried(Head(todo), Attempt)
         /\ Distinct(Tail(todo))
         /\ \A i \in DOMAIN Tail(todo) : /\ Tail(todo)[i] \in Files /\ Tail(todo)[i] # Head(todo)
                                         /\ Untried(Tail(todo)[i], Attempt)
<1>1. /\ todo \in Seq(Files) /\ Distinct(todo) /\ \A i \in DOMAIN todo : Untried(todo[i], Attempt)
  BY DEF IndexInv, IndexTypeOK, PoolInv, AttemptsLeft
<1>2. /\ Len(todo) \in Nat /\ Len(todo) # 0 /\ DOMAIN todo = 1..Len(todo)
      /\ Head(todo) = todo[1] /\ 1 \in DOMAIN todo
  BY <1>1, EmptySeq, LenProperties, HeadTailProperties
<1>3. /\ Tail(todo) \in Seq(Files) /\ DOMAIN Tail(todo) = 1..(Len(todo) - 1)
      /\ \A i \in 1..(Len(todo) - 1) : Tail(todo)[i] = todo[i + 1]
  BY <1>1, <1>2, HeadTailProperties, LenProperties
<1>4. \A i \in DOMAIN Tail(todo) : i + 1 \in DOMAIN todo /\ i + 1 # 1 /\ i \in Nat
  BY <1>2, <1>3
<1>5. \A i \in DOMAIN todo : todo[i] \in Files
  BY <1>1, <1>2, ElementOfSeq
<1>6. Distinct(Tail(todo))
  <2>. SUFFICES ASSUME NEW i \in DOMAIN Tail(todo), NEW j \in DOMAIN Tail(todo),
                       Tail(todo)[i] = Tail(todo)[j]
                PROVE  i = j
    BY DEF Distinct
  <2>1. i + 1 = j + 1
    BY <1>1, <1>3, <1>4 DEF Distinct
  <2>. QED
    BY <1>4, <2>1
<1>7. \A i \in DOMAIN Tail(todo) : Tail(todo)[i] # Head(todo)
  BY <1>1, <1>2, <1>3, <1>4 DEF Distinct
<1>. QED
  BY <1>1, <1>2, <1>3, <1>4, <1>5, <1>6, <1>7

LEMMA RetryUnreadPool ==
  ASSUME IndexInv, PoolInv, RetryUnread
  PROVE  PoolInv'
<1>1. /\ pool' = pool /\ phase' = phase /\ next' = next /\ failing' = failing /\ inFlight' = inFlight
      /\ asked' = asked /\ todo' = Tail(todo) /\ Retrying /\ todo # <<>>
  BY DEF RetryUnread, firstPass
<1>2. Distinct(Tail(todo)) /\ \A i \in DOMAIN Tail(todo) : Untried(Tail(todo)[i], Attempt)
  BY <1>1, TailFacts
<1>3. Retrying' = Retrying /\ Attempt' = Attempt
  BY <1>1 DEF Retrying, Attempt
<1>4. Awaited'
  BY <1>1, <1>3 DEF PoolInv, Awaited
<1>5. AttemptsLeft'
  BY <1>1, <1>2, <1>3 DEF PoolInv, AttemptsLeft, Untried
<1>. QED
  BY <1>1, <1>4, <1>5 DEF PoolInv, Running

LEMMA RetryPool ==
  ASSUME IndexInv, PoolInv, Retry
  PROVE  PoolInv'
<1>. DEFINE f == Head(todo)
            k == Attempt
<1>1. /\ phase' = phase /\ next' = next /\ failing' = failing /\ inFlight' = inFlight
      /\ asked = NoFile /\ asked' = f /\ todo' = Tail(todo) /\ Retrying /\ todo # <<>>
      /\ pool' \in Requested(pool, <<f, k>>)
  BY DEF Retry, firstPass
<1>2. /\ f \in Files /\ Untried(f, k)
      /\ Distinct(Tail(todo))
      /\ \A i \in DOMAIN Tail(todo) : /\ Tail(todo)[i] \in Files /\ Tail(todo)[i] # f
                                      /\ Untried(Tail(todo)[i], k)
  BY <1>1, TailFacts
<1>3. /\ Running /\ k \in {2, 3} /\ k \in Attempts
      /\ phase = "retrying" => k = 2
  BY <1>1 DEF Retrying, Running, Attempt, Attempts
<1>4. Retrying' = Retrying /\ Attempt' = k
  BY <1>1 DEF Retrying, Attempt
<1>. HIDE DEF f, k
<1>5. /\ AtEase(pool') /\ ~pool'.destroyed
      /\ \A c \in Calls : c # <<f, k>> =>
           /\ pool'.answer[c] = "waiting" => pool.answer[c] = "waiting"
           /\ pool.answer[c] = "none" <=> pool'.answer[c] = "none"
      /\ pool'.answer[<<f, k>>] # "none"
  BY <1>1, <1>2, <1>3, RequestFacts
<1>6. Awaited'
  <2>. SUFFICES ASSUME NEW c \in Calls, pool'.answer[c] = "waiting", c # <<f, k>>
                PROVE  \E g \in inFlight : c = <<g, 1>>
    BY <1>1, <1>2, <1>4, CallFacts DEF Awaited
  <2>. QED
    BY <1>1, <1>5 DEF PoolInv, Awaited
<1>7. \A g \in Files, m \in Attempts : g # f \/ m # k =>
        (pool.answer[<<g, m>>] = "none" <=> pool'.answer[<<g, m>>] = "none")
  <2>. SUFFICES ASSUME NEW g \in Files, NEW m \in Attempts, g # f \/ m # k
                PROVE  pool.answer[<<g, m>>] = "none" <=> pool'.answer[<<g, m>>] = "none"
    OBVIOUS
  <2>1. <<g, m>> \in Calls /\ <<g, m>> # <<f, k>>
    BY CallFacts
  <2>. QED
    BY <1>5, <2>1
<1>8. \A g \in Files : (g >= next => Untried(g, 1))'
  <2>1. 1 # k /\ 1 \in Attempts
    BY <1>3, CallFacts
  <2>2. \A g \in Files : pool.answer[<<g, 1>>] = "none" <=> pool'.answer[<<g, 1>>] = "none"
    BY <1>7, <2>1
  <2>. QED
    BY <1>1, <2>2 DEF PoolInv, AttemptsLeft, Untried
<1>9. (phase \in {"feeding", "retrying"} => \A g \in Files : Untried(g, 3))'
  <2>. SUFFICES ASSUME phase' \in {"feeding", "retrying"} PROVE \A g \in Files : Untried(g, 3)'
    OBVIOUS
  <2>1. phase = "retrying" /\ k = 2
    BY <1>1, <1>3 DEF Retrying
  <2>2. 3 # k /\ 3 \in Attempts
    BY <2>1, CallFacts
  <2>3. \A g \in Files : pool.answer[<<g, 3>>] = "none" <=> pool'.answer[<<g, 3>>] = "none"
    BY <1>7, <2>2
  <2>. QED
    BY <2>1, <2>3 DEF PoolInv, AttemptsLeft, Untried
<1>10. (Retrying => Distinct(todo) /\ \A i \in DOMAIN todo : Untried(todo[i], Attempt))'
  <2>1. \A i \in DOMAIN Tail(todo) : pool'.answer[<<Tail(todo)[i], k>>] = "none"
    BY <1>2, <1>3, <1>7 DEF Untried
  <2>. QED
    BY <1>1, <1>2, <1>4, <2>1 DEF Untried
<1>11. (phase = "retrying" =>
         Distinct(failing) /\ \A i \in DOMAIN failing : failing[i] # asked /\ ~Untried(failing[i], 2))'
  <2>. SUFFICES ASSUME phase = "retrying"
                PROVE  /\ Distinct(failing)
                       /\ \A i \in DOMAIN failing : failing[i] # f /\ pool'.answer[<<failing[i], 2>>] # "none"
    BY <1>1 DEF Untried
  <2>1. /\ Distinct(failing)
        /\ \A i \in DOMAIN failing : pool.answer[<<failing[i], 2>>] # "none" /\ failing[i] \in Files
    BY ListFacts DEF PoolInv, AttemptsLeft, Untried
  <2>2. pool.answer[<<f, 2>>] = "none" /\ k = 2 /\ 2 \in Attempts
    BY <1>2, <1>3, CallFacts DEF Untried
  <2>3. \A i \in DOMAIN failing : failing[i] # f
    BY <2>1, <2>2
  <2>4. \A i \in DOMAIN failing : pool'.answer[<<failing[i], 2>>] # "none"
    BY <1>7, <2>1, <2>2, <2>3
  <2>. QED
    BY <2>1, <2>3, <2>4
<1>12. phase' # "feeding"
  BY <1>1 DEF Retrying
<1>13. AttemptsLeft'
  BY <1>8, <1>9, <1>10, <1>11, <1>12 DEF AttemptsLeft
<1>. QED
  BY <1>5, <1>6, <1>13 DEF PoolInv

LEMMA RetryCameBackPool ==
  ASSUME IndexInv, PoolInv, RetryCameBack
  PROVE  PoolInv'
<1>1. /\ pool' = pool /\ phase' = phase /\ next' = next /\ inFlight' = inFlight
      /\ asked # NoFile /\ asked' = NoFile /\ todo' = todo /\ Retrying
      /\ pool.answer[<<asked, Attempt>>] \notin {"none", "waiting"}
      /\ failing' = failing \/ (failing' = Append(failing, asked) /\ Attempt = 2)
  BY DEF RetryCameBack, firstPass, Ended, Came
<1>2. Retrying' = Retrying /\ Attempt' = Attempt
  BY <1>1 DEF Retrying, Attempt
<1>3. Awaited'
  BY <1>1 DEF PoolInv, Awaited
<1>4. (phase = "retrying" =>
        Distinct(failing) /\ \A i \in DOMAIN failing : failing[i] # asked /\ ~Untried(failing[i], 2))'
  <2>. SUFFICES ASSUME phase = "retrying"
                PROVE  /\ Distinct(failing')
                       /\ \A i \in DOMAIN failing' : failing'[i] # NoFile /\ ~Untried(failing'[i], 2)
    BY <1>1 DEF Untried
  <2>1. /\ Distinct(failing)
        /\ \A i \in DOMAIN failing : /\ failing[i] # asked /\ ~Untried(failing[i], 2)
                                     /\ failing[i] \in Files
    BY ListFacts DEF PoolInv, AttemptsLeft
  <2>2. asked \in Files /\ failing \in Seq(Files) /\ ~Untried(asked, Attempt)
    BY <1>1 DEF IndexInv, IndexTypeOK, Untried
  <2>3. CASE failing' = failing
    BY <2>1, <2>3, CallFacts
  <2>4. CASE failing' = Append(failing, asked) /\ Attempt = 2
    <3>1. /\ Len(failing) \in Nat /\ DOMAIN failing = 1..Len(failing)
          /\ DOMAIN failing' = 1..(Len(failing) + 1) /\ failing'[Len(failing) + 1] = asked
          /\ \A i \in 1..Len(failing) : failing'[i] = failing[i]
      BY <2>2, <2>4, AppendProperties, LenProperties
    <3>2. \A i \in DOMAIN failing' : i \in DOMAIN failing \/ i = Len(failing) + 1
      BY <3>1
    <3>3. \A i \in DOMAIN failing' : failing'[i] # NoFile /\ ~Untried(failing'[i], 2)
      BY <2>1, <2>2, <2>4, <3>1, <3>2, CallFacts
    <3>4. Distinct(failing')
      BY <2>1, <3>1, <3>2 DEF Distinct
    <3>. QED
      BY <3>3, <3>4
  <2>. QED
    BY <1>1, <2>3, <2>4
<1>5. phase' # "feeding"
  BY <1>1 DEF Retrying
<1>6. AttemptsLeft'
  <2>1. \A f \in Files : (f >= next => Untried(f, 1))'
    BY <1>1 DEF PoolInv, AttemptsLeft, Untried
  <2>2. (phase \in {"feeding", "retrying"} => \A f \in Files : Untried(f, 3))'
    BY <1>1 DEF PoolInv, AttemptsLeft, Untried
  <2>3. (Retrying => Distinct(todo) /\ \A i \in DOMAIN todo : Untried(todo[i], Attempt))'
    BY <1>1, <1>2 DEF PoolInv, AttemptsLeft, Untried
  <2>. QED
    BY <1>4, <1>5, <2>1, <2>2, <2>3 DEF AttemptsLeft
<1>. QED
  BY <1>1, <1>3, <1>6 DEF PoolInv, Running

LEMMA StatFailsPool ==
  ASSUME IndexInv, PoolInv, StatFails
  PROVE  PoolInv'
<1>1. /\ pool' = pool /\ phase' = "threw" /\ next' = next /\ inFlight' = inFlight
      /\ Stores(pool.answer[<<asked, Attempt>>])
  BY DEF StatFails, firstPass, Came
<1>2. pool.answer[<<asked, Attempt>>] # "waiting"
  BY <1>1 DEF Stores
<1>3. Awaited'
  BY <1>1, <1>2 DEF PoolInv, Awaited
<1>4. AttemptsLeft'
  BY <1>1 DEF PoolInv, AttemptsLeft, Untried, Retrying
<1>. QED
  BY <1>1, <1>3, <1>4 DEF PoolInv, Running

LEMMA EndRetriesPool ==
  ASSUME IndexInv, PoolInv, EndRetries
  PROVE  PoolInv'
<1>1. /\ Retrying /\ asked = NoFile /\ next' = next /\ inFlight' = inFlight /\ asked' = asked
      /\ \/ phase' = "done" /\ pool' = Destroyed(pool)
         \/ /\ phase = "retrying" /\ phase' = "stripping" /\ pool' \in RecycledAll(pool)
            /\ todo' = failing
  BY DEF EndRetries, firstPass
<1>2. CASE phase' = "done" /\ pool' = Destroyed(pool)
  BY <1>1, <1>2, EndedPool
<1>3. CASE /\ phase = "retrying" /\ phase' = "stripping" /\ pool' \in RecycledAll(pool)
           /\ todo' = failing
  <2>1. inFlight = {}
    BY <1>3 DEF IndexInv, PassEnded
  <2>2. \A c \in Calls : pool.answer[c] # "waiting"
    BY <1>1, <2>1 DEF PoolInv, Awaited
  <2>3. AtEase(pool') /\ ~pool'.destroyed /\ pool'.answer = pool.answer
    BY <1>3, <2>2, RecycledPool DEF Running
  <2>4. Awaited'
    BY <2>2, <2>3 DEF Awaited
  <2>5. Attempt' = 3
    BY <1>3 DEF Attempt
  <2>6. /\ Distinct(failing) /\ \A f \in Files : pool.answer[<<f, 3>>] = "none"
        /\ \A f \in Files : f >= next => pool.answer[<<f, 1>>] = "none"
    BY <1>3 DEF PoolInv, AttemptsLeft, Untried
  <2>7. (Distinct(todo) /\ \A i \in DOMAIN todo : Untried(todo[i], Attempt))'
    BY <1>3, <2>3, <2>5, <2>6, ListFacts DEF Untried
  <2>8. \A f \in Files : (f >= next => Untried(f, 1))'
    BY <1>1, <2>3, <2>6 DEF Untried
  <2>9. AttemptsLeft'
    BY <1>3, <2>7, <2>8 DEF AttemptsLeft
  <2>. QED
    BY <2>3, <2>4, <2>9 DEF PoolInv
<1>. QED
  BY <1>1, <1>2, <1>3

\* The pool's own events answer calls that wait, or none.
LEMMA EventHandled ==
  ASSUME PoolInv, \/ LateEvent
                  \/ \E w \in Workers : Loads(w) \/ Reports(w) \/ Goes(w) \/ TakesTooLong(w) \/ Dies(w)
  PROVE  Handled(pool, pool') /\ Stays
<1>1. AtEase(pool)
  BY DEF PoolInv
<1>2. CASE LateEvent
  BY <1>1, <1>2, AlreadyHandledAtEase DEF LateEvent
<1>3. ASSUME NEW w \in Workers, Loads(w) PROVE Handled(pool, pool') /\ Stays
  BY <1>1, <1>3, GrammarsLoadedAtEase DEF Loads
<1>4. ASSUME NEW w \in Workers, Reports(w) PROVE Handled(pool, pool') /\ Stays
  <2>1. /\ pool.threads[w].parses # NoCall /\ Stays
        /\ \E r \in Yields[pool.threads[w].parses[1]] : pool' \in ParseResult(pool, w, r)
    BY <1>4 DEF Reports
  <2>2. pool.threads[w].parses \in Calls
    <3>1. pool.threads[w] \in ThreadType
      BY <1>1 DEF AtEase, Sound, PoolType
    <3>. QED
      BY <2>1, <3>1 DEF ThreadType
  <2>3. pool.threads[w].parses[1] \in Files
    BY <2>2, CallFacts
  <2>4. Yields[pool.threads[w].parses[1]] \subseteq Results
    BY <2>3, IndexAssumption
  <2>. QED
    BY <1>1, <2>1, <2>4, ParseResultAtEase
<1>5. ASSUME NEW w \in Workers, Goes(w) PROVE Handled(pool, pool') /\ Stays
  BY <1>1, <1>5, WorkerGoneAtEase DEF Goes
<1>6. ASSUME NEW w \in Workers, TakesTooLong(w) PROVE Handled(pool, pool') /\ Stays
  BY <1>1, <1>6, TimedOutAtEase DEF TakesTooLong
<1>7. ASSUME NEW w \in Workers, Dies(w) PROVE Handled(pool, pool') /\ Stays
  BY <1>1, <1>7, DiedAtEase DEF Dies
<1>. QED
  BY <1>2, <1>3, <1>4, <1>5, <1>6, <1>7

LEMMA PoolInvStep ==
  ASSUME IndexInv, PoolInv, [Next]_vars
  PROVE  PoolInv'
<1>1. CASE Notice \/ Abort \/ UNCHANGED vars
  <2>1. UNCHANGED <<pool, phase, next, failing, todo, asked, inFlight>>
    BY <1>1 DEF Notice, Abort, vars, firstPass, retries
  <2>. QED
    BY <2>1, PoolFrame
<1>2. ASSUME NEW f \in Files, ComeBack(f) PROVE PoolInv'
  <2>1. UNCHANGED <<pool, phase, next, failing, todo, asked>> /\ inFlight' = inFlight \ {f}
    BY <1>2 DEF ComeBack, retries
  <2>2. pool.answer[<<f, 1>>] # "waiting"
    BY <1>2 DEF ComeBack, Ended, Came
  <2>. QED
    BY <2>1, <2>2, PoolFrame
<1>3. CASE \/ LateEvent
           \/ \E w \in Workers : Loads(w) \/ Reports(w) \/ Goes(w) \/ TakesTooLong(w) \/ Dies(w)
  <2>1. Handled(pool, pool') /\ Stays
    BY <1>3, EventHandled
  <2>2. UNCHANGED <<phase, next, inFlight, failing, todo, asked>>
    BY <2>1 DEF Stays, firstPass, retries
  <2>. QED
    BY <2>1, <2>2, HandledStep
<1>4. CASE PassOver \/ Feed \/ EndPass \/ RetryUnread \/ Retry \/ RetryCameBack \/ StatFails \/ EndRetries
  BY <1>4, PassOverPool, FeedPool, EndPassPool, RetryUnreadPool, RetryPool, RetryCameBackPool,
     StatFailsPool, EndRetriesPool
<1>. QED
  BY <1>1, <1>2, <1>3, <1>4 DEF Next, Progress, IndexStep

LEMMA PoolInvariant == Spec => [](IndexInv /\ PoolInv)
<1>1. Init => IndexInv /\ PoolInv
  BY InitInv, PoolInvInit
<1>2. IndexInv /\ PoolInv /\ [Next]_vars => (IndexInv /\ PoolInv)'
  BY NextInv, PoolInvStep
<1>. QED
  BY <1>1, <1>2, PTL DEF Spec

\* Capacity neither leaks nor grows, however workers go: a worker in service is starting, idle
\* or busy and only one of them, a call that waits is in one place, none is stranded in the
\* queue, and no death is charged twice (src/extraction/parse-pool.ts:230-262, 284).
THEOREM ParsePoolAccounted == Spec => []PoolAccounted
<1>1. PoolInv => PoolAccounted
  <2>. SUFFICES ASSUME PoolInv PROVE PoolAccounted
    OBVIOUS
  <2>1. AtEase(pool)
    BY DEF PoolInv
  <2>2. pool.workers = pool.pending \union ToSet(pool.idle) \union Busy(pool)
    BY <2>1 DEF AtEase, Sound, WorkersPlaced
  <2>3. /\ Cardinality(pool.workers)
             = Cardinality(pool.pending) + Len(pool.idle) + Cardinality(Busy(pool))
        /\ Cardinality(pool.workers) <= MaxSize
    BY <2>1, WorkersCounted
  <2>4. \A c \in Calls : pool.answer[c] = "waiting" =>
          Cardinality({i \in DOMAIN pool.queue : pool.queue[i] = c})
            + Cardinality({w \in Workers : pool.inflight[w] = c}) = 1
    BY <2>1, CallsCounted
  <2>5. pool.queue # <<>> => pool.idle = <<>> /\ pool.workers # {}
    BY <2>1 DEF AtEase, NoneStranded
  <2>6. pool.totalCrashes <= pool.faults
    BY <2>1, BudgetCounted
  <2>. QED
    BY <2>2, <2>3, <2>4, <2>5, <2>6 DEF PoolAccounted
<1>. QED
  BY <1>1, PoolInvariant, PTL

\* A step of the index is a step of the promised service, or none.
LEMMA ServiceStep ==
  ASSUME IndexInv, PoolInv, [Next]_vars
  PROVE  [Service!Next]_(Service!vars)
<1>. DEFINE View(v) == CASE v \in Results -> "resolved"
                         [] v \in Rejections -> "rejected"
                         [] v = "shutdown" -> "shutdown"
                         [] OTHER -> "none"
            Answers == {"resolved", "rejected"}
            open == {c \in Calls : pool.answer[c] = "waiting"}
            answers == [c \in Calls |-> View(pool.answer[c])]
<1>1. Results \intersect (Rejections \union {"none", "waiting", "refused", "shutdown"}) = {}
  BY PoolAssumption
<1>2. /\ \A v \in Results : View(v) = "resolved"
      /\ \A v \in Rejections : View(v) = "rejected"
      /\ View("shutdown") = "shutdown" /\ View("none") = "none"
      /\ View("waiting") = "none" /\ View("refused") = "none"
  <2>1. /\ "shutdown" \notin Results /\ "none" \notin Results /\ "waiting" \notin Results
        /\ "refused" \notin Results
    BY <1>1
  <2>2. /\ "shutdown" \notin Rejections /\ "none" \notin Rejections /\ "waiting" \notin Rejections
        /\ "refused" \notin Rejections
    BY DEF Rejections
  <2>3. \A v \in Rejections : v \notin Results
    BY <1>1
  <2>4. View("shutdown") = "shutdown" /\ View("none") = "none"
    BY <2>1, <2>2
  <2>5. View("waiting") = "none" /\ View("refused") = "none"
    BY <2>1, <2>2
  <2>6. \A v \in Results : View(v) = "resolved"
    BY <1>1
  <2>7. \A v \in Rejections : View(v) = "rejected"
    BY <2>2, <2>3
  <2>. QED
    BY <2>4, <2>5, <2>6, <2>7
<1>3. AtEase(pool) /\ pool.answer \in [Calls -> Verdicts] /\ (Running => ~pool.destroyed)
  BY DEF PoolInv, AtEase, Sound, PoolType
\* Some or all of those that wait are answered.
<1>4. ASSUME pool'.destroyed = pool.destroyed,
             \A c \in Calls :
                \/ pool'.answer[c] = pool.answer[c]
                \/ pool.answer[c] = "none" /\ pool'.answer[c] = "refused"
                \/ pool.answer[c] = "waiting" /\ pool'.answer[c] \in Results \union Rejections
      PROVE  [Service!Next]_(Service!vars)
  <2>. DEFINE C == {c \in open : pool'.answer[c] # "waiting"}
              a == [c \in C |-> View(pool'.answer[c])]
  <2>1. \A c \in Calls : /\ c \notin C => View(pool'.answer[c]) = View(pool.answer[c])
                         /\ c \in C => View(pool'.answer[c]) \in Answers
    <3>. HIDE DEF View
    <3>. QED
      BY <1>2, <1>4
  <2>2. open' = open \ C
    BY <1>1, <1>4
  <2>3. answers' = [c \in Calls |-> IF c \in C THEN a[c] ELSE answers[c]]
    <3>. HIDE DEF View
    <3>. QED
      BY <2>1
  <2>4. a \in [C -> Answers]
    <3>. HIDE DEF View
    <3>. QED
      BY <2>1
  <2>5. CASE C = {}
    <3>1. open' = open /\ answers' = answers
      <4>. HIDE DEF View
      <4>. QED
        BY <2>2, <2>3, <2>5
    <3>. QED
      BY <1>4, <3>1 DEF Service!vars
  <2>6. CASE C # {}
    <3>1. PICK D \in SUBSET open : D = C
      OBVIOUS
    <3>2. D # {} /\ open' = open \ D
      BY <2>2, <2>6, <3>1
    <3>3. PICK b \in [D -> Answers] :
             answers' = [c \in Calls |-> IF c \in D THEN b[c] ELSE answers[c]]
      <4>. HIDE DEF C, a, View
      <4>. QED
        BY <2>3, <2>4, <3>1
    <3>4. Service!Answer(D)
      BY <1>4, <3>2, <3>3 DEF Service!Answer
    <3>. QED
      BY <3>1, <3>4 DEF Service!Next
  <2>. QED
    BY <2>5, <2>6
\* A call is taken on.
<1>5. ASSUME NEW c \in Calls, ~pool.destroyed, ~pool'.destroyed, pool.answer[c] = "none",
             \A d \in Calls : pool'.answer[d] = IF d = c THEN "waiting" ELSE pool.answer[d],
             pool'.destroyed = pool.destroyed
      PROVE  [Service!Next]_(Service!vars)
  <2>1. c \notin open /\ open' = open \union {c}
    BY <1>5
  <2>2. answers' = answers /\ answers[c] = "none"
    <3>. HIDE DEF View
    <3>. QED
      BY <1>2, <1>5
  <2>3. Service!Accept(c)
    BY <1>5, <2>1, <2>2 DEF Service!Accept
  <2>. QED
    BY <2>3 DEF Service!Next
<1>6. ASSUME NEW c \in Calls, ~pool.destroyed, pool.answer[c] = "none", pool' \in Requested(pool, c)
      PROVE  [Service!Next]_(Service!vars)
  <2>1. AtEase(pool') /\ ~pool'.destroyed
    BY <1>3, <1>6, RequestedAtEase, Zenon
  <2>2. pool'.destroyed = pool.destroyed
    BY <1>3, <1>6, <2>1 DEF AtEase, Sound, PoolType
  <2>3. CASE \A d \in Calls : pool'.answer[d] = IF d = c THEN "waiting" ELSE pool.answer[d]
    BY <1>5, <1>6, <2>1, <2>2, <2>3
  <2>4. CASE \A d \in Calls : pool'.answer[d] = IF d = c THEN "refused"
                                                ELSE IF pool.answer[d] = "waiting" THEN "exhausted"
                                                ELSE pool.answer[d]
    <3>1. "exhausted" \in Rejections
      BY DEF Rejections
    <3>2. \A d \in Calls :
             \/ pool'.answer[d] = pool.answer[d]
             \/ pool.answer[d] = "none" /\ pool'.answer[d] = "refused"
             \/ pool.answer[d] = "waiting" /\ pool'.answer[d] \in Results \union Rejections
      BY <1>6, <2>4, <3>1
    <3>. QED
      BY <1>4, <2>2, <3>2
  <2>. QED
    BY <1>3, <1>6, <2>3, <2>4, RequestedAtEase
\* destroy().
<1>7. ASSUME ~pool.destroyed, pool' = Destroyed(pool)
      PROVE  [Service!Next]_(Service!vars)
  <2>1. pool'.destroyed = TRUE
    <3>1. AtEase(pool') /\ pool'.destroyed
      BY <1>3, <1>7, DestroyedAtEase, Zenon
    <3>. QED
      BY <3>1 DEF AtEase, Sound, PoolType
  <2>2. \A c \in Calls : pool'.answer[c] = IF pool.answer[c] = "waiting" THEN "shutdown" ELSE pool.answer[c]
    BY <1>3, <1>7, DestroyedAtEase
  <2>3. open' = {}
    BY <2>2
  <2>4. answers' = [c \in Calls |-> IF c \in open THEN "shutdown" ELSE answers[c]]
    <3>. HIDE DEF View
    <3>. QED
      BY <1>2, <2>2
  <2>5. Service!Shutdown
    BY <1>7, <2>1, <2>3, <2>4 DEF Service!Shutdown
  <2>. QED
    BY <2>5 DEF Service!Next
<1>8. ASSUME pool'.answer = pool.answer, pool'.destroyed = pool.destroyed
      PROVE  [Service!Next]_(Service!vars)
  BY <1>4, <1>8
\* The steps.
<1>9. CASE Feed
  <2>1. phase = "feeding" /\ next <= NFiles /\ pool' \in Requested(pool, <<next, 1>>)
    BY <1>9 DEF Feed, AtNextFile
  <2>2. next \in Files /\ next >= next
    BY <2>1, CallFacts DEF IndexInv, IndexTypeOK, Files
  <2>3. <<next, 1>> \in Calls /\ pool.answer[<<next, 1>>] = "none" /\ ~pool.destroyed
    BY <1>3, <2>1, <2>2, CallFacts DEF PoolInv, AttemptsLeft, Untried, Running
  <2>. QED
    BY <1>6, <2>1, <2>3
<1>10. CASE Retry
  <2>1. Retrying /\ todo # <<>> /\ pool' \in Requested(pool, <<Head(todo), Attempt>>)
    BY <1>10 DEF Retry
  <2>2. Head(todo) \in Files /\ Untried(Head(todo), Attempt)
    BY <2>1, TailFacts
  <2>3. Attempt \in Attempts /\ Running
    BY <2>1 DEF Attempt, Attempts, Retrying, Running
  <2>4. /\ <<Head(todo), Attempt>> \in Calls /\ pool.answer[<<Head(todo), Attempt>>] = "none"
        /\ ~pool.destroyed
    BY <1>3, <2>2, <2>3, CallFacts DEF Untried
  <2>. QED
    BY <1>6, <2>1, <2>4
<1>11. CASE EndPass
  <2>1. /\ phase = "feeding"
        /\ \/ pool' = Destroyed(pool)
           \/ ~aborted /\ inFlight = {} /\ pool' \in RecycledAll(pool)
    BY <1>11 DEF EndPass
  <2>2. CASE pool' = Destroyed(pool)
    BY <1>3, <1>7, <2>1, <2>2 DEF Running
  <2>3. CASE ~aborted /\ inFlight = {} /\ pool' \in RecycledAll(pool)
    <3>1. \A c \in Calls : pool.answer[c] # "waiting"
      BY <2>1, <2>3 DEF PoolInv, Awaited, Retrying
    <3>2. pool'.answer = pool.answer /\ AtEase(pool') /\ ~pool'.destroyed /\ ~pool.destroyed
      BY <1>3, <2>1, <2>3, <3>1, RecycledPool DEF Running
    <3>3. pool'.destroyed = pool.destroyed
      BY <1>3, <3>2 DEF AtEase, Sound, PoolType
    <3>. QED
      BY <1>8, <3>2, <3>3
  <2>. QED
    BY <2>1, <2>2, <2>3
<1>12. CASE EndRetries
  <2>1. /\ Retrying /\ asked = NoFile
        /\ \/ pool' = Destroyed(pool)
           \/ phase = "retrying" /\ pool' \in RecycledAll(pool)
    BY <1>12 DEF EndRetries
  <2>2. CASE pool' = Destroyed(pool)
    BY <1>3, <1>7, <2>1, <2>2 DEF Running, Retrying
  <2>3. CASE phase = "retrying" /\ pool' \in RecycledAll(pool)
    <3>1. \A c \in Calls : pool.answer[c] # "waiting"
      BY <2>1, <2>3 DEF PoolInv, Awaited, IndexInv, PassEnded
    <3>2. pool'.answer = pool.answer /\ AtEase(pool') /\ ~pool'.destroyed /\ ~pool.destroyed
      BY <1>3, <2>3, <3>1, RecycledPool DEF Running
    <3>3. pool'.destroyed = pool.destroyed
      BY <1>3, <3>2 DEF AtEase, Sound, PoolType
    <3>. QED
      BY <1>8, <3>2, <3>3
  <2>. QED
    BY <2>1, <2>2, <2>3
<1>13. CASE \/ LateEvent
            \/ \E w \in Workers : Loads(w) \/ Reports(w) \/ Goes(w) \/ TakesTooLong(w) \/ Dies(w)
  <2>1. Handled(pool, pool')
    BY <1>13, EventHandled
  <2>. QED
    BY <1>4, <2>1 DEF Handled, Answered
<1>14. ASSUME UNCHANGED pool PROVE [Service!Next]_(Service!vars)
  BY <1>8, <1>14
<1>15. CASE \/ Notice \/ PassOver \/ RetryUnread \/ RetryCameBack \/ StatFails \/ Abort
            \/ (\E f \in Files : ComeBack(f)) \/ UNCHANGED vars
  <2>1. UNCHANGED pool
    BY <1>15 DEF Notice, PassOver, RetryUnread, RetryCameBack, StatFails, Abort, ComeBack, vars
  <2>. QED
    BY <1>14, <2>1
<1>. HIDE DEF View, Answers, open, answers
<1>. QED
  BY <1>9, <1>10, <1>11, <1>12, <1>13, <1>15 DEF Next, Progress, IndexStep

\* The pool implements CallService: a parse is accepted once and settled once, resolved or
\* rejected, and destroy() leaves nobody waiting (src/extraction/parse-pool.ts:185-187, 328-334, 345-354).
THEOREM ParsePoolImplementsService == Spec => KeepsPromise
<1>1. Init => Service!Init
  <2>. SUFFICES ASSUME Init PROVE Service!Init
    OBVIOUS
  <2>1. pool \in NewPool
    BY DEF Init
  <2>2. ~pool.destroyed /\ AtEase(pool)
    BY <2>1, NewPoolAtEase, Zenon
  <2>3. \A c \in Calls : pool.answer[c] = "none"
    BY <2>1, NewPoolAtEase, Zenon
  <2>4. pool.destroyed = FALSE
    BY <2>2 DEF AtEase, Sound, PoolType
  <2>5. "none" \notin Results /\ "none" \notin Rejections
    BY CallFacts
  <2>. QED
    BY <2>3, <2>4, <2>5 DEF Service!Init
<1>2. IndexInv /\ PoolInv /\ [Next]_vars => [Service!Next]_(Service!vars)
  BY ServiceStep
<1>. QED
  BY <1>1, <1>2, PoolInvariant, PTL DEF KeepsPromise, Spec, Service!Spec
============================================================================
