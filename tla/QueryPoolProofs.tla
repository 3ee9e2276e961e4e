-------------------------- MODULE QueryPoolProofs --------------------------
(* What TLAPS proves of the query pool, for any calls, workers and limits. *)
EXTENDS QueryPool, FiniteSetTheorems, SequenceTheorems, TLAPS

PoolType == [queue : Seq(Calls), idle : SUBSET Workers, pendingWorkers : SUBSET Workers,
             workers : SUBSET Workers, inflight : [Workers -> Calls \union {NoCall}],
             totalCrashes : Nat]

Verdicts == {"none", "waiting", "result", "cannotOpen", "crashed", "busy", "shutdown",
             "inProcess"}

\* WorkersAccounted, of a pool p that a handler is at work on.
Accounted(p) ==
  /\ p.workers = p.idle \union p.pendingWorkers \union Busy(p)
  /\ p.idle \intersect p.pendingWorkers = {}
  /\ (p.idle \union p.pendingWorkers) \intersect Busy(p) = {}
  /\ Cardinality(p.workers) <= MaxSize

\* No call is in two places of the pool.
OnePlace(p) ==
  /\ \A j, k \in 1..Len(p.queue) : p.queue[j] = p.queue[k] => j = k
  /\ \A v, w \in Workers : p.inflight[v] # NoCall /\ p.inflight[v] = p.inflight[w] => v = w
  /\ \A k \in 1..Len(p.queue), w \in Workers : p.queue[k] # p.inflight[w]

\* A call that waits is in the pool, and a call nobody has made is not.
Held(p, ans) ==
  /\ \A c \in Calls : ans[c] = "waiting" => InQueue(c, p) \/ InFlight(c, p)
  /\ \A c \in Calls : InQueue(c, p) \/ InFlight(c, p) => ans[c] # "none"

Sound(p, ans) == p \in PoolType /\ Accounted(p) /\ OnePlace(p) /\ Held(p, ans)

\* The growth loop has done its work.
FullyGrown(p) ==
  Healthy(p) => \/ p.pendingWorkers # {}
                \/ Cardinality(p.workers) = MaxSize
                \/ Len(p.queue) <= Cardinality(p.idle)

\* NoStrandedCall, of a pool p that a handler leaves behind.
NoneStranded(p, ans) ==
  Waits(p.queue, ans) # {} =>
      /\ p.idle = {}
      /\ Healthy(p) => p.pendingWorkers # {} \/ Cardinality(p.workers) = MaxSize

\* The pool's invariant: between two handlers the pool is sound and nobody is stranded.
PoolInv == TypeOK /\ Sound(pool, answer) /\ NoneStranded(pool, answer)

----------------------------------------------------------------------------
(* drain().                                                                *)

\* Sets of workers are finite.
LEMMA WorkersFinite ==
  ASSUME NEW S \in SUBSET Workers
  PROVE  IsFiniteSet(S) /\ Cardinality(S) \in Nat
BY PoolAssumption, FS_Subset, FS_CardinalityType

\* The minimum and the maximum of a few integers.
LEMMA MaxOfTwo ==
  ASSUME NEW i \in Int
  PROVE  Max({0, i}) = IF i > 0 THEN i ELSE 0
<1>1. CASE i > 0
  BY <1>1 DEF Max
<1>2. CASE ~(i > 0)
  BY <1>2 DEF Max
<1>. QED
  BY <1>1, <1>2

LEMMA MinOfThree ==
  ASSUME NEW i \in Int, NEW j \in Int, NEW k \in Int
  PROVE  /\ Min({i, j, k}) \in {i, j, k}
         /\ Min({i, j, k}) <= i /\ Min({i, j, k}) <= j /\ Min({i, j, k}) <= k
<1>1. \E m \in {i, j, k} : \A x \in {i, j, k} : m <= x
  OBVIOUS
<1>. QED
  BY <1>1 DEF Min

\* Room is a number, and none is left for one of three reasons.
LEMMA RoomFacts ==
  ASSUME NEW p, p \in PoolType, Accounted(p)
  PROVE  /\ Room(p) \in Nat
         /\ Room(p) <= MaxSize - Cardinality(p.workers)
         /\ Room(p) = 0 => \/ p.pendingWorkers # {}
                           \/ Cardinality(p.workers) = MaxSize
                           \/ Len(p.queue) <= Cardinality(p.idle)
<1>. DEFINE i == Len(p.queue) - Cardinality(p.idle \union p.pendingWorkers)
            j == MaxSize - Cardinality(p.workers)
            k == MaxConcurrentSpawn - Cardinality(p.pendingWorkers)
<1>1. /\ p.idle \union p.pendingWorkers \in SUBSET Workers /\ p.workers \in SUBSET Workers
      /\ p.pendingWorkers \in SUBSET Workers /\ Len(p.queue) \in Nat
  BY LenProperties DEF PoolType
<1>2. i \in Int /\ j \in Int /\ k \in Int
  BY <1>1, WorkersFinite, FS_CardinalityType, PoolAssumption
<1>3. j >= 0
  BY <1>1, WorkersFinite, FS_CardinalityType, PoolAssumption DEF Accounted
<1>4. Room(p) = Min({Max({0, i}), j, Max({0, k})})
  BY DEF Room
<1>. HIDE DEF i, j, k
<1>5. /\ Max({0, i}) \in Nat /\ (Max({0, i}) = 0 => i <= 0)
      /\ Max({0, k}) \in Nat /\ (Max({0, k}) = 0 => k <= 0)
  BY <1>2, MaxOfTwo
<1>6. /\ Room(p) \in {Max({0, i}), j, Max({0, k})}
      /\ Room(p) <= j
  <2>. DEFINE m == Max({0, i})  n == Max({0, k})
  <2>1. m \in Int /\ n \in Int /\ Room(p) = Min({m, j, n})
    BY <1>4, <1>5
  <2>. HIDE DEF m, n
  <2>2. Room(p) \in {m, j, n} /\ Room(p) <= j
    <3>1. Min({m, j, n}) \in {m, j, n} /\ Min({m, j, n}) <= j
      BY <1>2, <2>1, MinOfThree, Zenon
    <3>. QED
      BY <2>1, <3>1
  <2>. QED
    BY <2>2 DEF m, n
<1>7. ASSUME Room(p) = 0
      PROVE  \/ p.pendingWorkers # {}
             \/ Cardinality(p.workers) = MaxSize
             \/ Len(p.queue) <= Cardinality(p.idle)
  <2>1. CASE i <= 0 /\ p.pendingWorkers = {}
    <3>1. p.idle \union p.pendingWorkers = p.idle
      BY <2>1
    <3>. QED
      BY <2>1, <3>1, <1>1, WorkersFinite DEF i
  <2>2. CASE j = 0
    BY <2>2, <1>1, WorkersFinite, PoolAssumption, FS_CardinalityType DEF j
  <2>3. CASE k <= 0
    <3>1. Cardinality(p.pendingWorkers) # 0
      BY <2>3, <1>1, WorkersFinite, PoolAssumption DEF k
    <3>2. Cardinality({}) = 0
      BY FS_EmptySet
    <3>. QED
      BY <3>1, <3>2
  <2>. QED
    BY <1>5, <1>6, <1>7, <2>1, <2>2, <2>3
<1>. QED
  BY <1>2, <1>3, <1>5, <1>6, <1>7 DEF j

\* Starting workers keeps the pool sound, while there are no more than it may have.
LEMMA SpawnSound ==
  ASSUME NEW p, NEW ans, Sound(p, ans), NEW new \in SUBSET Unused(p),
         Cardinality(new) <= MaxSize - Cardinality(p.workers), NEW throws \in Nat
  PROVE  /\ Sound(Spawn(p, new, throws), ans)
         /\ Cardinality(Spawn(p, new, throws).workers)
              = Cardinality(p.workers) + Cardinality(new)
<1>. DEFINE g == Spawn(p, new, throws)
<1>0. p \in PoolType /\ new \in SUBSET Workers
  BY DEF Sound, Unused
<1>1. /\ g.queue = p.queue /\ g.idle = p.idle /\ g.inflight = p.inflight
      /\ g.workers = p.workers \union new /\ g.pendingWorkers = p.pendingWorkers \union new
      /\ g.totalCrashes = p.totalCrashes + throws
  BY <1>0 DEF PoolType, Spawn
<1>2. g \in PoolType
  <2>1. p.workers \union new \in SUBSET Workers /\ p.pendingWorkers \union new \in SUBSET Workers
    BY <1>0 DEF PoolType
  <2>2. p.totalCrashes + throws \in Nat
    BY <1>0 DEF PoolType
  <2>. QED
    BY <1>0, <2>1, <2>2 DEF PoolType, Spawn
<1>3. Busy(g) = Busy(p)
  BY <1>1 DEF Busy
<1>4. Cardinality(g.workers) = Cardinality(p.workers) + Cardinality(new)
  <2>1. p.workers \intersect new = {} /\ p.workers \in SUBSET Workers
    BY <1>0 DEF Unused, PoolType
  <2>2. /\ IsFiniteSet(p.workers) /\ IsFiniteSet(new) /\ Cardinality({}) = 0
        /\ Cardinality(p.workers) \in Nat /\ Cardinality(new) \in Nat
    BY <2>1, <1>0, WorkersFinite, FS_EmptySet
  <2>3. Cardinality(p.workers \union new)
          = Cardinality(p.workers) + Cardinality(new) - Cardinality(p.workers \intersect new)
    BY <2>2, FS_Union
  <2>4. Cardinality(p.workers \intersect new) = 0
    BY <2>1, <2>2
  <2>5. g.workers = p.workers \union new
    BY <1>1
  <2>. HIDE DEF g
  <2>. QED
    BY <2>2, <2>3, <2>4, <2>5
<1>5. Cardinality(p.workers) \in Nat /\ Cardinality(new) \in Nat /\ MaxSize \in Nat
  BY <1>0, WorkersFinite, PoolAssumption, FS_CardinalityType DEF PoolType
<1>6. Accounted(g)
  BY <1>1, <1>3, <1>4, <1>5 DEF Sound, Accounted, Unused
<1>7. OnePlace(g) /\ Held(g, ans)
  BY <1>1 DEF Sound, OnePlace, Held, InQueue, InFlight
<1>. HIDE DEF g
<1>8. Sound(g, ans) /\ Cardinality(g.workers) = Cardinality(p.workers) + Cardinality(new)
  BY <1>2, <1>4, <1>6, <1>7 DEF Sound
<1>. QED
  BY <1>8 DEF g

\* The growth loop keeps the pool sound and stops when it has done its work.
LEMMA GrownSound ==
  ASSUME NEW p, NEW ans, Sound(p, ans), NEW g \in Grown(p)
  PROVE  Sound(g, ans) /\ FullyGrown(g)
<1>0. p \in PoolType /\ Accounted(p)
  BY DEF Sound
<1>1. CASE ~Healthy(p)
  BY <1>1 DEF Grown, FullyGrown
<1>2. CASE Healthy(p) /\ Room(p) = 0
  BY <1>0, <1>2, RoomFacts DEF Grown, FullyGrown
<1>3. CASE Healthy(p) /\ Room(p) # 0
  <2>1. PICK new \in SUBSET Unused(p), throws \in 0..CrashBudget :
               LoopEnds(p, new, throws) /\ g = Spawn(p, new, throws)
    BY <1>3 DEF Grown
  <2>2. new \in SUBSET Workers
    BY <2>1 DEF Unused
  <2>3. /\ Room(p) \in Nat /\ Room(p) <= MaxSize - Cardinality(p.workers)
        /\ Cardinality(new) \in Nat /\ p.workers \in SUBSET Workers
        /\ Cardinality(p.workers) \in Nat /\ MaxSize \in Nat /\ throws \in Nat
    BY <1>0, <2>2, RoomFacts, WorkersFinite, PoolAssumption, FS_CardinalityType DEF PoolType
  <2>4. Cardinality(new) <= MaxSize - Cardinality(p.workers)
    BY <2>1, <2>3 DEF LoopEnds
  <2>5. Sound(g, ans)
    BY <2>1, <2>3, <2>4, SpawnSound
  <2>6. /\ g.pendingWorkers = p.pendingWorkers \union new
        /\ g.totalCrashes = p.totalCrashes + throws
    BY <1>0, <2>1 DEF PoolType, Spawn
  <2>7. CASE p.totalCrashes + throws = CrashBudget
    <3>1. ~Healthy(g)
      BY <2>6, <2>7, PoolAssumption DEF Healthy
    <3>. QED
      BY <2>5, <3>1 DEF FullyGrown
  <2>8. CASE Cardinality(new) = Room(p)
    <3>1. new # {}
      BY <1>3, <2>3, <2>8, FS_EmptySet
    <3>. QED
      BY <2>5, <2>6, <3>1 DEF FullyGrown
  <2>. QED
    BY <2>1, <2>5, <2>7, <2>8 DEF LoopEnds
<1>. QED
  BY <1>1, <1>2, <1>3

\* What is behind the first calls of a queue.
LEMMA BehindFacts ==
  ASSUME NEW q \in Seq(Calls), NEW cut \in 0..Len(q)
  PROVE  /\ Behind(q, cut) \in Seq(Calls)
         /\ Len(Behind(q, cut)) = Len(q) - cut
         /\ \A k \in 1..Len(Behind(q, cut)) :
               k + cut \in (cut + 1)..Len(q) /\ Behind(q, cut)[k] = q[k + cut]
<1>1. Len(q) \in Nat /\ Len(Behind(q, cut)) = Len(q) - cut
  BY LenProperties, SubSeqProperties DEF Behind
<1>. QED
  BY <1>1, SubSeqProperties, ElementOfSeq DEF Behind

\* An assignment gives each of some idle workers a waiting call of its own.
LEMMA AssignmentFacts ==
  ASSUME NEW p, p \in PoolType, NEW ans, NEW cut \in 0..Len(p.queue),
         NEW given \in Assignments(p, ans, cut)
  PROVE  /\ DOMAIN given \subseteq p.idle
         /\ \A v, w \in DOMAIN given : given[v] = given[w] => v = w
         /\ \A k \in Waits(p.queue, ans) :
               k <= cut => \E w \in DOMAIN given : given[w] = k
         /\ \A w \in DOMAIN given : /\ given[w] \in 1..Len(p.queue) /\ given[w] <= cut
                                      /\ p.queue[given[w]] \in Calls
                                      /\ ans[p.queue[given[w]]] = "waiting"
<1>. DEFINE taken == {k \in Waits(p.queue, ans) : k <= cut}
<1>1. PICK W \in SUBSET p.idle : given \in Bijection(W, taken)
  BY DEF Assignments
<1>. HIDE DEF taken
<1>2. given \in [W -> taken] /\ DOMAIN given = W
  BY <1>1 DEF Bijection, Injection, Surjection
<1>3. /\ \A v, w \in W : given[v] = given[w] => v = w
      /\ \A k \in taken : \E w \in W : given[w] = k
  <2>1. given \in Injection(W, taken) /\ given \in Surjection(W, taken)
    BY <1>1 DEF Bijection
  <2>2. \A v, w \in W : given[v] = given[w] => v = w
    BY <2>1 DEF Injection, IsInjective
  <2>. QED
    BY <2>1, <2>2 DEF Surjection
<1>4. \A k \in taken : k \in 1..Len(p.queue) /\ k <= cut /\ ans[p.queue[k]] = "waiting"
  BY DEF Waits, taken
<1>5. \A k \in 1..Len(p.queue) : p.queue[k] \in Calls
  BY ElementOfSeq DEF PoolType
<1>6. \A w \in W : given[w] \in taken
  BY <1>2
<1>7. \A w \in W : /\ given[w] \in 1..Len(p.queue) /\ given[w] <= cut
                    /\ p.queue[given[w]] \in Calls
                    /\ ans[p.queue[given[w]]] = "waiting"
  BY <1>4, <1>5, <1>6
<1>. QED
  BY <1>1, <1>2, <1>3, <1>7 DEF taken

\* The pool after the dispatch loop, field by field.
LEMMA GivenFields ==
  ASSUME NEW p, p \in PoolType, NEW ans, NEW cut \in 0..Len(p.queue),
         NEW given \in Assignments(p, ans, cut)
  PROVE  LET d == Given(p, cut, given)
         IN  /\ d \in PoolType
             /\ d.queue = Behind(p.queue, cut)
             /\ d.idle = p.idle \ DOMAIN given
             /\ d.workers = p.workers /\ d.pendingWorkers = p.pendingWorkers
             /\ d.totalCrashes = p.totalCrashes
             /\ \A w \in Workers : d.inflight[w] = IF w \in DOMAIN given
                                                     THEN p.queue[given[w]] ELSE p.inflight[w]
<1>. DEFINE d == Given(p, cut, given)
<1>1. /\ \A w \in DOMAIN given : p.queue[given[w]] \in Calls
      /\ DOMAIN given \subseteq p.idle
  BY AssignmentFacts
<1>2. Behind(p.queue, cut) \in Seq(Calls)
  BY BehindFacts DEF PoolType
<1>3. /\ d.queue = Behind(p.queue, cut)
      /\ d.idle = p.idle \ DOMAIN given
      /\ d.workers = p.workers /\ d.pendingWorkers = p.pendingWorkers
      /\ d.totalCrashes = p.totalCrashes
      /\ d.inflight = [w \in Workers |-> IF w \in DOMAIN given THEN p.queue[given[w]]
                                                                ELSE p.inflight[w]]
  BY DEF Given, PoolType
<1>4. [w \in Workers |-> IF w \in DOMAIN given THEN p.queue[given[w]] ELSE p.inflight[w]]
        \in [Workers -> Calls \union {NoCall}]
  BY <1>1 DEF PoolType
<1>5. d \in PoolType
  BY <1>2, <1>4 DEF Given, PoolType
<1>. QED
  BY <1>3, <1>5

\* The dispatch loop keeps the pool sound.
LEMMA GivenSound ==
  ASSUME NEW p, NEW ans, Sound(p, ans), NEW cut \in 0..Len(p.queue),
         NEW given \in Assignments(p, ans, cut), StopsAt(p, ans, cut, given)
  PROVE  Sound(Given(p, cut, given), ans)
<1>. DEFINE d == Given(p, cut, given)
            D == DOMAIN given
<1>0. p \in PoolType /\ Accounted(p) /\ OnePlace(p) /\ Held(p, ans) /\ p.queue \in Seq(Calls)
  BY DEF Sound, PoolType
<1>1. /\ d \in PoolType
      /\ d.queue = Behind(p.queue, cut)
      /\ d.idle = p.idle \ D
      /\ d.workers = p.workers /\ d.pendingWorkers = p.pendingWorkers
      /\ \A w \in Workers : d.inflight[w] = IF w \in D THEN p.queue[given[w]] ELSE p.inflight[w]
  BY <1>0, GivenFields
<1>2. /\ D \subseteq p.idle /\ D \subseteq Workers
      /\ \A v, w \in D : given[v] = given[w] => v = w
      /\ \A k \in Waits(p.queue, ans) : k <= cut => \E w \in D : given[w] = k
      /\ \A w \in D : given[w] \in 1..Len(p.queue) /\ given[w] <= cut
                      /\ p.queue[given[w]] \in Calls /\ ans[p.queue[given[w]]] = "waiting"
  <2>1. p.idle \subseteq Workers
    BY <1>0 DEF PoolType
  <2>2. /\ D \subseteq p.idle
        /\ \A v, w \in D : given[v] = given[w] => v = w
        /\ \A k \in Waits(p.queue, ans) : k <= cut => \E w \in D : given[w] = k
        /\ \A w \in D : given[w] \in 1..Len(p.queue) /\ given[w] <= cut
                        /\ p.queue[given[w]] \in Calls /\ ans[p.queue[given[w]]] = "waiting"
    BY <1>0, AssignmentFacts
  <2>. QED
    BY <2>1, <2>2
<1>3. /\ Len(d.queue) = Len(p.queue) - cut /\ Len(p.queue) \in Nat
      /\ \A k \in 1..Len(d.queue) : /\ k + cut \in (cut + 1)..Len(p.queue)
                                     /\ d.queue[k] = p.queue[k + cut]
  BY <1>0, <1>1, BehindFacts, LenProperties
<1>. HIDE DEF d, D
<1>4. \A w \in D : p.inflight[w] = NoCall
  BY <1>0, <1>2 DEF Accounted, Busy
<1>5. \A w \in D : d.inflight[w] # NoCall
  BY <1>1, <1>2, PoolAssumption
<1>6. Busy(d) = Busy(p) \union D
  BY <1>1, <1>2, <1>5 DEF Busy
<1>7. Accounted(d)
  BY <1>0, <1>1, <1>2, <1>6 DEF Accounted
<1>8. OnePlace(d)
  <2>1. ASSUME NEW j \in 1..Len(d.queue), NEW k \in 1..Len(d.queue), d.queue[j] = d.queue[k]
        PROVE  j = k
    <3>1. /\ j + cut \in 1..Len(p.queue) /\ k + cut \in 1..Len(p.queue)
          /\ p.queue[j + cut] = p.queue[k + cut]
      BY <1>3, <2>1
    <3>2. j + cut = k + cut
      BY <1>0, <3>1 DEF OnePlace
    <3>. QED
      BY <3>2, <1>3
  <2>2. ASSUME NEW v \in Workers, NEW w \in Workers,
               d.inflight[v] # NoCall, d.inflight[v] = d.inflight[w]
        PROVE  v = w
    <3>1. CASE v \in D /\ w \in D
      <4>1. given[v] = given[w]
        BY <1>0, <1>1, <1>2, <2>2, <3>1 DEF OnePlace
      <4>. QED
        BY <1>2, <3>1, <4>1
    <3>2. CASE v \in D /\ w \notin D
      BY <1>0, <1>1, <1>2, <2>2, <3>2 DEF OnePlace
    <3>3. CASE v \notin D /\ w \in D
      BY <1>0, <1>1, <1>2, <2>2, <3>3 DEF OnePlace
    <3>4. CASE v \notin D /\ w \notin D
      BY <1>0, <1>1, <2>2, <3>4 DEF OnePlace
    <3>. QED
      BY <3>1, <3>2, <3>3, <3>4
  <2>3. ASSUME NEW k \in 1..Len(d.queue), NEW w \in Workers
        PROVE  d.queue[k] # d.inflight[w]
    <3>1. k + cut \in 1..Len(p.queue) /\ d.queue[k] = p.queue[k + cut] /\ k + cut > cut
      BY <1>3
    <3>2. CASE w \in D
      <4>1. given[w] # k + cut /\ given[w] \in 1..Len(p.queue)
        BY <1>2, <3>1, <3>2
      <4>2. p.queue[given[w]] # p.queue[k + cut]
        BY <1>0, <3>1, <4>1 DEF OnePlace
      <4>. QED
        BY <1>1, <3>1, <3>2, <4>2
    <3>3. CASE w \notin D
      BY <1>0, <1>1, <3>1, <3>3 DEF OnePlace
    <3>. QED
      BY <3>2, <3>3
  <2>. QED
    BY <2>1, <2>2, <2>3 DEF OnePlace
<1>9. Held(d, ans)
  <2>1. ASSUME NEW c \in Calls, ans[c] = "waiting"
        PROVE  InQueue(c, d) \/ InFlight(c, d)
    <3>1. CASE InFlight(c, p)
      <4>1. PICK w \in Workers : p.inflight[w] = c
        BY <3>1 DEF InFlight
      <4>2. w \notin D
        BY <1>4, <4>1, PoolAssumption
      <4>. QED
        BY <1>1, <4>1, <4>2 DEF InFlight
    <3>2. CASE InQueue(c, p)
      <4>1. PICK k \in 1..Len(p.queue) : p.queue[k] = c
        BY <3>2 DEF InQueue
      <4>2. CASE k <= cut
        <5>1. PICK w \in D : given[w] = k
          BY <1>2, <2>1, <4>1, <4>2 DEF Waits
        <5>. QED
          BY <1>1, <1>2, <4>1, <5>1 DEF InFlight
      <4>3. CASE k > cut
        <5>1. /\ k - cut \in 1..Len(d.queue) /\ (k - cut) + cut = k
          BY <1>3, <4>3
        <5>. QED
          BY <1>3, <4>1, <5>1 DEF InQueue
      <4>. QED
        BY <4>2, <4>3
    <3>. QED
      BY <1>0, <2>1, <3>1, <3>2 DEF Held
  <2>2. ASSUME NEW c \in Calls, InQueue(c, d) \/ InFlight(c, d)
        PROVE  ans[c] # "none"
    <3>1. CASE InQueue(c, d)
      <4>1. InQueue(c, p)
        BY <1>3, <3>1 DEF InQueue
      <4>. QED
        BY <1>0, <4>1 DEF Held
    <3>2. CASE InFlight(c, d)
      <4>1. PICK w \in Workers : d.inflight[w] = c
        BY <3>2 DEF InFlight
      <4>2. CASE w \in D
        BY <1>1, <1>2, <4>1, <4>2
      <4>3. CASE w \notin D
        BY <1>0, <1>1, <4>1, <4>3 DEF Held, InFlight
      <4>. QED
        BY <4>2, <4>3
    <3>. QED
      BY <2>2, <3>1, <3>2
  <2>. QED
    BY <2>1, <2>2 DEF Held
<1>10. Sound(d, ans)
  BY <1>1, <1>7, <1>8, <1>9 DEF Sound
<1>. QED
  BY <1>10 DEF d

\* As many workers are given a call as calls are taken off the queue for them.
LEMMA AssignmentSize ==
  ASSUME NEW p, p \in PoolType, NEW ans, NEW cut \in 0..Len(p.queue),
         NEW given \in Assignments(p, ans, cut)
  PROVE  Cardinality(DOMAIN given) <= cut
<1>. DEFINE taken == {k \in Waits(p.queue, ans) : k <= cut}
<1>1. PICK W \in SUBSET p.idle : given \in Bijection(W, taken)
  BY DEF Assignments
<1>2. taken \in SUBSET (1..cut)
  BY LenProperties DEF Waits, PoolType
<1>3. cut \in Nat /\ IsFiniteSet(1..cut) /\ Cardinality(1..cut) = cut
  BY FS_Interval, LenProperties DEF PoolType
<1>4. IsFiniteSet(taken) /\ Cardinality(taken) <= cut
  BY <1>2, <1>3, FS_Subset
<1>. HIDE DEF taken
<1>5. given \in Injection(W, taken) /\ given \in Surjection(W, taken)
  BY <1>1 DEF Bijection
<1>6. DOMAIN given = W
  BY <1>5 DEF Injection
<1>7. IsFiniteSet(W) /\ Cardinality(W) <= Cardinality(taken)
  BY <1>4, <1>5, FS_Injection
<1>. QED
  BY <1>3, <1>4, <1>6, <1>7, FS_CardinalityType

\* The dispatch loop leaves nobody stranded.
LEMMA GivenNotStranded ==
  ASSUME NEW p, NEW ans, Sound(p, ans), FullyGrown(p), NEW cut \in 0..Len(p.queue),
         NEW given \in Assignments(p, ans, cut), StopsAt(p, ans, cut, given)
  PROVE  NoneStranded(Given(p, cut, given), ans)
<1>. DEFINE d == Given(p, cut, given)
<1>0. p \in PoolType /\ p.queue \in Seq(Calls)
  BY DEF Sound, PoolType
<1>1. /\ d.queue = Behind(p.queue, cut) /\ d.idle = p.idle \ DOMAIN given
      /\ d.workers = p.workers /\ d.pendingWorkers = p.pendingWorkers
      /\ d.totalCrashes = p.totalCrashes
  BY <1>0, GivenFields
<1>2. Len(d.queue) = Len(p.queue) - cut /\ Len(p.queue) \in Nat
  BY <1>0, <1>1, BehindFacts, LenProperties
<1>. HIDE DEF d
<1>3. SUFFICES ASSUME Waits(d.queue, ans) # {}
               PROVE  /\ d.idle = {}
                      /\ Healthy(d) => \/ d.pendingWorkers # {}
                                       \/ Cardinality(d.workers) = MaxSize
  BY DEF NoneStranded, d
<1>4. cut < Len(p.queue)
  BY <1>2, <1>3 DEF Waits
<1>5. DOMAIN given = p.idle
  BY <1>4 DEF StopsAt
<1>6. Cardinality(p.idle) <= cut
  BY <1>0, <1>5, AssignmentSize
<1>7. Cardinality(p.idle) \in Nat
  BY <1>0, WorkersFinite DEF PoolType
<1>8. Healthy(d) => Healthy(p)
  BY <1>1 DEF Healthy
<1>. QED
  BY <1>1, <1>4, <1>5, <1>6, <1>7, <1>8 DEF FullyGrown

\* What drain() leaves behind, of a pool that a handler has put in order.
LEMMA DrainedSound ==
  ASSUME NEW p, NEW ans, Sound(p, ans), NEW d \in Drained(p, ans)
  PROVE  Sound(d, ans) /\ NoneStranded(d, ans)
<1>1. PICK g \in Grown(p) : d \in Dispatched(g, ans)
  BY DEF Drained
<1>2. Sound(g, ans) /\ FullyGrown(g)
  BY <1>1, GrownSound
<1>3. PICK cut \in 0..Len(g.queue) : \E given \in Assignments(g, ans, cut) :
            StopsAt(g, ans, cut, given) /\ d = Given(g, cut, given)
  BY <1>1 DEF Dispatched
<1>4. PICK given \in Assignments(g, ans, cut) :
            StopsAt(g, ans, cut, given) /\ d = Given(g, cut, given)
  BY <1>3
<1>. QED
  BY <1>2, <1>3, <1>4, GivenSound, GivenNotStranded

----------------------------------------------------------------------------
(* The handlers.                                                           *)

\* Answering a call that is no longer in the pool, or was waiting in it, keeps the pool
\* sound.
LEMMA SettleFacts ==
  ASSUME TypeOK, NEW c \in Calls, NEW a \in Verdicts \ {"none", "waiting"}
  PROVE  /\ Settle(c, a) \in [Calls -> Verdicts]
         /\ \A e \in Calls : Settle(c, a)[e] = IF e = c /\ answer[c] = "waiting" THEN a
                                                ELSE answer[e]
BY DEF TypeOK, Settle, Verdicts

\* A worker that comes free joins the idle ones.
LEMMA FreedSound ==
  ASSUME PoolInv, NEW w \in Busy(pool), NEW a \in Verdicts \ {"none", "waiting"}
  PROVE  Sound([pool EXCEPT !.inflight[w] = NoCall, !.idle = @ \union {w}],
               Settle(pool.inflight[w], a))
<1>. DEFINE c == pool.inflight[w]
            p == [pool EXCEPT !.inflight[w] = NoCall, !.idle = @ \union {w}]
            ans == Settle(pool.inflight[w], a)
<1>0. /\ pool \in PoolType /\ Accounted(pool) /\ OnePlace(pool) /\ Held(pool, answer)
      /\ w \in Workers /\ c # NoCall /\ c \in Calls
  BY DEF PoolInv, Sound, PoolType, Busy
<1>1. p \in PoolType
  BY <1>0 DEF PoolType
<1>2. /\ p.queue = pool.queue /\ p.idle = pool.idle \union {w}
      /\ p.workers = pool.workers /\ p.pendingWorkers = pool.pendingWorkers
      /\ \A v \in Workers : p.inflight[v] = IF v = w THEN NoCall ELSE pool.inflight[v]
  BY <1>0 DEF PoolType
<1>3. \A e \in Calls : ans[e] = IF e = c /\ answer[c] = "waiting" THEN a ELSE answer[e]
  BY <1>0, SettleFacts DEF PoolInv
<1>. HIDE DEF p, ans, c
<1>4. Busy(p) = Busy(pool) \ {w} /\ w \in Busy(pool)
  BY <1>2 DEF Busy
<1>5. Accounted(p)
  BY <1>0, <1>2, <1>4 DEF Accounted
<1>6. OnePlace(p)
  BY <1>0, <1>2, ElementOfSeq, PoolAssumption DEF OnePlace, PoolType
<1>7. Held(p, ans)
  BY <1>0, <1>2, <1>3, PoolAssumption DEF Held, InQueue, InFlight, c
<1>8. Sound(p, ans)
  BY <1>1, <1>5, <1>6, <1>7 DEF Sound
<1>. QED
  BY <1>8 DEF p, ans

\* What a handler that ends in drain() establishes.
LEMMA HandlerEnds ==
  ASSUME NEW p, Sound(p, answer'), pool' \in Drained(p, answer'),
         UNCHANGED destroyed, answer' \in [Calls -> Verdicts],
         TypeOK, retries' \in [Calls -> 0..MaxRetries], unopened' \subseteq Workers
  PROVE  PoolInv'
<1>1. Sound(pool', answer') /\ NoneStranded(pool', answer')
  BY DrainedSound
<1>2. Sound(pool, answer)'
  BY <1>1 DEF Sound, Accounted, OnePlace, Held, InQueue, InFlight, Busy, PoolType
<1>3. NoneStranded(pool, answer)'
  BY <1>1 DEF NoneStranded, Healthy, Waits
<1>4. pool' \in PoolType
  BY <1>1 DEF Sound
<1>5. TypeOK'
  BY <1>4 DEF TypeOK, PoolType, Verdicts
<1>. QED
  BY <1>2, <1>3, <1>5 DEF PoolInv

LEMMA RunStep ==
  ASSUME PoolInv, NEW c \in Calls, Run(c)
  PROVE  PoolInv'
<1>0. /\ pool \in PoolType /\ Accounted(pool) /\ OnePlace(pool) /\ Held(pool, answer)
      /\ TypeOK /\ answer[c] = "none" /\ UNCHANGED <<destroyed, retries, unopened>>
      /\ NoneStranded(pool, answer) /\ pool.queue \in Seq(Calls)
  BY DEF PoolInv, Sound, Run, PoolType
<1>1. CASE Healthy(pool)
  <2>. DEFINE p == [pool EXCEPT !.queue = Append(@, c)]
  <2>1. answer' = [answer EXCEPT ![c] = "waiting"] /\ pool' \in Drained(p, answer')
    BY <1>1 DEF Run
  <2>2. p \in PoolType
    BY <1>0, AppendProperties DEF PoolType
  <2>3. /\ p.queue = Append(pool.queue, c) /\ p.idle = pool.idle
        /\ p.workers = pool.workers /\ p.pendingWorkers = pool.pendingWorkers
        /\ p.inflight = pool.inflight
    BY <1>0 DEF PoolType
  <2>4. /\ Len(p.queue) = Len(pool.queue) + 1 /\ Len(pool.queue) \in Nat
        /\ \A k \in 1..Len(p.queue) :
              p.queue[k] = IF k = Len(pool.queue) + 1 THEN c ELSE pool.queue[k]
    BY <1>0, <2>3, AppendProperties, LenProperties
  <2>5. /\ answer' \in [Calls -> Verdicts]
        /\ \A e \in Calls : answer'[e] = IF e = c THEN "waiting" ELSE answer[e]
    BY <1>0, <2>1 DEF TypeOK, Verdicts
  <2>. HIDE DEF p
  <2>6. ~InQueue(c, pool) /\ ~InFlight(c, pool)
    BY <1>0 DEF Held
  <2>7. Accounted(p)
    BY <1>0, <2>3 DEF Accounted, Busy
  <2>8. OnePlace(p)
    <3>1. \A k \in 1..Len(pool.queue) : pool.queue[k] # c
      BY <2>6 DEF InQueue
    <3>2. \A w \in Workers : pool.inflight[w] # c
      BY <2>6 DEF InFlight
    <3>. QED
      BY <1>0, <2>3, <2>4, <3>1, <3>2 DEF OnePlace
  <2>9. Held(p, answer')
    <3>1. InQueue(c, p)
      BY <2>4 DEF InQueue
    <3>2. \A e \in Calls : e # c => (InQueue(e, p) <=> InQueue(e, pool))
      <4>1. \A k \in 1..Len(pool.queue) : k \in 1..Len(p.queue) /\ p.queue[k] = pool.queue[k]
        BY <2>4
      <4>2. \A k \in 1..Len(p.queue) :
              p.queue[k] # c => k \in 1..Len(pool.queue) /\ p.queue[k] = pool.queue[k]
        BY <2>4
      <4>. QED
        BY <4>1, <4>2 DEF InQueue
    <3>3. \A e \in Calls : InFlight(e, p) <=> InFlight(e, pool)
      BY <2>3 DEF InFlight
    <3>. QED
      BY <1>0, <2>5, <3>1, <3>2, <3>3 DEF Held
  <2>10. Sound(p, answer')
    BY <2>2, <2>7, <2>8, <2>9 DEF Sound
  <2>11. retries' \in [Calls -> 0..MaxRetries] /\ unopened' \subseteq Workers
    BY <1>0 DEF TypeOK
  <2>. QED
    BY <1>0, <2>1, <2>5, <2>10, <2>11, HandlerEnds
<1>2. CASE ~Healthy(pool)
  <2>1. /\ pool' = pool /\ destroyed' = destroyed
        /\ answer' = [answer EXCEPT ![c] = "inProcess"]
    BY <1>0, <1>2 DEF Run
  <2>2. /\ answer' \in [Calls -> Verdicts]
        /\ \A e \in Calls : answer'[e] = IF e = c THEN "inProcess" ELSE answer[e]
    BY <1>0, <2>1 DEF TypeOK, Verdicts
  <2>3. TypeOK'
    BY <1>0, <2>1, <2>2 DEF TypeOK, Verdicts
  <2>4. Held(pool, answer)'
    BY <1>0, <2>1, <2>2 DEF Held, InQueue, InFlight
  <2>5. Accounted(pool)' /\ OnePlace(pool)'
    BY <1>0, <2>1 DEF Accounted, OnePlace, Busy
  <2>6. Waits(pool.queue, answer)' = Waits(pool.queue, answer)
    <3>1. \A k \in 1..Len(pool.queue) : pool.queue[k] \in Calls /\ pool.queue[k] # c
      BY <1>0, ElementOfSeq DEF Held, InQueue
    <3>. QED
      BY <2>1, <2>2, <3>1 DEF Waits
  <2>7. NoneStranded(pool, answer)'
    <3>1. Waits(pool.queue, answer)' # {} => pool.idle = {}
      BY <1>0, <2>6 DEF NoneStranded
    <3>2. ~Healthy(pool)'
      BY <1>2, <2>1 DEF Healthy
    <3>. QED
      BY <2>1, <3>1, <3>2 DEF NoneStranded
  <2>. QED
    BY <1>0, <2>1, <2>3, <2>4, <2>5, <2>7 DEF PoolInv, Sound, PoolType
<1>. QED
  BY <1>1, <1>2

LEMMA SoftTimeoutStep ==
  ASSUME PoolInv, NEW c \in Calls, SoftTimeout(c)
  PROVE  PoolInv'
<1>0. /\ pool \in PoolType /\ Accounted(pool) /\ OnePlace(pool) /\ Held(pool, answer)
      /\ TypeOK /\ UNCHANGED <<pool, destroyed, retries, unopened>>
      /\ NoneStranded(pool, answer) /\ pool.queue \in Seq(Calls)
  BY DEF PoolInv, Sound, SoftTimeout, PoolType
<1>1. /\ answer' \in [Calls -> Verdicts]
      /\ \A e \in Calls : answer'[e] = IF e = c /\ answer[c] = "waiting" THEN "busy"
                                        ELSE answer[e]
  <2>1. "busy" \in Verdicts \ {"none", "waiting"}
    BY DEF Verdicts
  <2>. QED
    BY <1>0, <2>1, SettleFacts DEF SoftTimeout
<1>2. TypeOK'
  BY <1>0, <1>1 DEF TypeOK, Verdicts
<1>3. Sound(pool, answer)'
  BY <1>0, <1>1 DEF Sound, Accounted, OnePlace, Held, InQueue, InFlight, Busy, PoolType
<1>4. Waits(pool.queue, answer)' \subseteq Waits(pool.queue, answer)
  BY <1>0, <1>1, ElementOfSeq DEF Waits
<1>5. NoneStranded(pool, answer)'
  BY <1>0, <1>4 DEF NoneStranded, Healthy
<1>. QED
  BY <1>2, <1>3, <1>5 DEF PoolInv

LEMMA ReadyStep ==
  ASSUME PoolInv, NEW w \in Workers, Ready(w)
  PROVE  PoolInv'
<1>0. /\ pool \in PoolType /\ Accounted(pool) /\ OnePlace(pool) /\ Held(pool, answer)
      /\ TypeOK /\ w \in pool.pendingWorkers
      /\ UNCHANGED <<destroyed, retries, answer>>
  BY DEF PoolInv, Sound, Ready, PoolType
<1>1. PICK ok \in BOOLEAN :
        /\ unopened' = IF ok THEN unopened ELSE unopened \union {w}
        /\ pool' \in Drained([pool EXCEPT !.pendingWorkers = @ \ {w},
                                          !.idle = @ \union {w},
                                          !.totalCrashes = @ + IF ok THEN 0 ELSE 1],
                             answer)
  BY DEF Ready
<1>. DEFINE p == [pool EXCEPT !.pendingWorkers = @ \ {w}, !.idle = @ \union {w},
                              !.totalCrashes = @ + IF ok THEN 0 ELSE 1]
<1>2. p \in PoolType
  <2>1. /\ pool.pendingWorkers \ {w} \in SUBSET Workers
        /\ pool.idle \union {w} \in SUBSET Workers
        /\ pool.totalCrashes + (IF ok THEN 0 ELSE 1) \in Nat
    BY <1>0 DEF PoolType
  <2>. QED
    BY <1>0, <2>1 DEF PoolType
<1>3. /\ p.queue = pool.queue /\ p.inflight = pool.inflight /\ p.workers = pool.workers
      /\ p.idle = pool.idle \union {w} /\ p.pendingWorkers = pool.pendingWorkers \ {w}
  BY <1>0 DEF PoolType
<1>4. pool' \in Drained(p, answer')
  BY <1>0, <1>1
<1>. HIDE DEF p
<1>5. Accounted(p) /\ OnePlace(p)
  BY <1>0, <1>3 DEF Accounted, OnePlace, Busy
<1>6. Held(p, answer')
  BY <1>0, <1>3 DEF Held, InQueue, InFlight
<1>7. Sound(p, answer')
  BY <1>2, <1>5, <1>6 DEF Sound
<1>8. /\ unopened' \subseteq Workers /\ answer' \in [Calls -> Verdicts]
      /\ retries' \in [Calls -> 0..MaxRetries]
  BY <1>0, <1>1 DEF TypeOK, Verdicts
<1>. QED
  BY <1>0, <1>4, <1>7, <1>8, HandlerEnds

LEMMA ResultStep ==
  ASSUME PoolInv, NEW w \in Workers, Result(w)
  PROVE  PoolInv'
<1>. DEFINE a == IF w \in unopened THEN "cannotOpen" ELSE "result"
            p == [pool EXCEPT !.inflight[w] = NoCall, !.idle = @ \union {w}]
<1>1. /\ w \in Busy(pool) /\ answer' = Settle(pool.inflight[w], a)
      /\ pool' \in Drained(p, answer') /\ UNCHANGED <<destroyed, retries, unopened>>
  BY DEF Result
<1>2. a \in Verdicts \ {"none", "waiting"}
  BY DEF Verdicts
<1>3. pool.inflight[w] \in Calls /\ TypeOK
  BY <1>1 DEF PoolInv, Sound, PoolType, Busy
<1>. HIDE DEF a
<1>4. Sound(p, answer')
  BY <1>1, <1>2, FreedSound
<1>. HIDE DEF p
<1>5. answer' \in [Calls -> Verdicts]
  BY <1>1, <1>2, <1>3, SettleFacts
<1>6. retries' \in [Calls -> 0..MaxRetries] /\ unopened' \subseteq Workers
  BY <1>1, <1>3 DEF TypeOK
<1>. QED
  BY <1>1, <1>3, <1>4, <1>5, <1>6, HandlerEnds

\* The pool without worker w, which has died.
Without(w) ==
  [pool EXCEPT !.workers = @ \ {w}, !.pendingWorkers = @ \ {w}, !.idle = @ \ {w},
               !.inflight[w] = NoCall, !.totalCrashes = @ + 1]

\* The answers, were the call of worker w given up.
GivenUp(w) == IF pool.inflight[w] = NoCall THEN answer ELSE Settle(pool.inflight[w], "crashed")

\* But for the call it worked on, a pool that loses a worker stays sound.
LEMMA WithoutSound ==
  ASSUME PoolInv, NEW w \in pool.workers
  PROVE  /\ Sound(Without(w), GivenUp(w))
         /\ Cardinality(Without(w).workers) < MaxSize
         /\ w \in Workers
         /\ pool.inflight[w] # NoCall =>
               /\ pool.inflight[w] \in Calls
               /\ ~InQueue(pool.inflight[w], Without(w))
               /\ ~InFlight(pool.inflight[w], Without(w))
<1>. DEFINE c == pool.inflight[w]
            p == Without(w)
            ans == GivenUp(w)
<1>0. /\ pool \in PoolType /\ Accounted(pool) /\ OnePlace(pool) /\ Held(pool, answer)
      /\ w \in Workers /\ c \in Calls \union {NoCall} /\ TypeOK /\ pool.queue \in Seq(Calls)
  BY DEF PoolInv, Sound, PoolType
<1>1. p \in PoolType
  <2>1. /\ pool.pendingWorkers \ {w} \in SUBSET Workers /\ pool.workers \ {w} \in SUBSET Workers
        /\ pool.idle \ {w} \in SUBSET Workers /\ pool.totalCrashes + 1 \in Nat
    BY <1>0 DEF PoolType
  <2>. QED
    BY <1>0, <2>1 DEF PoolType, Without
<1>2. /\ p.queue = pool.queue /\ p.idle = pool.idle \ {w}
      /\ p.workers = pool.workers \ {w} /\ p.pendingWorkers = pool.pendingWorkers \ {w}
      /\ \A v \in Workers : p.inflight[v] = IF v = w THEN NoCall ELSE pool.inflight[v]
  BY <1>0 DEF PoolType, Without
<1>3. \A e \in Calls : ans[e] = IF e = c /\ answer[c] = "waiting" THEN "crashed" ELSE answer[e]
  <2>1. CASE c = NoCall
    BY <2>1, PoolAssumption DEF GivenUp
  <2>2. CASE c # NoCall
    <3>1. "crashed" \in Verdicts \ {"none", "waiting"} /\ c \in Calls
      BY <1>0, <2>2 DEF Verdicts
    <3>. QED
      BY <1>0, <2>2, <3>1, SettleFacts DEF GivenUp
  <2>. QED
    BY <2>1, <2>2
<1>. HIDE DEF p, ans, c
<1>4. Busy(p) = Busy(pool) \ {w}
  BY <1>2 DEF Busy
<1>5. Cardinality(p.workers) = Cardinality(pool.workers) - 1 /\ Cardinality(pool.workers) \in Nat
  <2>1. IsFiniteSet(pool.workers) /\ Cardinality(pool.workers) \in Nat
    BY <1>0, WorkersFinite DEF PoolType
  <2>. QED
    BY <1>2, <2>1, FS_RemoveElement
<1>6. Cardinality(p.workers) < MaxSize /\ Cardinality(pool.workers) <= MaxSize
  BY <1>0, <1>5, PoolAssumption, FS_CardinalityType DEF Accounted
<1>7. Accounted(p)
  <2>1. Cardinality(p.workers) <= MaxSize
    BY <1>5, <1>6, PoolAssumption, FS_CardinalityType
  <2>. QED
    BY <1>0, <1>2, <1>4, <2>1 DEF Accounted
<1>8. OnePlace(p)
  BY <1>0, <1>2, ElementOfSeq, PoolAssumption DEF OnePlace
<1>9. c # NoCall => ~InQueue(c, p) /\ ~InFlight(c, p)
  BY <1>0, <1>2 DEF OnePlace, InQueue, InFlight, c
<1>10. Held(p, ans)
  <2>1. \A e \in Calls : InQueue(e, p) <=> InQueue(e, pool)
    BY <1>2 DEF InQueue
  <2>2. \A e \in Calls : e # c => (InFlight(e, p) <=> InFlight(e, pool))
    BY <1>2, PoolAssumption DEF InFlight, c
  <2>3. c # NoCall => InFlight(c, pool)
    BY <1>0 DEF InFlight, c
  <2>. QED
    BY <1>0, <1>3, <1>9, <2>1, <2>2, <2>3, PoolAssumption DEF Held
<1>11. Sound(p, ans)
  BY <1>1, <1>7, <1>8, <1>10 DEF Sound
<1>. QED
  BY <1>0, <1>6, <1>9, <1>11 DEF p, ans, c

\* A call that goes back to the head of the queue is in one place again.
LEMMA RequeuedSound ==
  ASSUME NEW p, NEW ans, Sound(p, ans), NEW c \in Calls, NEW newAns,
         ~InQueue(c, p), ~InFlight(c, p), newAns[c] # "none",
         \A e \in Calls : e # c => newAns[e] = ans[e]
  PROVE  Sound([p EXCEPT !.queue = <<c>> \o @], newAns)
<1>. DEFINE d == [p EXCEPT !.queue = <<c>> \o @]
<1>0. p \in PoolType /\ Accounted(p) /\ OnePlace(p) /\ Held(p, ans) /\ p.queue \in Seq(Calls)
  BY DEF Sound, PoolType
<1>1. d \in PoolType
  <2>1. <<c>> \o p.queue \in Seq(Calls)
    BY <1>0, ConcatProperties
  <2>. QED
    BY <1>0, <2>1 DEF PoolType
<1>2. /\ d.queue = <<c>> \o p.queue /\ d.idle = p.idle /\ d.inflight = p.inflight
      /\ d.workers = p.workers /\ d.pendingWorkers = p.pendingWorkers
  BY <1>0 DEF PoolType
<1>3. /\ Len(d.queue) = Len(p.queue) + 1 /\ Len(p.queue) \in Nat
      /\ \A k \in 1..Len(d.queue) : d.queue[k] = IF k = 1 THEN c ELSE p.queue[k - 1]
  BY <1>0, <1>2, ConcatProperties, LenProperties
<1>. HIDE DEF d
<1>4. Accounted(d)
  BY <1>0, <1>2 DEF Accounted, Busy
<1>5. OnePlace(d)
  <2>1. \A k \in 1..Len(p.queue) : p.queue[k] # c
    BY DEF InQueue
  <2>2. \A w \in Workers : p.inflight[w] # c
    BY DEF InFlight
  <2>3. \A j, k \in 1..Len(d.queue) : d.queue[j] = d.queue[k] => j = k
    <3>. SUFFICES ASSUME NEW j \in 1..Len(d.queue), NEW k \in 1..Len(d.queue),
                         d.queue[j] = d.queue[k]
                  PROVE  j = k
      OBVIOUS
    <3>1. CASE j = 1 \/ k = 1
      BY <1>3, <2>1, <3>1
    <3>2. CASE j # 1 /\ k # 1
      <4>1. /\ j - 1 \in 1..Len(p.queue) /\ k - 1 \in 1..Len(p.queue)
            /\ p.queue[j - 1] = p.queue[k - 1]
        BY <1>3, <3>2
      <4>2. j - 1 = k - 1
        BY <1>0, <4>1 DEF OnePlace
      <4>. QED
        BY <4>2
    <3>. QED
      BY <3>1, <3>2
  <2>4. \A k \in 1..Len(d.queue), w \in Workers : d.queue[k] # d.inflight[w]
    <3>. SUFFICES ASSUME NEW k \in 1..Len(d.queue), NEW w \in Workers
                  PROVE  d.queue[k] # p.inflight[w]
      BY <1>2
    <3>1. CASE k = 1
      BY <1>3, <2>2, <3>1
    <3>2. CASE k # 1
      BY <1>0, <1>3, <3>2 DEF OnePlace
    <3>. QED
      BY <3>1, <3>2
  <2>. QED
    BY <1>0, <1>2, <2>3, <2>4 DEF OnePlace
<1>6. Held(d, newAns)
  <2>1. InQueue(c, d)
    <3>1. 1 \in 1..Len(d.queue) /\ d.queue[1] = c
      BY <1>3
    <3>. QED
      BY <3>1 DEF InQueue
  <2>2. \A e \in Calls : e # c => (InQueue(e, d) <=> InQueue(e, p))
    <3>. SUFFICES ASSUME NEW e \in Calls, e # c PROVE InQueue(e, d) <=> InQueue(e, p)
      OBVIOUS
    <3>1. ASSUME NEW k \in 1..Len(p.queue), p.queue[k] = e PROVE InQueue(e, d)
      <4>1. k + 1 \in 1..Len(d.queue) /\ d.queue[k + 1] = p.queue[k]
        BY <1>3
      <4>. QED
        BY <3>1, <4>1 DEF InQueue
    <3>2. ASSUME NEW k \in 1..Len(d.queue), d.queue[k] = e PROVE InQueue(e, p)
      <4>1. k - 1 \in 1..Len(p.queue) /\ p.queue[k - 1] = e
        BY <1>3, <3>2
      <4>. QED
        BY <4>1 DEF InQueue
    <3>. QED
      BY <3>1, <3>2 DEF InQueue
  <2>3. \A e \in Calls : InFlight(e, d) <=> InFlight(e, p)
    BY <1>2 DEF InFlight
  <2>. QED
    BY <1>0, <2>1, <2>2, <2>3 DEF Held
<1>7. Sound(d, newAns)
  BY <1>1, <1>4, <1>5, <1>6 DEF Sound
<1>. QED
  BY <1>7 DEF d

LEMMA WorkerGoneStep ==
  ASSUME PoolInv, NEW w \in Workers, WorkerGone(w)
  PROVE  PoolInv'
<1>. DEFINE c == pool.inflight[w]
            gone == Without(w)
<1>0. /\ w \in pool.workers /\ TypeOK /\ UNCHANGED destroyed /\ unopened' \subseteq Workers
  BY DEF WorkerGone, PoolInv, TypeOK
<1>1. /\ Sound(gone, GivenUp(w)) /\ Cardinality(gone.workers) < MaxSize
      /\ c # NoCall => c \in Calls /\ ~InQueue(c, gone) /\ ~InFlight(c, gone)
  BY <1>0, WithoutSound
<1>2. PICK p \in IF Healthy(gone)
                  THEN {Spawn(gone, {v}, 0) : v \in Unused(gone)} \union {Spawn(gone, {}, 1)}
                  ELSE {gone} :
              \/ /\ c = NoCall
                 /\ pool' \in Drained(p, answer)
                 /\ UNCHANGED <<retries, answer>>
              \/ /\ c # NoCall /\ MayRetry(c, p)
                 /\ retries' = [retries EXCEPT ![c] = @ + 1]
                 /\ pool' \in Drained([p EXCEPT !.queue = <<c>> \o @], answer)
                 /\ UNCHANGED answer
              \/ /\ c # NoCall /\ ~MayRetry(c, p)
                 /\ answer' = Settle(c, "crashed")
                 /\ pool' \in Drained(p, answer')
                 /\ UNCHANGED retries
  BY DEF WorkerGone, Without
<1>3. /\ gone.workers \in SUBSET Workers /\ Cardinality(gone.workers) \in Nat
      /\ gone \in PoolType /\ MaxSize \in Nat
  BY <1>1, WorkersFinite, PoolAssumption, FS_CardinalityType DEF Sound, PoolType
<1>. HIDE DEF gone
<1>4. Sound(p, GivenUp(w)) /\ p.queue = gone.queue /\ p.inflight = gone.inflight
  <2>1. ASSUME NEW v \in Unused(gone), p = Spawn(gone, {v}, 0)
        PROVE  Sound(p, GivenUp(w)) /\ p.queue = gone.queue /\ p.inflight = gone.inflight
    <3>1. Cardinality({v}) = 1 /\ {v} \in SUBSET Unused(gone)
      BY FS_Singleton
    <3>2. Sound(p, GivenUp(w))
      BY <1>1, <1>3, <2>1, <3>1, SpawnSound
    <3>. QED
      BY <1>3, <2>1, <3>2 DEF Spawn, PoolType
  <2>2. CASE p = Spawn(gone, {}, 1)
    <3>1. Cardinality({}) = 0 /\ {} \in SUBSET Unused(gone)
      BY FS_EmptySet
    <3>2. Sound(p, GivenUp(w))
      BY <1>1, <1>3, <2>2, <3>1, SpawnSound
    <3>. QED
      BY <1>3, <2>2, <3>2 DEF Spawn, PoolType
  <2>3. CASE p = gone
    BY <1>1, <2>3
  <2>. QED
    BY <1>2, <2>1, <2>2, <2>3
<1>5. CASE c = NoCall
  <2>1. pool' \in Drained(p, answer') /\ UNCHANGED <<retries, answer>> /\ GivenUp(w) = answer
    BY <1>2, <1>5 DEF GivenUp
  <2>2. retries' \in [Calls -> 0..MaxRetries] /\ answer' \in [Calls -> Verdicts]
    BY <1>0, <2>1 DEF TypeOK, Verdicts
  <2>. QED
    BY <1>0, <1>4, <2>1, <2>2, HandlerEnds
<1>6. CASE c # NoCall /\ MayRetry(c, p)
  <2>. DEFINE back == [p EXCEPT !.queue = <<c>> \o @]
  <2>1. /\ pool' \in Drained(back, answer') /\ UNCHANGED answer
        /\ retries' = [retries EXCEPT ![c] = @ + 1] /\ retries[c] < MaxRetries
    BY <1>2, <1>6 DEF MayRetry
  <2>2. c \in Calls /\ ~InQueue(c, p) /\ ~InFlight(c, p)
    BY <1>1, <1>4, <1>6 DEF InQueue, InFlight
  <2>3. retries' \in [Calls -> 0..MaxRetries] /\ answer' \in [Calls -> Verdicts]
    BY <1>0, <2>1, <2>2, PoolAssumption DEF TypeOK, Verdicts
  <2>4. answer[c] # "none"
    BY <1>0, <2>2 DEF PoolInv, Sound, Held, InFlight
  <2>5. \A e \in Calls : e # c => answer[e] = GivenUp(w)[e]
    <3>1. "crashed" \in Verdicts \ {"none", "waiting"}
      BY DEF Verdicts
    <3>. QED
      BY <1>0, <1>6, <2>2, <3>1, SettleFacts DEF GivenUp
  <2>6. Sound(back, answer')
    BY <1>4, <2>1, <2>2, <2>4, <2>5, RequeuedSound
  <2>. HIDE DEF back
  <2>. QED
    BY <1>0, <2>1, <2>3, <2>6, HandlerEnds
<1>7. CASE c # NoCall /\ ~MayRetry(c, p)
  <2>1. /\ pool' \in Drained(p, answer') /\ UNCHANGED retries
        /\ answer' = Settle(c, "crashed") /\ GivenUp(w) = answer'
    BY <1>2, <1>7 DEF GivenUp
  <2>2. c \in Calls /\ "crashed" \in Verdicts \ {"none", "waiting"}
    BY <1>1, <1>7 DEF Verdicts
  <2>3. retries' \in [Calls -> 0..MaxRetries] /\ answer' \in [Calls -> Verdicts]
    BY <1>0, <2>1, <2>2, SettleFacts DEF TypeOK
  <2>. QED
    BY <1>0, <1>4, <2>1, <2>3, HandlerEnds
<1>. QED
  BY <1>5, <1>6, <1>7

LEMMA DestroyStep ==
  ASSUME PoolInv, Destroy
  PROVE  PoolInv'
<1>. DEFINE p == [pool EXCEPT !.queue = <<>>, !.idle = {}, !.pendingWorkers = {},
                              !.workers = {}, !.inflight = [w \in Workers |-> NoCall]]
<1>0. /\ pool \in PoolType /\ Held(pool, answer) /\ TypeOK /\ pool' = p /\ destroyed' = TRUE
      /\ UNCHANGED <<retries, unopened>>
      /\ answer' = [c \in Calls |->
                      IF answer[c] = "waiting" /\ (InQueue(c, pool) \/ InFlight(c, pool))
                      THEN "shutdown" ELSE answer[c]]
  BY DEF PoolInv, Sound, Destroy
<1>1. p \in PoolType
  BY <1>0, EmptySeq DEF PoolType
<1>2. /\ p.queue = <<>> /\ p.idle = {} /\ p.workers = {} /\ p.pendingWorkers = {}
      /\ p.inflight = [w \in Workers |-> NoCall]
  BY <1>0 DEF PoolType
<1>. HIDE DEF p
<1>3. answer' \in [Calls -> Verdicts] /\ (\A c \in Calls : answer'[c] # "waiting")
  BY <1>0 DEF TypeOK, Verdicts, Held
<1>4. Accounted(p)
  BY <1>2, FS_EmptySet, PoolAssumption, FS_CardinalityType DEF Accounted, Busy
<1>5. OnePlace(p)
  BY <1>2 DEF OnePlace
<1>6. Held(p, answer')
  BY <1>2, <1>3, PoolAssumption DEF Held, InQueue, InFlight
<1>7. Waits(p.queue, answer') = {}
  BY <1>2 DEF Waits
<1>8. Sound(pool, answer)'
  BY <1>0, <1>1, <1>4, <1>5, <1>6
     DEF Sound, Accounted, OnePlace, Held, InQueue, InFlight, Busy, PoolType
<1>9. NoneStranded(pool, answer)'
  BY <1>0, <1>7 DEF NoneStranded, Waits
<1>10. TypeOK'
  BY <1>0, <1>1, <1>3 DEF TypeOK, PoolType, Verdicts
<1>. QED
  BY <1>8, <1>9, <1>10 DEF PoolInv

\* The constructor leaves a sound pool.
LEMMA InitSound == Init => PoolInv
<1>. SUFFICES ASSUME Init PROVE PoolInv
  OBVIOUS
<1>. DEFINE empty == [queue |-> <<>>, idle |-> {}, pendingWorkers |-> {}, workers |-> {},
                      inflight |-> [w \in Workers |-> NoCall], totalCrashes |-> 0]
<1>1. pool \in {Spawn(empty, {w}, 0) : w \in Workers} \union {Spawn(empty, {}, 1)}
  BY DEF Init
<1>2. answer = [c \in Calls |-> "none"]
  BY DEF Init
<1>3. Sound(empty, answer) /\ Unused(empty) = Workers /\ Cardinality(empty.workers) = 0
  <2>1. empty \in PoolType
    BY EmptySeq DEF PoolType
  <2>2. Accounted(empty)
    BY FS_EmptySet, PoolAssumption, FS_CardinalityType DEF Accounted, Busy
  <2>3. OnePlace(empty) /\ Held(empty, answer)
    BY <1>2, PoolAssumption DEF OnePlace, Held, InQueue, InFlight
  <2>. QED
    BY <2>1, <2>2, <2>3, FS_EmptySet DEF Sound, Unused
<1>4. MaxSize \in Nat /\ MaxSize > 0
  BY PoolAssumption, FS_CardinalityType
<1>5. Sound(pool, answer) /\ pool.queue = <<>>
  <2>1. ASSUME NEW w \in Workers, pool = Spawn(empty, {w}, 0)
        PROVE  Sound(pool, answer) /\ pool.queue = <<>>
    <3>1. Cardinality({w}) = 1 /\ {w} \in SUBSET Unused(empty)
      BY <1>3, FS_Singleton
    <3>. HIDE DEF empty
    <3>2. Sound(pool, answer)
      BY <1>3, <1>4, <2>1, <3>1, SpawnSound
    <3>. QED
      BY <2>1, <3>2 DEF empty, Spawn
  <2>2. CASE pool = Spawn(empty, {}, 1)
    <3>1. Cardinality({}) = 0 /\ {} \in SUBSET Unused(empty)
      BY FS_EmptySet
    <3>. HIDE DEF empty
    <3>2. Sound(pool, answer)
      BY <1>3, <1>4, <2>2, <3>1, SpawnSound
    <3>. QED
      BY <2>2, <3>2 DEF empty, Spawn
  <2>. QED
    BY <1>1, <2>1, <2>2
<1>6. NoneStranded(pool, answer)
  BY <1>5 DEF NoneStranded, Waits
<1>7. TypeOK
  <2>1. /\ destroyed \in BOOLEAN /\ retries \in [Calls -> 0..MaxRetries]
        /\ answer \in [Calls -> {"none", "waiting", "result", "cannotOpen", "crashed",
                                 "busy", "shutdown", "inProcess"}]
        /\ unopened \subseteq Workers
    <3>1. MaxRetries \in Nat /\ 0 \in 0..MaxRetries
      BY PoolAssumption
    <3>2. retries \in [Calls -> 0..MaxRetries]
      BY <3>1 DEF Init
    <3>. QED
      BY <3>2 DEF Init
  <2>. QED
    BY <1>5, <2>1 DEF TypeOK, Sound, PoolType
<1>. QED
  BY <1>5, <1>6, <1>7 DEF PoolInv

LEMMA PoolStep == PoolInv /\ [Next]_vars => PoolInv'
<1>. SUFFICES ASSUME PoolInv, [Next]_vars PROVE PoolInv'
  OBVIOUS
<1>1. ASSUME NEW c \in Calls, Run(c) \/ SoftTimeout(c) PROVE PoolInv'
  BY <1>1, RunStep, SoftTimeoutStep
<1>2. ASSUME NEW w \in Workers, Ready(w) \/ Result(w) \/ WorkerGone(w) PROVE PoolInv'
  BY <1>2, ReadyStep, ResultStep, WorkerGoneStep
<1>3. CASE Destroy
  BY <1>3, DestroyStep
<1>4. CASE UNCHANGED vars
  <2>1. pool' = pool /\ destroyed' = destroyed /\ retries' = retries /\ answer' = answer
        /\ unopened' = unopened
    BY <1>4 DEF vars
  <2>2. TypeOK'
    BY <2>1 DEF PoolInv, TypeOK
  <2>3. Sound(pool, answer)'
    BY <2>1 DEF PoolInv, Sound, Accounted, OnePlace, Held, InQueue, InFlight, Busy, PoolType
  <2>4. NoneStranded(pool, answer)'
    BY <2>1 DEF PoolInv, NoneStranded, Waits, Healthy
  <2>. QED
    BY <2>2, <2>3, <2>4 DEF PoolInv
<1>. QED
  BY <1>1, <1>2, <1>3, <1>4 DEF Next

LEMMA PoolInvariant == Spec => []PoolInv
<1>. QED
  BY InitSound, PoolStep, PTL DEF Spec

----------------------------------------------------------------------------
(* The properties.                                                         *)

\* A pool that is sound counts each waiting call once.
LEMMA OnePlaceCounted ==
  ASSUME TypeOK, Sound(pool, answer), NEW c \in Calls, answer[c] = "waiting"
  PROVE  Cardinality({k \in 1..Len(pool.queue) : pool.queue[k] = c})
           + Cardinality({w \in Workers : pool.inflight[w] = c}) = 1
<1>. DEFINE Q == {k \in 1..Len(pool.queue) : pool.queue[k] = c}
            F == {w \in Workers : pool.inflight[w] = c}
<1>0. OnePlace(pool) /\ Held(pool, answer) /\ c # NoCall
  BY PoolAssumption DEF Sound
<1>1. CASE InQueue(c, pool)
  <2>1. PICK k \in 1..Len(pool.queue) : pool.queue[k] = c
    BY <1>1 DEF InQueue
  <2>2. Q = {k} /\ F = {}
    BY <1>0, <2>1 DEF OnePlace
  <2>3. Cardinality(Q) = 1 /\ Cardinality(F) = 0
    BY <2>2, FS_Singleton, FS_EmptySet
  <2>. QED
    BY <2>3
<1>2. CASE InFlight(c, pool)
  <2>1. PICK w \in Workers : pool.inflight[w] = c
    BY <1>2 DEF InFlight
  <2>2. Q = {} /\ F = {w}
    BY <1>0, <2>1 DEF OnePlace
  <2>3. Cardinality(Q) = 0 /\ Cardinality(F) = 1
    BY <2>2, FS_Singleton, FS_EmptySet
  <2>. QED
    BY <2>3
<1>. QED
  BY <1>0, <1>1, <1>2 DEF Held

\* Nothing is lost or counted twice (query-pool.ts:220-266): whatever workers die, a worker is
\* starting, idle or busy, there are never more than the pool may have, and a call that waits
\* is in the queue once or in flight on one worker.
THEOREM PoolIsAccounted == Spec => []PoolAccounted
<1>1. PoolInv => PoolAccounted
  <2>. SUFFICES ASSUME PoolInv PROVE PoolAccounted
    OBVIOUS
  <2>1. WorkersAccounted
    BY DEF PoolInv, Sound, Accounted, WorkersAccounted
  <2>. QED
    BY <2>1, OnePlaceCounted DEF PoolInv, PoolAccounted
<1>. QED
  BY <1>1, PoolInvariant, PTL

\* Between two handlers no call is stranded (query-pool.ts:244-266): while one is queued, no
\* worker is idle, and a healthy pool has a worker on its way or all it may have.
THEOREM NoCallStranded == Spec => []NoStrandedCall
<1>1. PoolInv => NoStrandedCall
  BY DEF PoolInv, NoneStranded, NoStrandedCall
<1>. QED
  BY <1>1, PoolInvariant, PTL

\* A step of the pool is a step of the promised service, or none.
LEMMA ServiceStep == PoolInv /\ [Next]_vars => [Service!Next]_(Service!vars)
<1>. DEFINE open == {c \in Calls : answer[c] = "waiting"}
            answers == [c \in Calls |-> IF answer[c] = "waiting" THEN "none" ELSE answer[c]]
            Answers == {"result", "cannotOpen", "crashed", "busy"}
<1>. SUFFICES ASSUME PoolInv, [Next]_vars PROVE [Service!Next]_(Service!vars)
  OBVIOUS
<1>0. TypeOK /\ pool \in PoolType /\ Held(pool, answer)
  BY DEF PoolInv, Sound
<1>1. ASSUME NEW c \in Calls, NEW a \in Answers, answer' = Settle(c, a), UNCHANGED destroyed
      PROVE  [Service!Next]_(Service!vars)
  <2>1. /\ \A e \in Calls : answer'[e] = IF e = c /\ answer[c] = "waiting" THEN a ELSE answer[e]
        /\ a # "waiting" /\ a # "none"
    <3>1. a \in Verdicts \ {"none", "waiting"}
      BY DEF Verdicts
    <3>. QED
      BY <1>0, <1>1, <3>1, SettleFacts
  <2>2. CASE answer[c] = "waiting"
    <3>1. {c} \in SUBSET open /\ {c} # {} /\ open' = open \ {c}
      BY <2>1, <2>2
    <3>2. [e \in {c} |-> a] \in [{c} -> Answers]
      OBVIOUS
    <3>3. answers' = [e \in Calls |-> IF e \in {c} THEN [f \in {c} |-> a][e] ELSE answers[e]]
      BY <2>1, <2>2
    <3>4. Service!Answer({c})
      BY <1>1, <3>1, <3>2, <3>3 DEF Service!Answer
    <3>. QED
      BY <3>1, <3>4 DEF Service!Next
  <2>3. CASE answer[c] # "waiting"
    BY <1>1, <2>1, <2>3 DEF Service!vars
  <2>. QED
    BY <2>2, <2>3
<1>2. ASSUME UNCHANGED <<answer, destroyed>> PROVE [Service!Next]_(Service!vars)
  BY <1>2 DEF Service!vars
<1>3. ASSUME NEW c \in Calls, Run(c) PROVE [Service!Next]_(Service!vars)
  <2>1. /\ answer[c] = "none" /\ UNCHANGED destroyed
        /\ \/ ~destroyed /\ answer' = [answer EXCEPT ![c] = "waiting"]
           \/ answer' = [answer EXCEPT ![c] = "inProcess"]
    BY <1>3 DEF Run, Healthy
  <2>2. c \notin open /\ answers[c] = "none"
    BY <2>1
  <2>3. CASE ~destroyed /\ answer' = [answer EXCEPT ![c] = "waiting"]
    <3>1. \A e \in Calls : answer'[e] = IF e = c THEN "waiting" ELSE answer[e]
      BY <1>0, <2>3 DEF TypeOK
    <3>2. open' = open \union {c} /\ answers' = answers
      BY <2>1, <3>1
    <3>3. Service!Accept(c)
      BY <2>1, <2>2, <2>3, <3>2 DEF Service!Accept
    <3>. QED
      BY <3>3 DEF Service!Next
  <2>4. CASE answer' = [answer EXCEPT ![c] = "inProcess"]
    <3>1. \A e \in Calls : answer'[e] = IF e = c THEN "inProcess" ELSE answer[e]
      BY <1>0, <2>4 DEF TypeOK
    <3>2. open' = open /\ answers' = [answers EXCEPT ![c] = "inProcess"]
      BY <2>1, <3>1
    <3>3. Service!SelfServe(c)
      BY <2>1, <2>2, <3>2 DEF Service!SelfServe
    <3>. QED
      BY <3>3 DEF Service!Next
  <2>. QED
    BY <2>1, <2>3, <2>4
<1>4. ASSUME NEW c \in Calls, SoftTimeout(c) PROVE [Service!Next]_(Service!vars)
  BY <1>1, <1>4 DEF SoftTimeout
<1>5. ASSUME NEW w \in Workers, Ready(w) PROVE [Service!Next]_(Service!vars)
  BY <1>2, <1>5 DEF Ready
<1>6. ASSUME NEW w \in Workers, Result(w) PROVE [Service!Next]_(Service!vars)
  <2>1. pool.inflight[w] \in Calls
    BY <1>0, <1>6 DEF Result, Busy, PoolType
  <2>2. /\ answer' = Settle(pool.inflight[w], IF w \in unopened THEN "cannotOpen" ELSE "result")
        /\ UNCHANGED destroyed
    BY <1>6 DEF Result
  <2>. QED
    BY <1>1, <2>1, <2>2
<1>7. ASSUME NEW w \in Workers, WorkerGone(w) PROVE [Service!Next]_(Service!vars)
  <2>1. /\ UNCHANGED destroyed
        /\ \/ UNCHANGED answer
           \/ pool.inflight[w] # NoCall /\ answer' = Settle(pool.inflight[w], "crashed")
    BY <1>7 DEF WorkerGone
  <2>2. pool.inflight[w] \in Calls \union {NoCall}
    BY <1>0 DEF PoolType
  <2>. QED
    BY <1>1, <1>2, <2>1, <2>2
<1>8. CASE Destroy
  <2>1. /\ ~destroyed /\ destroyed'
        /\ \A c \in Calls : answer'[c] = IF answer[c] = "waiting" THEN "shutdown" ELSE answer[c]
    BY <1>0, <1>8 DEF Destroy, Held
  <2>2. /\ open' = {}
        /\ answers' = [c \in Calls |-> IF c \in open THEN "shutdown" ELSE answers[c]]
    BY <2>1
  <2>3. destroyed' = TRUE
    BY <1>8 DEF Destroy
  <2>4. Service!Shutdown
    BY <2>1, <2>2, <2>3 DEF Service!Shutdown
  <2>. QED
    BY <2>4 DEF Service!Next
<1>9. CASE UNCHANGED vars
  BY <1>2, <1>9 DEF vars
<1>. QED
  BY <1>3, <1>4, <1>5, <1>6, <1>7, <1>8, <1>9 DEF Next

\* The pool implements CallService: a call is accepted once and answered once, the answer is
\* final, and destroy() leaves nobody waiting (query-pool.ts:267-308).
THEOREM PoolImplementsService == Spec => KeepsPromise
<1>1. Init => Service!Init
  BY DEF Init, Service!Init
<1>. QED
  BY <1>1, ServiceStep, PoolInvariant, PTL DEF KeepsPromise, Spec, Service!Spec
============================================================================
