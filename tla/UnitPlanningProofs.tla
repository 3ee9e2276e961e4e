--------------------------- MODULE UnitPlanningProofs ---------------------------
(* What TLAPS proves of the migration planner, for any modules, graph on   *)
(* them, sizes and features: the components of the search, the waves over  *)
(* them, the merging of small units, and the plan laid out from them.      *)
EXTENDS UnitPlanning, FiniteSetTheorems, SequenceTheorems, WellFoundedInduction, TLAPS

----------------------------------------------------------------------------
(* Operators the model is built from.                                      *)

\* A set of natural numbers that is not empty has a least one, which Min gives.
LEMMA MinFacts ==
  ASSUME NEW S \in SUBSET Nat, S # {}
  PROVE  Min(S) \in S /\ \A x \in S : Min(S) <= x
<1>. DEFINE R == OpToRel(<, Nat)
<1>1. IsWellFoundedOn(R, Nat)
  BY NatLessThanWellFounded
<1>2. \A x, y \in Nat : y < x => <<y, x>> \in R
  BY DEF OpToRel
<1>. HIDE DEF R
<1>3. IsWellFoundedOn(R, S)
  BY <1>1, IsWellFoundedOnSubset
<1>4. PICK m \in S : \A y \in S : ~(<<y, m>> \in R)
  BY <1>3, WFMin
<1>5. \A x \in S : m <= x
  <2>. SUFFICES ASSUME NEW x \in S, ~(m <= x) PROVE FALSE
    OBVIOUS
  <2>1. x \in Nat /\ m \in Nat /\ x < m
    OBVIOUS
  <2>. QED
    BY <1>2, <1>4, <2>1
<1>. QED
  BY <1>5 DEF Min

\* What is reached contains the successors of x and of its own members, and is the least such set.
LEMMA ReachFacts ==
  ASSUME NEW N, NEW g \in [N -> SUBSET N], NEW x \in N
  PROVE  /\ Reach(g, x) \subseteq N /\ g[x] \subseteq Reach(g, x)
         /\ \A y \in Reach(g, x) : g[y] \subseteq Reach(g, x)
         /\ \A S \in SUBSET N : g[x] \subseteq S /\ (\A z \in S : g[z] \subseteq S) => Reach(g, x) \subseteq S
  BY DEF Reach

LEMMA ReachTransitive ==
  ASSUME NEW N, NEW g \in [N -> SUBSET N], NEW x \in N, NEW y \in Reach(g, x)
  PROVE  Reach(g, y) \subseteq Reach(g, x)
<1>1. y \in N /\ g[y] \subseteq Reach(g, x)
  BY ReachFacts
<1>2. Reach(g, x) \in SUBSET N /\ \A z \in Reach(g, x) : g[z] \subseteq Reach(g, x)
  BY ReachFacts
<1>. QED
  BY <1>1, <1>2, ReachFacts

----------------------------------------------------------------------------
(* The invariant of the search.  The frames are the modules it is inside   *)
(* of; the low number of one is that of a module it reaches, and bounds    *)
(* those of all that has been explored above it.                           *)

OnStack == Range(stack)
Closed == UNION Range(sccs)
Node(k) == frames[k].node
Leads(x, y) == x = y \/ y \in Needs(x)
Explored(m) == {n \in Adj(m) : \A k \in DOMAIN frames : Node(k) = m => n \notin frames[k].rest}

\* The numbers tell the order in which modules were met.
Numbered ==
  /\ \A m \in Modules : index[m] <= Cardinality(Modules \ Unmet)
  /\ \A m, n \in Modules \ Unmet : index[m] = index[n] => m = n
  /\ \A i, j \in DOMAIN stack : i < j => index[stack[i]] < index[stack[j]]
  /\ \A k, l \in DOMAIN frames : k < l => index[Node(k)] < index[Node(l)]

\* A module met is on the stack or in one component.
Sorted ==
  /\ Modules \ Unmet = OnStack \cup Closed /\ OnStack \cap Closed = {}
  /\ \A i \in DOMAIN sccs : sccs[i] # {}
  /\ \A i, j \in DOMAIN sccs : i # j => sccs[i] \cap sccs[j] = {}
  /\ \A k \in DOMAIN frames : Node(k) \in OnStack /\ frames[k].rest \subseteq Adj(Node(k))
  /\ \A m \in OnStack : Explored(m) \subseteq Modules \ Unmet

\* From a frame the whole stack above it is reached; and from the stack, a frame below.
Chained ==
  /\ \A k \in DOMAIN frames, x \in OnStack : index[Node(k)] <= index[x] => Leads(Node(k), x)
  /\ \A x \in OnStack : \E k \in DOMAIN frames : index[Node(k)] <= index[x] /\ Leads(x, Node(k))

\* The low number of a frame is that of a module it reaches, and no greater than that of any
\* that it or a module above it, below the next frame, depends on.
LowExact ==
  /\ \A k \in DOMAIN frames : \E w \in OnStack :
        index[w] = low[Node(k)] /\ index[w] <= index[Node(k)] /\ Leads(Node(k), w)
  /\ \A k \in DOMAIN frames, x \in OnStack : \A y \in Explored(x) \cap OnStack :
        /\ index[Node(k)] <= index[x]
        /\ k < Len(frames) => index[x] < index[Node(k + 1)]
        => low[Node(k)] <= index[y]

\* A component is closed after all it depends on.
ClosedDown ==
  /\ \A i \in DOMAIN sccs : \A m \in sccs[i] : \A n \in Adj(m) : \E j \in 1..i : n \in sccs[j]
  /\ \A i \in DOMAIN sccs : \A m, n \in sccs[i] : Leads(m, n)

SearchInv == Numbered /\ Sorted /\ Chained /\ LowExact /\ ClosedDown

Pending == DOMAIN outstanding
Gone == DOMAIN sccs \ Pending
UnitIs(k, i) == order[k].modules = sccs[i] /\ order[k].dependsOn = {sccs[j] : j \in Succ(i)}

----------------------------------------------------------------------------
(* The search.                                                             *)

Frames == [node : Modules, rest : SUBSET Modules]
InputType == /\ declared \in [Modules -> SUBSET Modules] /\ lifted \in [Modules -> SUBSET Modules]
             /\ devOnly \subseteq Modules
SearchType ==
  /\ index \in [Modules -> 0..Cardinality(Modules)] /\ low \in [Modules -> 0..Cardinality(Modules)]
  /\ stack \in Seq(Modules) /\ frames \in Seq(Frames) /\ sccs \in Seq(SUBSET Modules)

LEMMA AdjFacts ==
  ASSUME InputType
  PROVE  /\ \A m \in Modules : Adj(m) \in SUBSET Modules
         /\ \A m \in Modules : \A n \in Adj(m) : Leads(m, n)
         /\ \A m, n, o \in Modules : Leads(m, n) /\ Leads(n, o) => Leads(m, o)
         /\ \A m, n \in Modules : Leads(m, n) => m = n \/ n \in Needs(m)
         /\ \A m \in Modules : Needs(m) \subseteq Modules
         /\ \A m \in Modules, S \in SUBSET Modules :
              Adj(m) \subseteq S /\ (\A z \in S : Adj(z) \subseteq S) => Needs(m) \subseteq S
<1>. DEFINE g == [n \in Modules |-> Adj(n)]
<1>1. \A m \in Modules : Adj(m) \in SUBSET Modules
  BY DEF InputType, Adj
<1>2. g \in [Modules -> SUBSET Modules] /\ \A m \in Modules : g[m] = Adj(m)
  BY <1>1
<1>3. \A m : Needs(m) = Reach(g, m)
  BY DEF Needs
<1>. HIDE DEF g
<1>4. \A m \in Modules : \A n \in Adj(m) : Leads(m, n)
  BY <1>2, <1>3, ReachFacts DEF Leads
<1>5. \A m \in Modules : Needs(m) \subseteq Modules
  BY <1>2, <1>3, ReachFacts
<1>6. \A m \in Modules, S \in SUBSET Modules :
        Adj(m) \subseteq S /\ (\A z \in S : Adj(z) \subseteq S) => Needs(m) \subseteq S
  <2>. SUFFICES ASSUME NEW m \in Modules, NEW S \in SUBSET Modules,
                       Adj(m) \subseteq S, \A z \in S : Adj(z) \subseteq S
                PROVE  Needs(m) \subseteq S
    OBVIOUS
  <2>1. g[m] \subseteq S /\ \A z \in S : g[z] \subseteq S
    BY <1>2
  <2>. QED
    BY <1>2, <1>3, <2>1, ReachFacts
<1>7. ASSUME NEW m \in Modules, NEW n \in Modules, NEW o \in Modules, Leads(m, n), Leads(n, o)
      PROVE  Leads(m, o)
  <2>1. n \in Reach(g, m) => Reach(g, n) \subseteq Reach(g, m)
    BY <1>2, ReachTransitive
  <2>. QED
    BY <1>3, <1>7, <2>1 DEF Leads
<1>. QED
  BY <1>1, <1>4, <1>5, <1>6, <1>7 DEF Leads

\* What the search knows does not depend on where it is: the input stays.
LEMMA InputStays ==
  ASSUME UNCHANGED input
  PROVE  /\ \A m : Adj(m)' = Adj(m)
         /\ \A m, n : Leads(m, n)' <=> Leads(m, n)
         /\ InputType => InputType'
<1>1. \A m : Adj(m)' = Adj(m)
  BY DEF input, Adj
<1>2. \A m : Needs(m)' = Needs(m)
  BY DEF input, Adj, Needs
<1>. QED
  BY <1>1, <1>2 DEF Leads, input, InputType

\* The modules met.
Met == Modules \ Unmet

LEMMA MetFacts ==
  ASSUME SearchType
  PROVE  /\ IsFiniteSet(Modules) /\ IsFiniteSet(Met)
         /\ Cardinality(Met) \in Nat /\ Cardinality(Modules) \in Nat
         /\ \A w \in Unmet : /\ Cardinality(Met) + 1 \in 1..Cardinality(Modules)
                             /\ Cardinality(Met \union {w}) = Cardinality(Met) + 1
<1>1. IsFiniteSet(Modules) /\ Met \in SUBSET Modules
  BY OrderAssumption DEF Met
<1>2. IsFiniteSet(Met) /\ Cardinality(Met) \in Nat /\ Cardinality(Modules) \in Nat
  BY <1>1, FS_Subset, FS_CardinalityType
<1>3. ASSUME NEW w \in Unmet
      PROVE  /\ Cardinality(Met) + 1 \in 1..Cardinality(Modules)
             /\ Cardinality(Met \union {w}) = Cardinality(Met) + 1
  <2>1. w \notin Met /\ Met \union {w} \in SUBSET Modules
    BY <1>1, <1>3 DEF Met, Unmet
  <2>2. Cardinality(Met \union {w}) = Cardinality(Met) + 1
    BY <1>2, <2>1, FS_AddElement
  <2>3. Cardinality(Met \union {w}) <= Cardinality(Modules)
    BY <1>1, <2>1, FS_Subset
  <2>. QED
    BY <1>2, <2>2, <2>3
<1>. QED
  BY <1>1, <1>2, <1>3

\* A module w is met: what becomes of the search's variables.
LEMMA MeetFacts ==
  ASSUME InputType, SearchType, Numbered, NEW w \in Unmet, NEW below \in Seq(Frames), Meet(w, below)
  PROVE  /\ \A m \in Modules \ {w} : index'[m] = index[m] /\ low'[m] = low[m]
         /\ index'[w] = Cardinality(Met) + 1 /\ low'[w] = Cardinality(Met) + 1
         /\ Met' = Met \union {w} /\ Unmet' = Unmet \ {w} /\ w \notin Met
         /\ Cardinality(Met') = Cardinality(Met) + 1
         /\ \A m \in Modules : index[m] < Cardinality(Met) + 1 /\ index[m] \in Nat
         /\ OnStack' = OnStack \union {w}
         /\ Len(stack') = Len(stack) + 1 /\ stack'[Len(stack) + 1] = w
         /\ \A i \in 1..Len(stack) : stack'[i] = stack[i] /\ stack[i] \in OnStack
         /\ Len(frames') = Len(below) + 1 /\ frames'[Len(below) + 1] = [node |-> w, rest |-> Adj(w)]
         /\ \A k \in 1..Len(below) : frames'[k] = below[k]
         /\ index' \in [Modules -> 0..Cardinality(Modules)] /\ low' \in [Modules -> 0..Cardinality(Modules)]
         /\ stack' \in Seq(Modules) /\ frames' \in Seq(Frames)
<1>. DEFINE c == Cardinality(Met) + 1
<1>1. c \in 1..Cardinality(Modules) /\ c \in Nat /\ Cardinality(Met \union {w}) = c
  BY MetFacts
<1>2. index' = [index EXCEPT ![w] = c] /\ low' = [low EXCEPT ![w] = c] /\ w \in Modules
      /\ stack' = Append(stack, w) /\ frames' = Append(below, [node |-> w, rest |-> Adj(w)])
  BY DEF Meet, Met, Unmet
<1>. HIDE DEF c
<1>3. /\ \A m \in Modules \ {w} : index'[m] = index[m] /\ low'[m] = low[m]
      /\ index'[w] = c /\ low'[w] = c
      /\ index' \in [Modules -> 0..Cardinality(Modules)] /\ low' \in [Modules -> 0..Cardinality(Modules)]
  BY <1>1, <1>2 DEF SearchType
<1>4. Met' = Met \union {w} /\ Unmet' = Unmet \ {w} /\ w \notin Met
  BY <1>1, <1>2, <1>3 DEF Met, Unmet, SearchType
<1>5. \A m \in Modules : index[m] < c /\ index[m] \in Nat
  <2>0. Cardinality(Modules) \in Nat
    BY MetFacts
  <2>1. \A m \in Modules : index[m] \in Nat
    BY <2>0 DEF SearchType
  <2>2. \A m \in Modules : index[m] <= Cardinality(Met)
    BY DEF Numbered, Met
  <2>3. Cardinality(Met) \in Nat
    BY MetFacts
  <2>. QED
    BY <2>1, <2>2, <2>3 DEF c
<1>6. /\ stack' \in Seq(Modules) /\ Len(stack') = Len(stack) + 1 /\ stack'[Len(stack) + 1] = w
      /\ \A i \in 1..Len(stack) : stack'[i] = stack[i] /\ stack[i] \in OnStack
      /\ OnStack' = OnStack \union {w}
  <2>1. stack \in Seq(Modules) /\ Len(stack) \in Nat
    BY DEF SearchType
  <2>2. /\ stack' \in Seq(Modules) /\ Len(stack') = Len(stack) + 1 /\ stack'[Len(stack) + 1] = w
        /\ \A i \in 1..Len(stack) : stack'[i] = stack[i]
    BY <1>2, <2>1
  <2>3. DOMAIN stack = 1..Len(stack) /\ DOMAIN stack' = 1..Len(stack) + 1
    BY <2>1, <2>2
  <2>4. \A i \in 1..Len(stack) : stack[i] \in OnStack
    BY <2>3 DEF OnStack, Range
  <2>5. OnStack' = OnStack \union {w}
    BY <2>1, <2>2, <2>3 DEF OnStack, Range
  <2>. QED
    BY <2>2, <2>4, <2>5
<1>7. /\ Len(frames') = Len(below) + 1 /\ frames'[Len(below) + 1] = [node |-> w, rest |-> Adj(w)]
      /\ \A k \in 1..Len(below) : frames'[k] = below[k]
      /\ frames' \in Seq(Frames)
  <2>1. [node |-> w, rest |-> Adj(w)] \in Frames
    BY <1>2, AdjFacts DEF Frames
  <2>. QED
    BY <1>2, <2>1
<1>. QED
  BY <1>1, <1>3, <1>4, <1>5, <1>6, <1>7 DEF c

\* Sequences by their positions, as the invariants use them.
LEMMA SearchDomains ==
  ASSUME SearchType
  PROVE  /\ Len(stack) \in Nat /\ DOMAIN stack = 1..Len(stack) /\ OnStack \subseteq Modules
         /\ Len(frames) \in Nat /\ DOMAIN frames = 1..Len(frames)
         /\ \A k \in 1..Len(frames) : Node(k) \in Modules /\ frames[k].rest \subseteq Modules
         /\ Len(sccs) \in Nat /\ DOMAIN sccs = 1..Len(sccs)
         /\ \A i \in 1..Len(sccs) : sccs[i] \subseteq Modules
         /\ \A m \in Modules : index[m] \in Nat /\ low[m] \in Nat
         /\ \A x : x \in OnStack <=> \E i \in 1..Len(stack) : stack[i] = x
         /\ \A x : x \in Closed <=> \E i \in 1..Len(sccs) : x \in sccs[i]
<1>1. stack \in Seq(Modules) /\ frames \in Seq(Frames) /\ sccs \in Seq(SUBSET Modules)
  BY DEF SearchType
<1>2. /\ Len(stack) \in Nat /\ DOMAIN stack = 1..Len(stack)
      /\ Len(frames) \in Nat /\ DOMAIN frames = 1..Len(frames)
      /\ Len(sccs) \in Nat /\ DOMAIN sccs = 1..Len(sccs)
  BY <1>1
<1>3. /\ \A i \in 1..Len(stack) : stack[i] \in Modules
      /\ \A k \in 1..Len(frames) : frames[k] \in Frames
      /\ \A i \in 1..Len(sccs) : sccs[i] \in SUBSET Modules
  BY <1>1
<1>4. \A k \in 1..Len(frames) : Node(k) \in Modules /\ frames[k].rest \subseteq Modules
  BY <1>3 DEF Frames, Node
<1>5. /\ \A x : x \in OnStack <=> \E i \in 1..Len(stack) : stack[i] = x
      /\ \A x : x \in Closed <=> \E i \in 1..Len(sccs) : x \in sccs[i]
  BY <1>2 DEF OnStack, Closed, Range
<1>6. \A m \in Modules : index[m] \in Nat /\ low[m] \in Nat
  BY MetFacts DEF SearchType
<1>. QED
  BY <1>2, <1>3, <1>4, <1>5, <1>6

\* Meeting a module keeps the invariant.
LEMMA MeetInv ==
  ASSUME InputType, SearchType, SearchInv, UNCHANGED <<input, sccs>>,
         NEW w \in Unmet, NEW below \in Seq(Frames), Meet(w, below),
         Len(below) = Len(frames),
         \A k \in 1..Len(frames) :
            /\ below[k].node = Node(k) /\ below[k].rest \subseteq frames[k].rest
            /\ \A n \in frames[k].rest : n \in below[k].rest \/ (k = Len(frames) /\ n = w),
         Len(frames) > 0 => w \in Adj(Node(Len(frames)))
  PROVE  SearchType' /\ SearchInv'
<1>. DEFINE L == Len(frames)
            c == Cardinality(Met) + 1
<1>0. Numbered /\ Sorted /\ Chained /\ LowExact /\ ClosedDown
  BY DEF SearchInv
<1>1. /\ \A m \in Modules \ {w} : index'[m] = index[m] /\ low'[m] = low[m]
      /\ index'[w] = c /\ low'[w] = c
      /\ Met' = Met \union {w} /\ w \notin Met /\ Cardinality(Met') = c
      /\ \A m \in Modules : index[m] < c /\ index[m] \in Nat
      /\ OnStack' = OnStack \union {w}
      /\ Len(stack') = Len(stack) + 1 /\ stack'[Len(stack) + 1] = w
      /\ \A i \in 1..Len(stack) : stack'[i] = stack[i] /\ stack[i] \in OnStack
      /\ Len(frames') = L + 1 /\ frames'[L + 1] = [node |-> w, rest |-> Adj(w)]
      /\ \A k \in 1..L : frames'[k] = below[k]
  <2>1. /\ \A m \in Modules \ {w} : index'[m] = index[m] /\ low'[m] = low[m]
        /\ index'[w] = c /\ low'[w] = c
        /\ Met' = Met \union {w} /\ w \notin Met /\ Cardinality(Met') = c
        /\ \A m \in Modules : index[m] < c /\ index[m] \in Nat
        /\ OnStack' = OnStack \union {w}
        /\ Len(stack') = Len(stack) + 1 /\ stack'[Len(stack) + 1] = w
        /\ \A i \in 1..Len(stack) : stack'[i] = stack[i] /\ stack[i] \in OnStack
    BY <1>0, MeetFacts, Zenon
  <2>2. /\ Len(frames') = Len(below) + 1 /\ frames'[Len(below) + 1] = [node |-> w, rest |-> Adj(w)]
        /\ \A k \in 1..Len(below) : frames'[k] = below[k]
    BY <1>0, MeetFacts, Zenon
  <2>. QED
    BY <2>1, <2>2
<1>2. SearchType'
  <2>1. /\ index' \in [Modules -> 0..Cardinality(Modules)] /\ low' \in [Modules -> 0..Cardinality(Modules)]
        /\ stack' \in Seq(Modules) /\ frames' \in Seq(Frames)
    BY <1>0, MeetFacts, Zenon
  <2>. QED
    BY <2>1 DEF SearchType, Frames
<1>3. /\ L \in Nat /\ DOMAIN frames = 1..L /\ DOMAIN frames' = 1..L + 1
      /\ DOMAIN stack = 1..Len(stack) /\ DOMAIN stack' = 1..Len(stack) + 1 /\ Len(stack) \in Nat
      /\ DOMAIN sccs = 1..Len(sccs) /\ Closed' = Closed
      /\ c \in Nat /\ w \in Modules /\ OnStack \subseteq Modules
      /\ \A m \in Modules : index[m] \in Nat /\ low[m] \in Nat
      /\ \A k \in 1..L : Node(k) \in Modules
  <2>1. /\ L \in Nat /\ DOMAIN frames = 1..L
        /\ DOMAIN stack = 1..Len(stack) /\ Len(stack) \in Nat
        /\ DOMAIN sccs = 1..Len(sccs) /\ OnStack \subseteq Modules
        /\ \A m \in Modules : index[m] \in Nat /\ low[m] \in Nat
        /\ \A k \in 1..L : Node(k) \in Modules
    BY SearchDomains
  <2>2. DOMAIN frames' = 1..L + 1 /\ DOMAIN stack' = 1..Len(stack) + 1
    BY <1>1, <1>2 DEF SearchType
  <2>3. Cardinality(Met) \in Nat
    BY MetFacts
  <2>4. Closed' = Closed /\ w \in Modules
    BY DEF Closed, Unmet
  <2>. QED
    BY <2>1, <2>2, <2>3, <2>4
<1>4. /\ \A m : Adj(m)' = Adj(m)
      /\ \A m, n : Leads(m, n)' <=> Leads(m, n)
      /\ \A m \in Modules : Adj(m) \subseteq Modules
      /\ \A m \in Modules : \A n \in Adj(m) : Leads(m, n)
      /\ \A m, n, o \in Modules : Leads(m, n) /\ Leads(n, o) => Leads(m, o)
  BY AdjFacts, InputStays DEF input
<1>5. /\ \A k \in 1..L : Node(k)' = Node(k) /\ frames'[k].rest = below[k].rest
      /\ \A k \in 1..L + 1 : k = L + 1 => Node(k)' = w /\ frames'[k].rest = Adj(w)
  BY <1>1 DEF Node
<1>6. /\ \A k \in 1..L : Node(k) \in OnStack /\ Node(k) # w
      /\ OnStack \subseteq Met
  <2>1. OnStack \subseteq Met
    BY <1>0 DEF Sorted, Met
  <2>2. w \notin OnStack
    BY <2>1 DEF Met
  <2>3. \A k \in 1..L : Node(k) \in OnStack
    BY <1>0, <1>1 DEF Sorted
  <2>. QED
    BY <2>1, <2>2, <2>3
<1>. HIDE DEF c, L
<1>7. /\ \A m \in OnStack : \A n \in Explored(m)' :
            n \in Explored(m) \/ (n = w /\ L > 0 /\ m = Node(L) /\ w \in Adj(m))
      /\ Explored(w)' = {}
  <2>1. ASSUME NEW m \in OnStack, NEW n \in Explored(m)', n \notin Explored(m)
        PROVE  n = w /\ L > 0 /\ m = Node(L) /\ w \in Adj(m)
    <3>1. n \in Adj(m) /\ \A k \in 1..L + 1 : Node(k)' = m => n \notin frames'[k].rest
      BY <1>3, <1>4, <2>1 DEF Explored
    <3>2. PICK k \in 1..L : Node(k) = m /\ n \in frames[k].rest
      BY <1>3, <2>1, <3>1 DEF Explored
    <3>3. k \in 1..L + 1 /\ Node(k)' = m /\ n \notin below[k].rest
      BY <1>3, <1>5, <3>1, <3>2
    <3>4. k = L /\ n = w
      BY <3>2, <3>3 DEF L
    <3>. QED
      BY <1>3, <3>1, <3>2, <3>4
  <2>2. Explored(w)' = {}
    <3>. PICK k \in 1..L + 1 : k = L + 1
      BY <1>3
    <3>1. Node(k)' = w /\ frames'[k].rest = Adj(w) /\ k \in DOMAIN frames'
      BY <1>3, <1>5
    <3>. QED
      BY <1>4, <3>1 DEF Explored
  <2>. QED
    BY <2>1, <2>2
<1>8. Numbered'
  <2>1. \A m \in Modules : index'[m] <= Cardinality(Met')
    BY <1>1, <1>3
  <2>2. \A m, n \in Met' : index'[m] = index'[n] => m = n
    <3>1. \A m, n \in Met : index[m] = index[n] => m = n
      BY <1>0 DEF Numbered, Met
    <3>. QED
      BY <1>1, <1>3, <3>1 DEF Met
  <2>3. \A i, j \in 1..Len(stack) + 1 : i < j => index'[stack'[i]] < index'[stack'[j]]
    <3>. SUFFICES ASSUME NEW i \in 1..Len(stack) + 1, NEW j \in 1..Len(stack) + 1, i < j
                  PROVE  index'[stack'[i]] < index'[stack'[j]]
      OBVIOUS
    <3>1. i \in 1..Len(stack) /\ stack'[i] = stack[i] /\ stack[i] \in Met /\ stack[i] # w
      BY <1>1, <1>3, <1>6
    <3>2. index'[stack'[i]] = index[stack[i]] /\ index[stack[i]] < c
      BY <1>1, <1>3, <1>6, <3>1
    <3>3. CASE j = Len(stack) + 1
      BY <1>1, <3>2, <3>3
    <3>4. CASE j \in 1..Len(stack)
      <4>1. index[stack[i]] < index[stack[j]]
        BY <1>0, <1>3, <3>1, <3>4 DEF Numbered
      <4>2. index'[stack'[j]] = index[stack[j]]
        BY <1>1, <1>3, <1>6, <3>4
      <4>. QED
        BY <3>2, <4>1, <4>2
    <3>. QED
      BY <1>3, <3>3, <3>4
  <2>4. \A k, l \in 1..L + 1 : k < l => index'[Node(k)'] < index'[Node(l)']
    <3>. SUFFICES ASSUME NEW k \in 1..L + 1, NEW l \in 1..L + 1, k < l
                  PROVE  index'[Node(k)'] < index'[Node(l)']
      OBVIOUS
    <3>1. k \in 1..L
      BY <1>3
    <3>2. index'[Node(k)'] = index[Node(k)] /\ index[Node(k)] < c
      BY <1>1, <1>3, <1>5, <1>6, <3>1
    <3>3. CASE l = L + 1
      BY <1>1, <1>5, <3>2, <3>3
    <3>4. CASE l \in 1..L
      <4>1. index[Node(k)] < index[Node(l)]
        BY <1>0, <1>3, <3>1, <3>4 DEF Numbered
      <4>2. index'[Node(l)'] = index[Node(l)]
        BY <1>1, <1>3, <1>5, <1>6, <3>4
      <4>. QED
        BY <3>2, <4>1, <4>2
    <3>. QED
      BY <1>3, <3>3, <3>4
  <2>. QED
    BY <1>3, <2>1, <2>2, <2>3, <2>4 DEF Numbered, Met
<1>9. Sorted'
  <2>1. Met' = OnStack' \cup Closed' /\ OnStack' \cap Closed' = {}
    BY <1>0, <1>1, <1>3 DEF Sorted, Met
  <2>2. \A k \in 1..L + 1 : Node(k)' \in OnStack' /\ frames'[k].rest \subseteq Adj(Node(k)')
    <3>1. \A k \in 1..L : Node(k) \in OnStack /\ frames[k].rest \subseteq Adj(Node(k))
      BY <1>0, <1>3 DEF Sorted
    <3>2. \A k \in 1..L : below[k].rest \subseteq frames[k].rest
      BY DEF L
    <3>. TAKE k \in 1..L + 1
    <3>3. CASE k = L + 1
      BY <1>1, <1>5, <3>3
    <3>4. CASE k \in 1..L
      BY <1>1, <1>5, <3>1, <3>2, <3>4
    <3>. QED
      BY <1>3, <3>3, <3>4
  <2>3. \A m \in OnStack' : Explored(m)' \subseteq Met'
    <3>1. \A m \in OnStack : Explored(m) \subseteq Met
      BY <1>0 DEF Sorted, Met
    <3>. QED
      BY <1>1, <1>7, <3>1
  <2>. QED
    BY <1>0, <1>3, <1>4, <2>1, <2>2, <2>3 DEF Sorted, Met
<1>10. Chained'
  <2>1. ASSUME NEW k \in 1..L + 1, NEW x \in OnStack', index'[Node(k)'] <= index'[x]
        PROVE  Leads(Node(k)', x)
    <3>1. CASE k = L + 1
      <4>1. c <= index'[x]
        BY <1>1, <1>5, <2>1, <3>1
      <4>2. x = w
        BY <1>1, <1>3, <2>1, <4>1
      <4>. QED
        BY <1>5, <3>1, <4>2 DEF Leads
    <3>2. CASE k \in 1..L /\ x # w
      <4>1. x \in OnStack /\ index[Node(k)] <= index[x] /\ Node(k)' = Node(k)
        BY <1>1, <1>3, <1>5, <1>6, <2>1, <3>2
      <4>. QED
        BY <1>0, <1>3, <3>2, <4>1 DEF Chained
    <3>3. CASE k \in 1..L /\ x = w
      <4>1. L \in 1..L /\ w \in Adj(Node(L))
        BY <1>3, <3>3 DEF L
      <4>2. index[Node(k)] <= index[Node(L)]
        <5>1. k < L => index[Node(k)] < index[Node(L)]
          BY <1>0, <1>3, <3>3, <4>1 DEF Numbered
        <5>2. k = L \/ k < L
          BY <1>3, <3>3
        <5>3. index[Node(k)] \in Nat /\ index[Node(L)] \in Nat
          BY <1>3, <3>3, <4>1
        <5>. QED
          BY <5>1, <5>2, <5>3
      <4>3. Leads(Node(k), Node(L))
        BY <1>0, <1>3, <1>6, <3>3, <4>1, <4>2 DEF Chained
      <4>4. Leads(Node(L), w)
        BY <1>3, <1>4, <4>1
      <4>5. Node(k) \in Modules /\ Node(L) \in Modules /\ Node(k)' = Node(k)
        BY <1>3, <1>5, <3>3, <4>1
      <4>6. Leads(Node(k), w)
        BY <1>3, <1>4, <4>3, <4>4, <4>5
      <4>. QED
        BY <3>3, <4>5, <4>6
    <3>. QED
      BY <1>3, <3>1, <3>2, <3>3
  <2>2. ASSUME NEW x \in OnStack'
        PROVE  \E k \in 1..L + 1 : index'[Node(k)'] <= index'[x] /\ Leads(x, Node(k)')
    <3>1. CASE x = w
      <4>. PICK k \in 1..L + 1 : k = L + 1
        BY <1>3
      <4>1. Node(k)' = w /\ index'[w] <= index'[w] /\ Leads(w, w)
        BY <1>1, <1>3, <1>5 DEF Leads
      <4>. QED
        BY <3>1, <4>1
    <3>2. CASE x # w
      <4>1. x \in OnStack
        BY <1>1, <2>2, <3>2
      <4>2. PICK k \in 1..L : index[Node(k)] <= index[x] /\ Leads(x, Node(k))
        BY <1>0, <1>3, <4>1 DEF Chained
      <4>3. k \in 1..L + 1 /\ index'[Node(k)'] = index[Node(k)] /\ index'[x] = index[x]
        BY <1>1, <1>3, <1>5, <1>6, <3>2, <4>1
      <4>. QED
        BY <1>5, <4>2, <4>3
    <3>. QED
      BY <3>1, <3>2
  <2>. QED
    BY <1>3, <1>4, <2>1, <2>2 DEF Chained
<1>11. LowExact'
  <2>0. \A k \in 1..L : \E v \in OnStack :
           index[v] = low[Node(k)] /\ index[v] <= index[Node(k)] /\ Leads(Node(k), v)
    BY <1>0, <1>3 DEF LowExact
  <2>1. ASSUME NEW k \in 1..L + 1
        PROVE  \E v \in OnStack' :
                 index'[v] = low'[Node(k)'] /\ index'[v] <= index'[Node(k)'] /\ Leads(Node(k)', v)
    <3>1. CASE k = L + 1
      <4>1. w \in OnStack' /\ index'[w] = low'[w] /\ index'[w] <= index'[w] /\ Leads(w, w)
        BY <1>1, <1>3 DEF Leads
      <4>. QED
        BY <1>5, <3>1, <4>1
    <3>2. CASE k \in 1..L
      <4>1. PICK v \in OnStack : index[v] = low[Node(k)] /\ index[v] <= index[Node(k)] /\ Leads(Node(k), v)
        BY <2>0, <3>2
      <4>2. /\ index'[v] = index[v] /\ index'[Node(k)] = index[Node(k)] /\ low'[Node(k)] = low[Node(k)]
            /\ v \in OnStack'
        BY <1>1, <1>3, <1>6, <3>2
      <4>. QED
        BY <1>5, <3>2, <4>1, <4>2
    <3>. QED
      BY <1>3, <3>1, <3>2
  <2>2. ASSUME NEW k \in 1..L + 1, NEW x \in OnStack', NEW y \in Explored(x)' \cap OnStack',
               index'[Node(k)'] <= index'[x], k < L + 1 => index'[x] < index'[Node(k + 1)']
        PROVE  low'[Node(k)'] <= index'[y]
    <3>1. x # w /\ x \in OnStack
      BY <1>1, <1>7, <2>2
    <3>2. k \in 1..L
      <4>. SUFFICES ASSUME k = L + 1 PROVE FALSE
        BY <1>3
      <4>1. c <= index'[x]
        BY <1>1, <1>5, <2>2
      <4>. QED
        BY <1>1, <1>3, <3>1, <4>1
    <3>3. index[Node(k)] <= index[x] /\ (k < L => index[x] < index[Node(k + 1)])
      <4>1. index[Node(k)] <= index[x]
        BY <1>1, <1>3, <1>5, <1>6, <2>2, <3>1, <3>2
      <4>2. ASSUME k < L PROVE index[x] < index[Node(k + 1)]
        <5>1. k + 1 \in 1..L /\ k < L + 1
          BY <1>3, <3>2, <4>2
        <5>. QED
          BY <1>1, <1>3, <1>5, <1>6, <2>2, <3>1, <5>1
      <4>. QED
        BY <4>1, <4>2
    <3>4. low'[Node(k)'] = low[Node(k)] /\ low[Node(k)] <= index[Node(k)]
      <4>1. low'[Node(k)'] = low[Node(k)]
        BY <1>1, <1>3, <1>5, <1>6, <3>2
      <4>. QED
        BY <2>0, <3>2, <4>1
    <3>5. CASE y = w
      BY <1>1, <1>3, <3>2, <3>4, <3>5
    <3>6. CASE y # w
      <4>1. y \in Explored(x) /\ y \in OnStack
        BY <1>1, <1>7, <2>2, <3>1, <3>6
      <4>2. low[Node(k)] <= index[y]
        BY <1>0, <1>3, <3>1, <3>2, <3>3, <4>1 DEF LowExact, L
      <4>. QED
        BY <1>1, <1>3, <3>4, <3>6, <4>1, <4>2
    <3>. QED
      BY <3>5, <3>6
  <2>3. Len(frames') = L + 1
    BY <1>1
  <2>. QED
    BY <1>3, <1>4, <2>1, <2>2, <2>3 DEF LowExact
<1>12. ClosedDown'
  BY <1>0, <1>4 DEF ClosedDown
<1>. QED
  BY <1>2, <1>8, <1>9, <1>10, <1>11, <1>12 DEF SearchInv

----------------------------------------------------------------------------
(* Steps of the search: looking at a neighbour.                            *)

LEMMA MinOfTwo ==
  ASSUME NEW a \in Nat, NEW b \in Nat
  PROVE  Min({a, b}) \in {a, b} /\ Min({a, b}) <= a /\ Min({a, b}) <= b
BY MinFacts

\* Looking at a neighbour already met keeps the invariant.
LEMMA PassInv ==
  ASSUME InputType, SearchType, SearchInv, UNCHANGED <<input, index, stack, sccs>>,
         frames # <<>>, NEW w \in Top.rest, w \notin Unmet,
         frames' = [frames EXCEPT ![Len(frames)].rest = @ \ {w}],
         low' = IF w \in OnStack THEN [low EXCEPT ![Top.node] = Min({@, index[w]})] ELSE low
  PROVE  SearchType' /\ SearchInv'
<1>. DEFINE L == Len(frames)
            v == Node(L)
<1>0. Numbered /\ Sorted /\ Chained /\ LowExact /\ ClosedDown
  BY DEF SearchInv
<1>1. /\ L \in Nat /\ DOMAIN frames = 1..L /\ L \in 1..L
      /\ OnStack \subseteq Modules
      /\ \A m \in Modules : index[m] \in Nat /\ low[m] \in Nat
      /\ \A k \in 1..L : Node(k) \in Modules
      /\ frames \in Seq(Frames) /\ low \in [Modules -> 0..Cardinality(Modules)]
      /\ index \in [Modules -> 0..Cardinality(Modules)]
  <2>1. frames \in Seq(Frames) /\ low \in [Modules -> 0..Cardinality(Modules)]
        /\ index \in [Modules -> 0..Cardinality(Modules)]
    BY DEF SearchType
  <2>2. /\ L \in Nat /\ DOMAIN frames = 1..L
        /\ OnStack \subseteq Modules
        /\ \A m \in Modules : index[m] \in Nat /\ low[m] \in Nat
        /\ \A k \in 1..L : Node(k) \in Modules
    BY SearchDomains
  <2>3. L # 0
    BY <2>1
  <2>. QED
    BY <2>1, <2>2, <2>3
<1>2. Top = frames[L] /\ v = Top.node /\ w \in Adj(v) /\ w \in Modules /\ v \in OnStack /\ v \in Modules
  <2>1. Top = frames[L]
    BY DEF Top, Last
  <2>2. v \in OnStack /\ frames[L].rest \subseteq Adj(v)
    BY <1>0, <1>1 DEF Sorted
  <2>. QED
    BY <1>1, <2>1, <2>2, AdjFacts DEF Node
<1>3. /\ DOMAIN frames' = 1..L /\ Len(frames') = L /\ frames' \in Seq(Frames)
      /\ \A k \in 1..L : frames'[k].node = frames[k].node
      /\ \A k \in 1..L : k # L => frames'[k] = frames[k]
      /\ frames'[L].rest = frames[L].rest \ {w}
  <2>0. frames[L] \in Frames
    BY <1>1
  <2>1. frames[L] \in Frames /\ [frames[L] EXCEPT !.rest = @ \ {w}] \in Frames
    <3>1. frames[L].rest \ {w} \in SUBSET Modules
      BY <2>0 DEF Frames
    <3>. QED
      BY <2>0, <3>1 DEF Frames
  <2>2. frames' = [frames EXCEPT ![L] = [frames[L] EXCEPT !.rest = @ \ {w}]]
    OBVIOUS
  <2>3. [frames[L] EXCEPT !.rest = @ \ {w}].node = frames[L].node
        /\ [frames[L] EXCEPT !.rest = @ \ {w}].rest = frames[L].rest \ {w}
    BY <2>1 DEF Frames
  <2>. QED
    BY <1>1, <2>1, <2>2, <2>3
<1>4. \A k \in 1..L : Node(k)' = Node(k)
  BY <1>3 DEF Node
<1>5. low' \in [Modules -> 0..Cardinality(Modules)]
  <2>1. CASE w \in OnStack
    <3>1. Min({low[v], index[w]}) \in {low[v], index[w]}
      BY <1>1, <1>2, MinOfTwo
    <3>2. Min({low[v], index[w]}) \in 0..Cardinality(Modules)
      BY <1>1, <1>2, <3>1
    <3>. QED
      BY <1>1, <1>2, <2>1, <3>2
  <2>. QED
    BY <1>1, <2>1
<1>6. /\ \A m \in Modules : m # v => low'[m] = low[m]
      /\ low'[v] <= low[v] /\ low'[v] \in Nat
      /\ w \in OnStack => low'[v] <= index[w]
      /\ low'[v] = low[v] \/ (w \in OnStack /\ low'[v] = index[w])
  <2>1. CASE w \in OnStack
    <3>1. /\ Min({low[v], index[w]}) \in {low[v], index[w]}
          /\ Min({low[v], index[w]}) <= low[v] /\ Min({low[v], index[w]}) <= index[w]
      BY <1>1, <1>2, MinOfTwo
    <3>2. low' = [low EXCEPT ![v] = Min({low[v], index[w]})]
      BY <1>2, <2>1
    <3>. HIDE DEF v
    <3>3. low'[v] = Min({low[v], index[w]}) /\ \A m \in Modules : m # v => low'[m] = low[m]
      BY <1>1, <1>2, <3>2
    <3>. QED
      BY <1>1, <1>2, <2>1, <3>1, <3>3
  <2>. QED
    BY <1>1, <1>2, <2>1
<1>7. /\ \A m : Adj(m)' = Adj(m)
      /\ \A m, n : Leads(m, n)' <=> Leads(m, n)
      /\ Leads(v, w) /\ Met' = Met /\ OnStack' = OnStack /\ Closed' = Closed
      /\ Unmet' = Unmet
  BY <1>2, AdjFacts, InputStays DEF input, Met, Unmet, OnStack, Closed
<1>8. \A m \in OnStack : \A n \in Explored(m)' : n \in Explored(m) \/ (m = v /\ n = w)
  <2>. SUFFICES ASSUME NEW m \in OnStack, NEW n \in Explored(m)', n \notin Explored(m)
                PROVE  m = v /\ n = w
    OBVIOUS
  <2>1. n \in Adj(m) /\ \A k \in 1..L : Node(k)' = m => n \notin frames'[k].rest
    BY <1>3, <1>7 DEF Explored
  <2>2. PICK k \in 1..L : Node(k) = m /\ n \in frames[k].rest
    BY <1>1, <2>1 DEF Explored
  <2>3. n \notin frames'[k].rest
    BY <1>4, <2>1, <2>2
  <2>4. k = L /\ n = w
    BY <1>3, <2>2, <2>3
  <2>. QED
    BY <2>2, <2>4
<1>. HIDE DEF L, v
<1>9. SearchType'
  BY <1>3, <1>5 DEF SearchType, Frames
<1>10. Numbered'
  <2>1. \A k, l \in 1..L : k < l => index[Node(k)] < index[Node(l)]
    BY <1>0, <1>1 DEF Numbered
  <2>2. \A k, l \in 1..L : k < l => index'[Node(k)'] < index'[Node(l)']
    BY <1>4, <2>1
  <2>. QED
    BY <1>0, <1>3, <1>7, <2>2 DEF Numbered
<1>11. Sorted'
  <2>1. \A k \in 1..L : Node(k)' \in OnStack' /\ frames'[k].rest \subseteq Adj(Node(k)')
    <3>1. \A k \in 1..L : Node(k) \in OnStack /\ frames[k].rest \subseteq Adj(Node(k))
      BY <1>0, <1>1 DEF Sorted
    <3>2. \A k \in 1..L : frames'[k].rest \subseteq frames[k].rest
      BY <1>3
    <3>. QED
      BY <1>4, <1>7, <3>1, <3>2
  <2>2. \A m \in OnStack' : Explored(m)' \subseteq Met'
    <3>1. \A m \in OnStack : Explored(m) \subseteq Met
      BY <1>0 DEF Sorted, Met
    <3>2. w \in Met
      BY <1>2 DEF Met
    <3>. QED
      BY <1>7, <1>8, <3>1, <3>2
  <2>. QED
    BY <1>0, <1>3, <1>7, <2>1, <2>2 DEF Sorted, Met
<1>12. Chained'
  BY <1>0, <1>1, <1>3, <1>4, <1>7 DEF Chained
<1>13. LowExact'
  <2>0. \A k \in 1..L : \E u \in OnStack :
           index[u] = low[Node(k)] /\ index[u] <= index[Node(k)] /\ Leads(Node(k), u)
    BY <1>0, <1>1 DEF LowExact
  <2>1. ASSUME NEW k \in 1..L
        PROVE  \E u \in OnStack' :
                 index'[u] = low'[Node(k)'] /\ index'[u] <= index'[Node(k)'] /\ Leads(Node(k)', u)
    <3>1. PICK u \in OnStack : index[u] = low[Node(k)] /\ index[u] <= index[Node(k)] /\ Leads(Node(k), u)
      BY <2>0
    <3>2. CASE low'[Node(k)] = low[Node(k)]
      BY <1>4, <1>7, <3>1, <3>2
    <3>3. CASE low'[Node(k)] # low[Node(k)]
      <4>1. Node(k) = v /\ w \in OnStack /\ low'[v] = index[w]
        BY <1>1, <1>6, <3>3
      <4>2. index[w] <= index[v]
        BY <1>1, <1>2, <1>6, <3>1, <4>1
      <4>. QED
        BY <1>4, <1>7, <4>1, <4>2
    <3>. QED
      BY <3>2, <3>3
  <2>2. ASSUME NEW k \in 1..L, NEW x \in OnStack', NEW y \in Explored(x)' \cap OnStack',
               index'[Node(k)'] <= index'[x], k < L => index'[x] < index'[Node(k + 1)']
        PROVE  low'[Node(k)'] <= index'[y]
    <3>1. x \in OnStack /\ y \in OnStack /\ index[Node(k)] <= index[x]
      BY <1>4, <1>7, <2>2
    <3>2. k < L => index[x] < index[Node(k + 1)]
      <4>1. k < L => k + 1 \in 1..L
        BY <1>1
      <4>. QED
        BY <1>4, <2>2, <4>1
    <3>3. low'[Node(k)] <= low[Node(k)] /\ low'[Node(k)] \in Nat
      <4>1. Node(k) \in Modules /\ low[Node(k)] \in Nat
        BY <1>1
      <4>2. CASE Node(k) = v
        BY <1>6, <4>2
      <4>3. CASE Node(k) # v
        <5>1. low'[Node(k)] = low[Node(k)]
          BY <1>6, <4>1, <4>3
        <5>. QED
          BY <4>1, <5>1
      <4>. QED
        BY <4>2, <4>3
    <3>4. CASE y \in Explored(x)
      <4>1. low[Node(k)] <= index[y]
        BY <1>0, <1>1, <3>1, <3>2, <3>4 DEF LowExact, L
      <4>. QED
        BY <1>1, <1>4, <3>1, <3>3, <4>1, SMTT(20)
    <3>5. CASE x = v /\ y = w
      <4>1. k = L
        <5>. SUFFICES ASSUME k # L PROVE FALSE
          OBVIOUS
        <5>1. k < L /\ k + 1 \in 1..L
          BY <1>1
        <5>2. index[v] < index[Node(k + 1)]
          BY <3>2, <3>5, <5>1
        <5>3. k + 1 < L => index[Node(k + 1)] < index[Node(L)]
          BY <1>0, <1>1, <5>1 DEF Numbered
        <5>4. k + 1 = L \/ k + 1 < L
          BY <1>1, <5>1
        <5>. QED
          BY <1>1, <5>1, <5>2, <5>3, <5>4 DEF v
      <4>. QED
        BY <1>4, <1>6, <3>1, <3>5, <4>1 DEF v
    <3>. QED
      BY <1>8, <2>2, <3>1, <3>4, <3>5
  <2>3. \A k \in 1..L, x \in OnStack' : \A y \in Explored(x)' \cap OnStack' :
          index'[Node(k)'] <= index'[x] /\ (k < L => index'[x] < index'[Node(k + 1)']) => low'[Node(k)'] <= index'[y]
    BY <2>2
  <2>4. DOMAIN frames' = 1..L /\ Len(frames') = L
    BY <1>3
  <2>5. \A m, n : Leads(m, n)' <=> Leads(m, n)
    BY <1>7
  <2>. QED
    BY <2>1, <2>3, <2>4, <2>5 DEF LowExact
<1>14. ClosedDown'
  BY <1>0, <1>7 DEF ClosedDown
<1>. QED
  BY <1>9, <1>10, <1>11, <1>12, <1>13, <1>14 DEF SearchInv

----------------------------------------------------------------------------
(* Steps of the search: leaving a module.                                  *)

\* The module on top, when it is left.
LEMMA TopFacts ==
  ASSUME InputType, SearchType, SearchInv, UNCHANGED <<input, index>>, frames # <<>>, Top.rest = {},
         frames' = Front(frames), NEW L, L = Len(frames), NEW v, v = Top.node
  PROVE  /\ L \in Nat /\ L >= 1 /\ L \in 1..L /\ Len(frames') = L - 1 /\ frames' \in Seq(Frames)
         /\ DOMAIN frames = 1..L /\ DOMAIN frames' = 1..L - 1
         /\ \A k \in 1..L - 1 : k \in 1..L /\ Node(k)' = Node(k) /\ frames'[k] = frames[k]
         /\ v = Node(L) /\ v \in Modules /\ v \in OnStack
         /\ \A k \in 1..L - 1 : index[Node(k)] < index[v]
         /\ \A k \in 1..L : /\ Node(k) \in OnStack /\ index[Node(k)] <= index[v]
                            /\ frames[k].rest \subseteq Adj(Node(k))
         /\ \A m \in Modules : Explored(m)' = Explored(m)
         /\ \A m \in Modules : index[v] <= index[m] => Explored(m) = Adj(m)
<1>0. Numbered /\ Sorted /\ Chained /\ LowExact /\ ClosedDown
  BY DEF SearchInv
<1>1. frames \in Seq(Frames)
  BY DEF SearchType
<1>2. L \in Nat /\ L # 0 /\ DOMAIN frames = 1..L /\ L \in 1..L /\ L >= 1
  BY <1>1
<1>3. Len(frames') = L - 1 /\ frames' \in Seq(Frames) /\ DOMAIN frames' = 1..L - 1
      /\ \A k \in 1..L - 1 : k \in 1..L /\ frames'[k] = frames[k]
  BY <1>1, <1>2 DEF Front
<1>4. \A k \in 1..L - 1 : Node(k)' = Node(k)
  BY <1>3 DEF Node
<1>5. v = Node(L) /\ frames[L].rest = {}
  BY <1>2 DEF Top, Last, Node
<1>6. /\ \A k \in 1..L : Node(k) \in OnStack /\ frames[k].rest \subseteq Adj(Node(k))
      /\ \A k \in 1..L : Node(k) \in Modules /\ index[Node(k)] \in Nat
  BY <1>0, <1>2, SearchDomains DEF Sorted
<1>7. \A k \in 1..L - 1 : index[Node(k)] < index[v]
  BY <1>0, <1>2, <1>5 DEF Numbered
<1>8. \A k \in 1..L : index[Node(k)] <= index[v]
  <2>. TAKE k \in 1..L
  <2>1. k = L \/ k \in 1..L - 1
    BY <1>2
  <2>. QED
    BY <1>2, <1>5, <1>6, <1>7, <2>1
<1>9. \A m : Adj(m)' = Adj(m)
  BY InputStays
<1>10. \A m \in Modules : Explored(m)' = Explored(m)
  <2>. TAKE m \in Modules
  <2>1. ASSUME NEW n \in Adj(m), \A k \in 1..L : Node(k) = m => n \notin frames[k].rest
        PROVE  \A k \in 1..L - 1 : Node(k)' = m => n \notin frames'[k].rest
    BY <1>3, <1>4, <2>1
  <2>2. ASSUME NEW n \in Adj(m), \A k \in 1..L - 1 : Node(k)' = m => n \notin frames'[k].rest
        PROVE  \A k \in 1..L : Node(k) = m => n \notin frames[k].rest
    <3>. TAKE k \in 1..L
    <3>1. k = L \/ k \in 1..L - 1
      BY <1>2
    <3>. QED
      BY <1>3, <1>4, <1>5, <2>2, <3>1
  <2>. QED
    BY <1>2, <1>3, <1>9, <2>1, <2>2 DEF Explored
<1>11. ASSUME NEW m \in Modules, index[v] <= index[m]
       PROVE  Explored(m) = Adj(m)
  <2>1. \A k \in 1..L : Node(k) = m => frames[k].rest = {}
    <3>. SUFFICES ASSUME NEW k \in 1..L, Node(k) = m PROVE frames[k].rest = {}
      OBVIOUS
    <3>1. k = L \/ k \in 1..L - 1
      BY <1>2
    <3>2. ~(index[Node(k)] < index[v])
      BY <1>2, <1>5, <1>6, <1>11
    <3>. QED
      BY <1>5, <1>7, <3>1, <3>2
  <2>. QED
    BY <1>2, <2>1 DEF Explored
<1>. QED
  BY <1>2, <1>3, <1>4, <1>5, <1>6, <1>7, <1>8, <1>10, <1>11

\* Leaving a module that is not the first of its component.
LEMMA LeaveInv ==
  ASSUME InputType, SearchType, SearchInv, UNCHANGED <<input, index, stack, sccs>>,
         frames # <<>>, Top.rest = {}, frames' = Front(frames),
         low[Top.node] # index[Top.node],
         low' = IF Len(frames) = 1 THEN low
                ELSE [low EXCEPT ![frames[Len(frames) - 1].node] = Min({@, low[Top.node]})]
  PROVE  SearchType' /\ SearchInv'
<1>0. Numbered /\ Sorted /\ Chained /\ LowExact /\ ClosedDown
  BY DEF SearchInv
<1>. PICK L : L = Len(frames)
  OBVIOUS
<1>. PICK v : v = Top.node
  OBVIOUS
<1>1. /\ L \in Nat /\ L >= 1 /\ L \in 1..L /\ Len(frames') = L - 1 /\ frames' \in Seq(Frames)
      /\ DOMAIN frames = 1..L /\ DOMAIN frames' = 1..L - 1
      /\ \A k \in 1..L - 1 : k \in 1..L /\ Node(k)' = Node(k) /\ frames'[k] = frames[k]
      /\ v = Node(L) /\ v \in Modules /\ v \in OnStack
      /\ \A k \in 1..L - 1 : index[Node(k)] < index[v]
      /\ \A k \in 1..L : /\ Node(k) \in OnStack /\ index[Node(k)] <= index[v]
                         /\ frames[k].rest \subseteq Adj(Node(k))
      /\ \A m \in Modules : Explored(m)' = Explored(m)
  BY TopFacts
<1>2. /\ OnStack \subseteq Modules
      /\ \A m \in Modules : index[m] \in Nat /\ low[m] \in Nat
      /\ \A k \in 1..L : Node(k) \in Modules
      /\ low \in [Modules -> 0..Cardinality(Modules)]
      /\ index \in [Modules -> 0..Cardinality(Modules)]
  BY SearchDomains DEF SearchType
<1>3. /\ \A m : Adj(m)' = Adj(m)
      /\ \A m, n : Leads(m, n)' <=> Leads(m, n)
      /\ \A m, n, o \in Modules : Leads(m, n) /\ Leads(n, o) => Leads(m, o)
      /\ Met' = Met /\ OnStack' = OnStack /\ Closed' = Closed /\ Unmet' = Unmet
  BY AdjFacts, InputStays DEF input, Met, Unmet, OnStack, Closed
<1>4. PICK u \in OnStack : index[u] = low[v] /\ index[u] < index[v] /\ Leads(v, u)
  <2>1. \E u \in OnStack : index[u] = low[v] /\ index[u] <= index[v] /\ Leads(v, u)
    BY <1>0, <1>1 DEF LowExact
  <2>. QED
    BY <1>1, <1>2, <2>1
<1>5. PICK d \in 1..L - 1 : index[Node(d)] <= index[u] /\ Leads(v, Node(d))
  <2>1. PICK d \in 1..L : index[Node(d)] <= index[u] /\ Leads(u, Node(d))
    BY <1>0, <1>1 DEF Chained
  <2>2. d # L
    BY <1>1, <1>2, <1>4, <2>1
  <2>3. Leads(v, Node(d))
    BY <1>1, <1>2, <1>3, <1>4, <2>1
  <2>4. d \in 1..L - 1
    BY <1>1, <2>2
  <2>. QED
    BY <2>1, <2>3, <2>4
<1>6. L - 1 \in 1..L - 1 /\ L # 1 /\ (L - 1) + 1 = L
  BY <1>1, <1>5
<1>. PICK p : p = Node(L - 1)
  OBVIOUS
<1>7. p \in Modules /\ p \in OnStack /\ index[p] < index[v]
  BY <1>1, <1>2, <1>6
<1>8. /\ low' \in [Modules -> 0..Cardinality(Modules)]
      /\ \A m \in Modules : m # p => low'[m] = low[m]
      /\ low'[p] <= low[p] /\ low'[p] <= low[v] /\ low'[p] \in {low[p], low[v]} /\ low'[p] \in Nat
  <2>1. low' = [low EXCEPT ![p] = Min({low[p], low[v]})]
    BY <1>6 DEF Node
  <2>2. /\ Min({low[p], low[v]}) \in {low[p], low[v]}
        /\ Min({low[p], low[v]}) <= low[p] /\ Min({low[p], low[v]}) <= low[v]
    BY <1>1, <1>2, <1>7, MinOfTwo
  <2>3. low'[p] = Min({low[p], low[v]}) /\ \A m \in Modules : m # p => low'[m] = low[m]
    BY <1>2, <1>7, <2>1
  <2>4. Min({low[p], low[v]}) \in 0..Cardinality(Modules)
    BY <1>1, <1>2, <1>7, <2>2, SMTT(20)
  <2>5. low' \in [Modules -> 0..Cardinality(Modules)]
    BY <1>2, <2>1, <2>4
  <2>. QED
    BY <1>1, <1>2, <1>7, <2>2, <2>3, <2>5, ZenonT(30)
<1>9. SearchType'
  BY <1>1, <1>8 DEF SearchType, Frames
<1>10. Numbered'
  <2>1. \A k, l \in 1..L : k < l => index[Node(k)] < index[Node(l)]
    BY <1>0, <1>1 DEF Numbered
  <2>2. \A k, l \in 1..L - 1 : k < l => index'[Node(k)'] < index'[Node(l)']
    BY <1>1, <2>1
  <2>. QED
    BY <1>0, <1>1, <1>3, <2>2 DEF Numbered
<1>11. Sorted'
  <2>1. \A k \in 1..L - 1 : Node(k)' \in OnStack' /\ frames'[k].rest \subseteq Adj(Node(k)')
    BY <1>1, <1>3
  <2>2. \A m \in OnStack' : Explored(m)' \subseteq Met'
    <3>1. \A m \in OnStack : Explored(m) \subseteq Met
      BY <1>0 DEF Sorted, Met
    <3>. QED
      BY <1>1, <1>2, <1>3, <3>1
  <2>. QED
    BY <1>0, <1>1, <1>3, <2>1, <2>2 DEF Sorted, Met
<1>12. Chained'
  <2>1. ASSUME NEW k \in 1..L - 1, NEW x \in OnStack', index'[Node(k)'] <= index'[x]
        PROVE  Leads(Node(k)', x)
    <3>1. k \in 1..L /\ Node(k)' = Node(k) /\ x \in OnStack /\ index[Node(k)] <= index[x]
      BY <1>1, <1>3, <2>1
    <3>2. Leads(Node(k), x)
      <4>1. DOMAIN frames = 1..L
        BY <1>1
      <4>. QED
        BY <1>0, <3>1, <4>1 DEF Chained
    <3>. QED
      BY <3>1, <3>2
  <2>2. ASSUME NEW x \in OnStack'
        PROVE  \E k \in 1..L - 1 : index'[Node(k)'] <= index'[x] /\ Leads(x, Node(k)')
    <3>1. x \in OnStack /\ x \in Modules
      BY <1>2, <1>3
    <3>2. PICK k \in 1..L : index[Node(k)] <= index[x] /\ Leads(x, Node(k))
      BY <1>0, <1>1, <3>1 DEF Chained
    <3>3. CASE k \in 1..L - 1
      BY <1>1, <3>2, <3>3
    <3>4. CASE k = L
      <4>1. Leads(x, v) /\ index[v] <= index[x]
        BY <1>1, <3>2, <3>4
      <4>2. Node(d) \in Modules
        BY <1>1, <1>2, <1>5
      <4>3. Leads(x, Node(d))
        BY <1>1, <1>3, <1>5, <3>1, <4>1, <4>2
      <4>4. index[Node(d)] <= index[x]
        <5>1. index[Node(d)] \in Nat /\ index[u] \in Nat /\ index[v] \in Nat /\ index[x] \in Nat
          BY <1>1, <1>2, <3>1, <4>2
        <5>2. index[Node(d)] <= index[u] /\ index[u] < index[v] /\ index[v] <= index[x]
          BY <1>4, <1>5, <4>1
        <5>. QED
          BY <5>1, <5>2
      <4>. QED
        BY <1>1, <1>5, <4>3, <4>4
    <3>. QED
      BY <1>1, <3>3, <3>4
  <2>. QED
    BY <1>1, <1>3, <2>1, <2>2 DEF Chained
<1>13. LowExact'
  <2>0. \A k \in 1..L : \E q \in OnStack :
           index[q] = low[Node(k)] /\ index[q] <= index[Node(k)] /\ Leads(Node(k), q)
    BY <1>0, <1>1 DEF LowExact
  <2>00. \A k \in 1..L, x \in OnStack : \A y \in Explored(x) \cap OnStack :
           index[Node(k)] <= index[x] /\ (k < L => index[x] < index[Node(k + 1)]) => low[Node(k)] <= index[y]
    BY <1>0, <1>1 DEF LowExact
  <2>1. ASSUME NEW k \in 1..L - 1
        PROVE  \E q \in OnStack' :
                 index'[q] = low'[Node(k)'] /\ index'[q] <= index'[Node(k)'] /\ Leads(Node(k)', q)
    <3>0. k \in 1..L /\ Node(k)' = Node(k) /\ Node(k) \in Modules
      BY <1>1, <1>2
    <3>1. PICK q \in OnStack : index[q] = low[Node(k)] /\ index[q] <= index[Node(k)] /\ Leads(Node(k), q)
      BY <2>0, <3>0
    <3>2. CASE low'[Node(k)] = low[Node(k)]
      BY <1>3, <3>0, <3>1, <3>2
    <3>3. CASE low'[Node(k)] # low[Node(k)]
      <4>1. Node(k) = p /\ low'[p] = low[v]
        BY <1>8, <3>0, <3>3
      <4>2. index[u] <= index[p]
        <5>1. index[u] = low[v] /\ low[v] <= low[p] /\ index[q] = low[p] /\ index[q] <= index[p]
          BY <1>4, <1>8, <3>1, <4>1
        <5>2. low[v] \in Nat /\ low[p] \in Nat /\ index[p] \in Nat
          BY <1>1, <1>2, <1>7
        <5>. QED
          BY <5>1, <5>2
      <4>3. Leads(p, v)
        BY <1>0, <1>1, <1>2, <1>6, <1>7 DEF Chained
      <4>4. Leads(p, u)
        BY <1>1, <1>2, <1>3, <1>4, <1>7, <4>3
      <4>. QED
        BY <1>3, <1>4, <3>0, <4>1, <4>2, <4>4
    <3>. QED
      BY <3>2, <3>3
  <2>2. ASSUME NEW k \in 1..L - 1, NEW x \in OnStack', NEW y \in Explored(x)' \cap OnStack',
               index'[Node(k)'] <= index'[x], k < L - 1 => index'[x] < index'[Node(k + 1)']
        PROVE  low'[Node(k)'] <= index'[y]
    <3>1. /\ x \in OnStack /\ y \in OnStack /\ x \in Modules /\ y \in Modules /\ y \in Explored(x)
          /\ k \in 1..L /\ Node(k)' = Node(k) /\ Node(k) \in Modules /\ index[Node(k)] <= index[x]
      BY <1>1, <1>2, <1>3, <2>2
    <3>2. CASE k # L - 1
      <4>1. k < L - 1 /\ k + 1 \in 1..L - 1
        BY <1>1, <3>2
      <4>2. index[x] < index[Node(k + 1)]
        BY <1>1, <2>2, <4>1
      <4>3. low[Node(k)] <= index[y]
        BY <2>00, <3>1, <4>2
      <4>4. Node(k) # p
        <5>1. index[Node(k)] < index[p]
          <6>1. k \in 1..L /\ L - 1 \in 1..L
            BY <1>1, <4>1
          <6>. QED
            BY <1>0, <1>1, <4>1, <6>1 DEF Numbered
        <5>. QED
          BY <1>2, <1>7, <5>1
      <4>. QED
        BY <1>8, <3>1, <4>3, <4>4
    <3>3. CASE k = L - 1 /\ index[x] < index[v]
      <4>1. index[x] < index[Node(k + 1)]
        BY <1>1, <1>6, <3>3
      <4>2. low[Node(k)] <= index[y]
        BY <2>00, <3>1, <4>1
      <4>3. Node(k) = p
        BY <3>3
      <4>4. low'[Node(k)'] <= low[Node(k)] /\ low[Node(k)] \in Nat /\ low'[Node(k)'] \in Nat
        BY <1>2, <1>8, <3>1, <4>3
      <4>5. index'[y] = index[y] /\ index[y] \in Nat
        BY <1>2, <3>1
      <4>. QED
        BY <4>2, <4>4, <4>5, SMTT(20)
    <3>4. CASE k = L - 1 /\ ~(index[x] < index[v])
      <4>0. index[v] \in Nat /\ index[x] \in Nat
        BY <1>1, <1>2, <3>1
      <4>1. index[v] <= index[x]
        BY <3>4, <4>0
      <4>2. low[v] <= index[y]
        <5>1. L \in 1..L /\ index[Node(L)] <= index[x] /\ ~(L < L)
          BY <1>1, <4>1
        <5>. QED
          BY <1>1, <2>00, <3>1, <5>1
      <4>3. low'[Node(k)'] <= low[v] /\ low[v] \in Nat /\ low'[Node(k)'] \in Nat
        BY <1>1, <1>2, <1>8, <3>1, <3>4
      <4>4. index'[y] = index[y] /\ index[y] \in Nat
        BY <1>2, <3>1
      <4>. QED
        BY <4>2, <4>3, <4>4, SMTT(20)
    <3>. QED
      BY <3>2, <3>3, <3>4
  <2>3. \A k \in 1..L - 1, x \in OnStack' : \A y \in Explored(x)' \cap OnStack' :
          index'[Node(k)'] <= index'[x] /\ (k < L - 1 => index'[x] < index'[Node(k + 1)']) => low'[Node(k)'] <= index'[y]
    BY <2>2
  <2>4. DOMAIN frames' = 1..L - 1 /\ Len(frames') = L - 1
    BY <1>1
  <2>5. \A m, n : Leads(m, n)' <=> Leads(m, n)
    BY <1>3
  <2>. QED
    BY <2>1, <2>3, <2>4, <2>5 DEF LowExact
<1>14. ClosedDown'
  BY <1>0, <1>3 DEF ClosedDown
<1>. QED
  BY <1>9, <1>10, <1>11, <1>12, <1>13, <1>14 DEF SearchInv

----------------------------------------------------------------------------
(* Steps of the search: closing a component.                               *)

\* The part of the stack from module v on, which is closed with v.
LEMMA Segment ==
  ASSUME SearchType, SearchInv, NEW at \in 1..Len(stack), NEW v, v = stack[at]
  PROVE  /\ Range(SubSeq(stack, at, Len(stack))) = {x \in OnStack : index[v] <= index[x]}
         /\ Range(SubSeq(stack, 1, at - 1)) = {x \in OnStack : index[x] < index[v]}
         /\ SubSeq(stack, 1, at - 1) \in Seq(Modules)
         /\ \A i \in DOMAIN SubSeq(stack, 1, at - 1) : i \in DOMAIN stack /\ SubSeq(stack, 1, at - 1)[i] = stack[i]
<1>1. /\ stack \in Seq(Modules) /\ Len(stack) \in Nat /\ DOMAIN stack = 1..Len(stack) /\ OnStack \subseteq Modules
      /\ \A x : x \in OnStack <=> \E i \in 1..Len(stack) : stack[i] = x
      /\ \A m \in Modules : index[m] \in Nat
  BY SearchDomains DEF SearchType
<1>2. at \in 1..Len(stack) /\ stack[at] = v
  OBVIOUS
<1>3. \A i, j \in 1..Len(stack) : i < j => index[stack[i]] < index[stack[j]]
  BY <1>1 DEF SearchInv, Numbered
<1>4. \A i \in 1..Len(stack) : stack[i] \in Modules /\ index[stack[i]] \in Nat
  BY <1>1
<1>5. /\ SubSeq(stack, 1, at - 1) \in Seq(Modules)
      /\ DOMAIN SubSeq(stack, 1, at - 1) = 1..at - 1
      /\ \A i \in 1..at - 1 : SubSeq(stack, 1, at - 1)[i] = stack[i]
  BY <1>1, <1>2
<1>6. /\ DOMAIN SubSeq(stack, at, Len(stack)) = 1..Len(stack) - at + 1
      /\ \A i \in 1..Len(stack) - at + 1 : SubSeq(stack, at, Len(stack))[i] = stack[at + i - 1]
  BY <1>1, <1>2
<1>7. \A i \in 1..Len(stack) : index[stack[i]] < index[v] <=> i < at
  <2>. TAKE i \in 1..Len(stack)
  <2>1. i < at \/ i = at \/ at < i
    BY <1>2
  <2>. QED
    BY <1>2, <1>3, <1>4, <2>1
<1>8. \A x : x \in Range(SubSeq(stack, 1, at - 1)) <=> \E i \in 1..Len(stack) : i < at /\ stack[i] = x
  <2>1. \A x : x \in Range(SubSeq(stack, 1, at - 1)) <=> \E i \in 1..at - 1 : stack[i] = x
    BY <1>5 DEF Range
  <2>2. \A i : i \in 1..at - 1 <=> i \in 1..Len(stack) /\ i < at
    BY <1>1, <1>2
  <2>. QED
    BY <2>1, <2>2
<1>9. \A x : x \in Range(SubSeq(stack, at, Len(stack))) <=> \E i \in 1..Len(stack) : ~(i < at) /\ stack[i] = x
  <2>. DEFINE s == SubSeq(stack, at, Len(stack))
  <2>0. \A x : x \in Range(s) <=> \E i \in DOMAIN s : s[i] = x
    BY DEF Range
  <2>00. DOMAIN s = 1..Len(stack) - at + 1 /\ \A i \in DOMAIN s : s[i] = stack[at + i - 1]
    BY <1>6
  <2>. HIDE DEF s
  <2>1. \A x : x \in Range(s) <=> \E i \in 1..Len(stack) - at + 1 : stack[at + i - 1] = x
    <3>1. \A x : x \in Range(s) => \E i \in 1..Len(stack) - at + 1 : stack[at + i - 1] = x
      BY <2>0, <2>00
    <3>2. ASSUME NEW i \in 1..Len(stack) - at + 1 PROVE stack[at + i - 1] \in Range(s)
      <4>1. i \in DOMAIN s /\ s[i] = stack[at + i - 1]
        BY <2>00
      <4>. QED
        BY <2>0, <4>1
    <3>. QED
      BY <3>1, <3>2
  <2>2. \A i \in 1..Len(stack) - at + 1 : at + i - 1 \in 1..Len(stack) /\ ~(at + i - 1 < at)
    BY <1>1, <1>2
  <2>3. \A j \in 1..Len(stack) : ~(j < at) => j - at + 1 \in 1..Len(stack) - at + 1 /\ at + (j - at + 1) - 1 = j
    BY <1>1, <1>2
  <2>4. \A x : (\E i \in 1..Len(stack) - at + 1 : stack[at + i - 1] = x)
               <=> \E i \in 1..Len(stack) : ~(i < at) /\ stack[i] = x
    BY <2>2, <2>3
  <2>. QED
    BY <2>1, <2>4 DEF s
<1>10. \A x \in OnStack : index[x] < index[v] \/ index[v] <= index[x]
  BY <1>1, <1>2, <1>4
<1>11. \A x \in OnStack : ~(index[x] < index[v] /\ index[v] <= index[x])
  BY <1>1, <1>2, <1>4
<1>12. \A x : x \in Range(SubSeq(stack, 1, at - 1)) <=> x \in OnStack /\ index[x] < index[v]
  BY <1>1, <1>7, <1>8
<1>13. \A x : x \in Range(SubSeq(stack, at, Len(stack))) <=> x \in OnStack /\ index[v] <= index[x]
  BY <1>1, <1>7, <1>9, <1>10, <1>11
<1>14. \A i \in 1..at - 1 : i \in DOMAIN stack
  BY <1>1, <1>2
<1>. QED
  BY <1>5, <1>12, <1>13, <1>14

\* Leaving the first module of a component: the component is what is on the stack from it on.
LEMMA CloseInv ==
  ASSUME InputType, SearchType, SearchInv, UNCHANGED <<input, index>>,
         frames # <<>>, Top.rest = {}, frames' = Front(frames),
         low[Top.node] = index[Top.node],
         NEW at, at = CHOOSE k \in 1..Len(stack) : stack[k] = Top.node,
         sccs' = Append(sccs, Range(SubSeq(stack, at, Len(stack)))),
         stack' = SubSeq(stack, 1, at - 1),
         low' = IF Len(frames) = 1 THEN low
                ELSE [low EXCEPT ![frames[Len(frames) - 1].node] = Min({@, low[Top.node]})]
  PROVE  SearchType' /\ SearchInv'
<1>0. Numbered /\ Sorted /\ Chained /\ LowExact /\ ClosedDown
  BY DEF SearchInv
<1>. PICK L : L = Len(frames)
  OBVIOUS
<1>. PICK v : v = Top.node
  OBVIOUS
<1>1. /\ L \in Nat /\ L >= 1 /\ L \in 1..L /\ Len(frames') = L - 1 /\ frames' \in Seq(Frames)
      /\ DOMAIN frames = 1..L /\ DOMAIN frames' = 1..L - 1
      /\ \A k \in 1..L - 1 : k \in 1..L /\ Node(k)' = Node(k) /\ frames'[k] = frames[k]
      /\ v = Node(L) /\ v \in Modules /\ v \in OnStack
      /\ \A k \in 1..L - 1 : index[Node(k)] < index[v]
      /\ \A k \in 1..L : /\ Node(k) \in OnStack /\ index[Node(k)] <= index[v]
                         /\ frames[k].rest \subseteq Adj(Node(k))
      /\ \A m \in Modules : Explored(m)' = Explored(m)
      /\ \A m \in Modules : index[v] <= index[m] => Explored(m) = Adj(m)
  BY TopFacts
<1>2. /\ OnStack \subseteq Modules
      /\ \A m \in Modules : index[m] \in Nat /\ low[m] \in Nat
      /\ \A k \in 1..L : Node(k) \in Modules
      /\ low \in [Modules -> 0..Cardinality(Modules)]
      /\ index \in [Modules -> 0..Cardinality(Modules)]
      /\ Len(sccs) \in Nat /\ DOMAIN sccs = 1..Len(sccs) /\ sccs \in Seq(SUBSET Modules)
      /\ \A x : x \in Closed <=> \E i \in 1..Len(sccs) : x \in sccs[i]
  BY SearchDomains DEF SearchType
<1>3. /\ \A m : Adj(m)' = Adj(m)
      /\ \A m, n : Leads(m, n)' <=> Leads(m, n)
      /\ \A m, n, o \in Modules : Leads(m, n) /\ Leads(n, o) => Leads(m, o)
      /\ Met' = Met /\ Unmet' = Unmet
  BY AdjFacts, InputStays DEF input, Met, Unmet
<1>. PICK C : C = Range(SubSeq(stack, at, Len(stack)))
  OBVIOUS
<1>4. /\ C = {x \in OnStack : index[v] <= index[x]}
      /\ OnStack' = {x \in OnStack : index[x] < index[v]}
      /\ stack' \in Seq(Modules)
      /\ \A i \in DOMAIN stack' : i \in DOMAIN stack /\ stack'[i] = stack[i]
  <2>0. at \in 1..Len(stack) /\ v = stack[at]
    <3>1. at = CHOOSE k \in 1..Len(stack) : stack[k] = v
      OBVIOUS
    <3>2. \E k \in 1..Len(stack) : stack[k] = v
      BY <1>1, SearchDomains
    <3>. QED
      BY <3>1, <3>2
  <2>1. /\ Range(SubSeq(stack, at, Len(stack))) = {x \in OnStack : index[v] <= index[x]}
        /\ Range(SubSeq(stack, 1, at - 1)) = {x \in OnStack : index[x] < index[v]}
        /\ SubSeq(stack, 1, at - 1) \in Seq(Modules)
        /\ \A i \in DOMAIN SubSeq(stack, 1, at - 1) : i \in DOMAIN stack /\ SubSeq(stack, 1, at - 1)[i] = stack[i]
    BY <2>0, Segment
  <2>2. OnStack' = Range(SubSeq(stack, 1, at - 1))
    BY DEF OnStack
  <2>. QED
    BY <2>1, <2>2
<1>5. /\ Len(sccs') = Len(sccs) + 1 /\ DOMAIN sccs' = 1..Len(sccs) + 1 /\ sccs' \in Seq(SUBSET Modules)
      /\ sccs'[Len(sccs) + 1] = C
      /\ \A i \in 1..Len(sccs) : sccs'[i] = sccs[i]
      /\ Closed' = Closed \cup C
  <2>1. C \in SUBSET Modules
    BY <1>2, <1>4
  <2>2. /\ Len(sccs') = Len(sccs) + 1 /\ DOMAIN sccs' = 1..Len(sccs) + 1 /\ sccs' \in Seq(SUBSET Modules)
        /\ sccs'[Len(sccs) + 1] = C
        /\ \A i \in 1..Len(sccs) : sccs'[i] = sccs[i]
    BY <1>2, <2>1
  <2>3. \A x : x \in Closed' <=> x \in Closed \/ x \in C
    <3>1. \A x : x \in Closed' <=> \E i \in 1..Len(sccs) + 1 : x \in sccs'[i]
      <4>1. \A x : x \in Closed' <=> \E i \in DOMAIN sccs' : x \in sccs'[i]
        BY DEF Closed, Range
      <4>. QED
        BY <2>2, <4>1
    <3>2. \A i : i \in 1..Len(sccs) + 1 <=> i \in 1..Len(sccs) \/ i = Len(sccs) + 1
      BY <1>2
    <3>. QED
      BY <1>2, <2>2, <3>1, <3>2
  <2>. QED
    BY <2>2, <2>3
<1>6. /\ v \in C /\ C \subseteq Modules
      /\ \A x \in OnStack : x \in C \/ x \in OnStack'
      /\ C \cap OnStack' = {}
  <2>1. \A x \in OnStack : index[x] \in Nat
    BY <1>2
  <2>2. index[v] \in Nat /\ v \in OnStack
    BY <1>1, <1>2
  <2>3. \A x \in OnStack : (index[v] <= index[x] \/ index[x] < index[v]) /\ ~(index[v] <= index[x] /\ index[x] < index[v])
    BY <2>1, <2>2
  <2>4. index[v] <= index[v]
    BY <2>2
  <2>. QED
    BY <1>2, <1>4, <2>2, <2>3, <2>4
<1>7. low' = low
  <2>1. CASE L = 1
    BY <2>1
  <2>2. CASE L # 1
    <3>1. L - 1 \in 1..L - 1
      BY <1>1, <2>2
    <3>. PICK p : p = Node(L - 1)
      OBVIOUS
    <3>2. p \in Modules /\ index[p] < index[v]
      BY <1>1, <1>2, <3>1
    <3>3. low' = [low EXCEPT ![p] = Min({low[p], low[v]})]
      BY <2>2 DEF Node
    <3>4. low[p] < low[v]
      <4>1. \E q \in OnStack : index[q] = low[p] /\ index[q] <= index[p]
        BY <1>0, <1>1, <3>1 DEF LowExact
      <4>2. low[p] <= index[p]
        BY <4>1
      <4>. QED
        BY <1>1, <1>2, <3>2, <4>2
    <3>5. Min({low[p], low[v]}) = low[p]
      <4>1. low[p] \in Nat /\ low[v] \in Nat
        BY <1>1, <1>2, <3>2
      <4>2. Min({low[p], low[v]}) \in {low[p], low[v]} /\ Min({low[p], low[v]}) <= low[p]
        BY <4>1, MinOfTwo
      <4>. QED
        BY <3>4, <4>1, <4>2
    <3>6. low = [m \in Modules |-> low[m]]
      BY DEF SearchType
    <3>7. low' = [low EXCEPT ![p] = low[p]]
      BY <3>3, <3>5
    <3>. QED
      BY <3>2, <3>6, <3>7
  <2>. QED
    BY <2>1, <2>2
<1>8. /\ C \cap Closed = {}
      /\ \A m \in C : \A n \in Adj(m) : n \in C \/ n \in Closed
  <2>1. C \cap Closed = {}
    BY <1>0, <1>4 DEF Sorted
  <2>2. ASSUME NEW m \in C, NEW n \in Adj(m), n \notin Closed
        PROVE  n \in C
    <3>1. m \in OnStack /\ m \in Modules /\ index[v] <= index[m] /\ n \in Explored(m)
      BY <1>1, <1>2, <1>4, <2>2
    <3>2. n \in OnStack
      BY <1>0, <2>2, <3>1 DEF Sorted
    <3>3. low[v] <= index[n]
      <4>1. L \in DOMAIN frames /\ ~(L < Len(frames)) /\ index[Node(L)] <= index[m]
        BY <1>1, <3>1
      <4>2. low[Node(L)] <= index[n]
        BY <1>0, <3>1, <3>2, <4>1 DEF LowExact
      <4>. QED
        BY <1>1, <4>2
    <3>. QED
      BY <1>4, <3>2, <3>3
  <2>. QED
    BY <2>1, <2>2
<1>9. \A m \in C : Leads(m, v) /\ Leads(v, m)
  <2>. TAKE m \in C
  <2>1. m \in OnStack /\ m \in Modules /\ index[v] <= index[m]
    BY <1>2, <1>4
  <2>2. Leads(v, m)
    <3>1. L \in DOMAIN frames /\ index[Node(L)] <= index[m]
      BY <1>1, <2>1
    <3>2. Leads(Node(L), m)
      BY <1>0, <2>1, <3>1 DEF Chained
    <3>. QED
      BY <1>1, <3>2
  <2>3. PICK k \in 1..L : index[Node(k)] <= index[m] /\ Leads(m, Node(k))
    BY <1>0, <1>1, <2>1 DEF Chained
  <2>4. Leads(Node(k), v)
    BY <1>0, <1>1, <2>3 DEF Chained
  <2>. QED
    BY <1>1, <1>2, <1>3, <2>1, <2>2, <2>3, <2>4
<1>10. SearchType'
  BY <1>1, <1>2, <1>4, <1>5, <1>7 DEF SearchType, Frames
<1>11. Numbered'
  <2>1. \A k, l \in 1..L : k < l => index[Node(k)] < index[Node(l)]
    BY <1>0, <1>1 DEF Numbered
  <2>2. \A k, l \in 1..L - 1 : k < l => index'[Node(k)'] < index'[Node(l)']
    BY <1>1, <2>1
  <2>3. \A i, j \in DOMAIN stack' : i < j => index'[stack'[i]] < index'[stack'[j]]
    <3>. SUFFICES ASSUME NEW i \in DOMAIN stack', NEW j \in DOMAIN stack', i < j
                  PROVE  index[stack'[i]] < index[stack'[j]]
      OBVIOUS
    <3>1. i \in DOMAIN stack /\ j \in DOMAIN stack /\ stack'[i] = stack[i] /\ stack'[j] = stack[j]
      BY <1>4
    <3>2. index[stack[i]] < index[stack[j]]
      BY <1>0, <3>1 DEF Numbered
    <3>. QED
      BY <3>1, <3>2
  <2>. QED
    BY <1>0, <1>1, <1>3, <2>2, <2>3 DEF Numbered
<1>12. Sorted'
  <2>1. \A k \in 1..L - 1 : Node(k)' \in OnStack' /\ frames'[k].rest \subseteq Adj(Node(k)')
    BY <1>1, <1>4, SMTT(20)
  <2>2. \A m \in OnStack' : Explored(m)' \subseteq Met'
    <3>1. \A m \in OnStack : Explored(m) \subseteq Met
      BY <1>0 DEF Sorted, Met
    <3>. QED
      BY <1>1, <1>2, <1>3, <1>4, <3>1
  <2>3. Met' = OnStack' \cup Closed' /\ OnStack' \cap Closed' = {}
    <3>1. Met = OnStack \cup Closed /\ OnStack \cap Closed = {}
      BY <1>0 DEF Sorted, Met
    <3>. QED
      BY <1>3, <1>4, <1>5, <1>6, <3>1
  <2>4. \A i \in 1..Len(sccs) + 1 : sccs'[i] # {}
    <3>. TAKE i \in 1..Len(sccs) + 1
    <3>1. i = Len(sccs) + 1 \/ i \in 1..Len(sccs)
      BY <1>2
    <3>. QED
      BY <1>0, <1>2, <1>5, <1>6, <3>1 DEF Sorted
  <2>5. \A i, j \in 1..Len(sccs) + 1 : i # j => sccs'[i] \cap sccs'[j] = {}
    <3>0. \A i \in 1..Len(sccs) : sccs[i] \cap C = {}
      BY <1>2, <1>8
    <3>00. \A i, j \in 1..Len(sccs) : i # j => sccs[i] \cap sccs[j] = {}
      BY <1>0, <1>2 DEF Sorted
    <3>. TAKE i, j \in 1..Len(sccs) + 1
    <3>1. (i = Len(sccs) + 1 \/ i \in 1..Len(sccs)) /\ (j = Len(sccs) + 1 \/ j \in 1..Len(sccs))
      BY <1>2
    <3>. QED
      BY <1>5, <3>0, <3>00, <3>1
  <2>. QED
    BY <1>1, <1>3, <1>5, <2>1, <2>2, <2>3, <2>4, <2>5, ZenonT(30) DEF Sorted, Met
<1>13. Chained'
  <2>1. ASSUME NEW k \in 1..L - 1, NEW x \in OnStack', index'[Node(k)'] <= index'[x]
        PROVE  Leads(Node(k)', x)
    <3>1. k \in DOMAIN frames /\ Node(k)' = Node(k) /\ x \in OnStack /\ index[Node(k)] <= index[x]
      BY <1>1, <1>4, <2>1
    <3>2. Leads(Node(k), x)
      BY <1>0, <3>1 DEF Chained
    <3>. QED
      BY <3>1, <3>2
  <2>2. ASSUME NEW x \in OnStack'
        PROVE  \E k \in 1..L - 1 : index'[Node(k)'] <= index'[x] /\ Leads(x, Node(k)')
    <3>1. x \in OnStack /\ x \in Modules /\ index[x] < index[v]
      BY <1>2, <1>4
    <3>2. PICK k \in 1..L : index[Node(k)] <= index[x] /\ Leads(x, Node(k))
      BY <1>0, <1>1, <3>1 DEF Chained
    <3>3. k # L
      BY <1>1, <1>2, <3>1, <3>2
    <3>4. k \in 1..L - 1
      BY <1>1, <3>3
    <3>. QED
      BY <1>1, <3>2, <3>4
  <2>. QED
    BY <1>1, <1>3, <2>1, <2>2 DEF Chained
<1>14. LowExact'
  <2>1. ASSUME NEW k \in 1..L - 1
        PROVE  \E q \in OnStack' :
                 index'[q] = low'[Node(k)'] /\ index'[q] <= index'[Node(k)'] /\ Leads(Node(k)', q)
    <3>0. k \in DOMAIN frames /\ Node(k)' = Node(k) /\ Node(k) \in Modules
      BY <1>1, <1>2
    <3>1. PICK q \in OnStack : index[q] = low[Node(k)] /\ index[q] <= index[Node(k)] /\ Leads(Node(k), q)
      BY <1>0, <3>0 DEF LowExact
    <3>2. index[q] < index[v]
      <4>1. index[Node(k)] < index[v] /\ index[q] \in Nat /\ index[v] \in Nat /\ index[Node(k)] \in Nat
        BY <1>1, <1>2
      <4>. QED
        BY <3>1, <4>1
    <3>3. q \in OnStack'
      BY <1>4, <3>2
    <3>. QED
      BY <1>7, <3>0, <3>1, <3>3
  <2>2. ASSUME NEW k \in 1..L - 1, NEW x \in OnStack', NEW y \in Explored(x)' \cap OnStack',
               index'[Node(k)'] <= index'[x], k < L - 1 => index'[x] < index'[Node(k + 1)']
        PROVE  low'[Node(k)'] <= index'[y]
    <3>1. /\ x \in OnStack /\ y \in OnStack /\ x \in Modules /\ y \in Explored(x)
          /\ k \in DOMAIN frames /\ Node(k)' = Node(k) /\ index[Node(k)] <= index[x]
      BY <1>1, <1>2, <1>4, <2>2
    <3>2. index[x] < index[Node(k + 1)]
      <4>1. CASE k # L - 1
        <5>1. k < L - 1 /\ k + 1 \in 1..L - 1
          BY <1>1, <4>1
        <5>. QED
          BY <1>1, <2>2, <5>1
      <4>2. CASE k = L - 1
        <5>1. k + 1 = L /\ index[x] < index[v]
          BY <1>1, <1>4, <4>2
        <5>. QED
          BY <1>1, <5>1
      <4>. QED
        BY <4>1, <4>2
    <3>3. low[Node(k)] <= index[y]
      BY <1>0, <3>1, <3>2 DEF LowExact
    <3>. QED
      BY <1>7, <3>1, <3>3
  <2>3. \A k \in 1..L - 1, x \in OnStack' : \A y \in Explored(x)' \cap OnStack' :
          index'[Node(k)'] <= index'[x] /\ (k < L - 1 => index'[x] < index'[Node(k + 1)']) => low'[Node(k)'] <= index'[y]
    BY <2>2
  <2>4. DOMAIN frames' = 1..L - 1 /\ Len(frames') = L - 1
    BY <1>1
  <2>5. \A m, n : Leads(m, n)' <=> Leads(m, n)
    BY <1>3
  <2>. QED
    BY <2>1, <2>3, <2>4, <2>5 DEF LowExact
<1>15. ClosedDown'
  <2>1. ASSUME NEW i \in 1..Len(sccs) + 1, NEW m \in sccs'[i], NEW n \in Adj(m)
        PROVE  \E j \in 1..i : n \in sccs'[j]
    <3>1. CASE i \in 1..Len(sccs)
      <4>1. m \in sccs[i]
        BY <1>5, <3>1, <2>1
      <4>2. PICK j \in 1..i : n \in sccs[j]
        BY <1>0, <1>2, <2>1, <3>1, <4>1 DEF ClosedDown
      <4>3. j \in 1..Len(sccs)
        BY <1>2, <3>1
      <4>. QED
        BY <1>5, <4>2, <4>3
    <3>2. CASE i = Len(sccs) + 1
      <4>1. n \in C \/ n \in Closed
        BY <1>5, <1>8, <2>1, <3>2
      <4>2. CASE n \in C
        <5>1. i \in 1..i
          BY <1>2, <3>2
        <5>. QED
          BY <1>5, <3>2, <4>2, <5>1
      <4>3. CASE n \in Closed
        <5>1. PICK j \in 1..Len(sccs) : n \in sccs[j]
          BY <1>2, <4>3
        <5>2. j \in 1..i
          BY <1>2, <3>2
        <5>. QED
          BY <1>5, <5>1, <5>2
      <4>. QED
        BY <4>1, <4>2, <4>3
    <3>3. i \in 1..Len(sccs) \/ i = Len(sccs) + 1
      BY <1>2
    <3>. QED
      BY <3>1, <3>2, <3>3
  <2>2. ASSUME NEW i \in 1..Len(sccs) + 1, NEW m \in sccs'[i], NEW n \in sccs'[i]
        PROVE  Leads(m, n)
    <3>1. CASE i \in 1..Len(sccs)
      BY <1>0, <1>2, <1>5, <2>2, <3>1 DEF ClosedDown
    <3>2. CASE i = Len(sccs) + 1
      <4>1. m \in C /\ n \in C
        BY <1>5, <2>2, <3>2
      <4>2. Leads(m, v) /\ Leads(v, n) /\ m \in Modules /\ n \in Modules
        BY <1>6, <1>9, <4>1
      <4>. QED
        BY <1>1, <1>3, <4>2
    <3>3. i \in 1..Len(sccs) \/ i = Len(sccs) + 1
      BY <1>2
    <3>. QED
      BY <3>1, <3>2, <3>3
  <2>3. DOMAIN sccs' = 1..Len(sccs) + 1
    BY <1>5
  <2>4. \A m : Adj(m)' = Adj(m)
    BY <1>3
  <2>5. \A m, n : Leads(m, n)' <=> Leads(m, n)
    BY <1>3
  <2>6. \A i \in DOMAIN sccs' : \A m \in sccs'[i] : \A n \in Adj(m)' : \E j \in 1..i : n \in sccs'[j]
    BY <2>1, <2>3, <2>4
  <2>7. \A i \in DOMAIN sccs' : \A m, n \in sccs'[i] : Leads(m, n)'
    BY <2>2, <2>3, <2>5, ZenonT(30)
  <2>. QED
    BY <2>6, <2>7 DEF ClosedDown
<1>. QED
  BY <1>10, <1>11, <1>12, <1>13, <1>14, <1>15 DEF SearchInv

----------------------------------------------------------------------------
(* What a component is.                                                    *)

SearchSound == InputType /\ SearchType /\ SearchInv

LEMMA SearchInit ==
  ASSUME OrderInit PROVE SearchSound
<1>1. InputType
  <2>1. Declared \subseteq [Modules -> SUBSET Modules] /\ Lifted \subseteq [Modules -> SUBSET Modules]
        /\ DevOnlys \subseteq SUBSET Modules
    BY OrderAssumption
  <2>. QED
    BY <2>1 DEF OrderInit, InputType
<1>2. /\ index = [m \in Modules |-> 0] /\ low = index /\ stack = <<>> /\ frames = <<>> /\ sccs = <<>>
  BY DEF OrderInit
<1>3. Cardinality(Modules) \in Nat
  BY FS_CardinalityType, OrderAssumption
<1>4. SearchType
  BY <1>2, <1>3 DEF SearchType
<1>5. Unmet = Modules /\ OnStack = {} /\ Closed = {} /\ DOMAIN stack = {} /\ DOMAIN frames = {} /\ DOMAIN sccs = {}
  <2>1. DOMAIN stack = {} /\ DOMAIN frames = {} /\ DOMAIN sccs = {}
    BY <1>2
  <2>2. Unmet = Modules
    BY <1>2 DEF Unmet
  <2>3. OnStack = {} /\ Range(sccs) = {}
    BY <2>1 DEF OnStack, Range
  <2>. QED
    BY <2>1, <2>2, <2>3 DEF Closed
<1>6. Numbered
  <2>1. Modules \ Unmet = {}
    BY <1>5
  <2>2. Cardinality(Modules \ Unmet) = 0
    BY <2>1, FS_EmptySet
  <2>3. \A m \in Modules : index[m] <= Cardinality(Modules \ Unmet)
    BY <1>2, <2>2
  <2>. QED
    BY <1>5, <2>1, <2>3 DEF Numbered
<1>7. Sorted /\ Chained /\ LowExact /\ ClosedDown
  BY <1>5 DEF Sorted, Chained, LowExact, ClosedDown
<1>. QED
  BY <1>1, <1>4, <1>6, <1>7 DEF SearchSound, SearchInv

LEMMA StartInv ==
  ASSUME SearchSound, Start PROVE SearchSound'
<1>1. Unmet \in SUBSET Nat /\ Unmet # {} /\ frames = <<>> /\ Meet(Min(Unmet), <<>>)
      /\ UNCHANGED <<input, sccs>>
  BY OrderAssumption DEF Start, Unmet
<1>2. Min(Unmet) \in Unmet
  BY <1>1, MinFacts
<1>3. Len(frames) = 0 /\ <<>> \in Seq(Frames) /\ Len(<<>>) = Len(frames)
  BY <1>1
<1>. PICK w \in Unmet : w = Min(Unmet)
  BY <1>2
<1>. PICK below \in Seq(Frames) : below = <<>>
  BY <1>3
<1>4. Meet(w, below) /\ Len(below) = Len(frames) /\ ~(Len(frames) > 0) /\ 1..Len(frames) = {}
  BY <1>1, <1>3
<1>5. SearchType' /\ SearchInv'
  BY <1>1, <1>4, MeetInv DEF SearchSound
<1>. QED
  BY <1>1, <1>5, InputStays DEF SearchSound

LEMMA LookInv ==
  ASSUME SearchSound, Look PROVE SearchSound'
<1>0. InputType /\ SearchType /\ SearchInv
  BY DEF SearchSound
<1>1. frames # <<>> /\ Top.rest # {} /\ UNCHANGED <<input, sccs>>
  BY DEF Look
<1>2. frames \in Seq(Frames) /\ Len(frames) \in 1..Len(frames) /\ Len(frames) \in Nat
      /\ Top = frames[Len(frames)] /\ Top \in Frames
  BY <1>0, <1>1 DEF SearchType, Top, Last
<1>3. Top.rest \in SUBSET Modules /\ Top.node = Node(Len(frames)) /\ Top.rest \subseteq Adj(Top.node)
  <2>1. Top.rest \subseteq Adj(Node(Len(frames)))
    BY <1>0, <1>2 DEF SearchInv, Sorted
  <2>. QED
    BY <1>2, <2>1 DEF Frames, Node
<1>4. Min(Top.rest) \in Top.rest
  BY <1>1, <1>3, OrderAssumption, MinFacts
<1>. PICK w \in Top.rest : w = Min(Top.rest)
  BY <1>4
<1>. PICK looked : looked = [frames EXCEPT ![Len(frames)].rest = @ \ {w}]
  OBVIOUS
<1>5. CASE w \in Unmet /\ Meet(w, looked)
  <2>1. [frames[Len(frames)] EXCEPT !.rest = @ \ {w}] \in Frames
        /\ [frames[Len(frames)] EXCEPT !.rest = @ \ {w}].node = Top.node
        /\ [frames[Len(frames)] EXCEPT !.rest = @ \ {w}].rest = Top.rest \ {w}
    <3>1. Top.rest \ {w} \in SUBSET Modules
      BY <1>3
    <3>. QED
      BY <1>2, <3>1 DEF Frames
  <2>2. looked = [frames EXCEPT ![Len(frames)] = [frames[Len(frames)] EXCEPT !.rest = @ \ {w}]]
    OBVIOUS
  <2>3. looked \in Seq(Frames) /\ Len(looked) = Len(frames)
        /\ looked[Len(frames)].node = Top.node /\ looked[Len(frames)].rest = Top.rest \ {w}
        /\ \A k \in 1..Len(frames) : k # Len(frames) => looked[k] = frames[k]
    <3>. PICK top \in Frames : top = [frames[Len(frames)] EXCEPT !.rest = @ \ {w}]
      BY <2>1
    <3>1. looked = [frames EXCEPT ![Len(frames)] = top]
      BY <2>2
    <3>. QED
      BY <1>2, <2>1, <3>1
  <2>4. \A k \in 1..Len(frames) :
          /\ looked[k].node = Node(k) /\ looked[k].rest \subseteq frames[k].rest
          /\ \A n \in frames[k].rest : n \in looked[k].rest \/ (k = Len(frames) /\ n = w)
    <3>. TAKE k \in 1..Len(frames)
    <3>1. CASE k # Len(frames)
      BY <2>3, <3>1 DEF Node
    <3>2. CASE k = Len(frames)
      BY <1>2, <1>3, <2>3, <3>2
    <3>. QED
      BY <3>1, <3>2
  <2>5. w \in Adj(Node(Len(frames)))
    BY <1>3
  <2>6. SearchType' /\ SearchInv'
    BY <1>0, <1>1, <1>5, <2>3, <2>4, <2>5, MeetInv, ZenonT(30)
  <2>. QED
    BY <1>0, <1>1, <2>6, InputStays DEF SearchSound
<1>6. CASE /\ w \notin Unmet
           /\ low' = IF w \in Range(stack)
                     THEN [low EXCEPT ![Top.node] = Min({@, index[w]})] ELSE low
           /\ frames' = looked
           /\ UNCHANGED <<index, stack>>
  <2>1. SearchType' /\ SearchInv'
    <3>1. low' = IF w \in OnStack THEN [low EXCEPT ![Top.node] = Min({@, index[w]})] ELSE low
      BY <1>6 DEF OnStack
    <3>2. UNCHANGED <<input, index, stack, sccs>> /\ frames' = [frames EXCEPT ![Len(frames)].rest = @ \ {w}]
      BY <1>1, <1>6
    <3>. QED
      BY <1>0, <1>1, <1>6, <3>1, <3>2, PassInv
  <2>. QED
    BY <1>0, <1>1, <2>1, InputStays DEF SearchSound
<1>. QED
  BY <1>5, <1>6 DEF Look

LEMMA ClosingInv ==
  ASSUME SearchSound, Close PROVE SearchSound'
<1>0. InputType /\ SearchType /\ SearchInv
  BY DEF SearchSound
<1>1. /\ frames # <<>> /\ Top.rest = {} /\ UNCHANGED <<input, index>> /\ frames' = Front(frames)
      /\ low' = IF Len(frames) = 1 THEN low
                ELSE [low EXCEPT ![frames[Len(frames) - 1].node] = Min({@, low[Top.node]})]
  BY DEF Close
<1>2. CASE low[Top.node] = index[Top.node]
  <2>. PICK at : at = CHOOSE k \in 1..Len(stack) : stack[k] = Top.node
    OBVIOUS
  <2>1. sccs' = Append(sccs, Range(SubSeq(stack, at, Len(stack)))) /\ stack' = SubSeq(stack, 1, at - 1)
    BY <1>2 DEF Close
  <2>2. SearchType' /\ SearchInv'
    BY <1>0, <1>1, <1>2, <2>1, CloseInv
  <2>. QED
    BY <1>0, <1>1, <2>2, InputStays DEF SearchSound
<1>3. CASE low[Top.node] # index[Top.node]
  <2>1. UNCHANGED <<sccs, stack>>
    BY <1>3 DEF Close
  <2>2. SearchType' /\ SearchInv'
    BY <1>0, <1>1, <1>3, <2>1, LeaveInv
  <2>. QED
    BY <1>0, <1>1, <2>2, InputStays DEF SearchSound
<1>. QED
  BY <1>2, <1>3

LEMMA SearchStays ==
  ASSUME SearchSound, UNCHANGED <<input, search>> PROVE SearchSound'
<1>1. /\ UNCHANGED <<index, low, stack, frames, sccs>> /\ UNCHANGED input
      /\ \A m : Adj(m)' = Adj(m)
      /\ \A m, n : Leads(m, n)' <=> Leads(m, n)
      /\ InputType'
  BY InputStays DEF search, SearchSound
<1>2. SearchType'
  BY <1>1 DEF SearchType, SearchSound, Frames
<1>3. /\ Unmet' = Unmet /\ OnStack' = OnStack /\ Closed' = Closed
      /\ \A k : Node(k)' = Node(k)
      /\ \A m : Explored(m)' = Explored(m)
  BY <1>1 DEF Unmet, OnStack, Closed, Node, Explored
<1>4. Numbered'
  BY <1>1, <1>3 DEF SearchSound, SearchInv, Numbered
<1>5. Sorted'
  BY <1>1, <1>3 DEF SearchSound, SearchInv, Sorted
<1>6. Chained'
  BY <1>1, <1>3 DEF SearchSound, SearchInv, Chained
<1>7. LowExact'
  BY <1>1, <1>3 DEF SearchSound, SearchInv, LowExact
<1>8. ClosedDown'
  BY <1>1 DEF SearchSound, SearchInv, ClosedDown
<1>. QED
  BY <1>1, <1>2, <1>4, <1>5, <1>6, <1>7, <1>8 DEF SearchSound, SearchInv

LEMMA PlanStepKeeps ==
  ASSUME PlanStep PROVE UNCHANGED <<input, search, outstanding, order>>
BY DEF PlanStep, BeginPlan, BeginPass, TakeGroup, AddMember, PackBin, EndPass, PassOver, EmitLevel, Throw,
       LevelsDone, EmitFeatures, FeaturesOrdered, SplitUnit, Annotate, EndPlan, inputUnchanged, orderUnchanged

LEMMA SearchNext ==
  ASSUME SearchSound, [Next]_vars PROVE SearchSound'
<1>1. CASE Start BY <1>1, StartInv
<1>2. CASE Look BY <1>2, LookInv
<1>3. CASE Close BY <1>3, ClosingInv
<1>4. CASE Condense \/ EmitWave \/ Ordered
  <2>1. UNCHANGED <<input, search>>
    BY <1>4 DEF Condense, EmitWave, EmitWaveOf, Ordered
  <2>. QED
    BY <2>1, SearchStays
<1>5. CASE PlanStep
  <2>1. UNCHANGED <<input, search>>
    BY <1>5, PlanStepKeeps
  <2>. QED
    BY <2>1, SearchStays
<1>6. CASE UNCHANGED vars
  <2>1. UNCHANGED <<input, search>>
    BY <1>6 DEF vars, orderVars
  <2>. QED
    BY <2>1, SearchStays
<1>. QED
  BY <1>1, <1>2, <1>3, <1>4, <1>5, <1>6 DEF Next, OrderNext

\* The components, in the order they are closed, are what the modules reach: each is closed after
\* all that its modules need.
LEMMA NeedsBelow ==
  ASSUME SearchSound, NEW i \in DOMAIN sccs, NEW m \in sccs[i]
  PROVE  m \in Modules /\ \A n \in Needs(m) : n \in Modules /\ \E j \in 1..i : n \in sccs[j]
<1>1. DOMAIN sccs = 1..Len(sccs) /\ Len(sccs) \in Nat /\ \A j \in 1..Len(sccs) : sccs[j] \subseteq Modules
  BY SearchDomains DEF SearchSound
<1>. DEFINE S == {n \in Modules : \E j \in 1..i : n \in sccs[j]}
<1>2. \A j \in 1..i : j \in 1..Len(sccs)
  BY <1>1
<1>3. m \in Modules /\ m \in S
  BY <1>1
<1>4. \A n \in S : Adj(n) \subseteq S
  <2>. SUFFICES ASSUME NEW n \in S, NEW o \in Adj(n) PROVE o \in S
    OBVIOUS
  <2>1. PICK j \in 1..i : n \in sccs[j]
    OBVIOUS
  <2>2. PICK k \in 1..j : o \in sccs[k]
    BY <1>1, <1>2, <2>1 DEF SearchSound, SearchInv, ClosedDown
  <2>3. k \in 1..i
    BY <1>1
  <2>. QED
    BY <1>1, <1>2, <2>2, <2>3
<1>5. Needs(m) \subseteq S
  <2>1. S \in SUBSET Modules /\ Adj(m) \subseteq S
    BY <1>3, <1>4
  <2>. HIDE DEF S
  <2>. QED
    BY <1>3, <1>4, <2>1, AdjFacts DEF SearchSound
<1>. QED
  BY <1>3, <1>5

LEMMA ComponentsFromSearch ==
  ASSUME SearchSound PROVE ComponentsExact
<1>. SUFFICES ASSUME NEW i \in DOMAIN sccs, NEW m \in sccs[i]
              PROVE  sccs[i] = {m} \cup {x \in Needs(m) : m \in Needs(x)}
  BY DEF ComponentsExact
<1>0. DOMAIN sccs = 1..Len(sccs) /\ Len(sccs) \in Nat
  BY SearchDomains DEF SearchSound
<1>1. ASSUME NEW x \in sccs[i], x # m PROVE x \in Needs(m) /\ m \in Needs(x)
  <2>1. Leads(m, x) /\ Leads(x, m)
    BY DEF SearchSound, SearchInv, ClosedDown
  <2>. QED
    BY <1>1, <2>1 DEF Leads
<1>2. ASSUME NEW x \in Needs(m), m \in Needs(x) PROVE x \in sccs[i]
  <2>1. PICK j \in 1..i : x \in sccs[j]
    BY NeedsBelow
  <2>2. j \in DOMAIN sccs
    BY <1>0
  <2>3. PICK k \in 1..j : m \in sccs[k]
    BY <1>2, <2>1, <2>2, NeedsBelow
  <2>4. k \in DOMAIN sccs
    BY <1>0, <2>2
  <2>5. k = i
    BY <2>3, <2>4 DEF SearchSound, SearchInv, Sorted
  <2>6. j = i
    BY <1>0, <2>5
  <2>. QED
    BY <2>1, <2>6
<1>. QED
  BY <1>1, <1>2

\* A component is exactly the modules that need one another (topo.ts:156-205).
THEOREM ComponentsAreExact == Spec => []ComponentsExact
<1>1. Init => SearchSound
  BY SearchInit DEF Init
<1>2. SearchSound /\ [Next]_vars => SearchSound'
  BY SearchNext
<1>3. SearchSound => ComponentsExact
  BY ComponentsFromSearch
<1>. QED
  BY <1>1, <1>2, <1>3, PTL DEF Spec

----------------------------------------------------------------------------
(* The order: waves over the components.                                   *)

LEMMA MaxIs ==
  ASSUME NEW S \in SUBSET Nat, NEW m \in S, \A x \in S : x <= m
  PROVE  Max(S) = m
<1>1. \A y \in S : m >= y
  OBVIOUS
<1>2. Max(S) \in S /\ \A y \in S : Max(S) >= y
  BY <1>1 DEF Max
<1>3. Max(S) >= m /\ m >= Max(S) /\ Max(S) \in Nat /\ m \in Nat
  BY <1>1, <1>2
<1>. QED
  BY <1>3

\* "ahead" gives for each element of S those before it, in a strict total order.
Orders(ahead, S) ==
  /\ ahead \in [S -> SUBSET S]
  /\ \A x \in S : x \notin ahead[x]
  /\ \A x, y \in S : x \in ahead[y] => ahead[x] \subseteq ahead[y]
  /\ \A x, y \in S : x # y => x \in ahead[y] \/ y \in ahead[x]

\* The sequence s lists the elements of S, each once.
Enumerates(s, S) ==
  /\ s \in Seq(S) /\ Len(s) = Cardinality(S) /\ Len(s) \in Nat /\ DOMAIN s = 1..Len(s)
  /\ \A k \in DOMAIN s : s[k] \in S
  /\ \A j, k \in DOMAIN s : s[j] = s[k] => j = k
  /\ \A x \in S : \E k \in DOMAIN s : s[k] = x

\* Sorting by it gives every element, once.
LEMMA InOrderFacts ==
  ASSUME NEW S, IsFiniteSet(S), NEW ahead, Orders(ahead, S)
  PROVE  Enumerates(InOrder(ahead), S)
<1>. PICK n : n = Cardinality(S)
  OBVIOUS
<1>. PICK s : s = InOrder(ahead)
  OBVIOUS
<1>0. n \in Nat
  BY FS_CardinalityType
<1>. DEFINE rank == [x \in S |-> Cardinality(ahead[x]) + 1]
<1>1. \A x \in S : IsFiniteSet(ahead[x]) /\ Cardinality(ahead[x]) \in Nat
  BY FS_Subset, FS_CardinalityType DEF Orders
<1>2. \A x \in S : Cardinality(ahead[x]) + 1 \in 1..n
  <2>. TAKE x \in S
  <2>1. ahead[x] \in SUBSET (S \ {x})
    BY DEF Orders
  <2>2. IsFiniteSet(S \ {x}) /\ Cardinality(S \ {x}) = n - 1
    BY FS_RemoveElement
  <2>3. Cardinality(ahead[x]) <= n - 1
    BY <2>1, <2>2, FS_Subset
  <2>. QED
    BY <1>0, <1>1, <2>3
<1>3. ASSUME NEW x \in S, NEW y \in S, x \in ahead[y]
      PROVE  Cardinality(ahead[x]) # Cardinality(ahead[y])
  <2>1. ahead[x] \in SUBSET ahead[y] /\ ahead[x] # ahead[y]
    BY <1>3 DEF Orders
  <2>. QED
    BY <1>1, <2>1, FS_Subset
<1>4. \A x, y \in S : Cardinality(ahead[x]) = Cardinality(ahead[y]) => x = y
  BY <1>3 DEF Orders
<1>5. rank \in [S -> 1..n] /\ \A x, y \in S : rank[x] = rank[y] => x = y
  BY <1>1, <1>2, <1>4
<1>6. rank \in Injection(S, 1..n)
  BY <1>5 DEF Injection, IsInjective
<1>7. IsFiniteSet(1..n) /\ Cardinality(1..n) = n
  BY <1>0, FS_Interval
<1>8. rank \in Surjection(S, 1..n)
  BY <1>6, <1>7, FS_Injection
<1>9. \A k \in 1..n : \E x \in S : rank[x] = k
  BY <1>8 DEF Surjection
<1>10. \A k \in 1..n : \E x \in S : Cardinality(ahead[x]) = k - 1
  BY <1>1, <1>9
<1>11. DOMAIN ahead = S /\ s = [k \in 1..n |-> CHOOSE x \in S : Cardinality(ahead[x]) = k - 1]
  BY DEF InOrder, Orders
<1>12. \A k \in 1..n : s[k] \in S /\ Cardinality(ahead[s[k]]) = k - 1
  BY <1>10, <1>11
<1>13. DOMAIN s = 1..n
  BY <1>11
<1>14. s \in [1..n -> S]
  <2>. HIDE DEF rank
  <2>. QED
    BY <1>11, <1>12
<1>15. s \in Seq(S) /\ Len(s) = n
  BY <1>0, <1>13, <1>14, SeqDef, LenProperties
<1>16. \A j, k \in 1..n : s[j] = s[k] => j = k
  <2>. TAKE j, k \in 1..n
  <2>. HAVE s[j] = s[k]
  <2>1. j - 1 = k - 1
    BY <1>12
  <2>. QED
    BY <2>1
<1>17. \A x \in S : \E k \in 1..n : s[k] = x
  <2>. TAKE x \in S
  <2>. PICK k \in 1..n : k = Cardinality(ahead[x]) + 1
    BY <1>2
  <2>1. Cardinality(ahead[s[k]]) = Cardinality(ahead[x]) /\ s[k] \in S
    BY <1>1, <1>12
  <2>. QED
    BY <1>4, <2>1
<1>. QED
  BY <1>0, <1>12, <1>13, <1>15, <1>16, <1>17 DEF Enumerates

UnitSets == (SUBSET Modules) \ {{}}

\* Units that share no module are strictly ordered, product before dev-only and by least module.
LEMMA BeforeFacts ==
  /\ \A u \in UnitSets : ~Before(u, u)
  /\ \A u, v, w \in UnitSets : Before(u, v) /\ Before(v, w) => Before(u, w)
  /\ \A u, v \in UnitSets : u \cap v = {} => Before(u, v) \/ Before(v, u)
<1>1. \A u \in UnitSets : Min(u) \in Nat /\ Min(u) \in u
  <2>. TAKE u \in UnitSets
  <2>1. u \in SUBSET Nat /\ u # {}
    BY OrderAssumption DEF UnitSets
  <2>. QED
    BY <2>1, MinFacts
<1>2. \A u : DevOnlyUnit(u) \in BOOLEAN
  BY DEF DevOnlyUnit
<1>3. ASSUME NEW u \in UnitSets, NEW v \in UnitSets
      PROVE  /\ ~Before(u, u)
             /\ u \cap v = {} => Before(u, v) \/ Before(v, u)
  <2>1. u \cap v = {} => Min(u) # Min(v)
    BY <1>1
  <2>2. Min(u) < Min(v) \/ Min(v) < Min(u) \/ Min(u) = Min(v)
    BY <1>1
  <2>3. ~(Min(u) < Min(u))
    BY <1>1
  <2>. QED
    BY <1>2, <2>1, <2>2, <2>3, Zenon DEF Before
<1>4. ASSUME NEW u \in UnitSets, NEW v \in UnitSets, NEW w \in UnitSets,
             Before(u, v), Before(v, w)
      PROVE  Before(u, w)
  <2>1. Min(u) < Min(v) /\ Min(v) < Min(w) => Min(u) < Min(w)
    BY <1>1
  <2>. QED
    BY <1>2, <1>4, <2>1, Zenon DEF Before
<1>. QED
  BY <1>3, <1>4

\* Sorting disjoint units, given by a function on an index set.
LEMMA UnitsOrdered ==
  ASSUME NEW S, NEW f \in [S -> UnitSets], \A x, y \in S : x # y => f[x] \cap f[y] = {},
         NEW ahead, ahead = [x \in S |-> {y \in S : Before(f[y], f[x])}]
  PROVE  Orders(ahead, S)
<1>1. \A x, y \in S : y \in ahead[x] <=> Before(f[y], f[x])
  OBVIOUS
<1>2. ahead \in [S -> SUBSET S]
  OBVIOUS
<1>3. \A x \in S : f[x] \in UnitSets
  OBVIOUS
<1>4. \A x \in S : x \notin ahead[x]
  BY <1>1, <1>3, BeforeFacts
<1>5. \A x, y \in S : x # y => x \in ahead[y] \/ y \in ahead[x]
  BY <1>1, <1>3, BeforeFacts
<1>6. ASSUME NEW x \in S, NEW y \in S, x \in ahead[y], NEW z \in ahead[x] PROVE z \in ahead[y]
  <2>1. z \in S /\ Before(f[z], f[x]) /\ Before(f[x], f[y])
    BY <1>1, <1>2, <1>6
  <2>2. Before(f[z], f[y])
    BY <1>3, <2>1, BeforeFacts
  <2>. QED
    BY <1>1, <2>1, <2>2
<1>. QED
  BY <1>2, <1>4, <1>5, <1>6 DEF Orders

Unit == [modules : SUBSET Modules, wave : Nat, dependsOn : SUBSET SUBSET Modules]

Needed(k) == {j \in DOMAIN order : order[j].modules \in order[k].dependsOn}

\* The units emitted are the components that wait no longer, in waves that are as deep as their
\* chains of dependencies; what waits is counted.
Emitting ==
  /\ frames = <<>> /\ Unmet = {} /\ Pending \subseteq DOMAIN sccs
  /\ \A i \in Pending : outstanding[i] = Cardinality(Succ(i) \cap Pending)
  /\ \A i \in Gone : Succ(i) \subseteq Gone /\ \E k \in DOMAIN order : UnitIs(k, i)
  /\ \A k \in DOMAIN order : \E i \in Gone : UnitIs(k, i)
  /\ \A k, l \in DOMAIN order :
        k < l => order[k].modules # order[l].modules /\ order[k].wave <= order[l].wave
  /\ \A i \in Pending : Succ(i) \cap Pending = {} /\ order # <<>> =>
        \E j \in Succ(i), k \in DOMAIN order : UnitIs(k, j) /\ order[k].wave = Last(order).wave
  /\ \A k \in DOMAIN order : \A j \in Needed(k) : j < k /\ order[j].wave < order[k].wave
  /\ \A k \in DOMAIN order : order[k].wave # 0 =>
        \E j \in Needed(k) : order[k].wave = order[j].wave + 1

WaveInv ==
  /\ order \in Seq(Unit)
  /\ stage = "search" => order = <<>>
  /\ stage # "search" => Emitting
  /\ stage \notin {"search", "waves"} => Pending = {}

OrderSound == SearchSound /\ WaveInv

\* When the search is over every module is in one component.
LEMMA Partition ==
  ASSUME SearchSound, frames = <<>>, Unmet = {}
  PROVE  \A m \in Modules : \E i \in DOMAIN sccs : m \in sccs[i]
<1>1. DOMAIN frames = {}
  OBVIOUS
<1>2. OnStack = {}
  BY <1>1 DEF SearchSound, SearchInv, Chained
<1>3. Closed = Modules
  BY <1>2 DEF SearchSound, SearchInv, Sorted
<1>. QED
  BY <1>3, SearchDomains DEF SearchSound

\* Components, by position.
LEMMA SccFacts ==
  ASSUME SearchSound
  PROVE  /\ DOMAIN sccs = 1..Len(sccs) /\ Len(sccs) \in Nat /\ IsFiniteSet(DOMAIN sccs)
         /\ \A i \in DOMAIN sccs : sccs[i] \in UnitSets /\ sccs[i] \in SUBSET Modules
         /\ \A i, j \in DOMAIN sccs : sccs[i] = sccs[j] => i = j
         /\ \A i, j \in DOMAIN sccs : i # j => sccs[i] \cap sccs[j] = {}
         /\ \A i \in DOMAIN sccs : Succ(i) \subseteq DOMAIN sccs /\ \A j \in Succ(i) : j < i
         /\ \A i \in DOMAIN sccs : i \notin Succ(i)
<1>1. /\ DOMAIN sccs = 1..Len(sccs) /\ Len(sccs) \in Nat
      /\ \A i \in DOMAIN sccs : sccs[i] \subseteq Modules
  BY SearchDomains DEF SearchSound
<1>2. IsFiniteSet(DOMAIN sccs)
  BY <1>1, FS_Interval
<1>3. \A i \in DOMAIN sccs : sccs[i] # {}
  BY DEF SearchSound, SearchInv, Sorted
<1>4. \A i, j \in DOMAIN sccs : i # j => sccs[i] \cap sccs[j] = {}
  BY DEF SearchSound, SearchInv, Sorted
<1>5. \A i \in DOMAIN sccs : sccs[i] \in UnitSets
  BY <1>1, <1>3 DEF UnitSets
<1>6. \A i, j \in DOMAIN sccs : sccs[i] = sccs[j] => i = j
  BY <1>3, <1>4
<1>7. \A i \in DOMAIN sccs : Succ(i) \subseteq DOMAIN sccs /\ i \notin Succ(i)
  BY DEF Succ
<1>8. ASSUME NEW i \in DOMAIN sccs, NEW j \in Succ(i) PROVE j < i
  <2>0. PICK m \in sccs[i] : Adj(m) \cap sccs[j] # {}
    BY <1>8 DEF Succ
  <2>1. PICK n \in Adj(m) : n \in sccs[j]
    BY <2>0
  <2>2. PICK k \in 1..i : n \in sccs[k]
    BY <2>1 DEF SearchSound, SearchInv, ClosedDown
  <2>3. k \in DOMAIN sccs /\ j \in DOMAIN sccs /\ j # i
    BY <1>1, <1>7, <1>8
  <2>4. j = k
    BY <1>4, <2>1, <2>2, <2>3
  <2>. QED
    BY <1>1, <2>3, <2>4
<1>. QED
  BY <1>1, <1>2, <1>4, <1>5, <1>6, <1>7, <1>8

\* While components wait, one of them has nothing to wait for.
LEMMA FrontierLeft ==
  ASSUME SearchSound, Emitting, Pending # {}
  PROVE  Frontier # {}
<1>1. Pending \subseteq Nat
  BY SccFacts DEF Emitting
<1>. PICK i \in Pending : i = Min(Pending)
  BY <1>1, MinFacts
<1>2. \A j \in Pending : i <= j
  BY <1>1, MinFacts
<1>3. \A j \in Succ(i) : j < i
  BY SccFacts DEF Emitting
<1>4. Succ(i) \cap Pending = {}
  <2>. SUFFICES ASSUME NEW j \in Succ(i), j \in Pending PROVE FALSE
    OBVIOUS
  <2>1. j < i /\ i <= j /\ i \in Nat /\ j \in Nat
    BY <1>1, <1>2, <1>3
  <2>. QED
    BY <2>1
<1>5. outstanding[i] = 0
  BY <1>4, FS_EmptySet DEF Emitting
<1>. QED
  BY <1>5 DEF Frontier, Pending

\* What a step of the emission adds to the order.
LEMMA EmitFacts ==
  ASSUME SearchSound, WaveInv, stage = "waves", Frontier # {}, EmitWaveOf(Frontier), UNCHANGED <<input, search>>,
         NEW N, N = Len(order), NEW w, w = NextWave
  PROVE  /\ N \in Nat /\ w \in Nat /\ Len(order') > N
         /\ DOMAIN order = 1..N /\ DOMAIN order' = 1..Len(order') /\ Len(order') \in Nat
         /\ order' \in Seq(Unit)
         /\ \A k \in 1..N : order'[k] = order[k] /\ k \in DOMAIN order'
         /\ \A k \in DOMAIN order' : k > N => \E i \in Frontier : order'[k] = UnitOf(i, w)
         /\ \A i \in Frontier : \E k \in DOMAIN order' : k > N /\ order'[k] = UnitOf(i, w)
         /\ \A k, l \in DOMAIN order' : k > N /\ l > N /\ k # l => order'[k].modules # order'[l].modules
<1>. PICK ahead : ahead = [i \in Frontier |-> {j \in Frontier : Before(sccs[j], sccs[i])}]
  OBVIOUS
<1>. PICK e : e = InOrder(ahead)
  OBVIOUS
<1>. PICK n : n = Cardinality(Frontier)
  OBVIOUS
<1>1. Frontier \subseteq DOMAIN sccs /\ IsFiniteSet(Frontier)
  <2>1. Frontier \subseteq DOMAIN sccs
    BY DEF WaveInv, Emitting, Frontier, Pending
  <2>. QED
    BY <2>1, SccFacts, FS_Subset
<1>. PICK f : f = [i \in Frontier |-> sccs[i]]
  OBVIOUS
<1>2. f \in [Frontier -> UnitSets] /\ \A x, y \in Frontier : x # y => f[x] \cap f[y] = {}
  BY <1>1, SccFacts
<1>3. ahead = [x \in Frontier |-> {y \in Frontier : Before(f[y], f[x])}]
  OBVIOUS
<1>4. Orders(ahead, Frontier)
  BY <1>2, <1>3, UnitsOrdered
<1>5. /\ n \in Nat /\ DOMAIN e = 1..n
      /\ \A k \in 1..n : e[k] \in Frontier
      /\ \A j, k \in 1..n : e[j] = e[k] => j = k
      /\ \A x \in Frontier : \E k \in 1..n : e[k] = x
  <2>1. Enumerates(e, Frontier)
    BY <1>1, <1>4, InOrderFacts
  <2>. QED
    BY <2>1 DEF Enumerates
<1>6. order \in Seq(Unit) /\ N \in Nat /\ DOMAIN order = 1..N
  BY DEF WaveInv
<1>7. w \in Nat
  <2>1. order # <<>> => Last(order) \in Unit
    BY <1>6 DEF Last
  <2>. QED
    BY <2>1 DEF NextWave, Unit
<1>. PICK more : more = [k \in 1..n |-> UnitOf(e[k], w)]
  OBVIOUS
<1>8. order' = order \o more
  BY <1>5 DEF EmitWaveOf
<1>9. \A i \in Frontier : UnitOf(i, w) \in Unit
  <2>. TAKE i \in Frontier
  <2>1. sccs[i] \in SUBSET Modules /\ \A j \in Succ(i) : sccs[j] \in SUBSET Modules
    BY <1>1, SccFacts
  <2>2. {sccs[j] : j \in Succ(i)} \in SUBSET SUBSET Modules
    BY <2>1
  <2>. QED
    BY <1>7, <2>1, <2>2 DEF UnitOf, Unit
<1>10. \A k \in 1..n : more[k] \in Unit /\ more[k] = UnitOf(e[k], w)
  BY <1>5, <1>9
<1>11. more \in Seq(Unit) /\ Len(more) = n
  BY <1>5, <1>10, SeqDef, LenProperties, SMTT(20)
<1>12. n # 0
  BY <1>1, FS_EmptySet
<1>13. /\ Len(order') = N + n /\ DOMAIN order' = 1..N + n /\ order' \in Seq(Unit)
       /\ \A k \in 1..N : order'[k] = order[k] /\ k \in 1..N + n
       /\ \A k \in N + 1..N + n : order'[k] = more[k - N]
  BY <1>5, <1>6, <1>8, <1>11
<1>14. \A k \in DOMAIN order' : k > N => k - N \in 1..n /\ order'[k] = UnitOf(e[k - N], w)
  <2>. TAKE k \in DOMAIN order'
  <2>. HAVE k > N
  <2>1. k \in N + 1..N + n /\ k - N \in 1..n
    BY <1>5, <1>6, <1>13
  <2>. QED
    BY <1>10, <1>13, <2>1
<1>15. ASSUME NEW k \in DOMAIN order', k > N PROVE \E i \in Frontier : order'[k] = UnitOf(i, w)
  <2>1. k - N \in 1..n /\ order'[k] = UnitOf(e[k - N], w)
    BY <1>14, <1>15
  <2>2. e[k - N] \in Frontier
    BY <1>5, <2>1
  <2>. QED
    BY <2>1, <2>2
<1>16. ASSUME NEW i \in Frontier PROVE \E k \in DOMAIN order' : k > N /\ order'[k] = UnitOf(i, w)
  <2>1. PICK k \in 1..n : e[k] = i
    BY <1>5
  <2>2. N + k \in DOMAIN order' /\ N + k > N /\ (N + k) - N = k
    BY <1>5, <1>6, <1>13
  <2>3. order'[N + k] = UnitOf(e[(N + k) - N], w)
    BY <1>14, <2>2
  <2>4. order'[N + k] = UnitOf(i, w)
    BY <2>1, <2>2, <2>3
  <2>. QED
    BY <2>2, <2>4
<1>17. ASSUME NEW k \in DOMAIN order', NEW l \in DOMAIN order', k > N, l > N, k # l
       PROVE  order'[k].modules # order'[l].modules
  <2>1. k - N \in 1..n /\ l - N \in 1..n /\ k - N # l - N
    BY <1>5, <1>6, <1>13, <1>14, <1>17
  <2>2. e[k - N] # e[l - N] /\ e[k - N] \in DOMAIN sccs /\ e[l - N] \in DOMAIN sccs
    BY <1>1, <1>5, <2>1
  <2>3. sccs[e[k - N]] # sccs[e[l - N]]
    BY <2>2, SccFacts
  <2>4. order'[k].modules = sccs[e[k - N]] /\ order'[l].modules = sccs[e[l - N]]
    BY <1>14, <1>17 DEF UnitOf
  <2>. QED
    BY <2>3, <2>4
<1>. QED
  BY <1>5, <1>6, <1>7, <1>12, <1>13, <1>15, <1>16, <1>17

LEMMA SuccStays ==
  ASSUME UNCHANGED <<input, search>>
  PROVE  (\A i : Succ(i)' = Succ(i)) /\ sccs' = sccs /\ frames' = frames /\ Unmet' = Unmet
<1>1. UNCHANGED <<input, index, frames, sccs>>
  BY DEF search
<1>2. \A m : Adj(m)' = Adj(m)
  BY <1>1, InputStays
<1>. QED
  BY <1>1, <1>2 DEF Succ, Unmet

LEMMA EmittingStays ==
  ASSUME WaveInv, UNCHANGED <<input, search, outstanding, order>>,
         stage = "search" <=> stage' = "search",
         stage' \notin {"search", "waves"} => Pending = {}
  PROVE  WaveInv'
<1>1. /\ \A i : Succ(i)' = Succ(i)
      /\ sccs' = sccs /\ frames' = frames /\ Unmet' = Unmet /\ Pending' = Pending /\ Gone' = Gone
      /\ order' = order /\ outstanding' = outstanding
  BY SuccStays DEF Pending, Gone
<1>2. (\A k, i : UnitIs(k, i)' <=> UnitIs(k, i)) /\ (\A k : Needed(k)' = Needed(k))
  BY <1>1 DEF UnitIs, Needed
<1>3. Emitting => Emitting'
  BY <1>1, <1>2 DEF Emitting
<1>4. order' \in Seq(Unit)
  BY <1>1 DEF WaveInv
<1>5. Unit' = Unit
  BY DEF Unit
<1>. QED
  BY <1>1, <1>3, <1>4, <1>5 DEF WaveInv

LEMMA CondenseInv ==
  ASSUME OrderSound, Condense PROVE WaveInv'
<1>1. /\ stage = "search" /\ frames = <<>> /\ Unmet = {} /\ order = <<>> /\ order' = order
      /\ outstanding' = [i \in DOMAIN sccs |-> Cardinality(Succ(i))] /\ stage' = "waves"
      /\ UNCHANGED <<input, search>>
  BY DEF Condense, OrderSound, WaveInv
<1>2. (\A i : Succ(i)' = Succ(i)) /\ sccs' = sccs /\ frames' = frames /\ Unmet' = Unmet
  BY <1>1, SuccStays
<1>3. Pending' = DOMAIN sccs /\ Gone' = {} /\ DOMAIN order' = {}
  BY <1>1, <1>2 DEF Pending, Gone
<1>4. \A i \in Pending' : outstanding'[i] = Cardinality(Succ(i)' \cap Pending')
  <2>. TAKE i \in Pending'
  <2>1. Succ(i)' \cap Pending' = Succ(i)
    BY <1>2, <1>3, SccFacts DEF OrderSound
  <2>. QED
    BY <1>1, <1>3, <2>1
<1>5. Emitting'
  BY <1>1, <1>2, <1>3, <1>4 DEF Emitting
<1>6. order' \in Seq(Unit)'
  BY <1>1
<1>. QED
  BY <1>1, <1>5, <1>6 DEF WaveInv

LEMMA EmitWaveInv ==
  ASSUME OrderSound, EmitWave PROVE WaveInv'
<1>0. SearchSound /\ WaveInv /\ Emitting /\ stage = "waves" /\ Frontier # {} /\ EmitWaveOf(Frontier)
      /\ UNCHANGED <<input, search>> /\ stage' = "waves"
  BY DEF EmitWave, OrderSound, WaveInv
<1>. PICK N : N = Len(order)
  OBVIOUS
<1>. PICK w : w = NextWave
  OBVIOUS
<1>1. /\ N \in Nat /\ w \in Nat /\ Len(order') > N
      /\ DOMAIN order = 1..N /\ DOMAIN order' = 1..Len(order') /\ Len(order') \in Nat
      /\ order' \in Seq(Unit)
      /\ \A k \in 1..N : order'[k] = order[k] /\ k \in DOMAIN order'
      /\ \A k \in DOMAIN order' : k > N => \E i \in Frontier : order'[k] = UnitOf(i, w)
      /\ \A i \in Frontier : \E k \in DOMAIN order' : k > N /\ order'[k] = UnitOf(i, w)
      /\ \A k, l \in DOMAIN order' : k > N /\ l > N /\ k # l => order'[k].modules # order'[l].modules
  BY <1>0, EmitFacts
<1>2. (\A i : Succ(i)' = Succ(i)) /\ sccs' = sccs /\ frames' = frames /\ Unmet' = Unmet
  BY <1>0, SuccStays
<1>3. outstanding' = [i \in Pending \ Frontier |-> outstanding[i] - Cardinality(Succ(i) \cap Frontier)]
  BY <1>0 DEF EmitWaveOf, Pending
<1>4. /\ Pending' = Pending \ Frontier /\ Frontier \subseteq Pending /\ Pending \subseteq DOMAIN sccs
      /\ Gone' = Gone \cup Frontier /\ Gone \cap Frontier = {} /\ Gone \subseteq DOMAIN sccs
  <2>1. Frontier \subseteq Pending /\ Pending \subseteq DOMAIN sccs
    BY <1>0 DEF Frontier, Pending, Emitting
  <2>2. Pending' = Pending \ Frontier
    BY <1>3 DEF Pending
  <2>. QED
    BY <1>2, <2>1, <2>2 DEF Gone
<1>5. \A i \in Pending : IsFiniteSet(Succ(i) \cap Pending) /\ Cardinality(Succ(i) \cap Pending) \in Nat
  <2>. TAKE i \in Pending
  <2>1. Succ(i) \cap Pending \in SUBSET (DOMAIN sccs)
    BY <1>4
  <2>. QED
    BY <1>0, <2>1, SccFacts, FS_Subset, FS_CardinalityType
<1>6. \A i \in Pending : i \in Frontier <=> Succ(i) \cap Pending = {}
  <2>. TAKE i \in Pending
  <2>1. i \in Frontier <=> Cardinality(Succ(i) \cap Pending) = 0
    BY <1>0 DEF Frontier, Emitting, Pending
  <2>. QED
    BY <1>5, <2>1, FS_EmptySet
<1>7. \A i \in Frontier : Succ(i) \subseteq Gone
  <2>. TAKE i \in Frontier
  <2>1. Succ(i) \subseteq DOMAIN sccs
    BY <1>0, <1>4, SccFacts
  <2>2. Succ(i) \cap Pending = {}
    BY <1>4, <1>6
  <2>. QED
    BY <2>1, <2>2 DEF Gone
<1>8. /\ \A k \in 1..N : \A i : UnitIs(k, i)' <=> UnitIs(k, i)
      /\ \A k \in DOMAIN order' : k > N => \E i \in Frontier : UnitIs(k, i)' /\ order'[k].wave = w
      /\ \A i \in Frontier : \E k \in DOMAIN order' : k > N /\ UnitIs(k, i)' /\ order'[k].wave = w
  <2>1. \A k \in 1..N : \A i : UnitIs(k, i)' <=> UnitIs(k, i)
    BY <1>1, <1>2 DEF UnitIs
  <2>2. \A k \in DOMAIN order', i \in Frontier : order'[k] = UnitOf(i, w) => UnitIs(k, i)' /\ order'[k].wave = w
    BY <1>2 DEF UnitIs, UnitOf
  <2>. QED
    BY <1>1, <2>1, <2>2
<1>9. \A k \in DOMAIN order' : k \in 1..N \/ k > N
  BY <1>1
<1>10. \A i \in Pending' : outstanding'[i] = Cardinality(Succ(i)' \cap Pending')
  <2>. SUFFICES ASSUME NEW i \in Pending, i \notin Frontier
                PROVE  outstanding'[i] = Cardinality(Succ(i) \cap (Pending \ Frontier))
    BY <1>2, <1>4
  <2>. PICK S : S = Succ(i) \cap Pending
    OBVIOUS
  <2>1. IsFiniteSet(S) /\ Cardinality(S) \in Nat /\ outstanding[i] = Cardinality(S)
    BY <1>0, <1>5 DEF Emitting
  <2>2. Succ(i) \cap Frontier = S \cap Frontier /\ Succ(i) \cap (Pending \ Frontier) = S \ Frontier
    BY <1>4
  <2>3. IsFiniteSet(Frontier)
    <3>1. Frontier \in SUBSET (DOMAIN sccs)
      BY <1>4
    <3>. QED
      BY <1>0, <3>1, SccFacts, FS_Subset
  <2>4. Cardinality(S \ Frontier) = Cardinality(S) - Cardinality(S \cap Frontier)
    BY <2>1, <2>3, FS_Difference
  <2>. QED
    BY <1>3, <2>1, <2>2, <2>4
<1>11. \A i \in Gone' : Succ(i)' \subseteq Gone' /\ \E k \in DOMAIN order' : UnitIs(k, i)'
  <2>. TAKE i \in Gone'
  <2>1. CASE i \in Frontier
    BY <1>2, <1>4, <1>7, <1>8, <2>1
  <2>2. CASE i \in Gone
    <3>1. PICK k \in 1..N : UnitIs(k, i)
      BY <1>0, <1>1, <2>2 DEF Emitting
    <3>2. k \in DOMAIN order' /\ UnitIs(k, i)'
      BY <1>1, <1>8, <3>1
    <3>3. Succ(i) \subseteq Gone
      BY <1>0, <2>2 DEF Emitting
    <3>. QED
      BY <1>2, <1>4, <3>2, <3>3
  <2>. QED
    BY <1>4, <2>1, <2>2
<1>12. \A k \in DOMAIN order' : \E i \in Gone' : UnitIs(k, i)'
  <2>. TAKE k \in DOMAIN order'
  <2>1. CASE k > N
    BY <1>4, <1>8, <2>1
  <2>2. CASE k \in 1..N
    <3>1. PICK i \in Gone : UnitIs(k, i)
      BY <1>0, <1>1, <2>2 DEF Emitting
    <3>. QED
      BY <1>4, <1>8, <2>2, <3>1
  <2>. QED
    BY <1>9, <2>1, <2>2
\* The waves so far are below w, and w is right after the last of them.
<1>13. /\ \A k \in 1..N : order[k].wave < w /\ order[k].wave \in Nat
       /\ N = 0 => w = 0
       /\ N # 0 => w = Last(order).wave + 1 /\ Last(order).wave \in Nat
  <2>1. \A k \in 1..N : order[k] \in Unit /\ order[k].wave \in Nat
    <3>1. order \in Seq(Unit)
      BY <1>0 DEF WaveInv
    <3>2. \A k \in 1..N : order[k] \in Unit
      BY <1>1, <3>1
    <3>. QED
      BY <3>2 DEF Unit
  <2>2. N = 0 <=> order = <<>>
    BY <1>0 DEF WaveInv
  <2>3. N # 0 => Last(order) = order[N] /\ N \in 1..N
    BY <1>1 DEF Last
  <2>4. \A k \in 1..N : order[k].wave <= Last(order).wave
    <3>. TAKE k \in 1..N
    <3>1. k < N => order[k].wave <= order[N].wave
      BY <1>0, <1>1, SMTT(20) DEF Emitting
    <3>. QED
      BY <1>1, <2>1, <2>3, <3>1
  <2>5. (N = 0 => w = 0) /\ (N # 0 => w = Last(order).wave + 1 /\ Last(order).wave \in Nat)
    BY <2>1, <2>2, <2>3 DEF NextWave
  <2>6. \A k \in 1..N : order[k].wave < w
    <3>. TAKE k \in 1..N
    <3>1. N # 0
      BY <1>1
    <3>. QED
      BY <2>1, <2>4, <2>5, <3>1
  <2>. QED
    BY <2>1, <2>5, <2>6
<1>14. \A k, l \in DOMAIN order' :
          k < l => order'[k].modules # order'[l].modules /\ order'[k].wave <= order'[l].wave
  <2>. TAKE k, l \in DOMAIN order'
  <2>. HAVE k < l
  <2>1. CASE l \in 1..N
    <3>1. k \in 1..N
      BY <1>1, <2>1
    <3>. QED
      BY <1>0, <1>1, <2>1, <3>1, SMTT(20) DEF Emitting
  <2>2. CASE k \in 1..N /\ l > N
    <3>1. PICK i \in Gone : UnitIs(k, i)
      BY <1>0, <1>1, <2>2 DEF Emitting
    <3>2. PICK j \in Frontier : UnitIs(l, j)' /\ order'[l].wave = w
      BY <1>8, <2>2
    <3>3. i # j /\ i \in DOMAIN sccs /\ j \in DOMAIN sccs
      BY <1>4
    <3>4. sccs[i] # sccs[j]
      BY <1>0, <3>3, SccFacts
    <3>5. order'[k].modules = sccs[i] /\ order'[l].modules = sccs[j]
      BY <1>1, <1>2, <2>2, <3>1, <3>2 DEF UnitIs
    <3>6. order'[k].wave = order[k].wave /\ order[k].wave < w /\ order[k].wave \in Nat
      BY <1>1, <1>13, <2>2
    <3>. QED
      BY <1>1, <3>2, <3>4, <3>5, <3>6
  <2>3. CASE k > N /\ l > N
    <3>1. order'[k].wave = w /\ order'[l].wave = w
      BY <1>8, <2>3
    <3>2. k # l
      BY <1>1
    <3>. QED
      BY <1>1, <2>3, <3>1, <3>2
  <2>4. k > N => l > N
    BY <1>1
  <2>. QED
    BY <1>9, <2>1, <2>2, <2>3, <2>4
<1>15. ASSUME NEW i \in Pending', Succ(i)' \cap Pending' = {}
       PROVE  \E j \in Succ(i)', k \in DOMAIN order' : UnitIs(k, j)' /\ order'[k].wave = Last(order').wave
  <2>1. i \in Pending /\ i \notin Frontier /\ Succ(i) \cap (Pending \ Frontier) = {}
    BY <1>2, <1>4, <1>15
  <2>2. PICK j \in Succ(i) : j \in Frontier
    BY <1>6, <2>1
  <2>3. PICK k \in DOMAIN order' : UnitIs(k, j)' /\ order'[k].wave = w
    BY <1>8, <2>2
  <2>4. Last(order').wave = w
    <3>1. Len(order') \in DOMAIN order' /\ Len(order') > N /\ Last(order') = order'[Len(order')]
      BY <1>1 DEF Last
    <3>. QED
      BY <1>8, <3>1
  <2>. QED
    BY <1>2, <2>2, <2>3, <2>4
\* What a unit of the order names is before it.
<1>16. \A k \in 1..N : Needed(k)' = Needed(k)
  <2>. TAKE k \in 1..N
  <2>1. PICK i \in Gone : UnitIs(k, i)
    BY <1>0, <1>1 DEF Emitting
  <2>2. Succ(i) \subseteq Gone /\ order[k].dependsOn = {sccs[j] : j \in Succ(i)}
    BY <1>0, <2>1 DEF Emitting, UnitIs
  <2>3. ASSUME NEW l \in DOMAIN order', l > N PROVE order'[l].modules \notin order[k].dependsOn
    <3>1. PICK j \in Frontier : UnitIs(l, j)'
      BY <1>8, <2>3
    <3>2. order'[l].modules = sccs[j]
      BY <1>2, <3>1 DEF UnitIs
    <3>3. \A g \in Succ(i) : g # j /\ g \in DOMAIN sccs /\ j \in DOMAIN sccs
      BY <1>4, <2>2
    <3>4. \A g \in Succ(i) : sccs[g] # sccs[j]
      BY <1>0, <3>3, SccFacts
    <3>. QED
      BY <2>2, <3>2, <3>4
  <2>4. order'[k] = order[k]
    BY <1>1
  <2>5. Needed(k)' = {j \in DOMAIN order' : order'[j].modules \in order[k].dependsOn}
    BY <2>4 DEF Needed
  <2>6. \A j : j \in Needed(k)' <=> j \in DOMAIN order' /\ order'[j].modules \in order[k].dependsOn
    BY <2>5
  <2>7. \A j : j \in Needed(k)' <=> j \in 1..N /\ order[j].modules \in order[k].dependsOn
    BY <1>1, <1>9, <2>3, <2>6
  <2>. QED
    BY <1>1, <2>7 DEF Needed
<1>17. ASSUME NEW k \in DOMAIN order', k > N
       PROVE  /\ \A j \in Needed(k)' : j \in 1..N
              /\ w # 0 => \E j \in Needed(k)' : w = order'[j].wave + 1
  <2>1. PICK i \in Frontier : UnitIs(k, i)'
    BY <1>8, <1>17
  <2>2. order'[k].dependsOn = {sccs[j] : j \in Succ(i)} /\ Succ(i) \subseteq Gone
    BY <1>2, <1>7, <2>1 DEF UnitIs
  <2>3. Needed(k)' = {j \in DOMAIN order' : order'[j].modules \in {sccs[g] : g \in Succ(i)}}
    BY <2>2 DEF Needed
  <2>4. ASSUME NEW j \in Needed(k)' PROVE j \in 1..N
    <3>. SUFFICES ASSUME j > N PROVE FALSE
      BY <1>9, <2>3, <2>4
    <3>1. PICK f \in Frontier : UnitIs(j, f)'
      BY <1>8, <2>3, <2>4
    <3>2. PICK g \in Succ(i) : order'[j].modules = sccs[g]
      BY <2>3, <2>4
    <3>3. g \in DOMAIN sccs /\ f \in DOMAIN sccs /\ g # f
      BY <1>4, <2>2
    <3>4. sccs[f] = sccs[g]
      BY <1>2, <3>1, <3>2 DEF UnitIs
    <3>. QED
      BY <1>0, <3>3, <3>4, SccFacts
  <2>5. ASSUME w # 0 PROVE \E j \in Needed(k)' : w = order'[j].wave + 1
    <3>1. N # 0 /\ order # <<>>
      BY <1>0, <1>13, <2>5 DEF WaveInv
    <3>2. PICK g \in Succ(i), j \in DOMAIN order : UnitIs(j, g) /\ order[j].wave = Last(order).wave
      BY <1>0, <1>4, <1>6, <3>1 DEF Emitting
    <3>3. j \in Needed(k)'
      BY <1>1, <2>3, <3>2 DEF UnitIs
    <3>4. w = order'[j].wave + 1
      BY <1>1, <1>13, <3>1, <3>2
    <3>. QED
      BY <3>3, <3>4
  <2>. QED
    BY <2>4, <2>5
<1>18. \A k \in DOMAIN order' : \A j \in Needed(k)' : j < k /\ order'[j].wave < order'[k].wave
  <2>. TAKE k \in DOMAIN order'
  <2>. TAKE j \in Needed(k)'
  <2>1. CASE k \in 1..N
    <3>1. j \in Needed(k) /\ j \in 1..N
      BY <1>1, <1>16, <2>1 DEF Needed
    <3>2. j < k /\ order[j].wave < order[k].wave
      BY <1>0, <1>1, <2>1, <3>1 DEF Emitting
    <3>. QED
      BY <1>1, <2>1, <3>1, <3>2
  <2>2. CASE k > N
    <3>1. j \in 1..N /\ order'[k].wave = w
      BY <1>8, <1>17, <2>2
    <3>. QED
      BY <1>1, <1>13, <2>2, <3>1
  <2>. QED
    BY <1>9, <2>1, <2>2
<1>19. \A k \in DOMAIN order' : order'[k].wave # 0 => \E j \in Needed(k)' : order'[k].wave = order'[j].wave + 1
  <2>. TAKE k \in DOMAIN order'
  <2>. HAVE order'[k].wave # 0
  <2>1. CASE k \in 1..N
    <3>1. order'[k] = order[k]
      BY <1>1, <2>1
    <3>2. PICK j \in Needed(k) : order[k].wave = order[j].wave + 1
      BY <1>0, <1>1, <2>1, <3>1 DEF Emitting
    <3>3. j \in 1..N /\ j \in Needed(k)'
      BY <1>1, <1>16, <2>1 DEF Needed
    <3>. QED
      BY <1>1, <3>1, <3>2, <3>3
  <2>2. CASE k > N
    <3>1. order'[k].wave = w
      BY <1>8, <2>2
    <3>. QED
      BY <1>17, <2>2, <3>1
  <2>. QED
    BY <1>9, <2>1, <2>2
<1>20. Emitting'
  <2>1. frames' = <<>> /\ Unmet' = {} /\ Pending' \subseteq DOMAIN sccs'
    BY <1>0, <1>2, <1>4 DEF Emitting
  <2>. QED
    BY <2>1, <1>10, <1>11, <1>12, <1>14, <1>15, <1>18, <1>19 DEF Emitting
<1>21. order' \in Seq(Unit)'
  BY <1>1 DEF Unit
<1>. QED
  BY <1>0, <1>20, <1>21 DEF WaveInv

----------------------------------------------------------------------------
(* What a wave is.                                                         *)

LEMMA SearchingWaves ==
  ASSUME OrderSound, Start \/ Look \/ Close PROVE WaveInv'
<1>1. stage = "search" /\ stage' = "search" /\ order = <<>> /\ order' = <<>>
  BY DEF Start, Look, Close, OrderSound, WaveInv
<1>. QED
  BY <1>1 DEF WaveInv

LEMMA OrderedInv ==
  ASSUME OrderSound, Ordered PROVE WaveInv'
<1>1. stage = "waves" /\ stage' = "ordered" /\ Frontier = {} /\ UNCHANGED <<input, search, outstanding, order>>
  BY DEF Ordered
<1>2. Pending = {}
  BY <1>1, FrontierLeft DEF OrderSound, WaveInv
<1>. QED
  BY <1>1, <1>2, EmittingStays DEF OrderSound

LEMMA PlanStages ==
  ASSUME PlanStep PROVE stage \notin {"search", "waves"} /\ stage' \notin {"search", "waves"}
BY DEF PlanStep, BeginPlan, BeginPass, TakeGroup, AddMember, PackBin, EndPass, PassOver, EmitLevel, Throw,
       LevelsDone, EmitFeatures, FeaturesOrdered, SplitUnit, Annotate, EndPlan

LEMMA OrderInvInit ==
  ASSUME Init PROVE OrderSound
<1>1. SearchSound /\ stage = "search" /\ order = <<>>
  BY SearchInit DEF Init, OrderInit
<1>. QED
  BY <1>1 DEF OrderSound, WaveInv

LEMMA OrderInvNext ==
  ASSUME OrderSound, [Next]_vars PROVE OrderSound'
<1>0. SearchSound'
  BY SearchNext DEF OrderSound
<1>1. CASE Start \/ Look \/ Close BY <1>0, <1>1, SearchingWaves DEF OrderSound
<1>2. CASE Condense BY <1>0, <1>2, CondenseInv DEF OrderSound
<1>3. CASE EmitWave BY <1>0, <1>3, EmitWaveInv DEF OrderSound
<1>4. CASE Ordered BY <1>0, <1>4, OrderedInv DEF OrderSound
<1>5. CASE PlanStep
  <2>1. UNCHANGED <<input, search, outstanding, order>>
    BY <1>5, PlanStepKeeps
  <2>2. stage \notin {"search", "waves"} /\ stage' \notin {"search", "waves"}
    BY <1>5, PlanStages
  <2>3. WaveInv'
    BY <2>1, <2>2, EmittingStays DEF OrderSound, WaveInv
  <2>. QED
    BY <1>0, <2>3 DEF OrderSound
<1>6. CASE UNCHANGED vars
  <2>1. UNCHANGED <<input, search, outstanding, order>> /\ stage' = stage
    BY <1>6 DEF vars, orderVars
  <2>2. WaveInv'
    BY <2>1, EmittingStays DEF OrderSound, WaveInv
  <2>. QED
    BY <1>0, <2>2 DEF OrderSound
<1>. QED
  BY <1>1, <1>2, <1>3, <1>4, <1>5, <1>6 DEF Next, OrderNext

LEMMA WavesFromInv ==
  ASSUME OrderSound PROVE WavesAreDepths
<1>0. SearchSound /\ WaveInv /\ order \in Seq(Unit) /\ (stage # "search" => Emitting)
  BY DEF OrderSound, WaveInv
<1>1. ASSUME NEW k \in DOMAIN order, NEW below, below = Needed(k)
      PROVE  /\ {order[j].modules : j \in below} = order[k].dependsOn
             /\ order[k].wave = IF below = {} THEN 0 ELSE 1 + Max({order[j].wave : j \in below})
             /\ \A j \in below : j < k
  <2>0. Emitting
    BY <1>0, <1>1 DEF WaveInv
  <2>1. PICK i \in Gone : UnitIs(k, i)
    BY <2>0 DEF Emitting
  <2>2. \A g \in Succ(i) : \E j \in DOMAIN order : UnitIs(j, g)
    BY <2>0, <2>1 DEF Emitting
  <2>3. order[k].dependsOn = {sccs[g] : g \in Succ(i)}
    BY <2>1 DEF UnitIs
  <2>4. \A g \in Succ(i) : \E j \in below : order[j].modules = sccs[g]
    BY <1>1, <2>2, <2>3 DEF UnitIs, Needed
  <2>5. \A j \in below : order[j].modules \in order[k].dependsOn
    BY <1>1 DEF Needed
  <2>6. {order[j].modules : j \in below} = order[k].dependsOn
    BY <2>3, <2>4, <2>5
  <2>7. \A j \in below : j < k /\ order[j].wave < order[k].wave
    BY <1>1, <2>0 DEF Emitting
  <2>8. \A j \in DOMAIN order : order[j].wave \in Nat
    <3>1. \A j \in DOMAIN order : order[j] \in Unit
      BY <1>0
    <3>. QED
      BY <3>1 DEF Unit
  <2>9. below \subseteq DOMAIN order
    BY <1>1 DEF Needed
  <2>10. order[k].wave = IF below = {} THEN 0 ELSE 1 + Max({order[j].wave : j \in below})
    <3>1. CASE below = {}
      BY <1>1, <2>0, <3>1 DEF Emitting
    <3>2. CASE below # {}
      <4>. PICK S : S = {order[j].wave : j \in below}
        OBVIOUS
      <4>1. S \in SUBSET Nat
        BY <2>8, <2>9
      <4>2. order[k].wave # 0
        BY <2>7, <2>8, <2>9, <3>2
      <4>3. PICK j \in below : order[k].wave = order[j].wave + 1
        BY <1>1, <2>0, <4>2 DEF Emitting
      <4>4. order[j].wave \in S
        OBVIOUS
      <4>5. \A x \in S : x <= order[j].wave
        <5>. SUFFICES ASSUME NEW l \in below PROVE order[l].wave <= order[j].wave
          OBVIOUS
        <5>1. order[l].wave < order[k].wave /\ order[l].wave \in Nat /\ order[j].wave \in Nat
          BY <2>7, <2>8, <2>9
        <5>. QED
          BY <4>3, <5>1
      <4>6. Max(S) = order[j].wave
        BY <4>1, <4>4, <4>5, MaxIs
      <4>7. order[j].wave \in Nat
        BY <2>8, <2>9
      <4>. QED
        BY <3>2, <4>3, <4>6, <4>7
    <3>. QED
      BY <3>1, <3>2
  <2>. QED
    BY <2>6, <2>7, <2>10
<1>2. ASSUME stage \notin {"search", "waves"}, NEW m \in Modules
      PROVE  Cardinality({k \in DOMAIN order : m \in order[k].modules}) = 1
  <2>0. Emitting /\ Pending = {}
    BY <1>2 DEF OrderSound, WaveInv
  <2>1. PICK i \in DOMAIN sccs : m \in sccs[i]
    BY <1>0, <2>0, Partition DEF Emitting
  <2>2. PICK k \in DOMAIN order : UnitIs(k, i)
    BY <2>0, <2>1 DEF Emitting, Gone
  <2>3. ASSUME NEW l \in DOMAIN order, m \in order[l].modules PROVE l = k
    <3>1. PICK j \in DOMAIN sccs : order[l].modules = sccs[j]
      BY <2>0 DEF Emitting, Gone, UnitIs
    <3>2. j = i
      BY <1>0, <2>1, <2>3, <3>1, SccFacts
    <3>3. order[l].modules = order[k].modules
      BY <2>2, <3>1, <3>2 DEF UnitIs
    <3>4. ~(l < k) /\ ~(k < l)
      BY <2>0, <3>3 DEF Emitting
    <3>5. l \in Nat /\ k \in Nat
      BY <1>0
    <3>. QED
      BY <3>4, <3>5
  <2>4. m \in order[k].modules
    BY <2>1, <2>2 DEF UnitIs
  <2>5. {l \in DOMAIN order : m \in order[l].modules} = {k}
    BY <2>3, <2>4
  <2>. QED
    BY <2>5, FS_Singleton
<1>3. \A k \in DOMAIN order :
        LET below == {j \in DOMAIN order : order[j].modules \in order[k].dependsOn}
        IN  /\ {order[j].modules : j \in below} = order[k].dependsOn
            /\ order[k].wave = IF below = {} THEN 0 ELSE 1 + Max({order[j].wave : j \in below})
            /\ \A j \in below : j < k
  BY <1>1, Zenon DEF Needed
<1>. QED
  BY <1>2, <1>3, Zenon DEF WavesAreDepths

\* The wave of a unit is the length of its longest chain of dependencies, and at the end every
\* module is in one unit of the order (topo.ts:97-139).
THEOREM WavesAreTheDepths == Spec => []WavesAreDepths
<1>1. Init => OrderSound
  BY OrderInvInit
<1>2. OrderSound /\ [Next]_vars => OrderSound'
  BY OrderInvNext
<1>3. OrderSound => WavesAreDepths
  BY WavesFromInv
<1>. QED
  BY <1>1, <1>2, <1>3, PTL DEF Spec

----------------------------------------------------------------------------
(* Sizes: a sum over a finite set is that over a part of it and what is    *)
(* left.                                                                   *)

\* g adds up the values of f over the sets of D, taking the elements as CHOOSE does.
Adds(g, f, D) ==
  g = [s \in D |-> IF s = {} THEN 0 ELSE f[CHOOSE x \in s : TRUE] + g[s \ {CHOOSE x \in s : TRUE}]]

Sums(g, f, S) == Adds(g, f, SUBSET S)

LEMMA SumByIter ==
  ASSUME NEW f, NEW S, NEW h, Sums(h, f, S)
  PROVE  \E g : Sums(g, f, S) /\ SumFunctionOnSet(f, S) = g[S]
<1>. DEFINE iter[s \in SUBSET S] == IF s = {} THEN 0 ELSE f[CHOOSE x \in s : TRUE] + iter[s \ {CHOOSE x \in s : TRUE}]
<1>1. SumFunctionOnSet(f, S) = iter[S]
  BY DEF SumFunctionOnSet, FoldFunctionOnSet, MapThenFoldSet
<1>2. iter = CHOOSE g : Adds(g, f, SUBSET S)
  BY DEF Adds
<1>. HIDE DEF iter
<1>3. Adds(iter, f, SUBSET S)
  BY <1>2 DEF Sums
<1>. QED
  BY <1>1, <1>3 DEF Sums

\* The value at each set.
LEMMA AddsStep ==
  ASSUME NEW g, NEW f, NEW D, Adds(g, f, D)
  PROVE  \A s \in D : /\ s = {} => g[s] = 0
                      /\ s # {} => \E x \in s : x = (CHOOSE y \in s : TRUE) /\ g[s] = f[x] + g[s \ {x}]
<1>. TAKE s \in D
<1>1. g[s] = IF s = {} THEN 0 ELSE f[CHOOSE x \in s : TRUE] + g[s \ {CHOOSE x \in s : TRUE}]
  BY DEF Adds
<1>. PICK x : x = CHOOSE y \in s : TRUE
  OBVIOUS
<1>2. s # {} => x \in s
  OBVIOUS
<1>. QED
  BY <1>1, <1>2

\* A sum over the subsets with at most n elements.
Upto(S, n) == {s \in SUBSET S : IsFiniteSet(s) /\ Cardinality(s) <= n}

LEMMA AddsExists ==
  ASSUME NEW S, NEW f
  PROVE  \A n \in Nat : \E g : Adds(g, f, Upto(S, n))
<1>. DEFINE B == {n \in Nat : ~ \E g : Adds(g, f, Upto(S, n))}
<1>1. ASSUME B # {} PROVE FALSE
  <2>. PICK n \in B : \A m \in B : n <= m
    <3>1. B \in SUBSET Nat
      OBVIOUS
    <3>. HIDE DEF B
    <3>. QED
      BY <1>1, <3>1, MinFacts
  <2>0. \A s \in SUBSET S : IsFiniteSet(s) => Cardinality(s) \in Nat
    BY FS_CardinalityType
  <2>1. CASE n = 0
    <3>. DEFINE g == [s \in Upto(S, n) |-> 0]
    <3>1. \A s \in Upto(S, n) : s = {}
      <4>. TAKE s \in Upto(S, n)
      <4>0. s \in SUBSET S /\ IsFiniteSet(s) /\ Cardinality(s) <= n
        BY DEF Upto
      <4>1. IsFiniteSet(s) /\ Cardinality(s) = 0
        BY <2>0, <2>1, <4>0
      <4>. QED
        BY <4>1, FS_EmptySet
    <3>2. Adds(g, f, Upto(S, n))
      BY <3>1 DEF Adds
    <3>. QED
      BY <3>2
  <2>2. CASE n # 0
    <3>1. n - 1 \in Nat /\ n - 1 \notin B
      BY <2>2
    <3>. PICK h : Adds(h, f, Upto(S, n - 1))
      BY <3>1
    <3>. DEFINE g == [s \in Upto(S, n) |->
                        IF s = {} THEN 0 ELSE f[CHOOSE x \in s : TRUE] + h[s \ {CHOOSE x \in s : TRUE}]]
    <3>2. ASSUME NEW s \in Upto(S, n - 1)
          PROVE  s \in Upto(S, n) /\ g[s] = h[s]
      <4>0. s \in SUBSET S /\ IsFiniteSet(s) /\ Cardinality(s) <= n - 1 /\ Cardinality(s) \in Nat
        BY <2>0 DEF Upto
      <4>00. Cardinality(s) <= n
        BY <4>0
      <4>1. s \in Upto(S, n)
        BY <4>0, <4>00 DEF Upto
      <4>2. h[s] = IF s = {} THEN 0 ELSE f[CHOOSE x \in s : TRUE] + h[s \ {CHOOSE x \in s : TRUE}]
        BY DEF Adds
      <4>. QED
        BY <4>1, <4>2
    <3>3. ASSUME NEW s \in Upto(S, n), s # {}, NEW x \in s
          PROVE  s \ {x} \in Upto(S, n - 1)
      <4>0. s \in SUBSET S /\ IsFiniteSet(s) /\ Cardinality(s) <= n /\ Cardinality(s) \in Nat
        BY <2>0 DEF Upto
      <4>1. IsFiniteSet(s \ {x}) /\ Cardinality(s \ {x}) = Cardinality(s) - 1
        BY <3>3, <4>0, FS_RemoveElement
      <4>2. Cardinality(s \ {x}) <= n - 1 /\ s \ {x} \in SUBSET S
        BY <4>0, <4>1
      <4>. QED
        BY <4>1, <4>2 DEF Upto
    <3>4. \A s \in Upto(S, n) :
             s # {} => h[s \ {CHOOSE x \in s : TRUE}] = g[s \ {CHOOSE x \in s : TRUE}]
      <4>. TAKE s \in Upto(S, n)
      <4>. HAVE s # {}
      <4>. PICK x \in s : x = CHOOSE y \in s : TRUE
        OBVIOUS
      <4>1. s \ {x} \in Upto(S, n - 1)
        BY <3>3
      <4>2. g[s \ {x}] = h[s \ {x}]
        BY <3>2, <4>1
      <4>. QED
        BY <4>2
    <3>. PICK k : k = g
      OBVIOUS
    <3>5. k = [s \in Upto(S, n) |->
                 IF s = {} THEN 0 ELSE f[CHOOSE x \in s : TRUE] + h[s \ {CHOOSE x \in s : TRUE}]]
      OBVIOUS
    <3>6. \A s \in Upto(S, n) :
             s # {} => h[s \ {CHOOSE x \in s : TRUE}] = k[s \ {CHOOSE x \in s : TRUE}]
      BY <3>4
    <3>. HIDE DEF g
    <3>7. Adds(k, f, Upto(S, n))
      BY <3>5, <3>6, ZenonT(30) DEF Adds
    <3>. QED
      BY <3>7
  <2>. QED
    BY <2>1, <2>2
<1>. QED
  BY <1>1

LEMMA AddsUnique ==
  ASSUME NEW f, NEW S, NEW T, S \subseteq T, IsFiniteSet(T), NEW g, NEW h, Sums(g, f, S), Sums(h, f, T)
  PROVE  g[S] = h[S]
<1>. USE DEF Sums
<1>. DEFINE B == {n \in Nat : \E s \in SUBSET S : Cardinality(s) = n /\ g[s] # h[s]}
<1>0. \A s \in SUBSET S : s \in SUBSET T /\ IsFiniteSet(s) /\ Cardinality(s) \in Nat
  BY FS_Subset, FS_CardinalityType
<1>1. ASSUME B # {} PROVE FALSE
  <2>. PICK n \in B : \A m \in B : n <= m
    <3>1. B \in SUBSET Nat
      OBVIOUS
    <3>. HIDE DEF B
    <3>. QED
      BY <1>1, <3>1, MinFacts
  <2>. PICK s \in SUBSET S : Cardinality(s) = n /\ g[s] # h[s]
    OBVIOUS
  <2>1. s # {}
    BY <1>0, AddsStep
  <2>2. PICK x \in s : x = (CHOOSE y \in s : TRUE) /\ g[s] = f[x] + g[s \ {x}]
    BY <2>1, AddsStep
  <2>3. h[s] = f[x] + h[s \ {x}]
    <3>1. s \in SUBSET T
      BY <1>0
    <3>2. PICK y \in s : y = (CHOOSE z \in s : TRUE) /\ h[s] = f[y] + h[s \ {y}]
      BY <2>1, <3>1, AddsStep
    <3>. QED
      BY <2>2, <3>2
  <2>4. s \ {x} \in SUBSET S /\ Cardinality(s \ {x}) = n - 1 /\ n - 1 \in Nat
    <3>1. IsFiniteSet(s) /\ Cardinality(s) = n /\ n \in Nat
      BY <1>0
    <3>2. IsFiniteSet(s \ {x}) /\ Cardinality(s \ {x}) = n - 1
      BY <3>1, FS_RemoveElement
    <3>3. Cardinality(s \ {x}) \in Nat
      BY <3>2, FS_CardinalityType
    <3>. QED
      BY <3>2, <3>3
  <2>5. n - 1 \notin B
    BY <2>4
  <2>6. g[s \ {x}] = h[s \ {x}]
    BY <2>4, <2>5
  <2>. QED
    BY <2>2, <2>3, <2>6
<1>2. \A s \in SUBSET S : g[s] = h[s]
  BY <1>0, <1>1
<1>. QED
  BY <1>2

LEMMA AddsAll ==
  ASSUME NEW S, IsFiniteSet(S), NEW f
  PROVE  \E g : Sums(g, f, S)
<1>1. Upto(S, Cardinality(S)) = SUBSET S
  <2>1. \A s \in SUBSET S : IsFiniteSet(s) /\ Cardinality(s) <= Cardinality(S)
    BY FS_Subset
  <2>. QED
    BY <2>1 DEF Upto
<1>2. Cardinality(S) \in Nat
  BY FS_CardinalityType
<1>3. \E g : Adds(g, f, Upto(S, Cardinality(S)))
  BY <1>2, AddsExists
<1>. QED
  BY <1>1, <1>3 DEF Sums

\* A sum over a set is that of any of its elements and of the rest.
LEMMA SumFacts ==
  ASSUME NEW D, NEW f \in [D -> Nat], NEW S \in SUBSET D, IsFiniteSet(S)
  PROVE  /\ SumFunctionOnSet(f, {}) = 0 /\ SumFunctionOnSet(f, S) \in Nat
         /\ \A x \in S : SumFunctionOnSet(f, S) = f[x] + SumFunctionOnSet(f, S \ {x})
<1>. PICK g : Sums(g, f, S)
  BY AddsAll
<1>0. \A s \in SUBSET S : IsFiniteSet(s) /\ Cardinality(s) \in Nat
  BY FS_Subset, FS_CardinalityType
<1>1. ASSUME NEW s \in SUBSET S PROVE SumFunctionOnSet(f, s) = g[s]
  <2>1. \E h : Sums(h, f, s)
    BY <1>0, AddsAll
  <2>2. PICK h : Sums(h, f, s) /\ SumFunctionOnSet(f, s) = h[s]
    BY <2>1, SumByIter
  <2>3. s \subseteq S /\ Sums(h, f, s) /\ Sums(g, f, S) /\ IsFiniteSet(S)
    BY <2>2
  <2>4. h[s] = g[s]
    BY <2>3, AddsUnique
  <2>. QED
    BY <2>2, <2>4
<1>. DEFINE Bad(s) == ~ (g[s] \in Nat /\ \A x \in s : g[s] = f[x] + g[s \ {x}])
            B == {n \in Nat : \E s \in SUBSET S : Cardinality(s) = n /\ Bad(s)}
<1>2. ASSUME B # {} PROVE FALSE
  <2>. PICK n \in B : \A m \in B : n <= m
    <3>1. B \in SUBSET Nat
      OBVIOUS
    <3>. HIDE DEF B
    <3>. QED
      BY <1>2, <3>1, MinFacts
  <2>. PICK s \in SUBSET S : Cardinality(s) = n /\ Bad(s)
    OBVIOUS
  <2>1. \A t \in SUBSET S : Cardinality(t) < n => ~Bad(t)
    <3>. SUFFICES ASSUME NEW t \in SUBSET S, Cardinality(t) < n, Bad(t) PROVE FALSE
      OBVIOUS
    <3>1. Cardinality(t) \in B
      BY <1>0
    <3>. QED
      BY <1>0, <3>1
  <2>2. s # {}
    <3>1. s = {} => g[s] = 0
      BY AddsStep DEF Sums
    <3>. QED
      BY <3>1
  <2>3. PICK x \in s : g[s] = f[x] + g[s \ {x}]
    BY <2>2, AddsStep DEF Sums
  <2>4. \A y \in s : f[y] \in Nat
    OBVIOUS
  <2>5. \A y \in s : s \ {y} \in SUBSET S /\ Cardinality(s \ {y}) < n
    <3>. TAKE y \in s
    <3>1. IsFiniteSet(s) /\ Cardinality(s) = n /\ n \in Nat
      BY <1>0
    <3>2. Cardinality(s \ {y}) = Cardinality(s) - 1
      BY <3>1, FS_RemoveElement, Zenon
    <3>. QED
      BY <3>1, <3>2
  <2>6. g[s \ {x}] \in Nat
    BY <2>1, <2>5
  <2>7. ASSUME NEW y \in s PROVE g[s] = f[y] + g[s \ {y}]
    <3>1. CASE y = x
      BY <2>3, <3>1
    <3>2. CASE y # x
      <4>1. g[s \ {x}] = f[y] + g[(s \ {x}) \ {y}]
        BY <2>1, <2>5, <3>2
      <4>2. g[s \ {y}] = f[x] + g[(s \ {y}) \ {x}]
        BY <2>1, <2>5, <3>2
      <4>3. (s \ {x}) \ {y} = (s \ {y}) \ {x}
        OBVIOUS
      <4>4. g[(s \ {x}) \ {y}] \in Nat
        <5>1. s \ {x} \in SUBSET S /\ (s \ {x}) \ {y} \in SUBSET S
          OBVIOUS
        <5>2. IsFiniteSet(s \ {x}) /\ y \in s \ {x} /\ Cardinality(s \ {x}) < n /\ Cardinality(s \ {x}) \in Nat
          BY <1>0, <2>5, <3>2
        <5>3. Cardinality((s \ {x}) \ {y}) = Cardinality(s \ {x}) - 1
          BY <5>2, FS_RemoveElement, ZenonT(30)
        <5>4. Cardinality((s \ {x}) \ {y}) < n
          BY <5>2, <5>3
        <5>. QED
          BY <2>1, <5>1, <5>4
      <4>. PICK r \in Nat : r = g[(s \ {x}) \ {y}]
        BY <4>4
      <4>5. g[s \ {x}] = f[y] + r /\ g[s \ {y}] = f[x] + r
        BY <4>1, <4>2, <4>3
      <4>6. f[x] \in Nat /\ f[y] \in Nat
        BY <2>4
      <4>. QED
        BY <2>3, <4>5, <4>6
    <3>. QED
      BY <3>1, <3>2
  <2>. QED
    BY <2>3, <2>4, <2>6, <2>7
<1>3. ~Bad(S)
  BY <1>0, <1>2
<1>4. SumFunctionOnSet(f, {}) = 0
  <2>1. g[{}] = 0
    BY AddsStep DEF Sums
  <2>. QED
    BY <1>1, <2>1
<1>. QED
  BY <1>1, <1>3, <1>4

LEMMA SumRemove ==
  ASSUME NEW D, NEW f \in [D -> Nat], NEW S \in SUBSET D, IsFiniteSet(S), NEW x \in S, NEW R, R = S \ {x}
  PROVE  SumFunctionOnSet(f, S) = f[x] + SumFunctionOnSet(f, R)
BY SumFacts

\* A sum over a set, and over one that has no element of it.
LEMMA SumUnion ==
  ASSUME NEW D, NEW f \in [D -> Nat], NEW S \in SUBSET D, NEW T \in SUBSET D, IsFiniteSet(S), IsFiniteSet(T),
         S \cap T = {}
  PROVE  SumFunctionOnSet(f, S \cup T) = SumFunctionOnSet(f, S) + SumFunctionOnSet(f, T)
<1>. DEFINE Bad(s) == SumFunctionOnSet(f, s \cup T) # SumFunctionOnSet(f, s) + SumFunctionOnSet(f, T)
            B == {n \in Nat : \E s \in SUBSET S : Cardinality(s) = n /\ Bad(s)}
<1>0. \A s \in SUBSET S : IsFiniteSet(s) /\ Cardinality(s) \in Nat /\ IsFiniteSet(s \cup T) /\ s \cup T \in SUBSET D
  BY FS_Subset, FS_CardinalityType, FS_Union
<1>2. ASSUME B # {} PROVE FALSE
  <2>. PICK n \in B : \A m \in B : n <= m
    <3>1. B \in SUBSET Nat
      OBVIOUS
    <3>. HIDE DEF B
    <3>. QED
      BY <1>2, <3>1, MinFacts
  <2>. PICK s \in SUBSET S : Cardinality(s) = n /\ Bad(s)
    OBVIOUS
  <2>1. \A t \in SUBSET S : Cardinality(t) < n => ~Bad(t)
    <3>. SUFFICES ASSUME NEW t \in SUBSET S, Cardinality(t) < n, Bad(t) PROVE FALSE
      OBVIOUS
    <3>1. Cardinality(t) \in B
      BY <1>0
    <3>. QED
      BY <1>0, <3>1
  <2>2. s # {}
    <3>. SUFFICES ASSUME s = {} PROVE FALSE
      OBVIOUS
    <3>1. SumFunctionOnSet(f, {}) = 0 /\ SumFunctionOnSet(f, T) \in Nat /\ s \cup T = T
      BY SumFacts
    <3>. QED
      BY <3>1
  <2>. PICK x \in s : TRUE
    BY <2>2
  <2>3. s \ {x} \in SUBSET S /\ Cardinality(s \ {x}) < n
    <3>1. IsFiniteSet(s) /\ Cardinality(s) = n /\ n \in Nat
      BY <1>0
    <3>2. x \in s /\ IsFiniteSet(s)
      BY <3>1
    <3>3. Cardinality(s \ {x}) = Cardinality(s) - 1
      BY <3>2, FS_RemoveElement
    <3>. QED
      BY <3>1, <3>3
  <2>4. SumFunctionOnSet(f, (s \ {x}) \cup T) = SumFunctionOnSet(f, s \ {x}) + SumFunctionOnSet(f, T)
    BY <2>1, <2>3
  <2>5. (s \cup T) \ {x} = (s \ {x}) \cup T /\ x \in s \cup T /\ x \in D
    OBVIOUS
  <2>6. SumFunctionOnSet(f, s \cup T) = f[x] + SumFunctionOnSet(f, (s \ {x}) \cup T)
    <3>. PICK U \in SUBSET D : U = s \cup T
      BY <1>0
    <3>0. IsFiniteSet(U)
      BY <1>0
    <3>1. x \in U /\ (s \ {x}) \cup T = U \ {x}
      BY <2>5
    <3>. PICK R : R = (s \ {x}) \cup T
      OBVIOUS
    <3>2. SumFunctionOnSet(f, U) = f[x] + SumFunctionOnSet(f, R)
      BY <3>0, <3>1, SumRemove
    <3>. QED
      BY <3>2
  <2>7. SumFunctionOnSet(f, s) = f[x] + SumFunctionOnSet(f, s \ {x})
    <3>1. s \in SUBSET D /\ IsFiniteSet(s)
      BY <1>0
    <3>. PICK R : R = s \ {x}
      OBVIOUS
    <3>2. SumFunctionOnSet(f, s) = f[x] + SumFunctionOnSet(f, R)
      BY <3>1, SumRemove
    <3>. QED
      BY <3>2
  <2>8. SumFunctionOnSet(f, s \ {x}) \in Nat /\ SumFunctionOnSet(f, T) \in Nat /\ f[x] \in Nat
    <3>1. s \ {x} \in SUBSET D
      OBVIOUS
    <3>2. IsFiniteSet(s \ {x})
      BY <1>0, <2>3
    <3>. QED
      BY <2>5, <3>1, <3>2, SumFacts
  <2>. QED
    BY <2>4, <2>6, <2>7, <2>8
<1>. QED
  BY <1>0, <1>2

----------------------------------------------------------------------------
(* The invariant of the merging.  The units share out the modules; a pack  *)
(* of units to be merged is of one group, none reaching another except over*)
(* its owner, and small enough.                                            *)

\* The units share out the modules.
Shared ==
  /\ units \subseteq UnitSets
  /\ \A u, v \in units : u # v => u \cap v = {}
  /\ \A m \in Modules : \E u \in units : m \in u

\* A unit is made of components, all of one track, and is not too big if it is merged.
Assembled(u) ==
  /\ u = UNION Within(u)
  /\ \A c, d \in Within(u) : DevOnlyUnit(c) = DevOnlyUnit(d)
  /\ u \notin Components => Size(u) <= MaxUnit

Alike(G) == G \subseteq Small /\ \A u, v \in G : KeyOf(u) = KeyOf(v)
Apart(bin) == \A u, v \in bin : u # v => ~HasPath(u, v)
Group == members \cup UNION Range(bins)

\* What a pass has packed: a bin, or a bin with the one unit that depends on all of it.
Packed(p) ==
  /\ p \subseteq units /\ SizeOf(p) <= MaxUnit /\ \A u, v \in p : DevOnlyUnit(u) = DevOnlyUnit(v)
  /\ \E bin \in SUBSET p :
        /\ bin # {} /\ Alike(bin) /\ Apart(bin)
        /\ \/ p = bin
           \/ \E o \in p \ bin : p = bin \cup {o} /\ Candidate(bin) = {o} /\ bin \subseteq Deps(o)

Packing ==
  /\ \A g \in groups : Alike(g)
  /\ Alike(Group) /\ (members # {} => Group \cap consumed = {})
  /\ \A k \in DOMAIN bins :
        /\ bins[k] # {} /\ bins[k] \cap members = {} /\ SizeOf(bins[k]) <= MaxUnit /\ Apart(bins[k])
        /\ bins[k] \cap consumed # {} => \E o \in bins[k] : bins[k] = {o} /\ Roots = {o}
  /\ \A k, l \in DOMAIN bins : k # l => bins[k] \cap bins[l] = {}
  /\ \A p \in packs : Packed(p)
  /\ \A p, q \in packs : p # q => p \cap q = {}
  /\ consumed = UNION packs

PlanSound ==
  /\ bins \in Seq(SUBSET units) /\ members \subseteq units
  /\ stage # "packing" => members = {} /\ bins = <<>>
  /\ Begun => size \in [Modules -> Nat] /\ Shared /\ \A u \in units : Assembled(u)
  /\ ~Begun => units = {}
  /\ stage = "packing" => Packing

\* Units are finite sets of modules.
LEMMA UnitFacts ==
  ASSUME Shared
  PROVE  /\ IsFiniteSet(SUBSET Modules) /\ IsFiniteSet(units) /\ units \in SUBSET SUBSET Modules
         /\ \A u \in units : u \in SUBSET Modules /\ u # {} /\ IsFiniteSet(u)
         /\ \A P \in SUBSET units : IsFiniteSet(P) /\ IsFiniteSet(UNION P) /\ UNION P \in SUBSET Modules
<1>1. IsFiniteSet(Modules) /\ IsFiniteSet(SUBSET Modules)
  BY OrderAssumption, FS_SUBSET
<1>2. \A u \in units : u \in SUBSET Modules /\ u # {}
  BY DEF Shared, UnitSets
<1>3. units \in SUBSET SUBSET Modules
  BY <1>2
<1>4. IsFiniteSet(units)
  BY <1>1, <1>3, FS_Subset
<1>5. \A u \in units : IsFiniteSet(u)
  BY <1>1, <1>2, FS_Subset
<1>6. \A P \in SUBSET units : IsFiniteSet(P) /\ UNION P \in SUBSET Modules
  BY <1>2, <1>4, FS_Subset
<1>7. \A P \in SUBSET units : IsFiniteSet(UNION P)
  BY <1>1, <1>6, FS_Subset
<1>. QED
  BY <1>1, <1>2, <1>3, <1>4, <1>5, <1>6, <1>7

LEMMA SizeFacts ==
  ASSUME Shared, size \in [Modules -> Nat]
  PROVE  /\ \A u \in SUBSET Modules : Size(u) \in Nat
         /\ SizeOf({}) = 0
         /\ \A P \in SUBSET units : SizeOf(P) \in Nat
         /\ \A u \in units : SizeOf({u}) = Size(u)
         /\ \A P \in SUBSET units, u \in units : u \notin P => SizeOf(P \cup {u}) = SizeOf(P) + Size(u)
<1>1. \A u \in SUBSET Modules : Size(u) \in Nat
  <2>. TAKE u \in SUBSET Modules
  <2>1. IsFiniteSet(u)
    BY OrderAssumption, FS_Subset
  <2>. QED
    BY <2>1, SumFacts DEF Size
<1>. PICK f : f = [u \in units |-> Size(u)]
  OBVIOUS
<1>2. f \in [units -> Nat] /\ \A u \in units : f[u] = Size(u)
  BY <1>1, UnitFacts
<1>3. \A P : SizeOf(P) = SumFunctionOnSet(f, P)
  BY DEF SizeOf
<1>4. \A P \in SUBSET units : IsFiniteSet(P)
  BY UnitFacts
<1>5. \A P \in SUBSET units : SizeOf(P) \in Nat
  BY <1>2, <1>3, <1>4, SumFacts
<1>6. SizeOf({}) = 0
  BY <1>2, <1>3, <1>4, SumFacts
<1>7. ASSUME NEW P \in SUBSET units, NEW u \in units, u \notin P
      PROVE  SizeOf(P \cup {u}) = SizeOf(P) + Size(u)
  <2>. PICK Q \in SUBSET units : Q = P \cup {u}
    OBVIOUS
  <2>1. IsFiniteSet(Q) /\ P = Q \ {u} /\ u \in Q
    BY <1>4, <1>7
  <2>2. SumFunctionOnSet(f, Q) = f[u] + SumFunctionOnSet(f, P)
    BY <1>2, <2>1, SumRemove
  <2>3. SizeOf(P) \in Nat /\ Size(u) \in Nat
    BY <1>1, <1>5, UnitFacts
  <2>. QED
    BY <1>2, <1>3, <2>2, <2>3
<1>8. ASSUME NEW u \in units PROVE SizeOf({u}) = Size(u)
  <2>1. SizeOf({} \cup {u}) = SizeOf({}) + Size(u)
    BY <1>7
  <2>2. {} \cup {u} = {u} /\ Size(u) \in Nat
    BY <1>1, UnitFacts
  <2>. QED
    BY <1>6, <2>1, <2>2
<1>. QED
  BY <1>1, <1>5, <1>6, <1>7, <1>8

\* The size of a merged unit is the sum of those it is made of.
LEMMA SizeUnion ==
  ASSUME Shared, size \in [Modules -> Nat], NEW P \in SUBSET units
  PROVE  Size(UNION P) = SizeOf(P)
<1>. DEFINE Bad(s) == Size(UNION s) # SizeOf(s)
            B == {n \in Nat : \E s \in SUBSET P : Cardinality(s) = n /\ Bad(s)}
<1>0. \A s \in SUBSET P : IsFiniteSet(s) /\ Cardinality(s) \in Nat /\ s \in SUBSET units
  BY UnitFacts, FS_CardinalityType
<1>1. ASSUME B # {} PROVE FALSE
  <2>. PICK n \in B : \A m \in B : n <= m
    <3>1. B \in SUBSET Nat
      OBVIOUS
    <3>. HIDE DEF B
    <3>. QED
      BY <1>1, <3>1, MinFacts
  <2>. PICK s \in SUBSET P : Cardinality(s) = n /\ Bad(s)
    OBVIOUS
  <2>1. \A t \in SUBSET P : Cardinality(t) < n => ~Bad(t)
    <3>. SUFFICES ASSUME NEW t \in SUBSET P, Cardinality(t) < n, Bad(t) PROVE FALSE
      OBVIOUS
    <3>1. Cardinality(t) \in B
      BY <1>0
    <3>2. n <= Cardinality(t) /\ n \in Nat /\ Cardinality(t) \in Nat
      BY <1>0, <3>1
    <3>. QED
      BY <3>2
  <2>2. s # {}
    <3>. SUFFICES ASSUME s = {} PROVE FALSE
      OBVIOUS
    <3>1. UNION s = {} /\ SizeOf(s) = 0
      BY SizeFacts
    <3>2. Size({}) = 0
      <4>1. {} \in SUBSET Modules /\ IsFiniteSet({})
        BY FS_EmptySet
      <4>. QED
        BY <4>1, SumFacts DEF Size
    <3>. QED
      BY <3>1, <3>2
  <2>. PICK u \in s : TRUE
    BY <2>2
  <2>. PICK t \in SUBSET P : t = s \ {u}
    OBVIOUS
  <2>3. Cardinality(t) < n
    <3>1. u \in s /\ IsFiniteSet(s) /\ Cardinality(s) = n /\ n \in Nat
      BY <1>0
    <3>2. Cardinality(t) = Cardinality(s) - 1
      BY <3>1, FS_RemoveElement
    <3>. QED
      BY <3>1, <3>2
  <2>4. Size(UNION t) = SizeOf(t)
    BY <2>1, <2>3
  <2>5. SizeOf(s) = SizeOf(t) + Size(u)
    <3>1. t \in SUBSET units /\ u \in units /\ u \notin t /\ s = t \cup {u}
      OBVIOUS
    <3>. QED
      BY <3>1, SizeFacts
  <2>6. Size(UNION s) = Size(UNION t) + Size(u)
    <3>. PICK U \in SUBSET Modules : U = UNION t
      BY UnitFacts
    <3>1. UNION s = U \cup u /\ U \cap u = {} /\ u \in SUBSET Modules
      <4>1. u \in units /\ \A v \in t : v \in units /\ v # u
        OBVIOUS
      <4>2. \A v \in t : v \cap u = {}
        BY <4>1 DEF Shared
      <4>3. UNION s = U \cup u
        OBVIOUS
      <4>. QED
        BY <4>1, <4>2, <4>3, UnitFacts
    <3>2. IsFiniteSet(U) /\ IsFiniteSet(u)
      BY <3>1, OrderAssumption, FS_Subset
    <3>3. SumFunctionOnSet(size, U \cup u) = SumFunctionOnSet(size, U) + SumFunctionOnSet(size, u)
      BY <3>1, <3>2, SumUnion
    <3>. QED
      BY <3>1, <3>3 DEF Size
  <2>. QED
    BY <2>4, <2>5, <2>6
<1>. QED
  BY <1>0, <1>1

LEMMA UnitsStay ==
  ASSUME UNCHANGED <<declared, devOnly, units, size, sccs>>
  PROVE  /\ \A u : Deps(u)' = Deps(u) /\ Dependents(u)' = Dependents(u) /\ Reachable(u)' = Reachable(u)
         /\ \A u, v : HasPath(u, v)' <=> HasPath(u, v)
         /\ Roots' = Roots /\ Small' = Small /\ Components' = Components
         /\ \A u : Size(u)' = Size(u) /\ SizeOf(u)' = SizeOf(u) /\ DevOnlyUnit(u)' = DevOnlyUnit(u)
         /\ \A u : KeyOf(u)' = KeyOf(u) /\ Candidate(u)' = Candidate(u)
         /\ \A p : (Alike(p)' <=> Alike(p)) /\ (Apart(p)' <=> Apart(p)) /\ (Packed(p)' <=> Packed(p))
         /\ (Shared' <=> Shared) /\ \A u : Assembled(u)' <=> Assembled(u)
<1>1. \A u : Deps(u)' = Deps(u)
  BY DEF Deps
<1>2. (\A u : Dependents(u)' = Dependents(u)) /\ Components' = Components
  BY <1>1 DEF Dependents, Components
<1>3. \A u : Reachable(u)' = Reachable(u)
  BY <1>1 DEF Reachable
<1>4. Roots' = Roots
  BY <1>2 DEF Roots
<1>5. \A u : Size(u)' = Size(u) /\ DevOnlyUnit(u)' = DevOnlyUnit(u)
  BY DEF Size, DevOnlyUnit
<1>6. \A u : SizeOf(u)' = SizeOf(u)
  BY <1>5 DEF SizeOf
<1>7. Small' = Small
  BY <1>5 DEF Small
<1>8. \A u, v : HasPath(u, v)' <=> HasPath(u, v)
  BY <1>3 DEF HasPath
<1>9. \A u : EffectiveDependents(u)' = EffectiveDependents(u)
  BY <1>2, <1>4 DEF EffectiveDependents
<1>10. \A u : KeyOf(u)' = KeyOf(u)
  BY <1>5, <1>9 DEF KeyOf
<1>11. \A u : Candidate(u)' = Candidate(u)
  BY <1>4, <1>9 DEF Candidate
<1>12. \A p : (Alike(p)' <=> Alike(p)) /\ (Apart(p)' <=> Apart(p))
  BY <1>7, <1>8, <1>10 DEF Alike, Apart
<1>13. \A p : Packed(p)' <=> Packed(p)
  BY <1>1, <1>5, <1>6, <1>11, <1>12 DEF Packed
<1>14. Shared' <=> Shared
  BY DEF Shared, UnitSets
<1>15. \A u : Assembled(u)' <=> Assembled(u)
  BY <1>2, <1>5 DEF Assembled, Within
<1>. QED
  BY <1>1, <1>2, <1>3, <1>4, <1>5, <1>6, <1>7, <1>8, <1>10, <1>11, <1>12, <1>13, <1>14, <1>15

\* A step that leaves the pass alone.
LEMMA PassStays ==
  ASSUME PlanSound, UNCHANGED <<input, search, units, pass>>, Begun => size' = size,
         stage # "packing", stage' # "packing", Begun' <=> Begun
  PROVE  PlanSound'
<1>1. UNCHANGED <<declared, devOnly, units, sccs, members, bins>>
  BY DEF input, search, pass
<1>2. CASE Begun
  <2>1. UNCHANGED <<declared, devOnly, units, size, sccs>>
    BY <1>1, <1>2
  <2>2. (Shared' <=> Shared) /\ \A u : Assembled(u)' <=> Assembled(u)
    BY <2>1, UnitsStay
  <2>. QED
    BY <1>1, <1>2, <2>1, <2>2 DEF PlanSound
<1>3. CASE ~Begun
  BY <1>1, <1>3 DEF PlanSound
<1>. QED
  BY <1>2, <1>3

\* The first units are the components.
LEMMA BeginPlanInv ==
  ASSUME OrderSound, PlanSound, BeginPlan PROVE PlanSound'
<1>1. /\ stage = "ordered" /\ size' \in Sizes /\ units' = {order[k].modules : k \in DOMAIN order}
      /\ stage' = "pass" /\ UNCHANGED <<input, search, order, outstanding, members, bins>>
  BY DEF BeginPlan, orderUnchanged, pass
<1>2. SearchSound /\ Emitting /\ Pending = {} /\ Gone = DOMAIN sccs
  BY <1>1 DEF OrderSound, WaveInv, Gone
<1>3. units' = Components
  <2>1. \A k \in DOMAIN order : \E i \in DOMAIN sccs : order[k].modules = sccs[i]
    BY <1>2 DEF Emitting, UnitIs
  <2>2. \A i \in DOMAIN sccs : \E k \in DOMAIN order : order[k].modules = sccs[i]
    BY <1>2 DEF Emitting, UnitIs
  <2>3. \A u : u \in Components <=> \E i \in DOMAIN sccs : sccs[i] = u
    BY DEF Components, Range
  <2>. QED
    BY <1>1, <2>1, <2>2, <2>3
<1>4. /\ Components \subseteq UnitSets
      /\ \A u, v \in Components : u # v => u \cap v = {}
      /\ \A m \in Modules : \E u \in Components : m \in u
  <2>1. \A m \in Modules : \E i \in DOMAIN sccs : m \in sccs[i]
    BY <1>2, Partition DEF Emitting
  <2>. QED
    BY <1>2, <2>1, SccFacts DEF Components, Range
<1>5. Shared'
  BY <1>3, <1>4 DEF Shared, UnitSets
<1>6. Components' = Components
  BY <1>1 DEF Components, search
<1>7. ASSUME NEW u \in Components PROVE Assembled(u)'
  <2>1. \A c \in Components : c \subseteq u => c = u
    BY <1>4 DEF UnitSets
  <2>2. Within(u)' = {u}
    BY <1>6, <2>1 DEF Within
  <2>. QED
    BY <1>6, <2>2 DEF Assembled
<1>8. size' \in [Modules -> Nat]
  BY <1>1, PlanAssumption
<1>9. members' = {} /\ bins' = <<>> /\ bins' \in Seq(SUBSET units')
  BY <1>1 DEF PlanSound
<1>. QED
  BY <1>1, <1>3, <1>5, <1>7, <1>8, <1>9 DEF PlanSound, Begun

LEMMA BeginPassInv ==
  ASSUME PlanSound, BeginPass PROVE PlanSound'
<1>1. /\ stage = "pass" /\ stage' = "packing" /\ Begun /\ packs' = {} /\ consumed' = {}
      /\ groups' = {{v \in Small : KeyOf(v) = KeyOf(u)} : u \in Small}
      /\ UNCHANGED <<declared, devOnly, units, size, sccs, members, bins>>
  BY DEF BeginPass, Begun, inputUnchanged, orderUnchanged, planInput, input, search
<1>2. /\ members = {} /\ bins = <<>> /\ Shared /\ \A u \in units : Assembled(u)
      /\ size \in [Modules -> Nat]
  BY <1>1 DEF PlanSound
<1>3. /\ Shared' /\ \A u \in units : Assembled(u)'
      /\ \A p : Alike(p)' <=> Alike(p)
  BY <1>1, <1>2, UnitsStay
<1>4. \A g \in groups' : Alike(g)'
  <2>1. \A u \in Small : Alike({v \in Small : KeyOf(v) = KeyOf(u)})
    BY DEF Alike
  <2>. QED
    BY <1>1, <1>3, <2>1
<1>5. Group' = {} /\ DOMAIN bins' = {}
  <2>1. DOMAIN bins' = {} /\ members' = {}
    BY <1>1, <1>2
  <2>2. Range(bins') = {}
    BY <2>1 DEF Range
  <2>. QED
    BY <2>1, <2>2 DEF Group
<1>6. Alike(Group)' /\ members' = {}
  BY <1>1, <1>2, <1>5 DEF Alike
<1>7. Packing'
  BY <1>1, <1>4, <1>5, <1>6 DEF Packing
<1>8. bins' \in Seq(SUBSET units') /\ members' \subseteq units' /\ Begun'
  BY <1>1, <1>2 DEF Begun
<1>. QED
  BY <1>1, <1>2, <1>3, <1>7, <1>8 DEF PlanSound

\* A step of a pass: what is known of the packs and of the units stays.
LEMMA PackingStays ==
  ASSUME PlanSound, stage = "packing", stage' = "packing", inputUnchanged, UNCHANGED units
  PROVE  /\ UNCHANGED <<declared, devOnly, units, size, sccs>> /\ Begun /\ Begun' /\ Packing
         /\ Shared /\ Shared' /\ (\A u \in units : Assembled(u)') /\ size \in [Modules -> Nat]
         /\ bins \in Seq(SUBSET units) /\ members \subseteq units
         /\ (Packing' /\ bins' \in Seq(SUBSET units) /\ members' \subseteq units => PlanSound')
<1>1. UNCHANGED <<declared, devOnly, units, size, sccs>> /\ Begun /\ Begun' /\ Packing
  BY DEF inputUnchanged, orderUnchanged, planInput, input, search, Begun, PlanSound
<1>2. /\ Shared /\ \A u \in units : Assembled(u)
      /\ size \in [Modules -> Nat] /\ bins \in Seq(SUBSET units) /\ members \subseteq units
  BY <1>1 DEF PlanSound
<1>3. Shared' /\ \A u \in units : Assembled(u)'
  BY <1>1, <1>2, UnitsStay
<1>4. ASSUME Packing', bins' \in Seq(SUBSET units), members' \subseteq units
      PROVE  PlanSound'
  BY <1>1, <1>2, <1>3, <1>4 DEF PlanSound
<1>. QED
  BY <1>1, <1>2, <1>3, <1>4

LEMMA TakeGroupInv ==
  ASSUME PlanSound, TakeGroup PROVE PlanSound'
<1>1. /\ stage = "packing" /\ stage' = "packing" /\ inputUnchanged /\ UNCHANGED <<units, bins, packs, consumed>>
      /\ members = {} /\ bins = <<>>
  BY DEF TakeGroup
<1>. PICK g \in groups : groups' = groups \ {g} /\ members' = g \ consumed
  BY DEF TakeGroup
<1>2. UNCHANGED <<declared, devOnly, units, size, sccs>> /\ Packing
  BY <1>1, PackingStays
<1>3. /\ \A p : (Alike(p)' <=> Alike(p)) /\ (Packed(p)' <=> Packed(p))
  BY <1>2, UnitsStay
<1>4. DOMAIN bins' = {} /\ Group' = g \ consumed
  <2>1. DOMAIN bins' = {}
    BY <1>1
  <2>2. Range(bins') = {}
    BY <2>1 DEF Range
  <2>. QED
    BY <2>1, <2>2 DEF Group
<1>5. Alike(g)
  BY <1>2 DEF Packing
<1>6. Alike(g \ consumed) /\ members' \subseteq units
  BY <1>5 DEF Alike, Small
<1>7. Alike(Group)' /\ Group' \cap consumed' = {}
  <2>1. Small' = Small /\ \A u : KeyOf(u)' = KeyOf(u)
    BY <1>2, UnitsStay
  <2>2. \A u \in g \ consumed : u \in Small
    BY <1>6 DEF Alike
  <2>3. \A u, v \in g \ consumed : KeyOf(u) = KeyOf(v)
    BY <1>6 DEF Alike
  <2>4. \A u, v \in g \ consumed : KeyOf(u)' = KeyOf(v)'
    BY <2>1, <2>3
  <2>. QED
    BY <1>1, <1>4, <2>1, <2>2, <2>4 DEF Alike
<1>8. \A h \in groups' : Alike(h)'
  BY <1>2, <1>3 DEF Packing
<1>9. \A p \in packs' : Packed(p)'
  BY <1>1, <1>2, <1>3 DEF Packing
<1>10. Packing'
  BY <1>1, <1>2, <1>4, <1>7, <1>8, <1>9 DEF Packing
<1>11. bins' \in Seq(SUBSET units)
  BY <1>1, PackingStays
<1>. QED
  BY <1>1, <1>6, <1>10, <1>11, PackingStays

----------------------------------------------------------------------------
(* Steps of the merging: packing a group into bins.                        *)

\* What a bin is while a group is packed.
Bin(b) == b # {} /\ SizeOf(b) <= MaxUnit /\ Apart(b)

LEMMA Appended ==
  ASSUME NEW S, NEW s \in Seq(S), NEW x \in S, NEW t, t = Append(s, x)
  PROVE  /\ t \in Seq(S) /\ Len(t) = Len(s) + 1 /\ Len(t) \in Nat \ {0} /\ DOMAIN t = 1..Len(s) + 1
         /\ Len(t) \notin DOMAIN s /\ DOMAIN s \subseteq DOMAIN t
         /\ t[Len(t)] = x /\ \A k \in DOMAIN t : k = Len(t) \/ (k \in DOMAIN s /\ t[k] = s[k])
<1>1. Len(s) \in Nat /\ DOMAIN s = 1..Len(s)
  OBVIOUS
<1>2. t \in Seq(S) /\ Len(t) = Len(s) + 1 /\ t[Len(s) + 1] = x /\ \A k \in 1..Len(s) : t[k] = s[k]
  BY AppendProperties
<1>3. DOMAIN t = 1..Len(s) + 1
  BY <1>2
<1>4. \A k \in 1..Len(s) + 1 : k = Len(s) + 1 \/ k \in 1..Len(s)
  BY <1>1
<1>. QED
  BY <1>1, <1>2, <1>3, <1>4

LEMMA Replaced ==
  ASSUME NEW S, NEW s \in Seq(S), NEW n \in DOMAIN s, NEW x \in S, NEW t, t = [s EXCEPT ![n] = x]
  PROVE  /\ t \in Seq(S) /\ Len(t) = Len(s) /\ DOMAIN t = DOMAIN s
         /\ t[n] = x /\ \A k \in DOMAIN s : k # n => t[k] = s[k]
<1>1. t \in Seq(S) /\ Len(t) = Len(s)
  BY ExceptSeq
<1>. QED
  BY <1>1

\* The bins when u is added to them.
Joined(u) ==
  IF bins = <<>> \/ Overflows(Last(bins), u) THEN Append(bins, {u})
  ELSE [bins EXCEPT ![Len(bins)] = @ \cup {u}]

\* A member opens a bin, or joins the last one.
LEMMA MemberIsIn ==
  ASSUME PlanSound, stage = "packing", NEW u \in members,
         NEW new, new = Joined(u)
  PROVE  /\ new \in Seq(SUBSET units) /\ Len(new) \in Nat \ {0} /\ DOMAIN bins \subseteq DOMAIN new
         /\ \A k \in DOMAIN new : k = Len(new) \/ (k \in DOMAIN bins /\ new[k] = bins[k])
         /\ Bin(new[Len(new)])
         /\ new[Len(new)] = {u} \cup (IF Len(new) \in DOMAIN bins THEN bins[Len(new)] ELSE {})
<1>1. Packing /\ Shared /\ size \in [Modules -> Nat] /\ bins \in Seq(SUBSET units) /\ u \in units
  BY DEF PlanSound, Begun
<1>2. Alike(Group) /\ u \in Group
  BY <1>1 DEF Packing, Group
<1>3. Size(u) <= MaxUnit /\ SizeOf({u}) = Size(u) /\ Size(u) \in Nat
  <2>1. Size(u) < MinUnit
    BY <1>2 DEF Alike, Small
  <2>2. Size(u) \in Nat /\ SizeOf({u}) = Size(u)
    BY <1>1, SizeFacts, UnitFacts
  <2>. QED
    BY <2>1, <2>2, PlanAssumption
<1>4. Bin({u})
  BY <1>3 DEF Bin, Apart
<1>5. Len(bins) \in Nat /\ DOMAIN bins = 1..Len(bins) /\ \A k \in DOMAIN bins : bins[k] \in SUBSET units
  BY <1>1
<1>6. CASE bins = <<>> \/ Overflows(Last(bins), u)
  <2>1. new = Append(bins, {u})
    BY <1>6 DEF Joined
  <2>. PICK w \in SUBSET units : w = {u}
    BY <1>1
  <2>2. /\ new \in Seq(SUBSET units) /\ Len(new) \in Nat \ {0}
        /\ Len(new) \notin DOMAIN bins /\ DOMAIN bins \subseteq DOMAIN new
        /\ new[Len(new)] = w /\ \A k \in DOMAIN new : k = Len(new) \/ (k \in DOMAIN bins /\ new[k] = bins[k])
    BY <1>1, <2>1, Appended
  <2>. QED
    BY <1>4, <2>2
<1>7. CASE ~(bins = <<>> \/ Overflows(Last(bins), u))
  <2>. PICK n : n = Len(bins)
    OBVIOUS
  <2>1. n \in Nat \ {0} /\ n \in DOMAIN bins /\ Last(bins) = bins[n] /\ bins[n] \in SUBSET units
    BY <1>1, <1>5, <1>7, EmptySeq DEF Last
  <2>. PICK b \in SUBSET units : b = bins[n]
    BY <2>1
  <2>2. ~Overflows(b, u)
    BY <1>7, <2>1
  <2>3. new = [bins EXCEPT ![n] = b \cup {u}]
    BY <1>7, <2>1 DEF Joined
  <2>. PICK w \in SUBSET units : w = b \cup {u}
    BY <1>1
  <2>4. new \in Seq(SUBSET units) /\ Len(new) = n /\ DOMAIN new = DOMAIN bins /\ new[n] = w
        /\ \A k \in DOMAIN bins : k # n => new[k] = bins[k]
    <3>1. new = [bins EXCEPT ![n] = w] /\ bins \in Seq(SUBSET units) /\ n \in DOMAIN bins /\ Len(bins) = n
      BY <1>1, <2>1, <2>3
    <3>. QED
      BY <3>1, Replaced
  <2>5. u \notin b
    BY <1>1, <2>1 DEF Packing
  <2>6. SizeOf(w) <= MaxUnit
    <3>1. SizeOf(w) = SizeOf(b) + Size(u)
      BY <1>1, <2>5, SizeFacts
    <3>2. SizeOf(b) + Size(u) <= MaxUnit
      <4>1. ~(SizeOf(b) + Size(u) > MaxUnit)
        BY <2>2 DEF Overflows
      <4>2. SizeOf(b) \in Nat /\ Size(u) \in Nat
        BY <1>1, <1>3, SizeFacts
      <4>. QED
        BY <4>1, <4>2, PlanAssumption
    <3>. QED
      BY <3>1, <3>2
  <2>7. Apart(w)
    <3>1. Apart(b)
      BY <1>1, <2>1 DEF Packing
    <3>2. \A v \in b : ~HasPath(u, v)
      BY <2>2 DEF Overflows
    <3>3. \A v \in b : ~HasPath(v, u)
      BY <3>2 DEF HasPath
    <3>. QED
      BY <3>1, <3>2, <3>3 DEF Apart
  <2>8. Bin(w)
    BY <2>6, <2>7 DEF Bin
  <2>. QED
    BY <2>1, <2>4, <2>8
<1>. QED
  BY <1>6, <1>7

LEMMA AddMemberInv ==
  ASSUME PlanSound, AddMember PROVE PlanSound'
<1>1. /\ stage = "packing" /\ stage' = "packing" /\ inputUnchanged
      /\ UNCHANGED <<units, groups, packs, consumed>>
  BY DEF AddMember
<1>. PICK u \in members :
        /\ members' = members \ {u}
        /\ bins' = IF bins = <<>> \/ Overflows(Last(bins), u) THEN Append(bins, {u})
                   ELSE [bins EXCEPT ![Len(bins)] = @ \cup {u}]
  BY DEF AddMember
<1>2. /\ UNCHANGED <<declared, devOnly, units, size, sccs>> /\ Packing /\ bins \in Seq(SUBSET units)
      /\ members \subseteq units
  BY <1>1, PackingStays
<1>. PICK new : new = bins'
  OBVIOUS
<1>3. /\ new \in Seq(SUBSET units) /\ Len(new) \in Nat \ {0} /\ DOMAIN bins \subseteq DOMAIN new
      /\ \A k \in DOMAIN new : k = Len(new) \/ (k \in DOMAIN bins /\ new[k] = bins[k])
      /\ Bin(new[Len(new)])
      /\ new[Len(new)] = {u} \cup (IF Len(new) \in DOMAIN bins THEN bins[Len(new)] ELSE {})
  <2>1. new = Joined(u)
    BY DEF Joined
  <2>. QED
    BY <1>1, <2>1, MemberIsIn DEF Joined
<1>. PICK n : n = Len(new)
  OBVIOUS
<1>4. n \in DOMAIN new
  BY <1>3
<1>5. /\ \A p : (Alike(p)' <=> Alike(p)) /\ (Packed(p)' <=> Packed(p)) /\ (Apart(p)' <=> Apart(p))
      /\ \A p : SizeOf(p)' = SizeOf(p) /\ KeyOf(p)' = KeyOf(p)
      /\ Small' = Small /\ Roots' = Roots
  BY <1>2, UnitsStay
<1>6. \A k \in DOMAIN new : \A x \in new[k] : x = u \/ (k \in DOMAIN bins /\ x \in bins[k])
  BY <1>3
<1>7. Group' = Group
  <2>1. \A x \in Group' : x \in Group
    <3>1. \A k \in DOMAIN bins : \A x \in bins[k] : x \in Group
      BY DEF Group, Range
    <3>2. \A k \in DOMAIN new : \A x \in new[k] : x \in Group
      BY <1>6, <3>1 DEF Group
    <3>. QED
      BY <3>2 DEF Group, Range
  <2>2. \A x \in Group : x \in Group'
    <3>1. \A k \in DOMAIN bins : \A x \in bins[k] : x \in new[k] /\ k \in DOMAIN new
      BY <1>3
    <3>2. u \in new[n]
      BY <1>3
    <3>3. \A x \in members : x \in members' \/ x = u
      OBVIOUS
    <3>. QED
      BY <1>4, <3>1, <3>2, <3>3 DEF Group, Range
  <2>. QED
    BY <2>1, <2>2
<1>8. Alike(Group)'
  <2>1. Alike(Group)
    BY <1>2 DEF Packing
  <2>2. \A x, y \in Group' : KeyOf(x)' = KeyOf(y)'
    BY <1>5, <1>7, <2>1 DEF Alike
  <2>3. Group' \subseteq Small'
    BY <1>5, <1>7, <2>1 DEF Alike
  <2>. QED
    BY <2>2, <2>3 DEF Alike
<1>9. Group \cap consumed = {} /\ u \in Group
  BY <1>2 DEF Packing, Group
<1>10. Group' \cap consumed' = {}
  BY <1>1, <1>7, <1>9
<1>11. ASSUME NEW k \in DOMAIN new
       PROVE  /\ new[k] # {} /\ new[k] \cap members' = {} /\ SizeOf(new[k]) <= MaxUnit /\ Apart(new[k])
              /\ new[k] \cap consumed = {}
  <2>1. new[k] \cap members' = {}
    <3>1. \A j \in DOMAIN bins : bins[j] \cap members = {}
      BY <1>2 DEF Packing
    <3>. QED
      BY <1>6, <3>1
  <2>2. new[k] \cap consumed = {}
    <3>1. \A j \in DOMAIN bins : \A x \in bins[j] : x \notin consumed
      BY <1>9 DEF Group, Range
    <3>. QED
      BY <1>6, <1>9, <3>1
  <2>3. Bin(new[k])
    <3>1. \A j \in DOMAIN bins : Bin(bins[j])
      BY <1>2 DEF Packing, Bin
    <3>. QED
      BY <1>3, <3>1
  <2>. QED
    BY <2>1, <2>2, <2>3 DEF Bin
<1>12. \A k, l \in DOMAIN new : k # l => new[k] \cap new[l] = {}
  <2>1. \A k, l \in DOMAIN bins : k # l => bins[k] \cap bins[l] = {}
    BY <1>2 DEF Packing
  <2>2. \A j \in DOMAIN bins : u \notin bins[j]
    BY <1>2 DEF Packing
  <2>3. SUFFICES ASSUME NEW k \in DOMAIN new, NEW l \in DOMAIN new, k # l, NEW x \in new[k], x \in new[l]
                 PROVE  FALSE
    OBVIOUS
  <2>4. x # u => k \in DOMAIN bins /\ l \in DOMAIN bins /\ x \in bins[k] /\ x \in bins[l]
    BY <1>6, <2>3
  <2>5. x = u
    BY <2>1, <2>3, <2>4
  <2>6. \A j \in DOMAIN new : u \in new[j] => j = n
    BY <1>3, <2>2
  <2>. QED
    BY <2>3, <2>5, <2>6
<1>13. Packing'
  <2>1. /\ \A k \in DOMAIN bins' :
             /\ bins'[k] # {} /\ bins'[k] \cap members' = {} /\ SizeOf(bins[k])' <= MaxUnit /\ Apart(bins[k])'
             /\ bins'[k] \cap consumed' # {} => \E o \in bins'[k] : bins'[k] = {o} /\ Roots' = {o}
    BY <1>1, <1>5, <1>11
  <2>2. \A g \in groups' : Alike(g)'
    BY <1>1, <1>2, <1>5 DEF Packing
  <2>3. /\ \A p \in packs' : Packed(p)'
        /\ \A p, q \in packs' : p # q => p \cap q = {}
        /\ consumed' = UNION packs'
    BY <1>1, <1>2, <1>5 DEF Packing
  <2>4. \A k, l \in DOMAIN bins' : k # l => bins'[k] \cap bins'[l] = {}
    BY <1>12
  <2>. QED
    BY <1>8, <1>10, <2>1, <2>2, <2>3, <2>4 DEF Packing
<1>. QED
  BY <1>1, <1>2, <1>3, <1>13, PackingStays

LEMMA TailFacts ==
  ASSUME NEW S, NEW s \in Seq(S), s # <<>>
  PROVE  /\ Head(s) = s[1] /\ 1 \in DOMAIN s /\ Tail(s) \in Seq(S)
         /\ \A k \in DOMAIN Tail(s) : k + 1 \in DOMAIN s /\ k + 1 # 1 /\ Tail(s)[k] = s[k + 1]
         /\ \A k \in DOMAIN Tail(s) : k \in Nat
<1>1. Len(s) \in Nat \ {0} /\ DOMAIN s = 1..Len(s) /\ Head(s) = s[1]
  BY EmptySeq
<1>2. Tail(s) \in Seq(S) /\ Len(Tail(s)) = Len(s) - 1 /\ \A k \in 1..Len(s) - 1 : Tail(s)[k] = s[k + 1]
  BY HeadTailProperties
<1>3. DOMAIN Tail(s) = 1..Len(s) - 1
  BY <1>2
<1>4. \A k \in 1..Len(s) - 1 : k + 1 \in 1..Len(s) /\ k + 1 # 1 /\ k \in Nat
  BY <1>1
<1>. QED
  BY <1>1, <1>2, <1>3, <1>4

\* What a unit depends on directly, a path joins to it.
LEMMA DepsArePaths ==
  ASSUME NEW u, NEW v, u \in units, v \in Deps(u) PROVE HasPath(u, v) /\ HasPath(v, u)
<1>. PICK g : g = [w \in units |-> Deps(w)]
  OBVIOUS
<1>1. g[u] = Deps(u) /\ v \in DOMAIN g /\ v \in g[u]
  BY DEF Deps
<1>2. v \in Reach(g, u)
  BY <1>1 DEF Reach
<1>. QED
  BY <1>2 DEF HasPath, Reachable

\* What is known of the owner a bin is folded into.
LEMMA OwnerFacts ==
  ASSUME Shared, NEW bin, bin # {}, NEW o \in Owner(bin)
  PROVE  /\ Candidate(bin) = {o} /\ Owner(bin) = {o} /\ o \in units /\ o \notin consumed /\ o \notin bin
         /\ DevOnlyUnit(o) = DevOnlyUnit(UNION bin) /\ bin \subseteq Deps(o)
         /\ SizeOf(bin) < MinUnit /\ Size(o) + SizeOf(bin) <= MaxUnit
<1>1. /\ o \in Candidate(bin) /\ Cardinality(Candidate(bin)) = 1 /\ o \notin consumed
      /\ DevOnlyUnit(o) = DevOnlyUnit(UNION bin) /\ bin \subseteq Deps(o)
      /\ SizeOf(bin) < MinUnit /\ Size(o) + SizeOf(bin) <= MaxUnit
  BY DEF Owner
<1>2. Candidate(bin) \subseteq units
  BY DEF Candidate, EffectiveDependents, Dependents, Roots
<1>3. o \notin bin
  BY <1>1 DEF Deps
<1>4. Candidate(bin) = {o}
  <2>. PICK S \in SUBSET units : S = Candidate(bin)
    BY <1>2
  <2>1. IsFiniteSet(S)
    BY UnitFacts
  <2>2. Cardinality(S) = 1 /\ o \in S
    BY <1>1
  <2>. PICK x : S = {x}
    BY <2>1, <2>2, FS_Singleton
  <2>. QED
    BY <2>2
<1>5. \A x \in Owner(bin) : x \in Candidate(bin)
  BY DEF Owner
<1>6. Owner(bin) = {o}
  BY <1>4, <1>5
<1>. QED
  BY <1>1, <1>2, <1>3, <1>4, <1>6

\* An owner in the group of the bin is the only root, and no other unit of its group is
\* in a bin with it.
LEMMA OwnerInGroup ==
  ASSUME NEW bin, NEW o \in Owner(bin), NEW u \in bin, Candidate(bin) = {o}, o \in units,
         NEW G, Alike(G), bin \subseteq G, o \in G
  PROVE  Roots = {o} /\ \A x \in G \ {o} : HasPath(o, x)
<1>1. \A x, y \in G : EffectiveDependents(x) = EffectiveDependents(y)
  BY DEF Alike, KeyOf
<1>. PICK c \in bin : c = CHOOSE x \in bin : TRUE
  OBVIOUS
<1>2. EffectiveDependents(o) = EffectiveDependents(c)
  BY <1>1
<1>3. o \notin EffectiveDependents(o)
  BY DEF EffectiveDependents, Dependents, Deps
<1>4. EffectiveDependents(c) = {} /\ Roots = {o}
  BY <1>2, <1>3 DEF Candidate
<1>5. ASSUME NEW x \in G, x # o PROVE HasPath(o, x)
  <2>1. EffectiveDependents(x) = {} /\ x \in units
    BY <1>1, <1>4 DEF Alike, Small
  <2>2. Dependents(x) \subseteq {o} /\ Dependents(x) # {}
    BY <1>4, <1>5, <2>1 DEF EffectiveDependents, Roots
  <2>3. x \in Deps(o)
    BY <2>2 DEF Dependents
  <2>. QED
    BY <2>3, DepsArePaths
<1>. QED
  BY <1>4, <1>5

\* A bin some member of which another pack took is the only root, alone: nothing owns it.
LEMMA TakenBin ==
  ASSUME Shared, NEW bin, NEW r \in bin, bin = {r}, Roots = {r}
  PROVE  Owner(bin) = {}
<1>. SUFFICES ASSUME NEW o \in Owner(bin) PROVE FALSE
  OBVIOUS
<1>1. o \in units /\ r \in Deps(o)
  BY OwnerFacts
<1>2. r \in Roots
  OBVIOUS
<1>. QED
  BY <1>1, <1>2 DEF Roots, Dependents

----------------------------------------------------------------------------
(* Steps of the merging: a bin becomes a pack, with its owner.             *)

\* A bin with its owner is a pack.
LEMMA IsPacked ==
  ASSUME Shared, size \in [Modules -> Nat],
         NEW bin \in SUBSET units, bin # {}, Alike(bin), Apart(bin), SizeOf(bin) <= MaxUnit,
         NEW pack, pack = bin \cup Owner(bin)
  PROVE  Packed(pack)
<1>1. \A u, v \in bin : DevOnlyUnit(u) = DevOnlyUnit(v)
  BY DEF Alike, KeyOf
<1>2. CASE Owner(bin) = {}
  <2>1. pack = bin /\ pack \subseteq units
    BY <1>2
  <2>. QED
    BY <1>1, <2>1 DEF Packed
<1>3. CASE Owner(bin) # {}
  <2>. PICK o \in Owner(bin) : TRUE
    BY <1>3
  <2>1. /\ Candidate(bin) = {o} /\ o \in units /\ o \notin bin /\ pack = bin \cup {o}
        /\ DevOnlyUnit(o) = DevOnlyUnit(UNION bin) /\ bin \subseteq Deps(o)
        /\ Size(o) + SizeOf(bin) <= MaxUnit
    BY OwnerFacts
  <2>2. pack \subseteq units
    BY <2>1
  <2>3. SizeOf(pack) <= MaxUnit
    <3>1. SizeOf(pack) = SizeOf(bin) + Size(o) /\ SizeOf(bin) \in Nat /\ Size(o) \in Nat
      BY <2>1, SizeFacts, UnitFacts
    <3>. QED
      BY <2>1, <3>1
  <2>4. \A u \in bin : DevOnlyUnit(u) = DevOnlyUnit(o)
    <3>1. DevOnlyUnit(UNION bin) <=> \A u \in bin : DevOnlyUnit(u)
      BY DEF DevOnlyUnit
    <3>2. \A u \in bin : DevOnlyUnit(u) <=> DevOnlyUnit(UNION bin)
      BY <1>1, <3>1
    <3>3. \A u : DevOnlyUnit(u) \in BOOLEAN
      BY DEF DevOnlyUnit
    <3>. QED
      BY <2>1, <3>2, <3>3
  <2>5. \A u, v \in pack : DevOnlyUnit(u) = DevOnlyUnit(v)
    BY <1>1, <2>1, <2>4
  <2>6. bin \in SUBSET pack /\ o \in pack \ bin
    BY <2>1
  <2>. QED
    BY <2>1, <2>2, <2>3, <2>5, <2>6 DEF Packed
<1>. QED
  BY <1>2, <1>3

LEMMA PackBinInv ==
  ASSUME PlanSound, PackBin PROVE PlanSound'
<1>1. /\ stage = "packing" /\ stage' = "packing" /\ inputUnchanged /\ members = {} /\ bins # <<>>
      /\ bins' = Tail(bins) /\ UNCHANGED <<units, groups, members>>
  BY DEF PackBin
<1>2. /\ UNCHANGED <<declared, devOnly, units, size, sccs>> /\ Packing /\ bins \in Seq(SUBSET units)
      /\ members \subseteq units /\ Shared /\ size \in [Modules -> Nat]
  BY <1>1, PackingStays
<1>. PICK bin, pack : bin = Head(bins) /\ pack = bin \cup Owner(bin)
  OBVIOUS
<1>3. \/ packs' = packs /\ consumed' = consumed
      \/ packs' = packs \cup {pack} /\ consumed' = consumed \cup pack /\ Cardinality(pack) >= 2
  BY DEF PackBin
<1>. PICK S : S = SUBSET units
  OBVIOUS
<1>4. /\ bin = bins[1] /\ 1 \in DOMAIN bins /\ bins' \in Seq(SUBSET units)
      /\ \A k \in DOMAIN bins' : k + 1 \in DOMAIN bins /\ k + 1 # 1 /\ bins'[k] = bins[k + 1] /\ k \in Nat
  <2>1. bins \in Seq(S) /\ bins # <<>>
    BY <1>1, <1>2
  <2>. QED
    BY <1>1, <2>1, TailFacts
<1>5. /\ \A p : (Alike(p)' <=> Alike(p)) /\ (Packed(p)' <=> Packed(p)) /\ (Apart(p)' <=> Apart(p))
      /\ \A p : SizeOf(p)' = SizeOf(p) /\ KeyOf(p)' = KeyOf(p)
      /\ Small' = Small /\ Roots' = Roots
  BY <1>2, UnitsStay
<1>6. /\ bin \in SUBSET units /\ bin # {} /\ SizeOf(bin) <= MaxUnit /\ Apart(bin)
      /\ \A k \in DOMAIN bins : k # 1 => bins[k] \cap bin = {}
      /\ bin \cap consumed # {} => \E o \in bin : bin = {o} /\ Roots = {o}
  BY <1>2, <1>4 DEF Packing
<1>7. Alike(Group) /\ \A k \in DOMAIN bins : bins[k] \subseteq Group
  BY <1>2 DEF Packing, Group, Range
<1>8. Alike(bin)
  BY <1>4, <1>7 DEF Alike
<1>9. Packed(pack)
  BY <1>2, <1>6, <1>8, IsPacked
<1>10. ASSUME bin \cap consumed # {} PROVE packs' = packs /\ consumed' = consumed
  <2>. PICK r \in bin : bin = {r} /\ Roots = {r}
    BY <1>6, <1>10
  <2>1. Owner(bin) = {}
    BY <1>2, TakenBin
  <2>2. pack = {r}
    BY <2>1
  <2>3. Cardinality(pack) = 1
    BY <2>2, FS_Singleton
  <2>. QED
    BY <1>3, <2>3
<1>11. bin \cap consumed = {} => pack \cap consumed = {}
  BY <1>2, <1>6, OwnerFacts
<1>12. \A x \in Group' : x \in Group
  BY <1>1, <1>4, <1>7 DEF Group, Range
<1>13. Alike(Group)'
  <2>1. \A x, y \in Group' : KeyOf(x)' = KeyOf(y)'
    BY <1>5, <1>7, <1>12 DEF Alike
  <2>2. Group' \subseteq Small'
    BY <1>5, <1>7, <1>12 DEF Alike
  <2>. QED
    BY <2>1, <2>2 DEF Alike
<1>14. /\ \A p \in packs' : Packed(p)'
       /\ \A p, q \in packs' : p # q => p \cap q = {}
       /\ consumed' = UNION packs'
  <2>1. /\ \A p \in packs : Packed(p)
        /\ \A p, q \in packs : p # q => p \cap q = {}
        /\ consumed = UNION packs
    BY <1>2 DEF Packing
  <2>2. CASE packs' = packs /\ consumed' = consumed
    BY <1>5, <2>1, <2>2
  <2>3. CASE packs' = packs \cup {pack} /\ consumed' = consumed \cup pack /\ bin \cap consumed = {}
    <3>1. pack \cap UNION packs = {}
      BY <1>11, <2>1, <2>3
    <3>2. \A p \in packs : p \cap pack = {}
      BY <3>1
    <3>3. \A p \in packs' : Packed(p)'
      BY <1>5, <1>9, <2>1, <2>3
    <3>4. \A p, q \in packs' : p # q => p \cap q = {}
      BY <2>1, <2>3, <3>2, ZenonT(30)
    <3>5. consumed' = UNION packs'
      BY <2>1, <2>3
    <3>. QED
      BY <3>3, <3>4, <3>5
  <2>. QED
    BY <1>3, <1>10, <2>2, <2>3
<1>15. ASSUME NEW k \in DOMAIN bins', bins'[k] \cap consumed' # {}
       PROVE  \E o \in bins'[k] : bins'[k] = {o} /\ Roots = {o}
  <2>. PICK b : b = bins[k + 1]
    OBVIOUS
  <2>1. /\ b = bins'[k] /\ b # {} /\ Apart(b) /\ b \subseteq Group /\ b \cap bin = {}
        /\ b \cap consumed # {} => \E o \in b : b = {o} /\ Roots = {o}
    BY <1>2, <1>4, <1>6, <1>7 DEF Packing
  <2>2. CASE b \cap consumed # {}
    BY <2>1, <2>2
  <2>3. CASE b \cap consumed = {}
    <3>1. b \cap pack # {}
      BY <1>3, <1>15, <2>1, <2>3
    <3>. PICK o \in b : o \in Owner(bin)
      BY <2>1, <3>1
    <3>2. Candidate(bin) = {o} /\ o \in units
      BY <1>2, <1>6, OwnerFacts
    <3>. PICK u \in bin : TRUE
      BY <1>6
    <3>. PICK G : G = Group
      OBVIOUS
    <3>3. Alike(G) /\ bin \subseteq G /\ o \in G /\ b \subseteq G
      BY <1>4, <1>7, <2>1
    <3>4. Roots = {o} /\ \A x \in G \ {o} : HasPath(o, x)
      BY <3>2, <3>3, OwnerInGroup
    <3>5. b = {o}
      BY <2>1, <3>3, <3>4 DEF Apart
    <3>. QED
      BY <2>1, <3>4, <3>5
  <2>. QED
    BY <2>2, <2>3
<1>16. ASSUME NEW k \in DOMAIN bins'
       PROVE  /\ bins'[k] # {} /\ bins'[k] \cap members' = {} /\ SizeOf(bins[k])' <= MaxUnit /\ Apart(bins[k])'
              /\ bins'[k] \cap consumed' # {} => \E o \in bins'[k] : bins'[k] = {o} /\ Roots' = {o}
  <2>. PICK b : b = bins[k + 1]
    OBVIOUS
  <2>1. b = bins'[k] /\ b # {} /\ SizeOf(b) <= MaxUnit /\ Apart(b)
    BY <1>2, <1>4 DEF Packing
  <2>2. SizeOf(b)' <= MaxUnit /\ Apart(b)'
    BY <1>5, <2>1
  <2>3. SizeOf(bins[k])' = SizeOf(b)' /\ (Apart(bins[k])' <=> Apart(b)')
    BY <2>1 DEF SizeOf, Apart
  <2>4. bins'[k] \cap consumed' # {} => \E o \in bins'[k] : bins'[k] = {o} /\ Roots' = {o}
    BY <1>5, <1>15
  <2>. QED
    BY <1>1, <2>1, <2>2, <2>3, <2>4
<1>17. \A k, l \in DOMAIN bins' : k # l => bins'[k] \cap bins'[l] = {}
  <2>1. \A k, l \in DOMAIN bins : k # l => bins[k] \cap bins[l] = {}
    BY <1>2 DEF Packing
  <2>2. \A k, l \in DOMAIN bins' : k # l => k + 1 # l + 1
    BY <1>4
  <2>. QED
    BY <1>4, <2>1, <2>2
<1>18. \A g \in groups' : Alike(g)'
  BY <1>1, <1>2, <1>5 DEF Packing
<1>19. Packing'
  BY <1>1, <1>13, <1>14, <1>16, <1>17, <1>18 DEF Packing
<1>. QED
  BY <1>1, <1>2, <1>4, <1>19, PackingStays

----------------------------------------------------------------------------
(* Steps of the merging: the end of a pass.                                *)

\* What a pass leaves: its packs, and every other unit by itself.
Blocks == packs \cup {{v} : v \in units \ UNION packs}

LEMMA BlockFacts ==
  ASSUME Shared, Packing
  PROVE  /\ Merged = {UNION b : b \in Blocks}
         /\ \A b \in Blocks : b \in SUBSET units /\ b # {}
         /\ \A b \in Blocks : b \in packs \/ \E v \in units : b = {v}
         /\ \A b, c \in Blocks : b # c => b \cap c = {}
         /\ \A u \in units : \E b \in Blocks : u \in b
<1>1. \A p \in packs : p \subseteq units /\ p # {}
  BY DEF Packing, Packed
<1>2. \A p, q \in packs : p # q => p \cap q = {}
  BY DEF Packing
<1>3. \A b \in Blocks : b \in packs \/ \E v \in units \ UNION packs : b = {v}
  BY DEF Blocks
<1>4. \A b \in Blocks : b \in SUBSET units /\ b # {}
  BY <1>1, <1>3
<1>5. \A b, c \in Blocks : b # c => b \cap c = {}
  <2>. TAKE b, c \in Blocks
  <2>1. \A p \in packs : \A v \in units \ UNION packs : v \notin p
    OBVIOUS
  <2>2. CASE b \in packs
    BY <1>2, <1>3, <2>1, <2>2
  <2>3. CASE c \in packs
    BY <1>2, <1>3, <2>1, <2>3
  <2>4. CASE b \notin packs /\ c \notin packs
    BY <1>3, <2>4
  <2>. QED
    BY <2>2, <2>3, <2>4
<1>6. \A u \in units : \E b \in Blocks : u \in b
  BY DEF Blocks
<1>7. Merged = {UNION b : b \in Blocks}
  <2>1. \A v : UNION {v} = v
    OBVIOUS
  <2>2. \A u \in Merged : \E b \in Blocks : u = UNION b
    BY <2>1 DEF Merged, Blocks
  <2>3. \A b \in Blocks : UNION b \in Merged
    BY <1>3, <2>1, ZenonT(30) DEF Merged
  <2>. QED
    BY <2>2, <2>3
<1>. QED
  BY <1>3, <1>4, <1>5, <1>6, <1>7

\* Unions of different blocks have no module in common.
LEMMA BlocksApart ==
  ASSUME Shared, Packing, NEW b \in Blocks, NEW c \in Blocks, b # c
  PROVE  (UNION b) \cap (UNION c) = {}
<1>1. b \subseteq units /\ c \subseteq units /\ b \cap c = {}
  BY BlockFacts
<1>2. \A u \in b, v \in c : u \cap v = {}
  BY <1>1 DEF Shared
<1>3. \A m \in UNION b : m \notin UNION c
  BY <1>2
<1>. QED
  BY <1>3

LEMMA MergedShared ==
  ASSUME Shared, Packing, units' = Merged PROVE Shared'
<1>1. \A u \in Merged : \E b \in Blocks : u = UNION b
  BY BlockFacts
<1>2. ASSUME NEW u \in Merged PROVE u \in UnitSets
  <2>. PICK b \in Blocks : u = UNION b
    BY <1>1
  <2>1. b \in SUBSET units /\ b # {}
    BY BlockFacts
  <2>. PICK v \in b : TRUE
    BY <2>1
  <2>2. v # {} /\ v \subseteq u /\ UNION b \in SUBSET Modules
    BY <2>1, UnitFacts
  <2>. QED
    BY <2>2 DEF UnitSets
<1>3. ASSUME NEW u \in Merged, NEW v \in Merged, u # v PROVE u \cap v = {}
  <2>. PICK b \in Blocks, c \in Blocks : u = UNION b /\ v = UNION c
    BY <1>1
  <2>. QED
    BY <1>3, BlocksApart
<1>4. ASSUME NEW m \in Modules PROVE \E u \in Merged : m \in u
  <2>. PICK v \in units : m \in v
    BY DEF Shared
  <2>. PICK b \in Blocks : v \in b
    BY BlockFacts
  <2>1. m \in UNION b /\ UNION b \in Merged
    BY BlockFacts
  <2>. QED
    BY <2>1
<1>. QED
  BY <1>2, <1>3, <1>4 DEF Shared, UnitSets

\* A unit is on the track of any of its components.
LEMMA TrackOfUnit ==
  ASSUME NEW u, Assembled(u), NEW c \in Within(u)
  PROVE  DevOnlyUnit(c) <=> DevOnlyUnit(u)
<1>1. u = UNION Within(u) /\ \A d \in Within(u) : (DevOnlyUnit(c) = DevOnlyUnit(d))
  BY DEF Assembled
<1>2. \A d \in Within(u) : DevOnlyUnit(c) <=> DevOnlyUnit(d)
  BY <1>1 DEF DevOnlyUnit
<1>3. DevOnlyUnit(u) <=> \A d \in Within(u) : DevOnlyUnit(d)
  BY <1>1 DEF DevOnlyUnit
<1>. QED
  BY <1>2, <1>3

LEMMA MergedAssembled ==
  ASSUME SearchSound, Shared, \A u \in units : Assembled(u), size \in [Modules -> Nat],
         NEW p, Packed(p)
  PROVE  Assembled(UNION p)
<1>. PICK U : U = UNION p
  OBVIOUS
<1>0. p \in SUBSET units
  BY DEF Packed
<1>1. \A c \in Components : c # {} /\ \A d \in Components : d # c => c \cap d = {}
  BY SccFacts DEF Components, Range, UnitSets
<1>2. ASSUME NEW c \in Within(U) PROVE \E v \in p : c \in Within(v)
  <2>1. c \in Components /\ c \subseteq UNION p
    BY DEF Within
  <2>. PICK m \in c : TRUE
    BY <1>1, <2>1
  <2>. PICK v \in p : m \in v
    BY <2>1
  <2>2. v = UNION Within(v)
    BY <1>0 DEF Assembled
  <2>. PICK d \in Within(v) : m \in d
    BY <2>2
  <2>3. d = c
    BY <1>1, <2>1 DEF Within
  <2>. QED
    BY <2>3
<1>3. U = UNION Within(U)
  <2>1. \A v \in p : v = UNION Within(v) /\ v \subseteq U
    BY <1>0 DEF Assembled
  <2>2. \A v \in p : \A c \in Within(v) : c \in Within(U)
    BY <2>1 DEF Within
  <2>3. \A x \in U : \E c \in Within(U) : x \in c
    <3>. TAKE x \in U
    <3>. PICK v \in p : x \in v
      OBVIOUS
    <3>. PICK c \in Within(v) : x \in c
      BY <2>1
    <3>. QED
      BY <2>2
  <2>4. \A c \in Within(U) : c \subseteq U
    BY DEF Within
  <2>. QED
    BY <2>3, <2>4
<1>4. \A c, d \in Within(U) : DevOnlyUnit(c) = DevOnlyUnit(d)
  <2>. TAKE c \in Within(U), d \in Within(U)
  <2>. PICK v \in p, w \in p : c \in Within(v) /\ d \in Within(w)
    BY <1>2
  <2>1. DevOnlyUnit(c) <=> DevOnlyUnit(v)
    BY <1>0, TrackOfUnit
  <2>2. DevOnlyUnit(d) <=> DevOnlyUnit(w)
    BY <1>0, TrackOfUnit
  <2>3. DevOnlyUnit(v) = DevOnlyUnit(w)
    BY DEF Packed
  <2>. QED
    BY <2>1, <2>2, <2>3 DEF DevOnlyUnit
<1>5. Size(U) <= MaxUnit
  <2>1. Size(U) = SizeOf(p)
    BY <1>0, SizeUnion
  <2>. QED
    BY <2>1 DEF Packed
<1>. QED
  BY <1>3, <1>4, <1>5 DEF Assembled

LEMMA EndPassInv ==
  ASSUME SearchSound, PlanSound, EndPass PROVE PlanSound'
<1>1. /\ stage = "packing" /\ stage' \in {"pass", "levels"} /\ units' = Merged
      /\ UNCHANGED <<declared, devOnly, size, sccs, members, bins, packs>> /\ members = {} /\ bins = <<>>
  BY DEF EndPass, PassOver, inputUnchanged, orderUnchanged, planInput, input, search, pass
<1>2. /\ Shared /\ Packing /\ (\A u \in units : Assembled(u)) /\ size \in [Modules -> Nat]
  BY <1>1 DEF PlanSound, Begun
<1>3. Shared'
  BY <1>1, <1>2, MergedShared
<1>4. ASSUME NEW u \in Merged PROVE Assembled(u)
  <2>. PICK b \in Blocks : u = UNION b
    BY <1>2, BlockFacts
  <2>1. CASE b \in packs
    <3>1. Packed(b)
      BY <1>2, <2>1 DEF Packing
    <3>. QED
      BY <1>2, <3>1, MergedAssembled
  <2>2. CASE \E v \in units : b = {v}
    <3>. PICK v \in units : b = {v}
      BY <2>2
    <3>1. u = v
      OBVIOUS
    <3>. QED
      BY <1>2, <3>1
  <2>. QED
    BY <1>2, <2>1, <2>2, BlockFacts
<1>5. \A u : Assembled(u)' <=> Assembled(u)
  BY <1>1 DEF Assembled, Within, Components, DevOnlyUnit, Size
<1>6. bins' \in Seq(SUBSET units')
  BY <1>1
<1>. QED
  BY <1>1, <1>2, <1>3, <1>4, <1>5, <1>6 DEF PlanSound, Begun

----------------------------------------------------------------------------
(* What the merging keeps.                                                 *)

LEMMA PackingRests ==
  ASSUME PlanSound, UNCHANGED vars PROVE PlanSound'
<1>1. /\ UNCHANGED <<declared, devOnly, units, size, sccs>> /\ UNCHANGED <<groups, members, bins, packs, consumed>>
      /\ stage' = stage /\ (Begun' <=> Begun) /\ UNCHANGED <<input, search, units, pass>> /\ inputUnchanged
  BY DEF vars, orderVars, planInput, input, search, pass, inputUnchanged, orderUnchanged, Begun
<1>2. CASE stage # "packing"
  BY <1>1, <1>2, PassStays
<1>3. CASE stage = "packing"
  <2>1. Packing /\ bins \in Seq(SUBSET units) /\ members \subseteq units
    BY <1>1, <1>3, PackingStays
  <2>2. /\ \A p : (Alike(p)' <=> Alike(p)) /\ (Packed(p)' <=> Packed(p)) /\ (Apart(p)' <=> Apart(p))
        /\ \A p : SizeOf(p)' = SizeOf(p) /\ KeyOf(p)' = KeyOf(p)
        /\ Small' = Small /\ Roots' = Roots
    BY <1>1, UnitsStay
  <2>3. Group' = Group
    BY <1>1 DEF Group
  <2>4. Alike(Group)'
    <3>1. \A x, y \in Group' : KeyOf(x)' = KeyOf(y)'
      BY <2>1, <2>2, <2>3 DEF Packing, Alike
    <3>2. Group' \subseteq Small'
      BY <2>1, <2>2, <2>3 DEF Packing, Alike
    <3>. QED
      BY <3>1, <3>2 DEF Alike
  <2>5. ASSUME NEW k \in DOMAIN bins'
        PROVE  /\ bins'[k] # {} /\ bins'[k] \cap members' = {} /\ SizeOf(bins[k])' <= MaxUnit /\ Apart(bins[k])'
               /\ bins'[k] \cap consumed' # {} => \E o \in bins'[k] : bins'[k] = {o} /\ Roots' = {o}
    <3>. PICK b : b = bins[k]
      OBVIOUS
    <3>1. b = bins'[k] /\ b # {} /\ SizeOf(b) <= MaxUnit /\ Apart(b)
      BY <1>1, <2>1 DEF Packing
    <3>2. SizeOf(b)' <= MaxUnit /\ Apart(b)'
      BY <2>2, <3>1
    <3>3. SizeOf(bins[k])' = SizeOf(b)' /\ (Apart(bins[k])' <=> Apart(b)')
      BY <3>1 DEF SizeOf, Apart
    <3>4. bins[k] \cap members = {} /\ (bins[k] \cap consumed # {} => \E o \in bins[k] : bins[k] = {o} /\ Roots = {o})
      BY <1>1, <2>1 DEF Packing
    <3>. QED
      BY <1>1, <2>2, <3>1, <3>2, <3>3, <3>4
  <2>6. /\ \A g \in groups' : Alike(g)'
        /\ \A p \in packs' : Packed(p)'
        /\ \A p, q \in packs' : p # q => p \cap q = {}
        /\ consumed' = UNION packs' /\ (members' # {} => Group' \cap consumed' = {})
        /\ \A k, l \in DOMAIN bins' : k # l => bins'[k] \cap bins'[l] = {}
    BY <1>1, <2>1, <2>2, <2>3 DEF Packing
  <2>7. Packing'
    BY <2>4, <2>5, <2>6 DEF Packing
  <2>. QED
    BY <1>1, <1>3, <2>1, <2>7, PackingStays
<1>. QED
  BY <1>2, <1>3

LEMMA PlanSoundInit ==
  ASSUME Init PROVE PlanSound
BY DEF Init, OrderInit, PlanSound, Begun

LEMMA PlanSoundNext ==
  ASSUME OrderSound, PlanSound, [Next]_vars PROVE PlanSound'
<1>1. CASE OrderNext /\ UNCHANGED <<planInput, units, pass, ordered, slices, parts, plan>>
  <2>1. ~Begun /\ ~Begun' /\ stage # "packing" /\ stage' # "packing" /\ UNCHANGED <<units, members, bins>>
    BY <1>1 DEF OrderNext, Start, Look, Close, Condense, EmitWave, Ordered, Begun, pass
  <2>. QED
    BY <2>1 DEF PlanSound
<1>2. CASE BeginPlan BY <1>2, BeginPlanInv
<1>3. CASE BeginPass BY <1>3, BeginPassInv
<1>4. CASE TakeGroup BY <1>4, TakeGroupInv
<1>5. CASE AddMember BY <1>5, AddMemberInv
<1>6. CASE PackBin BY <1>6, PackBinInv
<1>7. CASE EndPass BY <1>7, EndPassInv DEF OrderSound
<1>8. CASE EmitLevel \/ Throw \/ LevelsDone \/ EmitFeatures \/ FeaturesOrdered \/ SplitUnit \/ Annotate \/ EndPlan
  <2>1. /\ UNCHANGED <<input, search, units, pass>> /\ size' = size
        /\ stage # "packing" /\ stage' # "packing" /\ Begun /\ Begun'
    BY <1>8 DEF EmitLevel, Throw, LevelsDone, EmitFeatures, FeaturesOrdered, SplitUnit, Annotate, EndPlan,
         inputUnchanged, orderUnchanged, planInput, Begun
  <2>. QED
    BY <2>1, PassStays
<1>9. CASE UNCHANGED vars BY <1>9, PackingRests
<1>. QED
  BY <1>1, <1>2, <1>3, <1>4, <1>5, <1>6, <1>7, <1>8, <1>9 DEF Next, PlanStep

\* The features of the slices are different features; nothing waits before the search is over.
Foreign(s, t) == \A j \in DOMAIN s, k \in DOMAIN t : s[j] # t[k]
Distinct(s) == \A j, k \in DOMAIN s : s[j] = s[k] => j = k

SlicesSound ==
  /\ stage \in Stages
  /\ stage = "search" => outstanding = <<>>
  /\ slices \in Seq(Features) /\ Distinct(slices)
  /\ featureDeps \in [Features -> SUBSET Features] /\ rests \in Nat
  /\ \A m \in Modules : m \notin declared[m]

\* Two lists without repetition, of different elements, make one.
LEMMA Joining ==
  ASSUME NEW S, NEW s \in Seq(S), NEW t \in Seq(S), NEW st, st = s \o t,
         Distinct(s), Distinct(t), Foreign(s, t)
  PROVE  st \in Seq(S) /\ Distinct(st)
<1>1. Len(s) \in Nat /\ Len(t) \in Nat /\ DOMAIN s = 1..Len(s) /\ DOMAIN t = 1..Len(t)
  OBVIOUS
<1>2. st \in Seq(S) /\ Len(st) = Len(s) + Len(t)
      /\ \A k \in 1..Len(st) : st[k] = IF k <= Len(s) THEN s[k] ELSE t[k - Len(s)]
  BY ConcatProperties
<1>3. DOMAIN st = 1..Len(s) + Len(t)
  BY <1>2
<1>4. \A k \in 1..Len(s) + Len(t) : (k <= Len(s) => k \in DOMAIN s) /\ (~(k <= Len(s)) => k - Len(s) \in DOMAIN t)
  BY <1>1
<1>5. \A k \in DOMAIN st : \/ k <= Len(s) /\ k \in DOMAIN s /\ st[k] = s[k]
                           \/ ~(k <= Len(s)) /\ k - Len(s) \in DOMAIN t /\ st[k] = t[k - Len(s)]
  BY <1>2, <1>3, <1>4
<1>6. ASSUME NEW j \in DOMAIN st, NEW k \in DOMAIN st, st[j] = st[k] PROVE j = k
  <2>1. CASE j <= Len(s) /\ k <= Len(s)
    BY <1>5, <1>6, <2>1 DEF Distinct
  <2>2. CASE ~(j <= Len(s)) /\ ~(k <= Len(s))
    <3>1. j - Len(s) = k - Len(s)
      BY <1>5, <1>6, <2>2 DEF Distinct
    <3>. QED
      BY <1>1, <1>3, <3>1
  <2>3. CASE j <= Len(s) /\ ~(k <= Len(s))
    BY <1>5, <1>6, <2>3 DEF Foreign
  <2>4. CASE ~(j <= Len(s)) /\ k <= Len(s)
    BY <1>5, <1>6, <2>4 DEF Foreign
  <2>. QED
    BY <2>1, <2>2, <2>3, <2>4
<1>. QED
  BY <1>2, <1>6 DEF Distinct

\* The features that follow: each once, none that is there already, only ready ones if there are.
LEMMA FeaturesFollow ==
  ASSUME EmitFeatures
  PROVE  \E t \in Seq(Features) :
            /\ slices' = slices \o t /\ Distinct(t) /\ Foreign(slices, t)
            /\ \A k \in DOMAIN t : t[k] \in Waiting /\ (ReadyFeatures # {} => t[k] \in ReadyFeatures)
<1>2. Features \subseteq Nat /\ IsFiniteSet(Features) /\ Waiting \subseteq Features
  BY PlanAssumption DEF Waiting
<1>. PICK ready, ahead : /\ ready = IF ReadyFeatures # {} THEN ReadyFeatures ELSE {Min(Waiting)}
                         /\ ahead = [f \in ready |-> {g \in ready : g < f}]
                         /\ slices' = slices \o InOrder(ahead) /\ Waiting # {}
  BY DEF EmitFeatures
<1>3. ready \in SUBSET Waiting
  <2>1. ReadyFeatures \subseteq Waiting
    BY DEF ReadyFeatures
  <2>2. Min(Waiting) \in Waiting
    <3>1. Waiting \in SUBSET Nat /\ Waiting # {}
      BY <1>2
    <3>. QED
      BY <3>1, MinFacts
  <2>. QED
    BY <2>1, <2>2
<1>4. ready \in SUBSET Nat /\ IsFiniteSet(ready)
  BY <1>2, <1>3, FS_Subset
<1>5. Orders(ahead, ready)
  <2>1. ahead \in [ready -> SUBSET ready]
    OBVIOUS
  <2>2. \A x, y \in ready : x \in ahead[y] <=> x < y
    OBVIOUS
  <2>3. \A x \in ready : x \notin ahead[x]
    BY <1>4, <2>2
  <2>4. \A x, y \in ready : x \in ahead[y] => ahead[x] \subseteq ahead[y]
    <3>1. \A x, y, z \in ready : z < x /\ x < y => z < y
      BY <1>4
    <3>2. \A x \in ready : ahead[x] \subseteq ready
      BY <2>1
    <3>. QED
      BY <2>2, <3>1, <3>2
  <2>5. \A x, y \in ready : x # y => x \in ahead[y] \/ y \in ahead[x]
    BY <1>4, <2>2
  <2>. QED
    BY <2>1, <2>3, <2>4, <2>5 DEF Orders
<1>. PICK t : t = InOrder(ahead)
  OBVIOUS
<1>6. Enumerates(t, ready)
  BY <1>4, <1>5, InOrderFacts
<1>7. t \in Seq(Features)
  <2>1. ready \subseteq Features /\ t \in Seq(ready)
    BY <1>2, <1>3, <1>6 DEF Enumerates
  <2>. QED
    BY <2>1
<1>8. Foreign(slices, t)
  <2>1. \A k \in DOMAIN t : t[k] \in Waiting
    BY <1>3, <1>6 DEF Enumerates
  <2>. QED
    BY <2>1 DEF Waiting, Range, Foreign
<1>9. Distinct(t)
  BY <1>6 DEF Enumerates, Distinct
<1>10. \A k \in DOMAIN t : t[k] \in Waiting /\ (ReadyFeatures # {} => t[k] \in ReadyFeatures)
  BY <1>3, <1>6 DEF Enumerates
<1>. QED
  BY <1>7, <1>8, <1>9, <1>10

LEMMA EmitFeaturesInv ==
  ASSUME SlicesSound, EmitFeatures PROVE SlicesSound'
<1>1. stage = "features" /\ stage' = "features" /\ UNCHANGED <<outstanding, featureDeps, rests>>
  BY DEF EmitFeatures, inputUnchanged, orderUnchanged, planInput
<1>. PICK t \in Seq(Features) : slices' = slices \o t /\ Distinct(t) /\ Foreign(slices, t)
  BY FeaturesFollow
<1>9. slices' \in Seq(Features) /\ Distinct(slices')
  <2>. PICK new : new = slices'
    OBVIOUS
  <2>1. new = slices \o t /\ slices \in Seq(Features) /\ Distinct(slices)
    BY DEF SlicesSound
  <2>3. new \in Seq(Features) /\ Distinct(new)
    BY <2>1, Joining
  <2>. QED
    BY <2>3
<1>. QED
  BY <1>1, <1>9 DEF SlicesSound, Stages, Distinct, EmitFeatures, inputUnchanged, orderUnchanged, input

LEMMA SlicesSoundNext ==
  ASSUME SlicesSound, [Next]_vars PROVE SlicesSound'
<1>1. CASE EmitFeatures BY <1>1, EmitFeaturesInv
<1>2. CASE ~EmitFeatures
  <2>1. slices' = slices
    BY <1>2 DEF Next, PlanStep, BeginPlan, BeginPass, TakeGroup, AddMember, PackBin, EndPass, PassOver,
         EmitLevel, Throw, LevelsDone, FeaturesOrdered, SplitUnit, Annotate, EndPlan, vars
  <2>2. stage' \in Stages /\ (stage' = "search" => stage = "search" /\ UNCHANGED outstanding)
    BY <1>2 DEF Next, OrderNext, Start, Look, Close, Condense, EmitWave, Ordered, SlicesSound,
         PlanStep, BeginPlan, BeginPass, TakeGroup, AddMember, PackBin, EndPass, PassOver,
         EmitLevel, Throw, LevelsDone, FeaturesOrdered, SplitUnit, Annotate, EndPlan, vars, orderVars, Stages
  <2>3. featureDeps' \in [Features -> SUBSET Features] /\ rests' \in Nat
    <3>1. CASE LevelsDone
      BY <3>1, PlanAssumption DEF LevelsDone, SlicesSound
    <3>2. CASE ~LevelsDone
      BY <1>2, <3>2 DEF Next, PlanStep, BeginPlan, BeginPass, TakeGroup, AddMember, PackBin, EndPass, PassOver,
         EmitLevel, Throw, FeaturesOrdered, SplitUnit, Annotate, EndPlan, vars, planInput, inputUnchanged, SlicesSound
    <3>. QED
      BY <3>1, <3>2
  <2>4. declared' = declared
    <3>1. CASE PlanStep
      BY <3>1, PlanStepKeeps DEF input
    <3>2. CASE OrderNext \/ UNCHANGED vars
      BY <3>2 DEF OrderNext, Start, Look, Close, Condense, EmitWave, Ordered, input, vars, orderVars
    <3>. QED
      BY <3>1, <3>2 DEF Next
  <2>. QED
    BY <2>1, <2>2, <2>3, <2>4 DEF SlicesSound, Distinct
<1>. QED
  BY <1>1, <1>2

LEMMA SlicesSoundInit ==
  ASSUME Init PROVE SlicesSound
<1>1. featureDeps \in [Features -> SUBSET Features] /\ rests \in Nat
  BY DEF Init
<1>2. \A m \in Modules : m \notin declared[m]
  BY OrderAssumption DEF Init, OrderInit
<1>. QED
  BY <1>1, <1>2 DEF Init, OrderInit, SlicesSound, Distinct, Stages

LEMMA DistinctLen ==
  ASSUME NEW S, IsFiniteSet(S), NEW s \in Seq(S), Distinct(s)
  PROVE  Range(s) \subseteq S /\ Len(s) <= Cardinality(S)
<1>1. Len(s) \in Nat /\ DOMAIN s = 1..Len(s) /\ \A k \in DOMAIN s : s[k] \in S
  OBVIOUS
<1>2. s \in Injection(1..Len(s), S)
  BY <1>1 DEF Distinct, Injection, IsInjective
<1>3. Cardinality(1..Len(s)) <= Cardinality(S)
  BY <1>1, <1>2, FS_Interval, FS_Injection
<1>4. Cardinality(1..Len(s)) = Len(s)
  BY <1>1, FS_Interval, SMTT(20)
<1>. QED
  BY <1>1, <1>3, <1>4 DEF Range

LEMMA PlanTypes ==
  ASSUME OrderSound, PlanSound, SlicesSound PROVE TypeOK
<1>1. /\ index \in [Modules -> 0..Cardinality(Modules)] /\ low \in [Modules -> 0..Cardinality(Modules)]
      /\ stack \in Seq(Modules) /\ Sorted
  BY DEF OrderSound, SearchSound, SearchType, SearchInv
<1>2. Range(stack) \subseteq Modules /\ {f.node : f \in Range(frames)} \subseteq Range(stack)
  <2>1. Range(stack) \subseteq Modules
    BY <1>1 DEF Range
  <2>2. \A k \in DOMAIN frames : frames[k].node \in Range(stack)
    BY <1>1 DEF Sorted, Node, OnStack
  <2>. QED
    BY <2>1, <2>2 DEF Range
<1>3. DOMAIN outstanding \subseteq DOMAIN sccs /\ Range(outstanding) \subseteq Nat
  <2>1. CASE stage = "search"
    <3>1. DOMAIN outstanding = {}
      BY <2>1 DEF SlicesSound
    <3>. QED
      BY <3>1 DEF Range
  <2>2. CASE stage # "search"
    <3>1. Emitting
      BY <2>2 DEF OrderSound, WaveInv
    <3>2. Pending \subseteq DOMAIN sccs /\ \A i \in Pending : outstanding[i] = Cardinality(Succ(i) \cap Pending)
      BY <3>1 DEF Emitting
    <3>3. \A i \in Pending : outstanding[i] \in Nat
      <4>. TAKE i \in Pending
      <4>1. IsFiniteSet(Succ(i) \cap Pending)
        <5>1. Succ(i) \cap Pending \subseteq DOMAIN sccs /\ IsFiniteSet(DOMAIN sccs)
          BY <3>2, SccFacts DEF OrderSound
        <5>. QED
          BY <5>1, FS_Subset
      <4>. QED
        BY <3>2, <4>1, FS_CardinalityType
    <3>. QED
      BY <3>2, <3>3 DEF Pending, Range
  <2>. QED
    BY <2>1, <2>2
<1>4. units \subseteq SUBSET Modules
  BY DEF PlanSound, Shared, UnitSets
<1>5. members \subseteq units /\ \A k \in DOMAIN bins : bins[k] \subseteq units
  BY DEF PlanSound
<1>6. Range(slices) \subseteq Features /\ Len(slices) <= Cardinality(Features)
  BY PlanAssumption, DistinctLen DEF SlicesSound
<1>7. stage \in Stages
  BY DEF SlicesSound
<1>. QED
  BY <1>1, <1>2, <1>3, <1>4, <1>5, <1>6, <1>7 DEF TypeOK

\* At every point of the merging, the units share out the modules, none lost and none in two
\* units; no merge exceeds the maximum; and no unit mixes the dev-only track with the product
\* (unit-planning.ts:379-508).
THEOREM UnitsAreSound == Spec => []UnitsSound
<1>1. Init => OrderSound /\ PlanSound /\ SlicesSound
  BY OrderInvInit, PlanSoundInit, SlicesSoundInit
<1>2. OrderSound /\ PlanSound /\ SlicesSound /\ [Next]_vars => (OrderSound /\ PlanSound /\ SlicesSound)'
  BY OrderInvNext, PlanSoundNext, SlicesSoundNext
<1>3. OrderSound /\ PlanSound /\ SlicesSound => UnitsSound
  <2>. SUFFICES ASSUME OrderSound, PlanSound, SlicesSound PROVE UnitsSound
    OBVIOUS
  <2>1. TypeOK
    BY PlanTypes
  <2>2. ASSUME Begun, NEW m \in Modules PROVE Cardinality({u \in units : m \in u}) = 1
    <3>1. Shared
      BY <2>2 DEF PlanSound
    <3>. PICK u \in units : m \in u
      BY <3>1 DEF Shared
    <3>. PICK S : S = {v \in units : m \in v}
      OBVIOUS
    <3>2. S = {u}
      BY <3>1 DEF Shared
    <3>3. Cardinality(S) = 1
      BY <3>2, FS_Singleton
    <3>. QED
      BY <3>3
  <2>3. ASSUME Begun, NEW u \in units \ Components
        PROVE  /\ Size(u) <= MaxUnit
               /\ u = UNION Within(u)
               /\ \A c, d \in Within(u) : DevOnlyUnit(c) = DevOnlyUnit(d)
    BY <2>3 DEF PlanSound, Assembled
  <2>. QED
    BY <2>1, <2>2, <2>3 DEF UnitsSound
<1>. QED
  BY <1>1, <1>2, <1>3, PTL DEF Spec

----------------------------------------------------------------------------
(* The invariant of the laying out.  The units are put in order, those that*)
(* depend on none that is left first; then each is split into parts, and   *)
(* each part is given its dependencies among the parts before it.          *)

\* The units that are split into parts.
Split == {parts[i].modules : i \in DOMAIN parts}

\* Each stage begins when the one before it is over.
Staged ==
  /\ stage \in {"search", "waves", "ordered", "pass", "packing"} => ordered = <<>>
  /\ stage \in {"search", "waves", "ordered", "pass", "packing", "levels"} => slices = <<>>
  /\ stage \in {"search", "waves", "ordered", "pass", "packing", "levels", "features"} => parts = <<>>
  /\ ordered # <<>> \/ stage \notin {"split", "done"} => plan = <<>>
  /\ stage \in {"features", "split", "done"} => units = Split \cup Range(ordered)
  /\ stage \in {"split", "done"} /\ Oversized # {} => Range(slices) = Features
  /\ stage = "done" => ordered = <<>> /\ Len(plan) = Len(parts)

\* A unit comes after all it depends on.
Topological ==
  /\ ordered \in Seq(units) /\ Distinct(ordered)
  /\ \A k \in DOMAIN ordered :
        ordered[k] \notin Split /\ Deps(ordered[k]) \subseteq Split \cup {ordered[j] : j \in 1..k - 1}

\* A feature comes after all it depends on, when it can.
Ranked ==
  AcyclicFeatures =>
    \A k \in DOMAIN slices : featureDeps[slices[k]] \subseteq {slices[j] : j \in 1..k}

Part == [modules : units, slice : Int]

\* A part comes after all it depends on.
PartsLaid ==
  /\ parts \in Seq(Part)
  /\ \A u \in Split : Deps(u) \subseteq Split
  /\ \A i, j \in DOMAIN parts : parts[i] = parts[j] => i = j
  /\ \A i \in DOMAIN parts : parts[i].slice # 0 =>
        /\ parts[i].modules \in Oversized
        /\ \A f \in Features : \E j \in DOMAIN parts : parts[j] = [modules |-> parts[i].modules, slice |-> f]
  /\ \A i, j \in DOMAIN parts :
        /\ i # j /\ PartDependsOn(parts[i], parts[j])
        /\ parts[i].slice <= 0 \/ parts[i].modules # parts[j].modules \/ AcyclicFeatures
        => j < i

Task == [modules : units, slice : Int, dependsOn : SUBSET Nat, wave : Nat]
PlanLaid ==
  /\ plan \in Seq(Task) /\ Len(plan) <= Len(parts)
  /\ \A k \in DOMAIN plan :
        /\ plan[k].modules = parts[k].modules /\ plan[k].slice = parts[k].slice
        /\ plan[k].dependsOn = {j \in 1..k - 1 : PartDependsOn(parts[k], parts[j])}
        /\ \A j \in plan[k].dependsOn : plan[j].wave < plan[k].wave

LaidSound == Staged /\ Topological /\ Ranked /\ PartsLaid /\ PlanLaid

LEMMA LaidFacts ==
  ASSUME UNCHANGED <<declared, devOnly, units, size, sccs, featureDeps, slices, parts>>
  PROVE  /\ \A u : Deps(u)' = Deps(u)
         /\ Oversized' = Oversized /\ Split' = Split /\ (AcyclicFeatures' <=> AcyclicFeatures)
         /\ \A a, b : PartDependsOn(a, b)' <=> PartDependsOn(a, b)
         /\ Ranked' <=> Ranked
         /\ PartsLaid => PartsLaid'
<1>1. (\A u : Deps(u)' = Deps(u)) /\ \A u : Size(u)' = Size(u)
  BY UnitsStay
<1>2. Oversized' = Oversized
  BY <1>1 DEF Oversized
<1>3. Split' = Split
  BY DEF Split
<1>4. AcyclicFeatures' <=> AcyclicFeatures
  BY DEF AcyclicFeatures
<1>5. \A a, b : PartDependsOn(a, b)' <=> PartDependsOn(a, b)
  BY DEF PartDependsOn, SiblingDependsOn
<1>6. Ranked' <=> Ranked
  BY <1>4 DEF Ranked
<1>7. PartsLaid => PartsLaid'
  <2>. SUFFICES ASSUME PartsLaid PROVE PartsLaid'
    OBVIOUS
  <2>1. parts' \in Seq(Part') /\ \A i, j \in DOMAIN parts' : parts'[i] = parts'[j] => i = j
    BY DEF PartsLaid, Part
  <2>2. \A u \in Split' : Deps(u)' \subseteq Split'
    BY <1>1, <1>3 DEF PartsLaid
  <2>3. \A i \in DOMAIN parts' : parts'[i].slice # 0 =>
          /\ parts'[i].modules \in Oversized'
          /\ \A f \in Features : \E j \in DOMAIN parts' : parts'[j] = [modules |-> parts'[i].modules, slice |-> f]
    BY <1>2 DEF PartsLaid
  <2>4. \A i, j \in DOMAIN parts' :
          /\ i # j /\ PartDependsOn(parts[i], parts[j])'
          /\ parts'[i].slice <= 0 \/ parts'[i].modules # parts'[j].modules \/ AcyclicFeatures'
          => j < i
    <3>. SUFFICES ASSUME NEW i \in DOMAIN parts, NEW j \in DOMAIN parts, i # j, PartDependsOn(parts[i], parts[j])',
                         parts[i].slice <= 0 \/ parts[i].modules # parts[j].modules \/ AcyclicFeatures
                  PROVE  j < i
      BY <1>4
    <3>1. PartDependsOn(parts[i], parts[j])
      BY DEF PartDependsOn, SiblingDependsOn
    <3>. QED
      BY <3>1 DEF PartsLaid
  <2>. QED
    BY <2>1, <2>2, <2>3, <2>4 DEF PartsLaid
<1>. QED
  BY <1>1, <1>2, <1>3, <1>4, <1>5, <1>6, <1>7

\* Nothing is laid out yet.
LEMMA NothingLaid ==
  ASSUME stage' \notin {"features", "split", "done"},
         ordered' = <<>> /\ slices' = <<>> /\ parts' = <<>> /\ plan' = <<>>
  PROVE  LaidSound'
<1>1. Staged'
  BY DEF Staged
<1>2. DOMAIN ordered' = {} /\ DOMAIN slices' = {} /\ DOMAIN parts' = {} /\ DOMAIN plan' = {}
      /\ Len(plan') = 0 /\ Len(parts') = 0
  OBVIOUS
<1>3. ordered' \in Seq(units') /\ Topological'
  BY <1>2 DEF Topological, Distinct
<1>4. Ranked'
  BY <1>2 DEF Ranked
<1>5. Split' = {}
  BY <1>2 DEF Split
<1>6. PartsLaid'
  <2>1. parts' \in Seq(Part')
    OBVIOUS
  <2>. QED
    BY <1>2, <1>5, <2>1 DEF PartsLaid
<1>7. PlanLaid'
  <2>1. plan' \in Seq(Task')
    OBVIOUS
  <2>2. Len(plan') <= Len(parts')
    BY <1>2
  <2>. QED
    BY <1>2, <2>1, <2>2 DEF PlanLaid
<1>. QED
  BY <1>1, <1>3, <1>4, <1>6, <1>7 DEF LaidSound

LEMMA TopologicalStays ==
  ASSUME Topological, UNCHANGED <<declared, devOnly, units, size, sccs, ordered, parts>>
  PROVE  Topological'
<1>1. (\A u : Deps(u)' = Deps(u)) /\ Split' = Split
  BY UnitsStay DEF Split
<1>2. \A k \in DOMAIN ordered' :
        ordered'[k] \notin Split' /\ Deps(ordered[k])' \subseteq Split' \cup {ordered'[j] : j \in 1..k - 1}
  <2>. TAKE k \in DOMAIN ordered'
  <2>. PICK u : u = ordered[k]
    OBVIOUS
  <2>1. u \notin Split /\ Deps(u) \subseteq Split \cup {ordered[j] : j \in 1..k - 1}
    BY DEF Topological
  <2>2. Deps(ordered[k])' = Deps(u)'
    BY DEF Deps
  <2>. QED
    BY <1>1, <2>1, <2>2
<1>. QED
  BY <1>2 DEF Topological, Distinct

\* A step that lays out nothing.
LEMMA LayingRests ==
  ASSUME LaidSound, UNCHANGED <<declared, devOnly, units, size, sccs, featureDeps, ordered, slices, parts, plan>>,
         Staged'
  PROVE  LaidSound'
<1>1. Topological'
  BY TopologicalStays DEF LaidSound
<1>2. Ranked' /\ PartsLaid'
  BY LaidFacts DEF LaidSound
<1>3. PlanLaid'
  <2>1. plan' \in Seq(Task') /\ Len(plan') <= Len(parts')
    BY DEF LaidSound, PlanLaid, Task
  <2>2. \A k \in DOMAIN plan' :
          /\ plan'[k].modules = parts'[k].modules /\ plan'[k].slice = parts'[k].slice
          /\ plan'[k].dependsOn = {j \in 1..k - 1 : PartDependsOn(parts[k], parts[j])'}
          /\ \A j \in plan'[k].dependsOn : plan'[j].wave < plan'[k].wave
    <3>. TAKE k \in DOMAIN plan'
    <3>1. \A j : PartDependsOn(parts[k], parts[j])' <=> PartDependsOn(parts[k], parts[j])
      BY DEF PartDependsOn, SiblingDependsOn
    <3>. QED
      BY <3>1 DEF LaidSound, PlanLaid
  <2>. QED
    BY <2>1, <2>2 DEF PlanLaid
<1>. QED
  BY <1>1, <1>2, <1>3 DEF LaidSound

----------------------------------------------------------------------------
(* Steps of the laying out: levels of units and of features.               *)

JoinOf(st, s, t) ==
  /\ \A k \in DOMAIN s : k \in DOMAIN st /\ st[k] = s[k]
  /\ \A k \in DOMAIN t : k + Len(s) \in DOMAIN st /\ st[k + Len(s)] = t[k]
  /\ \A k \in DOMAIN st : \/ k \in DOMAIN s /\ st[k] = s[k]
                          \/ k \notin DOMAIN s /\ Len(s) < k /\ k - Len(s) \in DOMAIN t /\ st[k] = t[k - Len(s)]

LEMMA ConcatFacts ==
  ASSUME NEW S, NEW s \in Seq(S), NEW t \in Seq(S), NEW st, st = s \o t
  PROVE  /\ st \in Seq(S) /\ Len(s) \in Nat /\ DOMAIN s = 1..Len(s) /\ Len(t) \in Nat /\ DOMAIN t = 1..Len(t)
         /\ DOMAIN st = 1..Len(s) + Len(t) /\ Len(st) = Len(s) + Len(t)
         /\ JoinOf(st, s, t)
<1>1. Len(s) \in Nat /\ Len(t) \in Nat /\ DOMAIN s = 1..Len(s) /\ DOMAIN t = 1..Len(t)
  OBVIOUS
<1>2. st \in Seq(S) /\ Len(st) = Len(s) + Len(t)
      /\ \A k \in 1..Len(st) : st[k] = IF k <= Len(s) THEN s[k] ELSE t[k - Len(s)]
  BY ConcatProperties
<1>3. DOMAIN st = 1..Len(s) + Len(t)
  BY <1>2
<1>4. \A k \in 1..Len(s) + Len(t) :
         \/ k <= Len(s) /\ k \in 1..Len(s)
         \/ ~(k <= Len(s)) /\ k \notin 1..Len(s) /\ Len(s) < k /\ k - Len(s) \in 1..Len(t)
  BY <1>1
<1>5. \A k \in DOMAIN st : \/ k \in DOMAIN s /\ st[k] = s[k]
                           \/ k \notin DOMAIN s /\ Len(s) < k /\ k - Len(s) \in DOMAIN t /\ st[k] = t[k - Len(s)]
  BY <1>1, <1>2, <1>3, <1>4
<1>6. \A k \in DOMAIN s : k \in DOMAIN st /\ st[k] = s[k]
  <2>1. \A k \in 1..Len(s) : k \in 1..Len(s) + Len(t) /\ k <= Len(s)
    BY <1>1
  <2>. QED
    BY <1>1, <1>2, <1>3, <2>1
<1>7. \A k \in DOMAIN t : k + Len(s) \in DOMAIN st /\ st[k + Len(s)] = t[k]
  <2>1. \A k \in 1..Len(t) : k + Len(s) \in 1..Len(s) + Len(t) /\ ~(k + Len(s) <= Len(s)) /\ k + Len(s) - Len(s) = k
    BY <1>1
  <2>. QED
    BY <1>1, <1>2, <1>3, <2>1
<1>. QED
  BY <1>1, <1>2, <1>3, <1>5, <1>6, <1>7 DEF JoinOf

\* What comes before a place in a sequence, or up to it.
Ahead(s, k) == {s[j] : j \in 1..k - 1}
UpTo(s, k) == {s[j] : j \in 1..k}

LEMMA AheadFacts ==
  ASSUME NEW S, NEW s \in Seq(S), NEW t \in Seq(S), NEW st, st = s \o t
  PROVE  /\ \A k \in DOMAIN s : Ahead(s, k) \subseteq Ahead(st, k) /\ UpTo(s, k) \subseteq UpTo(st, k)
         /\ \A k \in DOMAIN st : k \notin DOMAIN s => Range(s) \subseteq Ahead(st, k)
         /\ Range(st) = Range(s) \cup Range(t)
<1>1. /\ Len(s) \in Nat /\ DOMAIN s = 1..Len(s) /\ Len(t) \in Nat
      /\ \A k \in DOMAIN s : k \in DOMAIN st /\ st[k] = s[k]
      /\ \A k \in DOMAIN t : k + Len(s) \in DOMAIN st /\ st[k + Len(s)] = t[k]
      /\ \A k \in DOMAIN st : \/ k \in DOMAIN s /\ st[k] = s[k]
                              \/ k \notin DOMAIN s /\ Len(s) < k /\ k - Len(s) \in DOMAIN t /\ st[k] = t[k - Len(s)]
      /\ DOMAIN st = 1..Len(s) + Len(t)
  BY ConcatFacts, SMTT(20) DEF JoinOf
<1>2. ASSUME NEW k \in DOMAIN s PROVE Ahead(s, k) \subseteq Ahead(st, k) /\ UpTo(s, k) \subseteq UpTo(st, k)
  <2>1. \A j \in 1..k - 1 : j \in DOMAIN s
    BY <1>1
  <2>2. \A j \in 1..k : j \in DOMAIN s
    BY <1>1
  <2>. QED
    BY <1>1, <2>1, <2>2 DEF Ahead, UpTo
<1>3. ASSUME NEW k \in DOMAIN st, k \notin DOMAIN s PROVE Range(s) \subseteq Ahead(st, k)
  <2>1. Len(s) < k /\ k \in 1..Len(s) + Len(t)
    BY <1>1, <1>3
  <2>2. \A j \in 1..Len(s) : j \in 1..k - 1
    BY <1>1, <2>1
  <2>. QED
    BY <1>1, <2>2 DEF Ahead, Range
<1>4. Range(st) = Range(s) \cup Range(t)
  <2>1. \A x \in Range(st) : x \in Range(s) \/ x \in Range(t)
    BY <1>1 DEF Range
  <2>2. \A x \in Range(s) : x \in Range(st)
    BY <1>1 DEF Range
  <2>3. \A x \in Range(t) : x \in Range(st)
    <3>. TAKE x \in Range(t)
    <3>. PICK k \in DOMAIN t : x = t[k]
      BY DEF Range
    <3>1. k + Len(s) \in DOMAIN st /\ st[k + Len(s)] = x
      BY <1>1
    <3>. QED
      BY <3>1 DEF Range
  <2>. QED
    BY <2>1, <2>2, <2>3
<1>. QED
  BY <1>2, <1>3, <1>4

\* The units of a level, in order, each once.
LEMMA ReadyInOrder ==
  ASSUME Shared
  PROVE  Enumerates(InOrder([u \in Ready |-> {v \in Ready : Before(v, u)}]), Ready)
<1>. PICK S, f, ahead : /\ S = Ready /\ f = [u \in S |-> u]
                        /\ ahead = [u \in Ready |-> {v \in Ready : Before(v, u)}]
  OBVIOUS
<1>1. S \in SUBSET units
  BY DEF Ready
<1>2. f \in [S -> UnitSets] /\ \A x, y \in S : x # y => f[x] \cap f[y] = {}
  BY <1>1 DEF Shared, UnitSets
<1>3. ahead = [x \in S |-> {y \in S : Before(f[y], f[x])}]
  OBVIOUS
<1>4. Orders(ahead, S)
  BY <1>2, <1>3, UnitsOrdered
<1>5. IsFiniteSet(S)
  BY <1>1, UnitFacts
<1>. QED
  BY <1>4, <1>5, InOrderFacts

LEMMA EmitLevelInv ==
  ASSUME PlanSound, LaidSound, EmitLevel PROVE LaidSound'
<1>1. /\ stage = "levels" /\ stage' = "levels" /\ inputUnchanged /\ UNCHANGED <<units, pass, slices, parts, plan>>
  BY DEF EmitLevel
<1>2. UNCHANGED <<declared, devOnly, units, size, sccs, featureDeps, slices, parts, plan>> /\ Shared
  BY <1>1 DEF inputUnchanged, orderUnchanged, planInput, input, search, PlanSound, Begun
<1>3. slices = <<>> /\ parts = <<>> /\ plan = <<>> /\ Split = {}
  BY <1>1 DEF LaidSound, Staged, Split
<1>. PICK t : t = InOrder([u \in Ready |-> {v \in Ready : Before(v, u)}]) /\ ordered' = ordered \o t
  BY DEF EmitLevel
<1>4. Enumerates(t, Ready)
  BY <1>2, ReadyInOrder
<1>5. ordered \in Seq(units) /\ Distinct(ordered) /\ Ready \subseteq units
  BY DEF LaidSound, Topological, Ready
<1>6. t \in Seq(units) /\ Distinct(t) /\ \A k \in DOMAIN t : t[k] \in Ready
  <2>1. t \in Seq(Ready) /\ \A k \in DOMAIN t : t[k] \in Ready
    BY <1>4 DEF Enumerates
  <2>2. t \in Seq(units)
    BY <1>5, <2>1
  <2>. QED
    BY <1>4, <2>1, <2>2 DEF Enumerates, Distinct
<1>. PICK new : new = ordered'
  OBVIOUS
<1>7. Foreign(ordered, t)
  BY <1>6 DEF Foreign, Ready, Emitted, Range
<1>8. new \in Seq(units) /\ Distinct(new)
  BY <1>5, <1>6, <1>7, Joining
<1>9. /\ \A k \in DOMAIN ordered : Ahead(ordered, k) \subseteq Ahead(new, k)
      /\ \A k \in DOMAIN new : k \notin DOMAIN ordered => Range(ordered) \subseteq Ahead(new, k)
      /\ \A k \in DOMAIN new : \/ k \in DOMAIN ordered /\ new[k] = ordered[k]
                               \/ k \notin DOMAIN ordered /\ k - Len(ordered) \in DOMAIN t /\ new[k] = t[k - Len(ordered)]
  <2>1. ordered \in Seq(units) /\ t \in Seq(units) /\ new = ordered \o t
    BY <1>5, <1>6
  <2>2. /\ \A k \in DOMAIN ordered : Ahead(ordered, k) \subseteq Ahead(new, k)
        /\ \A k \in DOMAIN new : k \notin DOMAIN ordered => Range(ordered) \subseteq Ahead(new, k)
    BY <2>1, AheadFacts
  <2>3. JoinOf(new, ordered, t)
    BY <2>1, ConcatFacts
  <2>. QED
    BY <2>2, <2>3 DEF JoinOf
<1>10. \A k \in DOMAIN new : Deps(new[k]) \subseteq Ahead(new, k)
  <2>. TAKE k \in DOMAIN new
  <2>1. CASE k \in DOMAIN ordered
    <3>1. Deps(ordered[k]) \subseteq Ahead(ordered, k)
      BY <1>3, <2>1 DEF LaidSound, Topological, Ahead
    <3>. QED
      BY <1>9, <2>1, <3>1
  <2>2. CASE k \notin DOMAIN ordered
    <3>1. new[k] \in Ready
      BY <1>6, <1>9, <2>2
    <3>. QED
      BY <1>9, <2>2, <3>1 DEF Ready, Emitted
  <2>. QED
    BY <2>1, <2>2
<1>11. (\A u : Deps(u)' = Deps(u)) /\ Split' = Split /\ Ranked' /\ PartsLaid'
  BY <1>2, LaidFacts DEF LaidSound
<1>12. Topological'
  <2>1. \A k \in DOMAIN ordered' :
          ordered'[k] \notin Split' /\ Deps(ordered[k])' \subseteq Split' \cup {ordered'[j] : j \in 1..k - 1}
    <3>. TAKE k \in DOMAIN ordered'
    <3>. PICK u : u = ordered'[k]
      OBVIOUS
    <3>0. \A x \in Deps(u) : \E j \in 1..k - 1 : new[j] = x
      BY <1>10 DEF Ahead
    <3>1. Deps(u) \subseteq {ordered'[j] : j \in 1..k - 1}
      BY <3>0
    <3>2. Deps(ordered[k])' = Deps(u)'
      BY DEF Deps
    <3>3. Deps(u)' = Deps(u) /\ Split' = {}
      BY <1>3, <1>11
    <3>. QED
      BY <3>1, <3>2, <3>3
  <2>2. ordered' \in Seq(units') /\ Distinct(ordered')
    BY <1>2, <1>8
  <2>. QED
    BY <2>1, <2>2 DEF Topological, Distinct
<1>13. PlanLaid'
  <2>1. plan' \in Seq(Task') /\ DOMAIN plan' = {} /\ Len(plan') <= Len(parts')
    BY <1>2, <1>3
  <2>. QED
    BY <2>1 DEF PlanLaid
<1>14. Staged'
  BY <1>1, <1>2, <1>3 DEF Staged
<1>. QED
  BY <1>11, <1>12, <1>13, <1>14 DEF LaidSound

\* In a finite graph, from a set each of whose nodes has a successor in it, a cycle is reached.
LEMMA CycleIn ==
  ASSUME NEW N, IsFiniteSet(N), NEW g \in [N -> SUBSET N], NEW W \in SUBSET N, W # {},
         \A x \in W : g[x] \cap W # {}
  PROVE  \E x \in W : x \in Reach(g, x)
<1>. DEFINE B == {Cardinality(Reach(g, x)) : x \in W}
<1>1. \A x \in W : Reach(g, x) \in SUBSET N /\ IsFiniteSet(Reach(g, x)) /\ Cardinality(Reach(g, x)) \in Nat
  <2>. TAKE x \in W
  <2>1. Reach(g, x) \in SUBSET N
    BY ReachFacts
  <2>. QED
    BY <2>1, FS_Subset, FS_CardinalityType
<1>2. B \in SUBSET Nat /\ B # {}
  BY <1>1
<1>. PICK n \in B : \A m \in B : n <= m
  <2>. HIDE DEF B
  <2>. QED
    BY <1>2, MinFacts
<1>. PICK x \in W : Cardinality(Reach(g, x)) = n
  OBVIOUS
<1>. PICK y \in W : y \in g[x]
  OBVIOUS
<1>3. y \in Reach(g, x) /\ Reach(g, y) \subseteq Reach(g, x)
  BY ReachFacts, ReachTransitive
<1>4. n <= Cardinality(Reach(g, y))
  <2>1. Cardinality(Reach(g, y)) \in B
    OBVIOUS
  <2>. HIDE DEF B
  <2>. QED
    BY <2>1
<1>5. Reach(g, y) = Reach(g, x)
  <2>. PICK P, Q : P = Reach(g, x) /\ Q = Reach(g, y)
    OBVIOUS
  <2>1. IsFiniteSet(P) /\ Q \in SUBSET P /\ Cardinality(P) = n /\ n <= Cardinality(Q)
        /\ Cardinality(P) \in Nat /\ Cardinality(Q) \in Nat
    BY <1>1, <1>3, <1>4
  <2>2. Cardinality(Q) <= Cardinality(P) /\ (Cardinality(P) = Cardinality(Q) => P = Q)
    BY <2>1, FS_Subset
  <2>3. Cardinality(P) = Cardinality(Q)
    BY <2>1, <2>2
  <2>. QED
    BY <2>2, <2>3
<1>. QED
  BY <1>3, <1>5

LEMMA EmitFeaturesLaid ==
  ASSUME PlanSound, SlicesSound, LaidSound, EmitFeatures PROVE LaidSound'
<1>1. /\ stage = "features" /\ stage' = "features" /\ inputUnchanged /\ UNCHANGED <<units, pass, ordered, parts, plan>>
  BY DEF EmitFeatures
<1>2. UNCHANGED <<declared, devOnly, units, size, sccs, featureDeps, ordered, parts, plan>>
  BY <1>1 DEF inputUnchanged, orderUnchanged, planInput, input, search
<1>3. parts = <<>> /\ plan = <<>> /\ Split = {} /\ units = Split \cup Range(ordered)
  BY <1>1 DEF LaidSound, Staged, Split
<1>. PICK t \in Seq(Features) :
        /\ slices' = slices \o t /\ Distinct(t) /\ Foreign(slices, t)
        /\ \A k \in DOMAIN t : t[k] \in Waiting /\ (ReadyFeatures # {} => t[k] \in ReadyFeatures)
  BY FeaturesFollow
<1>. PICK new : new = slices'
  OBVIOUS
<1>4. slices \in Seq(Features) /\ new = slices \o t /\ featureDeps \in [Features -> SUBSET Features]
  BY DEF SlicesSound
<1>5. JoinOf(new, slices, t) /\ DOMAIN slices \subseteq DOMAIN new
  BY <1>4, ConcatFacts DEF JoinOf
<1>6. /\ \A k \in DOMAIN slices : UpTo(slices, k) \subseteq UpTo(new, k)
      /\ \A k \in DOMAIN new : k \notin DOMAIN slices => Range(slices) \subseteq Ahead(new, k)
  BY <1>4, AheadFacts
<1>7. AcyclicFeatures => ReadyFeatures # {}
  <2>. SUFFICES ASSUME AcyclicFeatures, ReadyFeatures = {} PROVE FALSE
    OBVIOUS
  <2>. PICK g : g = [f \in Features |-> featureDeps[f] \ {f}]
    OBVIOUS
  <2>1. g \in [Features -> SUBSET Features] /\ IsFiniteSet(Features)
    BY <1>4, PlanAssumption
  <2>2. Waiting \in SUBSET Features /\ Waiting # {}
    BY DEF Waiting, EmitFeatures
  <2>3. \A f \in Waiting : g[f] \cap Waiting # {}
    BY <2>2 DEF ReadyFeatures
  <2>4. \E f \in Waiting : f \in Reach(g, f)
    BY <2>1, <2>2, <2>3, CycleIn
  <2>5. \A f \in Features : f \notin Reach(g, f)
    BY DEF AcyclicFeatures
  <2>. QED
    BY <2>2, <2>4, <2>5
<1>8. ASSUME AcyclicFeatures, NEW k \in DOMAIN new PROVE featureDeps[new[k]] \subseteq UpTo(new, k)
  <2>1. CASE k \in DOMAIN slices
    <3>1. featureDeps[slices[k]] \subseteq UpTo(slices, k)
      BY <1>8, <2>1 DEF LaidSound, Ranked, UpTo
    <3>2. new[k] = slices[k]
      BY <1>5, <2>1 DEF JoinOf
    <3>. QED
      BY <1>6, <2>1, <3>1, <3>2
  <2>2. CASE k \notin DOMAIN slices
    <3>1. k - Len(slices) \in DOMAIN t /\ new[k] = t[k - Len(slices)]
      BY <1>5, <2>2 DEF JoinOf
    <3>2. new[k] \in ReadyFeatures /\ new[k] \in Features
      BY <1>7, <1>8, <3>1 DEF Waiting
    <3>3. featureDeps[new[k]] \subseteq Range(slices) \cup {new[k]}
      BY <1>4, <3>2 DEF ReadyFeatures, Waiting
    <3>4. Ahead(new, k) \subseteq UpTo(new, k) /\ new[k] \in UpTo(new, k)
      <4>1. DOMAIN new = 1..Len(slices) + Len(t) /\ Len(slices) \in Nat /\ Len(t) \in Nat
        BY <1>4, ConcatFacts
      <4>2. k \in 1..k /\ \A j \in 1..k - 1 : j \in 1..k
        BY <4>1
      <4>. QED
        BY <4>2 DEF Ahead, UpTo
    <3>. QED
      BY <1>6, <2>2, <3>3, <3>4
  <2>. QED
    BY <2>1, <2>2
<1>9. Ranked'
  <2>1. AcyclicFeatures' <=> AcyclicFeatures
    BY <1>2 DEF AcyclicFeatures
  <2>2. ASSUME AcyclicFeatures, NEW k \in DOMAIN new PROVE featureDeps'[slices'[k]] \subseteq {slices'[j] : j \in 1..k}
    <3>0. \A x \in featureDeps[new[k]] : \E j \in 1..k : new[j] = x
      BY <1>8, <2>2 DEF UpTo
    <3>. QED
      BY <1>2, <3>0
  <2>. QED
    BY <2>1, <2>2 DEF Ranked
<1>10. Topological'
  BY <1>2, TopologicalStays DEF LaidSound
<1>11. DOMAIN parts' = {} /\ DOMAIN plan' = {} /\ Split' = {} /\ Len(plan') = 0 /\ Len(parts') = 0
  BY <1>2, <1>3 DEF Split
<1>12. PartsLaid'
  <2>1. parts' \in Seq(Part')
    BY <1>2, <1>3
  <2>. QED
    BY <1>11, <2>1 DEF PartsLaid
<1>13. PlanLaid'
  <2>1. plan' \in Seq(Task') /\ Len(plan') <= Len(parts')
    BY <1>2, <1>3, <1>11
  <2>. QED
    BY <1>11, <2>1 DEF PlanLaid
<1>14. Staged'
  BY <1>1, <1>2, <1>3, <1>11 DEF Staged
<1>. QED
  BY <1>9, <1>10, <1>12, <1>13, <1>14 DEF LaidSound

\* From the levels to the features, or to the split.
LEMMA LevelsDoneLaid ==
  ASSUME PlanSound, LaidSound, LevelsDone PROVE LaidSound'
<1>1. /\ stage = "levels" /\ Emitted = units /\ UNCHANGED <<declared, devOnly, units, size, sccs, ordered, slices, parts, plan>>
      /\ \/ Oversized = {} /\ stage' = "split"
         \/ Oversized # {} /\ stage' = "features"
  BY DEF LevelsDone, orderUnchanged, input, search
<1>2. parts = <<>> /\ plan = <<>> /\ slices = <<>> /\ Split = {}
  BY <1>1 DEF LaidSound, Staged, Split
<1>3. Topological'
  BY <1>1, TopologicalStays DEF LaidSound
<1>4. DOMAIN parts' = {} /\ DOMAIN plan' = {} /\ DOMAIN slices' = {} /\ Split' = {} /\ Len(plan') = 0 /\ Len(parts') = 0
  BY <1>1, <1>2 DEF Split
<1>5. PartsLaid'
  <2>1. parts' \in Seq(Part')
    BY <1>1, <1>2
  <2>. QED
    BY <1>4, <2>1 DEF PartsLaid
<1>6. PlanLaid'
  <2>1. plan' \in Seq(Task') /\ Len(plan') <= Len(parts')
    BY <1>1, <1>2, <1>4
  <2>. QED
    BY <1>4, <2>1 DEF PlanLaid
<1>7. Oversized' = Oversized
  BY <1>1, UnitsStay DEF Oversized
<1>8. Staged'
  BY <1>1, <1>2, <1>4, <1>7 DEF Staged, Emitted
<1>. QED
  BY <1>3, <1>4, <1>5, <1>6, <1>8 DEF LaidSound, Ranked

LEMMA RestingLaid ==
  ASSUME SlicesSound, LaidSound, FeaturesOrdered \/ Throw \/ EndPlan \/ UNCHANGED vars PROVE LaidSound'
<1>1. /\ UNCHANGED <<declared, devOnly, units, size, sccs, featureDeps, ordered, slices, parts, plan>>
      /\ \/ stage = "features" /\ stage' = "split" /\ Waiting = {}
         \/ stage = "levels" /\ stage' = "thrown"
         \/ stage = "split" /\ stage' = "done" /\ ordered = <<>> /\ Len(plan) = Len(parts)
         \/ stage' = stage
  BY DEF FeaturesOrdered, Throw, EndPlan, vars, orderVars, inputUnchanged, orderUnchanged, planInput, input, search
<1>2. Oversized' = Oversized /\ Split' = Split
  BY <1>1, LaidFacts
<1>3. Staged'
  <2>1. Staged
    BY DEF LaidSound
  <2>2. CASE stage = "features" /\ stage' = "split" /\ Waiting = {}
    <3>1. Range(slices) = Features
      BY <2>2 DEF Waiting, SlicesSound, Range
    <3>. QED
      BY <1>1, <1>2, <2>1, <2>2, <3>1 DEF Staged
  <2>3. CASE stage = "levels" /\ stage' = "thrown"
    BY <1>1, <1>2, <2>1, <2>3 DEF Staged
  <2>4. CASE stage = "split" /\ stage' = "done" /\ ordered = <<>> /\ Len(plan) = Len(parts)
    BY <1>1, <1>2, <2>1, <2>4 DEF Staged
  <2>5. CASE stage' = stage
    BY <1>1, <1>2, <2>1, <2>5 DEF Staged
  <2>. QED
    BY <1>1, <2>2, <2>3, <2>4, <2>5
<1>. QED
  BY <1>1, <1>3, LayingRests

----------------------------------------------------------------------------
(* Steps of the laying out: splitting a unit.                              *)

\* The parts of one unit.
SlicedWell(s, u) ==
  /\ s \in Seq(Part) /\ 1 \in DOMAIN s
  /\ \A k \in DOMAIN s : s[k].modules = u
  /\ \A j, k \in DOMAIN s : s[j] = s[k] => j = k
  /\ \A k \in DOMAIN s : s[k].slice # 0 =>
        u \in Oversized /\ \A f \in Features : \E j \in DOMAIN s : s[j] = [modules |-> u, slice |-> f]
  /\ \A j, k \in DOMAIN s :
        k # j /\ PartDependsOn(s[k], s[j]) /\ (s[k].slice <= 0 \/ AcyclicFeatures) => j < k

LEMMA SlicedWhole ==
  ASSUME NEW u \in units, NEW s, s = <<[modules |-> u, slice |-> 0]>>
  PROVE  SlicedWell(s, u)
<1>. PICK p : p = [modules |-> u, slice |-> 0]
  OBVIOUS
<1>1. p \in Part /\ p.modules = u /\ p.slice = 0
  BY DEF Part
<1>2. s = <<p>> /\ s \in Seq(Part) /\ DOMAIN s = {1} /\ s[1] = p
  <2>1. s = <<p>>
    OBVIOUS
  <2>2. s \in Seq(Part) /\ Len(s) = 1 /\ s[1] = p
    BY <1>1, <2>1
  <2>3. DOMAIN s = 1..1
    BY <2>2
  <2>4. 1..1 = {1}
    OBVIOUS
  <2>. QED
    BY <2>1, <2>2, <2>3, <2>4
<1>. QED
  BY <1>1, <1>2 DEF SlicedWell

LEMMA SlicedUp ==
  ASSUME SlicesSound, Ranked, PlanSound, Begun, NEW u \in Oversized, Features # {}, Range(slices) = Features,
         NEW s, s = [k \in 1..Len(slices) + rests |->
             [modules |-> u, slice |-> IF k <= Len(slices) THEN slices[k] ELSE Len(slices) - k]]
  PROVE  SlicedWell(s, u)
<1>. PICK n : n = Len(slices)
  OBVIOUS
<1>1. /\ n \in Nat /\ rests \in Nat /\ DOMAIN slices = 1..n /\ Distinct(slices)
      /\ \A k \in 1..n : slices[k] \in Nat /\ slices[k] # 0 /\ slices[k] \in Features
  <2>1. slices \in Seq(Features) /\ rests \in Nat /\ Distinct(slices)
    BY DEF SlicesSound
  <2>2. DOMAIN slices = 1..n /\ n \in Nat /\ \A k \in 1..n : slices[k] \in Features
    BY <2>1
  <2>. QED
    BY <2>1, <2>2, PlanAssumption
<1>2. n # 0
  BY <1>1 DEF Range
<1>3. DOMAIN s = 1..n + rests
  OBVIOUS
<1>4. \A k \in DOMAIN s : s[k] = [modules |-> u, slice |-> IF k <= n THEN slices[k] ELSE n - k]
  OBVIOUS
<1>5. \A k \in DOMAIN s : \/ k \in 1..n /\ s[k] = [modules |-> u, slice |-> slices[k]]
                          \/ n < k /\ k \in Nat /\ s[k] = [modules |-> u, slice |-> n - k]
  <2>1. \A k \in 1..n + rests : (k <= n /\ k \in 1..n) \/ (~(k <= n) /\ n < k /\ k \in Nat)
    BY <1>1
  <2>. QED
    BY <1>3, <1>4, <2>1
<1>. HIDE DEF SlicedWell
<1>6. \A k \in DOMAIN s : \/ k \in 1..n /\ s[k].slice = slices[k] /\ s[k].slice > 0
                          \/ n < k /\ k \in Nat /\ s[k].slice = n - k /\ s[k].slice < 0
  <2>1. \A k \in 1..n : slices[k] > 0
    BY <1>1
  <2>2. \A k \in Nat : n < k => n - k < 0
    BY <1>1
  <2>. QED
    BY <1>5, <2>1, <2>2
<1>7. u \in units
  BY DEF Oversized
<1>8. s \in Seq(Part) /\ 1 \in DOMAIN s
  <2>1. \A k \in DOMAIN s : s[k] \in Part
    <3>1. \A k \in 1..n : slices[k] \in Int
      BY <1>1
    <3>2. \A k \in Nat : n - k \in Int
      BY <1>1
    <3>. QED
      BY <1>5, <1>7, <3>1, <3>2 DEF Part
  <2>2. n + rests \in Nat /\ 1 \in 1..n + rests
    BY <1>1, <1>2
  <2>. PICK N \in Nat : N = n + rests
    BY <2>2
  <2>3. s \in [1..N -> Part]
    BY <1>3, <2>1
  <2>4. \E m \in Nat : s \in [1..m -> Part]
    BY <2>3
  <2>5. s \in Seq(Part)
    BY <2>4, SeqDef, Zenon
  <2>. QED
    BY <1>3, <2>2, <2>5
<1>9. \A k \in DOMAIN s : s[k].modules = u
  BY <1>4
<1>10. \A k \in 1..n : k \in DOMAIN s
  BY <1>1, <1>3
<1>11. ASSUME NEW j \in DOMAIN s, NEW k \in DOMAIN s, s[j].slice = s[k].slice PROVE j = k
  <2>1. CASE j \in 1..n /\ k \in 1..n /\ slices[j] = slices[k]
    BY <1>1, <2>1 DEF Distinct
  <2>2. CASE j \in Nat /\ k \in Nat /\ n - j = n - k
    BY <1>1, <2>2
  <2>3. CASE s[j].slice > 0 /\ s[k].slice < 0 /\ s[j].slice \in Int
    BY <1>11, <2>3
  <2>4. CASE s[j].slice < 0 /\ s[k].slice > 0 /\ s[j].slice \in Int
    BY <1>11, <2>4
  <2>5. s[j].slice \in Int
    <3>1. \A i \in 1..n : slices[i] \in Int
      BY <1>1
    <3>2. \A i \in Nat : n - i \in Int
      BY <1>1
    <3>. QED
      BY <1>6, <3>1, <3>2
  <2>. QED
    BY <1>6, <1>11, <2>1, <2>2, <2>3, <2>4, <2>5
<1>12. \A f \in Features : \E j \in DOMAIN s : s[j] = [modules |-> u, slice |-> f]
  <2>. TAKE f \in Features
  <2>. PICK j \in 1..n : slices[j] = f
    BY <1>1 DEF Range
  <2>1. ~(n < j) /\ j \in DOMAIN s
    BY <1>1, <1>10
  <2>. QED
    BY <1>5, <2>1
<1>13. ASSUME NEW j \in DOMAIN s, NEW k \in DOMAIN s, k # j, PartDependsOn(s[k], s[j]), s[k].slice <= 0 \/ AcyclicFeatures
       PROVE  j < k
  <2>1. ~\E m \in u : declared[m] \cap u # {}
    <3>1. u \in SUBSET Modules /\ IsFiniteSet(u) /\ Cardinality(u) = 1
      BY <1>7, UnitFacts DEF Oversized, PlanSound
    <3>. PICK m : u = {m}
      BY <3>1, FS_Singleton
    <3>2. m \in Modules /\ m \notin declared[m]
      BY <3>1 DEF SlicesSound
    <3>. QED
      BY <3>2
  <2>2. s[j].slice > 0 /\ (s[k].slice > 0 => s[j].slice \in featureDeps[s[k].slice])
    BY <1>9, <1>13, <2>1 DEF PartDependsOn, SiblingDependsOn
  <2>3. j \in 1..n /\ s[j].slice = slices[j]
    <3>1. ~(n < j /\ j \in Nat /\ s[j].slice = n - j /\ s[j].slice < 0)
      BY <1>1, <2>2
    <3>. QED
      BY <1>6, <3>1
  <2>4. CASE n < k /\ k \in Nat
    BY <1>1, <2>3, <2>4
  <2>5. CASE k \in 1..n /\ s[k].slice = slices[k] /\ s[k].slice > 0
    <3>1. AcyclicFeatures
      <4>1. ~(s[k].slice <= 0)
        BY <1>1, <2>5
      <4>. QED
        BY <1>13, <4>1
    <3>2. slices[j] \in featureDeps[slices[k]]
      BY <2>2, <2>3, <2>5
    <3>5. k \in DOMAIN slices /\ k \in 1..n
      BY <1>1, <2>5
    <3>6. featureDeps[slices[k]] \subseteq {slices[i] : i \in 1..k}
      BY <3>1, <3>5 DEF Ranked
    <3>. PICK i \in 1..k : slices[j] = slices[i]
      BY <3>2, <3>6
    <3>3. i \in 1..n
      BY <1>1, <2>5
    <3>4. i = j
      BY <1>1, <2>3, <3>3 DEF Distinct
    <3>. QED
      BY <1>1, <1>13, <2>3, <2>5, <3>4
  <2>. QED
    BY <1>6, <2>4, <2>5
<1>14. \A j, k \in DOMAIN s : s[j] = s[k] => j = k
  BY <1>11
<1>. QED
  BY <1>8, <1>9, <1>12, <1>13, <1>14 DEF SlicedWell

LEMMA SlicedSound ==
  ASSUME SlicesSound, LaidSound, PlanSound, stage = "split", NEW u \in units
  PROVE  SlicedWell(Sliced(u), u)
<1>1. Ranked /\ Begun /\ (Oversized # {} => Range(slices) = Features)
  BY DEF LaidSound, Staged, Begun
<1>2. CASE u \in Oversized /\ Features # {}
  <2>1. Sliced(u) = [k \in 1..Len(slices) + rests |->
             [modules |-> u, slice |-> IF k <= Len(slices) THEN slices[k] ELSE Len(slices) - k]]
    BY <1>2 DEF Sliced
  <2>. QED
    BY <1>1, <1>2, <2>1, SlicedUp
<1>3. CASE ~(u \in Oversized /\ Features # {})
  <2>1. Sliced(u) = <<[modules |-> u, slice |-> 0]>>
    BY <1>3 DEF Sliced
  <2>. QED
    BY <2>1, SlicedWhole
<1>. QED
  BY <1>2, <1>3

LEMMA SplitUnitLaid ==
  ASSUME SlicesSound, LaidSound, PlanSound, SplitUnit PROVE LaidSound'
<1>1. /\ stage = "split" /\ stage' = "split" /\ inputUnchanged /\ UNCHANGED <<units, pass, slices, plan>>
      /\ ordered # <<>> /\ ordered' = Tail(ordered) /\ parts' = parts \o Sliced(Head(ordered))
  BY DEF SplitUnit
<1>2. UNCHANGED <<declared, devOnly, units, size, sccs, featureDeps, slices, plan>>
  BY <1>1 DEF inputUnchanged, orderUnchanged, planInput, input, search
<1>3. plan = <<>> /\ units = Split \cup Range(ordered) /\ (Oversized # {} => Range(slices) = Features)
  BY <1>1 DEF LaidSound, Staged
<1>. PICK rest, u, new : rest = ordered' /\ u = Head(ordered) /\ new = parts'
  OBVIOUS
<1>. PICK s : s = Sliced(u)
  OBVIOUS
<1>4. ordered \in Seq(units) /\ Distinct(ordered)
  BY DEF LaidSound, Topological
<1>5. /\ u = ordered[1] /\ 1 \in DOMAIN ordered /\ rest \in Seq(units)
      /\ \A k \in DOMAIN rest : k + 1 \in DOMAIN ordered /\ k + 1 # 1 /\ rest[k] = ordered[k + 1] /\ k \in Nat
  BY <1>1, <1>4, TailFacts
<1>6. u \in units /\ u \notin Split /\ Deps(u) \subseteq Split
  <2>1. Deps(ordered[1]) \subseteq Split \cup {ordered[j] : j \in 1..1 - 1} /\ ordered[1] \notin Split
    BY <1>5 DEF LaidSound, Topological
  <2>2. 1..1 - 1 = {}
    OBVIOUS
  <2>. QED
    BY <1>4, <1>5, <2>1, <2>2
<1>7. SlicedWell(s, u)
  BY <1>1, <1>6, SlicedSound
<1>8. new = parts \o s /\ parts \in Seq(Part) /\ s \in Seq(Part)
  BY <1>1, <1>7 DEF LaidSound, PartsLaid, SlicedWell
<1>9. /\ JoinOf(new, parts, s) /\ new \in Seq(Part) /\ DOMAIN parts = 1..Len(parts) /\ Len(parts) \in Nat
      /\ DOMAIN new = 1..Len(parts) + Len(s) /\ Len(s) \in Nat
  <2>. PICK P : P = Part
    OBVIOUS
  <2>1. new = parts \o s /\ parts \in Seq(P) /\ s \in Seq(P)
    BY <1>8
  <2>2. JoinOf(new, parts, s) /\ new \in Seq(P)
    BY <2>1, ConcatFacts
  <2>3. DOMAIN parts = 1..Len(parts) /\ Len(parts) \in Nat /\ Len(s) \in Nat
    BY <2>1, ConcatFacts
  <2>4. DOMAIN new = 1..Len(parts) + Len(s)
    BY <2>1, ConcatFacts
  <2>. QED
    BY <2>2, <2>3, <2>4
<1>. PICK n \in Nat : n = Len(parts)
  BY <1>9
<1>10. \A k \in DOMAIN parts : k \in DOMAIN new /\ new[k] = parts[k] /\ parts[k].modules \in Split /\ k <= n
  BY <1>9 DEF JoinOf, Split
<1>11. \A k \in DOMAIN s : k + n \in DOMAIN new /\ new[k + n] = s[k] /\ s[k].modules = u
  BY <1>7, <1>9 DEF JoinOf, SlicedWell
<1>12. \A k \in DOMAIN new : \/ k \in DOMAIN parts
                             \/ n < k /\ k - n \in DOMAIN s /\ new[k] = s[k - n]
  BY <1>9 DEF JoinOf
<1>13. \A k \in DOMAIN new : k \in Nat
  BY <1>9
<1>14. (\A v : Deps(v)' = Deps(v)) /\ Oversized' = Oversized /\ (AcyclicFeatures' <=> AcyclicFeatures)
       /\ \A a, b : PartDependsOn(a, b)' <=> PartDependsOn(a, b)
  <2>1. (\A v : Deps(v)' = Deps(v)) /\ \A v : Size(v)' = Size(v)
    BY <1>2, UnitsStay
  <2>2. AcyclicFeatures' <=> AcyclicFeatures
    BY <1>2 DEF AcyclicFeatures
  <2>3. \A a, b : PartDependsOn(a, b)' <=> PartDependsOn(a, b)
    BY <1>2 DEF PartDependsOn, SiblingDependsOn
  <2>. QED
    BY <1>2, <2>1, <2>2, <2>3 DEF Oversized
<1>15. Split' = Split \cup {u}
  <2>1. \A x \in Split' : x \in Split \/ x = u
    <3>. TAKE x \in Split'
    <3>. PICK k \in DOMAIN new : x = new[k].modules
      BY DEF Split
    <3>. QED
      BY <1>10, <1>11, <1>12
  <2>2. \A k \in DOMAIN new : new[k].modules \in Split'
    BY DEF Split
  <2>3. \A x \in Split : x \in Split'
    <3>1. \A k \in DOMAIN parts : parts[k].modules \in Split'
      BY <1>10, <2>2
    <3>. QED
      BY <3>1 DEF Split
  <2>4. u \in Split'
    <3>1. 1 \in DOMAIN s
      BY <1>7 DEF SlicedWell
    <3>. QED
      BY <1>11, <2>2, <3>1
  <2>. QED
    BY <2>1, <2>3, <2>4
<1>16. Topological'
  <2>1. Distinct(rest)
    BY <1>4, <1>5 DEF Distinct
  <2>2. ASSUME NEW k \in DOMAIN rest
        PROVE  rest[k] \notin Split' /\ \A x \in Deps(rest[k]) : x \in Split' \/ \E j \in 1..k - 1 : rest[j] = x
    <3>1. k + 1 \in DOMAIN ordered /\ k + 1 # 1 /\ rest[k] = ordered[k + 1] /\ k \in Nat
      BY <1>5
    <3>2. rest[k] # u /\ rest[k] \notin Split
      BY <1>4, <1>5, <3>1 DEF LaidSound, Topological, Distinct
    <3>3. Deps(ordered[k + 1]) \subseteq Split \cup {ordered[j] : j \in 1..k + 1 - 1}
      BY <3>1 DEF LaidSound, Topological
    <3>4. ASSUME NEW x \in Deps(rest[k]), x \notin Split' PROVE \E j \in 1..k - 1 : rest[j] = x
      <4>. PICK i \in 1..k + 1 - 1 : x = ordered[i]
        BY <1>15, <3>1, <3>3, <3>4
      <4>1. i # 1
        BY <1>5, <1>15, <3>4
      <4>2. i - 1 \in 1..k - 1 /\ i - 1 + 1 = i
        BY <3>1, <4>1
      <4>3. \A j \in 1..k - 1 : j \in DOMAIN rest
        <5>1. DOMAIN rest = 1..Len(rest) /\ Len(rest) \in Nat
          BY <1>5
        <5>. QED
          BY <5>1
      <4>4. rest[i - 1] = ordered[i - 1 + 1]
        BY <1>5, <4>2, <4>3
      <4>5. rest[i - 1] = x
        BY <4>2, <4>4
      <4>. QED
        BY <4>2, <4>5
    <3>. QED
      BY <1>15, <3>2, <3>4
  <2>3. \A k \in DOMAIN ordered' :
          ordered'[k] \notin Split' /\ Deps(ordered[k])' \subseteq Split' \cup {ordered'[j] : j \in 1..k - 1}
    <3>. TAKE k \in DOMAIN ordered'
    <3>. PICK v : v = rest[k]
      OBVIOUS
    <3>1. v \notin Split' /\ \A x \in Deps(v) : x \in Split' \/ \E j \in 1..k - 1 : rest[j] = x
      BY <2>2
    <3>2. Deps(ordered[k])' = Deps(v)'
      BY DEF Deps
    <3>3. \A x \in Deps(ordered[k])' : x \in Split' \/ \E j \in 1..k - 1 : rest[j] = x
      BY <1>14, <3>1, <3>2
    <3>. QED
      BY <3>1, <3>3
  <2>4. ordered' \in Seq(units') /\ Distinct(ordered')
    BY <1>2, <1>5, <2>1
  <2>. QED
    BY <2>3, <2>4 DEF Topological, Distinct
<1>17. PartsLaid'
  <2>1. parts' \in Seq(Part')
    BY <1>2, <1>9 DEF Part
  <2>2. \A v \in Split' : Deps(v)' \subseteq Split'
    BY <1>6, <1>14, <1>15 DEF LaidSound, PartsLaid
  <2>3. \A i, j \in DOMAIN new : new[i] = new[j] => i = j
    <3>. SUFFICES ASSUME NEW i \in DOMAIN new, NEW j \in DOMAIN new, new[i] = new[j] PROVE i = j
      OBVIOUS
    <3>0. new[i] = new[j] /\ new[i].modules = new[j].modules
      OBVIOUS
    <3>1. CASE i \in DOMAIN parts /\ j \in DOMAIN parts
      BY <1>10, <3>1 DEF LaidSound, PartsLaid
    <3>2. CASE i - n \in DOMAIN s /\ new[i] = s[i - n] /\ j - n \in DOMAIN s /\ new[j] = s[j - n]
      <4>. PICK a, b : a = i - n /\ b = j - n
        OBVIOUS
      <4>2. a \in DOMAIN s /\ b \in DOMAIN s /\ s[a] = s[b]
        BY <3>2
      <4>1. i - n = j - n
        BY <1>7, <4>2 DEF SlicedWell
      <4>. QED
        BY <1>13, <4>1
    <3>3. CASE i \in DOMAIN parts /\ j - n \in DOMAIN s /\ new[j] = s[j - n]
      BY <1>6, <1>10, <1>11, <3>3
    <3>4. CASE j \in DOMAIN parts /\ i - n \in DOMAIN s /\ new[i] = s[i - n]
      <4>1. new[j].modules \in Split /\ new[i].modules = u
        BY <1>10, <1>11, <3>4
      <4>. QED
        BY <1>6, <3>0, <4>1
    <3>. QED
      BY <1>12, <3>1, <3>2, <3>3, <3>4
  <2>4. \A i \in DOMAIN new : new[i].slice # 0 =>
          /\ new[i].modules \in Oversized
          /\ \A f \in Features : \E j \in DOMAIN new : new[j] = [modules |-> new[i].modules, slice |-> f]
    <3>. SUFFICES ASSUME NEW i \in DOMAIN new, new[i].slice # 0
                  PROVE  /\ new[i].modules \in Oversized
                         /\ \A f \in Features : \E j \in DOMAIN new : new[j] = [modules |-> new[i].modules, slice |-> f]
      OBVIOUS
    <3>1. CASE i \in DOMAIN parts
      <4>1. new[i] = parts[i]
        BY <1>10, <3>1
      <4>2. parts[i].modules \in Oversized
            /\ \A f \in Features : \E j \in DOMAIN parts : parts[j] = [modules |-> parts[i].modules, slice |-> f]
        BY <3>1, <4>1 DEF LaidSound, PartsLaid
      <4>. QED
        BY <1>10, <4>1, <4>2
    <3>2. CASE i - n \in DOMAIN s /\ new[i] = s[i - n]
      <4>1. u \in Oversized /\ \A f \in Features : \E j \in DOMAIN s : s[j] = [modules |-> u, slice |-> f]
        BY <1>7, <3>2 DEF SlicedWell
      <4>2. new[i].modules = u
        BY <1>11, <3>2
      <4>3. ASSUME NEW f \in Features PROVE \E j \in DOMAIN new : new[j] = [modules |-> u, slice |-> f]
        <5>. PICK j \in DOMAIN s : s[j] = [modules |-> u, slice |-> f]
          BY <4>1
        <5>1. j + n \in DOMAIN new /\ new[j + n] = s[j]
          BY <1>11
        <5>. QED
          BY <5>1
      <4>. QED
        BY <4>1, <4>2, <4>3
    <3>. QED
      BY <1>12, <3>1, <3>2
  <2>5. ASSUME NEW i \in DOMAIN new, NEW j \in DOMAIN new, i # j, PartDependsOn(new[i], new[j]),
               new[i].slice <= 0 \/ new[i].modules # new[j].modules \/ AcyclicFeatures
        PROVE  j < i
    <3>1. CASE i \in DOMAIN parts /\ j \in DOMAIN parts
      <4>1. new[i] = parts[i] /\ new[j] = parts[j]
        BY <1>10, <3>1
      <4>. QED
        BY <2>5, <3>1, <4>1 DEF LaidSound, PartsLaid
    <3>2. CASE n < i /\ n < j /\ i - n \in DOMAIN s /\ new[i] = s[i - n] /\ j - n \in DOMAIN s /\ new[j] = s[j - n]
      <4>. PICK a, b : a = i - n /\ b = j - n
        OBVIOUS
      <4>1. a # b
        BY <1>13, <2>5
      <4>2. s[a].slice <= 0 \/ AcyclicFeatures
        BY <1>11, <2>5, <3>2
      <4>3. b < a
        BY <1>7, <2>5, <3>2, <4>1, <4>2 DEF SlicedWell
      <4>. QED
        BY <1>13, <4>3
    <3>3. CASE n < i /\ j \in DOMAIN parts
      BY <1>10, <1>13, <3>3
    <3>4. CASE i \in DOMAIN parts /\ n < j /\ j - n \in DOMAIN s /\ new[j] = s[j - n]
      <4>. PICK v : v = new[i].modules
        OBVIOUS
      <4>1. v \in Split /\ v # u /\ new[j].modules = u
        BY <1>6, <1>10, <1>11, <3>4
      <4>2. \E m \in v : declared[m] \cap u # {}
        BY <2>5, <4>1 DEF PartDependsOn, SiblingDependsOn
      <4>3. u \in Deps(v)
        BY <1>6, <4>1, <4>2 DEF Deps
      <4>4. Deps(v) \subseteq Split
        BY <4>1 DEF LaidSound, PartsLaid
      <4>. QED
        BY <1>6, <4>3, <4>4
    <3>. QED
      BY <1>12, <3>1, <3>2, <3>3, <3>4
  <2>6. \A i, j \in DOMAIN parts' :
          /\ i # j /\ PartDependsOn(parts[i], parts[j])'
          /\ parts'[i].slice <= 0 \/ parts'[i].modules # parts'[j].modules \/ AcyclicFeatures'
          => j < i
    <3>. SUFFICES ASSUME NEW i \in DOMAIN new, NEW j \in DOMAIN new, i # j, PartDependsOn(parts[i], parts[j])',
                         new[i].slice <= 0 \/ new[i].modules # new[j].modules \/ AcyclicFeatures
                  PROVE  j < i
      BY <1>14
    <3>. PICK a, b : a = new[i] /\ b = new[j]
      OBVIOUS
    <3>1. PartDependsOn(parts[i], parts[j])' <=> PartDependsOn(a, b)'
      BY DEF PartDependsOn, SiblingDependsOn
    <3>2. PartDependsOn(a, b)
      BY <1>14, <3>1
    <3>. QED
      BY <2>5, <3>2
  <2>. QED
    BY <1>14, <2>1, <2>2, <2>3, <2>4, <2>6 DEF PartsLaid
<1>18. Ranked'
  BY <1>2, <1>14 DEF LaidSound, Ranked
<1>19. PlanLaid'
  <2>1. plan' = <<>> /\ DOMAIN plan' = {} /\ Len(plan') = 0
    BY <1>2, <1>3
  <2>2. plan' \in Seq(Task') /\ Len(plan') <= Len(parts')
    <3>1. Len(new) \in Nat
      BY <1>9
    <3>. QED
      BY <2>1, <3>1
  <2>. QED
    BY <2>1, <2>2 DEF PlanLaid
<1>20. Staged'
  <2>1. units' = Split' \cup Range(rest)
    <3>1. \A x \in Range(ordered) : x = u \/ x \in Range(rest)
      <4>. TAKE x \in Range(ordered)
      <4>. PICK k \in DOMAIN ordered : ordered[k] = x
        BY DEF Range
      <4>1. CASE k = 1
        BY <1>5, <4>1
      <4>2. CASE k # 1
        <5>1. DOMAIN ordered = 1..Len(ordered) /\ Len(ordered) \in Nat /\ Len(rest) = Len(ordered) - 1
              /\ DOMAIN rest = 1..Len(rest)
          BY <1>1, <1>4, <1>5, HeadTailProperties
        <5>2. k - 1 \in DOMAIN rest /\ k - 1 + 1 = k
          BY <4>2, <5>1
        <5>3. rest[k - 1] = ordered[k - 1 + 1]
          BY <1>5, <5>2
        <5>4. rest[k - 1] = x
          BY <5>2, <5>3
        <5>. QED
          BY <5>2, <5>4 DEF Range
      <4>. QED
        BY <4>1, <4>2
    <3>2. \A x \in Range(rest) : x \in units
      BY <1>5 DEF Range
    <3>. QED
      BY <1>2, <1>3, <1>6, <1>15, <3>1, <3>2
  <2>. QED
    BY <1>1, <1>2, <1>3, <1>14, <2>1 DEF Staged
<1>. QED
  BY <1>16, <1>17, <1>18, <1>19, <1>20 DEF LaidSound

----------------------------------------------------------------------------
(* Steps of the laying out: giving a part its dependencies.                *)

\* A finite set of numbers that has a member has a greatest.
LEMMA MaxFacts ==
  ASSUME NEW S \in SUBSET Nat, IsFiniteSet(S), S # {}
  PROVE  Max(S) \in S /\ \A x \in S : x <= Max(S)
<1>. DEFINE Over(x) == {y \in S : y > x}
            B == {Cardinality(Over(x)) : x \in S}
<1>1. \A x \in S : IsFiniteSet(Over(x)) /\ Cardinality(Over(x)) \in Nat
  <2>. TAKE x \in S
  <2>1. Over(x) \in SUBSET S
    OBVIOUS
  <2>. HIDE DEF Over
  <2>. QED
    BY <2>1, FS_Subset, FS_CardinalityType
<1>2. B \in SUBSET Nat /\ B # {}
  BY <1>1
<1>. PICK n \in B : \A m \in B : n <= m
  <2>. HIDE DEF B
  <2>. QED
    BY <1>2, MinFacts
<1>. PICK x \in S : Cardinality(Over(x)) = n
  OBVIOUS
<1>3. ASSUME NEW y \in S, ~(y <= x) PROVE FALSE
  <2>1. \A z \in S : z > y => z > x
    BY <1>3
  <2>. PICK P, Q : P = Over(x) /\ Q = Over(y)
    OBVIOUS
  <2>2. Q \in SUBSET P /\ y \in P /\ y \notin Q
    BY <1>3, <2>1
  <2>3. IsFiniteSet(P) /\ Cardinality(P) = n /\ Cardinality(P) \in Nat /\ Cardinality(Q) \in Nat
    BY <1>1
  <2>4. Cardinality(Q) <= Cardinality(P) /\ (Cardinality(P) = Cardinality(Q) => P = Q)
    BY <2>2, <2>3, FS_Subset
  <2>5. Cardinality(Q) \in B
    OBVIOUS
  <2>6. n <= Cardinality(Q)
    <3>. HIDE DEF B
    <3>. QED
      BY <2>5
  <2>. QED
    BY <2>2, <2>3, <2>4, <2>6
<1>4. \A y \in S : y <= x
  BY <1>3
<1>5. Max(S) = x
  BY <1>4, MaxIs
<1>. QED
  BY <1>4, <1>5

LEMMA WaveAbove ==
  ASSUME NEW below, IsFiniteSet(below), NEW w \in [below -> Nat],
         NEW m, m = Max({0} \cup {w[j] + 1 : j \in below})
  PROVE  m \in Nat /\ \A j \in below : w[j] < m
<1>. PICK S : S = {0} \cup {w[j] + 1 : j \in below}
  OBVIOUS
<1>1. S \in SUBSET Nat /\ S # {}
  OBVIOUS
<1>2. IsFiniteSet(S)
  <2>. PICK T : T = {w[j] + 1 : j \in below}
    OBVIOUS
  <2>1. IsFiniteSet(T)
    <3>. PICK f : f = [j \in below |-> w[j] + 1]
      OBVIOUS
    <3>1. T = {f[j] : j \in below}
      OBVIOUS
    <3>2. f \in Surjection(below, T)
      BY <3>1 DEF Surjection
    <3>. QED
      BY <3>2, FS_Surjection
  <2>2. IsFiniteSet({0})
    BY FS_Singleton
  <2>. QED
    BY <2>1, <2>2, FS_Union
<1>3. m \in S /\ \A x \in S : x <= m
  BY <1>1, <1>2, MaxFacts
<1>4. \A j \in below : w[j] + 1 <= m
  BY <1>3
<1>. QED
  BY <1>1, <1>3, <1>4

LEMMA AnnotateLaid ==
  ASSUME SlicesSound, LaidSound, PlanSound, Annotate PROVE LaidSound'
<1>1. /\ stage = "split" /\ stage' = "split" /\ ordered = <<>> /\ Len(plan) < Len(parts)
      /\ inputUnchanged /\ UNCHANGED <<units, pass, ordered, slices, parts>>
  BY DEF Annotate
<1>2. UNCHANGED <<declared, devOnly, units, size, sccs, featureDeps, ordered, slices, parts>>
  BY <1>1 DEF inputUnchanged, orderUnchanged, planInput, input, search
<1>. PICK n : n = Len(plan) + 1
  OBVIOUS
<1>. PICK part, below, task :
        /\ part = parts[n] /\ below = {j \in DOMAIN plan : PartDependsOn(part, plan[j])}
        /\ task = [modules |-> part.modules, slice |-> part.slice, dependsOn |-> below,
                   wave |-> Max({0} \cup {plan[j].wave + 1 : j \in below})]
        /\ plan' = Append(plan, task)
  BY DEF Annotate, Planned
<1>3. parts \in Seq(Part) /\ plan \in Seq(Task) /\ Len(plan) \in Nat /\ Len(parts) \in Nat
  BY DEF LaidSound, PartsLaid, PlanLaid
<1>4. n \in Nat /\ n \in DOMAIN parts /\ n = Len(plan) + 1 /\ DOMAIN plan = 1..n - 1 /\ part \in Part
  BY <1>1, <1>3
<1>5. \A j \in DOMAIN plan : plan[j].modules = parts[j].modules /\ plan[j].slice = parts[j].slice
  BY DEF LaidSound, PlanLaid
<1>6. below = {j \in 1..n - 1 : PartDependsOn(parts[n], parts[j])}
  <2>1. \A j \in DOMAIN plan : PartDependsOn(part, plan[j]) <=> PartDependsOn(part, parts[j])
    BY <1>5 DEF PartDependsOn, SiblingDependsOn
  <2>. QED
    BY <1>4, <2>1
<1>7. task.wave \in Nat /\ \A j \in below : plan[j].wave < task.wave
  <2>. PICK w : w = [j \in below |-> plan[j].wave]
    OBVIOUS
  <2>1. \A j \in below : plan[j] \in Task /\ plan[j].wave \in Nat
    <3>1. \A j \in below : j \in DOMAIN plan
      OBVIOUS
    <3>2. \A j \in DOMAIN plan : plan[j] \in Task
      BY <1>3
    <3>3. \A t \in Task : t.wave \in Nat
      BY DEF Task
    <3>. QED
      BY <3>1, <3>2, <3>3
  <2>2. w \in [below -> Nat]
    BY <2>1
  <2>3. IsFiniteSet(below)
    <3>1. IsFiniteSet(1..n - 1) /\ below \in SUBSET (1..n - 1)
      BY <1>4, FS_Interval
    <3>. QED
      BY <3>1, FS_Subset
  <2>4. {w[j] + 1 : j \in below} = {plan[j].wave + 1 : j \in below}
    OBVIOUS
  <2>5. task.wave = Max({0} \cup {w[j] + 1 : j \in below})
    BY <2>4
  <2>6. task.wave \in Nat /\ \A j \in below : w[j] < task.wave
    BY <2>2, <2>3, <2>5, WaveAbove
  <2>. QED
    BY <2>6
<1>8. task \in Task /\ task.modules = part.modules /\ task.slice = part.slice /\ task.dependsOn = below
  <2>1. below \in SUBSET Nat
    BY <1>4
  <2>. QED
    BY <1>4, <1>7, <2>1 DEF Task, Part
<1>. PICK new : new = plan'
  OBVIOUS
<1>9. /\ new \in Seq(Task) /\ Len(new) = n /\ new[n] = task
      /\ \A k \in DOMAIN new : k = n \/ (k \in DOMAIN plan /\ new[k] = plan[k])
  <2>. PICK T : T = Task
    OBVIOUS
  <2>1. plan \in Seq(T) /\ task \in T /\ new = Append(plan, task)
    BY <1>3, <1>8
  <2>2. /\ new \in Seq(T) /\ Len(new) = Len(plan) + 1 /\ new[Len(new)] = task
        /\ \A k \in DOMAIN new : k = Len(new) \/ (k \in DOMAIN plan /\ new[k] = plan[k])
    BY <2>1, Appended
  <2>. QED
    BY <2>2
<1>10. \A a, b : PartDependsOn(a, b)' <=> PartDependsOn(a, b)
  BY <1>2 DEF PartDependsOn, SiblingDependsOn
<1>11. ASSUME NEW k \in DOMAIN new
       PROVE  /\ new[k].modules = parts[k].modules /\ new[k].slice = parts[k].slice
              /\ new[k].dependsOn = {j \in 1..k - 1 : PartDependsOn(parts[k], parts[j])}
              /\ \A j \in new[k].dependsOn : new[j].wave < new[k].wave
  <2>0. \A j \in DOMAIN plan : new[j] = plan[j]
    <3>1. \A j \in DOMAIN plan : j \in DOMAIN new /\ j # n
      <4>1. DOMAIN new = 1..n
        BY <1>4, <1>9
      <4>2. \A j \in 1..n - 1 : j \in 1..n /\ j # n
        BY <1>4
      <4>. QED
        BY <1>4, <4>1, <4>2
    <3>. QED
      BY <1>9, <3>1
  <2>1. CASE k = n
    <3>. PICK t : t = task
      OBVIOUS
    <3>1. new[k] = t /\ part = parts[k] /\ below = {j \in 1..k - 1 : PartDependsOn(parts[k], parts[j])}
      BY <1>6, <1>9, <2>1
    <3>2. t.modules = part.modules /\ t.slice = part.slice /\ t.dependsOn = below
      BY <1>8
    <3>3. \A j \in t.dependsOn : new[j].wave < t.wave
      BY <1>6, <1>7, <2>0, <3>2
    <3>. QED
      BY <1>6, <3>1, <3>2, <3>3
  <2>2. CASE k \in DOMAIN plan /\ new[k] = plan[k]
    <3>1. /\ plan[k].dependsOn = {j \in 1..k - 1 : PartDependsOn(parts[k], parts[j])}
          /\ \A j \in plan[k].dependsOn : plan[j].wave < plan[k].wave
      BY <2>2 DEF LaidSound, PlanLaid
    <3>2. \A j \in plan[k].dependsOn : j \in DOMAIN plan
      BY <1>4, <2>2, <3>1
    <3>. QED
      BY <1>5, <2>0, <2>2, <3>1, <3>2
  <2>. QED
    BY <1>9, <2>1, <2>2
<1>12. PlanLaid'
  <2>1. plan' \in Seq(Task') /\ Len(plan') <= Len(parts')
    BY <1>1, <1>2, <1>3, <1>9 DEF Task
  <2>2. \A k \in DOMAIN plan' :
          /\ plan'[k].modules = parts'[k].modules /\ plan'[k].slice = parts'[k].slice
          /\ plan'[k].dependsOn = {j \in 1..k - 1 : PartDependsOn(parts[k], parts[j])'}
          /\ \A j \in plan'[k].dependsOn : plan'[j].wave < plan'[k].wave
    <3>. TAKE k \in DOMAIN plan'
    <3>1. \A j : PartDependsOn(parts[k], parts[j])' <=> PartDependsOn(parts[k], parts[j])
      BY <1>2 DEF PartDependsOn, SiblingDependsOn
    <3>2. new[k].dependsOn = {j \in 1..k - 1 : PartDependsOn(parts[k], parts[j])'}
      BY <1>11, <3>1
    <3>3. k \in DOMAIN new
      OBVIOUS
    <3>4. /\ new[k].modules = parts[k].modules /\ new[k].slice = parts[k].slice
          /\ \A j \in new[k].dependsOn : new[j].wave < new[k].wave
      BY <1>11, <3>3, SMTT(20)
    <3>. QED
      BY <1>2, <3>2, <3>4
  <2>. QED
    BY <2>1, <2>2 DEF PlanLaid
<1>13. Topological' /\ Ranked' /\ PartsLaid' /\ Oversized' = Oversized /\ Split' = Split
  BY <1>2, TopologicalStays, LaidFacts DEF LaidSound
<1>14. Staged'
  BY <1>1, <1>2, <1>13 DEF LaidSound, Staged
<1>. QED
  BY <1>12, <1>13, <1>14 DEF LaidSound

----------------------------------------------------------------------------
(* What the plan keeps.                                                    *)

LEMMA LaidInit ==
  ASSUME Init PROVE LaidSound
<1>1. ordered = <<>> /\ slices = <<>> /\ parts = <<>> /\ plan = <<>> /\ stage = "search"
  BY DEF Init, OrderInit
<1>2. DOMAIN ordered = {} /\ DOMAIN slices = {} /\ DOMAIN parts = {} /\ DOMAIN plan = {}
      /\ Len(plan) = 0 /\ Len(parts) = 0 /\ Split = {}
  BY <1>1 DEF Split
<1>3. ordered \in Seq(units) /\ parts \in Seq(Part) /\ plan \in Seq(Task)
  BY <1>1
<1>. QED
  BY <1>1, <1>2, <1>3 DEF LaidSound, Staged, Topological, Ranked, PartsLaid, PlanLaid, Distinct

\* Nothing is laid out before the passes are over.
LEMMA MergingLaid ==
  ASSUME LaidSound,
         \/ OrderNext /\ UNCHANGED <<planInput, units, pass, ordered, slices, parts, plan>>
         \/ BeginPlan \/ BeginPass \/ TakeGroup \/ AddMember \/ PackBin \/ EndPass
  PROVE  LaidSound'
<1>1. /\ stage \in {"search", "waves", "ordered", "pass", "packing"}
      /\ stage' \notin {"features", "split", "done"}
      /\ UNCHANGED <<ordered, slices, parts, plan>>
  BY DEF OrderNext, Start, Look, Close, Condense, EmitWave, Ordered, BeginPlan, BeginPass, TakeGroup, AddMember,
         PackBin, EndPass, PassOver
<1>2. ordered = <<>> /\ slices = <<>> /\ parts = <<>> /\ plan = <<>>
  BY <1>1 DEF LaidSound, Staged
<1>. QED
  BY <1>1, <1>2, NothingLaid

LEMMA LaidNext ==
  ASSUME PlanSound, SlicesSound, LaidSound, [Next]_vars PROVE LaidSound'
<1>1. CASE \/ OrderNext /\ UNCHANGED <<planInput, units, pass, ordered, slices, parts, plan>>
           \/ BeginPlan \/ BeginPass \/ TakeGroup \/ AddMember \/ PackBin \/ EndPass
  BY <1>1, MergingLaid
<1>2. CASE EmitLevel BY <1>2, EmitLevelInv
<1>3. CASE LevelsDone BY <1>3, LevelsDoneLaid
<1>4. CASE EmitFeatures BY <1>4, EmitFeaturesLaid
<1>5. CASE SplitUnit BY <1>5, SplitUnitLaid
<1>6. CASE Annotate BY <1>6, AnnotateLaid
<1>7. CASE FeaturesOrdered \/ Throw \/ EndPlan \/ UNCHANGED vars BY <1>7, RestingLaid
<1>. QED
  BY <1>1, <1>2, <1>3, <1>4, <1>5, <1>6, <1>7 DEF Next, PlanStep

\* When the plan is done, it is the parts, annotated.
LEMMA PlanFromLaid ==
  ASSUME PlanSound, LaidSound PROVE PlanKeepsDependencies
<1>. SUFFICES ASSUME stage = "done"
              PROVE  /\ \A m \in Modules : \E i \in DOMAIN plan : m \in plan[i].modules
                     /\ \A i, j \in DOMAIN plan :
                           i # j /\ plan[i].modules \cap plan[j].modules # {} => plan[i].slice # plan[j].slice
                     /\ \A i \in DOMAIN plan : plan[i].slice # 0 =>
                           \A f \in Features : \E j \in DOMAIN plan :
                               plan[j].modules = plan[i].modules /\ plan[j].slice = f
                     /\ \A i, j \in DOMAIN plan :
                           /\ i # j /\ PartDependsOn(plan[i], plan[j])
                           /\ plan[i].slice <= 0 \/ plan[i].modules # plan[j].modules \/ AcyclicFeatures
                           => j \in plan[i].dependsOn /\ plan[j].wave < plan[i].wave
  BY DEF PlanKeepsDependencies
<1>1. ordered = <<>> /\ Len(plan) = Len(parts) /\ units = Split \cup Range(ordered) /\ Shared
  BY DEF LaidSound, Staged, PlanSound, Begun
<1>2. units = Split
  <2>1. DOMAIN ordered = {}
    BY <1>1
  <2>2. Range(ordered) = {}
    BY <2>1 DEF Range
  <2>. QED
    BY <1>1, <2>2
<1>3. DOMAIN plan = DOMAIN parts /\ DOMAIN parts = 1..Len(parts) /\ Len(parts) \in Nat
  BY <1>1 DEF LaidSound, PartsLaid, PlanLaid
<1>4. \A k \in DOMAIN plan : plan[k].modules = parts[k].modules /\ plan[k].slice = parts[k].slice
  BY DEF LaidSound, PlanLaid
<1>5. \A k \in DOMAIN parts : parts[k].modules \in units /\ parts[k] = [modules |-> parts[k].modules, slice |-> parts[k].slice]
  <2>1. parts \in Seq(Part)
    BY DEF LaidSound, PartsLaid
  <2>2. \A k \in DOMAIN parts : parts[k] \in Part
    BY <2>1
  <2>3. \A p \in Part : p.modules \in units /\ p = [modules |-> p.modules, slice |-> p.slice]
    BY DEF Part
  <2>. QED
    BY <2>2, <2>3
<1>6. \A m \in Modules : \E i \in DOMAIN plan : m \in plan[i].modules
  <2>. TAKE m \in Modules
  <2>. PICK u \in units : m \in u
    BY <1>1 DEF Shared
  <2>. PICK i \in DOMAIN parts : parts[i].modules = u
    BY <1>2 DEF Split
  <2>. QED
    BY <1>3, <1>4
<1>7. ASSUME NEW i \in DOMAIN plan, NEW j \in DOMAIN plan, i # j, plan[i].modules \cap plan[j].modules # {}
      PROVE  plan[i].slice # plan[j].slice
  <2>1. parts[i].modules = parts[j].modules
    <3>1. parts[i].modules \in units /\ parts[j].modules \in units /\ parts[i].modules \cap parts[j].modules # {}
      BY <1>3, <1>4, <1>5, <1>7
    <3>. QED
      BY <1>1, <3>1 DEF Shared
  <2>2. parts[i] # parts[j]
    BY <1>3, <1>7 DEF LaidSound, PartsLaid
  <2>. QED
    BY <1>3, <1>4, <1>5, <2>1, <2>2
<1>8. ASSUME NEW i \in DOMAIN plan, plan[i].slice # 0, NEW f \in Features
      PROVE  \E j \in DOMAIN plan : plan[j].modules = plan[i].modules /\ plan[j].slice = f
  <2>1. i \in DOMAIN parts /\ parts[i].slice # 0
    BY <1>3, <1>4, <1>8
  <2>. PICK j \in DOMAIN parts : parts[j] = [modules |-> parts[i].modules, slice |-> f]
    BY <2>1 DEF LaidSound, PartsLaid
  <2>. QED
    BY <1>3, <1>4
<1>9. ASSUME NEW i \in DOMAIN plan, NEW j \in DOMAIN plan, i # j, PartDependsOn(plan[i], plan[j]),
             plan[i].slice <= 0 \/ plan[i].modules # plan[j].modules \/ AcyclicFeatures
      PROVE  j \in plan[i].dependsOn /\ plan[j].wave < plan[i].wave
  <2>1. PartDependsOn(parts[i], parts[j])
    BY <1>4, <1>9 DEF PartDependsOn, SiblingDependsOn
  <2>2. j < i
    BY <1>3, <1>4, <1>9, <2>1 DEF LaidSound, PartsLaid
  <2>3. j \in 1..i - 1
    BY <1>3, <2>2
  <2>4. /\ plan[i].dependsOn = {k \in 1..i - 1 : PartDependsOn(parts[i], parts[k])}
        /\ \A k \in plan[i].dependsOn : plan[k].wave < plan[i].wave
    BY DEF LaidSound, PlanLaid
  <2>. QED
    BY <2>1, <2>3, <2>4
<1>. QED
  BY <1>6, <1>7, <1>8, <1>9

\* The plan holds every unit, and every slice of a split one, once.  Whatever a part of the plan
\* needs of another, it names it, and the other is in an earlier wave: declared dependencies,
\* the remainder of a split module on its features, and the features on one another when
\* these form no cycle (unit-planning.ts:191-282).
THEOREM PlanKeepsThem == Spec => []PlanKeepsDependencies
<1>1. Init => OrderSound /\ PlanSound /\ SlicesSound /\ LaidSound
  BY OrderInvInit, PlanSoundInit, SlicesSoundInit, LaidInit
<1>2. OrderSound /\ PlanSound /\ SlicesSound /\ LaidSound /\ [Next]_vars
      => (OrderSound /\ PlanSound /\ SlicesSound /\ LaidSound)'
  BY OrderInvNext, PlanSoundNext, SlicesSoundNext, LaidNext
<1>3. OrderSound /\ PlanSound /\ SlicesSound /\ LaidSound => PlanKeepsDependencies
  BY PlanFromLaid
<1>. QED
  BY <1>1, <1>2, <1>3, PTL DEF Spec

----------------------------------------------------------------------------
(* Merging closes no cycle. What depends on a unit of a block depends on   *)
(* all of the block, or on the unit of it that depends on the rest: so a   *)
(* cycle over blocks is one over units. Nothing depends on the block of    *)
(* the only root.                                                          *)

\* Every set of units has one that depends on no other of them.
Acyclic == \A S \in SUBSET units : S # {} => \E u \in S : Deps(u) \cap S = {}

NotCyclic == Begun /\ Rooted => Acyclic

\* What a unit reaches over others, it reaches from one it depends on.
LEMMA ReachableFacts ==
  /\ \A u \in units : Reachable(u) \subseteq units /\ Deps(u) \subseteq Reachable(u)
  /\ \A u \in units : \A v \in Reachable(u) : Deps(v) \subseteq Reachable(u)
  /\ \A u \in units : \A v \in Reachable(u) : \E w \in Deps(u) : v = w \/ v \in Reachable(w)
<1>. PICK g : g = [v \in units |-> Deps(v)]
  OBVIOUS
<1>1. g \in [units -> SUBSET units] /\ \A u \in units : g[u] = Deps(u)
  BY DEF Deps
<1>2. \A u : Reachable(u) = Reach(g, u)
  BY DEF Reachable
<1>3. \A u \in units : /\ Reach(g, u) \subseteq units /\ g[u] \subseteq Reach(g, u)
                       /\ \A y \in Reach(g, u) : g[y] \subseteq Reach(g, u)
  BY <1>1, ReachFacts
<1>4. ASSUME NEW u \in units, NEW v \in Reach(g, u) PROVE \E w \in g[u] : v = w \/ v \in Reach(g, w)
  <2>. PICK T : T = {y \in units : \E w \in g[u] : y = w \/ y \in Reach(g, w)}
    OBVIOUS
  <2>0. g[u] \subseteq units
    BY <1>1
  <2>1. T \in SUBSET units /\ g[u] \subseteq T
    BY <2>0
  <2>2. ASSUME NEW z \in T PROVE g[z] \subseteq T
    <3>. PICK w \in g[u] : z = w \/ z \in Reach(g, w)
      OBVIOUS
    <3>1. g[z] \subseteq Reach(g, w) /\ Reach(g, w) \subseteq units
      BY <1>3, <2>0
    <3>. QED
      BY <3>1
  <2>3. Reach(g, u) \subseteq T
    BY <1>1, <2>1, <2>2, ReachFacts, SMTT(20)
  <2>. QED
    BY <2>3
<1>5. \A u \in units : \A v \in Reachable(u) : v \in units
  BY <1>2, <1>3
<1>6. \A u \in units : \A v \in Reachable(u) : Deps(v) \subseteq Reachable(u)
  BY <1>1, <1>2, <1>3, <1>5
<1>7. \A u \in units : \A v \in Reachable(u) : \E w \in Deps(u) : v = w \/ v \in Reachable(w)
  BY <1>1, <1>2, <1>4
<1>. QED
  BY <1>1, <1>2, <1>3, <1>6, <1>7

\* Where one module needs all the others, one unit is the root.
LEMMA OneRoot ==
  ASSUME Shared, declared \in [Modules -> SUBSET Modules], Rooted, Acyclic
  PROVE  \E r \in units : Roots = {r}
<1>. PICK m \in Modules : Modules \ {m} \subseteq Reach(declared, m)
  BY DEF Rooted
<1>. PICK r \in units : m \in r
  BY DEF Shared
<1>0. \A x \in Modules, u, v \in units : x \in u /\ x \in v => u = v
  BY DEF Shared
<1>00. \A u \in units : u \subseteq Modules /\ u # {}
  BY DEF Shared, UnitSets
<1>1. ASSUME NEW u \in units, u # r PROVE Dependents(u) # {}
  <2>. SUFFICES ASSUME Dependents(u) = {} PROVE FALSE
    OBVIOUS
  <2>. PICK x \in u : TRUE
    BY <1>00
  <2>1. x \in Modules /\ x # m /\ m \notin u
    BY <1>0, <1>00, <1>1
  <2>. PICK T \in SUBSET Modules : T = Modules \ u
    OBVIOUS
  <2>2. ASSUME NEW z \in T PROVE declared[z] \subseteq T
    <3>. PICK v \in units : z \in v
      BY DEF Shared
    <3>1. v # u
      OBVIOUS
    <3>2. u \notin Deps(v)
      BY DEF Dependents
    <3>3. declared[z] \cap u = {}
      BY <3>1, <3>2 DEF Deps
    <3>. QED
      BY <3>3
  <2>3. Reach(declared, m) \subseteq T
    BY <2>1, <2>2, ReachFacts
  <2>. QED
    BY <2>1, <2>3
<1>2. ASSUME NEW u \in units, u # r PROVE u \in Reachable(r)
  <2>. PICK T \in SUBSET Modules : T = {x \in Modules : \E w \in units : x \in w /\ (w = r \/ w \in Reachable(r))}
    OBVIOUS
  <2>1. ASSUME NEW z \in T PROVE declared[z] \subseteq T
    <3>. SUFFICES ASSUME NEW n \in declared[z] PROVE n \in T
      OBVIOUS
    <3>. PICK w \in units : z \in w /\ (w = r \/ w \in Reachable(r))
      OBVIOUS
    <3>0. n \in Modules
      OBVIOUS
    <3>. PICK v \in units : n \in v
      BY <3>0 DEF Shared
    <3>1. v = w \/ v \in Deps(w)
      BY DEF Deps
    <3>2. v = r \/ v \in Reachable(r)
      BY <3>1, ReachableFacts
    <3>. QED
      BY <3>0, <3>2
  <2>2. m \in T
    OBVIOUS
  <2>3. Reach(declared, m) \subseteq T
    BY <2>1, <2>2, ReachFacts
  <2>. PICK x \in u : TRUE
    BY <1>00
  <2>4. x \in Modules /\ x # m
    BY <1>0, <1>00, <1>2
  <2>5. x \in T
    BY <2>3, <2>4
  <2>. PICK w \in units : x \in w /\ (w = r \/ w \in Reachable(r))
    BY <2>5
  <2>6. w = u
    BY <1>0, <2>4
  <2>. QED
    BY <1>2, <2>6
<1>3. Dependents(r) = {}
  <2>. SUFFICES ASSUME NEW v \in units, r \in Deps(v) PROVE FALSE
    BY DEF Dependents
  <2>1. v # r
    BY DEF Deps
  <2>2. r \in Reachable(v) /\ r \in Reachable(r)
    BY <1>2, <2>1, ReachableFacts
  <2>. PICK S \in SUBSET units : S = {w \in units : r \in Reachable(w)}
    OBVIOUS
  <2>3. S # {} /\ r \in S
    BY <2>2
  <2>. PICK w \in S : Deps(w) \cap S = {}
    BY <2>3 DEF Acyclic
  <2>. PICK x \in Deps(w) : r = x \/ r \in Reachable(x)
    BY ReachableFacts
  <2>4. x \in S
    BY <2>3 DEF Deps
  <2>. QED
    BY <2>4
<1>4. Roots = {r}
  BY <1>1, <1>3 DEF Roots
<1>. QED
  BY <1>4

\* Nothing outside the block of the root depends on it.
LEMMA RootBlock ==
  ASSUME Shared, Packing, NEW r \in units, Roots = {r}, NEW b \in Blocks, r \in b,
         NEW u \in units, u \notin b, NEW y \in b
  PROVE  y \notin Deps(u)
<1>. SUFFICES ASSUME y \in Deps(u) PROVE FALSE
  OBVIOUS
<1>1. b \in SUBSET units /\ u \in Dependents(y) /\ y \in units
  BY BlockFacts DEF Dependents
<1>2. Dependents(r) = {}
  BY DEF Roots
<1>3. y # r /\ u # r
  BY <1>1, <1>2
<1>4. u \in EffectiveDependents(y) /\ EffectiveDependents(r) = {}
  BY <1>1, <1>2, <1>3 DEF EffectiveDependents
<1>5. b \in packs
  BY <1>3, BlockFacts
<1>. PICK bin \in SUBSET b :
        /\ bin # {} /\ Alike(bin)
        /\ \/ b = bin
           \/ \E o \in b \ bin : b = bin \cup {o} /\ Candidate(bin) = {o} /\ bin \subseteq Deps(o)
  BY <1>5 DEF Packing, Packed
<1>6. \A x, z \in bin : EffectiveDependents(x) = EffectiveDependents(z)
  BY DEF Alike, KeyOf
<1>7. CASE r \in bin
  <2>1. y \notin bin
    BY <1>4, <1>6, <1>7
  <2>2. bin \subseteq Deps(y)
    BY <2>1
  <2>3. y \in Dependents(r)
    BY <1>1, <1>7, <2>2 DEF Dependents
  <2>. QED
    BY <1>2, <2>3
<1>8. CASE r \notin bin
  <2>1. b = bin \cup {r} /\ Candidate(bin) = {r} /\ y \in bin
    BY <1>3, <1>8
  <2>. PICK c \in bin : c = CHOOSE x \in bin : TRUE
    OBVIOUS
  <2>2. EffectiveDependents(c) # {}
    BY <1>4, <1>6, <2>1
  <2>3. r \in EffectiveDependents(c)
    BY <2>1, <2>2 DEF Candidate
  <2>. QED
    BY <2>3 DEF EffectiveDependents
<1>. QED
  BY <1>7, <1>8

\* What depends on a member of a block depends on all of it, or on the unit that owns it.
LEMMA BlockEntered ==
  ASSUME Shared, Packing, NEW r \in units, Roots = {r}, NEW b \in Blocks,
         NEW u \in units, u \notin b, u # r, NEW y \in b, y \in Deps(u)
  PROVE  (\A x \in b : x \in Deps(u)) \/ (b # {y} /\ \A x \in b \ {y} : x \in Deps(y))
<1>1. b \in SUBSET units /\ u \in EffectiveDependents(y)
  BY BlockFacts DEF EffectiveDependents, Dependents
<1>2. CASE \E v \in units : b = {v}
  BY <1>2
<1>3. CASE b \in packs
  <2>. PICK bin \in SUBSET b :
          /\ bin # {} /\ Alike(bin)
          /\ \/ b = bin
             \/ \E o \in b \ bin : b = bin \cup {o} /\ Candidate(bin) = {o} /\ bin \subseteq Deps(o)
    BY <1>3 DEF Packing, Packed
  <2>1. \A x, z \in bin : EffectiveDependents(x) = EffectiveDependents(z)
    BY DEF Alike, KeyOf
  <2>2. CASE b = bin
    <3>1. \A x \in b : u \in EffectiveDependents(x)
      BY <1>1, <2>1, <2>2
    <3>. QED
      BY <3>1 DEF EffectiveDependents, Dependents
  <2>3. ASSUME NEW o \in b \ bin, b = bin \cup {o}, Candidate(bin) = {o}, bin \subseteq Deps(o)
        PROVE  b # {y} /\ \A x \in b \ {y} : x \in Deps(y)
    <3>1. y \notin bin
      <4>. SUFFICES ASSUME y \in bin PROVE FALSE
        OBVIOUS
      <4>. PICK c \in bin : c = CHOOSE x \in bin : TRUE
        OBVIOUS
      <4>1. u \in EffectiveDependents(c)
        BY <1>1, <2>1
      <4>2. Candidate(bin) = EffectiveDependents(c)
        BY <4>1 DEF Candidate
      <4>. QED
        BY <2>3, <4>1, <4>2
    <3>2. y = o
      BY <2>3, <3>1
    <3>. QED
      BY <2>3, <3>2
  <2>. QED
    BY <2>2, <2>3
<1>. QED
  BY <1>2, <1>3, BlockFacts

\* A unit of one block depends on a unit of the other.
Enters(b, c) == b # c /\ \E u \in b, v \in c : v \in Deps(u)

\* The units a merged unit depends on are those its block enters.
LEMMA MergedDeps ==
  ASSUME Shared, Packing, units' = Merged, declared' = declared,
         NEW b \in Blocks, NEW x, x \in Deps(UNION b)'
  PROVE  \E c \in Blocks : x = UNION c /\ Enters(b, c)
<1>. PICK w : w = UNION b
  OBVIOUS
<1>1. x \in Merged /\ x # w /\ \E m \in w : declared[m] \cap x # {}
  BY DEF Deps
<1>. PICK c \in Blocks : x = UNION c
  BY <1>1, BlockFacts
<1>2. b # c
  BY <1>1
<1>. PICK m \in w : declared[m] \cap x # {}
  BY <1>1
<1>. PICK u \in b : m \in u
  OBVIOUS
<1>. PICK n \in declared[m] : n \in x
  OBVIOUS
<1>. PICK v \in c : n \in v
  OBVIOUS
<1>3. u \in units /\ v \in units /\ u # v
  BY <1>2, BlockFacts
<1>4. v \in Deps(u)
  BY <1>3 DEF Deps
<1>. QED
  BY <1>2, <1>4 DEF Enters

\* Blocks that enter one another would close a cycle over the units they are made of.
LEMMA BlocksAcyclic ==
  ASSUME Shared, Packing, Acyclic, NEW r \in units, Roots = {r},
         NEW D \in SUBSET Blocks, D # {}, \A b \in D : r \notin b, \A b \in D : \E c \in D : Enters(b, c)
  PROVE  FALSE
<1>. DEFINE Exit(u) == \E b \in D : u \in b /\ \E c \in D : c # b /\ \E y \in c : y \in Deps(u)
            Owns(u) == \E b \in D : u \in b /\ b # {u} /\ \A x \in b \ {u} : x \in Deps(u)
<1>1. \A b \in D : b \in SUBSET units
  BY BlockFacts
<1>2. \A b \in D : \E x \in b : Exit(x)
  BY DEF Enters
<1>. PICK S \in SUBSET units : S = {u \in units : Exit(u) \/ Owns(u)}
  OBVIOUS
<1>3. \A u \in units : u \in S <=> Exit(u) \/ Owns(u)
  OBVIOUS
<1>4. S # {}
  BY <1>1, <1>2, <1>3
<1>. PICK u \in S : Deps(u) \cap S = {}
  BY <1>4 DEF Acyclic
<1>5. CASE Exit(u)
  <2>. PICK b \in D, c \in D : u \in b /\ c # b /\ \E y \in c : y \in Deps(u)
    BY <1>5
  <2>. PICK y \in c : y \in Deps(u)
    OBVIOUS
  <2>1. u \notin c /\ u # r /\ c \in Blocks /\ y \in units
    BY <1>1, BlockFacts
  <2>2. (\A x \in c : x \in Deps(u)) \/ (c # {y} /\ \A x \in c \ {y} : x \in Deps(y))
    BY <2>1, BlockEntered
  <2>3. CASE \A x \in c : x \in Deps(u)
    <3>. PICK x \in c : Exit(x)
      BY <1>2
    <3>1. x \in S
      BY <1>1, <1>3
    <3>. QED
      BY <2>3, <3>1
  <2>4. CASE c # {y} /\ \A x \in c \ {y} : x \in Deps(y)
    <3>1. Owns(y)
      BY <2>4
    <3>2. y \in S
      BY <1>3, <2>1, <3>1
    <3>. QED
      BY <3>2
  <2>. QED
    BY <2>2, <2>3, <2>4
<1>6. CASE Owns(u) /\ ~Exit(u)
  <2>. PICK b \in D : u \in b /\ b # {u} /\ \A x \in b \ {u} : x \in Deps(u)
    BY <1>6
  <2>. PICK x \in b : Exit(x)
    BY <1>2
  <2>1. x # u
    BY <1>6
  <2>2. x \in S /\ x \in Deps(u)
    BY <1>1, <1>3, <2>1
  <2>. QED
    BY <2>2
<1>. QED
  BY <1>3, <1>5, <1>6

LEMMA EndPassAcyclic ==
  ASSUME Shared, Packing, declared \in [Modules -> SUBSET Modules], Rooted, Acyclic,
         units' = Merged, declared' = declared
  PROVE  Acyclic'
<1>. SUFFICES ASSUME NEW T \in SUBSET Merged, T # {}, \A x \in T : Deps(x)' \cap T # {} PROVE FALSE
  BY DEF Acyclic
<1>. PICK r \in units : Roots = {r}
  BY OneRoot
<1>. PICK home \in Blocks : r \in home
  BY BlockFacts
<1>1. \A b \in Blocks : ~Enters(b, home)
  <2>. SUFFICES ASSUME NEW b \in Blocks, b # home, NEW u \in b, NEW v \in home, v \in Deps(u) PROVE FALSE
    BY DEF Enters
  <2>1. u \in units /\ u \notin home
    BY BlockFacts
  <2>. QED
    BY <2>1, RootBlock
<1>. PICK C \in SUBSET Blocks : C = {b \in Blocks : UNION b \in T}
  OBVIOUS
<1>2. \A x \in T : \E b \in C : x = UNION b
  <2>1. \A x \in Merged : \E b \in Blocks : x = UNION b
    BY BlockFacts
  <2>. TAKE x \in T
  <2>. PICK b \in Blocks : x = UNION b
    BY <2>1
  <2>2. b \in C
    OBVIOUS
  <2>. QED
    BY <2>2
<1>3. \A b \in C : \E c \in C : Enters(b, c)
  <2>. TAKE b \in C
  <2>. PICK w \in T : w = UNION b
    OBVIOUS
  <2>. PICK x \in T : x \in Deps(w)'
    OBVIOUS
  <2>1. x \in Deps(UNION b)'
    BY DEF Deps
  <2>. PICK c \in Blocks : x = UNION c /\ Enters(b, c)
    BY <2>1, MergedDeps
  <2>. QED
    OBVIOUS
<1>. PICK D \in SUBSET Blocks : D = C \ {home}
  OBVIOUS
<1>4. \A b \in C : \E c \in D : Enters(b, c)
  BY <1>1, <1>3
<1>5. D # {} /\ \A b \in D : \E c \in D : Enters(b, c)
  BY <1>2, <1>4
<1>6. \A b \in D : r \notin b
  BY BlockFacts
<1>. QED
  BY <1>5, <1>6, BlocksAcyclic

\* Components are closed after all they depend on.
LEMMA ComponentsAcyclic ==
  ASSUME SearchSound, units' = Components, declared' = declared, sccs' = sccs PROVE Acyclic'
<1>. SUFFICES ASSUME NEW T \in SUBSET Components, T # {} PROVE \E u \in T : Deps(u)' \cap T = {}
  BY DEF Acyclic
<1>. PICK I \in SUBSET Nat : I = {i \in DOMAIN sccs : sccs[i] \in T}
  <2>1. DOMAIN sccs \subseteq Nat
    BY SccFacts
  <2>. QED
    BY <2>1
<1>1. I # {} /\ \A u \in T : \E i \in I : sccs[i] = u
  BY DEF Components, Range
<1>. PICK i \in I : \A j \in I : i <= j
  BY <1>1, MinFacts
<1>2. ASSUME NEW j \in I, sccs[j] \in Deps(sccs[i])' PROVE FALSE
  <2>. PICK u, v : u = sccs[i] /\ v = sccs[j]
    OBVIOUS
  <2>0. v \in Deps(u)'
    BY <1>2 DEF Deps
  <2>1. v # u /\ \E m \in u : declared[m] \cap v # {}
    BY <2>0 DEF Deps
  <2>. PICK m \in u, n \in v : n \in declared[m]
    BY <2>1
  <2>2. u \cap v = {}
    BY <2>1, SccFacts
  <2>3. n \in Adj(m)
    BY <2>2 DEF Adj
  <2>4. j \in Succ(i)
    BY <2>1, <2>3 DEF Succ
  <2>5. j < i /\ i <= j /\ i \in Nat /\ j \in Nat
    BY <2>4, SccFacts
  <2>. QED
    BY <2>5
<1>. PICK u \in T : u = sccs[i]
  OBVIOUS
<1>3. Deps(u)' \cap T = {}
  <2>. SUFFICES ASSUME NEW v \in T, v \in Deps(u)' PROVE FALSE
    OBVIOUS
  <2>. PICK j \in I : sccs[j] = v
    BY <1>1
  <2>1. sccs[j] \in Deps(sccs[i])'
    BY DEF Deps
  <2>. QED
    BY <1>2, <2>1
<1>. QED
  BY <1>3

LEMMA AcyclicStays ==
  ASSUME Acyclic, UNCHANGED <<declared, units>> PROVE Acyclic'
<1>1. \A u : Deps(u)' = Deps(u)
  BY DEF Deps
<1>. QED
  BY <1>1 DEF Acyclic

LEMMA NotCyclicNext ==
  ASSUME OrderSound, PlanSound, NotCyclic, [Next]_vars PROVE NotCyclic'
<1>. SUFFICES ASSUME Begun', Rooted' PROVE Acyclic'
  BY DEF NotCyclic
<1>1. declared' = declared
  <2>1. CASE PlanStep
    BY <2>1, PlanStepKeeps DEF input
  <2>2. CASE OrderNext \/ UNCHANGED vars
    BY <2>2 DEF OrderNext, Start, Look, Close, Condense, EmitWave, Ordered, input, vars, orderVars
  <2>. QED
    BY <2>1, <2>2 DEF Next
<1>2. Rooted
  BY <1>1 DEF Rooted
<1>3. CASE OrderNext
  BY <1>3 DEF OrderNext, Start, Look, Close, Condense, EmitWave, Ordered, Begun
<1>4. CASE BeginPlan
  <2>1. units' = Components /\ UNCHANGED sccs
    <3>1. PlanSound' /\ OrderSound'
      BY <1>4, BeginPlanInv, OrderInvNext
    <3>2. stage = "ordered" /\ units' = {order[k].modules : k \in DOMAIN order} /\ UNCHANGED sccs
      BY <1>4 DEF BeginPlan, orderUnchanged, search
    <3>3. SearchSound /\ Emitting /\ Pending = {} /\ Gone = DOMAIN sccs
      BY <3>2 DEF OrderSound, WaveInv, Gone
    <3>4. \A k \in DOMAIN order : \E i \in DOMAIN sccs : order[k].modules = sccs[i]
      BY <3>3 DEF Emitting, UnitIs
    <3>5. \A i \in DOMAIN sccs : \E k \in DOMAIN order : order[k].modules = sccs[i]
      BY <3>3 DEF Emitting, UnitIs
    <3>6. \A u : u \in Components <=> \E i \in DOMAIN sccs : sccs[i] = u
      BY DEF Components, Range
    <3>. QED
      BY <3>2, <3>4, <3>5, <3>6
  <2>. QED
    BY <1>1, <2>1, ComponentsAcyclic DEF OrderSound
<1>5. CASE EndPass
  <2>1. stage = "packing" /\ units' = Merged
    BY <1>5 DEF EndPass, PassOver
  <2>2. Shared /\ Packing /\ Begun
    BY <2>1 DEF PlanSound, Begun
  <2>3. Acyclic /\ declared \in [Modules -> SUBSET Modules]
    BY <1>2, <2>2 DEF NotCyclic, OrderSound, SearchSound, InputType
  <2>. QED
    BY <1>1, <1>2, <2>1, <2>2, <2>3, EndPassAcyclic
<1>6. CASE \/ BeginPass \/ TakeGroup \/ AddMember \/ PackBin \/ EmitLevel \/ Throw \/ LevelsDone \/ EmitFeatures
           \/ FeaturesOrdered \/ SplitUnit \/ Annotate \/ EndPlan
  <2>1. Begun /\ units' = units
    BY <1>6 DEF BeginPass, TakeGroup, AddMember, PackBin, EmitLevel, Throw, LevelsDone, EmitFeatures,
           FeaturesOrdered, SplitUnit, Annotate, EndPlan, Begun
  <2>. QED
    BY <1>1, <1>2, <2>1, AcyclicStays DEF NotCyclic
<1>7. CASE UNCHANGED vars
  <2>1. Begun /\ units' = units
    BY <1>7 DEF vars, orderVars, Begun
  <2>. QED
    BY <1>1, <1>2, <2>1, AcyclicStays DEF NotCyclic
<1>. QED
  BY <1>3, <1>4, <1>5, <1>6, <1>7 DEF Next, PlanStep

\* While units wait, one of them has nothing to wait for.
LEMMA SomeReady ==
  ASSUME Acyclic, Topological, Emitted # units PROVE Ready # {}
<1>. PICK S \in SUBSET units : S = units \ Emitted
  OBVIOUS
<1>1. Emitted \subseteq units
  BY DEF Emitted, Range, Topological
<1>2. S # {}
  BY <1>1
<1>. PICK u \in S : Deps(u) \cap S = {}
  BY <1>2 DEF Acyclic
<1>3. Deps(u) \subseteq Emitted
  BY DEF Deps
<1>. QED
  BY <1>3 DEF Ready

LEMMA NeverThrowsNext ==
  ASSUME LaidSound, NotCyclic, NeverThrows, [Next]_vars PROVE NeverThrows'
<1>. SUFFICES ASSUME Rooted', stage' = "thrown" PROVE FALSE
  BY DEF NeverThrows
<1>1. CASE Throw
  <2>1. stage = "levels" /\ Ready = {} /\ Emitted # units /\ declared' = declared
    BY <1>1 DEF Throw, inputUnchanged, orderUnchanged, input
  <2>2. Rooted /\ Begun
    BY <2>1 DEF Rooted, Begun
  <2>. QED
    BY <2>1, <2>2, SomeReady DEF NotCyclic, LaidSound
<1>2. CASE UNCHANGED vars
  <2>1. stage = "thrown" /\ declared' = declared
    BY <1>2 DEF vars, orderVars, input
  <2>. QED
    BY <2>1 DEF NeverThrows, Rooted
<1>. QED
  BY <1>1, <1>2 DEF Next, OrderNext, Start, Look, Close, Condense, EmitWave, Ordered, PlanStep, BeginPlan, BeginPass,
     TakeGroup, AddMember, PackBin, EndPass, EmitLevel, LevelsDone, EmitFeatures, FeaturesOrdered, SplitUnit,
     Annotate, EndPlan, inputUnchanged, orderUnchanged

\* Merging units never closes a cycle over them, so the second ordering does not throw, in a
\* project one module of which needs all the others (unit-planning.ts:542-580).
THEOREM PlanningNeverThrows == Spec => []NeverThrows
<1>1. Init => OrderSound /\ PlanSound /\ SlicesSound /\ LaidSound /\ NotCyclic /\ NeverThrows
  <2>1. Init => NotCyclic /\ NeverThrows
    BY DEF Init, OrderInit, NotCyclic, NeverThrows, Begun
  <2>. QED
    BY <2>1, OrderInvInit, PlanSoundInit, SlicesSoundInit, LaidInit
<1>2. OrderSound /\ PlanSound /\ SlicesSound /\ LaidSound /\ NotCyclic /\ NeverThrows /\ [Next]_vars
      => (OrderSound /\ PlanSound /\ SlicesSound /\ LaidSound /\ NotCyclic /\ NeverThrows)'
  BY OrderInvNext, PlanSoundNext, SlicesSoundNext, LaidNext, NotCyclicNext, NeverThrowsNext
<1>. QED
  BY <1>1, <1>2, PTL DEF Spec

=================================================================================
