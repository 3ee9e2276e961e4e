--------------------------- MODULE MigrationOrder ---------------------------
(***************************************************************************)
(* The migration order (src/migration/order/topo.ts): modules that need    *)
(* one another are collapsed into one unit by an iterative depth-first     *)
(* search (Tarjan), and the units are emitted bottom-up, in waves of units *)
(* that may be migrated at the same time.                                  *)
(*                                                                         *)
(* The computation is sequential; a step of the search is one turn of its  *)
(* loop.  Module ids are numbers, ordered as the ids are when sorted; the  *)
(* label of a unit sorts as its least module does.                         *)
(***************************************************************************)
EXTENDS Integers, FiniteSetsExt, SequencesExt

CONSTANTS
    Modules,    \* a finite set of numbers
    Declared,   \* the declared dependency graphs considered, [Modules -> SUBSET Modules]
    Lifted,     \* the implicit couplings that "includeLifted" adds to them
    DevOnlys    \* the sets of modules that may be tagged dev-only

ASSUME OrderAssumption ==
    /\ Modules \subseteq Nat /\ IsFiniteSet(Modules)
    /\ Declared \cup Lifted \subseteq [Modules -> SUBSET Modules]
    /\ \A g \in Declared, m \in Modules : m \notin g[m]
    /\ DevOnlys \subseteq SUBSET Modules

VARIABLES
    declared, lifted, devOnly,      \* the input
    stage,      \* how far the computation is
    index, low, stack, frames,      \* the search: 0 for a module not met yet
    sccs,       \* the components found, in the order they were closed
    outstanding,    \* outstanding[i]: dependencies of sccs[i] not emitted; defined while sccs[i] waits
    order       \* the units emitted: [modules, wave, dependsOn]

input == <<declared, lifted, devOnly>>
search == <<index, low, stack, frames, sccs>>
orderVars == <<input, stage, search, outstanding, order>>

Adj(m) == (declared[m] \cup lifted[m]) \ {m}
Unmet == {m \in Modules : index[m] = 0}
Top == Last(frames)
DevOnlyUnit(u) == u \subseteq devOnly

\* Product units before dev-only ones, then by label.
Before(u, v) ==
    IF DevOnlyUnit(u) = DevOnlyUnit(v) THEN Min(u) < Min(v) ELSE DevOnlyUnit(v)

\* The elements of a set, sorted: ahead[x] is the set of those that come before x.
InOrder(ahead) ==
    [k \in 1..Cardinality(DOMAIN ahead) |-> CHOOSE x \in DOMAIN ahead : Cardinality(ahead[x]) = k - 1]

OrderInit ==
    /\ declared \in Declared /\ lifted \in Lifted /\ devOnly \in DevOnlys
    /\ stage = "search"
    /\ index = [m \in Modules |-> 0] /\ low = index
    /\ stack = <<>> /\ frames = <<>> /\ sccs = <<>>
    /\ outstanding = <<>> /\ order = <<>>

----------------------------------------------------------------------------
(* tarjanSCC()                                                             *)

\* Module w is met: it gets the next number and a frame on top of "below".
Meet(w, below) ==
    LET counter == Cardinality(Modules \ Unmet) + 1
    IN  /\ index' = [index EXCEPT ![w] = counter]
        /\ low' = [low EXCEPT ![w] = counter]
        /\ stack' = Append(stack, w)
        /\ frames' = Append(below, [node |-> w, rest |-> Adj(w)])

\* The outer loop: the next module not met starts a tree.
Start ==
    /\ stage = "search" /\ frames = <<>> /\ Unmet # {}
    /\ Meet(Min(Unmet), <<>>)
    /\ UNCHANGED <<input, stage, sccs, outstanding, order>>

\* The next neighbour w of the module on top.
Look ==
    /\ stage = "search" /\ frames # <<>> /\ Top.rest # {}
    /\ LET w == Min(Top.rest)
           looked == [frames EXCEPT ![Len(frames)].rest = @ \ {w}]
       IN  \/ /\ w \in Unmet
              /\ Meet(w, looked)
           \/ /\ w \notin Unmet
              /\ low' = IF w \in Range(stack)
                        THEN [low EXCEPT ![Top.node] = Min({@, index[w]})] ELSE low
              /\ frames' = looked
              /\ UNCHANGED <<index, stack>>
    /\ UNCHANGED <<input, stage, sccs, outstanding, order>>

\* A slip: what a module reached is not passed on to the one it was reached from.
CloseAlone ==
    /\ stage = "search" /\ frames # <<>> /\ Top.rest = {}
    /\ LET v == Top.node
           closes == low[v] = index[v]
           at == CHOOSE k \in 1..Len(stack) : stack[k] = v
       IN  /\ sccs' = IF closes THEN Append(sccs, Range(SubSeq(stack, at, Len(stack)))) ELSE sccs
           /\ stack' = IF closes THEN SubSeq(stack, 1, at - 1) ELSE stack
    /\ frames' = Front(frames)
    /\ UNCHANGED <<input, stage, index, low, outstanding, order>>

\* The module on top has no neighbour left: it closes its component if it is the first
\* of it, and hands its low number to the module it was reached from.
Close ==
    /\ stage = "search" /\ frames # <<>> /\ Top.rest = {}
    /\ LET v == Top.node
           closes == low[v] = index[v]
           at == CHOOSE k \in 1..Len(stack) : stack[k] = v
       IN  /\ sccs' = IF closes THEN Append(sccs, Range(SubSeq(stack, at, Len(stack)))) ELSE sccs
           /\ stack' = IF closes THEN SubSeq(stack, 1, at - 1) ELSE stack
           /\ low' = IF Len(frames) = 1 THEN low
                     ELSE [low EXCEPT ![frames[Len(frames) - 1].node] = Min({@, low[v]})]
    /\ frames' = Front(frames)
    /\ UNCHANGED <<input, stage, index, outstanding, order>>

----------------------------------------------------------------------------
(* computeMigrationOrder(), once the components are known                  *)

\* The components that component i depends on, by position.
Succ(i) == {j \in DOMAIN sccs \ {i} : \E m \in sccs[i] : Adj(m) \cap sccs[j] # {}}

Condense ==
    /\ stage = "search" /\ frames = <<>> /\ Unmet = {}
    /\ outstanding' = [i \in DOMAIN sccs |-> Cardinality(Succ(i))]
    /\ stage' = "waves"
    /\ UNCHANGED <<input, search, order>>

Frontier == {i \in DOMAIN outstanding : outstanding[i] = 0}

\* A slip: a unit leaves with the last of its dependencies.
FrontierEarly == {i \in DOMAIN outstanding : outstanding[i] <= 1}

UnitOf(i, wave) ==
    [modules |-> sccs[i], wave |-> wave, dependsOn |-> {sccs[j] : j \in Succ(i)}]

NextWave == IF order = <<>> THEN 0 ELSE Last(order).wave + 1

\* Every unit of the frontier is emitted, and counts down the units that depend on it.
EmitWaveOf(frontier) ==
    LET emitted == InOrder([i \in frontier |-> {j \in frontier : Before(sccs[j], sccs[i])}])
    IN  /\ order' = order \o [k \in DOMAIN emitted |-> UnitOf(emitted[k], NextWave)]
        /\ outstanding' = [i \in DOMAIN outstanding \ frontier |->
                              outstanding[i] - Cardinality(Succ(i) \cap frontier)]

EmitWaveEarly ==
    /\ stage = "waves" /\ FrontierEarly # {}
    /\ EmitWaveOf(FrontierEarly)
    /\ UNCHANGED <<input, stage, search>>

EmitWave ==
    /\ stage = "waves" /\ Frontier # {}
    /\ EmitWaveOf(Frontier)
    /\ UNCHANGED <<input, stage, search>>

\* An empty frontier ends the loop, whatever is still waiting.
Ordered ==
    /\ stage = "waves" /\ Frontier = {}
    /\ stage' = "ordered"
    /\ UNCHANGED <<input, search, outstanding, order>>

OrderNext == Start \/ Look \/ Close \/ Condense \/ EmitWave \/ Ordered

----------------------------------------------------------------------------
(* What the order promises                                                 *)

\* What x reaches in a graph, a function from nodes to sets of them, by one step or more: the
\* least set that has the successors of x and those of its own members.
Reach(graph, x) ==
    {y \in DOMAIN graph :
        \A S \in SUBSET DOMAIN graph :
            graph[x] \subseteq S /\ (\A z \in S : graph[z] \subseteq S) => y \in S}

Needs(m) == Reach([n \in Modules |-> Adj(n)], m)

\* A component is exactly the modules that need one another: the search neither splits
\* a cycle over two units nor fuses modules that no cycle joins (topo.ts:156-205).
ComponentsExact ==
    \A i \in DOMAIN sccs : \A m \in sccs[i] :
        sccs[i] = {m} \cup {x \in Needs(m) : m \in Needs(x)}

\* The wave of a unit is the length of its longest chain of dependencies: what it
\* depends on is emitted, in earlier waves, the last of them just before; and at the end
\* every module is in one unit of the order, so no unit was left waiting (topo.ts:97-139).
WavesAreDepths ==
    /\ \A k \in DOMAIN order :
          LET below == {j \in DOMAIN order : order[j].modules \in order[k].dependsOn}
          IN  /\ {order[j].modules : j \in below} = order[k].dependsOn
              /\ order[k].wave = IF below = {} THEN 0 ELSE 1 + Max({order[j].wave : j \in below})
              /\ \A j \in below : j < k
    /\ stage \notin {"search", "waves"} =>
          \A m \in Modules : Cardinality({k \in DOMAIN order : m \in order[k].modules}) = 1
=============================================================================
