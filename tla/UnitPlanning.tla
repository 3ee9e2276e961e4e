---------------------------- MODULE UnitPlanning ----------------------------
(***************************************************************************)
(* Unit planning (src/migration/plan/unit-planning.ts), on the order that  *)
(* MigrationOrder computes: small units are merged, pass by pass, until a  *)
(* pass packs nothing; the merged units are ordered again; an oversized    *)
(* module is split into its features and a remainder; and every planned    *)
(* unit is given its dependencies and its wave.                            *)
(*                                                                         *)
(* A unit is a set of modules.  The code visits groups, and the members of *)
(* a group, in an order that feature keys and labels decide: here, in any  *)
(* order.                                                                  *)
(***************************************************************************)
EXTENDS MigrationOrder

CONSTANTS
    Sizes,          \* the symbol counts considered, [Modules -> Nat]
    MinUnit,        \* minUnitSymbols: below it, a unit is small
    MaxUnit,        \* maxUnitSymbols
    Features,       \* the features of an oversized module: numbers, ordered as they rank
    FeatureGraphs,  \* the graphs considered on them, [Features -> SUBSET Features]
    MaxRests        \* bound: slices of a remainder

ASSUME PlanAssumption ==
    /\ Sizes \subseteq [Modules -> Nat]
    /\ MinUnit \in Nat /\ MaxUnit \in Nat /\ MinUnit <= MaxUnit
    /\ Features \subseteq Nat \ {0} /\ IsFiniteSet(Features)
    /\ FeatureGraphs \subseteq [Features -> SUBSET Features]
    /\ MaxRests \in Nat

VARIABLES
    size,                   \* symbol counts, read when planning begins
    featureDeps, rests,     \* the feature graph, and how many slices the remainder makes, read
                            \* when an oversized module is split
    units,      \* the current units
    groups,     \* groups of small units this pass has not taken yet
    members,    \* members of the group taken that are in no bin yet
    bins,       \* the bins of that group not looked at yet; the last is open
    packs,      \* the sets of units this pass will merge
    consumed,   \* units in a pack
    ordered,    \* the merged units, in order
    slices,     \* the features of the oversized module, in order
    parts,      \* what the units of "ordered" are split into: [modules, slice]
    plan        \* the planned units: [modules, slice, dependsOn, wave]

pass == <<groups, members, bins, packs, consumed>>
planInput == <<size, featureDeps, rests>>
vars == <<orderVars, planInput, units, pass, ordered, slices, parts, plan>>
orderUnchanged == UNCHANGED <<input, search, outstanding, order>>
inputUnchanged == orderUnchanged /\ UNCHANGED planInput

Size(u) == SumFunctionOnSet(size, u)
SizeOf(bin) == SumFunctionOnSet([u \in units |-> Size(u)], bin)

\* unitAdjacency(): declared dependencies, projected onto the units.
Deps(u) == {v \in units \ {u} : \E m \in u : declared[m] \cap v # {}}
Dependents(u) == {v \in units : u \in Deps(v)}
Roots == {u \in units : Dependents(u) = {}}
EffectiveDependents(u) == Dependents(u) \ Roots
Reachable(u) == Reach([v \in units |-> Deps(v)], u)
HasPath(u, v) == v \in Reachable(u) \/ u \in Reachable(v)

\* Features are split along for one module at most, which is not part of a cycle.
Oversized == {u \in units : Cardinality(u) = 1 /\ Size(u) > MaxUnit}

Init ==
    /\ OrderInit
    /\ size = [m \in Modules |-> 0] /\ featureDeps = [f \in Features |-> {}] /\ rests = 0
    /\ units = {} /\ groups = {} /\ members = {} /\ bins = <<>>
    /\ packs = {} /\ consumed = {}
    /\ ordered = <<>> /\ slices = <<>> /\ parts = <<>> /\ plan = <<>>

----------------------------------------------------------------------------
(* mergeSmallUnits()                                                       *)

\* planUnits() begins, with the units of the order.
BeginPlan ==
    /\ stage = "ordered"
    /\ size' \in Sizes
    /\ units' = {order[k].modules : k \in DOMAIN order}
    /\ stage' = "pass"
    /\ orderUnchanged
    /\ UNCHANGED <<featureDeps, rests, pass, ordered, slices, parts, plan>>

Small == {u \in units : Size(u) < MinUnit}
KeyOf(u) == <<DevOnlyUnit(u), EffectiveDependents(u)>>

\* Small units are grouped by track and by who depends on them, roots left out.
BeginPass ==
    /\ stage = "pass"
    /\ groups' = {{v \in Small : KeyOf(v) = KeyOf(u)} : u \in Small}
    /\ packs' = {} /\ consumed' = {}
    /\ stage' = "packing"
    /\ inputUnchanged
    /\ UNCHANGED <<units, members, bins, ordered, slices, parts, plan>>

TakeGroup ==
    /\ stage = "packing" /\ members = {} /\ bins = <<>>
    /\ \E g \in groups :
          /\ groups' = groups \ {g}
          /\ members' = g \ consumed
    /\ inputUnchanged
    /\ UNCHANGED <<stage, units, bins, packs, consumed, ordered, slices, parts, plan>>

\* Unit u may not join the bin: the bin is big enough, or u would overflow it, or a path
\* joins u to a member.
Overflows(bin, u) ==
    \/ SizeOf(bin) >= MinUnit
    \/ SizeOf(bin) + Size(u) > MaxUnit
    \/ \E v \in bin : HasPath(u, v)

AddMember ==
    /\ stage = "packing"
    /\ \E u \in members :
          /\ members' = members \ {u}
          /\ bins' = IF bins = <<>> \/ Overflows(Last(bins), u) THEN Append(bins, {u})
                     ELSE [bins EXCEPT ![Len(bins)] = @ \cup {u}]
    /\ inputUnchanged
    /\ UNCHANGED <<stage, units, groups, packs, consumed, ordered, slices, parts, plan>>

\* A slip: with several owners, the bin goes to the root.
CandidateOrRoot(bin) ==
    LET owners == EffectiveDependents(CHOOSE u \in bin : TRUE)
    IN  IF Cardinality(owners) = 1 THEN owners ELSE Roots

\* The one unit that depends on this bin's group; the only root, if none but roots do.
Candidate(bin) ==
    LET owners == EffectiveDependents(CHOOSE u \in bin : TRUE)
    IN  IF owners = {} THEN Roots ELSE owners

\* A slip: the owner need not be on the bin's track.
OwnerAnyTrack(bin) ==
    {o \in Candidate(bin) :
        /\ Cardinality(Candidate(bin)) = 1 /\ o \notin consumed
        /\ bin \subseteq Deps(o)
        /\ SizeOf(bin) < MinUnit /\ Size(o) + SizeOf(bin) <= MaxUnit}

\* The unit the bin is folded into, if there is one.
Owner(bin) ==
    {o \in Candidate(bin) :
        /\ Cardinality(Candidate(bin)) = 1 /\ o \notin consumed
        /\ DevOnlyUnit(o) = DevOnlyUnit(UNION bin)
        /\ bin \subseteq Deps(o)
        /\ SizeOf(bin) < MinUnit /\ Size(o) + SizeOf(bin) <= MaxUnit}

\* The next bin: folded into its owner, or merged, or left alone if it has one member.
PackBin ==
    /\ stage = "packing" /\ members = {} /\ bins # <<>>
    /\ LET bin == Head(bins)
           pack == bin \cup Owner(bin)
           packed == Cardinality(pack) >= 2
       IN  /\ packs' = IF packed THEN packs \cup {pack} ELSE packs
           /\ consumed' = IF packed THEN consumed \cup pack ELSE consumed
    /\ bins' = Tail(bins)
    /\ inputUnchanged
    /\ UNCHANGED <<stage, units, groups, members, ordered, slices, parts, plan>>

PassOver == stage = "packing" /\ members = {} /\ bins = <<>> /\ groups = {}
Merged == {UNION pack : pack \in packs} \cup (units \ UNION packs)

\* A slip: a pass that packed nothing is followed by another.
EndPassAgain ==
    /\ PassOver
    /\ units' = Merged
    /\ stage' = "pass"
    /\ inputUnchanged
    /\ UNCHANGED <<pass, ordered, slices, parts, plan>>

\* The packs are merged; a pass that leaves as many units as it found is the last.
EndPass ==
    /\ PassOver
    /\ units' = Merged
    /\ stage' = IF Cardinality(Merged) = Cardinality(units) THEN "levels" ELSE "pass"
    /\ inputUnchanged
    /\ UNCHANGED <<pass, ordered, slices, parts, plan>>

----------------------------------------------------------------------------
(* orderPlannedUnits() and orderFeatures()                                 *)

Emitted == Range(ordered)
Ready == {u \in units \ Emitted : Deps(u) \subseteq Emitted}

EmitLevel ==
    /\ stage = "levels" /\ Ready # {}
    /\ ordered' = ordered \o InOrder([u \in Ready |-> {v \in Ready : Before(v, u)}])
    /\ inputUnchanged
    /\ UNCHANGED <<stage, units, pass, slices, parts, plan>>

\* No unit is ready while some wait: the code throws.
Throw ==
    /\ stage = "levels" /\ Ready = {} /\ Emitted # units
    /\ stage' = "thrown"
    /\ inputUnchanged
    /\ UNCHANGED <<units, pass, ordered, slices, parts, plan>>

LevelsDone ==
    /\ stage = "levels" /\ Emitted = units
    /\ \/ /\ Oversized = {} /\ stage' = "split"
          /\ UNCHANGED <<featureDeps, rests>>
       \/ /\ Oversized # {} /\ stage' = "features"
          /\ featureDeps' \in FeatureGraphs /\ rests' \in 0..MaxRests
    /\ orderUnchanged
    /\ UNCHANGED <<size, units, pass, ordered, slices, parts, plan>>

Waiting == Features \ Range(slices)
ReadyFeatures == {f \in Waiting : featureDeps[f] \cap Waiting \subseteq {f}}

\* The features that are ready, by rank; if they form a cycle, the first of those left.
EmitFeatures ==
    /\ stage = "features" /\ Waiting # {}
    /\ LET ready == IF ReadyFeatures # {} THEN ReadyFeatures ELSE {Min(Waiting)}
       IN  slices' = slices \o InOrder([f \in ready |-> {g \in ready : g < f}])
    /\ inputUnchanged
    /\ UNCHANGED <<stage, units, pass, ordered, parts, plan>>

FeaturesOrdered ==
    /\ stage = "features" /\ Waiting = {}
    /\ stage' = "split"
    /\ inputUnchanged
    /\ UNCHANGED <<units, pass, ordered, slices, parts, plan>>

----------------------------------------------------------------------------
(* trySplit() and annotateUnitDependencies()                               *)

\* A unit as it is, or as the slices of a split: its features, then 0 - 1, 0 - 2, ... for
\* the remainder.  Slice 0 is a whole unit.
Sliced(u) ==
    IF u \in Oversized /\ Features # {}
    THEN [k \in 1..Len(slices) + rests |->
             [modules |-> u, slice |-> IF k <= Len(slices) THEN slices[k] ELSE Len(slices) - k]]
    ELSE <<[modules |-> u, slice |-> 0]>>

SplitUnit ==
    /\ stage = "split" /\ ordered # <<>>
    /\ parts' = parts \o Sliced(Head(ordered))
    /\ ordered' = Tail(ordered)
    /\ inputUnchanged
    /\ UNCHANGED <<stage, units, pass, slices, plan>>

\* A slice depends on the features its feature depends on; a slice of the remainder, on
\* every feature.
SiblingDependsOn(a, b) ==
    /\ a.modules = b.modules /\ b.slice > 0
    /\ a.slice > 0 => b.slice \in featureDeps[a.slice]

PartDependsOn(a, b) ==
    SiblingDependsOn(a, b) \/ \E m \in a.modules : declared[m] \cap b.modules # {}

Planned(part, below) ==
    [modules |-> part.modules, slice |-> part.slice, dependsOn |-> below,
     wave |-> Max({0} \cup {plan[j].wave + 1 : j \in below})]

\* A slip: a slice does not depend on the slices of its own module.
AnnotateApart ==
    /\ stage = "split" /\ ordered = <<>> /\ Len(plan) < Len(parts)
    /\ LET part == parts[Len(plan) + 1]
           below == {j \in DOMAIN plan : \E m \in part.modules : declared[m] \cap plan[j].modules # {}}
       IN  plan' = Append(plan, Planned(part, below))
    /\ inputUnchanged
    /\ UNCHANGED <<stage, units, pass, ordered, slices, parts>>

\* The next part: only the parts before it are looked at for its dependencies.
Annotate ==
    /\ stage = "split" /\ ordered = <<>> /\ Len(plan) < Len(parts)
    /\ LET part == parts[Len(plan) + 1]
           below == {j \in DOMAIN plan : PartDependsOn(part, plan[j])}
       IN  plan' = Append(plan, Planned(part, below))
    /\ inputUnchanged
    /\ UNCHANGED <<stage, units, pass, ordered, slices, parts>>

EndPlan ==
    /\ stage = "split" /\ ordered = <<>> /\ Len(plan) = Len(parts)
    /\ stage' = "done"
    /\ inputUnchanged
    /\ UNCHANGED <<units, pass, ordered, slices, parts, plan>>

----------------------------------------------------------------------------

PlanStep ==
    \/ BeginPlan \/ BeginPass \/ TakeGroup \/ AddMember \/ PackBin \/ EndPass
    \/ EmitLevel \/ Throw \/ LevelsDone \/ EmitFeatures \/ FeaturesOrdered \/ SplitUnit
    \/ Annotate \/ EndPlan

Next ==
    \/ OrderNext /\ UNCHANGED <<planInput, units, pass, ordered, slices, parts, plan>>
    \/ PlanStep

\* The command computes until it is done: nothing waits for anything outside it.
Spec == Init /\ [][Next]_vars /\ WF_vars(Next)

----------------------------------------------------------------------------
(* What the plan promises                                                  *)

Begun == stage \notin {"search", "waves", "ordered"}
Stages == {"search", "waves", "ordered", "pass", "packing", "levels", "features", "split",
           "done", "thrown"}

\* Every variable has its type; the frames of the search are the modules it is inside of.
TypeOK ==
    /\ stage \in Stages
    /\ index \in [Modules -> 0..Cardinality(Modules)] /\ low \in [Modules -> 0..Cardinality(Modules)]
    /\ Range(stack) \subseteq Modules /\ {f.node : f \in Range(frames)} \subseteq Range(stack)
    /\ DOMAIN outstanding \subseteq DOMAIN sccs /\ Range(outstanding) \subseteq Nat
    /\ units \subseteq SUBSET Modules
    /\ members \subseteq units /\ \A k \in DOMAIN bins : bins[k] \subseteq units
    /\ Range(slices) \subseteq Features /\ Len(slices) <= Cardinality(Features)

Components == Range(sccs)
Within(u) == {c \in Components : c \subseteq u}

\* At every point of the merging, the units share out the modules, none lost and none in two
\* units; no merge exceeds the maximum; and no unit mixes the dev-only track with the product
\* (unit-planning.ts:379-508).
UnitsSound ==
    /\ TypeOK
    /\ Begun => /\ \A m \in Modules : Cardinality({u \in units : m \in u}) = 1
                /\ \A u \in units \ Components :
                      /\ Size(u) <= MaxUnit
                      /\ u = UNION Within(u)
                      /\ \A c, d \in Within(u) : DevOnlyUnit(c) = DevOnlyUnit(d)

\* One module needs all the others, as the application module of a build does.
Rooted == \E m \in Modules : Modules \ {m} \subseteq Reach(declared, m)

\* Merging units never closes a cycle over them, so the second ordering does not throw, in a
\* project one module of which needs all the others (unit-planning.ts:542-580).  With two entry
\* modules it may: the code's comment, "the merge rules provably preserve acyclicity", claims it
\* of any project.
NeverThrows == Rooted => stage # "thrown"

\* No feature is needed, through others, by itself.
AcyclicFeatures ==
    \A f \in Features :
        f \notin Reach([g \in Features |-> featureDeps[g] \ {g}], f)

\* The plan holds every unit, and every slice of a split one, once.  Whatever a part of the plan
\* needs of another, it names it, and the other is in an earlier wave: declared dependencies,
\* the remainder of a split module on its features, and the features on one another when
\* these form no cycle (unit-planning.ts:191-282).
PlanKeepsDependencies ==
    stage = "done" =>
        /\ \A m \in Modules : \E i \in DOMAIN plan : m \in plan[i].modules
        /\ \A i, j \in DOMAIN plan :
              i # j /\ plan[i].modules \cap plan[j].modules # {} => plan[i].slice # plan[j].slice
        /\ \A i \in DOMAIN plan : plan[i].slice # 0 =>
              \A f \in Features : \E j \in DOMAIN plan :
                  plan[j].modules = plan[i].modules /\ plan[j].slice = f
        /\ \A i, j \in DOMAIN plan :
              /\ i # j /\ PartDependsOn(plan[i], plan[j])
              /\ plan[i].slice <= 0 \/ plan[i].modules # plan[j].modules \/ AcyclicFeatures
              => j \in plan[i].dependsOn /\ plan[j].wave < plan[i].wave

\* The passes come to a fixpoint: planning ends, with a plan or with an error
\* (unit-planning.ts:329-340).
PlanningEnds == <>(stage \in {"done", "thrown"})
=============================================================================
