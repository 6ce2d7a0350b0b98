-------------------------- MODULE TopologicalLayers --------------------------
(***************************************************************************)
(* crew/pipeline_graph.py, topological_layers: the phases of a voyage plan *)
(* are grouped into dependency layers, the order in which the building     *)
(* node schedules the shipwrights.  One step of this module is one pass of *)
(* the function's while loop.  `depends` is an input: a plan whose graph   *)
(* has a cycle, or a phase that depends on one that is not in the plan,    *)
(* is rejected with INVALID_DEP_GRAPH.                                     *)
(***************************************************************************)
EXTENDS Naturals, Sequences, FiniteSets

CONSTANTS Phases,     \* phase numbers of the plan
          Foreign     \* numbers a depends_on may name that no phase has

ASSUME PhasesAssumption == IsFiniteSet(Phases) /\ Phases \cap Foreign = {}

VARIABLES depends,    \* depends_on of every phase
          remaining,  \* phases not yet in a layer
          completed,  \* the union of the layers so far
          layers,     \* the layers so far, a sequence of sets
          outcome     \* "looping", "returned" or "INVALID_DEP_GRAPH"

vars == <<depends, remaining, completed, layers, outcome>>

Outcomes == {"looping", "returned", "INVALID_DEP_GRAPH"}

Init == /\ depends \in [Phases -> SUBSET (Phases \cup Foreign)]
        /\ remaining = Phases
        /\ completed = {}
        /\ layers = <<>>
        /\ outcome = "looping"

\* A layer that asks for one dependency of a phase rather than all.
Ready_AnyDep == {n \in remaining : depends[n] = {} \/ depends[n] \cap completed # {}}

\* A layer of one phase, whatever else is ready.
Ready_One ==
    LET ready == {n \in remaining : depends[n] \subseteq completed}
    IN IF ready = {} THEN {} ELSE {CHOOSE n \in ready : TRUE}

\* The phases whose dependencies are all in earlier layers.
Ready == {n \in remaining : depends[n] \subseteq completed}

\* A pass that takes off the remaining phases what was completed before it.
NextLayer_Late ==
    /\ outcome = "looping" /\ remaining # {} /\ Ready # {}
    /\ layers' = Append(layers, Ready)
    /\ completed' = completed \cup Ready
    /\ remaining' = remaining \ completed
    /\ UNCHANGED <<depends, outcome>>

NextLayer ==
    /\ outcome = "looping" /\ remaining # {} /\ Ready # {}
    /\ layers' = Append(layers, Ready)
    /\ completed' = completed \cup Ready
    /\ remaining' = remaining \ Ready
    /\ UNCHANGED <<depends, outcome>>

\* A cycle that ends the loop instead of raising.
Reject_Return ==
    /\ outcome = "looping" /\ remaining # {} /\ Ready = {}
    /\ outcome' = "returned"
    /\ UNCHANGED <<depends, remaining, completed, layers>>

\* A cycle that goes round the loop again.
Reject_Continue ==
    /\ outcome = "looping" /\ remaining # {} /\ Ready = {}
    /\ UNCHANGED vars

Reject ==
    /\ outcome = "looping" /\ remaining # {} /\ Ready = {}
    /\ outcome' = "INVALID_DEP_GRAPH"
    /\ UNCHANGED <<depends, remaining, completed, layers>>

Return ==
    /\ outcome = "looping" /\ remaining = {}
    /\ outcome' = "returned"
    /\ UNCHANGED <<depends, remaining, completed, layers>>

Next == NextLayer \/ Reject \/ Return

Spec == Init /\ [][Next]_vars /\ WF_vars(Next)

-----------------------------------------------------------------------------
\* Types, and what the three loop variables say of one another.
TypeOK ==
    /\ depends \in [Phases -> SUBSET (Phases \cup Foreign)]
    /\ remaining \subseteq Phases
    /\ completed \subseteq Phases
    /\ layers \in Seq(SUBSET Phases)
    /\ outcome \in Outcomes

\* Every phase a layer holds has all its dependencies in strictly earlier
\* layers: a shipwright the building node starts never needs a phase of its
\* own layer or of a later one.
DependenciesComeFirst ==
    \A i \in 1..Len(layers) : \A n \in layers[i] :
        depends[n] \subseteq UNION {layers[j] : j \in 1..(i - 1)}

\* A returned layering schedules every phase of the plan exactly once.
EveryPhaseOnce ==
    outcome = "returned" =>
        \A n \in Phases : Cardinality({i \in 1..Len(layers) : n \in layers[i]}) = 1

\* A layer is as early as it can be: outside the first one, every phase waits
\* for a phase of the layer just before (no parallelism is given away).
LayersAreEarliest ==
    \A i \in 2..Len(layers) : \A n \in layers[i] : depends[n] \cap layers[i - 1] # {}

\* A set of phases none of which can ever be first: each one waits for a
\* member of the set or for a phase that does not exist.
Stuck(S) == S # {} /\ \A n \in S : depends[n] \cap (S \cup Foreign) # {}

\* INVALID_DEP_GRAPH is raised exactly for the plans that hold a cycle or a
\* dangling dependency, whatever layers were already produced.
RejectsExactlyBadPlans ==
    /\ outcome = "INVALID_DEP_GRAPH" => \E S \in SUBSET Phases : Stuck(S)
    /\ outcome = "returned" => ~ \E S \in SUBSET Phases : Stuck(S)

\* The while loop ends for every plan.
LoopEnds == <>(outcome # "looping")
=============================================================================
