-------------------------- MODULE TopologicalProofs --------------------------
(***************************************************************************)
(* Proofs about topological_layers, for every finite plan.                 *)
(***************************************************************************)
EXTENDS TopologicalLayers, FiniteSetTheorems, TLAPS

\* The loop's variables agree, dependencies come first, and no phase of a stuck
\* set was ever put into a layer.
LoopInv ==
    /\ TypeOK
    /\ remaining = Phases \ completed
    /\ completed = UNION {layers[j] : j \in 1..Len(layers)}
    /\ DependenciesComeFirst
    /\ \A S \in SUBSET Phases : Stuck(S) => S \cap completed = {}
    /\ outcome = "INVALID_DEP_GRAPH" => Stuck(remaining)
    /\ outcome = "returned" => remaining = {}

\* Before the first pass nothing is layered.
LEMMA LoopInit == Init => LoopInv
<1> SUFFICES ASSUME Init PROVE LoopInv
    OBVIOUS
<1>1. layers = <<>> /\ Len(layers) = 0 /\ 1..Len(layers) = {}
  BY DEF Init
<1>2. TypeOK
  BY DEF Init, TypeOK, Outcomes
<1> QED  BY <1>1, <1>2 DEF Init, LoopInv, DependenciesComeFirst

\* A set of phases without a phase to build next is stuck.
LEMMA NothingReady ==
    ASSUME LoopInv, Ready = {}, remaining # {}
    PROVE  Stuck(remaining)
<1> SUFFICES ASSUME NEW n \in remaining
             PROVE  depends[n] \cap (remaining \cup Foreign) # {}
    BY DEF Stuck
<1>1. PICK d \in depends[n] : d \notin completed
  BY DEF Ready
<1>2. d \in Phases \cup Foreign
  BY DEF LoopInv, TypeOK
<1> QED  BY <1>1, <1>2 DEF LoopInv

\* A pass that finds a layer keeps the loop invariant.
LEMMA NextLayerStep == LoopInv /\ NextLayer => LoopInv'
<1> SUFFICES ASSUME LoopInv, NextLayer PROVE LoopInv'
    OBVIOUS
<1> DEFINE k == Len(layers)
<1>1. /\ layers' = Append(layers, Ready) /\ completed' = completed \cup Ready
      /\ remaining' = remaining \ Ready /\ outcome' = "looping" /\ depends' = depends
  BY DEF NextLayer
<1>2. Ready \subseteq Phases /\ layers \in Seq(SUBSET Phases) /\ k \in Nat
  BY DEF Ready, LoopInv, TypeOK
<1>3. /\ Len(layers') = k + 1 /\ layers'[k + 1] = Ready
      /\ \A j \in 1..k : layers'[j] = layers[j]
  BY <1>1, <1>2
<1>4. TypeOK'
  BY <1>1, <1>2 DEF LoopInv, TypeOK, Outcomes
<1>5. remaining' = Phases \ completed'
  BY <1>1 DEF LoopInv
<1>6. completed' = UNION {layers'[j] : j \in 1..Len(layers')}
  <2>1. 1..Len(layers') = 1..k \cup {k + 1}
    BY <1>2, <1>3
  <2>2. UNION {layers'[j] : j \in 1..Len(layers')}
          = (UNION {layers[j] : j \in 1..k}) \cup Ready
    BY <1>3, <2>1
  <2> QED  BY <1>1, <2>2 DEF LoopInv
<1>7. DependenciesComeFirst'
  <2> SUFFICES ASSUME NEW i \in 1..Len(layers'), NEW n \in layers'[i]
               PROVE  depends[n] \subseteq UNION {layers'[j] : j \in 1..(i - 1)}
    BY <1>1 DEF DependenciesComeFirst
  <2>1. \A j \in 1..(i - 1) : layers'[j] = layers[j]
    BY <1>2, <1>3
  <2>2. UNION {layers'[j] : j \in 1..(i - 1)} = UNION {layers[j] : j \in 1..(i - 1)}
    BY <2>1
  <2>3. CASE i \in 1..k
    BY <1>3, <2>2, <2>3 DEF LoopInv, DependenciesComeFirst
  <2>4. CASE i = k + 1
    <3>1. depends[n] \subseteq completed /\ i - 1 = k
      BY <1>2, <1>3, <2>4 DEF Ready
    <3> QED  BY <2>2, <3>1 DEF LoopInv
  <2> QED  BY <1>2, <1>3, <2>3, <2>4
<1>8. ASSUME NEW S \in SUBSET Phases, Stuck(S) PROVE S \cap completed' = {}
  <2>1. SUFFICES ASSUME NEW n \in S \cap Ready PROVE FALSE
    BY <1>1, <1>8 DEF LoopInv
  <2>2. PICK d \in depends[n] : d \in S \cup Foreign
    BY <1>8 DEF Stuck
  <2>3. d \in completed
    BY <2>2 DEF Ready
  <2> QED  BY <1>8, <2>2, <2>3, PhasesAssumption DEF LoopInv, TypeOK
<1>9. \A S \in SUBSET Phases : Stuck(S)' => S \cap completed' = {}
  BY <1>1, <1>8 DEF Stuck
<1> QED  BY <1>1, <1>4, <1>5, <1>6, <1>7, <1>9 DEF LoopInv

\* So does every other step.
LEMMA LoopStep == LoopInv /\ [Next]_vars => LoopInv'
<1> SUFFICES ASSUME LoopInv, [Next]_vars PROVE LoopInv'
    OBVIOUS
<1>1. CASE NextLayer
  BY <1>1, NextLayerStep
<1>2. ASSUME UNCHANGED <<depends, remaining, completed, layers>>, outcome' \in Outcomes,
             outcome' = "INVALID_DEP_GRAPH" => Stuck(remaining),
             outcome' = "returned" => remaining = {}
      PROVE  LoopInv'
  <2>1. TypeOK' /\ DependenciesComeFirst'
    BY <1>2 DEF LoopInv, TypeOK, DependenciesComeFirst
  <2>2. \A S : Stuck(S)' <=> Stuck(S)
    BY <1>2 DEF Stuck
  <2> QED  BY <1>2, <2>1, <2>2 DEF LoopInv
<1>3. CASE Reject
  BY <1>2, <1>3, NothingReady DEF Reject, Outcomes
<1>4. CASE Return
  BY <1>2, <1>4 DEF Return, Outcomes
<1>5. CASE UNCHANGED vars
  BY <1>2, <1>5 DEF vars, LoopInv, TypeOK
<1> QED  BY <1>1, <1>3, <1>4, <1>5 DEF Next

\* The loop invariant holds throughout.
LEMMA LoopInvariant == Spec => []LoopInv
BY LoopInit, LoopStep, PTL DEF Spec

\* For every plan, a phase is put into a layer only after everything it depends
\* on was put into earlier ones.
THEOREM LayersRespectDependencies == Spec => []DependenciesComeFirst
<1>1. LoopInv => DependenciesComeFirst
  BY DEF LoopInv
<1> QED  BY <1>1, LoopInvariant, PTL

\* For every plan, INVALID_DEP_GRAPH tells a cycle or a dangling dependency, and
\* a plan with one is never layered.
THEOREM RejectionIsExact == Spec => []RejectsExactlyBadPlans
<1>1. LoopInv => RejectsExactlyBadPlans
  <2> SUFFICES ASSUME LoopInv PROVE RejectsExactlyBadPlans
      OBVIOUS
  <2>1. outcome = "INVALID_DEP_GRAPH" => \E S \in SUBSET Phases : Stuck(S)
    BY DEF LoopInv, TypeOK
  <2>2. ASSUME outcome = "returned", NEW S \in SUBSET Phases, Stuck(S) PROVE FALSE
    BY <2>2 DEF LoopInv, Stuck
  <2> QED  BY <2>1, <2>2 DEF RejectsExactlyBadPlans
<1> QED  BY <1>1, LoopInvariant, PTL

-----------------------------------------------------------------------------
(* What a layer holds: phases of no other layer, none of which could have been *)
(* in an earlier one.                                                          *)

Before(i) == UNION {layers[j] : j \in 1..(i - 1)}

\* LayersAreEarliest is about the phases that have a layer; of those that wait, the invariant says
\* that they could not have been in the last layer either.
LayerInv ==
    /\ \A i, j \in 1..Len(layers) : i # j => layers[i] \cap layers[j] = {}
    /\ LayersAreEarliest
    /\ layers # <<>> => \A n \in remaining : ~ (depends[n] \subseteq Before(Len(layers)))

LEMMA LayerInvInit == Init => LayerInv
<1> SUFFICES ASSUME Init PROVE LayerInv
    OBVIOUS
<1>1. layers = <<>> /\ Len(layers) = 0
  BY DEF Init
<1> QED  BY <1>1 DEF LayerInv, LayersAreEarliest

LEMMA LayerInvPass == LoopInv /\ LayerInv /\ NextLayer => LayerInv'
<1> SUFFICES ASSUME LoopInv, LayerInv, NextLayer PROVE LayerInv'
    OBVIOUS
<1> DEFINE k == Len(layers)
<1>1. /\ layers' = Append(layers, Ready) /\ completed' = completed \cup Ready
      /\ remaining' = remaining \ Ready /\ depends' = depends
  BY DEF NextLayer
<1>2. Ready \subseteq Phases /\ layers \in Seq(SUBSET Phases) /\ k \in Nat
  BY DEF Ready, LoopInv, TypeOK
<1>3. /\ Len(layers') = k + 1 /\ layers'[k + 1] = Ready
      /\ \A j \in 1..k : layers'[j] = layers[j]
  BY <1>1, <1>2
<1>4. completed = UNION {layers[j] : j \in 1..k} /\ Ready \cap completed = {}
  BY DEF LoopInv, Ready
<1>5. \A i, j \in 1..Len(layers') : i # j => layers'[i] \cap layers'[j] = {}
  <2>1. \A i \in 1..k : layers[i] \cap Ready = {}
    BY <1>4
  <2> SUFFICES ASSUME NEW i \in 1..Len(layers'), NEW j \in 1..Len(layers'), i # j
               PROVE  layers'[i] \cap layers'[j] = {}
    OBVIOUS
  <2>2. i \in 1..k \/ i = k + 1
    BY <1>2, <1>3
  <2>3. j \in 1..k \/ j = k + 1
    BY <1>2, <1>3
  <2> QED  BY <1>3, <2>1, <2>2, <2>3 DEF LayerInv
<1>6. LayersAreEarliest'
  <2> SUFFICES ASSUME NEW i \in 2..Len(layers'), NEW n \in layers'[i]
               PROVE  depends[n] \cap layers'[i - 1] # {}
    BY <1>1 DEF LayersAreEarliest
  <2>1. CASE i \in 2..k
    <3>1. layers'[i] = layers[i] /\ layers'[i - 1] = layers[i - 1]
      BY <1>2, <1>3, <2>1
    <3> QED  BY <2>1, <3>1 DEF LayerInv, LayersAreEarliest
  <2>2. CASE i = k + 1
    <3>1. k \in 1..k /\ layers'[i] = Ready /\ layers'[i - 1] = layers[k] /\ layers # <<>>
      BY <1>2, <1>3, <2>2
    <3>2. n \in remaining /\ depends[n] \subseteq completed
      BY <3>1 DEF Ready
    <3>3. PICK d \in depends[n] : d \notin Before(k)
      BY <3>1, <3>2 DEF LayerInv
    <3>4. d \in layers[k]
      <4>1. PICK j \in 1..k : d \in layers[j]
        BY <1>4, <3>2
      <4>2. j \notin 1..(k - 1)
        BY <3>3, <4>1 DEF Before
      <4>3. j = k
        BY <1>2, <4>1, <4>2
      <4> QED  BY <4>1, <4>3
    <3> QED  BY <3>1, <3>4
  <2> QED  BY <1>2, <1>3, <2>1, <2>2
<1>7. ASSUME NEW n \in remaining'
      PROVE  ~ (depends'[n] \subseteq UNION {layers'[j] : j \in 1..(Len(layers') - 1)})
  <2>1. ~ (depends[n] \subseteq completed)
    BY <1>1 DEF Ready
  <2>2. 1..(Len(layers') - 1) = 1..k
    BY <1>2, <1>3
  <2>3. UNION {layers'[j] : j \in 1..(Len(layers') - 1)} = completed
    BY <1>3, <1>4, <2>2
  <2> QED  BY <1>1, <2>1, <2>3
<1> QED  BY <1>5, <1>6, <1>7 DEF LayerInv, Before

LEMMA LayerInvStep == LoopInv /\ LayerInv /\ [Next]_vars => LayerInv'
<1> SUFFICES ASSUME LoopInv, LayerInv, [Next]_vars PROVE LayerInv'
    OBVIOUS
<1>1. CASE NextLayer
  BY <1>1, LayerInvPass
<1>2. CASE UNCHANGED <<depends, remaining, layers>>
  BY <1>2 DEF LayerInv, LayersAreEarliest, Before
<1> QED  BY <1>1, <1>2 DEF Next, Reject, Return, vars

LEMMA LayerInvariant == Spec => [](LoopInv /\ LayerInv)
BY LoopInit, LoopStep, LayerInvInit, LayerInvStep, PTL DEF Spec

\* A plan that is returned has every phase in one layer, and in no other: the building node starts
\* one shipwright for each phase (pipeline_graph.py, topological_layers).
THEOREM EveryPhaseIsLayeredOnce == Spec => []EveryPhaseOnce
<1>1. LoopInv /\ LayerInv => EveryPhaseOnce
  <2> SUFFICES ASSUME LoopInv, LayerInv, outcome = "returned", NEW n \in Phases
               PROVE  Cardinality({i \in 1..Len(layers) : n \in layers[i]}) = 1
    BY DEF EveryPhaseOnce
  <2>1. n \in completed
    BY DEF LoopInv
  <2>2. PICK i \in 1..Len(layers) : n \in layers[i]
    BY <2>1 DEF LoopInv
  <2>3. {j \in 1..Len(layers) : n \in layers[j]} = {i}
    BY <2>2 DEF LayerInv
  <2> QED  BY <2>3, FS_Singleton
<1> QED  BY <1>1, LayerInvariant, PTL

\* No layering makes a phase wait longer than it must: each waits for a phase of the layer just
\* before its own.
THEOREM LayersAreTheEarliest == Spec => []LayersAreEarliest
<1>1. LayerInv => LayersAreEarliest
  BY DEF LayerInv
<1> QED  BY <1>1, LayerInvariant, PTL
=============================================================================
