---------------------------- MODULE MCPipelineApi ----------------------------
(* Instances of PipelineApi: plans of two and three phases. *)
EXTENDS PipelineApi, TLC

\* Phase 2 depends on phase 1.
ChainPhases == {1, 2}
ChainDependsOn == (1 :> {}) @@ (2 :> {1})

\* Phase 3 depends on phases 1 and 2, which may be built in parallel.
JoinPhases == {1, 2, 3}
JoinDependsOn == (1 :> {}) @@ (2 :> {}) @@ (3 :> {1, 2})

\* Runs and requests are interchangeable (safety runs only).
Symmetry == Permutations(Runs) \cup Permutations(Requests)
=============================================================================
