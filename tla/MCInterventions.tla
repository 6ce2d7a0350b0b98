-------------------------- MODULE MCInterventions --------------------------
(* TLC instance of Interventions. *)
EXTENDS Interventions, TLC

(* Phases, builds and requests are interchangeable. *)
Symmetry == Permutations(Phases) \cup Permutations(Builds) \cup Permutations(Users)
=============================================================================
