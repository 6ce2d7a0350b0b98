------------------------- MODULE MCTopologicalLayers -------------------------
(* Every dependency graph over three phases, with one number no phase has. *)
EXTENDS TopologicalLayers

MCPhases == 1..3
MCForeign == {9}
=============================================================================
