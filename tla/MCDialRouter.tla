---------------------------- MODULE MCDialRouter -----------------------------
(* Instances of DialRouter: two calls of one router, as parallel builds make them. *)
EXTENDS DialRouter

CONSTANTS c1, c2, r1, cli, sdk

OneRouter == [c \in {c1, c2} |-> r1]
TheConfigs == {<<>>, <<Unsupported>>, <<cli, sdk>>, <<sdk>>}
=============================================================================
