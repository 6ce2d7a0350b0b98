----------------------------- MODULE MCSandboxes -----------------------------
\* Two crew members with a phase each, and one with two.
EXTENDS Sandboxes, TLC

CONSTANTS m1, m2, w1, w2
TwoMembers == w1 :> m1 @@ w2 :> m2
OneMember == w1 :> m1 @@ w2 :> m1

\* Which of the operations under way is which does not matter.
Symmetry == Permutations(Requests)

=============================================================================
