----------------------------- MODULE MCGovernor -----------------------------
(* Values of the constants of Governor for TLC.                            *)
EXTENDS Governor, TLC

CONSTANTS w1, w2, k1, k2

OneIdentity == [k \in Keys |-> "openai"]

Symmetry == Permutations(Workers)

=============================================================================
