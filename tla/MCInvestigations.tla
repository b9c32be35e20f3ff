--------------------------- MODULE MCInvestigations ---------------------------
(* Instances of Investigations for TLC. *)
EXTENDS Investigations, TLC

CONSTANTS w1, w2, w3, x, y

Symmetry == Permutations(Workers \ Editors) \cup Permutations(Gids)

=============================================================================
