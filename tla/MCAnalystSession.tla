--------------------------- MODULE MCAnalystSession ---------------------------
(* An instance of AnalystSession for TLC. *)
EXTENDS AnalystSession, TLC

CONSTANTS a1, a2, s1, s2

Symmetry == Permutations(Actions) \cup Permutations(Sessions)

=============================================================================
