--------------------------- MODULE MCAgenticCases ---------------------------
(***************************************************************************)
(* Small instances of AgenticCases.                                        *)
(***************************************************************************)
EXTENDS AgenticCases, TLC

CONSTANTS a1, a2, draft, route, watchlist, k1, k2, w1, w2, w3

\* Any two actions that open a case, and any two keys, are alike.
Symmetry ==
  Permutations(Workers) \cup Permutations(CaseActions) \cup Permutations(ClientKeys)

=============================================================================
