----------------------------- MODULE MCGraphCache -----------------------------
(* Instances of GraphCache for TLC. *)
EXTENDS GraphCache, TLC

\* The nodes and the edges from one file each.
FewFiles == {"nodes_roles", "edges_enriched", "run_manifest", "raw_edges"}

\* For instances in which every thread queries.
ThreadSymmetry == Permutations(Threads)

=============================================================================
