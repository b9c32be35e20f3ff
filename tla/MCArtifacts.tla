----------------------------- MODULE MCArtifacts -----------------------------
(* Instances of Artifacts for TLC. *)
EXTENDS Artifacts

\* Two files that make up a table, one that input data may stand in for, one that
\* may be missing, and one that no table is made of.
SomeFiles == {"nodes_roles", "node_features", "edges_enriched", "run_manifest",
              "top_nodes", "summary", "raw_edges"}

=============================================================================
