-------------------------------- MODULE Exports --------------------------------
(***************************************************************************)
(* What the pipeline writes for people to read: nodes_roles.csv,           *)
(* clusters.csv and top_nodes.csv (pipeline/exporters.py), and what their  *)
(* texts are about (pipeline/explanations.py).  A finding of an account    *)
(* has its role, roleScore, priority, evidence and drivers; its cluster is *)
(* its number in the membership.                                           *)
(***************************************************************************)
EXTENDS RoleEngine

CONSTANTS
  TopNodes,      \* rows of top_nodes.csv (50)
  MandatoryTop,  \* rows it must have, if there are as many accounts (20)
  TopOfGroup,    \* accounts that clusters.csv names (5)
  TopDrivers     \* drivers that an explanation names (3)

ASSUME ExportsAssumption ==
  /\ {TopNodes, MandatoryTop, TopOfGroup, TopDrivers} \subseteq Nat \ {0}
  /\ TopNodes >= MandatoryTop

-----------------------------------------------------------------------------
(* Texts.                                                                  *)

\* What the evidence speaks about: the edge of the collection before all else.
Evidence(a, role) ==
  IF a.truncated THEN "boundary"
  ELSE IF Isolated(a) THEN "no links"
  ELSE role

\* The drivers that build_priority_explanation may name: the largest contributions.
Drivers(contributions) ==
  LET positive == {name \in DOMAIN contributions : contributions[name] > 0}
  IN {name \in positive :
        Cardinality({n \in positive : contributions[n] > contributions[name]}) < TopDrivers}

-----------------------------------------------------------------------------
(* Findings.                                                               *)

\* What run_pipeline has for each account when it exports.
Findings(table, outside) ==
  LET priority == Priority(table, outside)
  IN [gid \in DOMAIN table |->
        LET signals == Signals(table, outside, gid)
            scores == CoreScores(table[gid], signals)
            role == RoleOfScores(table[gid], scores)
        IN [role |-> role, roleScore |-> RoleScore(table[gid], scores),
            priority |-> priority[gid],
            evidence |-> Evidence(table[gid], role),
            drivers |-> Drivers(Contributions(scores, signals))]]

WellFormed(row) ==
  /\ row.role \in ToSet(CoreRoles) \cup {"peripheral"}
  /\ row.roleScore \in 0..Full /\ row.priority \in 0..Unit

\* _validate_node_features and export_mandatory_csvs: what stops the export.
Refused(findings, member) ==
  \/ DOMAIN findings = {}
  \/ \E gid \in DOMAIN findings : ~ WellFormed(findings[gid]) \/ member[gid] \notin Nat
  \/ Cardinality(DOMAIN findings) >= MandatoryTop /\ TopNodes < MandatoryTop

-----------------------------------------------------------------------------
(* Files.                                                                  *)

\* The most urgent first; between equal ones the first account.
ByPriority(findings, group) ==
  Ranked(group, LAMBDA a, b :
    \/ findings[a].priority > findings[b].priority
    \/ findings[a].priority = findings[b].priority /\ a < b)

\* nodes_roles.csv
NodeRows(findings, member) ==
  [n \in 1..Cardinality(DOMAIN findings) |->
     LET gid == Sorted(DOMAIN findings)[n]
     IN [gid |-> gid, role |-> findings[gid].role, roleScore |-> findings[gid].roleScore,
         cluster |-> member[gid], priority |-> findings[gid].priority,
         evidence |-> findings[gid].evidence]]

\* build_top_nodes
TopRows(findings) ==
  LET first == FirstOf(ByPriority(findings, DOMAIN findings), TopNodes)
  IN [n \in DOMAIN first |->
        [rank |-> n, gid |-> first[n], role |-> findings[first[n]].role,
         priority |-> findings[first[n]].priority, drivers |-> findings[first[n]].drivers]]

\* The most frequent role of a group; between equal ones that of the first account.
LeadingRole(findings, group) ==
  LET having(role) == {gid \in group : findings[gid].role = role}
      roles == {findings[gid].role : gid \in group}
      most == Max({Cardinality(having(role)) : role \in roles})
  IN findings[Min({gid \in group : Cardinality(having(findings[gid].role)) = most})].role

\* What _cluster_hypothesis says of a group, for the accounts that have an edge.
Hypothesis(findings, group, connected) ==
  IF Cardinality(group) = 1 /\ group \cap connected = {} THEN "isolated"
  ELSE IF {"consolidator", "distributor"} \subseteq {findings[gid].role : gid \in group}
    THEN "collects and distributes"
  ELSE LeadingRole(findings, group)

\* Variation: the money of a cluster is what its accounts sent, inside or not.
ClusterRowOfSent(findings, member, edges, seeds, c) ==
  LET group == {gid \in DOMAIN findings : member[gid] = c}
      sent == {n \in DOMAIN edges : edges[n].src \in group}
  IN [cluster |-> c, nodes |-> Cardinality(group), seeds |-> Cardinality(group \cap seeds),
      inside |-> SumOver(sent, LAMBDA n : edges[n].sum),
      top |-> FirstOf(ByPriority(findings, group), TopOfGroup),
      hypothesis |-> Hypothesis(findings, group, AccountsOf(edges))]

\* One row of build_cluster_summary.
ClusterRow(findings, member, edges, seeds, c) ==
  LET group == {gid \in DOMAIN findings : member[gid] = c}
      within == {n \in DOMAIN edges : {edges[n].src, edges[n].dst} \subseteq group}
      sums == [n \in DOMAIN edges |-> edges[n].sum]
  IN [cluster |-> c, nodes |-> Cardinality(group), seeds |-> Cardinality(group \cap seeds),
      inside |-> SumOver(within, LAMBDA n : sums[n]),
      top |-> FirstOf(ByPriority(findings, group), TopOfGroup),
      hypothesis |-> Hypothesis(findings, group, AccountsOf(edges))]

\* build_cluster_summary
ClusterRows(findings, member, edges, seeds) ==
  LET clusters == Sorted({member[gid] : gid \in DOMAIN findings})
  IN [n \in DOMAIN clusters |-> ClusterRow(findings, member, edges, seeds, clusters[n])]

-----------------------------------------------------------------------------
(* The verification of the files, before they are published.               *)

NodesRejected(nodes, expected) ==
  \/ Len(nodes) # expected \/ Twins(GidColumn(nodes))
  \/ \E row \in ToSet(nodes) : ~ WellFormed(row)

ClustersRejected(clusters, nodes) ==
  \/ clusters = <<>> \/ Twins([n \in DOMAIN clusters |-> clusters[n].cluster])
  \/ {row.cluster : row \in ToSet(clusters)} # {row.cluster : row \in ToSet(nodes)}

TopRejected(top, expected) ==
  \/ Len(top) < Min({expected, MandatoryTop})
  \/ \E n \in DOMAIN top : top[n].rank # n \/ top[n].priority \notin 0..Unit
  \/ \E m, n \in DOMAIN top : m < n /\ top[m].priority < top[n].priority

\* verify_outputs, for the number of accounts in the input; the manifest and the
\* presence of files, columns and texts are left out.
Rejected(nodes, clusters, top, expected) ==
  NodesRejected(nodes, expected) \/ ClustersRejected(clusters, nodes) \/ TopRejected(top, expected)

=============================================================================
