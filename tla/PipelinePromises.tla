--------------------------- MODULE PipelinePromises ---------------------------
(***************************************************************************)
(* What the analysis of the pipeline promises, for every file of           *)
(* transactions and for the tables of nodes and edges that may lie beside  *)
(* it.                                                                     *)
(***************************************************************************)
EXTENDS TransactionFile, Exports

Nodes == [n \in 1..Cardinality(Accounts) |->
            [gid |-> Sorted(Accounts)[n], depth |-> DepthOf[Sorted(Accounts)[n]]]]

Edge(pair) ==
  [src |-> pair[1], dst |-> pair[2], sum |-> SumOfPair(file, pair), n |-> CountOfPair(file, pair)]

\* The table of edges that goes with the file.
Edges ==
  LET pairs == Ranked(PairsOf(file), LAMBDA p, q : p[1] < q[1] \/ (p[1] = q[1] /\ p[2] < q[2]))
  IN [n \in DOMAIN pairs |-> Edge(pairs[n])]

\* Tables of nodes and of edges that somebody prepared wrongly, and the right ones.
NodeTables ==
  {Nodes, Tail(Nodes), Append(Nodes, Nodes[1])}

EdgeTables ==
  {Edges}
  \cup {Append(Edges, Edges[n]) : n \in DOMAIN Edges}
  \cup {RemoveAt(Edges, n) : n \in DOMAIN Edges}
  \cup {[Edges EXCEPT ![n].sum = @ + d] : n \in DOMAIN Edges, d \in {-1, 1}}
  \cup {[Edges EXCEPT ![n].n = @ + d] : n \in DOMAIN Edges, d \in {-1, 1}}
  \cup {[Edges EXCEPT ![m].sum = Edges[n].sum, ![n].sum = Edges[m].sum] :
          m \in DOMAIN Edges, n \in DOMAIN Edges}
  \cup {Append(Edges, [src |-> p[1], dst |-> p[2], sum |-> 1, n |-> 1]) :
          p \in (Accounts \X Accounts) \ PairsOf(file)}

Money == BuildGraph(Nodes, Edges)

Linked == AccountsOf(file)

\* The ways to part the accounts with an edge into one or two communities.
Partitions == {{part \in {S, Linked \ S} : part # {}} : S \in SUBSET Linked}

\* What comes from the libraries: one account stands out, or none.
Outside == {[gid \in Accounts |-> IF gid = g THEN Unit ELSE 0] : g \in Accounts \cup {0}}

Table == [gid \in Accounts |-> Features(Money, file, gid)]

-----------------------------------------------------------------------------
(* Properties.                                                             *)

\* Tables that pass the validation are the file's: the graph can be built, its edges
\* carry the sums and counts of the transactions, and what it says of an account's
\* turnover is what the matching of its transactions says, which reads the other
\* table. One missing, doubled, invented or altered edge stops the run
\* (pipeline/service.py:257).
TablesAreTheFile ==
  \A nodes \in NodeTables, edges \in EdgeTables :
    Problems(nodes, edges, file) = {} =>
      /\ ~ Unbuildable(nodes, edges)
      /\ LET graph == BuildGraph(nodes, edges)
         IN /\ DOMAIN graph.sum = PairsOf(file)
            /\ \A gid \in Accounts :
                 LET f == Features(graph, file, gid)
                 IN /\ f.outSum = f.flows.matched + f.flows.unmatched
                    /\ f.inSum = Total(To(file, gid)) /\ f.inTx = Len(To(file, gid))
                    /\ f.outTx = Len(From(file, gid))

\* The boundary flows of the clusters balance, however Louvain parts the accounts:
\* what leaves clusters enters clusters, nothing is lost between inside and outside,
\* each account is in one cluster, and the accounts' bridge flows are the clusters'.
FlowsAddUp(graph, member, summary) ==
  LET clusters == DOMAIN summary
      bridge == [gid \in Accounts |-> Bridge(graph, member, gid)]
      over(name) == LET of == [c \in clusters |-> summary[c][name]]
                    IN SumOver(clusters, LAMBDA c : of[c])
      through(group) == LET of == [gid \in group |-> bridge[gid].into]
                        IN SumOver(group, LAMBDA gid : of[gid])
  IN /\ clusters = 0..(Cardinality(clusters) - 1)
     /\ over("nodes") = Cardinality(Accounts)
     /\ over("into") = over("outOf") /\ over("intoEdges") = over("outEdges")
     /\ over("inside") + over("into") = Total(file)
     /\ \A c \in clusters :
          summary[c].into = through({gid \in Accounts : member[gid] = c})

ClusterFlowsBalance ==
  \A graph \in {Money} : \A member \in {Communities(graph, detected) : detected \in Partitions} :
    \A summary \in {[c \in {member[gid] : gid \in Accounts} |-> ClusterSummary(graph, member, c)]} :
      FlowsAddUp(graph, member, summary)

\* Removing more accounts never leaves a larger component, and removing all of them
\* leaves nothing, whether the most or the least urgent go first: the comparison of
\* resilience.csv is a comparison of the same thing.
RemovalOnlyShrinks ==
  \A table \in {Table}, graph \in {Money}, outside \in Outside :
    \A priority \in {Priority(table, outside)}, scenario \in {"priority", "low_priority"} :
      \A after \in {[n \in 0..(Cardinality(Accounts) + 1) |->
                      AfterRemoval(graph, priority, scenario, n)]} :
        /\ \A m, n \in DOMAIN after : m <= n => after[n].largest <= after[m].largest
        /\ \A n \in DOMAIN after : n >= Cardinality(Accounts) => after[n] = [largest |-> 0, parts |-> 0]

\* The files of one run tell one story, though each is put together on its own.  A row
\* of clusters.csv: the money inside the cluster is the same from the table of edges as
\* from the graph, and the accounts it names are in the order of the top list.
ClusterAgrees(graph, member, top, row) ==
  LET summary == ClusterSummary(graph, member, row.cluster)
      listed == Where([m \in DOMAIN top |-> top[m].gid], LAMBDA gid : member[gid] = row.cluster)
      both == Min({Len(listed), Len(row.top)})
  IN /\ row.inside = summary.inside /\ row.nodes = summary.nodes
     /\ FirstOf(listed, both) = FirstOf(row.top, both)

\* A cluster is called isolated exactly where the evidence of its account says that
\* there are no links, or that the collection ends there.
AccountAgrees(row, cluster) ==
  /\ row.evidence = "no links" => cluster.hypothesis = "isolated"
  /\ cluster.hypothesis = "isolated" => row.evidence \in {"no links", "boundary"}
  /\ row.role = "terminal" => row.evidence = "terminal"

\* And an account whose priority no driver explains stands behind all that have one.
OneStory(graph, member, nodes, clusters, top) ==
  /\ \A n \in DOMAIN clusters : ClusterAgrees(graph, member, top, clusters[n])
  /\ \A n \in DOMAIN nodes : AccountAgrees(nodes[n], clusters[nodes[n].cluster + 1])
  /\ \A m, n \in DOMAIN top : m < n /\ top[m].drivers = {} => top[n].drivers = {}

\* What was computed is exported and passes the verification, and the verification
\* notices a row that got lost on the way: of the accounts, of the clusters, or of the
\* top list before its end (pipeline/service.py:368).
LossIsNoticed(nodes, clusters, top) ==
  LET expected == Cardinality(Accounts)
  IN /\ ~ Rejected(nodes, clusters, top, expected)
     /\ \A n \in DOMAIN nodes : Rejected(RemoveAt(nodes, n), clusters, top, expected)
     /\ \A n \in DOMAIN clusters : Rejected(nodes, RemoveAt(clusters, n), top, expected)
     /\ \A n \in 1..(Len(top) - 1) : Rejected(nodes, clusters, RemoveAt(top, n), expected)

FilesAgree ==
  \A table \in {Table}, edges \in {Edges}, graph \in {Money}, outside \in Outside :
    \A findings \in {Findings(table, outside)},
       member \in {Communities(graph, detected) : detected \in Partitions} :
      /\ ~ Refused(findings, member)
      /\ \A nodes \in {NodeRows(findings, member)}, top \in {TopRows(findings)},
            clusters \in {ClusterRows(findings, member, edges, Seeds)} :
           /\ OneStory(graph, member, nodes, clusters, top)
           /\ LossIsNoticed(nodes, clusters, top)

\* The tables of clusters.csv, resilience.csv, nodes_roles.csv and top_nodes.csv add up.
StructureAddsUp == ClusterFlowsBalance /\ RemovalOnlyShrinks /\ FilesAgree

\* Weights under which the signals that need no transfer in or no transfer out, or
\* that a seed has too, do not reach the threshold by themselves; config/default.yaml
\* has such weights.
WeightsNeedObservation ==
  LET transit == RoleWeights["transit"]
      terminal == RoleWeights["terminal"]
  IN /\ transit["betweenness"] < RoleThreshold
     /\ (transit["degree_balance"] + transit["amount_balance"] + transit["betweenness"])
          * SeedPenalty < 100 * RoleThreshold
     /\ terminal["in_amount"] + terminal["in_degree"] + terminal["authority"] < RoleThreshold
     /\ TerminalCap < RoleThreshold

\* A role is read from what was observed only: a transit account is no seed and has
\* money coming in and going out; a terminal one has money coming in and is not at
\* the edge of the collection, where nobody looked further (docs/methodology.md:121);
\* a role held with at least half of the score has the confidence that the
\* methodology documents (lines 125-128).
RolesAreObserved ==
  \A table \in {Table}, outside \in Outside : \A gid \in Accounts :
    LET a == table[gid]
        signals == Signals(table, outside, gid)
        scores == CoreScores(a, signals)
        role == RoleOfScores(a, scores)
    IN /\ role = "transit" => ~ a.seed /\ a.inSum > 0 /\ a.outSum > 0
       /\ role = "terminal" => a.inSum > 0 /\ ~ a.truncated
       /\ role # "peripheral" /\ 2 * scores[role] > Full =>
            LET second == Max({Full - scores[role]} \cup
                              {scores[r] : r \in DOMAIN scores \ {role}})
            IN RoleScore(a, scores) = (80 * scores[role] + 20 * (scores[role] - second)) \div 100

=============================================================================
