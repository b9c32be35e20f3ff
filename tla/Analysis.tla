------------------------------- MODULE Analysis -------------------------------
(***************************************************************************)
(* What the pipeline computes from its three tables before it gives roles: *)
(* the validation, the graph, the features of the accounts, the clusters   *)
(* and the what-if of removed accounts (pipeline/validation.py,            *)
(* graph_builder.py, features.py, temporal.py, clustering.py and           *)
(* resilience.py).  Sums are whole; PageRank, HITS, betweenness and the    *)
(* communities of Louvain are computed by libraries and come from outside. *)
(***************************************************************************)
EXTENDS MoneyFlows, GraphSearch

CONSTANTS
  Seeds,       \* the accounts that the collection of transfers started from
  DepthOf,     \* the steps from a seed at which it found each account, 0 to 4
  Period,      \* the days that the validation expects
  MaxSeedHops  \* steps within which a seed reaches an account (4)

ASSUME AnalysisAssumption ==
  /\ Seeds \subseteq DOMAIN DepthOf
  /\ \A gid \in DOMAIN DepthOf : DepthOf[gid] \in 0..4
  /\ Period \subseteq Nat
  /\ MaxSeedHops \in Nat \ {0}

-----------------------------------------------------------------------------
(* Validation.  A table of nodes has rows with gid and depth, a table of   *)
(* edges rows with src, dst, sum and n.                                    *)

Twins(keys) == \E m, n \in DOMAIN keys : m # n /\ keys[m] = keys[n]

GidColumn(nodes) == [n \in DOMAIN nodes |-> nodes[n].gid]
PairColumn(edges) == [n \in DOMAIN edges |-> <<edges[n].src, edges[n].dst>>]

GidsOf(nodes) == {v.gid : v \in ToSet(nodes)}

\* Variation: only the pairs that both tables have are compared.
ProblemsOfCommonPairs(nodes, edges, rows) ==
  {p \in {"node twice", "edge twice", "edge not positive", "aggregation"} :
     \/ p = "node twice" /\ Twins(GidColumn(nodes))
     \/ p = "edge twice" /\ Twins(PairColumn(edges))
     \/ p = "edge not positive" /\ \E e \in ToSet(edges) : e.sum <= 0 \/ e.n <= 0
     \/ p = "aggregation" /\ \E e \in ToSet(edges) :
          /\ <<e.src, e.dst>> \in PairsOf(rows)
          /\ \/ e.sum # SumOfPair(rows, <<e.src, e.dst>>)
             \/ e.n # CountOfPair(rows, <<e.src, e.dst>>)}

\* validate_dataset: all that is wrong with the tables, beside their types and the
\* depth of the edges, a column that nothing here reads.
Problems(nodes, edges, rows) ==
  {p \in {"node twice", "edge twice", "edge not positive", "transaction not positive",
          "depth", "date", "unknown account", "aggregation"} :
     \/ p = "node twice" /\ Twins(GidColumn(nodes))
     \/ p = "edge twice" /\ Twins(PairColumn(edges))
     \/ p = "edge not positive" /\ \E e \in ToSet(edges) : e.sum <= 0 \/ e.n <= 0
     \/ p = "transaction not positive" /\ \E r \in ToSet(rows) : r.amount <= 0
     \/ p = "depth" /\ \E v \in ToSet(nodes) : v.depth \notin 0..4
     \/ p = "date" /\ ~ DaysOf(rows) \subseteq Period
     \/ p = "unknown account" /\ ~ AccountsOf(edges) \cup AccountsOf(rows) \subseteq GidsOf(nodes)
     \/ /\ p = "aggregation"
        /\ \/ PairsOf(edges) # PairsOf(rows)
           \/ \E e \in ToSet(edges) : \/ e.sum # SumOfPair(rows, <<e.src, e.dst>>)
                                      \/ e.n # CountOfPair(rows, <<e.src, e.dst>>)}

\* What build_graph raises a ValueError for.
Unbuildable(nodes, edges) ==
  \/ Twins(GidColumn(nodes))
  \/ Twins(PairColumn(edges))
  \/ ~ AccountsOf(edges) \subseteq GidsOf(nodes)
  \/ \E e \in ToSet(edges) : e.sum <= 0 \/ e.n <= 0

BuildGraph(nodes, edges) ==
  LET edge(pair) == CHOOSE e \in ToSet(edges) : <<e.src, e.dst>> = pair
  IN [nodes |-> GidsOf(nodes),
      sum |-> [p \in PairsOf(edges) |-> edge(p).sum],
      n |-> [p \in PairsOf(edges) |-> edge(p).n]]

-----------------------------------------------------------------------------
(* Features of one account.                                                *)

InPairs(graph, gid) == {p \in DOMAIN graph.sum : p[2] = gid}
OutPairs(graph, gid) == {p \in DOMAIN graph.sum : p[1] = gid}

\* The most counterparties of one day, of _daily_side_metrics, from pairs of a day and one.
MostOnADay(met) ==
  Max({0} \cup {Cardinality({m \in met : m[1] = day}) : day \in {m[1] : m \in met}})

\* _seed_reach: the seeds, other than itself, that reach the account.
SeedReach(graph, gid) ==
  {s \in (Seeds \cap graph.nodes) \ {gid} : gid \in Within(DOMAIN graph.sum, {s}, MaxSeedHops)}

\* One row of compute_graph_features and of compute_temporal_features.
Features(graph, rows, gid) ==
  LET ins == InPairs(graph, gid)
      outs == OutPairs(graph, gid)
      inSum == SumOver(ins, LAMBDA p : graph.sum[p])
      outSum == SumOver(outs, LAMBDA p : graph.sum[p])
  IN [inDeg |-> Cardinality(ins), outDeg |-> Cardinality(outs),
      inSum |-> inSum, outSum |-> outSum, total |-> inSum + outSum,
      inTx |-> SumOver(ins, LAMBDA p : graph.n[p]), outTx |-> SumOver(outs, LAMBDA p : graph.n[p]),
      seed |-> gid \in Seeds,
      passValid |-> gid \notin Seeds /\ inSum > 0,
      truncated |-> DepthOf[gid] = 4 /\ outs = {},
      seedReach |-> Cardinality(SeedReach(graph, gid)),
      component |-> Cardinality(Around(DOMAIN graph.sum, {gid}, Cardinality(graph.nodes))),
      flows |-> FifoMetrics(rows, gid),
      daysIn |-> Cardinality(DaysOf(To(rows, gid))), daysOut |-> Cardinality(DaysOf(From(rows, gid))),
      payers |-> MostOnADay({<<r.day, r.src>> : r \in ToSet(To(rows, gid))}),
      recipients |-> MostOnADay({<<r.day, r.dst>> : r \in ToSet(From(rows, gid))}),
      reliable |-> gid \notin Seeds /\ To(rows, gid) # <<>>]

-----------------------------------------------------------------------------
(* Clusters.                                                               *)

Larger(a, b) ==
  \/ Cardinality(a) > Cardinality(b)
  \/ Cardinality(a) = Cardinality(b) /\ Min(a) < Min(b)

\* detect_communities: the parts that were detected among the accounts with an edge,
\* and each other account for itself, numbered from 0 by size and first account.
Communities(graph, detected) ==
  LET linked == UNION {{p[1], p[2]} : p \in DOMAIN graph.sum}
      parts == Ranked(detected \cup {{gid} : gid \in graph.nodes \ linked}, Larger)
  IN [gid \in graph.nodes |-> (CHOOSE n \in DOMAIN parts : gid \in parts[n]) - 1]

\* summarize_clusters
ClusterSummary(graph, member, c) ==
  LET edges(fromIn, toIn) ==
        {p \in DOMAIN graph.sum : (member[p[1]] = c) = fromIn /\ (member[p[2]] = c) = toIn}
      sum(pairs) == SumOver(pairs, LAMBDA p : graph.sum[p])
  IN [nodes |-> Cardinality({gid \in graph.nodes : member[gid] = c}),
      inside |-> sum(edges(TRUE, TRUE)), into |-> sum(edges(FALSE, TRUE)),
      outOf |-> sum(edges(TRUE, FALSE)),
      intoEdges |-> Cardinality(edges(FALSE, TRUE)), outEdges |-> Cardinality(edges(TRUE, FALSE))]

\* compute_cluster_bridge_features
Bridge(graph, member, gid) ==
  LET crossing == {p \in DOMAIN graph.sum : member[p[1]] # member[p[2]]}
      sum(pairs) == SumOver(pairs, LAMBDA p : graph.sum[p])
  IN [edges |-> Cardinality(crossing \cap InPairs(graph, gid))
                  + Cardinality(crossing \cap OutPairs(graph, gid)),
      into |-> sum(crossing \cap InPairs(graph, gid)),
      outOf |-> sum(crossing \cap OutPairs(graph, gid))]

-----------------------------------------------------------------------------
(* Resilience.                                                             *)

\* _component_metrics of what is left of the graph: the largest component, the
\* number of components; their ratio to all accounts is left out.
ComponentMetrics(graph, left) ==
  LET pairs == {p \in DOMAIN graph.sum : p[1] \in left /\ p[2] \in left}
      parts == {Around(pairs, {gid}, Cardinality(left)) : gid \in left}
  IN [largest |-> Max({0} \cup {Cardinality(part) : part \in parts}), parts |-> Cardinality(parts)]

\* _ranked_gids
RankedGids(priority, scenario) ==
  Ranked(DOMAIN priority, LAMBDA a, b :
    \/ IF scenario = "priority" THEN priority[a] > priority[b] ELSE priority[a] < priority[b]
    \/ priority[a] = priority[b] /\ a < b)

\* One row of analyze_resilience, for a count of accounts to remove.
AfterRemoval(graph, priority, scenario, count) ==
  ComponentMetrics(graph, graph.nodes \ ToSet(FirstOf(RankedGids(priority, scenario), count)))

=============================================================================
