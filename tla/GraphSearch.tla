----------------------------- MODULE GraphSearch -----------------------------
(***************************************************************************)
(* What the queries of services/graph_queries.py answer from one graph.    *)
(* Which graph they take is the matter of module GraphCache.  A graph has  *)
(* nodes and, for each pair of an edge, the sum that moved along it.       *)
(***************************************************************************)
EXTENDS Tables

CONSTANTS
  Log1p,     \* math.log1p of a sum, in thousandths
  Urgency,   \* the priority_score of each account's profile, in hundredths
  PathLimit  \* paths that a trace may return, the caller's max_paths (at most 100)

ASSUME GraphSearchAssumption ==
  /\ Log1p[0] = 0
  /\ \A m, n \in DOMAIN Log1p : m < n => Log1p[m] < Log1p[n]
  /\ \A gid \in DOMAIN Urgency : Urgency[gid] \in 0..100
  /\ PathLimit \in Nat \ {0}

CandidateFactor == 50  \* paths that are ranked, per path that is returned

Turned(pairs) == {<<e[2], e[1]>> : e \in pairs}

-----------------------------------------------------------------------------
(* Searches in breadth.                                                    *)

\* The accounts within some steps of a set of accounts, along the pairs.
Within(pairs, start, steps) ==
  FoldLeft(LAMBDA seen, step : seen \cup {e[2] : e \in {p \in pairs : p[1] \in seen}},
           start, [n \in 1..steps |-> n])

\* The same in both directions, as the undirected view of a graph gives it.
Around(pairs, start, steps) == Within(pairs \cup Turned(pairs), start, steps)

\* Shortest distances from an account, up to a cutoff, as networkx gives them.
Distances(pairs, gid, cutoff) ==
  LET reached == [n \in 0..cutoff |-> Within(pairs, {gid}, n)]
  IN [b \in reached[cutoff] |-> Min({n \in 0..cutoff : b \in reached[n]})]

\* Variation: the path that brings their number to the cap does not end the loop over
\* the neighbours.
PathsFromPastCap(pairs, gid, depth, cap) ==
  LET next(path) == Sorted({b \in {e[2] : e \in pairs} :
                              <<Last(path), b>> \in pairs /\ b \notin ToSet(path)})
      longer(path) == [n \in DOMAIN next(path) |-> Append(path, next(path)[n])]
      search[n \in 1..(cap + 1)] == [paths \in Seq(Seq(Int)) |->
        LET queue == << <<gid>> >> \o paths
        IN IF Len(paths) >= cap \/ n > Len(queue) THEN paths
           ELSE search[n + 1][IF Len(queue[n]) > depth THEN paths
                              ELSE paths \o longer(queue[n])]]
  IN search[1][<<>>]

\* _bounded_simple_paths: the paths with no account twice, in breadth. A path that is
\* found waits in the queue behind the account; the n-th of the queue goes on by one
\* account, until there are as many as the cap.
PathsFrom(pairs, gid, depth, cap) ==
  LET next(path) == Sorted({b \in {e[2] : e \in pairs} :
                              <<Last(path), b>> \in pairs /\ b \notin ToSet(path)})
      longer(path) == [n \in DOMAIN next(path) |-> Append(path, next(path)[n])]
      search[n \in 1..(cap + 1)] == [paths \in Seq(Seq(Int)) |->
        LET queue == << <<gid>> >> \o paths
        IN IF Len(paths) >= cap \/ n > Len(queue) THEN paths
           ELSE search[n + 1][IF Len(queue[n]) > depth THEN paths
                              ELSE FirstOf(paths \o longer(queue[n]), cap)]]
  IN search[1][<<>>]

-----------------------------------------------------------------------------
(* The queries.                                                            *)

\* ego, for a depth of 1 or 2
Ego(graph, gid, depth) ==
  LET around == Around(DOMAIN graph.sum, {gid}, depth)
  IN [nodes |-> around, edges |-> {e \in DOMAIN graph.sum : e[1] \in around /\ e[2] \in around}]

\* Variation: the last edge of the path decides.
PathFlowLast(graph, path, direction) ==
  LET pair == <<path[Len(path) - 1], path[Len(path)]>>
  IN graph.sum[IF direction = "downstream" THEN pair ELSE <<pair[2], pair[1]>>]

\* _path_flow: the smallest sum on the path, in the direction the money went.
PathFlow(graph, path, direction) ==
  Min({LET pair == <<path[n], path[n + 1]>>
       IN graph.sum[IF direction = "downstream" THEN pair ELSE <<pair[2], pair[1]>>] :
         n \in 1..(Len(path) - 1)})

\* _path_record
PathRecord(graph, path, direction) ==
  [path |-> path, hops |-> Len(path) - 1, flow |-> PathFlow(graph, path, direction),
   urgency |-> Urgency[Last(path)]]

\* Half for the flow, a quarter each for nearness and for the endpoint's priority;
\* in parts of 1200 for each unit of the largest flow's logarithm.
Rank(record, largest) ==
  600 * Log1p[record.flow] + Log1p[largest] * (300 \div record.hops + 3 * record.urgency)

SmallerPath(p, q) ==
  \E n \in DOMAIN p : p[n] < q[n] /\ \A m \in 1..(n - 1) : p[m] = q[m]

\* The order of the paths of a trace, under the largest of their flows.
ListedBefore(r, s, largest) ==
  \/ Rank(r, largest) > Rank(s, largest)
  \/ Rank(r, largest) = Rank(s, largest) /\ r.hops < s.hops
  \/ /\ Rank(r, largest) = Rank(s, largest) /\ r.hops = s.hops
     /\ SmallerPath(r.path, s.path)

\* trace
Trace(graph, gid, direction, depth) ==
  LET pairs == IF direction = "downstream" THEN DOMAIN graph.sum ELSE Turned(DOMAIN graph.sum)
      records == {PathRecord(graph, path, direction) :
                    path \in ToSet(PathsFrom(pairs, gid, depth, CandidateFactor * PathLimit))}
      largest == IF records = {} THEN 0 ELSE Max({r.flow : r \in records})
  IN [paths |-> FirstOf(Ranked(records, LAMBDA r, s : ListedBefore(r, s, largest)), PathLimit),
      truncated |-> Cardinality(records) > PathLimit]

\* common_receivers: the accounts that at least two of the given ones reach, other
\* than those. Their order, which the sum along one shortest path of each decides,
\* and the limit that follows it are left out.
CommonReceivers(graph, gids, depth) ==
  LET from == [gid \in gids |-> Distances(DOMAIN graph.sum, gid, depth)]
      reach(b) == {gid \in gids : b \in DOMAIN from[gid]}
      met == {b \in graph.nodes \ gids : Cardinality(reach(b)) >= 2}
  IN {[gid |-> b, reachedBy |-> Cardinality(reach(b)),
       nearest |-> Min({from[gid][b] : gid \in reach(b)})] : b \in met}

\* compare_nodes
SharedSuccessors(graph, gids) ==
  {b \in graph.nodes : \A gid \in gids :
     b # gid /\ b \in Within(DOMAIN graph.sum, {gid}, 4)}

=============================================================================
