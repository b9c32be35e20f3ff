--------------------------- MODULE ScansAndSearches ---------------------------
(***************************************************************************)
(* What the scans, the effects of the actions and the graph queries        *)
(* promise, for every file, checked against definitions that search        *)
(* nothing.                                                                *)
(***************************************************************************)
EXTENDS TransactionFile, AlertRules

\* The graph that the pipeline builds from the edges of the file.
Graph ==
  [nodes |-> Accounts, sum |-> [e \in PairsOf(file) |-> SumOfPair(file, e)]]

\* What the ranking of paths needs to know: the priority of each account and the
\* logarithm of each sum that the transfers of a pair may come to.
LargestSum == MaxRows * Max({r.amount : r \in Rows})

RankingIsComplete ==
  /\ Accounts \subseteq DOMAIN Urgency
  /\ \A n \in 0..LargestSum : Log1p[n] \in Nat

\* The paths of at most so many hops that pass no account twice.
SimplePaths(pairs, gid, hops) ==
  {p \in UNION {[1..n -> Accounts] : n \in 2..Min({hops + 1, Cardinality(Accounts)})} :
     /\ p[1] = gid
     /\ \A m, n \in DOMAIN p : p[m] = p[n] => m = n
     /\ \A n \in 1..(Len(p) - 1) : <<p[n], p[n + 1]>> \in pairs}

\* Two accounts are connected if nothing that keeps its neighbours parts them.
Connected(pairs, a, b) ==
  \A S \in SUBSET Accounts :
    (\A e \in pairs : e[1] \in S <=> e[2] \in S) => (a \in S <=> b \in S)

-----------------------------------------------------------------------------
(* Properties.                                                             *)

\* A day's alerts and routes do not change when rows of a later day come in: the
\* replay of a day never looks ahead (services/agentic_loop.py:134), neither for
\* the rules, which sum over all of the history, nor for the clusters, nor for a
\* route that is built long after the scan.
NoLookAhead ==
  [][\A day \in Days :
       InRange(file, day) /\ day < file'[Len(file')].day =>
         /\ Scan(file', day).selected = Scan(file, day).selected
         /\ \A gid \in Accounts : MoneyRoute(file', gid, day) = MoneyRoute(file, gid, day)
    ]_file

\* The actions of one case fit each other, although the watchlist is made from the
\* alert as it was stored and the route from the file as it is when the analyst
\* approves it, which may have late rows of that day. Each account of the watchlist is
\* on the route, and so is the transfer of each listed payer, unless the route is full
\* of accounts, or of transfers, that come before it (services/agentic_loop.py:645 and
\* 654); and the alert's cluster holds them all.
EffectsFitTheAlert ==
  [][\A day \in Days : InRange(file, day) =>
       \A alert \in ToSet(Scan(file, day).selected) :
         LET route == MoneyRoute(file', alert.gid, day)
             clusters == Clusters(UpTo(Loaded(file), day))
         IN /\ \A gid \in Watchlist(alert) :
                 /\ \/ gid \in ToSet(route.nodes)
                    \/ /\ Len(route.nodes) = RouteSize
                       /\ \A shown \in ToSet(route.nodes) : shown < gid
                 /\ clusters[gid] = alert.cluster
            /\ \A payer \in ToSet(alert.payers) :
                 \/ \E e \in ToSet(route.edges) : e.pair = <<payer, alert.gid>>
                 \/ /\ Len(route.edges) = RouteSize
                    /\ \A e \in ToSet(route.edges) : SmallerPath(e.pair, <<payer, alert.gid>>)
    ]_file

\* The searches leave out nothing that they could have shown: a route has all simple
\* paths unless it is full, and then no path that it lacks is shorter than one it
\* has; clusters are exactly the connected parts.
SearchesAreComplete ==
  /\ \A gid \in Accounts :
       LET all == SimplePaths(PairsOf(file), gid, RouteHops)
           paths == MoneyRoute(file, gid, LastDay).paths
       IN /\ ToSet(paths) \subseteq all
          /\ Len(paths) = Min({Cardinality(all), RoutePaths})
          /\ \A p \in all \ ToSet(paths) : \A q \in ToSet(paths) : Len(q) <= Len(p)
  /\ LET clusters == Clusters(file)
     IN \A a, b \in AccountsOf(file) :
          clusters[a] = clusters[b] <=> Connected(PairsOf(file), a, b)

\* The queries do not contradict each other: what is downstream of one account along
\* a path is upstream of the other along the same path with the same flow; a path
\* ends where the comparison of accounts finds a successor; and an account that all
\* of the given ones reach is a successor that they share.
QueriesAgree ==
  LET down == [gid \in Accounts |-> Trace(Graph, gid, "downstream", RouteHops)]
      up == [gid \in Accounts |-> Trace(Graph, gid, "upstream", RouteHops)]
      whole(trace) == ~ trace.truncated
  IN /\ \A a, b \in Accounts : whole(down[a]) /\ whole(up[b]) =>
          {[path |-> r.path, flow |-> r.flow] :
             r \in {s \in ToSet(down[a].paths) : Last(s.path) = b}}
            = {[path |-> Reverse(r.path), flow |-> r.flow] :
                 r \in {s \in ToSet(up[b].paths) : Last(s.path) = a}}
     /\ \A a \in Accounts : whole(down[a]) =>
          {Last(r.path) : r \in ToSet(down[a].paths)} = SharedSuccessors(Graph, {a})
     /\ \A a, b \in Accounts : a # b =>
          {c.gid : c \in {d \in CommonReceivers(Graph, {a, b}, RouteHops) : d.reachedBy = 2}}
            = SharedSuccessors(Graph, {a, b}) \ {a, b}

=============================================================================
