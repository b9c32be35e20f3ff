------------------------------ MODULE GraphCache ------------------------------
(***************************************************************************)
(* The graph that the queries of services/graph_queries.py share.  It is   *)
(* built from the tables of the store (module Artifacts) and labelled with *)
(* the version the store had when the query asked.  The threads of the API *)
(* build and label it without a lock.  A trace takes the graph to find its *)
(* paths and takes it again to measure each of them.                       *)
(***************************************************************************)
EXTENDS Artifacts

CONSTANTS
  Queriers,  \* the threads that query the graph; the others call the store
  Tracers    \* those of them that may also trace paths

ASSUME GraphCacheAssumption == Tracers \subseteq Queriers /\ Queriers \subseteq Threads

VARIABLES
  graph,  \* _graph, as the files it was built from, and _graph_version
  query   \* how far each thread is in _current_graph, and in a trace around it

cacheVars == <<artifactVars, graph, query>>

Sources == {"nodes_roles", "edges_enriched"}

\* No paths have been found yet.
NotSearched == [f \in Sources |-> -1]

\* asked is what was on disk when the query began, found the graph of its paths.
NoQuery ==
  [at |-> "none", asked |-> [f \in Sources |-> 0], version |-> 0,
   built |-> [f \in Sources |-> 0], found |-> NotSearched]

CacheInit ==
  /\ Init
  /\ graph = [built |-> [f \in Sources |-> 0], version |-> -1]
  /\ query = [t \in Threads |-> NoQuery]

-----------------------------------------------------------------------------
(* One action per line of _current_graph; each getter is a call of the     *)
(* store, with all the steps of its refresh, and a read of its table.      *)

At(t, place) == query[t].at = place

Answered(t) == thread[t].stage = "refreshed"

\* Variation: the version is taken as it is, without a refresh.
AskWithoutRefresh(t) ==
  /\ t \in Queriers
  /\ At(t, "none") /\ thread[t].stage = "idle"
  /\ query' = [query EXCEPT ![t] = [NoQuery EXCEPT !.at = "compare", !.version = version,
                                    !.asked = [f \in Sources |-> disk[f]]]]
  /\ UNCHANGED <<artifactVars, graph>>

\* A query begins: it asks for the version.
Ask(t) ==
  /\ t \in Queriers
  /\ At(t, "none")
  /\ Call(t)
  /\ query' = [query EXCEPT ![t].at = "version", ![t].asked = [f \in Sources |-> disk[f]]]
  /\ UNCHANGED graph

ReadVersion(t) ==
  /\ At(t, "version")
  /\ Answered(t)
  /\ Return(t)
  /\ query' = [query EXCEPT ![t].at = "compare", ![t].version = version]
  /\ UNCHANGED graph

\* The label is the version: the graph can be used as it is.
Hit(t) ==
  /\ At(t, "compare")
  /\ query[t].version = graph.version
  /\ query' = [query EXCEPT ![t].at = "hit"]
  /\ UNCHANGED <<artifactVars, graph>>

UseGraph(t) ==
  /\ At(t, "hit")
  /\ query' = [query EXCEPT ![t].at = "served", ![t].built = graph.built]
  /\ UNCHANGED <<artifactVars, graph>>

Miss(t) ==
  /\ At(t, "compare")
  /\ query[t].version # graph.version
  /\ Call(t)
  /\ query' = [query EXCEPT ![t].at = "nodes"]
  /\ UNCHANGED graph

\* The graph's nodes, or its edges, are taken from the tables.
Take(t, place, f, next) ==
  /\ At(t, place)
  /\ Answered(t)
  /\ Return(t)
  /\ query' = [query EXCEPT ![t].at = next, ![t].built[f] = tables[f]]
  /\ UNCHANGED graph

TakeNodes(t) == Take(t, "nodes", "nodes_roles", "nodes taken")

CallEdges(t) ==
  /\ At(t, "nodes taken")
  /\ Call(t)
  /\ query' = [query EXCEPT ![t].at = "edges"]
  /\ UNCHANGED graph

TakeEdges(t) == Take(t, "edges", "edges_enriched", "built")

StoreGraph(t) ==
  /\ At(t, "built")
  /\ graph' = [graph EXCEPT !.built = query[t].built]
  /\ query' = [query EXCEPT ![t].at = "stored"]
  /\ UNCHANGED artifactVars

\* Variation: the graph is labelled with the version of the moment.
StoreLatestLabel(t) ==
  /\ At(t, "stored")
  /\ graph' = [graph EXCEPT !.version = version]
  /\ query' = [query EXCEPT ![t].at = "served"]
  /\ UNCHANGED artifactVars

StoreLabel(t) ==
  /\ At(t, "stored")
  /\ graph' = [graph EXCEPT !.version = query[t].version]
  /\ query' = [query EXCEPT ![t].at = "served"]
  /\ UNCHANGED artifactVars

\* A trace: the paths are found in the graph it was given, or one was measured in
\* it, and the profile of an account comes from the store (get_node).
CallProfile(t) ==
  /\ t \in Tracers
  /\ At(t, "served") \/ At(t, "profiled")
  /\ Call(t)
  /\ query' = [query EXCEPT ![t].at = "profile",
                            ![t].found = IF @ = NotSearched THEN query[t].built ELSE @]
  /\ UNCHANGED graph

TakeProfile(t) ==
  /\ At(t, "profile")
  /\ Answered(t)
  /\ Return(t)
  /\ query' = [query EXCEPT ![t].at = "profiled"]
  /\ UNCHANGED graph

\* _path_flow: it asks for the graph again.
AskAgain(t) ==
  /\ At(t, "profiled")
  /\ Call(t)
  /\ query' = [query EXCEPT ![t].at = "version"]
  /\ UNCHANGED graph

\* The query answers from the graph it was given.
Serve(t) ==
  /\ At(t, "served")
  /\ query' = [query EXCEPT ![t] = NoQuery]
  /\ UNCHANGED <<artifactVars, graph>>

\* The store could not load the files, and the query fails.
Fail(t) ==
  /\ ~ At(t, "none")
  /\ thread[t].stage = "raised"
  /\ Return(t)
  /\ query' = [query EXCEPT ![t] = NoQuery]
  /\ UNCHANGED graph

Query(t) ==
  \/ Ask(t) \/ ReadVersion(t) \/ Hit(t) \/ UseGraph(t) \/ Miss(t) \/ TakeNodes(t)
  \/ CallEdges(t) \/ TakeEdges(t) \/ StoreGraph(t) \/ StoreLabel(t)
  \/ CallProfile(t) \/ TakeProfile(t) \/ AskAgain(t) \/ Serve(t) \/ Fail(t)

\* A thread that is in no query calls the store for itself.
Store(t) ==
  /\ Refresh(t) \/ (At(t, "none") /\ (Call(t) \/ Return(t)))
  /\ UNCHANGED <<graph, query>>

CacheNext ==
  \/ (Pipeline /\ UNCHANGED <<graph, query>>)
  \/ \E t \in Threads : Store(t) \/ Query(t)

CacheSpec == CacheInit /\ [][CacheNext]_cacheVars

-----------------------------------------------------------------------------
(* Properties.                                                             *)

\* A query is answered from files at least as new as those on disk when it was
\* asked: the cache never shows less than "pipeline artifacts"
\* (services/graph_queries.py:16). This needs the version to be read before the
\* tables, because a load may come in between.
ServedGraphIsFresh ==
  \A t \in Queriers : At(t, "served") =>
    \A f \in Sources : query[t].built[f] >= query[t].asked[f]

\* A trace measures its paths in the graph in which it found them, unless the
\* pipeline replaced a file while it ran (services/graph_queries.py:266). A path that
\* the newer graph lacks is then a KeyError, which no route of api/ handles.
TraceIsOfOneRun ==
  \A t \in Queriers : At(t, "served") /\ query[t].found # NotSearched =>
    \/ query[t].built = query[t].found
    \/ \E f \in Sources : disk[f] # query[t].asked[f]

-----------------------------------------------------------------------------
(* Why they hold where one thread queries: the parts of the invariant.     *)

Building == {"nodes", "nodes taken", "edges", "built", "stored"}

Queries ==
  [at: Building \cup {"none", "version", "compare", "hit", "served", "profile", "profiled"},
   asked: [Sources -> Nat], version: Nat, built: [Sources -> Nat],
   found: [Sources -> Nat] \cup {NotSearched}]

\* The type of the two variables of this module.
CacheTypeOK ==
  /\ graph \in [built: [Sources -> Nat], version: Nat \cup {-1}]
  /\ query \in [Threads -> Queries]

\* A graph labelled with the version of the store has what the signature has seen.
LabelIsTrue ==
  /\ graph.version <= version
  /\ graph.version = version => \A f \in Sources : signature[f] <= graph.built[f]
  /\ \A f \in Sources : graph.built[f] <= disk[f]

\* What a query has taken for its graph is new enough for it, and for the version
\* it will be labelled with.
TakenInTime(t, f) ==
  /\ query[t].asked[f] <= query[t].built[f]
  /\ query[t].version = version => signature[f] <= query[t].built[f]

\* What a query was asked for, compares, builds and finds is in this order.
QueryInOrder(t) ==
  LET q == query[t] IN
  /\ t \notin Queriers => q.at = "none"
  /\ q.at = "none" => q.found = NotSearched
  /\ q.at = "version" => \A f \in Sources : q.asked[f] <= thread[t].asked[f]
  /\ q.at \notin {"none", "version"} =>
       q.version <= version /\ \A f \in Sources : q.asked[f] <= signature[f]
  /\ q.at = "compare" =>
       /\ graph.version <= q.version
       /\ graph.version = q.version => \A f \in Sources : q.asked[f] <= graph.built[f]
  /\ q.at = "hit" => \A f \in Sources : q.asked[f] <= graph.built[f]
  /\ q.at \in Building => graph.version < q.version
  /\ q.at \in Building \ {"nodes"} => TakenInTime(t, "nodes_roles")
  /\ q.at \in {"built", "stored"} => TakenInTime(t, "edges_enriched")
  /\ q.at = "stored" => graph.built = q.built
  /\ q.at \in {"served", "profile", "profiled"} => \A f \in Sources : q.asked[f] <= q.built[f]
  /\ \A f \in Sources : q.built[f] <= disk[f]
  /\ q.found # NotSearched => \A f \in Sources : q.asked[f] <= q.found[f] /\ q.found[f] <= disk[f]

QueriesInOrder == \A t \in Threads : QueryInOrder(t)

=============================================================================
