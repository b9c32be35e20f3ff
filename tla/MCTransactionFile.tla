-------------------------- MODULE MCTransactionFile --------------------------
(***************************************************************************)
(* A small instance of all that is computed from the transaction file:     *)
(* four accounts, of which three form a cycle, one pays itself and one     *)
(* only receives, and days of which the first and the last are too far     *)
(* apart for a fast forwarding.                                            *)
(***************************************************************************)
EXTENDS HoldingTimes, ScansAndSearches, PipelinePromises

SmallRows ==
  {[src |-> e[1], dst |-> e[2], day |-> d, amount |-> e[3]] :
     e \in {<<1, 2, 1>>, <<1, 2, 2>>, <<2, 1, 1>>, <<1, 3, 2>>, <<2, 3, 2>>,
            <<3, 1, 1>>, <<3, 4, 1>>, <<1, 1, 1>>},
     d \in {1, 2, 4}}

Logarithms == [n \in 0..8 |-> <<0, 693, 1099, 1386, 1609, 1792, 1946, 2079, 2197>>[n + 1]]

Priorities == [gid \in 1..4 |-> 10 * gid]

\* config/default.yaml
DefaultRoleWeights ==
  [consolidator |-> [in_degree |-> 35, in_transactions |-> 15, in_amount |-> 15, authority |-> 10,
                     seed_reach |-> 10, retention |-> 10, daily_payers |-> 5],
   distributor |-> [out_degree |-> 40, out_transactions |-> 20, out_amount |-> 15, hub |-> 10,
                    recipients_to_payers |-> 10, daily_fan_out |-> 5],
   transit |-> [pass_through |-> 25, fast_forward |-> 25, matched_out |-> 15, degree_balance |-> 10,
                amount_balance |-> 10, betweenness |-> 10, temporal_activity |-> 5],
   coordinator |-> [betweenness |-> 30, pagerank |-> 20, seed_reach |-> 20,
                    cross_cluster_bridge |-> 15, component_structure |-> 10, balanced_flow |-> 5],
   terminal |-> [observed_input |-> 20, no_observed_output |-> 40, in_amount |-> 15,
                 in_degree |-> 10, retention |-> 10, authority |-> 5]]

DefaultPriorityWeights ==
  [coordinator |-> 22, consolidator |-> 18, distributor |-> 12, transit |-> 8, pagerank |-> 12,
   betweenness |-> 12, seed_reach |-> 10, turnover |-> 6]

ASSUME DefaultWeightsNeedObservation == WeightsNeedObservation

\* What the theorems about the pipeline and the queries ask of the rows, of the
\* resolution and of the ranking.
ASSUME InstanceIsFine ==
  /\ Rows # {} /\ Cardinality(Accounts) <= Unit
  /\ RouteHops = 4 /\ RankingIsComplete

Depths == [gid \in 1..4 |-> <<0, 1, 4, 4>>[gid]]

=============================================================================
