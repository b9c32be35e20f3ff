------------------------------ MODULE RoleEngine ------------------------------
(***************************************************************************)
(* How the pipeline names the part that an account plays and how urgent it *)
(* is to look at it (pipeline/role_engine.py and priority.py).  A signal   *)
(* is a number of parts of Unit, a score of parts of Full.                 *)
(***************************************************************************)
EXTENDS Analysis

CONSTANTS
  RoleWeights,      \* for each core role, the weight of each of its signals in hundredths
  PriorityWeights,  \* the weight of each driver of the priority
  RoleThreshold,    \* hundredths that a core score needs to name the role (40)
  TerminalCap,      \* the most that the terminal score of a truncated account has (25)
  SeedPenalty,      \* what is left of the transit score of a seed (60)
  Unit              \* parts of one that a ratio is told in, where the code has floats

Full == 10000 * Unit  \* a weight and a penalty are hundredths

\* CORE_ROLES; between equal scores the first one is taken.
CoreRoles == <<"consolidator", "transit", "distributor", "terminal", "coordinator">>

\* ROLE_WEIGHT_KEYS and PRIORITY_WEIGHT_KEYS
RoleWeightKeys ==
  [consolidator |-> {"in_degree", "in_transactions", "in_amount", "authority", "seed_reach",
                     "retention", "daily_payers"},
   distributor |-> {"out_degree", "out_transactions", "out_amount", "hub",
                    "recipients_to_payers", "daily_fan_out"},
   transit |-> {"pass_through", "fast_forward", "matched_out", "degree_balance",
                "amount_balance", "betweenness", "temporal_activity"},
   coordinator |-> {"betweenness", "pagerank", "seed_reach", "cross_cluster_bridge",
                    "component_structure", "balanced_flow"},
   terminal |-> {"observed_input", "no_observed_output", "in_amount", "in_degree",
                 "retention", "authority"}]

PriorityWeightKeys ==
  {"coordinator", "consolidator", "distributor", "transit", "pagerank", "betweenness",
   "seed_reach", "turnover"}

\* What load_analysis_config accepts.
ConfigAccepted ==
  /\ DOMAIN RoleWeights = ToSet(CoreRoles)
  /\ \A role \in DOMAIN RoleWeights : DOMAIN RoleWeights[role] = RoleWeightKeys[role]
  /\ DOMAIN PriorityWeights = PriorityWeightKeys
  /\ \A weights \in {RoleWeights[role] : role \in DOMAIN RoleWeights} \cup {PriorityWeights} :
       /\ \A name \in DOMAIN weights : weights[name] \in Nat
       /\ SumOver(DOMAIN weights, LAMBDA name : weights[name]) = 100
  /\ {RoleThreshold, TerminalCap, SeedPenalty} \subseteq 0..100

ASSUME RoleEngineAssumption == ConfigAccepted
ASSUME UnitAssumption == Unit \in Nat \ {0}

-----------------------------------------------------------------------------
(* Ranks.                                                                  *)

Below(value, gid) == Cardinality({b \in DOMAIN value : value[b] < value[gid]})
Level(value, gid) == Cardinality({b \in DOMAIN value : value[b] = value[gid]})

\* _percentile of the features: the average rank, over the number of accounts.
Percentile(value, gid) ==
  (Unit * (2 * Below(value, gid) + Level(value, gid) + 1)) \div (2 * Cardinality(DOMAIN value))

\* _percentile of the roles and of the priority: the average rank from 0 to 1, and
\* what all accounts get when they are level.
RankScaled(value, gid, ifLevel) ==
  IF Level(value, gid) = Cardinality(DOMAIN value) THEN ifLevel
  ELSE (Unit * (2 * Below(value, gid) + Level(value, gid) - 1))
         \div (2 * (Cardinality(DOMAIN value) - 1))

Column(table, name) == [gid \in DOMAIN table |-> table[gid][name]]

\* _balance
Balance(left, right) ==
  IF left = 0 /\ right = 0 THEN 0
  ELSE (Unit * Min({left, right})) \div Max({left, right})

-----------------------------------------------------------------------------
(* Scores.                                                                 *)

\* The signals of score_roles, under the names that the weights give them. HITS is
\* taken at its fallback, the share of what came in or went out; betweenness and the
\* boundary signal of the cluster come from outside, as one value.
Signals(table, outside, gid) ==
  LET a == table[gid]
      flows == a.flows
      ranked(name) == Percentile(Column(table, name), gid)
      matched == IF flows.observed = 0 THEN 0 ELSE (Unit * flows.matched) \div flows.observed
      fast == IF flows.matched = 0 THEN 0 ELSE (Unit * flows.fast) \div flows.matched
      onADay(name) ==
        RankScaled(Column(table, name), gid, IF a[name] = 0 THEN 0 ELSE Unit \div 2)
  IN [in_degree |-> ranked("inDeg"), in_transactions |-> ranked("inTx"),
      in_amount |-> ranked("inSum"), authority |-> ranked("inSum"),
      out_degree |-> ranked("outDeg"), out_transactions |-> ranked("outTx"),
      out_amount |-> ranked("outSum"), hub |-> ranked("outSum"),
      seed_reach |-> ranked("seedReach"), component_structure |-> ranked("component"),
      turnover |-> ranked("total"),
      pagerank |-> Percentile(outside, gid), betweenness |-> Percentile(outside, gid),
      cross_cluster_bridge |-> outside[gid],
      retention |-> IF a.reliable /\ a.inSum > 0 THEN Unit - matched ELSE 0,
      daily_payers |-> onADay("payers"), daily_fan_out |-> onADay("recipients"),
      recipients_to_payers |->
        (Unit * Max({0, a.outDeg - a.inDeg})) \div Max({1, a.inDeg, a.outDeg}),
      pass_through |->
        IF a.passValid THEN Max({0, Unit - (Unit * Max({a.outSum - a.inSum, a.inSum - a.outSum}))
                                              \div a.inSum})
        ELSE 0,
      fast_forward |-> IF a.reliable THEN fast ELSE 0,
      matched_out |-> IF a.reliable THEN matched ELSE 0,
      degree_balance |-> Balance(a.inDeg, a.outDeg),
      amount_balance |-> Balance(a.inSum, a.outSum),
      balanced_flow |-> Balance(a.inSum, a.outSum),
      temporal_activity |-> IF a.reliable THEN Balance(a.daysIn, a.daysOut) ELSE 0,
      observed_input |-> IF a.inDeg > 0 /\ a.inSum > 0 THEN Unit ELSE 0,
      no_observed_output |-> IF a.outDeg = 0 THEN Unit ELSE 0]

Weighted(weights, signals) ==
  LET added == [name \in DOMAIN weights |-> weights[name] * signals[name]]
  IN 100 * SumOver(DOMAIN added, LAMBDA name : added[name])

\* Variation: a truncated account is scored like every other.
CoreScoresUncapped(a, signals) ==
  [role \in ToSet(CoreRoles) |->
     LET score == Weighted(RoleWeights[role], signals)
     IN IF role = "transit" /\ a.seed THEN (score \div 100) * SeedPenalty ELSE score]

\* The five core scores of score_roles.
CoreScores(a, signals) ==
  [role \in ToSet(CoreRoles) |->
     LET score == Weighted(RoleWeights[role], signals)
     IN IF role = "transit" /\ a.seed THEN (score \div 100) * SeedPenalty
        ELSE IF role = "terminal" /\ a.truncated THEN Min({score, (Full \div 100) * TerminalCap})
        ELSE score]

Isolated(a) == a.inDeg = 0 /\ a.outDeg = 0

\* The role: the first of the highest core scores, if it reaches the threshold.
RoleOfScores(a, scores) ==
  LET top == Max({scores[role] : role \in DOMAIN scores})
  IN IF Isolated(a) \/ top < (Full \div 100) * RoleThreshold THEN "peripheral"
     ELSE CoreRoles[Min({n \in DOMAIN CoreRoles : scores[CoreRoles[n]] = top})]

\* role_score: eight tenths of the highest of all six scores and two of its lead.
RoleScore(a, scores) ==
  LET top == Max({scores[role] : role \in DOMAIN scores})
      peripheral == IF Isolated(a) THEN Full ELSE Full - top
      first == Max({top, peripheral})
      others == IF peripheral >= top THEN DOMAIN scores
                ELSE DOMAIN scores \ {CHOOSE role \in DOMAIN scores : scores[role] = top}
      second == Max({scores[role] : role \in others}
                      \cup IF peripheral >= top THEN {} ELSE {peripheral})
  IN (80 * first + 20 * (first - second)) \div 100

\* score_priority: what each driver adds.
Contributions(scores, signals) ==
  [name \in DOMAIN PriorityWeights |->
     PriorityWeights[name] * (IF name \in DOMAIN scores THEN scores[name] \div 100
                              ELSE 100 * signals[name])]

PriorityRaw(scores, signals) ==
  LET added == Contributions(scores, signals) IN SumOver(DOMAIN added, LAMBDA name : added[name])

\* score_priority: the rank of the weighted sum of the drivers, or the sum itself, as a
\* share and cut at 1, of an account that is alone.
Priority(table, outside) ==
  LET raw == [gid \in DOMAIN table |->
                LET signals == Signals(table, outside, gid)
                IN PriorityRaw(CoreScores(table[gid], signals), signals)]
      alone == Cardinality(DOMAIN table) = 1
  IN [gid \in DOMAIN table |->
        RankScaled(raw, gid, IF alone THEN Min({Unit, raw[gid] \div 10000}) ELSE 0)]

=============================================================================
