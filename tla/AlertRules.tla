------------------------------ MODULE AlertRules ------------------------------
(***************************************************************************)
(* What a scan of a day finds and what an approved action makes of it: the *)
(* rules, the clusters, the order and the limit of                         *)
(* services/agentic_loop.py, and the effects it builds from an alert.      *)
(* The scan (module AutoMonitor) and the decision (module AgenticCases)    *)
(* store what is computed here.                                            *)
(***************************************************************************)
EXTENDS MoneyFlows, GraphSearch

CONSTANTS
  ManyPayers,  \* payers of a day from which the first rule holds (8 in the code)
  LargeDay,    \* what a day's income must exceed for the second (1 000 000)
  ScanLimit,   \* alerts that a scan may keep, the caller's limit (at most 50)
  PayersKept,  \* direct payers that an alert lists (100)
  RouteHops,   \* longest path of a money route (4)
  RoutePaths,  \* paths at which a money route stops (100)
  RouteSize    \* accounts, and transfers, that a money route shows (500)

ASSUME AlertRulesAssumption ==
  {ManyPayers, LargeDay, ScanLimit, PayersKept, RouteHops, RoutePaths, RouteSize}
    \subseteq Nat \ {0}

Rule == {"daily_unique_payers", "daily_incoming_kzt", "rapid_pass_through_0_2d"}

-----------------------------------------------------------------------------
(* Reading the file.                                                       *)

RowOrder(r, s) ==
  \/ r.day < s.day
  \/ r.day = s.day /\ r.src < s.src
  \/ r.day = s.day /\ r.src = s.src /\ r.dst < s.dst
  \/ r.day = s.day /\ r.src = s.src /\ r.dst = s.dst /\ r.amount < s.amount

\* _load_transactions
Loaded(file) == Arranged(file, RowOrder)

-----------------------------------------------------------------------------
(* The rules.                                                              *)

\* _historical_clusters: components, numbered by their smallest account.
Clusters(rows) ==
  LET accounts == AccountsOf(rows)
      component(gid) == Around(PairsOf(rows), {gid}, Cardinality(accounts))
      firsts == {Min(component(gid)) : gid \in accounts}
  IN [gid \in accounts |-> Cardinality({f \in firsts : f <= Min(component(gid))})]

\* The rules that an account meets on the last day of the history.
RulesMet(history, today, gid) ==
  LET payers == Cardinality(SrcOf(To(today, gid)))
      cameIn == Total(To(history, gid))
      wentOut == Total(From(history, gid))
      fast == FastForward(To(history, gid), From(history, gid))
      active == To(today, gid) \o From(today, gid) # <<>>
  IN {k \in Rule :
        \/ k = "daily_unique_payers" /\ payers >= ManyPayers
        \/ k = "daily_incoming_kzt" /\ Total(To(today, gid)) > LargeDay
        \/ /\ k = "rapid_pass_through_0_2d"
           /\ active /\ cameIn > 0
           /\ 9 * cameIn <= 10 * wentOut /\ 10 * wentOut <= 11 * cameIn
           /\ 10 * fast.fast >= 7 * fast.total}

\* _historical_role
RoleOf(rules) ==
  IF "daily_unique_payers" \in rules THEN "consolidator_candidate"
  ELSE IF "rapid_pass_through_0_2d" \in rules THEN "transit_candidate"
  ELSE "high_value_receiver_candidate"

\* The score, in parts of 100 * LargeDay * ManyPayers, of which it has at most 99.
PriorityOf(rules, cameIn, payers) ==
  Min({99 * LargeDay * ManyPayers,
       (45 + 14 * Cardinality(rules)) * LargeDay * ManyPayers
         + 8 * ManyPayers * Min({LargeDay, cameIn})
         + 5 * LargeDay * Min({ManyPayers, payers})})

\* One alert of _derive_alerts.
AlertOf(history, today, gid) ==
  LET rules == RulesMet(history, today, gid)
      payers == Cardinality(SrcOf(To(today, gid)))
  IN [gid |-> gid, rules |-> rules, role |-> RoleOf(rules), cluster |-> Clusters(history)[gid],
      payers |-> FirstOf(Sorted(SrcOf(To(history, gid))), PayersKept),
      priority |-> PriorityOf(rules, Total(To(today, gid)), payers),
      latest |-> Max(DaysOf(history))]

AlertBefore(a, b) == a.priority > b.priority \/ (a.priority = b.priority /\ a.gid < b.gid)

\* _derive_alerts and the sort of run_scan
Alerts(file, day) ==
  LET history == UpTo(Loaded(file), day)
      today == On(Loaded(file), day)
      found == {gid \in AccountsOf(history) : RulesMet(history, today, gid) # {}}
  IN Ranked({AlertOf(history, today, gid) : gid \in found}, AlertBefore)

\* run_scan, for a day of the range that the file covers.
InRange(file, day) ==
  file # <<>> /\ Min(DaysOf(file)) <= day /\ day <= Max(DaysOf(file))

Scan(file, day) ==
  LET alerts == Alerts(file, day)
  IN [selected |-> FirstOf(alerts, ScanLimit),
      seen |-> Len(UpTo(Loaded(file), day)),
      today |-> Len(On(Loaded(file), day)),
      excluded |-> Len(file) - Len(UpTo(Loaded(file), day)),
      candidates |-> Len(alerts),
      limited |-> Len(alerts) > ScanLimit]

-----------------------------------------------------------------------------
(* The effects of the actions, built when the decision is made, from the   *)
(* alert and, for the route, from the file as it is then.                  *)

\* Pairs as a groupby of src and dst gives them, and a table of them.
InTurn(pairs) == Ranked(pairs, SmallerPath)

EdgeRows(rows, pairs) ==
  [n \in DOMAIN pairs |-> [pair |-> pairs[n], sum |-> SumOfPair(rows, pairs[n]),
                          count |-> CountOfPair(rows, pairs[n])]]

\* Variation: the transfers are those among the accounts that are shown.
MoneyRouteOfShown(file, gid, day) ==
  LET observed == UpTo(Loaded(file), day)
      ego == ToSet(FirstOf(Sorted(Around(PairsOf(observed), {gid}, 2)), RouteSize))
      inside == {p \in PairsOf(observed) : p[1] \in ego /\ p[2] \in ego}
  IN [nodes |-> Sorted(ego),
      edges |-> EdgeRows(observed, FirstOf(InTurn(inside), RouteSize)),
      paths |-> PathsFrom(PairsOf(observed), gid, RouteHops, RoutePaths)]

\* _money_route
MoneyRoute(file, gid, day) ==
  LET observed == UpTo(Loaded(file), day)
      ego == Around(PairsOf(observed), {gid}, 2)
      inside == {p \in PairsOf(observed) : p[1] \in ego /\ p[2] \in ego}
  IN [nodes |-> FirstOf(Sorted(ego), RouteSize),
      edges |-> EdgeRows(observed, FirstOf(InTurn(inside), RouteSize)),
      paths |-> PathsFrom(PairsOf(observed), gid, RouteHops, RoutePaths)]

\* The accounts of create_local_watchlist: the alert's and those that paid it.
Watchlist(alert) == {alert.gid} \cup ToSet(alert.payers)

=============================================================================
