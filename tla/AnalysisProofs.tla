---------------------------- MODULE AnalysisProofs ----------------------------
(* Proofs about the tables of Analysis, the roles of RoleEngine, the files *)
(* of Exports and the scans of AlertRules.                                 *)
EXTENDS PipelinePromises, ScansAndSearches, HoldingTimes, TableProofs

-----------------------------------------------------------------------------
(* The file.                                                               *)

\* The file holds rows that an export may contain.
FileTypeOK == file \in Seq(Rows)

THEOREM FileType == Spec => []FileTypeOK
<1>1. Init => FileTypeOK
  BY DEF Init, FileTypeOK
<1>2. FileTypeOK /\ [Receive]_file => FileTypeOK'
  <2>1. ASSUME FileTypeOK, Receive
        PROVE  FileTypeOK'
    <3>1. PICK r \in Rows : file' = Append(file, r)
      BY <2>1 DEF Receive
    <3>2. QED
      BY <2>1, <3>1 DEF FileTypeOK
  <2>2. ASSUME FileTypeOK, UNCHANGED file
        PROVE  FileTypeOK'
    BY <2>2 DEF FileTypeOK
  <2>3. QED
    BY <2>1, <2>2
<1>3. QED
  BY <1>1, <1>2, PTL DEF Spec

LEMMA RowsAreTransfers ==
  /\ Transfers(Rows)
  /\ \A r \in Rows : /\ r.src \in Nat /\ r.dst \in Nat /\ r.day \in Nat /\ r.amount \in Nat
                     /\ r.amount \in Int /\ r.amount > 0
<1>1. \A r \in Rows : {r.src, r.dst, r.day} \subseteq Nat /\ r.amount \in Nat \ {0}
  <2>1. \A r \in Rows : r \in [src : Nat, dst : Nat, day : Nat, amount : Nat \ {0}]
    BY TransactionFileAssumption
  <2>2. QED
    BY <2>1
<1>2. \A r \in Rows : /\ r.src \in Nat /\ r.dst \in Nat /\ r.day \in Nat /\ r.amount \in Nat
                      /\ r.amount > 0
  BY <1>1
<1>3. QED
  BY <1>2 DEF Transfers

-----------------------------------------------------------------------------
(* Tables and transactions.                                                *)

\* Tables without a problem can be made a graph of: build_graph raises for nothing
\* that validate_dataset lets pass. And the graph is the one of the transactions.
THEOREM ValidTablesBuild ==
  ASSUME NEW nodes, NEW edges, NEW rows, Problems(nodes, edges, rows) = {}
  PROVE  /\ ~ Unbuildable(nodes, edges)
         /\ DOMAIN BuildGraph(nodes, edges).sum = PairsOf(rows)
         /\ DOMAIN BuildGraph(nodes, edges).n = PairsOf(rows)
         /\ \A pair \in PairsOf(rows) :
              /\ BuildGraph(nodes, edges).sum[pair] = SumOfPair(rows, pair)
              /\ BuildGraph(nodes, edges).n[pair] = CountOfPair(rows, pair)
<1>1. \A p \in {"node twice", "edge twice", "edge not positive", "unknown account",
                "aggregation"} : p \notin Problems(nodes, edges, rows)
  OBVIOUS
<1>2. ~ Twins(GidColumn(nodes)) /\ ~ Twins(PairColumn(edges))
  BY <1>1 DEF Problems
<1>3. ~ \E e \in ToSet(edges) : e.sum <= 0 \/ e.n <= 0
  BY <1>1 DEF Problems
<1>4. AccountsOf(edges) \subseteq GidsOf(nodes)
  BY <1>1 DEF Problems
<1>5. PairsOf(edges) = PairsOf(rows)
  BY <1>1 DEF Problems
<1>6. \A e \in ToSet(edges) : /\ e.sum = SumOfPair(rows, <<e.src, e.dst>>)
                              /\ e.n = CountOfPair(rows, <<e.src, e.dst>>)
  BY <1>1 DEF Problems
<1>7. ASSUME NEW pair \in PairsOf(rows)
      PROVE  LET e == CHOOSE e \in ToSet(edges) : <<e.src, e.dst>> = pair
             IN  e \in ToSet(edges) /\ <<e.src, e.dst>> = pair
  BY <1>5 DEF PairsOf
<1>8. QED
  BY <1>2, <1>3, <1>4, <1>5, <1>6, <1>7 DEF Unbuildable, BuildGraph

\* What valid tables say of an account is what its transactions say.
LEMMA FeaturesAreTheFile ==
  ASSUME NEW rows \in Seq(Rows), NEW graph, DOMAIN graph.sum = PairsOf(rows),
         \A p \in PairsOf(rows) : /\ graph.sum[p] = SumOfPair(rows, p)
                                  /\ graph.n[p] = CountOfPair(rows, p),
         NEW gid
  PROVE  LET f == Features(graph, rows, gid)
         IN  /\ f.outSum = f.flows.matched + f.flows.unmatched
             /\ f.inSum = Total(To(rows, gid)) /\ f.inTx = Len(To(rows, gid))
             /\ f.outSum = Total(From(rows, gid)) /\ f.outTx = Len(From(rows, gid))
<1> DEFINE D == DOMAIN rows
           pairs == PairsOf(rows)
           key == PairAt(rows)
           amounts == Amounts(rows)
           ones == [i \in D |-> 1]
           ins == {p \in pairs : p[2] = gid}
           outs == {p \in pairs : p[1] = gid}
           intos == {i \in D : key[i][2] = gid}
           outofs == {i \in D : key[i][1] = gid}
<1>1. /\ \A i \in D : rows[i].amount \in Int /\ rows[i].amount \in Nat
      /\ D = 1 .. Len(rows) /\ IsFiniteSet(D)
  BY TableDomain, RowsAreTransfers
<1>2. \A i \in D : amounts[i] \in Int /\ ones[i] \in Int
  BY <1>1 DEF Amounts
<1>3. OfPairs(rows, amounts, graph.sum) /\ OfPairs(rows, ones, graph.n)
  <2>1. /\ OfPairs(rows, amounts, [p \in PairsOf(rows) |-> SumOfPair(rows, p)])
        /\ OfPairs(rows, ones, [p \in PairsOf(rows) |-> CountOfPair(rows, p)])
    BY RowsAreTransfers, PairTotals
  <2> HIDE DEF amounts, ones
  <2>2. QED
    BY <2>1 DEF OfPairs
<1>4. \A of : /\ OfPairs(rows, amounts, of) => Sum(of, ins) = Sum(amounts, intos)
                                             /\ Sum(of, outs) = Sum(amounts, outofs)
              /\ OfPairs(rows, ones, of) => Sum(of, ins) = Sum(ones, intos)
                                            /\ Sum(of, outs) = Sum(ones, outofs)
  <2> SUFFICES ASSUME NEW f, NEW of, OfPairs(rows, f, of)
               PROVE  Sum(of, ins) = Sum(f, intos) /\ Sum(of, outs) = Sum(f, outofs)
    OBVIOUS
  <2> HIDE DEF ins, outs, intos, outofs
  <2>1. ASSUME NEW side \in {1, 2}
        PROVE  Sum(of, PairsOfSide(rows, side, gid)) = Sum(f, PlacesOfSide(rows, side, gid))
    BY SumOfSide
  <2>2. QED
    BY <2>1 DEF ins, outs, intos, outofs, PairsOfSide, PlacesOfSide
<1>5. /\ intos = {i \in D : rows[i].dst = gid} /\ outofs = {i \in D : rows[i].src = gid}
      /\ outofs = OutOf(rows, gid)
  BY <1>1 DEF PairAt, OutOf, Times
<1>6. /\ To(rows, gid) = Picked(rows, intos) /\ From(rows, gid) = Picked(rows, outofs)
      /\ intos \in SUBSET D /\ outofs \in SUBSET D
  BY <1>5 DEF To, From, Where
<1>7. \A i \in D : ones[i] = 1
  OBVIOUS
<1> HIDE DEF intos, outofs, ones, amounts
<1>8. /\ Total(To(rows, gid)) = Sum(amounts, intos)
      /\ Total(From(rows, gid)) = Sum(amounts, outofs)
  BY <1>6, RowsAreTransfers, TotalOfPicked DEF amounts
<1>9. /\ Len(To(rows, gid)) = Cardinality(intos) /\ IsFiniteSet(intos)
      /\ Len(From(rows, gid)) = Cardinality(outofs) /\ IsFiniteSet(outofs)
  BY <1>6, PickedRows
<1>10. Sum(ones, intos) = Cardinality(intos) /\ Sum(ones, outofs) = Cardinality(outofs)
  BY <1>6, <1>7, <1>9, SumOfOnes
<1>11. /\ Sum(graph.sum, ins) = Sum(amounts, intos) /\ Sum(graph.n, ins) = Sum(ones, intos)
       /\ Sum(graph.sum, outs) = Sum(amounts, outofs) /\ Sum(graph.n, outs) = Sum(ones, outofs)
  BY <1>3, <1>4
<1> DEFINE f == Features(graph, rows, gid)
           m == Matched(rows, gid)
<1>12. /\ f.inSum = Sum(graph.sum, ins) /\ f.inTx = Sum(graph.n, ins)
       /\ f.outSum = Sum(graph.sum, outs) /\ f.outTx = Sum(graph.n, outs)
       /\ f.flows.matched = VolumeOf(m.chunks) /\ f.flows.unmatched = m.unmatched
  BY DEF Features, InPairs, OutPairs, Sum, FifoMetrics
<1>13. VolumeOf(m.chunks) + m.unmatched = Sum(amounts, outofs)
  BY <1>5, RowsAreTransfers, MatchedOrMissing DEF amounts
<1>14. QED
  BY <1>8, <1>9, <1>10, <1>11, <1>12, <1>13

\* The check of the tables holds the graph and the transactions together.
THEOREM ValidTablesAreTheFile == Spec => []TablesAreTheFile
<1>1. FileTypeOK => TablesAreTheFile
  <2> SUFFICES ASSUME file \in Seq(Rows),
                      NEW nodes \in NodeTables, NEW edges \in EdgeTables,
                      Problems(nodes, edges, file) = {}
               PROVE  /\ ~ Unbuildable(nodes, edges)
                      /\ LET graph == BuildGraph(nodes, edges)
                         IN /\ DOMAIN graph.sum = PairsOf(file)
                            /\ \A gid \in Accounts :
                                 LET f == Features(graph, file, gid)
                                 IN /\ f.outSum = f.flows.matched + f.flows.unmatched
                                    /\ f.inSum = Total(To(file, gid))
                                    /\ f.inTx = Len(To(file, gid))
                                    /\ f.outTx = Len(From(file, gid))
    BY DEF TablesAreTheFile, FileTypeOK
  <2> DEFINE graph == BuildGraph(nodes, edges)
  <2>1. /\ ~ Unbuildable(nodes, edges) /\ DOMAIN graph.sum = PairsOf(file)
        /\ \A p \in PairsOf(file) : /\ graph.sum[p] = SumOfPair(file, p)
                                    /\ graph.n[p] = CountOfPair(file, p)
    BY ValidTablesBuild
  <2> HIDE DEF graph
  <2>2. QED
    BY <2>1, FeaturesAreTheFile DEF graph
<1>2. QED
  BY <1>1, FileType, PTL

-----------------------------------------------------------------------------
(* Roles.                                                                  *)

Roles == ToSet(CoreRoles)

LEMMA RolesListed ==
  /\ Roles = {"consolidator", "transit", "distributor", "terminal", "coordinator"}
  /\ DOMAIN CoreRoles = 1..5
  /\ \A role \in Roles : \E n \in 1..5 : CoreRoles[n] = role
  /\ \A n \in 1..5 : CoreRoles[n] \in Roles
<1>1. DOMAIN CoreRoles = 1..5
  BY DEF CoreRoles
<1>2. Roles = {CoreRoles[n] : n \in 1..5}
  BY <1>1 DEF Roles, ToSet
<1>3. QED
  BY <1>1, <1>2 DEF CoreRoles

LEMMA HighestScore ==
  ASSUME NEW scores \in [Roles -> Int]
  PROVE  LET top == Max({scores[role] : role \in DOMAIN scores})
         IN  /\ \E role \in Roles : scores[role] = top
             /\ \A role \in Roles : scores[role] <= top
             /\ top \in Int
<1> DEFINE T == {scores[role] : role \in Roles}
<1>1. \E x \in T : \A y \in T : x >= y
  <2>1. PICK a, b, c, d, e : /\ a = scores["consolidator"] /\ b = scores["transit"]
                             /\ c = scores["distributor"] /\ d = scores["terminal"]
                             /\ e = scores["coordinator"]
    OBVIOUS
  <2>2. T = {a, b, c, d, e}
    BY <2>1, RolesListed
  <2>3. a \in Int /\ b \in Int /\ c \in Int /\ d \in Int /\ e \in Int
    BY <2>1, RolesListed
  <2> HIDE DEF T
  <2>4. PICK x \in {a, b} : x >= a /\ x >= b
    BY <2>3
  <2>5. PICK y \in {x, c} : y >= x /\ y >= c
    BY <2>3, <2>4
  <2>6. PICK z \in {y, d} : z >= y /\ z >= d
    BY <2>3, <2>4, <2>5
  <2>7. PICK top \in {z, e} : top >= z /\ top >= e
    BY <2>3, <2>4, <2>5, <2>6
  <2>8. x \in Int /\ y \in Int /\ z \in Int /\ top \in Int
    BY <2>3, <2>4, <2>5, <2>6, <2>7
  <2>9. \A v \in {a, b, c, d, e} : top >= v
    <3>1. top >= d /\ top >= e
      BY <2>3, <2>6, <2>7, <2>8
    <3>2. top >= y
      BY <2>6, <2>7, <2>8
    <3>3. top >= c /\ top >= x
      BY <2>3, <2>5, <2>8, <3>2
    <3>4. top >= a /\ top >= b
      BY <2>3, <2>4, <2>8, <3>3
    <3>5. QED
      BY <3>1, <3>3, <3>4
  <2>10. top \in {a, b, c, d, e}
    BY <2>4, <2>5, <2>6, <2>7
  <2>11. QED
    BY <2>2, <2>9, <2>10
<1>2. Max(T) \in T /\ \A y \in T : Max(T) >= y
  BY <1>1 DEF Max
<1>3. T \subseteq Int
  OBVIOUS
<1>4. QED
  BY <1>2, <1>3

LEMMA FirstNumber ==
  ASSUME NEW N \in SUBSET (1..5), N # {}
  PROVE  Min(N) \in N
<1>1. \E x \in N : \A y \in N : x <= y
  <2>1. CASE 1 \in N
    BY <2>1
  <2>2. CASE 1 \notin N /\ 2 \in N
    BY <2>2
  <2>3. CASE 1 \notin N /\ 2 \notin N /\ 3 \in N
    BY <2>3
  <2>4. CASE 1 \notin N /\ 2 \notin N /\ 3 \notin N /\ 4 \in N
    BY <2>4
  <2>5. CASE 1 \notin N /\ 2 \notin N /\ 3 \notin N /\ 4 \notin N
    <3>1. N \subseteq {5}
      BY <2>5
    <3>2. 5 \in N
      BY <3>1
    <3>3. QED
      BY <3>1, <3>2
  <2>6. QED
    BY <2>1, <2>2, <2>3, <2>4, <2>5
<1>2. QED
  BY <1>1 DEF Min

\* The role that is named has the highest core score, and that reaches the threshold.
LEMMA NamedRole ==
  ASSUME NEW a, NEW scores \in [Roles -> Int], RoleOfScores(a, scores) # "peripheral"
  PROVE  /\ ~ Isolated(a)
         /\ RoleOfScores(a, scores) \in Roles
         /\ scores[RoleOfScores(a, scores)] = Max({scores[role] : role \in DOMAIN scores})
         /\ scores[RoleOfScores(a, scores)] >= (Full \div 100) * RoleThreshold
<1>1. PICK top \in Int : top = Max({scores[role] : role \in DOMAIN scores})
  BY HighestScore
<1>2. PICK N : N = {n \in DOMAIN CoreRoles : scores[CoreRoles[n]] = top}
  OBVIOUS
<1>3. \E role \in Roles : scores[role] = top
  BY <1>1, HighestScore
<1>4. N \in SUBSET (1..5) /\ N # {}
  BY <1>2, <1>3, RolesListed
<1>5. Min(N) \in N
  BY <1>4, FirstNumber
<1>6. ~ Isolated(a) /\ ~ (top < (Full \div 100) * RoleThreshold)
  BY <1>1 DEF RoleOfScores
<1>7. RoleOfScores(a, scores) = CoreRoles[Min(N)]
  BY <1>1, <1>2, <1>6 DEF RoleOfScores
<1>8. CoreRoles[Min(N)] \in Roles /\ scores[CoreRoles[Min(N)]] = top
  BY <1>2, <1>4, <1>5, RolesListed
<1>9. (Full \div 100) * RoleThreshold \in Int
  BY RoleEngineAssumption, UnitAssumption DEF ConfigAccepted, Full
<1>10. QED
  BY <1>1, <1>6, <1>7, <1>8, <1>9

\* Where nobody looked further, no account is called terminal, whatever the weights,
\* as long as the cap lies below the threshold (config/default.yaml: 0.25 and 0.40).
THEOREM NoTerminalAtTheEdge ==
  ASSUME NEW a, NEW signals, a.truncated, TerminalCap < RoleThreshold,
         \A role \in Roles : CoreScores(a, signals)[role] \in Int,
         Weighted(RoleWeights["terminal"], signals) \in Int
  PROVE  RoleOfScores(a, CoreScores(a, signals)) # "terminal"
<1> DEFINE scores == CoreScores(a, signals)
           cap == (Full \div 100) * TerminalCap
           score == Weighted(RoleWeights["terminal"], signals)
<1>1. SUFFICES ASSUME RoleOfScores(a, scores) = "terminal"
               PROVE  FALSE
  OBVIOUS
<1>2. scores \in [Roles -> Int]
  BY DEF CoreScores, Roles
<1>3. scores["terminal"] = Min({score, cap})
  BY RolesListed DEF CoreScores, Roles
<1>4. TerminalCap \in Nat /\ RoleThreshold \in Nat /\ cap \in Int
  BY RoleEngineAssumption, UnitAssumption DEF ConfigAccepted, Full
<1> HIDE DEF score
<1>5. Min({score, cap}) <= cap
  <2>1. score \in Int
    BY DEF score
  <2> HIDE DEF cap
  <2>2. \E x \in {score, cap} : \A y \in {score, cap} : x <= y
    BY <1>4, <2>1
  <2>3. QED
    BY <2>2 DEF Min
<1>6. scores["terminal"] >= (Full \div 100) * RoleThreshold
  <2> HIDE DEF scores
  <2>1. QED
    BY <1>1, <1>2, NamedRole
<1>7. cap < (Full \div 100) * RoleThreshold
  BY <1>4, UnitAssumption DEF Full
<1>8. Min({score, cap}) \in Int
  BY <1>2, <1>3, RolesListed
<1>9. QED
  BY <1>3, <1>4, <1>5, <1>6, <1>7, <1>8, UnitAssumption DEF Full

\* A role that is held with more than half of the score has the confidence that the
\* methodology documents (docs/methodology.md:125-128), for every five scores: eight
\* tenths of the score and two tenths of its lead over all others, the peripheral one
\* included, although role_score looks for the highest of all six by itself.
THEOREM ConfidenceIsTheLead ==
  ASSUME NEW a, NEW scores \in [Roles -> Int],
         NEW role, role = RoleOfScores(a, scores), role # "peripheral",
         2 * scores[role] > Full
  PROVE  LET second == Max({Full - scores[role]} \cup {scores[r] : r \in DOMAIN scores \ {role}})
         IN  RoleScore(a, scores) = (80 * scores[role] + 20 * (scores[role] - second)) \div 100
<1>1. PICK top \in Int : top = Max({scores[r] : r \in DOMAIN scores})
  BY HighestScore
<1>2. ~ Isolated(a) /\ role \in Roles /\ scores[role] = top
  BY <1>1, NamedRole
<1>3. PICK chosen : chosen = CHOOSE r \in DOMAIN scores : scores[r] = top
  OBVIOUS
<1>4. chosen \in Roles /\ scores[chosen] = top
  BY <1>2, <1>3
<1>5. {scores[r] : r \in DOMAIN scores \ {chosen}} = {scores[r] : r \in DOMAIN scores \ {role}}
  BY <1>2, <1>4
<1>6. Full \in Nat /\ 2 * top > Full
  BY <1>2, UnitAssumption DEF Full
<1>7. Max({top, Full - top}) = top
  <2>1. \A x \in {top, Full - top} : top >= x
    BY <1>6
  <2>2. \A x \in {top, Full - top} : (\A y \in {top, Full - top} : x >= y) => x = top
    BY <1>6
  <2>3. QED
    BY <2>1, <2>2 DEF Max
<1>8. ~ (Full - top >= top)
  BY <1>6
<1>9. {scores[r] : r \in DOMAIN scores \ {role}} \cup {Full - top}
        = {Full - top} \cup {scores[r] : r \in DOMAIN scores \ {role}}
  OBVIOUS
<1>10. QED
  BY <1>1, <1>2, <1>3, <1>5, <1>7, <1>8, <1>9, ZenonT(60) DEF RoleScore

-----------------------------------------------------------------------------
(* Rankings.                                                                *)

\* A higher priority first and, among equals, the smaller number: a strict order of rows.
LEMMA UrgencyOrders ==
  ASSUME NEW p \in Int, NEW q \in Int, NEW r \in Int, NEW a \in Int, NEW b \in Int, NEW c \in Int
  PROVE  /\ ~ (p > p \/ (p = p /\ a < a))
         /\ (p > q \/ (p = q /\ a < b)) /\ (q > r \/ (q = r /\ b < c))
              => (p > r \/ (p = r /\ a < c))
         /\ a = b \/ (p > q \/ (p = q /\ a < b)) \/ (q > p \/ (q = p /\ b < a))
  OBVIOUS

\* The more urgent ones of a group, for each of its accounts.
MoreUrgent(findings, group) ==
  [x \in group |-> {y \in group :
     \/ findings[y].priority > findings[x].priority
     \/ findings[y].priority = findings[x].priority /\ y < x}]

LEMMA UrgencyRanks ==
  ASSUME NEW findings, NEW group \in SUBSET Int, IsFiniteSet(group),
         \A gid \in group : findings[gid].priority \in Int
  PROVE  /\ StrictOrder(group, MoreUrgent(findings, group))
         /\ Placed(group, MoreUrgent(findings, group), ByPriority(findings, group))
         /\ ByPriority(findings, group)
              \in [1 .. Cardinality(group) -> ToSet(ByPriority(findings, group))]
<1> DEFINE Before(a, b) == \/ findings[a].priority > findings[b].priority
                           \/ findings[a].priority = findings[b].priority /\ a < b
           before == MoreUrgent(findings, group)
           table == ByPriority(findings, group)
           At(n) == CHOOSE x \in group : Cardinality({y \in group : Before(y, x)}) = n - 1
<1>1. before \in [group -> SUBSET group]
  BY DEF MoreUrgent
<1>2. \A x \in group : before[x] = {y \in group : Before(y, x)}
  BY DEF MoreUrgent
<1>3. table = [n \in 1 .. Cardinality(group) |-> At(n)]
  BY DEF ByPriority, Ranked
<1>4. ASSUME NEW n \in 1 .. Cardinality(group), \E x \in group : Cardinality(before[x]) = n - 1
      PROVE  table[n] \in group /\ Cardinality(before[table[n]]) = n - 1
  <2>1. table[n] = CHOOSE x \in group : Cardinality({y \in group : Before(y, x)}) = n - 1
    BY DEF ByPriority, Ranked
  <2>2. \E x \in group : Cardinality({y \in group : Before(y, x)}) = n - 1
    BY <1>2, <1>4
  <2> HIDE DEF Before, table, before
  <2>3. table[n] \in group /\ Cardinality({y \in group : Before(y, table[n])}) = n - 1
    BY <2>1, <2>2
  <2>4. QED
    BY <1>2, <2>3
<1> HIDE DEF before, table, At
<1>5. table \in [1 .. Cardinality(group) -> ToSet(table)]
  BY <1>3 DEF ToSet
<1>6. ASSUME NEW x \in group
      PROVE  x \notin before[x]
  <2>1. x \in Int /\ findings[x].priority \in Int
    OBVIOUS
  <2>2. ~ Before(x, x)
    BY <2>1, UrgencyOrders
  <2>3. QED
    BY <1>2, <2>2
<1>7. ASSUME NEW x \in group, NEW y \in group, y \in before[x]
      PROVE  before[y] \subseteq before[x]
  <2> SUFFICES ASSUME NEW z \in group, Before(z, y)
               PROVE  Before(z, x)
    BY <1>2
  <2>1. Before(y, x)
    BY <1>2, <1>7
  <2>2. /\ x \in Int /\ y \in Int /\ z \in Int
        /\ findings[x].priority \in Int /\ findings[y].priority \in Int
        /\ findings[z].priority \in Int
    OBVIOUS
  <2>3. QED
    BY <2>1, <2>2, UrgencyOrders
<1>8. ASSUME NEW x \in group, NEW y \in group
      PROVE  x = y \/ x \in before[y] \/ y \in before[x]
  <2>1. /\ x \in Int /\ y \in Int
        /\ findings[x].priority \in Int /\ findings[y].priority \in Int
    OBVIOUS
  <2>2. x = y \/ Before(x, y) \/ Before(y, x)
    BY <2>1, UrgencyOrders
  <2>3. QED
    BY <1>2, <2>2
<1> HIDE DEF Before
<1>9. StrictOrder(group, before)
  BY <1>1, <1>6, <1>7, <1>8 DEF StrictOrder
<1>10. Placed(group, before, table)
  BY <1>3, <1>4 DEF Placed
<1>11. QED
  BY <1>5, <1>9, <1>10 DEF before, table

\* A ranking by priority names each account once, and nobody before a more urgent one.
LEMMA MostUrgentFirst ==
  ASSUME NEW findings, NEW group \in SUBSET Int, IsFiniteSet(group),
         \A gid \in group : findings[gid].priority \in Int
  PROVE  LET table == ByPriority(findings, group)
         IN  /\ Cardinality(group) \in Nat /\ DOMAIN table = 1 .. Cardinality(group)
             /\ \A n \in DOMAIN table : table[n] \in group
             /\ \A gid \in group : \E n \in DOMAIN table : table[n] = gid
             /\ \A m, n \in DOMAIN table : m < n =>
                  findings[table[m]].priority >= findings[table[n]].priority
             /\ \A m, n \in DOMAIN table : table[m] = table[n] => m = n
             /\ table \in [1 .. Cardinality(group) -> ToSet(table)]
<1> DEFINE before == MoreUrgent(findings, group)
           table == ByPriority(findings, group)
<1>1. \A x, y \in group : x \in before[y] => findings[x].priority >= findings[y].priority
  BY DEF MoreUrgent
<1> HIDE DEF before, table
<1>2. /\ StrictOrder(group, before) /\ Placed(group, before, table)
      /\ table \in [1 .. Cardinality(group) -> ToSet(table)]
  BY UrgencyRanks DEF before, table
<1>3. /\ Cardinality(group) \in Nat
      /\ DOMAIN table = 1 .. Cardinality(group)
      /\ \A n \in DOMAIN table : table[n] \in group
      /\ \A x \in group : \E n \in DOMAIN table : table[n] = x
      /\ \A m, n \in DOMAIN table : m < n <=> table[m] \in before[table[n]]
      /\ \A m, n \in DOMAIN table : table[m] = table[n] => m = n
  BY <1>2, TableOfASet
<1>4. \A m, n \in DOMAIN table : m < n =>
        findings[table[m]].priority >= findings[table[n]].priority
  BY <1>1, <1>3
<1>5. QED
  BY <1>2, <1>3, <1>4 DEF table

-----------------------------------------------------------------------------
(* The files that are exported.                                            *)

\* Findings about accounts, of which there are finitely many, that the export takes.
Exportable(findings, member) ==
  /\ IsFiniteSet(DOMAIN findings) /\ DOMAIN findings \subseteq Int
  /\ ~ Refused(findings, member)

LEMMA ExportableFindings ==
  ASSUME NEW findings, NEW member, Exportable(findings, member)
  PROVE  /\ DOMAIN findings \in SUBSET Int /\ IsFiniteSet(DOMAIN findings)
         /\ DOMAIN findings # {}
         /\ \A gid \in DOMAIN findings :
              WellFormed(findings[gid]) /\ member[gid] \in Nat /\ findings[gid].priority \in 0 .. Unit
         /\ 0 .. Unit \subseteq Int
BY UnitAssumption DEF Exportable, Refused, WellFormed

\* nodes_roles.csv has one row for each account, with what was found about it.
LEMMA NodeTable ==
  ASSUME NEW findings, NEW member, Exportable(findings, member),
         NEW nodes, nodes = NodeRows(findings, member)
  PROVE  LET count == Cardinality(DOMAIN findings)
         IN  /\ count \in Nat /\ Len(nodes) = count /\ DOMAIN nodes = 1 .. count
             /\ nodes \in Seq(ToSet(nodes))
             /\ \A n \in DOMAIN nodes : nodes[n].gid \in DOMAIN findings
             /\ \A n \in DOMAIN nodes :
                  /\ nodes[n].cluster = member[nodes[n].gid]
                  /\ nodes[n].role = findings[nodes[n].gid].role
                  /\ nodes[n].evidence = findings[nodes[n].gid].evidence
                  /\ WellFormed(nodes[n])
             /\ \A gid \in DOMAIN findings : \E n \in DOMAIN nodes : nodes[n].gid = gid
             /\ \A m, n \in DOMAIN nodes : nodes[m].gid = nodes[n].gid => m = n
<1> DEFINE count == Cardinality(DOMAIN findings)
           gids == Sorted(DOMAIN findings)
<1>1. /\ count \in Nat /\ DOMAIN gids = 1 .. count
      /\ \A n \in DOMAIN gids : gids[n] \in DOMAIN findings
      /\ \A gid \in DOMAIN findings : \E n \in DOMAIN gids : gids[n] = gid
      /\ \A m, n \in DOMAIN gids : gids[m] = gids[n] => m = n
  BY ExportableFindings, SortedNumbers
<1>2. nodes = [n \in 1 .. count |->
                 [gid |-> gids[n], role |-> findings[gids[n]].role,
                  roleScore |-> findings[gids[n]].roleScore,
                  cluster |-> member[gids[n]], priority |-> findings[gids[n]].priority,
                  evidence |-> findings[gids[n]].evidence]]
  BY DEF NodeRows
<1>3. Len(nodes) = count /\ nodes \in Seq(ToSet(nodes))
  <2>1. nodes \in [1 .. count -> ToSet(nodes)]
    BY <1>2 DEF ToSet
  <2>2. QED
    BY <1>1, <2>1, LengthOfTable
<1> HIDE DEF count, gids
<1>4. DOMAIN nodes = 1 .. count
      /\ \A n \in DOMAIN nodes : /\ nodes[n].gid = gids[n] /\ nodes[n].role = findings[gids[n]].role
                                 /\ nodes[n].evidence = findings[gids[n]].evidence
  BY <1>2
<1>5. \A n \in DOMAIN nodes : nodes[n].cluster = member[gids[n]] /\ WellFormed(nodes[n])
  <2> SUFFICES ASSUME NEW n \in 1 .. count
               PROVE  nodes[n].cluster = member[gids[n]] /\ WellFormed(nodes[n])
    BY <1>4
  <2>1. /\ nodes[n].cluster = member[gids[n]] /\ nodes[n].role = findings[gids[n]].role
        /\ nodes[n].roleScore = findings[gids[n]].roleScore
        /\ nodes[n].priority = findings[gids[n]].priority
    BY <1>2
  <2>2. WellFormed(findings[gids[n]])
    BY <1>1, ExportableFindings
  <2>3. QED
    BY <2>1, <2>2 DEF WellFormed
<1>6. /\ count \in Nat /\ Len(nodes) = count /\ DOMAIN nodes = 1 .. count
      /\ nodes \in Seq(ToSet(nodes))
      /\ \A n \in DOMAIN nodes : nodes[n].gid \in DOMAIN findings
      /\ \A n \in DOMAIN nodes : /\ nodes[n].cluster = member[nodes[n].gid] /\ WellFormed(nodes[n])
                                 /\ nodes[n].role = findings[nodes[n].gid].role
                                 /\ nodes[n].evidence = findings[nodes[n].gid].evidence
      /\ \A gid \in DOMAIN findings : \E n \in DOMAIN nodes : nodes[n].gid = gid
      /\ \A m, n \in DOMAIN nodes : nodes[m].gid = nodes[n].gid => m = n
  BY <1>1, <1>3, <1>4, <1>5
<1>7. QED
  BY <1>6 DEF count

ClustersFound(findings, member) == {member[gid] : gid \in DOMAIN findings}

\* clusters.csv has one row for each cluster that has accounts.
LEMMA ClusterTable ==
  ASSUME NEW findings, NEW member, Exportable(findings, member), NEW edges, NEW seeds,
         NEW clusters, clusters = ClusterRows(findings, member, edges, seeds)
  PROVE  LET numbers == ClustersFound(findings, member)
         IN  /\ Cardinality(numbers) \in Nat
             /\ DOMAIN clusters = 1 .. Cardinality(numbers)
             /\ clusters # <<>> /\ clusters \in Seq(ToSet(clusters))
             /\ \A n \in DOMAIN clusters : clusters[n].cluster \in numbers
             /\ \A c \in numbers : \E n \in DOMAIN clusters : clusters[n].cluster = c
             /\ \A m, n \in DOMAIN clusters : clusters[m].cluster = clusters[n].cluster => m = n
<1> DEFINE numbers == ClustersFound(findings, member)
           order == Sorted(numbers)
<1>1. numbers \in SUBSET Int /\ numbers # {}
  BY ExportableFindings DEF ClustersFound
<1>2. IsFiniteSet(numbers)
  <2>1. [gid \in DOMAIN findings |-> member[gid]] \in Surjection(DOMAIN findings, numbers)
    BY DEF Surjection, ClustersFound
  <2> HIDE DEF numbers
  <2>2. QED
    BY <2>1, ExportableFindings, FS_Surjection
<1>3. /\ Cardinality(numbers) \in Nat /\ DOMAIN order = 1 .. Cardinality(numbers)
      /\ \A n \in DOMAIN order : order[n] \in numbers
      /\ \A c \in numbers : \E n \in DOMAIN order : order[n] = c
      /\ \A m, n \in DOMAIN order : order[m] = order[n] => m = n
  BY <1>1, <1>2, SortedNumbers
<1>4. clusters = [n \in DOMAIN order |-> ClusterRow(findings, member, edges, seeds, order[n])]
  BY DEF ClusterRows, ClustersFound
<1>5. \A c : ClusterRow(findings, member, edges, seeds, c).cluster = c
  BY DEF ClusterRow
<1> HIDE DEF numbers, order
<1>6. DOMAIN clusters = DOMAIN order /\ \A n \in DOMAIN clusters : clusters[n].cluster = order[n]
  BY <1>4, <1>5
<1>7. clusters # <<>>
  <2>1. PICK c : c \in numbers
    BY <1>1
  <2>2. DOMAIN clusters # {}
    BY <1>3, <1>6, <2>1
  <2>3. QED
    BY <2>2
<1>8. clusters \in Seq(ToSet(clusters))
  <2>1. clusters \in [1 .. Cardinality(numbers) -> ToSet(clusters)]
    BY <1>3, <1>4 DEF ToSet
  <2>2. QED
    BY <1>3, <2>1, LengthOfTable
<1>9. /\ Cardinality(numbers) \in Nat
      /\ DOMAIN clusters = 1 .. Cardinality(numbers)
      /\ clusters # <<>> /\ clusters \in Seq(ToSet(clusters))
      /\ \A n \in DOMAIN clusters : clusters[n].cluster \in numbers
      /\ \A c \in numbers : \E n \in DOMAIN clusters : clusters[n].cluster = c
      /\ \A m, n \in DOMAIN clusters : clusters[m].cluster = clusters[n].cluster => m = n
  BY <1>3, <1>6, <1>7, <1>8
<1>10. QED
  BY <1>9 DEF numbers

\* top_nodes.csv lists the most urgent accounts, as many as it may, each of them once.
THEOREM TopListIsTheTop ==
  ASSUME NEW findings, NEW member, Exportable(findings, member), NEW top, top = TopRows(findings)
  PROVE  LET count == Cardinality(DOMAIN findings)
             kept == IF TopNodes < count THEN TopNodes ELSE count
         IN  /\ count \in Nat /\ kept \in 0 .. count
             /\ Len(top) = kept /\ DOMAIN top = 1 .. kept /\ top \in Seq(ToSet(top))
             /\ \A n \in DOMAIN top :
                  /\ top[n].rank = n /\ top[n].gid \in DOMAIN findings
                  /\ top[n].gid = ByPriority(findings, DOMAIN findings)[n]
                  /\ top[n].priority = findings[top[n].gid].priority
                  /\ top[n].drivers = findings[top[n].gid].drivers
             /\ \A m, n \in DOMAIN top : top[m].gid = top[n].gid => m = n
             /\ \A m, n \in DOMAIN top : m < n => top[m].priority >= top[n].priority
             /\ \A gid \in DOMAIN findings :
                  \/ \E n \in DOMAIN top : top[n].gid = gid
                  \/ \A n \in DOMAIN top : top[n].priority >= findings[gid].priority
<1> DEFINE count == Cardinality(DOMAIN findings)
           kept == IF TopNodes < count THEN TopNodes ELSE count
           order == ByPriority(findings, DOMAIN findings)
           first == FirstOf(order, TopNodes)
<1>1. \A gid \in DOMAIN findings : findings[gid].priority \in Int
  BY ExportableFindings
<1>2. /\ count \in Nat /\ DOMAIN order = 1 .. count
      /\ \A n \in DOMAIN order : order[n] \in DOMAIN findings
      /\ \A gid \in DOMAIN findings : \E n \in DOMAIN order : order[n] = gid
      /\ \A m, n \in DOMAIN order : m < n =>
           findings[order[m]].priority >= findings[order[n]].priority
      /\ \A m, n \in DOMAIN order : order[m] = order[n] => m = n
      /\ order \in [1 .. count -> ToSet(order)]
  BY <1>1, ExportableFindings, MostUrgentFirst
<1>3. TopNodes \in Nat
  BY ExportsAssumption
<1>4. kept \in 0 .. count
  BY <1>2, <1>3
<1>5. DOMAIN first = 1 .. kept /\ \A n \in 1 .. kept : first[n] = order[n]
  <2>1. order \in [1 .. count -> ToSet(order)]
    BY <1>2
  <2>2. QED
    BY <1>2, <1>3, <2>1, FirstRows
<1>6. top = [n \in DOMAIN first |->
               [rank |-> n, gid |-> first[n], role |-> findings[first[n]].role,
                priority |-> findings[first[n]].priority, drivers |-> findings[first[n]].drivers]]
  BY DEF TopRows
<1> HIDE DEF count, kept, order, first
<1>7. /\ DOMAIN top = 1 .. kept
      /\ \A n \in 1 .. kept : /\ top[n].rank = n /\ top[n].gid = order[n]
                              /\ top[n].priority = findings[order[n]].priority
                              /\ top[n].drivers = findings[order[n]].drivers
  BY <1>5, <1>6
<1>8. Len(top) = kept /\ top \in Seq(ToSet(top))
  <2>1. top \in [1 .. kept -> ToSet(top)]
    BY <1>6, <1>7 DEF ToSet
  <2>2. kept \in Nat
    BY <1>2, <1>4
  <2>3. QED
    BY <2>1, <2>2, LengthOfTable
<1>9. \A n \in 1 .. kept : n \in DOMAIN order
  BY <1>2, <1>4
<1>10. ASSUME NEW gid \in DOMAIN findings, \A n \in DOMAIN top : top[n].gid # gid,
              NEW n \in DOMAIN top
       PROVE  top[n].priority >= findings[gid].priority
  <2>1. PICK m \in DOMAIN order : order[m] = gid
    BY <1>2
  <2>2. m \notin 1 .. kept
    BY <1>7, <1>10, <2>1
  <2>3. n \in DOMAIN order /\ n < m
    BY <1>2, <1>4, <1>7, <1>9, <2>2
  <2>4. QED
    BY <1>2, <1>7, <2>1, <2>3
<1>11. /\ count \in Nat /\ kept \in 0 .. count
       /\ Len(top) = kept /\ DOMAIN top = 1 .. kept /\ top \in Seq(ToSet(top))
       /\ \A n \in DOMAIN top :
            /\ top[n].rank = n /\ top[n].gid \in DOMAIN findings
            /\ top[n].gid = order[n]
            /\ top[n].priority = findings[top[n].gid].priority
            /\ top[n].drivers = findings[top[n].gid].drivers
       /\ \A m, n \in DOMAIN top : top[m].gid = top[n].gid => m = n
       /\ \A m, n \in DOMAIN top : m < n => top[m].priority >= top[n].priority
       /\ \A gid \in DOMAIN findings :
            \/ \E n \in DOMAIN top : top[n].gid = gid
            \/ \A n \in DOMAIN top : top[n].priority >= findings[gid].priority
  BY <1>2, <1>4, <1>7, <1>8, <1>9, <1>10
<1>12. QED
  BY <1>11 DEF count, kept, order

\* Whatever the export does not refuse, the verification before the publication accepts
\* (pipeline/service.py:368): the three files, which are put together separately, fit
\* each other and the number of accounts in the input.
THEOREM ExportsAreAccepted ==
  ASSUME NEW findings, NEW member, Exportable(findings, member), NEW edges, NEW seeds
  PROVE  ~ Rejected(NodeRows(findings, member), ClusterRows(findings, member, edges, seeds),
                    TopRows(findings), Cardinality(DOMAIN findings))
<1> DEFINE nodes == NodeRows(findings, member)
           clusters == ClusterRows(findings, member, edges, seeds)
           top == TopRows(findings)
           count == Cardinality(DOMAIN findings)
           numbers == ClustersFound(findings, member)
           kept == IF TopNodes < count THEN TopNodes ELSE count
<1>1. /\ count \in Nat /\ Len(nodes) = count
      /\ \A n \in DOMAIN nodes : nodes[n].gid \in DOMAIN findings
      /\ \A n \in DOMAIN nodes : nodes[n].cluster = member[nodes[n].gid] /\ WellFormed(nodes[n])
      /\ \A gid \in DOMAIN findings : \E n \in DOMAIN nodes : nodes[n].gid = gid
      /\ \A m, n \in DOMAIN nodes : nodes[m].gid = nodes[n].gid => m = n
  BY NodeTable
<1>2. /\ clusters # <<>>
      /\ \A n \in DOMAIN clusters : clusters[n].cluster \in numbers
      /\ \A c \in numbers : \E n \in DOMAIN clusters : clusters[n].cluster = c
      /\ \A m, n \in DOMAIN clusters : clusters[m].cluster = clusters[n].cluster => m = n
  BY ClusterTable
<1>3. /\ Len(top) = kept /\ DOMAIN top = 1 .. kept
      /\ \A n \in DOMAIN top :
           /\ top[n].rank = n /\ top[n].gid \in DOMAIN findings
           /\ top[n].priority = findings[top[n].gid].priority
      /\ \A m, n \in DOMAIN top : m < n => top[m].priority >= top[n].priority
  BY TopListIsTheTop
<1>4. \A gid \in DOMAIN findings : findings[gid].priority \in 0 .. Unit
  BY ExportableFindings
<1>5. TopNodes \in Int /\ MandatoryTop \in Int /\ MandatoryTop <= TopNodes
  BY ExportsAssumption
<1> HIDE DEF nodes, clusters, top, count, numbers
<1>6. ~ (kept < Min({count, MandatoryTop}))
  <2>1. Min({count, MandatoryTop}) \in {count, MandatoryTop}
        /\ Min({count, MandatoryTop}) <= count /\ Min({count, MandatoryTop}) <= MandatoryTop
    <3>1. count \in Int
      BY <1>1
    <3>2. \E x \in {count, MandatoryTop} : \A y \in {count, MandatoryTop} : x <= y
      BY <1>5, <3>1
    <3>3. QED
      BY <3>2 DEF Min
  <2>2. PICK least : least = Min({count, MandatoryTop})
    OBVIOUS
  <2>3. least \in Int /\ least <= count /\ least <= MandatoryTop
    BY <1>1, <1>5, <2>1, <2>2
  <2>4. kept \in {TopNodes, count}
    OBVIOUS
  <2> HIDE DEF kept
  <2>5. ~ (kept < least)
    BY <1>1, <1>5, <2>3, <2>4
  <2>6. QED
    BY <2>2, <2>5
<1> HIDE DEF kept
<1>7. ~ NodesRejected(nodes, count)
  <2>1. ~ Twins(GidColumn(nodes))
    BY <1>1 DEF Twins, GidColumn
  <2>2. \A row \in ToSet(nodes) : WellFormed(row)
    BY <1>1 DEF ToSet
  <2>3. QED
    BY <1>1, <2>1, <2>2 DEF NodesRejected
<1>8. ~ ClustersRejected(clusters, nodes)
  <2>1. ~ Twins([n \in DOMAIN clusters |-> clusters[n].cluster])
    BY <1>2 DEF Twins
  <2>2. {row.cluster : row \in ToSet(clusters)} = numbers
    BY <1>2 DEF ToSet
  <2>3. {row.cluster : row \in ToSet(nodes)} = numbers
    BY <1>1 DEF ToSet, numbers, ClustersFound
  <2>4. QED
    BY <1>2, <2>1, <2>2, <2>3 DEF ClustersRejected
<1>9. ~ TopRejected(top, count)
  <2>1. \A n \in DOMAIN top : top[n].rank = n /\ top[n].priority \in 0 .. Unit
    BY <1>3, <1>4
  <2>2. \A m, n \in DOMAIN top : m < n => ~ (top[m].priority < top[n].priority)
    <3> SUFFICES ASSUME NEW m \in DOMAIN top, NEW n \in DOMAIN top, m < n
                 PROVE  ~ (top[m].priority < top[n].priority)
      OBVIOUS
    <3>1. top[m].priority \in 0 .. Unit /\ top[n].priority \in 0 .. Unit
          /\ top[m].priority >= top[n].priority
      BY <1>3, <2>1
    <3>2. QED
      BY <3>1, ExportableFindings
  <2>3. QED
    BY <1>3, <1>6, <2>1, <2>2 DEF TopRejected
<1>10. ~ Rejected(nodes, clusters, top, count)
  BY <1>7, <1>8, <1>9 DEF Rejected
<1>11. QED
  BY <1>10 DEF nodes, clusters, top, count

LEMMA RemovedRow ==
  ASSUME NEW T, NEW s \in Seq(T), NEW i \in 1 .. Len(s)
  PROVE  LET rest == RemoveAt(s, i)
         IN  /\ rest \in Seq(T) /\ Len(rest) = Len(s) - 1
             /\ \A j \in 1 .. (Len(s) - 1) : rest[j] = IF j < i THEN s[j] ELSE s[j + 1]
<1> DEFINE front == SubSeq(s, 1, i - 1)
           back == SubSeq(s, i + 1, Len(s))
<1>1. Len(s) \in Nat /\ i \in Int /\ 1 <= i /\ i <= Len(s)
  BY LenProperties
<1>2. front \in Seq(T) /\ Len(front) = i - 1 /\ \A j \in 1 .. (i - 1) : front[j] = s[j]
  BY <1>1
<1>3. /\ back \in Seq(T) /\ Len(back) = Len(s) - i
      /\ \A j \in 1 .. (Len(s) - i) : back[j] = s[i + j]
  BY <1>1
<1> HIDE DEF front, back
<1>4. /\ front \o back \in Seq(T)
      /\ Len(front \o back) = Len(front) + Len(back)
      /\ \A j \in 1 .. (Len(front) + Len(back)) :
           (front \o back)[j] = IF j <= Len(front) THEN front[j] ELSE back[j - Len(front)]
  BY <1>2, <1>3, ConcatProperties
<1>5. ASSUME NEW j \in 1 .. (Len(s) - 1)
      PROVE  (front \o back)[j] = IF j < i THEN s[j] ELSE s[j + 1]
  <2>1. CASE j < i
    BY <1>1, <1>2, <1>3, <1>4, <2>1
  <2>2. CASE ~ (j < i)
    <3>1. (front \o back)[j] = back[j - (i - 1)]
      BY <1>1, <1>2, <1>3, <1>4, <2>2
    <3>2. j - (i - 1) \in 1 .. (Len(s) - i)
      BY <1>1, <2>2
    <3>3. back[j - (i - 1)] = s[i + (j - (i - 1))] /\ i + (j - (i - 1)) = j + 1
      BY <1>1, <1>3, <3>2
    <3>4. QED
      BY <2>2, <3>1, <3>3
  <2>3. QED
    BY <2>1, <2>2
<1>6. RemoveAt(s, i) = front \o back
  BY DEF RemoveAt, front, back
<1>7. Len(front) + Len(back) = Len(s) - 1
  BY <1>1, <1>2, <1>3
<1>8. QED
  BY <1>4, <1>5, <1>6, <1>7

\* And no row is lost unnoticed: without any one row of the accounts or the clusters, or
\* one of the top list before its last, the verification stops the publication.
THEOREM LossesAreRejected ==
  ASSUME NEW findings, NEW member, Exportable(findings, member), NEW edges, NEW seeds,
         NEW nodes, nodes = NodeRows(findings, member),
         NEW clusters, clusters = ClusterRows(findings, member, edges, seeds),
         NEW top, top = TopRows(findings),
         NEW count, count = Cardinality(DOMAIN findings)
  PROVE  /\ \A n \in DOMAIN nodes : Rejected(RemoveAt(nodes, n), clusters, top, count)
         /\ \A n \in DOMAIN clusters : Rejected(nodes, RemoveAt(clusters, n), top, count)
         /\ \A n \in 1 .. (Len(top) - 1) : Rejected(nodes, clusters, RemoveAt(top, n), count)
<1>1. ASSUME NEW n \in DOMAIN nodes
      PROVE  Rejected(RemoveAt(nodes, n), clusters, top, count)
  <2>1. /\ count \in Nat /\ Len(nodes) = count /\ DOMAIN nodes = 1 .. count
        /\ nodes \in Seq(ToSet(nodes))
    BY NodeTable
  <2>2. Len(RemoveAt(nodes, n)) = count - 1
    BY <2>1, RemovedRow
  <2>3. QED
    BY <2>1, <2>2 DEF Rejected, NodesRejected
<1>2. ASSUME NEW n \in DOMAIN clusters
      PROVE  Rejected(nodes, RemoveAt(clusters, n), top, count)
  <2> DEFINE numbers == ClustersFound(findings, member)
             rest == RemoveAt(clusters, n)
             c == clusters[n].cluster
  <2>1. /\ Cardinality(numbers) \in Nat /\ DOMAIN clusters = 1 .. Cardinality(numbers)
        /\ clusters \in Seq(ToSet(clusters))
        /\ c \in numbers
        /\ \A i, j \in DOMAIN clusters : clusters[i].cluster = clusters[j].cluster => i = j
    BY ClusterTable
  <2>2. DOMAIN clusters = 1 .. Len(clusters) /\ Len(clusters) \in Nat
    BY <2>1, LenProperties
  <2>3. /\ rest \in Seq(ToSet(clusters)) /\ Len(rest) = Len(clusters) - 1
        /\ \A j \in 1 .. (Len(clusters) - 1) :
             rest[j] = IF j < n THEN clusters[j] ELSE clusters[j + 1]
    BY <2>1, <2>2, RemovedRow
  <2> HIDE DEF rest
  <2>4. DOMAIN rest = 1 .. (Len(clusters) - 1)
    BY <2>3, LenProperties
  <2>5. ASSUME NEW j \in DOMAIN rest
        PROVE  rest[j].cluster # c
    <3>1. PICK i \in DOMAIN clusters : i # n /\ rest[j] = clusters[i]
      BY <2>2, <2>3, <2>4, SMTT(30)
    <3>2. QED
      BY <2>1, <3>1
  <2>6. c \notin {row.cluster : row \in ToSet(rest)}
    BY <2>5 DEF ToSet
  <2>7. c \in {row.cluster : row \in ToSet(nodes)}
    <3>1. PICK gid \in DOMAIN findings : member[gid] = c
      BY <2>1 DEF ClustersFound
    <3>2. PICK m \in DOMAIN nodes : nodes[m].cluster = c
      BY <3>1, NodeTable
    <3>3. QED
      BY <3>2 DEF ToSet
  <2>8. ClustersRejected(rest, nodes)
    BY <2>6, <2>7 DEF ClustersRejected
  <2>9. QED
    BY <2>8 DEF Rejected, rest
<1>3. ASSUME NEW n \in 1 .. (Len(top) - 1)
      PROVE  Rejected(nodes, clusters, RemoveAt(top, n), count)
  <2> DEFINE rest == RemoveAt(top, n)
  <2>1. /\ top \in Seq(ToSet(top)) /\ \A m \in DOMAIN top : top[m].rank = m
    BY TopListIsTheTop
  <2>2. Len(top) \in Nat /\ DOMAIN top = 1 .. Len(top)
    BY <2>1, LenProperties
  <2>3. n \in 1 .. Len(top) /\ n + 1 \in DOMAIN top /\ n + 1 # n
    BY <2>2
  <2>4. /\ rest \in Seq(ToSet(top)) /\ Len(rest) = Len(top) - 1
        /\ \A j \in 1 .. (Len(top) - 1) : rest[j] = IF j < n THEN top[j] ELSE top[j + 1]
    BY <2>1, <2>3, RemovedRow
  <2> HIDE DEF rest
  <2>5. n \in DOMAIN rest
    BY <2>4, LenProperties
  <2>6. rest[n].rank = n + 1
    BY <2>1, <2>3, <2>4
  <2>7. TopRejected(rest, count)
    BY <2>3, <2>5, <2>6 DEF TopRejected
  <2>8. QED
    BY <2>7 DEF Rejected, rest
<1>4. QED
  BY <1>1, <1>2, <1>3

-----------------------------------------------------------------------------
(* Priorities.                                                             *)

LEMMA Quotients ==
  ASSUME NEW d \in Nat \ {0}, NEW k \in Nat, NEW m \in Nat, NEW n \in Nat, m <= n, n <= k * d
  PROVE  m \div d \in 0 .. k /\ n \div d \in 0 .. k /\ m \div d <= n \div d
<1>1. PICK p, q \in Int : p = m \div d /\ q = n \div d
  OBVIOUS
<1>2. /\ p * d <= m /\ m < (p + 1) * d
      /\ q * d <= n /\ n < (q + 1) * d
  BY <1>1, SMTT(30)
<1>3. p <= q
  BY <1>2, SMTT(30)
<1>4. q <= k
  BY <1>2, SMTT(30)
<1>5. p >= 0
  BY <1>2, SMTT(30)
<1>6. QED
  BY <1>1, <1>3, <1>4, <1>5

\* The accounts with less, with as much and with more part the accounts.
LEMMA Standings ==
  ASSUME NEW value, IsFiniteSet(DOMAIN value), \A gid \in DOMAIN value : value[gid] \in Int,
         NEW a \in DOMAIN value, NEW b \in DOMAIN value
  PROVE  LET count == Cardinality(DOMAIN value)
         IN  /\ count \in Nat \ {0}
             /\ Below(value, a) \in Nat /\ Level(value, a) \in Nat \ {0}
             /\ Below(value, a) + Level(value, a) <= count
             /\ value[a] = value[b] =>
                  Below(value, a) = Below(value, b) /\ Level(value, a) = Level(value, b)
             /\ value[a] < value[b] => Below(value, a) + Level(value, a) <= Below(value, b)
             /\ Level(value, a) = count => value[b] = value[a]
<1> DEFINE all == DOMAIN value
           less == {g \in all : value[g] < value[a]}
           level == {g \in all : value[g] = value[a]}
           count == Cardinality(all)
<1>1. /\ IsFiniteSet(less) /\ Cardinality(less) \in Nat
      /\ IsFiniteSet(level) /\ Cardinality(level) \in Nat
      /\ count \in Nat
  <2>1. less \in SUBSET all /\ level \in SUBSET all
    OBVIOUS
  <2> HIDE DEF less, level
  <2>2. QED
    BY <2>1, FS_Subset, FS_CardinalityType
<1>2. less \cap level = {} /\ less \cup level \in SUBSET all /\ a \in level
  OBVIOUS
<1>3. Below(value, a) = Cardinality(less) /\ Level(value, a) = Cardinality(level)
  BY DEF Below, Level
<1>4. Cardinality(less \cup level) = Cardinality(less) + Cardinality(level)
  <2> HIDE DEF less, level
  <2>1. Cardinality(less \cup level)
          = Cardinality(less) + Cardinality(level) - Cardinality(less \cap level)
    BY <1>1, FS_Union
  <2>2. Cardinality(less \cap level) = 0
    BY <1>2, FS_EmptySet
  <2>3. QED
    BY <1>1, <2>1, <2>2
<1>5. Cardinality(less) + Cardinality(level) <= count
  <2> HIDE DEF less, level
  <2>1. QED
    BY <1>2, <1>4, FS_Subset
<1>6. Cardinality(level) # 0
  <2> HIDE DEF less, level
  <2>1. QED
    BY <1>1, <1>2, FS_EmptySet
<1>7. ASSUME value[a] = value[b]
      PROVE  Below(value, a) = Below(value, b) /\ Level(value, a) = Level(value, b)
  BY <1>7 DEF Below, Level
<1>8. ASSUME value[a] < value[b]
      PROVE  Cardinality(less) + Cardinality(level) <= Below(value, b)
  <2> DEFINE lessThanB == {g \in all : value[g] < value[b]}
  <2>1. less \cup level \in SUBSET lessThanB /\ lessThanB \in SUBSET all
    BY <1>8
  <2>2. Below(value, b) = Cardinality(lessThanB)
    BY DEF Below
  <2> HIDE DEF less, level, lessThanB
  <2>3. IsFiniteSet(lessThanB)
    BY <2>1, FS_Subset
  <2>4. Cardinality(less \cup level) <= Cardinality(lessThanB)
    BY <2>1, <2>3, FS_Subset
  <2>5. QED
    BY <1>4, <2>2, <2>4
<1>9. ASSUME Cardinality(level) = count
      PROVE  value[b] = value[a]
  <2>1. level \in SUBSET all
    OBVIOUS
  <2>2. level = all
    <3> HIDE DEF level
    <3>1. QED
      BY <1>9, <2>1, FS_Subset
  <2>3. QED
    BY <2>2
<1> HIDE DEF less, level
<1>10. count \in Nat \ {0}
  BY <1>1, <1>5, <1>6
<1>11. QED
  BY <1>1, <1>3, <1>5, <1>6, <1>7, <1>8, <1>9, <1>10

\* The ranks that roles and priorities are made of lie between nothing and one, and
\* never turn the order of two accounts around, ties and equal columns included.
THEOREM RanksKeepTheOrder ==
  ASSUME NEW value, IsFiniteSet(DOMAIN value), \A gid \in DOMAIN value : value[gid] \in Int,
         NEW ifLevel \in 0 .. Unit, NEW a \in DOMAIN value, NEW b \in DOMAIN value,
         value[a] <= value[b]
  PROVE  /\ RankScaled(value, a, ifLevel) \in 0 .. Unit
         /\ RankScaled(value, a, ifLevel) <= RankScaled(value, b, ifLevel)
         /\ Percentile(value, a) \in 0 .. Unit
         /\ Percentile(value, a) <= Percentile(value, b)
<1>1. PICK count : count = Cardinality(DOMAIN value)
  OBVIOUS
<1>2. PICK lessA, levelA, lessB, levelB :
        /\ lessA = Below(value, a) /\ levelA = Level(value, a)
        /\ lessB = Below(value, b) /\ levelB = Level(value, b)
  OBVIOUS
<1>3. /\ count \in Nat \ {0}
      /\ lessA \in Nat /\ levelA \in Nat \ {0} /\ lessA + levelA <= count
      /\ lessB \in Nat /\ levelB \in Nat \ {0} /\ lessB + levelB <= count
      /\ value[a] = value[b] => lessA = lessB /\ levelA = levelB
      /\ value[a] < value[b] => lessA + levelA <= lessB
      /\ levelA = count => value[b] = value[a]
      /\ levelB = count => value[a] = value[b]
  BY <1>1, <1>2, Standings
<1>4. value[a] \in Int /\ value[b] \in Int
  OBVIOUS
<1>5. 2 * lessA + levelA <= 2 * lessB + levelB
  BY <1>3, <1>4
<1>6. Percentile(value, a) \in 0 .. Unit /\ Percentile(value, a) <= Percentile(value, b)
  <2>1. PICK d, m, n : /\ d = 2 * count
                       /\ m = Unit * (2 * lessA + levelA + 1)
                       /\ n = Unit * (2 * lessB + levelB + 1)
    OBVIOUS
  <2>2. d \in Nat \ {0} /\ m \in Nat /\ n \in Nat /\ m <= n /\ n <= Unit * d /\ Unit \in Nat
    BY <1>3, <1>5, <2>1, UnitAssumption
  <2>3. m \div d \in 0 .. Unit /\ m \div d <= n \div d
    BY <2>2, Quotients
  <2>4. Percentile(value, a) = m \div d /\ Percentile(value, b) = n \div d
    BY <1>1, <1>2, <2>1 DEF Percentile
  <2>5. QED
    BY <2>3, <2>4
<1>7. CASE levelA = count
  <2>1. levelB = count
    BY <1>3, <1>7
  <2>2. RankScaled(value, a, ifLevel) = ifLevel /\ RankScaled(value, b, ifLevel) = ifLevel
    BY <1>1, <1>2, <1>7, <2>1 DEF RankScaled
  <2>3. QED
    BY <1>6, <2>2, UnitAssumption
<1>8. CASE levelA # count
  <2>1. levelB # count
    BY <1>3, <1>8
  <2>2. PICK d, m, n : /\ d = 2 * (count - 1)
                       /\ m = Unit * (2 * lessA + levelA - 1)
                       /\ n = Unit * (2 * lessB + levelB - 1)
    OBVIOUS
  <2>3. d \in Nat \ {0} /\ m \in Nat /\ n \in Nat /\ m <= n /\ n <= Unit * d /\ Unit \in Nat
    BY <1>3, <1>5, <1>8, <2>2, UnitAssumption
  <2>4. m \div d \in 0 .. Unit /\ m \div d <= n \div d
    BY <2>3, Quotients
  <2>5. RankScaled(value, a, ifLevel) = m \div d /\ RankScaled(value, b, ifLevel) = n \div d
    BY <1>1, <1>2, <1>8, <2>1, <2>2 DEF RankScaled
  <2>6. QED
    BY <1>6, <2>4, <2>5
<1>9. QED
  BY <1>7, <1>8

-----------------------------------------------------------------------------
(* Scans.                                                                  *)

\* The alerts of a day: one for each account that meets a rule.
FoundAlerts(rows, day) ==
  LET history == UpTo(Loaded(rows), day)
      today == On(Loaded(rows), day)
  IN {AlertOf(history, today, gid) :
        gid \in {g \in AccountsOf(history) : RulesMet(history, today, g) # {}}}

\* A table of finitely many accounts, whose alerts have whole priorities.
Scannable(rows, day) ==
  LET history == UpTo(Loaded(rows), day)
  IN /\ IsFiniteSet(AccountsOf(history)) /\ AccountsOf(history) \subseteq Int
     /\ \A alert \in FoundAlerts(rows, day) : alert.priority \in Int

LEMMA AlertsOfADay ==
  ASSUME NEW rows, NEW day, Scannable(rows, day)
  PROVE  /\ IsFiniteSet(FoundAlerts(rows, day))
         /\ \A x \in FoundAlerts(rows, day) : x.gid \in Int /\ x.priority \in Int
         /\ \A x, y \in FoundAlerts(rows, day) : x.gid = y.gid => x = y
<1> DEFINE history == UpTo(Loaded(rows), day)
           today == On(Loaded(rows), day)
           met == {g \in AccountsOf(history) : RulesMet(history, today, g) # {}}
           alert(gid) == AlertOf(history, today, gid)
           all == {alert(gid) : gid \in met}
<1>1. FoundAlerts(rows, day) = all
  BY DEF FoundAlerts
<1>2. \A gid : alert(gid).gid = gid
  BY DEF AlertOf
<1>3. IsFiniteSet(met) /\ met \subseteq Int
  BY FS_Subset DEF Scannable
<1>4. \A x \in all : x.priority \in Int
  BY <1>1 DEF Scannable
<1> HIDE DEF alert, met
<1>5. IsFiniteSet(all)
  <2>1. [gid \in met |-> alert(gid)] \in Surjection(met, all)
    BY DEF Surjection
  <2> HIDE DEF all
  <2>2. QED
    BY <1>3, <2>1, FS_Surjection
<1>6. \A x \in all : x.gid \in Int
  BY <1>2, <1>3
<1>7. \A x, y \in all : x.gid = y.gid => x = y
  BY <1>2
<1>8. QED
  BY <1>1, <1>4, <1>5, <1>6, <1>7

LEMMA AlertsRanked ==
  ASSUME NEW rows, NEW day, Scannable(rows, day)
  PROVE  LET all == FoundAlerts(rows, day)
             table == Alerts(rows, day)
         IN  /\ Cardinality(all) \in Nat /\ DOMAIN table = 1 .. Cardinality(all)
             /\ table \in [1 .. Cardinality(all) -> ToSet(table)]
             /\ \A n \in DOMAIN table : table[n] \in all
             /\ \A x \in all : \E n \in DOMAIN table : table[n] = x
             /\ \A m, n \in DOMAIN table : m < n => table[m].priority >= table[n].priority
             /\ \A m, n \in DOMAIN table : table[m] = table[n] => m = n
<1> DEFINE all == FoundAlerts(rows, day)
           before == [x \in all |-> {y \in all : AlertBefore(y, x)}]
           At(n) == CHOOSE x \in all : Cardinality({y \in all : AlertBefore(y, x)}) = n - 1
           table == Alerts(rows, day)
<1>1. before \in [all -> SUBSET all]
  OBVIOUS
<1>2. \A x \in all : before[x] = {y \in all : AlertBefore(y, x)}
  OBVIOUS
<1>3. table = [n \in 1 .. Cardinality(all) |-> At(n)]
  BY DEF Alerts, Ranked, FoundAlerts
<1>4. IsFiniteSet(all) /\ \A x \in all : x.gid \in Int /\ x.priority \in Int
  BY AlertsOfADay
<1>5. \A x, y \in all : x.gid = y.gid => x = y
  BY AlertsOfADay
<1> HIDE DEF all, table
<1>6. ASSUME NEW n \in 1 .. Cardinality(all), \E x \in all : Cardinality(before[x]) = n - 1
      PROVE  table[n] \in all /\ Cardinality(before[table[n]]) = n - 1
  <2>1. table[n] = At(n)
    BY <1>3
  <2>2. \E x \in all : Cardinality({y \in all : AlertBefore(y, x)}) = n - 1
    BY <1>6
  <2>3. At(n) \in all /\ Cardinality({y \in all : AlertBefore(y, At(n))}) = n - 1
    BY <2>2
  <2> HIDE DEF At
  <2>4. QED
    BY <2>1, <2>3
<1> HIDE DEF before, At
<1>7. DOMAIN table = 1 .. Cardinality(all) /\ table \in [1 .. Cardinality(all) -> ToSet(table)]
  BY <1>3 DEF ToSet
<1>8. StrictOrder(all, before)
  <2>1. ASSUME NEW x \in all
        PROVE  x \notin before[x]
    <3>1. ~ AlertBefore(x, x)
      BY <1>4, UrgencyOrders DEF AlertBefore
    <3>2. QED
      BY <1>2, <3>1
  <2>2. ASSUME NEW x \in all, NEW y \in all, y \in before[x]
        PROVE  before[y] \subseteq before[x]
    <3> SUFFICES ASSUME NEW z \in all, AlertBefore(z, y)
                 PROVE  AlertBefore(z, x)
      BY <1>2
    <3>1. AlertBefore(y, x)
      BY <1>2, <2>2
    <3>2. /\ x.gid \in Int /\ y.gid \in Int /\ z.gid \in Int
          /\ x.priority \in Int /\ y.priority \in Int /\ z.priority \in Int
      BY <1>4
    <3>3. QED
      BY <3>1, <3>2, UrgencyOrders DEF AlertBefore
  <2>3. ASSUME NEW x \in all, NEW y \in all
        PROVE  x = y \/ x \in before[y] \/ y \in before[x]
    <3>1. /\ x.gid \in Int /\ y.gid \in Int
          /\ x.priority \in Int /\ y.priority \in Int
      BY <1>4
    <3>2. x.gid = y.gid \/ AlertBefore(x, y) \/ AlertBefore(y, x)
      BY <3>1, UrgencyOrders DEF AlertBefore
    <3>3. QED
      BY <1>2, <1>5, <3>2
  <2>4. QED
    BY <1>1, <2>1, <2>2, <2>3 DEF StrictOrder
<1>9. Placed(all, before, table)
  BY <1>6, <1>7 DEF Placed
<1>10. /\ Cardinality(all) \in Nat
       /\ \A n \in DOMAIN table : table[n] \in all
       /\ \A x \in all : \E n \in DOMAIN table : table[n] = x
       /\ \A m, n \in DOMAIN table : m < n <=> table[m] \in before[table[n]]
       /\ \A m, n \in DOMAIN table : table[m] = table[n] => m = n
  BY <1>4, <1>8, <1>9, TableOfASet
<1>11. \A x, y \in all : x \in before[y] => x.priority >= y.priority
  BY <1>2, <1>4 DEF AlertBefore
<1>12. \A m, n \in DOMAIN table : m < n => table[m].priority >= table[n].priority
  BY <1>10, <1>11
<1>13. QED
  BY <1>7, <1>10, <1>12 DEF all, table

\* One alert per account, the most urgent first; none is left out that is more urgent
\* than one that is kept; and what is left out is owned up to.
KeepsTheMostUrgent(found, scan) ==
  LET kept == scan.selected
  IN /\ \A n \in DOMAIN kept : kept[n] \in found
     /\ \A m, n \in DOMAIN kept : kept[m].gid = kept[n].gid => m = n
     /\ \A m, n \in DOMAIN kept : m < n => kept[m].priority >= kept[n].priority
     /\ \A alert \in found :
          \/ \E n \in DOMAIN kept : kept[n] = alert
          \/ scan.limited /\ \A n \in DOMAIN kept : kept[n].priority >= alert.priority
     /\ scan.limited => \E alert \in found : \A n \in DOMAIN kept : kept[n] # alert

\* What a scan keeps, of a file whose alerts can be ranked.
LEMMA ScannableFilesKeepTheMostUrgent ==
  ASSUME NEW rows, NEW day, Scannable(rows, day),
         NEW scan, scan = Scan(rows, day), NEW kept, kept = scan.selected
  PROVE  KeepsTheMostUrgent(FoundAlerts(rows, day), scan)
<1> DEFINE all == FoundAlerts(rows, day)
           table == Alerts(rows, day)
           count == Cardinality(all)
           most == IF ScanLimit < count THEN ScanLimit ELSE count
<1>1. /\ count \in Nat /\ DOMAIN table = 1 .. count
      /\ table \in [1 .. count -> ToSet(table)]
      /\ \A n \in DOMAIN table : table[n] \in all
      /\ \A x \in all : \E n \in DOMAIN table : table[n] = x
      /\ \A m, n \in DOMAIN table : m < n => table[m].priority >= table[n].priority
      /\ \A m, n \in DOMAIN table : table[m] = table[n] => m = n
  BY AlertsRanked
<1>2. ScanLimit \in Nat
  BY AlertRulesAssumption
<1>3. kept = FirstOf(table, ScanLimit) /\ scan.limited = (Len(table) > ScanLimit)
  BY DEF Scan
<1>4. \A x, y \in all : x.gid = y.gid => x = y
  BY AlertsOfADay
<1> HIDE DEF all, table, count
<1>5. DOMAIN kept = 1 .. most /\ \A n \in 1 .. most : kept[n] = table[n]
  BY <1>1, <1>2, <1>3, FirstRows
<1>6. Len(table) = count
  BY <1>1, LengthOfTable
<1>7. most \in Nat /\ most <= count
      /\ (scan.limited => most < count) /\ (most < count => scan.limited)
  <2>1. most \in Nat /\ most <= count /\ (Len(table) > ScanLimit <=> most < count)
    BY <1>1, <1>2, <1>6
  <2> HIDE DEF most
  <2>2. QED
    BY <1>3, <2>1, Zenon
<1> HIDE DEF most
<1>8. \A n \in DOMAIN kept : n \in DOMAIN table /\ kept[n] = table[n]
  BY <1>1, <1>5, <1>7
<1>9. \A m, n \in DOMAIN kept : kept[m].gid = kept[n].gid => m = n
  BY <1>1, <1>4, <1>8
<1>10. ASSUME NEW alert \in all, \A n \in DOMAIN kept : kept[n] # alert
       PROVE  scan.limited /\ \A n \in DOMAIN kept : kept[n].priority >= alert.priority
  <2>1. PICK m \in DOMAIN table : table[m] = alert
    BY <1>1
  <2>2. m \notin 1 .. most
    BY <1>5, <1>10, <2>1
  <2>3. most < count /\ \A n \in 1 .. most : n < m
    BY <1>1, <1>7, <2>2
  <2>4. QED
    BY <1>1, <1>5, <1>7, <1>8, <2>1, <2>3
<1>11. ASSUME scan.limited
       PROVE  \E alert \in all : \A n \in DOMAIN kept : kept[n] # alert
  <2>1. count \in DOMAIN table /\ count \notin 1 .. most
    BY <1>1, <1>7, <1>11
  <2>2. table[count] \in all /\ \A n \in DOMAIN kept : kept[n] # table[count]
    BY <1>1, <1>5, <1>8, <2>1
  <2>3. QED
    BY <2>2
<1>12. QED
  <2>1. /\ \A n \in DOMAIN kept : kept[n] \in all
        /\ \A m, n \in DOMAIN kept : m < n => kept[m].priority >= kept[n].priority
    BY <1>1, <1>8
  <2>2. KeepsTheMostUrgent(all, scan)
    BY <1>9, <1>10, <1>11, <2>1 DEF KeepsTheMostUrgent
  <2>3. QED
    BY <2>2 DEF all

-----------------------------------------------------------------------------
(* Reading the file.                                                       *)

\* A row stands before another in the loaded table, by the order of the sort or, where
\* that leaves them level, by their places.
RowBefore(rows, i, j) ==
  \/ RowOrder(rows[i], rows[j])
  \/ ~ RowOrder(rows[j], rows[i]) /\ i < j

RowsBefore(rows) == [i \in DOMAIN rows |-> {j \in DOMAIN rows : RowBefore(rows, j, i)}]

\* The place in the file of each row of the loaded table.
LoadOrder(rows) == Ranked(DOMAIN rows, LAMBDA i, j : RowBefore(rows, i, j))

LEMMA RowsHaveNumbers ==
  ASSUME NEW rows \in Seq(Rows)
  PROVE  /\ DOMAIN rows = 1 .. Len(rows) /\ Len(rows) \in Nat /\ IsFiniteSet(DOMAIN rows)
         /\ Cardinality(DOMAIN rows) = Len(rows) /\ DOMAIN rows \subseteq Int
         /\ \A i \in DOMAIN rows :
              /\ rows[i] \in Rows
              /\ rows[i].day \in Int /\ rows[i].src \in Int /\ rows[i].dst \in Int
              /\ rows[i].amount \in Int
<1>1. /\ DOMAIN rows = 1 .. Len(rows) /\ Len(rows) \in Nat /\ IsFiniteSet(DOMAIN rows)
      /\ Cardinality(DOMAIN rows) = Len(rows) /\ DOMAIN rows \subseteq Int
      /\ \A i \in DOMAIN rows : rows[i] \in Rows
  BY TableDomain
<1>2. \A r \in Rows : r.day \in Int /\ r.src \in Int /\ r.dst \in Int /\ r.amount \in Int
  BY RowsAreTransfers
<1>3. QED
  BY <1>1, <1>2

\* The order of the sort, in which rows may be level.
LEMMA RowOrderIsWeak ==
  ASSUME NEW r, NEW s, NEW t,
         \A x \in {r, s, t} : /\ x.day \in Int /\ x.src \in Int /\ x.dst \in Int
                              /\ x.amount \in Int
  PROVE  /\ ~ RowOrder(r, r)
         /\ RowOrder(r, s) /\ RowOrder(s, t) => RowOrder(r, t)
         /\ ~ RowOrder(r, s) /\ ~ RowOrder(s, t) => ~ RowOrder(r, t)
         /\ RowOrder(r, s) => ~ RowOrder(s, r)
<1>1. /\ r.day \in Int /\ r.src \in Int /\ r.dst \in Int /\ r.amount \in Int
      /\ s.day \in Int /\ s.src \in Int /\ s.dst \in Int /\ s.amount \in Int
      /\ t.day \in Int /\ t.src \in Int /\ t.dst \in Int /\ t.amount \in Int
  OBVIOUS
<1>2. ~ RowOrder(r, r)
  BY <1>1 DEF RowOrder
<1>3. RowOrder(r, s) => ~ RowOrder(s, r)
  BY <1>1 DEF RowOrder
<1>4. RowOrder(r, s) /\ RowOrder(s, t) => RowOrder(r, t)
  BY <1>1 DEF RowOrder
<1>5. ~ RowOrder(r, s) /\ ~ RowOrder(s, t) => ~ RowOrder(r, t)
  BY <1>1 DEF RowOrder
<1>6. QED
  BY <1>2, <1>3, <1>4, <1>5

LEMMA RowsAreOrdered ==
  ASSUME NEW rows \in Seq(Rows)
  PROVE  StrictOrder(DOMAIN rows, RowsBefore(rows))
<1> DEFINE D == DOMAIN rows
           before == RowsBefore(rows)
<1>1. \A i \in D : /\ i \in Int
                   /\ rows[i].day \in Int /\ rows[i].src \in Int /\ rows[i].dst \in Int
                   /\ rows[i].amount \in Int
  BY RowsHaveNumbers
<1>2. before \in [D -> SUBSET D] /\ \A i \in D : before[i] = {j \in D : RowBefore(rows, j, i)}
  BY DEF RowsBefore
<1> HIDE DEF D, before
<1>3. \A i \in D : i \notin before[i]
  BY <1>1, <1>2 DEF RowBefore, RowOrder
<1>4. \A i, j, k \in D : RowBefore(rows, k, j) /\ RowBefore(rows, j, i) => RowBefore(rows, k, i)
  <2> SUFFICES ASSUME NEW i \in D, NEW j \in D, NEW k \in D,
                      RowBefore(rows, k, j), RowBefore(rows, j, i)
               PROVE  RowBefore(rows, k, i)
    OBVIOUS
  <2> DEFINE r == rows[k]
             s == rows[j]
             t == rows[i]
  <2>1. /\ \A x \in {r, s, t} : /\ x.day \in Int /\ x.src \in Int /\ x.dst \in Int
                                /\ x.amount \in Int
        /\ i \in Int /\ j \in Int /\ k \in Int
    BY <1>1
  <2>2. /\ RowOrder(r, s) \/ (~ RowOrder(s, r) /\ k < j)
        /\ RowOrder(s, t) \/ (~ RowOrder(t, s) /\ j < i)
    BY DEF RowBefore
  <2> HIDE DEF r, s, t
  <2>3. /\ RowOrder(r, s) /\ RowOrder(s, t) => RowOrder(r, t)
        /\ ~ RowOrder(r, t) /\ ~ RowOrder(t, s) => ~ RowOrder(r, s)
        /\ ~ RowOrder(s, r) /\ ~ RowOrder(r, t) => ~ RowOrder(s, t)
        /\ ~ RowOrder(t, s) /\ ~ RowOrder(s, r) => ~ RowOrder(t, r)
    BY <2>1, RowOrderIsWeak
  <2>4. RowOrder(r, t) \/ (~ RowOrder(t, r) /\ k < i)
    <3>1. k < j /\ j < i => k < i
      BY <2>1
    <3>2. QED
      BY <2>2, <2>3, <3>1
  <2>5. QED
    BY <2>4 DEF RowBefore, r, t
<1>5. \A i, j \in D : i = j \/ RowBefore(rows, i, j) \/ RowBefore(rows, j, i)
  BY <1>1 DEF RowBefore, RowOrder
<1>6. \A i, j \in D : j \in before[i] => before[j] \subseteq before[i]
  BY <1>2, <1>4
<1>7. \A i, j \in D : i = j \/ i \in before[j] \/ j \in before[i]
  BY <1>2, <1>5
<1>8. QED
  BY <1>2, <1>3, <1>6, <1>7 DEF StrictOrder, D, before

\* Each row of the loaded table is the row of the file that as many rows stand before.
LEMMA LoadedRows ==
  ASSUME NEW rows \in Seq(Rows)
  PROVE  LET order == LoadOrder(rows)
         IN  /\ DOMAIN order = DOMAIN rows /\ DOMAIN Loaded(rows) = DOMAIN rows
             /\ Loaded(rows) \in Seq(Rows) /\ Len(Loaded(rows)) = Len(rows)
             /\ \A n \in DOMAIN rows : /\ order[n] \in DOMAIN rows
                                       /\ Loaded(rows)[n] = rows[order[n]]
                                       /\ Cardinality(RowsBefore(rows)[order[n]]) = n - 1
             /\ \A i \in DOMAIN rows : \E n \in DOMAIN rows : order[n] = i
             /\ \A m, n \in DOMAIN rows : order[m] = order[n] => m = n
             /\ \A m, n \in DOMAIN rows : m < n <=> RowBefore(rows, order[m], order[n])
<1> DEFINE D == DOMAIN rows
           before == RowsBefore(rows)
           order == LoadOrder(rows)
           loaded == Loaded(rows)
<1>1. /\ D = 1 .. Len(rows) /\ Len(rows) \in Nat /\ IsFiniteSet(D) /\ Cardinality(D) = Len(rows)
      /\ \A i \in D : rows[i] \in Rows
  BY RowsHaveNumbers
<1>2. \A i \in D : before[i] = {j \in D : RowBefore(rows, j, i)}
  BY DEF RowsBefore
<1>3. DOMAIN order = 1 .. Cardinality(D)
  BY DEF LoadOrder, Ranked
<1>4. loaded = [n \in DOMAIN order |-> rows[order[n]]]
  BY DEF Loaded, Arranged, LoadOrder, RowBefore
<1>5. ASSUME NEW n \in 1 .. Cardinality(D), \E i \in D : Cardinality(before[i]) = n - 1
      PROVE  order[n] \in D /\ Cardinality(before[order[n]]) = n - 1
  <2>1. order[n] = CHOOSE i \in D : Cardinality({j \in D : RowBefore(rows, j, i)}) = n - 1
    BY DEF LoadOrder, Ranked
  <2>2. \E i \in D : Cardinality({j \in D : RowBefore(rows, j, i)}) = n - 1
    BY <1>2, <1>5
  <2> HIDE DEF order, D
  <2>3. order[n] \in D /\ Cardinality({j \in D : RowBefore(rows, j, order[n])}) = n - 1
    BY <2>1, <2>2
  <2>4. QED
    BY <1>2, <2>3
<1> HIDE DEF D, before, order, loaded
<1>6. StrictOrder(D, before)
  BY RowsAreOrdered DEF D, before
<1>7. Placed(D, before, order)
  BY <1>3, <1>5 DEF Placed
<1>8. /\ \A n \in DOMAIN order : order[n] \in D
      /\ \A i \in D : \E n \in DOMAIN order : order[n] = i
      /\ \A m, n \in DOMAIN order : m < n <=> order[m] \in before[order[n]]
      /\ \A m, n \in DOMAIN order : order[m] = order[n] => m = n
  <2>1. IsFiniteSet(D)
    BY <1>1
  <2>2. QED
    BY <2>1, <1>6, <1>7, TableOfASet
<1>9. DOMAIN order = D
  BY <1>1, <1>3
<1>10. \A n \in D : Cardinality(before[order[n]]) = n - 1
  <2> SUFFICES ASSUME NEW n \in D
               PROVE  \E i \in D : Cardinality(before[i]) = n - 1
    BY <1>1, <1>5
  <2>1. n - 1 \in 0 .. (Cardinality(D) - 1)
    BY <1>1
  <2>2. QED
    BY <1>1, <1>6, <2>1, PlacesOfASet
<1>11. \A n \in D : loaded[n] = rows[order[n]] /\ loaded[n] \in Rows
  BY <1>1, <1>4, <1>8, <1>9
<1>12. DOMAIN loaded = D
  BY <1>4, <1>9
<1>13. loaded \in Seq(Rows) /\ Len(loaded) = Len(rows)
  <2>1. loaded \in [1 .. Len(rows) -> Rows]
    BY <1>1, <1>4, <1>9, <1>11
  <2>2. QED
    BY <1>1, <2>1
<1>14. \A m, n \in D : m < n <=> RowBefore(rows, order[m], order[n])
  BY <1>2, <1>8, <1>9
<1>15. QED
  BY <1>8, <1>9, <1>10, <1>11, <1>12, <1>13, <1>14 DEF D, before, order, loaded

\* A row of a later day changes nothing in what is read up to a day, wherever the sort
\* puts it.
LEMMA LaterRowsChangeNothing ==
  ASSUME NEW rows \in Seq(Rows), NEW r \in Rows, NEW day \in Int, day < r.day
  PROVE  /\ UpTo(Loaded(Append(rows, r)), day) = UpTo(Loaded(rows), day)
         /\ On(Loaded(Append(rows, r)), day) = On(Loaded(rows), day)
<1> DEFINE more == Append(rows, r)
           D == DOMAIN rows
           E == DOMAIN more
           last == Len(rows) + 1
           old == Loaded(rows)
           new == Loaded(more)
           oldOrder == LoadOrder(rows)
           newOrder == LoadOrder(more)
           oldBefore == RowsBefore(rows)
           newBefore == RowsBefore(more)
<1>1. /\ more \in Seq(Rows) /\ D = 1 .. Len(rows) /\ E = 1 .. last /\ Len(rows) \in Nat
      /\ \A i \in D : more[i] = rows[i]
      /\ more[last] = r /\ last \in E /\ last \notin D
      /\ \A i \in E : i \in D \/ i = last
  OBVIOUS
<1>2. /\ \A i \in D : rows[i].day \in Int
      /\ \A i \in E : more[i].day \in Int
  BY <1>1, RowsHaveNumbers
<1>3. /\ DOMAIN old = D
      /\ \A n \in D : /\ oldOrder[n] \in D /\ old[n] = rows[oldOrder[n]]
                      /\ Cardinality(oldBefore[oldOrder[n]]) = n - 1
      /\ \A i \in D : \E n \in D : oldOrder[n] = i
  BY LoadedRows
<1>4. /\ DOMAIN new = E
      /\ \A n \in E : /\ newOrder[n] \in E /\ new[n] = more[newOrder[n]]
                      /\ Cardinality(newBefore[newOrder[n]]) = n - 1
      /\ \A i \in E : \E n \in E : newOrder[n] = i
  BY <1>1, LoadedRows
<1>5. ASSUME NEW i \in D, rows[i].day <= day
      PROVE  newBefore[i] = oldBefore[i]
  <2>1. newBefore[i] = {j \in E : RowBefore(more, j, i)}
    BY <1>1 DEF RowsBefore
  <2>2. oldBefore[i] = {j \in D : RowBefore(rows, j, i)}
    BY DEF RowsBefore
  <2>3. ~ RowBefore(more, last, i)
    <3>1. more[i].day < more[last].day /\ more[i].day \in Int /\ more[last].day \in Int
      BY <1>1, <1>2, <1>5
    <3>2. RowOrder(more[i], more[last]) /\ ~ RowOrder(more[last], more[i])
      BY <3>1 DEF RowOrder
    <3>3. QED
      BY <3>2 DEF RowBefore
  <2>4. \A j \in D : RowBefore(more, j, i) <=> RowBefore(rows, j, i)
    BY <1>1 DEF RowBefore
  <2> HIDE DEF D, E, more, last, newBefore, oldBefore
  <2>5. QED
    BY <1>1, <2>1, <2>2, <2>3, <2>4
<1>0. (\A n \in D : n \in Int /\ n \in E) /\ (\A n \in E : n \in Int)
  BY <1>1
<1> HIDE DEF more, D, E, last, old, new, oldOrder, newOrder, oldBefore, newBefore
<1> DEFINE oldPlaces == {n \in D : old[n].day <= day}
           newPlaces == {n \in E : new[n].day <= day}
<1>6. ASSUME NEW n \in oldPlaces
      PROVE  n \in newPlaces /\ new[n] = old[n]
  <2> DEFINE i == oldOrder[n]
  <2>1. n \in D /\ i \in D /\ old[n] = rows[i] /\ rows[i].day <= day /\ n \in Int
    BY <1>0, <1>3
  <2>2. newBefore[i] = oldBefore[i]
    BY <1>5, <2>1
  <2>3. Cardinality(newBefore[i]) = n - 1
    BY <1>3, <2>2
  <2>4. PICK m \in E : newOrder[m] = i
    BY <1>0, <1>4, <2>1
  <2>5. m - 1 = n - 1 /\ m \in Int
    BY <1>0, <1>4, <2>3, <2>4
  <2>6. m = n
    BY <2>1, <2>5
  <2>7. new[n] = more[i]
    BY <1>4, <2>4, <2>6
  <2>8. QED
    BY <1>1, <2>1, <2>4, <2>6, <2>7
<1>7. ASSUME NEW n \in newPlaces
      PROVE  n \in oldPlaces
  <2> DEFINE i == newOrder[n]
  <2>1. i \in E /\ new[n] = more[i] /\ more[i].day <= day /\ n \in Int
    BY <1>0, <1>4
  <2>2. more[last].day = r.day /\ r.day \in Int
    BY <1>1, <1>2
  <2>3. i # last
    <3> SUFFICES ASSUME i = last PROVE FALSE
      OBVIOUS
    <3>1. r.day <= day
      BY <2>1, <2>2
    <3>2. QED
      BY <2>2, <3>1
  <2>4. i \in D /\ rows[i].day <= day
    BY <1>1, <2>1, <2>3
  <2>5. newBefore[i] = oldBefore[i]
    BY <1>5, <2>4
  <2>6. Cardinality(oldBefore[i]) = n - 1
    BY <1>4, <2>5
  <2>7. PICK m \in D : oldOrder[m] = i
    BY <1>3, <2>4
  <2>8. m - 1 = n - 1 /\ m \in Int
    BY <1>0, <1>3, <2>6, <2>7
  <2>9. m = n
    BY <2>1, <2>8
  <2>10. QED
    BY <1>3, <2>4, <2>7, <2>9
<1>8. newPlaces = oldPlaces
  BY <1>6, <1>7
<1>9. \A places \in SUBSET oldPlaces : Picked(new, places) = Picked(old, places)
  <2> SUFFICES ASSUME NEW places \in SUBSET oldPlaces
               PROVE  Picked(new, places) = Picked(old, places)
    OBVIOUS
  <2> DEFINE kept == Sorted(places)
  <2>1. IsFiniteSet(places) /\ places \in SUBSET Int
    <3>1. places \in SUBSET D
      OBVIOUS
    <3>2. QED
      BY <3>1, RowsHaveNumbers, FS_Subset DEF D
  <2>2. \A n \in DOMAIN kept : kept[n] \in places
    BY <2>1, SortedNumbers
  <2>3. \A n \in DOMAIN kept : new[kept[n]] = old[kept[n]]
    BY <1>6, <2>2
  <2>4. /\ Picked(new, places) = [n \in DOMAIN kept |-> new[kept[n]]]
        /\ Picked(old, places) = [n \in DOMAIN kept |-> old[kept[n]]]
    BY DEF Picked
  <2> HIDE DEF kept
  <2>5. QED
    BY <2>3, <2>4
<1>10. UpTo(new, day) = UpTo(old, day)
  <2>1. UpTo(new, day) = Picked(new, newPlaces) /\ UpTo(old, day) = Picked(old, oldPlaces)
    BY <1>3, <1>4 DEF UpTo, Where
  <2> HIDE DEF newPlaces, oldPlaces
  <2>2. QED
    BY <1>8, <1>9, <2>1
<1>11. On(new, day) = On(old, day)
  <2> DEFINE oldToday == {n \in D : old[n].day = day}
             newToday == {n \in E : new[n].day = day}
  <2>1. On(new, day) = Picked(new, newToday) /\ On(old, day) = Picked(old, oldToday)
    BY <1>3, <1>4 DEF On, Where
  <2>2. oldToday \in SUBSET oldPlaces
    OBVIOUS
  <2>3. newToday = oldToday
    BY <1>6, <1>7
  <2> HIDE DEF newToday, oldToday, oldPlaces
  <2>4. QED
    BY <1>9, <2>1, <2>2, <2>3
<1>12. QED
  BY <1>10, <1>11 DEF new, old, more

\* The replay of a day never looks ahead: neither its alerts nor a route that is built
\* from them later depend on a row of a later day, wherever the file has that row.
THEOREM ScansNeverLookAhead == Spec => NoLookAhead
<1> DEFINE Same ==
             \A day \in Days :
               InRange(file, day) /\ day < file'[Len(file')].day =>
                 /\ Scan(file', day).selected = Scan(file, day).selected
                 /\ \A gid \in Accounts : MoneyRoute(file', gid, day) = MoneyRoute(file, gid, day)
<1>1. ASSUME FileTypeOK, Receive
      PROVE  Same
  <2>1. PICK r \in Rows : file' = Append(file, r)
    BY <1>1 DEF Receive
  <2>2. file \in Seq(Rows)
    BY <1>1 DEF FileTypeOK
  <2>3. file'[Len(file')] = r
    BY <2>1, <2>2
  <2> SUFFICES ASSUME NEW day \in Days, day < r.day
               PROVE  /\ Scan(file', day).selected = Scan(file, day).selected
                      /\ \A gid \in Accounts : MoneyRoute(file', gid, day) = MoneyRoute(file, gid, day)
    BY <2>3
  <2>4. day \in Int
    BY RowsAreTransfers DEF Days
  <2>5. /\ UpTo(Loaded(file'), day) = UpTo(Loaded(file), day)
        /\ On(Loaded(file'), day) = On(Loaded(file), day)
    BY <2>1, <2>2, <2>4, LaterRowsChangeNothing
  <2>6. Alerts(file', day) = Alerts(file, day)
    BY <2>5 DEF Alerts
  <2>7. Scan(file', day).selected = Scan(file, day).selected
    BY <2>6 DEF Scan
  <2>8. \A gid \in Accounts : MoneyRoute(file', gid, day) = MoneyRoute(file, gid, day)
    BY <2>5 DEF MoneyRoute
  <2>9. QED
    BY <2>7, <2>8
<1>2. FileTypeOK /\ [Receive]_file => [Same]_file
  BY <1>1
<1>3. Spec => [][Same]_file
  <2> HIDE DEF Same
  <2>1. QED
    BY <1>2, FileType, PTL DEF Spec
<1>4. QED
  BY <1>3 DEF NoLookAhead

-----------------------------------------------------------------------------
(* Clusters.                                                               *)

LEMMA AccountsOfRows ==
  ASSUME NEW rows \in Seq(Rows)
  PROVE  /\ IsFiniteSet(AccountsOf(rows)) /\ AccountsOf(rows) \subseteq Int
         /\ AccountsOf(rows) \subseteq Accounts
         /\ PairsAmong(PairsOf(rows), AccountsOf(rows))
         /\ \A r \in ToSet(rows) : r.src \in AccountsOf(rows) /\ r.dst \in AccountsOf(rows)
<1> DEFINE D == DOMAIN rows
           src == [i \in D |-> rows[i].src]
           dst == [i \in D |-> rows[i].dst]
<1>1. /\ IsFiniteSet(D) /\ \A i \in D : rows[i] \in Rows
      /\ \A i \in D : rows[i].src \in Int /\ rows[i].dst \in Int
  BY RowsHaveNumbers
<1>2. SrcOf(rows) = {src[i] : i \in D} /\ DstOf(rows) = {dst[i] : i \in D}
  BY DEF SrcOf, DstOf, ToSet
<1>3. IsFiniteSet({src[i] : i \in D})
  <2> HIDE DEF src, D
  <2>1. QED
    BY <1>1, FiniteImage
<1>4. IsFiniteSet({dst[i] : i \in D})
  <2> HIDE DEF dst, D
  <2>1. QED
    BY <1>1, FiniteImage
<1>5. IsFiniteSet(SrcOf(rows)) /\ IsFiniteSet(DstOf(rows))
  <2> HIDE DEF src, dst, D
  <2>1. QED
    BY <1>2, <1>3, <1>4
<1>6. IsFiniteSet(AccountsOf(rows))
  BY <1>5, FS_Union DEF AccountsOf
<1>7. AccountsOf(rows) \subseteq Int
  BY <1>1, <1>2 DEF AccountsOf
<1>8. \A i \in D : rows[i].src \in Accounts /\ rows[i].dst \in Accounts
  BY <1>1 DEF Accounts
<1>9. AccountsOf(rows) \subseteq Accounts
  BY <1>2, <1>8 DEF AccountsOf
<1>10. \A r \in ToSet(rows) : r.src \in AccountsOf(rows) /\ r.dst \in AccountsOf(rows)
  BY DEF AccountsOf, SrcOf, DstOf
<1>11. PairsAmong(PairsOf(rows), AccountsOf(rows))
  BY <1>10 DEF PairsAmong, PairsOf
<1>12. QED
  BY <1>6, <1>7, <1>9, <1>10, <1>11

\* Two accounts are in one cluster exactly if a search from one finds the other.
LEMMA ClustersAreComponents ==
  ASSUME NEW rows \in Seq(Rows), NEW a \in AccountsOf(rows), NEW b \in AccountsOf(rows)
  PROVE  Clusters(rows)[a] = Clusters(rows)[b]
           <=> b \in Around(PairsOf(rows), {a}, Cardinality(AccountsOf(rows)))
<1> DEFINE U == AccountsOf(rows)
           component == [gid \in U |-> Around(PairsOf(rows), {gid}, Cardinality(U))]
           first == [gid \in U |-> Min(component[gid])]
           firsts == {first[gid] : gid \in U}
           upTo(gid) == {f \in firsts : f <= first[gid]}
<1>1. IsFiniteSet(U) /\ U \subseteq Int /\ PairsAmong(PairsOf(rows), U)
  BY AccountsOfRows
<1>2. \A gid \in U : component[gid] = Around(PairsOf(rows), {gid}, Cardinality(U))
  OBVIOUS
<1>3. \A gid \in U : Clusters(rows)[gid] = Cardinality(upTo(gid))
  BY DEF Clusters
<1>4. \A gid \in U : first[gid] = Min(component[gid])
  OBVIOUS
<1>5. \A gid \in U : /\ gid \in component[gid] /\ component[gid] \subseteq U
                     /\ \A h \in component[gid] : component[h] = component[gid]
  <2> SUFFICES ASSUME NEW gid \in U
               PROVE  /\ gid \in component[gid] /\ component[gid] \subseteq U
                      /\ \A h \in component[gid] : component[h] = component[gid]
    OBVIOUS
  <2> HIDE DEF component
  <2>1. LET around(g) == Around(PairsOf(rows), {g}, Cardinality(U))
        IN  /\ gid \in around(gid) /\ around(gid) \subseteq U
            /\ \A h \in around(gid) : around(h) = around(gid)
    <3> HIDE DEF U
    <3>1. QED
      BY <1>1, Components
  <2>2. QED
    BY <1>2, <2>1
<1> HIDE DEF U, component, first
<1>6. \A gid \in U : first[gid] \in component[gid] /\ first[gid] \in Int
  <2> SUFFICES ASSUME NEW gid \in U
               PROVE  first[gid] \in component[gid] /\ first[gid] \in Int
    OBVIOUS
  <2>1. component[gid] \in SUBSET U
    BY <1>5
  <2>2. IsFiniteSet(component[gid]) /\ component[gid] \in SUBSET Int /\ component[gid] # {}
    BY <1>1, <1>5, <2>1, FS_Subset
  <2>3. QED
    BY <1>4, <2>2, SmallestNumber
<1>7. IsFiniteSet(firsts)
  BY <1>1, FiniteImage
<1>8. \A f \in firsts : f \in Int
  BY <1>6
<1>9. ASSUME NEW g \in U, NEW h \in U, first[g] < first[h]
      PROVE  Cardinality(upTo(g)) # Cardinality(upTo(h))
  <2>1. first[g] \in Int /\ first[h] \in Int
    BY <1>6
  <2>2. upTo(g) \in SUBSET upTo(h)
    <3>1. \A f \in firsts : f \in Int /\ first[g] \in Int /\ first[h] \in Int
      BY <1>8, <2>1
    <3>2. \A f \in firsts : f <= first[g] => f <= first[h]
      <4> HIDE DEF firsts
      <4>1. QED
        BY <1>9, <3>1
    <3> HIDE DEF firsts
    <3>3. QED
      BY <3>2
  <2>3. first[h] \in upTo(h) /\ first[h] \notin upTo(g)
    BY <1>9, <2>1
  <2>4. upTo(h) \in SUBSET firsts
    OBVIOUS
  <2> HIDE DEF firsts, upTo
  <2>5. IsFiniteSet(upTo(h))
    BY <1>7, <2>4, FS_Subset
  <2>6. upTo(g) # upTo(h)
    BY <2>3
  <2>7. QED
    BY <2>2, <2>5, <2>6, FS_Subset
<1>10. first[a] = first[b] <=> component[a] = component[b]
  <2>1. first[a] = first[b] => component[a] = component[b]
    BY <1>5, <1>6 DEF U
  <2>2. QED
    BY <1>4, <2>1 DEF U
<1>11. component[a] = component[b] <=> b \in component[a]
  BY <1>5 DEF U
<1>12. Cardinality(upTo(a)) = Cardinality(upTo(b)) <=> first[a] = first[b]
  <2>1. a \in U /\ b \in U
    BY DEF U
  <2>2. first[a] \in Int /\ first[b] \in Int
    BY <1>6, <2>1
  <2>3. first[a] = first[b] => upTo(a) = upTo(b)
    OBVIOUS
  <2> HIDE DEF upTo
  <2>4. first[a] = first[b] \/ first[a] < first[b] \/ first[b] < first[a]
    BY <2>2
  <2>5. QED
    BY <1>9, <2>1, <2>3, <2>4
<1>13. /\ Clusters(rows)[a] = Cardinality(upTo(a)) /\ Clusters(rows)[b] = Cardinality(upTo(b))
  BY <1>3 DEF U
<1>14. component[a] = Around(PairsOf(rows), {a}, Cardinality(U))
  BY <1>2 DEF U
<1> HIDE DEF upTo
<1>15. QED
  BY <1>10, <1>11, <1>12, <1>13, <1>14 DEF U

\* Clusters are exactly the connected parts of the file (the second half of
\* SearchesAreComplete, services/agentic_loop.py:411).
LEMMA ClustersAreConnected ==
  ASSUME NEW rows \in Seq(Rows), NEW a \in AccountsOf(rows), NEW b \in AccountsOf(rows)
  PROVE  Clusters(rows)[a] = Clusters(rows)[b] <=> Connected(PairsOf(rows), a, b)
<1> DEFINE U == AccountsOf(rows)
           pairs == PairsOf(rows)
           component(gid) == Around(pairs, {gid}, Cardinality(U))
<1>1. IsFiniteSet(U) /\ U \subseteq Accounts /\ PairsAmong(pairs, U)
  BY AccountsOfRows
<1>2. Clusters(rows)[a] = Clusters(rows)[b] <=> b \in component(a)
  BY ClustersAreComponents
<1> HIDE DEF pairs, U
<1>3. /\ a \in component(a) /\ component(a) \subseteq U /\ Parted(pairs, component(a))
      /\ \A S : Parted(pairs, S) /\ a \in S => component(a) \subseteq S
      /\ \A h \in component(a) : component(h) = component(a)
  BY <1>1, Components DEF U
<1>4. \A S : Parted(pairs, S) /\ b \in S => component(b) \subseteq S
  BY <1>1, Components DEF U
<1> HIDE DEF component
<1>5. ASSUME b \in component(a)
      PROVE  Connected(pairs, a, b)
  <2>1. component(b) = component(a)
    BY <1>3, <1>5
  <2>2. \A S : Parted(pairs, S) => (a \in S <=> b \in S)
    BY <1>3, <1>4, <1>5, <2>1
  <2>3. QED
    BY <2>2 DEF Connected, Parted
<1>6. ASSUME Connected(pairs, a, b)
      PROVE  b \in component(a)
  <2>1. component(a) \in SUBSET Accounts
    BY <1>1, <1>3
  <2>2. \A S \in SUBSET Accounts : Parted(pairs, S) => (a \in S <=> b \in S)
    BY <1>6 DEF Connected, Parted
  <2>3. QED
    BY <1>3, <2>1, <2>2
<1>7. QED
  BY <1>2, <1>5, <1>6 DEF pairs

-----------------------------------------------------------------------------
(* Scans and effects, for every table of rows.                             *)

\* What is read of a table is a table of some of its rows.
LEMMA MaskedRows ==
  ASSUME NEW rows \in Seq(Rows), NEW x
  PROVE  /\ UpTo(rows, x) \in Seq(Rows) /\ ToSet(UpTo(rows, x)) = {r \in ToSet(rows) : r.day <= x}
         /\ On(rows, x) \in Seq(Rows) /\ ToSet(On(rows, x)) = {r \in ToSet(rows) : r.day = x}
         /\ To(rows, x) \in Seq(Rows) /\ ToSet(To(rows, x)) = {r \in ToSet(rows) : r.dst = x}
         /\ From(rows, x) \in Seq(Rows) /\ ToSet(From(rows, x)) = {r \in ToSet(rows) : r.src = x}
<1> DEFINE D == DOMAIN rows
           early == {i \in D : rows[i].day <= x}
           today == {i \in D : rows[i].day = x}
           into == {i \in D : rows[i].dst = x}
           outOf == {i \in D : rows[i].src = x}
<1>1. /\ UpTo(rows, x) = Picked(rows, early) /\ On(rows, x) = Picked(rows, today)
      /\ To(rows, x) = Picked(rows, into) /\ From(rows, x) = Picked(rows, outOf)
  BY DEF UpTo, On, To, From, Where
<1>2. \A places \in SUBSET D : /\ Picked(rows, places) \in Seq(Rows)
                               /\ ToSet(Picked(rows, places)) = {rows[i] : i \in places}
  BY PickedRows
<1>3. early \in SUBSET D /\ today \in SUBSET D /\ into \in SUBSET D /\ outOf \in SUBSET D
  OBVIOUS
<1>4. ToSet(rows) = {rows[i] : i \in D}
  BY DEF ToSet
<1>5. /\ {rows[i] : i \in early} = {r \in ToSet(rows) : r.day <= x}
      /\ {rows[i] : i \in today} = {r \in ToSet(rows) : r.day = x}
      /\ {rows[i] : i \in into} = {r \in ToSet(rows) : r.dst = x}
      /\ {rows[i] : i \in outOf} = {r \in ToSet(rows) : r.src = x}
  <2> HIDE DEF D
  <2>1. QED
    BY <1>4
<1> HIDE DEF D, early, today, into, outOf
<1>6. QED
  BY <1>1, <1>2, <1>3, <1>5

\* The loaded table has the rows of the file.
LEMMA LoadedSet ==
  ASSUME NEW rows \in Seq(Rows)
  PROVE  Loaded(rows) \in Seq(Rows) /\ ToSet(Loaded(rows)) = ToSet(rows)
<1> DEFINE D == DOMAIN rows
           order == LoadOrder(rows)
           loaded == Loaded(rows)
<1>1. /\ DOMAIN loaded = D /\ loaded \in Seq(Rows)
      /\ \A n \in D : order[n] \in D /\ loaded[n] = rows[order[n]]
      /\ \A i \in D : \E n \in D : order[n] = i
  BY LoadedRows
<1>2. ToSet(loaded) = {loaded[n] : n \in DOMAIN loaded} /\ ToSet(rows) = {rows[i] : i \in D}
  BY DEF ToSet
<1> HIDE DEF D, order, loaded
<1>3. ToSet(loaded) = ToSet(rows)
  <2>1. \A n \in D : loaded[n] \in {rows[i] : i \in D}
    BY <1>1
  <2>2. \A i \in D : rows[i] \in {loaded[n] : n \in D}
    BY <1>1
  <2>3. {loaded[n] : n \in DOMAIN loaded} = {loaded[n] : n \in D}
    BY <1>1
  <2>4. {loaded[n] : n \in D} = {rows[i] : i \in D}
    BY <2>1, <2>2
  <2>5. QED
    BY <1>2, <2>3, <2>4
<1>4. QED
  BY <1>1, <1>3 DEF loaded

\* What a scan of a day reads of a file.
LEMMA HistoryRows ==
  ASSUME NEW rows \in Seq(Rows), NEW day
  PROVE  LET history == UpTo(Loaded(rows), day)
             today == On(Loaded(rows), day)
         IN  /\ history \in Seq(Rows) /\ today \in Seq(Rows)
             /\ ToSet(history) = {r \in ToSet(rows) : r.day <= day}
             /\ ToSet(today) = {r \in ToSet(rows) : r.day = day}
BY LoadedSet, MaskedRows

LEMMA SmallerNumber ==
  ASSUME NEW m \in Int, NEW n \in Int
  PROVE  Min({m, n}) \in Int
<1>1. {m, n} \in SUBSET Int /\ {m, n} # {} /\ IsFiniteSet({m, n})
  <2>1. {m, n} = {m} \cup {n} /\ IsFiniteSet({m}) /\ IsFiniteSet({n})
    BY FS_Singleton
  <2>2. QED
    BY <2>1, FS_Union
<1>2. Min({m, n}) \in {m, n}
  BY <1>1, SmallestNumber
<1>3. QED
  BY <1>2

LEMMA PrioritiesAreWhole ==
  ASSUME NEW rules \in SUBSET Rule, NEW cameIn \in Int, NEW payers \in Int
  PROVE  PriorityOf(rules, cameIn, payers) \in Int
<1>1. IsFiniteSet(Rule)
  <2>1. Rule = {"daily_unique_payers"} \cup {"daily_incoming_kzt"} \cup {"rapid_pass_through_0_2d"}
    BY DEF Rule
  <2>2. QED
    BY <2>1, FS_Singleton, FS_Union
<1>2. Cardinality(rules) \in Nat
  BY <1>1, FS_Subset, FS_CardinalityType
<1>3. LargeDay \in Nat /\ ManyPayers \in Nat
  BY AlertRulesAssumption
<1> DEFINE met == Cardinality(rules)
           sum == Min({LargeDay, cameIn})
           many == Min({ManyPayers, payers})
           score == (45 + 14 * met) * LargeDay * ManyPayers
                      + 8 * ManyPayers * sum + 5 * LargeDay * many
           most == 99 * LargeDay * ManyPayers
<1>4. sum \in Int /\ many \in Int /\ met \in Int
  BY <1>2, <1>3, SmallerNumber
<1>5. PriorityOf(rules, cameIn, payers) = Min({most, score})
  BY DEF PriorityOf
<1> HIDE DEF met, sum, many
<1>6. score \in Int /\ most \in Int
  <2>1. \A i, j \in Int : i * j \in Int /\ i + j \in Int
    OBVIOUS
  <2>2. 45 + 14 * met \in Int /\ LargeDay \in Int /\ ManyPayers \in Int
    BY <1>3, <1>4
  <2>3. (45 + 14 * met) * LargeDay * ManyPayers \in Int
    BY <2>1, <2>2
  <2>4. 8 * ManyPayers * sum \in Int /\ 5 * LargeDay * many \in Int
    BY <1>4, <2>1, <2>2
  <2>5. 99 * LargeDay * ManyPayers \in Int
    BY <2>1, <2>2
  <2>6. QED
    BY <2>1, <2>3, <2>4, <2>5
<1> HIDE DEF score, most
<1>7. QED
  BY <1>5, <1>6, SmallerNumber

\* The alerts of any file can be ranked.
LEMMA FilesAreScannable ==
  ASSUME NEW rows \in Seq(Rows), NEW day
  PROVE  Scannable(rows, day)
<1> DEFINE history == UpTo(Loaded(rows), day)
           today == On(Loaded(rows), day)
<1>1. history \in Seq(Rows) /\ today \in Seq(Rows)
  BY HistoryRows
<1>2. IsFiniteSet(AccountsOf(history)) /\ AccountsOf(history) \subseteq Int
  BY <1>1, AccountsOfRows
<1> HIDE DEF history, today
<1>3. ASSUME NEW gid
      PROVE  AlertOf(history, today, gid).priority \in Int
  <2> DEFINE rules == RulesMet(history, today, gid)
             incoming == To(today, gid)
             payers == Cardinality(SrcOf(incoming))
  <2>1. rules \in SUBSET Rule
    BY DEF RulesMet
  <2>2. incoming \in Seq(Rows)
    BY <1>1, MaskedRows
  <2>3. AlertOf(history, today, gid).priority = PriorityOf(rules, Total(incoming), payers)
    BY DEF AlertOf
  <2> HIDE DEF rules, incoming
  <2>4. \A r \in Rows : r.amount \in Int
    BY RowsAreTransfers
  <2>5. Total(incoming) \in Int
    BY <2>2, <2>4, TotalIsSum
  <2>6. IsFiniteSet(SrcOf(incoming))
    <3>1. IsFiniteSet(AccountsOf(incoming)) /\ SrcOf(incoming) \subseteq AccountsOf(incoming)
      BY <2>2, AccountsOfRows DEF AccountsOf
    <3>2. QED
      BY <3>1, FS_Subset
  <2>7. payers \in Int
    BY <2>6, FS_CardinalityType
  <2> HIDE DEF payers
  <2>8. QED
    BY <2>1, <2>3, <2>5, <2>7, PrioritiesAreWhole
<1>4. \A alert \in FoundAlerts(rows, day) : \E gid : alert = AlertOf(history, today, gid)
  BY DEF FoundAlerts, history, today
<1>5. \A alert \in FoundAlerts(rows, day) : alert.priority \in Int
  BY <1>3, <1>4
<1>6. QED
  BY <1>2, <1>5 DEF Scannable, history

\* A scan keeps one alert per account, the most urgent first, leaves out none that is
\* more urgent than one it keeps, and says so exactly when it leaves one out.
THEOREM ScansKeepTheMostUrgent ==
  ASSUME NEW rows \in Seq(Rows), NEW day
  PROVE  KeepsTheMostUrgent(FoundAlerts(rows, day), Scan(rows, day))
<1>1. Scannable(rows, day)
  BY FilesAreScannable
<1>2. QED
  BY <1>1, ScannableFilesKeepTheMostUrgent

\* The payers that an alert lists paid its account directly.
LEMMA ListedPayers ==
  ASSUME NEW rows \in Seq(Rows), NEW day, NEW alert \in FoundAlerts(rows, day),
         NEW payer \in ToSet(alert.payers)
  PROVE  <<payer, alert.gid>> \in PairsOf(UpTo(Loaded(rows), day))
<1> DEFINE history == UpTo(Loaded(rows), day)
           today == On(Loaded(rows), day)
<1>1. history \in Seq(Rows)
  BY HistoryRows
<1>2. PICK to : alert = AlertOf(history, today, to)
  BY DEF FoundAlerts
<1> HIDE DEF history, today
<1> DEFINE incoming == To(history, to)
           payers == SrcOf(incoming)
           listed == Sorted(payers)
<1>3. alert.gid = to /\ alert.payers = FirstOf(listed, PayersKept)
  BY <1>2 DEF AlertOf
<1>4. incoming \in Seq(Rows) /\ ToSet(incoming) = {r \in ToSet(history) : r.dst = to}
  BY <1>1, MaskedRows
<1>5. \A p \in payers : <<p, to>> \in PairsOf(history)
  <2> SUFFICES ASSUME NEW p \in payers
               PROVE  <<p, to>> \in PairsOf(history)
    OBVIOUS
  <2>1. PICK r \in ToSet(incoming) : p = r.src
    BY DEF SrcOf
  <2>2. r \in ToSet(history) /\ r.dst = to
    BY <1>4, <2>1
  <2>3. QED
    BY <2>1, <2>2 DEF PairsOf
<1>6. payers \in SUBSET Int /\ IsFiniteSet(payers)
  <2> HIDE DEF incoming
  <2>1. /\ IsFiniteSet(AccountsOf(incoming)) /\ AccountsOf(incoming) \subseteq Int
        /\ payers \subseteq AccountsOf(incoming)
    BY <1>4, AccountsOfRows DEF AccountsOf
  <2> HIDE DEF payers
  <2>2. QED
    BY <2>1, FS_Subset
<1> HIDE DEF payers
<1>7. ToSet(alert.payers) \subseteq payers
  <2> DEFINE count == Cardinality(payers)
             most == IF PayersKept < count THEN PayersKept ELSE count
  <2>1. /\ count \in Nat /\ DOMAIN listed = 1 .. count
        /\ \A n \in 1 .. count : listed[n] \in payers
    BY <1>6, SortedNumbers
  <2>3. listed \in [1 .. count -> ToSet(listed)]
    <3> DEFINE place(n) == CHOOSE x \in payers : Cardinality({y \in payers : y < x}) = n - 1
    <3>1. listed = [n \in 1 .. count |-> place(n)]
      BY DEF Sorted, Ranked
    <3> HIDE DEF place, count, listed
    <3>2. \A n \in 1 .. count : listed[n] \in ToSet(listed)
      BY <2>1 DEF ToSet
    <3>3. QED
      BY <3>1, <3>2
  <2>4. PayersKept \in Nat
    BY AlertRulesAssumption
  <2> HIDE DEF count, listed
  <2>5. /\ DOMAIN FirstOf(listed, PayersKept) = 1 .. most
        /\ \A n \in 1 .. most : FirstOf(listed, PayersKept)[n] = listed[n]
    BY <2>1, <2>3, <2>4, FirstRows
  <2>6. \A n \in 1 .. most : n \in 1 .. count
    BY <2>1, <2>4
  <2> HIDE DEF most
  <2>7. \A n \in DOMAIN alert.payers : alert.payers[n] \in payers
    BY <1>3, <2>1, <2>5, <2>6
  <2>8. QED
    BY <2>7 DEF ToSet
<1>8. QED
  BY <1>3, <1>5, <1>7 DEF history

\* A direct neighbour is within two steps.
LEMMA NeighboursAreAround ==
  ASSUME NEW pairs, NEW a, NEW b, a = b \/ <<a, b>> \in pairs
  PROVE  a \in Around(pairs, {b}, 2)
<1> DEFINE both == pairs \cup Turned(pairs)
<1>1. <<a, b>> \in pairs => <<b, a>> \in both
  BY DEF Turned
<1>2. Around(pairs, {b}, 2) = Within(both, {b}, 2)
  BY DEF Around
<1> HIDE DEF both
<1>3. Within(both, {b}, 0) = {b} /\ Within(both, {b}, 0 + 1) = Spread(both, Within(both, {b}, 0))
  BY WithinStep
<1>4. <<b, a>> \in both => a \in Spread(both, {b})
  BY SpreadFacts
<1>5. a = b => a \in Spread(both, {b})
  BY SpreadFacts
<1>6. a \in Within(both, {b}, 1)
  BY <1>1, <1>3, <1>4, <1>5
<1>7. Within(both, {b}, 1) \subseteq Within(both, {b}, 1 + 1)
  BY WithinGrows
<1>8. QED
  BY <1>2, <1>6, <1>7

\* Paths of one length are in the order of their accounts, the first difference counts.
LEMMA PathsAreOrdered ==
  ASSUME NEW k \in Nat, NEW p \in [1 .. k -> Int], NEW q \in [1 .. k -> Int],
         NEW r \in [1 .. k -> Int]
  PROVE  /\ ~ SmallerPath(p, p)
         /\ SmallerPath(p, q) /\ SmallerPath(q, r) => SmallerPath(p, r)
         /\ p = q \/ SmallerPath(p, q) \/ SmallerPath(q, p)
<1>1. \A n \in 1 .. k : p[n] \in Int /\ q[n] \in Int /\ r[n] \in Int
  OBVIOUS
<1>2. ~ SmallerPath(p, p)
  BY <1>1 DEF SmallerPath
<1>3. ASSUME SmallerPath(p, q), SmallerPath(q, r)
      PROVE  SmallerPath(p, r)
  <2>1. PICK n \in 1 .. k : p[n] < q[n] /\ \A i \in 1 .. (n - 1) : p[i] = q[i]
    BY <1>3 DEF SmallerPath
  <2>2. PICK m \in 1 .. k : q[m] < r[m] /\ \A i \in 1 .. (m - 1) : q[i] = r[i]
    BY <1>3 DEF SmallerPath
  <2>3. PICK d \in 1 .. k : d = IF n <= m THEN n ELSE m
    OBVIOUS
  <2>4. \A i \in 1 .. (d - 1) : i \in 1 .. (n - 1) /\ i \in 1 .. (m - 1)
    BY <2>3
  <2>5. \A i \in 1 .. (d - 1) : p[i] = r[i]
    BY <2>1, <2>2, <2>4
  <2>6. p[d] < r[d]
    <3>1. CASE n = m
      BY <1>1, <2>1, <2>2, <2>3, <3>1
    <3>2. CASE n < m
      <4>1. d = n /\ n \in 1 .. (m - 1)
        BY <2>3, <3>2
      <4>2. QED
        BY <2>1, <2>2, <4>1
    <3>3. CASE m < n
      <4>1. d = m /\ m \in 1 .. (n - 1)
        BY <2>3, <3>3
      <4>2. QED
        BY <2>1, <2>2, <4>1
    <3>4. QED
      BY <3>1, <3>2, <3>3
  <2>7. QED
    BY <2>5, <2>6 DEF SmallerPath
<1>4. ASSUME p # q
      PROVE  SmallerPath(p, q) \/ SmallerPath(q, p)
  <2> DEFINE apart == {n \in 1 .. k : p[n] # q[n]}
  <2>1. apart # {}
    BY <1>4, SMTT(30)
  <2>2. apart \in SUBSET Int /\ IsFiniteSet(apart)
    <3>1. IsFiniteSet(1 .. k) /\ apart \subseteq 1 .. k
      BY FS_Interval
    <3>2. QED
      BY <3>1, FS_Subset
  <2> HIDE DEF apart
  <2>3. PICK n : n \in apart /\ \A m \in apart : n <= m
    BY <2>1, <2>2, SmallestNumber
  <2>4. n \in 1 .. k /\ p[n] # q[n]
    BY <2>3 DEF apart
  <2>5. ASSUME NEW m \in 1 .. (n - 1) PROVE p[m] = q[m]
    <3>1. m \in 1 .. k /\ ~ n <= m
      BY <2>4
    <3>2. m \notin apart
      BY <2>3, <3>1
    <3>3. QED
      BY <3>1, <3>2 DEF apart
  <2>6. p[n] < q[n] \/ q[n] < p[n]
    BY <1>1, <2>4
  <2>7. QED
    BY <2>4, <2>5, <2>6 DEF SmallerPath
<1>5. QED
  BY <1>2, <1>3, <1>4

\* A table with each element of a set, in a strict total order.
LinedUp(S, before, table) ==
  /\ Cardinality(S) \in Nat /\ DOMAIN table = 1 .. Cardinality(S)
  /\ table = [n \in DOMAIN table |-> table[n]]
  /\ \A n \in DOMAIN table : table[n] \in S
  /\ \A x \in S : \E n \in DOMAIN table : table[n] = x
  /\ \A m, n \in DOMAIN table : m < n => table[m] \in before[table[n]]

\* What the first of such a table lack stands behind all of them, and they are as many as
\* there may be.
LEMMA ShownOrFull ==
  ASSUME NEW S, NEW before, NEW table, LinedUp(S, before, table), NEW most \in Nat, NEW x \in S
  PROVE  /\ FirstOf(table, most) \in Seq(S)
         /\ \/ x \in ToSet(FirstOf(table, most))
            \/ /\ Len(FirstOf(table, most)) = most
               /\ \A y \in ToSet(FirstOf(table, most)) : y \in before[x]
<1>1. PICK count \in Nat : DOMAIN table = 1 .. count /\ \A n \in 1 .. count : table[n] \in S
  BY DEF LinedUp
<1>2. PICK n \in 1 .. count : table[n] = x
  BY <1>1 DEF LinedUp
<1>3. table \in Seq(S) /\ Len(table) = count
  <2>1. table = [i \in 1 .. count |-> table[i]]
    BY <1>1 DEF LinedUp
  <2>2. table \in [1 .. count -> S]
    BY <1>1, <2>1
  <2>3. QED
    BY <2>2
<1>4. PICK shown \in Seq(S) : shown = FirstOf(table, most)
  BY <1>3, FirstOfSeq
<1>5. /\ Len(shown) = (IF most < count THEN most ELSE count)
      /\ \A i \in 1 .. Len(shown) : shown[i] = table[i]
  BY <1>3, <1>4, FirstOfSeq
<1>6. CASE n <= Len(shown)
  <2>1. n \in 1 .. Len(shown)
    BY <1>6
  <2>2. n \in DOMAIN shown /\ shown[n] = x
    BY <1>2, <1>5, <2>1
  <2>3. QED
    BY <1>4, <2>2 DEF ToSet
<1>7. CASE ~ (n <= Len(shown))
  <2>1. Len(shown) = most /\ most < n
    BY <1>5, <1>7
  <2>2. ASSUME NEW i \in 1 .. most PROVE shown[i] \in before[x]
    <3>1. i \in 1 .. count /\ i < n
      BY <2>1
    <3>2. table[i] \in before[table[n]]
      BY <1>1, <3>1 DEF LinedUp
    <3>3. QED
      BY <1>2, <1>5, <2>1, <3>2
  <2>3. \A y \in ToSet(shown) : y \in before[x]
    BY <2>1, <2>2 DEF ToSet
  <2>4. QED
    BY <1>4, <2>1, <2>3
<1>8. QED
  BY <1>4, <1>6, <1>7

\* Numbers that a sorted table shows.
LEMMA NumbersShown ==
  ASSUME NEW S \in SUBSET Int, IsFiniteSet(S), NEW most \in Nat, NEW x \in S
  PROVE  \/ x \in ToSet(FirstOf(Sorted(S), most))
         \/ /\ Len(FirstOf(Sorted(S), most)) = most
            /\ \A y \in ToSet(FirstOf(Sorted(S), most)) : y < x
<1> DEFINE before == [y \in S |-> {z \in S : z < y}]
<1>1. PICK table : table = Sorted(S)
  OBVIOUS
<1>2. /\ Cardinality(S) \in Nat /\ DOMAIN table = 1 .. Cardinality(S)
      /\ \A n \in DOMAIN table : table[n] \in S
      /\ \A y \in S : \E n \in DOMAIN table : table[n] = y
      /\ \A m, n \in DOMAIN table : m < n => table[m] < table[n]
  BY <1>1, SortedNumbers
<1>3. \A y, z \in S : z < y => z \in before[y]
  OBVIOUS
<1>4. \A y \in before[x] : y < x
  OBVIOUS
<1> HIDE DEF before
<1>5. LinedUp(S, before, table)
  <2> DEFINE place(n) == CHOOSE y \in S : Cardinality({z \in S : z < y}) = n - 1
  <2>3. table = [n \in 1 .. Cardinality(S) |-> place(n)]
    BY <1>1 DEF Sorted, Ranked
  <2> HIDE DEF place
  <2>1. table = [n \in DOMAIN table |-> table[n]]
    BY <2>3
  <2>2. QED
    BY <1>2, <1>3, <2>1 DEF LinedUp
<1>6. \/ x \in ToSet(FirstOf(table, most))
      \/ /\ Len(FirstOf(table, most)) = most
         /\ \A y \in ToSet(FirstOf(table, most)) : y \in before[x]
  BY <1>5, ShownOrFull
<1>7. QED
  BY <1>1, <1>4, <1>6

\* Pairs of accounts as a groupby orders them.
LEMMA PairsInTurn ==
  ASSUME NEW P \in SUBSET [1 .. 2 -> Int], IsFiniteSet(P)
  PROVE  LinedUp(P, [x \in P |-> {y \in P : SmallerPath(y, x)}], InTurn(P))
<1> DEFINE before == [x \in P |-> {y \in P : SmallerPath(y, x)}]
           table == InTurn(P)
<1>1. before \in [P -> SUBSET P]
  OBVIOUS
<1>2. \A x \in P : before[x] = {y \in P : SmallerPath(y, x)}
  OBVIOUS
<1>3. DOMAIN table = 1 .. Cardinality(P) /\ table = [n \in DOMAIN table |-> table[n]]
  <2> DEFINE place(n) == CHOOSE x \in P : Cardinality({y \in P : SmallerPath(y, x)}) = n - 1
  <2>1. table = [n \in 1 .. Cardinality(P) |-> place(n)]
    BY DEF InTurn, Ranked
  <2> HIDE DEF place, table
  <2>2. QED
    BY <2>1
<1>4. ASSUME NEW n \in 1 .. Cardinality(P), \E x \in P : Cardinality(before[x]) = n - 1
      PROVE  table[n] \in P /\ Cardinality(before[table[n]]) = n - 1
  <2>1. table[n] = CHOOSE x \in P : Cardinality({y \in P : SmallerPath(y, x)}) = n - 1
    BY DEF InTurn, Ranked
  <2>2. \E x \in P : Cardinality({y \in P : SmallerPath(y, x)}) = n - 1
    BY <1>4
  <2> HIDE DEF table
  <2>3. table[n] \in P /\ Cardinality({y \in P : SmallerPath(y, table[n])}) = n - 1
    BY <2>1, <2>2
  <2>4. QED
    BY <2>3
<1> HIDE DEF before, table
<1>5. ASSUME NEW x \in P, NEW y \in P, NEW z \in P
      PROVE  /\ ~ SmallerPath(x, x)
             /\ SmallerPath(z, y) /\ SmallerPath(y, x) => SmallerPath(z, x)
             /\ x = y \/ SmallerPath(x, y) \/ SmallerPath(y, x)
  <2>1. PICK k \in Nat : k = 2
    OBVIOUS
  <2>2. x \in [1 .. k -> Int] /\ y \in [1 .. k -> Int] /\ z \in [1 .. k -> Int]
    BY <2>1
  <2>3. /\ ~ SmallerPath(x, x)
        /\ x = y \/ SmallerPath(x, y) \/ SmallerPath(y, x)
    BY <2>2, PathsAreOrdered
  <2>4. SmallerPath(z, y) /\ SmallerPath(y, x) => SmallerPath(z, x)
    BY <2>2, PathsAreOrdered
  <2>5. QED
    BY <2>3, <2>4
<1>6. \A x \in P : x \notin before[x]
  BY <1>2, <1>5
<1>7. ASSUME NEW x \in P, NEW y \in P, y \in before[x]
      PROVE  before[y] \subseteq before[x]
  BY <1>2, <1>5, <1>7
<1>8. \A x, y \in P : x = y \/ x \in before[y] \/ y \in before[x]
  BY <1>2, <1>5
<1>9. /\ Cardinality(P) \in Nat
      /\ \A n \in DOMAIN table : table[n] \in P
      /\ \A x \in P : \E n \in DOMAIN table : table[n] = x
      /\ \A m, n \in DOMAIN table : m < n <=> table[m] \in before[table[n]]
  <2>1. StrictOrder(P, before)
    BY <1>1, <1>6, <1>7, <1>8 DEF StrictOrder
  <2>2. Placed(P, before, table)
    BY <1>3, <1>4 DEF Placed
  <2>3. QED
    BY <2>1, <2>2, TableOfASet
<1>10. LinedUp(P, before, table)
  BY <1>3, <1>9 DEF LinedUp
<1>11. QED
  BY <1>10 DEF before, table

PairsInside(pairs, ego) == {p \in pairs : p[1] \in ego /\ p[2] \in ego}

RouteIsOf(route, later, ego, inside) ==
  /\ ego \in SUBSET Int /\ IsFiniteSet(ego)
  /\ inside \in SUBSET [1 .. 2 -> Int] /\ IsFiniteSet(inside)
  /\ route.nodes = FirstOf(Sorted(ego), RouteSize)
  /\ route.edges = EdgeRows(later, FirstOf(InTurn(inside), RouteSize))

\* The accounts of a route, and the pairs of its transfers.
LEMMA RouteOfAFile ==
  ASSUME NEW rows \in Seq(Rows), NEW gid, NEW day, NEW later, later = UpTo(Loaded(rows), day),
         later \in Seq(Rows), gid \in AccountsOf(later), NEW ego, NEW inside,
         ego = Around(PairsOf(later), {gid}, 2),
         inside = PairsInside(PairsOf(later), ego)
  PROVE  RouteIsOf(MoneyRoute(rows, gid, day), later, ego, inside)
<1>1. PICK U, pairs : U = AccountsOf(later) /\ pairs = PairsOf(later)
  OBVIOUS
<1>2. U \in SUBSET Int /\ IsFiniteSet(U) /\ PairsAmong(pairs, U) /\ gid \in U
  BY <1>1, AccountsOfRows
<1>3. ego \subseteq U
  <2> DEFINE both == pairs \cup Turned(pairs)
  <2>1. Kept(both, U)
    BY <1>2 DEF Kept, PairsAmong, Turned
  <2>2. ego = Within(both, {gid}, 2)
    BY <1>1 DEF Around
  <2> HIDE DEF both
  <2>3. {gid} \in SUBSET U /\ 2 \in Nat
    BY <1>2
  <2>4. QED
    BY <2>1, <2>2, <2>3, WithinStays
<1>4. ego \in SUBSET Int /\ IsFiniteSet(ego)
  BY <1>2, <1>3, FS_Subset
<1>5. \A p \in pairs : p \in [1 .. 2 -> Int]
  <2> SUFFICES ASSUME NEW p \in pairs PROVE p \in [1 .. 2 -> Int]
    OBVIOUS
  <2>1. PICK r \in ToSet(later) : p = <<r.src, r.dst>>
    BY <1>1 DEF PairsOf
  <2>2. r.src \in U /\ r.dst \in U
    BY <1>1, AccountsOfRows
  <2>3. r.src \in Int /\ r.dst \in Int
    BY <1>2, <2>2
  <2>4. QED
    BY <2>1, <2>3
<1>6. IsFiniteSet(pairs)
  BY <1>1, PairsAreOfRows
<1>7. inside \in SUBSET [1 .. 2 -> Int] /\ IsFiniteSet(inside)
  <2>1. inside \subseteq pairs
    BY <1>1 DEF PairsInside
  <2>2. QED
    BY <1>5, <1>6, <2>1, FS_Subset
<1>8. /\ MoneyRoute(rows, gid, day).nodes = FirstOf(Sorted(ego), RouteSize)
      /\ MoneyRoute(rows, gid, day).edges = EdgeRows(later, FirstOf(InTurn(inside), RouteSize))
  BY DEF MoneyRoute, PairsInside
<1>9. QED
  BY <1>4, <1>7, <1>8 DEF RouteIsOf

\* The rows of the pairs have each of them once.
LEMMA RowsOfEdges ==
  ASSUME NEW T, NEW pairs \in Seq(T), NEW rows
  PROVE  /\ Len(EdgeRows(rows, pairs)) = Len(pairs)
         /\ \A e \in ToSet(EdgeRows(rows, pairs)) : e.pair \in ToSet(pairs)
         /\ \A p \in ToSet(pairs) : \E e \in ToSet(EdgeRows(rows, pairs)) : e.pair = p
<1> DEFINE edge(n) == [pair |-> pairs[n], sum |-> SumOfPair(rows, pairs[n]),
                       count |-> CountOfPair(rows, pairs[n])]
<1>1. PICK k \in Nat : k = Len(pairs) /\ DOMAIN pairs = 1 .. k
  OBVIOUS
<1>2. PICK edges : edges = EdgeRows(rows, pairs)
  OBVIOUS
<1>3. edges = [n \in 1 .. k |-> edge(n)]
  BY <1>1, <1>2 DEF EdgeRows
<1>4. \A n : edge(n).pair = pairs[n]
  OBVIOUS
<1> HIDE DEF edge
<1>5. DOMAIN edges = 1 .. k /\ Len(edges) = k /\ \A n \in 1 .. k : edges[n].pair = pairs[n]
  BY <1>3, <1>4
<1>6. ASSUME NEW e \in ToSet(edges)
      PROVE  e.pair \in ToSet(pairs)
  BY <1>1, <1>5 DEF ToSet
<1>7. ASSUME NEW p \in ToSet(pairs)
      PROVE  \E e \in ToSet(edges) : e.pair = p
  BY <1>1, <1>5 DEF ToSet
<1>8. QED
  BY <1>1, <1>2, <1>5, <1>6, <1>7

\* The accounts and the transfers within two steps of an account are on its route, unless
\* it is full of those before them.
OnRoute(route, gid) ==
  \/ gid \in ToSet(route.nodes)
  \/ /\ Len(route.nodes) = RouteSize
     /\ \A shown \in ToSet(route.nodes) : shown < gid

PairOnRoute(route, pair) ==
  \/ \E e \in ToSet(route.edges) : e.pair = pair
  \/ /\ Len(route.edges) = RouteSize
     /\ \A e \in ToSet(route.edges) : SmallerPath(e.pair, pair)

LEMMA NearIsOnRoute ==
  ASSUME NEW rows \in Seq(Rows), NEW gid, NEW day, NEW later, later = UpTo(Loaded(rows), day),
         later \in Seq(Rows), gid \in AccountsOf(later), NEW other,
         other = gid \/ <<other, gid>> \in PairsOf(later)
  PROVE  /\ OnRoute(MoneyRoute(rows, gid, day), other)
         /\ <<other, gid>> \in PairsOf(later) =>
              PairOnRoute(MoneyRoute(rows, gid, day), <<other, gid>>)
<1>1. PICK ego, inside, nodes, edges :
        /\ ego = Around(PairsOf(later), {gid}, 2)
        /\ inside = PairsInside(PairsOf(later), ego)
        /\ nodes = MoneyRoute(rows, gid, day).nodes /\ edges = MoneyRoute(rows, gid, day).edges
  OBVIOUS
<1>2. /\ ego \in SUBSET Int /\ IsFiniteSet(ego)
      /\ inside \in SUBSET [1 .. 2 -> Int] /\ IsFiniteSet(inside)
      /\ nodes = FirstOf(Sorted(ego), RouteSize)
      /\ edges = EdgeRows(later, FirstOf(InTurn(inside), RouteSize))
  <2>1. PICK near : near = Around(PairsOf(later), {gid}, 2)
    OBVIOUS
  <2>2. PICK among : among = PairsInside(PairsOf(later), near)
    OBVIOUS
  <2>3. RouteIsOf(MoneyRoute(rows, gid, day), later, near, among)
    BY <2>1, <2>2, RouteOfAFile
  <2>4. ego = near /\ inside = among
    BY <1>1, <2>1, <2>2
  <2>5. QED
    BY <1>1, <2>3, <2>4 DEF RouteIsOf
<1>3. RouteSize \in Nat
  BY AlertRulesAssumption
<1>4. other \in ego /\ gid \in ego
  <2>1. gid = gid
    OBVIOUS
  <2>2. gid \in Around(PairsOf(later), {gid}, 2)
    BY <2>1, NeighboursAreAround
  <2>3. other \in Around(PairsOf(later), {gid}, 2)
    BY NeighboursAreAround
  <2>4. QED
    BY <1>1, <2>2, <2>3
<1>5. OnRoute(MoneyRoute(rows, gid, day), other)
  <2>1. \/ other \in ToSet(nodes)
        \/ Len(nodes) = RouteSize /\ \A y \in ToSet(nodes) : y < other
    BY <1>2, <1>3, <1>4, NumbersShown
  <2>2. QED
    BY <1>1, <2>1 DEF OnRoute
<1>6. ASSUME <<other, gid>> \in PairsOf(later)
      PROVE  PairOnRoute(MoneyRoute(rows, gid, day), <<other, gid>>)
  <2>1. PICK pair : pair = <<other, gid>>
    OBVIOUS
  <2>2. pair \in inside
    <3>1. pair[1] = other /\ pair[2] = gid
      BY <2>1
    <3>2. QED
      BY <1>1, <1>4, <1>6, <2>1, <3>1 DEF PairsInside
  <2> DEFINE before == [x \in inside |-> {y \in inside : SmallerPath(y, x)}]
  <2>3. PICK table, shown : table = InTurn(inside) /\ shown = FirstOf(table, RouteSize)
    OBVIOUS
  <2>4. LinedUp(inside, before, table)
    BY <1>2, <2>3, PairsInTurn
  <2>5. \A y \in before[pair] : SmallerPath(y, pair)
    BY <2>2
  <2> HIDE DEF before
  <2>6. /\ shown \in Seq(inside)
        /\ \/ pair \in ToSet(shown)
           \/ Len(shown) = RouteSize /\ \A y \in ToSet(shown) : y \in before[pair]
    BY <1>3, <2>2, <2>3, <2>4, ShownOrFull
  <2>7. edges = EdgeRows(later, shown)
    BY <1>2, <2>3
  <2>8. /\ Len(edges) = Len(shown)
        /\ \A e \in ToSet(edges) : e.pair \in ToSet(shown)
        /\ \A p \in ToSet(shown) : \E e \in ToSet(edges) : e.pair = p
    BY <2>6, <2>7, RowsOfEdges
  <2>9. CASE pair \in ToSet(shown)
    BY <1>1, <2>1, <2>8, <2>9 DEF PairOnRoute
  <2>10. CASE Len(shown) = RouteSize /\ \A y \in ToSet(shown) : y \in before[pair]
    <3>1. Len(edges) = RouteSize /\ \A e \in ToSet(edges) : SmallerPath(e.pair, pair)
      BY <2>5, <2>8, <2>10
    <3>2. QED
      BY <1>1, <2>1, <3>1 DEF PairOnRoute
  <2>11. QED
    BY <2>6, <2>9, <2>10
<1>7. QED
  BY <1>5, <1>6

\* The accounts that a watchlist of an alert holds paid its account, or are it.
LEMMA WatchedAccounts ==
  ASSUME NEW rows \in Seq(Rows), NEW day, NEW alert \in FoundAlerts(rows, day),
         NEW gid \in Watchlist(alert)
  PROVE  gid = alert.gid \/ <<gid, alert.gid>> \in PairsOf(UpTo(Loaded(rows), day))
<1>1. gid = alert.gid \/ gid \in ToSet(alert.payers)
  BY DEF Watchlist
<1>2. QED
  BY <1>1, ListedPayers

\* The actions of one case fit each other, whatever rows come in between the scan and
\* the approval: the accounts of the watchlist and the transfers of the listed payers are
\* on the route, unless it is full of those before them, and the cluster holds them.
THEOREM EffectsAlwaysFit == Spec => EffectsFitTheAlert
<1> DEFINE Fit ==
             \A day \in Days : InRange(file, day) =>
               \A alert \in ToSet(Scan(file, day).selected) :
                 LET route == MoneyRoute(file', alert.gid, day)
                     clusters == Clusters(UpTo(Loaded(file), day))
                 IN /\ \A gid \in Watchlist(alert) :
                         /\ \/ gid \in ToSet(route.nodes)
                            \/ /\ Len(route.nodes) = RouteSize
                               /\ \A shown \in ToSet(route.nodes) : shown < gid
                         /\ clusters[gid] = alert.cluster
                    /\ \A payer \in ToSet(alert.payers) :
                         \/ \E e \in ToSet(route.edges) : e.pair = <<payer, alert.gid>>
                         \/ /\ Len(route.edges) = RouteSize
                            /\ \A e \in ToSet(route.edges) :
                                 SmallerPath(e.pair, <<payer, alert.gid>>)
<1>1. ASSUME FileTypeOK, Receive, NEW day \in Days, NEW alert \in ToSet(Scan(file, day).selected),
             NEW route, route = MoneyRoute(file', alert.gid, day)
      PROVE  /\ \A gid \in Watchlist(alert) :
                  OnRoute(route, gid) /\ Clusters(UpTo(Loaded(file), day))[gid] = alert.cluster
             /\ \A payer \in ToSet(alert.payers) : PairOnRoute(route, <<payer, alert.gid>>)
  <2>1. PICK r \in Rows : file' = Append(file, r)
    BY <1>1 DEF Receive
  <2>2. file \in Seq(Rows) /\ file' \in Seq(Rows) /\ ToSet(file) \subseteq ToSet(file')
    <3>1. file \in Seq(Rows)
      BY <1>1 DEF FileTypeOK
    <3>2. Append(file, r) \in Seq(Rows) /\ \A i \in DOMAIN file : /\ i \in DOMAIN Append(file, r)
                                                                  /\ Append(file, r)[i] = file[i]
      BY <3>1
    <3>3. QED
      BY <2>1, <3>1, <3>2 DEF ToSet
  <2> DEFINE history == UpTo(Loaded(file), day)
             today == On(Loaded(file), day)
  <2>3. alert \in FoundAlerts(file, day)
    <3> DEFINE scan == Scan(file, day)
    <3>2. \A n \in DOMAIN scan.selected : scan.selected[n] \in FoundAlerts(file, day)
      BY <2>2, ScansKeepTheMostUrgent DEF KeepsTheMostUrgent
    <3> HIDE DEF scan
    <3>3. alert \in ToSet(scan.selected)
      BY DEF scan
    <3>4. QED
      BY <3>2, <3>3 DEF ToSet
  <2>4. PICK later : later = UpTo(Loaded(file'), day)
    OBVIOUS
  <2>5. /\ history \in Seq(Rows) /\ later \in Seq(Rows)
        /\ ToSet(history) = {q \in ToSet(file) : q.day <= day}
        /\ ToSet(later) = {q \in ToSet(file') : q.day <= day}
    BY <2>2, <2>4, HistoryRows
  <2>6. PICK to \in AccountsOf(history) : alert = AlertOf(history, today, to)
    BY <2>3 DEF FoundAlerts
  <2>7. \A gid \in Watchlist(alert) : gid = alert.gid \/ <<gid, alert.gid>> \in PairsOf(history)
    BY <2>2, <2>3, WatchedAccounts
  <2>8. \A payer \in ToSet(alert.payers) : <<payer, alert.gid>> \in PairsOf(history)
    BY <2>2, <2>3, ListedPayers
  <2> HIDE DEF history, today
  <2>9. alert.gid = to /\ alert.cluster = Clusters(history)[to]
    BY <2>6 DEF AlertOf
  <2>10. PairsOf(history) \subseteq PairsOf(later) /\ AccountsOf(history) \subseteq AccountsOf(later)
    <3>1. ToSet(history) \subseteq ToSet(later)
      BY <2>2, <2>5
    <3>2. QED
      BY <3>1 DEF PairsOf, AccountsOf, SrcOf, DstOf
  <2>11. alert.gid \in AccountsOf(later)
    BY <2>6, <2>9, <2>10
  <2>12. ASSUME NEW other, other = alert.gid \/ <<other, alert.gid>> \in PairsOf(later)
         PROVE  /\ OnRoute(route, other)
                /\ <<other, alert.gid>> \in PairsOf(later) => PairOnRoute(route, <<other, alert.gid>>)
    <3>1. PICK gid : gid = alert.gid
      OBVIOUS
    <3>2. /\ OnRoute(MoneyRoute(file', gid, day), other)
          /\ <<other, gid>> \in PairsOf(later) =>
               PairOnRoute(MoneyRoute(file', gid, day), <<other, gid>>)
      BY <2>2, <2>4, <2>5, <2>11, <2>12, <3>1, NearIsOnRoute
    <3>3. QED
      BY <1>1, <3>1, <3>2
  <2>13. ASSUME NEW payer \in ToSet(alert.payers)
         PROVE  PairOnRoute(route, <<payer, alert.gid>>)
    BY <2>8, <2>10, <2>12
  <2>14. ASSUME NEW gid \in Watchlist(alert)
         PROVE  OnRoute(route, gid)
    BY <2>7, <2>10, <2>12
  <2>15. ASSUME NEW gid \in Watchlist(alert)
         PROVE  Clusters(history)[gid] = Clusters(history)[to]
    <3>1. CASE gid = to
      BY <3>1
    <3>2. CASE <<gid, to>> \in PairsOf(history)
      <4>1. PairsAmong(PairsOf(history), AccountsOf(history))
        BY <2>5, AccountsOfRows
      <4>2. gid \in AccountsOf(history)
        <5>1. <<gid, to>>[1] \in AccountsOf(history)
          BY <3>2, <4>1 DEF PairsAmong
        <5>2. QED
          BY <5>1
      <4>3. \A S : Parted(PairsOf(history), S) => (gid \in S <=> to \in S)
        <5>1. <<gid, to>>[1] = gid /\ <<gid, to>>[2] = to
          OBVIOUS
        <5>2. QED
          BY <3>2, <5>1 DEF Parted
      <4>4. Connected(PairsOf(history), gid, to)
        BY <4>3 DEF Connected, Parted
      <4>5. QED
        BY <2>5, <4>2, <4>4, ClustersAreConnected
    <3>3. QED
      BY <2>7, <2>9, <3>1, <3>2
  <2>16. QED
    BY <2>9, <2>13, <2>14, <2>15 DEF history
<1>2. ASSUME FileTypeOK, Receive
      PROVE  Fit
  <2> SUFFICES ASSUME NEW day \in Days, NEW alert \in ToSet(Scan(file, day).selected),
                      NEW route, route = MoneyRoute(file', alert.gid, day),
                      NEW clusters, clusters = Clusters(UpTo(Loaded(file), day))
               PROVE  /\ \A gid \in Watchlist(alert) :
                           /\ \/ gid \in ToSet(route.nodes)
                              \/ /\ Len(route.nodes) = RouteSize
                                 /\ \A shown \in ToSet(route.nodes) : shown < gid
                           /\ clusters[gid] = alert.cluster
                      /\ \A payer \in ToSet(alert.payers) :
                           \/ \E e \in ToSet(route.edges) : e.pair = <<payer, alert.gid>>
                           \/ /\ Len(route.edges) = RouteSize
                              /\ \A e \in ToSet(route.edges) :
                                   SmallerPath(e.pair, <<payer, alert.gid>>)
    BY DEF Fit
  <2>1. /\ \A gid \in Watchlist(alert) : OnRoute(route, gid) /\ clusters[gid] = alert.cluster
        /\ \A payer \in ToSet(alert.payers) : PairOnRoute(route, <<payer, alert.gid>>)
    BY <1>1, <1>2
  <2>2. QED
    BY <2>1 DEF OnRoute, PairOnRoute
<1>3. FileTypeOK /\ [Receive]_file => [Fit]_file
  BY <1>2
<1>4. Spec => [][Fit]_file
  <2> HIDE DEF Fit
  <2>1. QED
    BY <1>3, FileType, PTL DEF Spec
<1>5. QED
  BY <1>4 DEF EffectsFitTheAlert

-----------------------------------------------------------------------------
(* The graph of a file.                                                    *)

LEMMA AccountsAreFinite == IsFiniteSet(Accounts) /\ Accounts \subseteq Nat
<1> DEFINE src == [r \in Rows |-> r.src]
           dst == [r \in Rows |-> r.dst]
<1>1. Accounts = {src[r] : r \in Rows} \cup {dst[r] : r \in Rows}
  BY DEF Accounts
<1>2. \A r \in Rows : src[r] \in Nat /\ dst[r] \in Nat
  BY RowsAreTransfers
<1> HIDE DEF src, dst
<1>3. IsFiniteSet({src[r] : r \in Rows}) /\ IsFiniteSet({dst[r] : r \in Rows})
  BY FiniteImage, TransactionFileAssumption
<1>4. IsFiniteSet(Accounts)
  BY <1>1, <1>3, FS_Union
<1>5. Accounts \subseteq Nat
  BY <1>1, <1>2
<1>6. QED
  BY <1>4, <1>5

\* The order of the table of edges.
PairBefore(p, q) == p[1] < q[1] \/ (p[1] = q[1] /\ p[2] < q[2])

LEMMA PairsAreOrdered ==
  ASSUME NEW S, \A p \in S : /\ p[1] \in Int /\ p[2] \in Int
                             /\ \A q \in S : p[1] = q[1] /\ p[2] = q[2] => p = q
  PROVE  StrictOrder(S, [q \in S |-> {p \in S : PairBefore(p, q)}])
<1> DEFINE before == [q \in S |-> {p \in S : PairBefore(p, q)}]
<1>1. \A p, q \in S : PairBefore(p, q) =>
         \A r \in S : PairBefore(r, p) => PairBefore(r, q)
  BY DEF PairBefore
<1>2. \A p \in S : ~ PairBefore(p, p)
  BY DEF PairBefore
<1>3. \A p, q \in S : p = q \/ PairBefore(p, q) \/ PairBefore(q, p)
  BY DEF PairBefore
<1>4. before \in [S -> SUBSET S]
  OBVIOUS
<1>5. \A q \in S : before[q] = {p \in S : PairBefore(p, q)}
  OBVIOUS
<1> HIDE DEF before
<1>6. QED
  BY <1>1, <1>2, <1>3, <1>4, <1>5 DEF StrictOrder, before

\* The rows of the table of edges are the pairs of the file, with their sums.
LEMMA EdgesAreOfPairs ==
  ASSUME file \in Seq(Rows)
  PROVE  /\ \A p \in PairsOf(file) : /\ p[1] \in Int /\ p[2] \in Int /\ p = <<p[1], p[2]>>
         /\ ToSet(Edges) = {Edge(p) : p \in PairsOf(file)}
         /\ \E pairs : /\ IsFiniteSet(DOMAIN Edges) /\ Renames(DOMAIN Edges, pairs, PairsOf(file))
                       /\ \A n \in DOMAIN Edges : Edges[n] = Edge(pairs[n])
<1> DEFINE S == PairsOf(file)
           before == [q \in S |-> {p \in S : PairBefore(p, q)}]
           pairs == Ranked(S, LAMBDA p, q : PairBefore(p, q))
<1>1. IsFiniteSet(S)
  BY PairsAreOfRows
<1>2. \A p \in S : /\ p[1] \in Int /\ p[2] \in Int /\ p = <<p[1], p[2]>>
  <2> SUFFICES ASSUME NEW p \in S
               PROVE  p[1] \in Int /\ p[2] \in Int /\ p = <<p[1], p[2]>>
    OBVIOUS
  <2>1. PICK r \in ToSet(file) : p = <<r.src, r.dst>>
    BY DEF PairsOf
  <2>2. r \in Rows
    BY DEF ToSet
  <2>3. r.src \in Int /\ r.dst \in Int
    BY <2>2, RowsAreTransfers
  <2>4. QED
    BY <2>1, <2>3
<1>3. /\ DOMAIN pairs = 1 .. Cardinality(S)
      /\ \A n \in 1 .. Cardinality(S) :
           pairs[n] = CHOOSE x \in S : Cardinality({y \in S : PairBefore(y, x)}) = n - 1
  BY DEF Ranked
<1>4. Edges = [n \in DOMAIN pairs |-> Edge(pairs[n])]
  BY DEF Edges, PairBefore
<1>5. \A q \in S : before[q] = {p \in S : PairBefore(p, q)}
  OBVIOUS
<1> HIDE DEF S, before, pairs
<1>6. StrictOrder(S, before)
  <2>1. \A p, q \in S : p[1] = q[1] /\ p[2] = q[2] => p = q
    BY <1>2
  <2>2. QED
    BY <1>2, <2>1, PairsAreOrdered DEF before
<1>7. Placed(S, before, pairs)
  <2>1. ASSUME NEW n \in 1 .. Cardinality(S), \E x \in S : Cardinality(before[x]) = n - 1
        PROVE  pairs[n] \in S /\ Cardinality(before[pairs[n]]) = n - 1
    <3>1. \E x \in S : Cardinality({y \in S : PairBefore(y, x)}) = n - 1
      BY <1>5, <2>1
    <3>2. pairs[n] \in S /\ Cardinality({y \in S : PairBefore(y, pairs[n])}) = n - 1
      BY <1>3, <3>1
    <3>3. QED
      BY <1>5, <3>2
  <2>2. QED
    BY <1>3, <2>1 DEF Placed
<1>8. /\ \A n \in DOMAIN pairs : pairs[n] \in S
      /\ \A p \in S : \E n \in DOMAIN pairs : pairs[n] = p
      /\ \A m, n \in DOMAIN pairs : pairs[m] = pairs[n] => m = n
      /\ Cardinality(S) \in Nat
  BY <1>1, <1>6, <1>7, TableOfASet
<1>9. ToSet(Edges) = {Edge(p) : p \in S}
  <2>1. ToSet(Edges) = {Edge(pairs[n]) : n \in DOMAIN pairs}
    BY <1>4 DEF ToSet
  <2>2. QED
    BY <1>8, <2>1
<1>10. DOMAIN Edges = DOMAIN pairs /\ \A n \in DOMAIN Edges : Edges[n] = Edge(pairs[n])
  BY <1>4
<1>11. IsFiniteSet(DOMAIN Edges)
  <2>1. IsFiniteSet(1 .. Cardinality(S))
    BY <1>8, FS_Interval
  <2>2. QED
    BY <1>3, <1>10, <2>1
<1>12. Renames(DOMAIN Edges, pairs, S)
  BY <1>8, <1>10 DEF Renames
<1>13. QED
  BY <1>2, <1>9, <1>10, <1>11, <1>12 DEF S

\* The graph of the tables that go with the file.
LEMMA MoneyIsTheFile ==
  ASSUME file \in Seq(Rows)
  PROVE  /\ Money.nodes = Accounts
         /\ DOMAIN Money.sum = PairsOf(file) /\ DOMAIN Money.n = PairsOf(file)
         /\ \A p \in PairsOf(file) : /\ Money.sum[p] = SumOfPair(file, p)
                                     /\ Money.n[p] = CountOfPair(file, p)
<1> DEFINE S == PairsOf(file)
<1>1. Money.nodes = Accounts
  <2> DEFINE listed == Sorted(Accounts)
  <2>1. /\ DOMAIN listed = 1 .. Cardinality(Accounts)
        /\ \A n \in DOMAIN listed : listed[n] \in Accounts
        /\ \A gid \in Accounts : \E n \in DOMAIN listed : listed[n] = gid
    <3>1. Accounts \in SUBSET Int /\ IsFiniteSet(Accounts)
      BY AccountsAreFinite
    <3>2. QED
      BY <3>1, SortedNumbers
  <2>2. Nodes = [n \in 1 .. Cardinality(Accounts) |->
                   [gid |-> listed[n], depth |-> DepthOf[listed[n]]]]
    BY DEF Nodes
  <2> HIDE DEF listed
  <2>3. DOMAIN Nodes = DOMAIN listed /\ \A n \in DOMAIN listed : Nodes[n].gid = listed[n]
    BY <2>1, <2>2
  <2>4. GidsOf(Nodes) = {Nodes[n].gid : n \in DOMAIN Nodes}
    BY DEF GidsOf, ToSet
  <2>5. GidsOf(Nodes) = Accounts
    BY <2>1, <2>3, <2>4
  <2>6. QED
    BY <2>5 DEF Money, BuildGraph
<1>2. /\ \A p \in S : p[1] \in Int /\ p[2] \in Int /\ p = <<p[1], p[2]>>
      /\ ToSet(Edges) = {Edge(p) : p \in S}
  BY EdgesAreOfPairs
<1>3. \A p \in S : /\ <<Edge(p).src, Edge(p).dst>> = p
                   /\ Edge(p).sum = SumOfPair(file, p) /\ Edge(p).n = CountOfPair(file, p)
  BY <1>2 DEF Edge
<1>4. PairsOf(Edges) = S
  <2>1. PairsOf(Edges) = {<<e.src, e.dst>> : e \in {Edge(p) : p \in S}}
    BY <1>2 DEF PairsOf
  <2> HIDE DEF S
  <2>2. QED
    BY <1>3, <2>1
<1> DEFINE edge(pair) == CHOOSE e \in ToSet(Edges) : <<e.src, e.dst>> = pair
<1>5. \A p \in S : edge(p) = Edge(p)
  <2> SUFFICES ASSUME NEW p \in S
               PROVE  edge(p) = Edge(p)
    OBVIOUS
  <2>1. Edge(p) \in ToSet(Edges) /\ <<Edge(p).src, Edge(p).dst>> = p
    BY <1>2, <1>3
  <2>2. edge(p) \in ToSet(Edges) /\ <<edge(p).src, edge(p).dst>> = p
    BY <2>1
  <2>3. PICK q \in S : edge(p) = Edge(q)
    BY <1>2, <2>2
  <2>4. q = p
    BY <1>3, <2>2, <2>3
  <2>5. QED
    BY <2>3, <2>4
<1>6. /\ Money.sum = [p \in PairsOf(Edges) |-> edge(p).sum]
      /\ Money.n = [p \in PairsOf(Edges) |-> edge(p).n]
  BY DEF Money, BuildGraph
<1> HIDE DEF edge, S
<1>7. QED
  BY <1>1, <1>3, <1>4, <1>5, <1>6 DEF S

LEMMA SumOfNumbers ==
  ASSUME NEW S, IsFiniteSet(S), NEW f, \A x \in S : f[x] \in Nat
  PROVE  /\ Sum(f, S) \in Nat
         /\ Sum(f, S) = 0 => \A x \in S : f[x] = 0
<1> DEFINE none == [x \in S |-> 0]
<1>1. \A T \in SUBSET S : Sum(f, T) \in Nat
  <2> SUFFICES ASSUME NEW T \in SUBSET S
               PROVE  Sum(f, T) \in Nat
    OBVIOUS
  <2>1. IsFiniteSet(T)
    BY FS_Subset
  <2>2. \A x \in T : none[x] = 0 /\ none[x] \in Int /\ f[x] \in Int /\ none[x] <= f[x]
    OBVIOUS
  <2> HIDE DEF none
  <2>3. Sum(none, T) = 0
    BY <2>1, <2>2, SumOfNothing
  <2>4. Sum(none, T) <= Sum(f, T)
    BY <2>1, <2>2, SumAtMost
  <2>5. Sum(f, T) \in Int
    BY <2>1, <2>2, SumIsNumber
  <2>6. QED
    BY <2>3, <2>4, <2>5
<1>2. ASSUME NEW x \in S, Sum(f, S) = 0
      PROVE  f[x] = 0
  <2>1. S \ {x} \in SUBSET S
    OBVIOUS
  <2>2. Sum(f, S \ {x}) \in Nat
    BY <1>1, <2>1
  <2>3. \A y \in S : f[y] \in Int
    OBVIOUS
  <2>4. Sum(f, S) = Sum(f, S \ {x}) + f[x]
    BY <2>3, SumWithout
  <2>5. f[x] \in Nat
    OBVIOUS
  <2>6. QED
    BY <1>2, <2>2, <2>4, <2>5
<1>3. S \in SUBSET S
  OBVIOUS
<1>4. QED
  BY <1>1, <1>2, <1>3

\* Money is positive: a table of transfers with no money has no rows.
LEMMA TotalOfTransfers ==
  ASSUME NEW rows \in Seq(Rows)
  PROVE  Total(rows) \in Nat /\ (Total(rows) = 0 => rows = <<>>)
<1>1. /\ DOMAIN rows = 1 .. Len(rows) /\ Len(rows) \in Nat /\ IsFiniteSet(DOMAIN rows)
      /\ \A i \in DOMAIN rows : rows[i] \in Rows
  BY TableDomain
<1>2. Total(rows) = Sum(Amounts(rows), DOMAIN rows)
  BY RowsAreTransfers, TotalIsSum
<1>3. \A i \in DOMAIN rows : Amounts(rows)[i] \in Nat /\ Amounts(rows)[i] # 0
  BY <1>1, RowsAreTransfers DEF Amounts
<1>4. Total(rows) \in Nat /\ (Total(rows) = 0 => \A i \in DOMAIN rows : Amounts(rows)[i] = 0)
  BY <1>1, <1>2, <1>3, SumOfNumbers
<1>5. ASSUME Total(rows) = 0
      PROVE  rows = <<>>
  <2>1. DOMAIN rows = {}
    BY <1>3, <1>4, <1>5
  <2>2. Len(rows) = 0
    BY <1>1, <2>1
  <2>3. QED
    BY <2>2, EmptySeq
<1>6. QED
  BY <1>4, <1>5

LEMMA VolumeOfChunks ==
  ASSUME NEW chunks \in Seq(Chunk)
  PROVE  VolumeOf(chunks) \in Nat
<1>1. /\ IsFiniteSet(DOMAIN chunks)
      /\ \A i \in DOMAIN chunks : chunks[i] \in Chunk
  BY TableDomain
<1>2. VolumeOf(chunks) = Sum(Volumes(chunks), DOMAIN chunks)
  BY ChunkVolumes, VolumeIsSum
<1>3. \A i \in DOMAIN chunks : Volumes(chunks)[i] \in Nat
  BY <1>1 DEF Volumes, Chunk
<1>4. QED
  BY <1>1, <1>2, <1>3, SumOfNumbers

\* The volume of some of the chunks is a part of all.
LEMMA VolumeOfSome ==
  ASSUME NEW chunks \in Seq(Chunk), NEW places \in SUBSET DOMAIN chunks
  PROVE  VolumeOf(Picked(chunks, places)) \in Nat
         /\ VolumeOf(Picked(chunks, places)) <= VolumeOf(chunks)
<1> DEFINE picked == Picked(chunks, places)
           count == Cardinality(places)
           kept == Sorted(places)
           f == Volumes(chunks)
           g == Volumes(picked)
           D == DOMAIN chunks
<1>1. /\ IsFiniteSet(places) /\ count \in Nat /\ picked \in Seq(Chunk)
      /\ DOMAIN picked = 1 .. count
      /\ \A n \in 1 .. count : kept[n] \in places /\ picked[n] = chunks[kept[n]]
  BY PickedRows
<1>2. /\ \A i \in places : \E n \in 1 .. count : kept[n] = i
      /\ \A m, n \in 1 .. count : kept[m] = kept[n] => m = n
  <2>1. places \in SUBSET Int
    BY TableDomain
  <2>2. QED
    BY <1>1, <2>1, SortedNumbers
<1>3. VolumeOf(picked) = Sum(g, 1 .. count)
  BY <1>1, ChunkVolumes, VolumeIsSum
<1>4. IsFiniteSet(D) /\ VolumeOf(chunks) = Sum(f, D)
  BY ChunkVolumes, TableDomain, VolumeIsSum
<1>5. \A i \in D : f[i] = chunks[i].volume /\ f[i] \in Nat
  <2>1. \A i \in D : chunks[i] \in Chunk
    BY TableDomain
  <2>2. QED
    BY <2>1 DEF Volumes, Chunk
<1>6. \A n \in 1 .. count : g[n] = picked[n].volume
  BY <1>1 DEF Volumes
<1>7. \A n \in 1 .. count : g[n] = f[kept[n]] /\ g[n] \in Int
  BY <1>1, <1>5, <1>6
<1>8. places \in SUBSET D
  OBVIOUS
<1> HIDE DEF picked, count, kept, f, g, D
<1> DEFINE numbers == 1 .. count
<1>9. IsFiniteSet(numbers)
  BY <1>1, FS_Interval
<1>10. Renames(numbers, kept, places)
  BY <1>1, <1>2 DEF Renames
<1>11. \A n \in numbers : g[n] \in Int /\ f[kept[n]] = g[n]
  BY <1>7
<1> HIDE DEF numbers
<1>12. Sum(g, numbers) = Sum(f, places)
  BY <1>9, <1>10, <1>11, SumRenamed
<1>13. \A i \in D : f[i] \in Int
  BY <1>5
<1>14. Sum(f, D) = Sum(f, D \ places) + Sum(f, places)
  BY <1>4, <1>8, <1>13, SumSplit
<1>15. IsFiniteSet(D \ places) /\ IsFiniteSet(places)
  BY <1>1, <1>4, FS_Difference
<1>16. Sum(f, D \ places) \in Nat /\ Sum(f, places) \in Nat
  BY <1>5, <1>8, <1>15, SumOfNumbers
<1>17. VolumeOf(picked) = Sum(f, places)
  BY <1>3, <1>12 DEF numbers
<1>18. QED
  BY <1>4, <1>14, <1>16, <1>17 DEF picked

LEMMA MostIsNumber ==
  ASSUME NEW met, IsFiniteSet(met)
  PROVE  MostOnADay(met) \in Nat
<1> DEFINE dayOf == [m \in met |-> m[1]]
           days == {dayOf[m] : m \in met}
           count == [day \in days |-> Cardinality({m \in met : m[1] = day})]
           counts == {0} \cup {count[day] : day \in days}
<1>1. IsFiniteSet(days)
  <2> HIDE DEF dayOf
  <2>1. QED
    BY FiniteImage
<1>2. MostOnADay(met) = Max(counts)
  <2>1. days = {m[1] : m \in met}
    OBVIOUS
  <2>2. {count[day] : day \in days} = {Cardinality({m \in met : m[1] = day}) : day \in days}
    OBVIOUS
  <2> HIDE DEF days, count
  <2>3. QED
    BY <2>1, <2>2 DEF MostOnADay
<1>3. \A day \in days : count[day] \in Nat
  <2> SUFFICES ASSUME NEW day \in days
               PROVE  Cardinality({m \in met : m[1] = day}) \in Nat
    OBVIOUS
  <2>1. {m \in met : m[1] = day} \in SUBSET met
    OBVIOUS
  <2>2. QED
    BY <2>1, FS_Subset, FS_CardinalityType
<1> HIDE DEF days, count
<1>4. IsFiniteSet(counts) /\ counts \in SUBSET Int /\ counts # {} /\ counts \subseteq Nat
  <2> DEFINE some == {count[day] : day \in days}
  <2>1. IsFiniteSet(some)
    BY <1>1, FiniteImage
  <2>2. some \subseteq Nat
    BY <1>3
  <2> HIDE DEF some
  <2>3. IsFiniteSet({0})
    BY FS_Singleton
  <2>4. IsFiniteSet({0} \cup some)
    BY <2>1, <2>3, FS_Union
  <2>5. counts = {0} \cup some
    BY DEF some
  <2> HIDE DEF counts
  <2>6. QED
    BY <2>2, <2>4, <2>5
<1> HIDE DEF counts
<1>5. Max(counts) \in counts
  BY <1>4, GreatestNumber
<1>6. QED
  BY <1>2, <1>4, <1>5

LEMMA RowsAreFinite ==
  ASSUME NEW rows \in Seq(Rows)
  PROVE  /\ IsFiniteSet(ToSet(rows)) /\ IsFiniteSet(DaysOf(rows))
         /\ IsFiniteSet({<<r.day, r.src>> : r \in ToSet(rows)})
         /\ IsFiniteSet({<<r.day, r.dst>> : r \in ToSet(rows)})
         /\ (rows = <<>>) = (ToSet(rows) = {})
<1> DEFINE S == ToSet(rows)
           day == [r \in S |-> r.day]
           paid == [r \in S |-> <<r.day, r.src>>]
           got == [r \in S |-> <<r.day, r.dst>>]
<1>1. /\ DOMAIN rows = 1 .. Len(rows) /\ Len(rows) \in Nat /\ IsFiniteSet(DOMAIN rows)
      /\ \A i \in DOMAIN rows : rows[i] \in Rows
  BY TableDomain
<1>2. S = {rows[i] : i \in DOMAIN rows}
  BY DEF ToSet
<1>3. IsFiniteSet(S)
  BY <1>1, <1>2, FiniteImage
<1>4. (rows = <<>>) = (S = {})
  <2>1. ASSUME rows # <<>> PROVE S # {}
    <3>1. Len(rows) # 0
      BY <2>1, EmptySeq
    <3>2. 1 \in DOMAIN rows
      BY <1>1, <3>1
    <3>3. QED
      BY <1>2, <3>2
  <2>2. ASSUME rows = <<>> PROVE S = {}
    BY <2>2 DEF ToSet
  <2>3. QED
    BY <2>1, <2>2
<1>5. /\ DaysOf(rows) = {day[r] : r \in S}
      /\ {<<r.day, r.src>> : r \in S} = {paid[r] : r \in S}
      /\ {<<r.day, r.dst>> : r \in S} = {got[r] : r \in S}
  BY DEF DaysOf
<1> HIDE DEF S, day, paid, got
<1>6. /\ IsFiniteSet({day[r] : r \in S}) /\ IsFiniteSet({paid[r] : r \in S})
      /\ IsFiniteSet({got[r] : r \in S})
  BY <1>3, FiniteImage
<1>7. QED
  BY <1>3, <1>4, <1>5, <1>6 DEF S

\* The numbers that the roles read, and what an account without transfers in, or out, has.
LEMMA AccountFeatures ==
  ASSUME file \in Seq(Rows), NEW gid \in Accounts,
         NEW a, a = Features(Money, file, gid)
  PROVE  /\ {a.inDeg, a.outDeg, a.inSum, a.outSum, a.total, a.inTx, a.outTx, a.seedReach,
             a.component, a.daysIn, a.daysOut, a.payers, a.recipients} \subseteq Nat
         /\ {a.flows.matched, a.flows.observed, a.flows.fast} \subseteq Nat
         /\ a.flows.fast <= a.flows.matched /\ a.flows.matched <= a.flows.observed
         /\ a.passValid = (gid \notin Seeds /\ a.inSum > 0)
         /\ a.seed = (gid \in Seeds)
         /\ a.reliable => gid \notin Seeds
         /\ a.inSum = 0 => ~ a.reliable /\ a.inDeg = 0
         /\ a.outSum = 0 =>
              a.outDeg = 0 /\ a.daysOut = 0 /\ a.flows.matched = 0 /\ a.flows.observed = 0
<1> DEFINE ins == InPairs(Money, gid)
           outs == OutPairs(Money, gid)
           incoming == To(file, gid)
           outgoing == From(file, gid)
           m == Matched(file, gid)
           fast == VolumeOf(Where(m.chunks, LAMBDA c : c.held <= FastDays))
           met == {<<r.day, r.src>> : r \in ToSet(incoming)}
           gave == {<<r.day, r.dst>> : r \in ToSet(outgoing)}
           near == Around(DOMAIN Money.sum, {gid}, Cardinality(Money.nodes))
           reach == SeedReach(Money, gid)
<1>1. /\ a.inDeg = Cardinality(ins) /\ a.outDeg = Cardinality(outs)
      /\ a.total = a.inSum + a.outSum
      /\ a.seed = (gid \in Seeds) /\ a.passValid = (gid \notin Seeds /\ a.inSum > 0)
      /\ a.seedReach = Cardinality(reach) /\ a.component = Cardinality(near)
      /\ a.daysIn = Cardinality(DaysOf(incoming)) /\ a.daysOut = Cardinality(DaysOf(outgoing))
      /\ a.payers = MostOnADay(met) /\ a.recipients = MostOnADay(gave)
      /\ a.reliable = (gid \notin Seeds /\ incoming # <<>>)
      /\ a.flows.matched = VolumeOf(m.chunks) /\ a.flows.observed = m.observed
      /\ a.flows.unmatched = m.unmatched /\ a.flows.fast = fast
  BY DEF Features, FifoMetrics
<1>2. /\ Money.nodes = Accounts /\ DOMAIN Money.sum = PairsOf(file)
      /\ \A p \in PairsOf(file) : /\ Money.sum[p] = SumOfPair(file, p)
                                  /\ Money.n[p] = CountOfPair(file, p)
  BY MoneyIsTheFile
<1>3. /\ incoming \in Seq(Rows) /\ ToSet(incoming) = {r \in ToSet(file) : r.dst = gid}
      /\ outgoing \in Seq(Rows) /\ ToSet(outgoing) = {r \in ToSet(file) : r.src = gid}
  BY MaskedRows
<1>4. /\ a.inSum = Total(incoming) /\ a.inTx = Len(incoming)
      /\ a.outSum = Total(outgoing) /\ a.outTx = Len(outgoing)
      /\ a.outSum = a.flows.matched + a.flows.unmatched
  BY <1>2, FeaturesAreTheFile
<1>5. m \in Matches /\ VolumeOf(m.chunks) + m.unmatched = m.observed
  BY RowsAreTransfers, MatchedOrMissing
<1>6. ins = {p \in PairsOf(file) : p[2] = gid} /\ outs = {p \in PairsOf(file) : p[1] = gid}
  BY <1>2 DEF InPairs, OutPairs
<1>7. fast \in Nat /\ fast <= VolumeOf(m.chunks)
  <2>1. m.chunks \in Seq(Chunk)
    BY <1>5 DEF Matches
  <2> DEFINE chunks == m.chunks
             places == {i \in DOMAIN chunks : chunks[i].held <= FastDays}
  <2>2. fast = VolumeOf(Picked(chunks, places))
    BY DEF Where
  <2>3. places \in SUBSET DOMAIN chunks
    OBVIOUS
  <2>4. chunks = m.chunks
    OBVIOUS
  <2> HIDE DEF chunks, places, fast
  <2>5. QED
    BY <2>1, <2>2, <2>3, <2>4, VolumeOfSome
<1>8. IsFiniteSet(near) /\ IsFiniteSet(reach) /\ IsFiniteSet(ins) /\ IsFiniteSet(outs)
  <2>1. IsFiniteSet(PairsOf(file))
    BY PairsAreOfRows
  <2>2. ins \in SUBSET PairsOf(file) /\ outs \in SUBSET PairsOf(file)
    BY <1>6
  <2>3. reach \in SUBSET Accounts
    BY <1>2 DEF SeedReach
  <2>4. near \in SUBSET Accounts
    <3> DEFINE U == Accounts
    <3>1. PairsAmong(PairsOf(file), U)
      BY AccountsOfRows DEF PairsAmong
    <3>2. IsFiniteSet(U) /\ gid \in U
      BY AccountsAreFinite
    <3> HIDE DEF U
    <3>3. Around(PairsOf(file), {gid}, Cardinality(U)) \subseteq U
      BY <3>1, <3>2, Components
    <3>4. QED
      BY <1>2, <3>3 DEF U
  <2> HIDE DEF ins, outs, reach, near
  <2>5. QED
    BY <2>1, <2>2, <2>3, <2>4, AccountsAreFinite, FS_Subset
<1> HIDE DEF incoming, outgoing, m, fast, near, reach, ins, outs
<1>9. /\ IsFiniteSet(DaysOf(incoming)) /\ IsFiniteSet(DaysOf(outgoing))
      /\ IsFiniteSet(met) /\ IsFiniteSet(gave)
  BY <1>3, RowsAreFinite
<1>10. /\ Cardinality(DaysOf(incoming)) \in Nat /\ Cardinality(DaysOf(outgoing)) \in Nat
       /\ Cardinality(near) \in Nat /\ Cardinality(reach) \in Nat
       /\ Cardinality(ins) \in Nat /\ Cardinality(outs) \in Nat
  BY <1>8, <1>9, FS_CardinalityType
<1>11. MostOnADay(met) \in Nat /\ MostOnADay(gave) \in Nat
  <2> HIDE DEF met, gave
  <2>1. QED
    BY <1>9, MostIsNumber
<1>12. /\ Total(incoming) \in Nat /\ (Total(incoming) = 0 => incoming = <<>>)
       /\ Total(outgoing) \in Nat /\ (Total(outgoing) = 0 => outgoing = <<>>)
       /\ Len(incoming) \in Nat /\ Len(outgoing) \in Nat
  BY <1>3, TotalOfTransfers, LenProperties
<1>13. VolumeOf(m.chunks) \in Nat /\ m.unmatched \in Nat /\ m.observed \in Nat
  BY <1>5, VolumeOfChunks DEF Matches
<1>14. ASSUME incoming = <<>>
       PROVE  ins = {}
  <2>1. ToSet(incoming) = {}
    BY <1>3, <1>14, RowsAreFinite
  <2>2. \A r \in ToSet(file) : r.dst # gid
    BY <1>3, <2>1
  <2>3. QED
    BY <1>6, <2>2 DEF PairsOf
<1>15. ASSUME outgoing = <<>>
       PROVE  outs = {} /\ DaysOf(outgoing) = {}
  <2>1. ToSet(outgoing) = {}
    BY <1>3, <1>15, RowsAreFinite
  <2>2. \A r \in ToSet(file) : r.src # gid
    BY <1>3, <2>1
  <2>3. QED
    BY <1>6, <2>1, <2>2 DEF PairsOf, DaysOf
<1>16. Cardinality({}) = 0
  BY FS_EmptySet
<1>17. a.inSum = 0 => ~ a.reliable /\ a.inDeg = 0
  BY <1>1, <1>4, <1>12, <1>14, <1>16
<1>18. a.outSum = 0 => a.outDeg = 0 /\ a.daysOut = 0
  BY <1>1, <1>4, <1>12, <1>15, <1>16
<1>19. a.outSum = 0 => a.flows.matched = 0 /\ a.flows.observed = 0
  BY <1>1, <1>4, <1>5, <1>13
<1>20. {a.inDeg, a.outDeg, a.inSum, a.outSum, a.total, a.inTx, a.outTx, a.seedReach,
        a.component, a.daysIn, a.daysOut, a.payers, a.recipients} \subseteq Nat
  <2>1. a.inSum \in Nat /\ a.outSum \in Nat /\ a.inTx \in Nat /\ a.outTx \in Nat
    BY <1>4, <1>12
  <2>2. a.total \in Nat
    BY <1>1, <2>1
  <2>3. QED
    BY <1>1, <1>10, <1>11, <2>1, <2>2
<1>21. {a.flows.matched, a.flows.observed, a.flows.fast} \subseteq Nat
  BY <1>1, <1>7, <1>13
<1>22. a.reliable => gid \notin Seeds
  BY <1>1
<1>23. a.flows.fast <= a.flows.matched /\ a.flows.matched <= a.flows.observed
  BY <1>1, <1>5, <1>7, <1>13
<1>24. QED
  BY <1>1, <1>17, <1>18, <1>19, <1>20, <1>21, <1>22, <1>23

-----------------------------------------------------------------------------
(* Signals and scores.                                                     *)

LEMMA TwoNumbers ==
  ASSUME NEW m \in Int, NEW n \in Int
  PROVE  /\ Min({m, n}) \in {m, n} /\ Min({m, n}) <= m /\ Min({m, n}) <= n
         /\ Max({m, n}) \in {m, n} /\ Max({m, n}) >= m /\ Max({m, n}) >= n
         /\ Min({m, n}) \in Int /\ Max({m, n}) \in Int
<1> DEFINE S == {m, n}
<1>1. S \in SUBSET Int /\ S # {} /\ m \in S /\ n \in S
  OBVIOUS
<1>2. IsFiniteSet(S)
  <2>1. S = {m} \cup {n} /\ IsFiniteSet({m}) /\ IsFiniteSet({n})
    BY FS_Singleton
  <2> HIDE DEF S
  <2>2. QED
    BY <2>1, FS_Union
<1> HIDE DEF S
<1>3. Min(S) \in S /\ \A y \in S : Min(S) <= y
  BY <1>1, <1>2, SmallestNumber
<1>4. Max(S) \in S /\ \A y \in S : Max(S) >= y
  BY <1>1, <1>2, GreatestNumber
<1>5. QED
  BY <1>1, <1>3, <1>4 DEF S

\* A balance is a share, and nothing where one side has nothing.
LEMMA Balances ==
  ASSUME NEW l \in Nat, NEW r \in Nat
  PROVE  Balance(l, r) \in 0 .. Unit /\ (l = 0 \/ r = 0 => Balance(l, r) = 0)
<1>1. PICK low, high : low = Min({l, r}) /\ high = Max({l, r})
  OBVIOUS
<1>2. /\ low \in {l, r} /\ low <= l /\ low <= r
      /\ high \in {l, r} /\ high >= l /\ high >= r
      /\ low \in Int /\ high \in Int
  <2>1. l \in Int /\ r \in Int
    OBVIOUS
  <2>2. QED
    BY <1>1, <2>1, TwoNumbers
<1>3. Balance(l, r) = IF l = 0 /\ r = 0 THEN 0 ELSE (Unit * low) \div high
  BY <1>1 DEF Balance
<1>4. CASE l = 0 /\ r = 0
  BY <1>3, <1>4, UnitAssumption
<1>5. CASE ~ (l = 0 /\ r = 0)
  <2>1. high \in Nat \ {0} /\ low \in Nat /\ low <= high
    BY <1>2, <1>5
  <2>2. Unit * low \in Nat /\ Unit * low <= Unit * high /\ Unit \in Nat
    BY <2>1, UnitAssumption
  <2>3. (Unit * low) \div high \in 0 .. Unit
    BY <2>1, <2>2, Quotients
  <2>4. l = 0 \/ r = 0 => (Unit * low) \div high = 0
    <3> SUFFICES ASSUME l = 0 \/ r = 0
                 PROVE  (Unit * low) \div high = 0
      OBVIOUS
    <3>1. low = 0
      BY <1>2, <2>1
    <3>2. Unit * low = 0
      BY <3>1, UnitAssumption
    <3>3. 0 \div high = 0
      BY <2>1
    <3>4. QED
      BY <3>2, <3>3
  <2>5. QED
    BY <1>3, <1>5, <2>3, <2>4
<1>6. QED
  BY <1>4, <1>5

\* The ranks of the accounts by a feature.
LEMMA RankedColumns ==
  ASSUME file \in Seq(Rows), NEW gid \in Accounts,
         NEW name \in {"inDeg", "outDeg", "inSum", "outSum", "total", "inTx", "outTx",
                       "seedReach", "component", "payers", "recipients"}
  PROVE  /\ Percentile(Column(Table, name), gid) \in 0 .. Unit
         /\ \A ifLevel \in 0 .. Unit : RankScaled(Column(Table, name), gid, ifLevel) \in 0 .. Unit
<1> DEFINE value == Column(Table, name)
<1>1. DOMAIN value = Accounts /\ \A g \in Accounts : value[g] = Features(Money, file, g)[name]
  BY DEF Column, Table
<1>2. ASSUME NEW g \in Accounts
      PROVE  value[g] \in Int
  <2>1. PICK a : a = Features(Money, file, g)
    OBVIOUS
  <2>2. {a.inDeg, a.outDeg, a.inSum, a.outSum, a.total, a.inTx, a.outTx, a.seedReach,
         a.component, a.daysIn, a.daysOut, a.payers, a.recipients} \subseteq Nat
    BY <2>1, AccountFeatures
  <2>3. a[name] \in Nat
    BY <2>2
  <2>4. QED
    BY <1>1, <2>1, <2>3
<1> HIDE DEF value
<1>3. IsFiniteSet(DOMAIN value) /\ gid \in DOMAIN value
      /\ \A g \in DOMAIN value : value[g] \in Int
  BY <1>1, <1>2, AccountsAreFinite
<1>4. 0 \in 0 .. Unit /\ value[gid] <= value[gid]
  BY <1>3, UnitAssumption
<1>5. QED
  BY <1>3, <1>4, RanksKeepTheOrder DEF value

\* The ranks of what the libraries compute.
LEMMA RankedOutside ==
  ASSUME NEW outside \in Outside, NEW gid \in Accounts
  PROVE  Percentile(outside, gid) \in 0 .. Unit /\ outside[gid] \in 0 .. Unit
<1>1. DOMAIN outside = Accounts /\ \A g \in Accounts : outside[g] \in 0 .. Unit
  BY UnitAssumption DEF Outside
<1>2. /\ IsFiniteSet(DOMAIN outside) /\ gid \in DOMAIN outside
      /\ \A g \in DOMAIN outside : outside[g] \in Int
  <2>1. \A x \in 0 .. Unit : x \in Int
    BY UnitAssumption
  <2>2. QED
    BY <1>1, <2>1, AccountsAreFinite
<1>3. 0 \in 0 .. Unit /\ outside[gid] <= outside[gid]
  BY <1>2, UnitAssumption
<1>4. QED
  BY <1>1, <1>2, <1>3, RanksKeepTheOrder

LEMMA Shares ==
  ASSUME NEW part \in Nat, NEW whole \in Nat \ {0}, part <= whole
  PROVE  (Unit * part) \div whole \in 0 .. Unit
BY Quotients, UnitAssumption

\* The signals of one account are shares, and none where nothing was observed.
LEMMA SignalsOfAccount ==
  ASSUME file \in Seq(Rows), NEW gid \in Accounts, NEW outside \in Outside,
         NEW a, a = Features(Money, file, gid),
         NEW s, s = Signals(Table, outside, gid)
  PROVE  /\ {s.in_degree, s.in_transactions, s.in_amount, s.authority, s.out_degree,
             s.out_transactions, s.out_amount, s.hub, s.seed_reach, s.component_structure,
             s.pagerank, s.betweenness, s.cross_cluster_bridge, s.daily_payers,
             s.daily_fan_out, s.degree_balance, s.amount_balance, s.balanced_flow,
             s.temporal_activity, s.observed_input, s.no_observed_output, s.turnover,
             s.retention, s.recipients_to_payers, s.pass_through, s.fast_forward,
             s.matched_out} \subseteq 0 .. Unit
         /\ a.seed \/ a.inSum = 0 \/ a.outSum = 0 =>
              s.pass_through = 0 /\ s.fast_forward = 0 /\ s.matched_out = 0
                /\ s.temporal_activity = 0
         /\ a.inSum = 0 \/ a.outSum = 0 => s.degree_balance = 0 /\ s.amount_balance = 0
         /\ a.inSum = 0 => s.observed_input = 0 /\ s.retention = 0
         /\ a.outDeg # 0 => s.no_observed_output = 0
<1> DEFINE ranked(name) == Percentile(Column(Table, name), gid)
           matched == IF a.flows.observed = 0 THEN 0
                      ELSE (Unit * a.flows.matched) \div a.flows.observed
           fast == IF a.flows.matched = 0 THEN 0
                   ELSE (Unit * a.flows.fast) \div a.flows.matched
           onADay(name) == RankScaled(Column(Table, name), gid,
                                      IF a[name] = 0 THEN 0 ELSE Unit \div 2)
           gap == Max({a.outSum - a.inSum, a.inSum - a.outSum})
           more == Max({0, a.outDeg - a.inDeg})
           degrees == Max({1, a.inDeg, a.outDeg})
           like == Max({0, Unit - (Unit * gap) \div a.inSum})
<1>1. Table[gid] = a
  BY DEF Table
<1>2. /\ {a.inDeg, a.outDeg, a.inSum, a.outSum, a.total, a.inTx, a.outTx, a.seedReach,
          a.component, a.daysIn, a.daysOut, a.payers, a.recipients} \subseteq Nat
      /\ {a.flows.matched, a.flows.observed, a.flows.fast} \subseteq Nat
      /\ a.flows.fast <= a.flows.matched /\ a.flows.matched <= a.flows.observed
      /\ a.passValid = (gid \notin Seeds /\ a.inSum > 0)
      /\ a.seed = (gid \in Seeds)
      /\ a.reliable => gid \notin Seeds
      /\ a.inSum = 0 => ~ a.reliable /\ a.inDeg = 0
      /\ a.outSum = 0 =>
           a.outDeg = 0 /\ a.daysOut = 0 /\ a.flows.matched = 0 /\ a.flows.observed = 0
  BY AccountFeatures, ZenonT(30)
<1>3. /\ s.in_degree = ranked("inDeg") /\ s.in_transactions = ranked("inTx")
      /\ s.in_amount = ranked("inSum") /\ s.authority = ranked("inSum")
      /\ s.out_degree = ranked("outDeg") /\ s.out_transactions = ranked("outTx")
      /\ s.out_amount = ranked("outSum") /\ s.hub = ranked("outSum")
      /\ s.seed_reach = ranked("seedReach") /\ s.component_structure = ranked("component")
      /\ s.turnover = ranked("total")
      /\ s.pagerank = Percentile(outside, gid) /\ s.betweenness = Percentile(outside, gid)
      /\ s.cross_cluster_bridge = outside[gid]
      /\ s.retention = (IF a.reliable /\ a.inSum > 0 THEN Unit - matched ELSE 0)
      /\ s.daily_payers = onADay("payers") /\ s.daily_fan_out = onADay("recipients")
      /\ s.recipients_to_payers = (Unit * more) \div degrees
      /\ s.pass_through = (IF a.passValid THEN like ELSE 0)
      /\ s.fast_forward = (IF a.reliable THEN fast ELSE 0)
      /\ s.matched_out = (IF a.reliable THEN matched ELSE 0)
      /\ s.degree_balance = Balance(a.inDeg, a.outDeg)
      /\ s.amount_balance = Balance(a.inSum, a.outSum)
      /\ s.balanced_flow = Balance(a.inSum, a.outSum)
      /\ s.temporal_activity = (IF a.reliable THEN Balance(a.daysIn, a.daysOut) ELSE 0)
      /\ s.observed_input = (IF a.inDeg > 0 /\ a.inSum > 0 THEN Unit ELSE 0)
      /\ s.no_observed_output = (IF a.outDeg = 0 THEN Unit ELSE 0)
  BY <1>1 DEF Signals
<1>4. PICK inDeg, outDeg, inSum, outSum, daysIn, daysOut \in Nat :
        /\ inDeg = a.inDeg /\ outDeg = a.outDeg /\ inSum = a.inSum /\ outSum = a.outSum
        /\ daysIn = a.daysIn /\ daysOut = a.daysOut
  BY <1>2
<1>5. PICK took, saw, sped \in Nat :
        /\ took = a.flows.matched /\ saw = a.flows.observed /\ sped = a.flows.fast
        /\ sped <= took /\ took <= saw
  BY <1>2
<1>6. /\ {ranked("inDeg"), ranked("inTx"), ranked("inSum"), ranked("outDeg"), ranked("outTx"),
          ranked("outSum"), ranked("seedReach"), ranked("component"), ranked("total")}
           \subseteq 0 .. Unit
      /\ {onADay("payers"), onADay("recipients")} \subseteq 0 .. Unit
  <2>1. \A x \in {"payers", "recipients"} : (IF a[x] = 0 THEN 0 ELSE Unit \div 2) \in 0 .. Unit
    BY UnitAssumption
  <2>2. QED
    BY <2>1, RankedColumns
<1>7. Percentile(outside, gid) \in 0 .. Unit /\ outside[gid] \in 0 .. Unit
  BY RankedOutside
<1>8. /\ Balance(inDeg, outDeg) \in 0 .. Unit
      /\ (inDeg = 0 \/ outDeg = 0 => Balance(inDeg, outDeg) = 0)
      /\ Balance(inSum, outSum) \in 0 .. Unit
      /\ (inSum = 0 \/ outSum = 0 => Balance(inSum, outSum) = 0)
      /\ Balance(daysIn, daysOut) \in 0 .. Unit
      /\ (daysIn = 0 \/ daysOut = 0 => Balance(daysIn, daysOut) = 0)
  BY Balances
<1>9. /\ matched \in 0 .. Unit /\ fast \in 0 .. Unit
      /\ (saw = 0 => matched = 0) /\ (took = 0 => fast = 0)
  <2>1. 0 \in 0 .. Unit
    BY UnitAssumption
  <2>2. QED
    BY <1>5, <2>1, Shares
<1>10. gap \in Nat /\ (outSum = 0 => gap = inSum)
  <2>1. PICK x, y \in Int : x = outSum - inSum /\ y = inSum - outSum
    OBVIOUS
  <2>2. /\ Max({x, y}) \in Int /\ Max({x, y}) \in {x, y}
        /\ Max({x, y}) >= x /\ Max({x, y}) >= y
    BY TwoNumbers
  <2>3. gap = Max({x, y})
    BY <1>4, <2>1
  <2> HIDE DEF gap
  <2>4. QED
    BY <2>1, <2>2, <2>3
<1>11. more \in Nat /\ more <= outDeg
  <2>1. PICK none, x \in Int : none = 0 /\ x = outDeg - inDeg
    OBVIOUS
  <2>2. Max({none, x}) \in {none, x} /\ Max({none, x}) >= none /\ Max({none, x}) \in Int
    BY TwoNumbers
  <2>3. more = Max({none, x})
    BY <1>4, <2>1
  <2> HIDE DEF more
  <2>4. QED
    BY <2>1, <2>2, <2>3
<1>12. degrees \in Nat \ {0} /\ outDeg <= degrees
  <2>1. PICK S : S = {1, inDeg, outDeg}
    OBVIOUS
  <2>2. S \in SUBSET Int /\ S \in SUBSET Nat /\ S # {} /\ 1 \in S
    BY <2>1
  <2>3. IsFiniteSet(S)
    <3>1. S = {1} \cup {inDeg} \cup {outDeg}
      BY <2>1
    <3>2. QED
      BY <3>1, FS_Singleton, FS_Union
  <2>4. Max(S) \in S /\ \A y \in S : Max(S) >= y
    BY <2>2, <2>3, GreatestNumber
  <2>5. Max(S) \in Nat \ {0}
    <3>1. Max(S) \in Nat /\ Max(S) >= 1
      BY <2>2, <2>4
    <3>2. QED
      BY <3>1
  <2>6. degrees = Max(S)
    BY <1>4, <2>1
  <2>7. outDeg \in S
    BY <2>1
  <2> HIDE DEF degrees
  <2>8. QED
    BY <2>4, <2>5, <2>6, <2>7
<1>13. inSum > 0 => like \in 0 .. Unit /\ (outSum = 0 => like = 0)
  <2> SUFFICES ASSUME inSum > 0
               PROVE  like \in 0 .. Unit /\ (outSum = 0 => like = 0)
    OBVIOUS
  <2>1. PICK quotient \in Nat : quotient = (Unit * gap) \div inSum
    <3> HIDE DEF gap
    <3>1. \A x \in Nat, y \in Nat \ {0} : (Unit * x) \div y \in Nat
      BY UnitAssumption
    <3>2. inSum \in Nat \ {0}
      OBVIOUS
    <3>3. QED
      BY <1>10, <3>1, <3>2
  <2>2. PICK x \in Int : x = Unit - quotient /\ x <= Unit /\ 0 <= Unit
    BY UnitAssumption
  <2> DEFINE best == Max({0, x})
  <2>3. like = best
    BY <1>4, <2>1, <2>2
  <2>4. best \in Int /\ best \in {0, x} /\ best >= 0
    <3>1. PICK none \in Int : none = 0
      OBVIOUS
    <3>2. Max({none, x}) \in Int /\ Max({none, x}) \in {none, x} /\ Max({none, x}) >= none
      BY TwoNumbers
    <3>3. QED
      BY <3>1, <3>2
  <2>5. ASSUME outSum = 0 PROVE x = 0
    <3>1. gap = inSum
      BY <1>10, <2>5
    <3> HIDE DEF gap
    <3>2. (Unit * inSum) \div inSum = Unit
      BY UnitAssumption
    <3>3. QED
      BY <2>1, <2>2, <3>1, <3>2, UnitAssumption
  <2> HIDE DEF like, best
  <2>6. best \in 0 .. Unit
    BY <2>2, <2>4, UnitAssumption
  <2>7. QED
    BY <2>3, <2>4, <2>5, <2>6
<1> HIDE DEF ranked, matched, fast, onADay, gap, more, degrees, like
<1>14. (Unit * more) \div degrees \in 0 .. Unit
  BY <1>11, <1>12, Shares
<1>15. Unit \in 0 .. Unit /\ 0 \in 0 .. Unit /\ Unit \in Int
  BY UnitAssumption
<1>16. {s.in_degree, s.in_transactions, s.in_amount, s.authority, s.out_degree,
        s.out_transactions, s.out_amount, s.hub, s.seed_reach, s.component_structure,
        s.pagerank, s.betweenness, s.cross_cluster_bridge, s.daily_payers,
        s.daily_fan_out, s.turnover} \subseteq 0 .. Unit
  BY <1>3, <1>6, <1>7
<1>17. {s.degree_balance, s.amount_balance, s.balanced_flow,
        s.temporal_activity, s.observed_input, s.no_observed_output} \subseteq 0 .. Unit
  BY <1>3, <1>4, <1>8, <1>15
<1>18. {s.retention, s.fast_forward, s.matched_out} \subseteq 0 .. Unit
  <2>1. Unit - matched \in 0 .. Unit
    BY <1>9, UnitAssumption
  <2>2. QED
    BY <1>3, <1>9, <1>15, <2>1
<1>19. s.recipients_to_payers \in 0 .. Unit
  BY <1>3, <1>14
<1>20. s.pass_through \in 0 .. Unit
  <2>1. a.passValid => inSum > 0
    BY <1>2, <1>4
  <2>2. a.passValid => like \in 0 .. Unit
    BY <1>13, <2>1
  <2>3. QED
    BY <1>3, <1>15, <2>2
<1>21. a.seed \/ a.inSum = 0 => ~ a.passValid /\ ~ a.reliable
  <2>1. a.inSum = 0 => ~ (a.inSum > 0)
    BY <1>4
  <2>2. QED
    BY <1>2, <2>1, Zenon
<1>22. ASSUME a.outSum = 0
       PROVE  /\ s.pass_through = 0 /\ s.fast_forward = 0 /\ s.matched_out = 0
              /\ s.temporal_activity = 0 /\ s.degree_balance = 0 /\ s.amount_balance = 0
  <2>1. outSum = 0 /\ outDeg = 0 /\ daysOut = 0 /\ took = 0 /\ saw = 0
    BY <1>2, <1>4, <1>5, <1>22
  <2>2. a.passValid => inSum > 0
    BY <1>2, <1>4
  <2>3. s.pass_through = 0
    BY <1>3, <1>13, <2>1, <2>2
  <2>4. s.fast_forward = 0 /\ s.matched_out = 0
    BY <1>3, <1>9, <2>1
  <2>5. QED
    BY <1>3, <1>4, <1>8, <2>1, <2>3, <2>4
<1>23. ASSUME a.inSum = 0
       PROVE  /\ s.degree_balance = 0 /\ s.amount_balance = 0
              /\ s.observed_input = 0 /\ s.retention = 0
  <2>1. inSum = 0 /\ inDeg = 0 /\ ~ (a.inSum > 0)
    BY <1>2, <1>4, <1>23
  <2>2. QED
    BY <1>3, <1>4, <1>8, <2>1
<1>24. ASSUME a.seed \/ a.inSum = 0
       PROVE  /\ s.pass_through = 0 /\ s.fast_forward = 0 /\ s.matched_out = 0
              /\ s.temporal_activity = 0
  BY <1>3, <1>21, <1>24
<1>25. a.outDeg # 0 => s.no_observed_output = 0
  BY <1>3
<1>26. {s.in_degree, s.in_transactions, s.in_amount, s.authority, s.out_degree,
        s.out_transactions, s.out_amount, s.hub, s.seed_reach, s.component_structure,
        s.pagerank, s.betweenness, s.cross_cluster_bridge, s.daily_payers,
        s.daily_fan_out, s.degree_balance, s.amount_balance, s.balanced_flow,
        s.temporal_activity, s.observed_input, s.no_observed_output, s.turnover,
        s.retention, s.recipients_to_payers, s.pass_through, s.fast_forward,
        s.matched_out} \subseteq 0 .. Unit
  BY <1>16, <1>17, <1>18, <1>19, <1>20
<1>27. QED
  BY <1>22, <1>23, <1>24, <1>25, <1>26

LEMMA SevenAreFinite ==
  ASSUME NEW a, NEW b, NEW c, NEW d, NEW e, NEW f, NEW g
  PROVE  IsFiniteSet({a, b, c, d, e, f, g})
<1>1. IsFiniteSet({a}) /\ IsFiniteSet({b}) /\ IsFiniteSet({c}) /\ IsFiniteSet({d})
      /\ IsFiniteSet({e}) /\ IsFiniteSet({f}) /\ IsFiniteSet({g})
  BY FS_Singleton
<1>2. \A S, T : IsFiniteSet(S) /\ IsFiniteSet(T) => IsFiniteSet(S \cup T)
  BY FS_Union
<1>3. IsFiniteSet({a} \cup {b}) /\ IsFiniteSet({c} \cup {d}) /\ IsFiniteSet({e} \cup {f})
  BY <1>1, <1>2
<1>4. IsFiniteSet(({a} \cup {b}) \cup ({c} \cup {d})) /\ IsFiniteSet(({e} \cup {f}) \cup {g})
  BY <1>1, <1>2, <1>3
<1>5. IsFiniteSet((({a} \cup {b}) \cup ({c} \cup {d})) \cup (({e} \cup {f}) \cup {g}))
  BY <1>2, <1>4
<1>6. {a, b, c, d, e, f, g} = (({a} \cup {b}) \cup ({c} \cup {d})) \cup (({e} \cup {f}) \cup {g})
  OBVIOUS
<1>7. QED
  BY <1>5, <1>6

LEMMA SixAreFinite ==
  ASSUME NEW a, NEW b, NEW c, NEW d, NEW e, NEW f
  PROVE  IsFiniteSet({a, b, c, d, e, f})
<1>1. IsFiniteSet({a}) /\ IsFiniteSet({b}) /\ IsFiniteSet({c}) /\ IsFiniteSet({d})
      /\ IsFiniteSet({e}) /\ IsFiniteSet({f})
  BY FS_Singleton
<1>2. \A S, T : IsFiniteSet(S) /\ IsFiniteSet(T) => IsFiniteSet(S \cup T)
  BY FS_Union
<1>3. IsFiniteSet({a} \cup {b}) /\ IsFiniteSet({c} \cup {d}) /\ IsFiniteSet({e} \cup {f})
  BY <1>1, <1>2
<1>4. IsFiniteSet(({a} \cup {b}) \cup ({c} \cup {d}))
  BY <1>2, <1>3
<1>5. IsFiniteSet((({a} \cup {b}) \cup ({c} \cup {d})) \cup ({e} \cup {f}))
  BY <1>2, <1>3, <1>4
<1>6. {a, b, c, d, e, f} = (({a} \cup {b}) \cup ({c} \cup {d})) \cup ({e} \cup {f})
  OBVIOUS
<1>7. QED
  BY <1>5, <1>6

LEMMA KeysOfRoles ==
  ASSUME NEW role \in Roles
  PROVE  /\ DOMAIN RoleWeights[role] = RoleWeightKeys[role]
         /\ IsFiniteSet(RoleWeightKeys[role])
         /\ \A name \in RoleWeightKeys[role] : RoleWeights[role][name] \in Nat
<1>1. role \in DOMAIN RoleWeights /\ DOMAIN RoleWeights[role] = RoleWeightKeys[role]
  BY RoleEngineAssumption DEF ConfigAccepted, Roles
<1>2. \A name \in DOMAIN RoleWeights[role] : RoleWeights[role][name] \in Nat
  <2>1. RoleWeights[role] \in {RoleWeights[r] : r \in DOMAIN RoleWeights} \cup {PriorityWeights}
    BY <1>1
  <2>2. QED
    BY <2>1, RoleEngineAssumption DEF ConfigAccepted
<1>3. IsFiniteSet(RoleWeightKeys[role])
  <2>1. RoleWeightKeys[role] \in
          {RoleWeightKeys["consolidator"], RoleWeightKeys["transit"], RoleWeightKeys["distributor"],
           RoleWeightKeys["terminal"], RoleWeightKeys["coordinator"]}
    BY RolesListed
  <2>2. IsFiniteSet(RoleWeightKeys["consolidator"])
    BY SevenAreFinite DEF RoleWeightKeys
  <2>3. IsFiniteSet(RoleWeightKeys["transit"])
    BY SevenAreFinite DEF RoleWeightKeys
  <2>4. IsFiniteSet(RoleWeightKeys["distributor"])
    BY SixAreFinite DEF RoleWeightKeys
  <2>5. IsFiniteSet(RoleWeightKeys["coordinator"])
    BY SixAreFinite DEF RoleWeightKeys
  <2>6. IsFiniteSet(RoleWeightKeys["terminal"])
    BY SixAreFinite DEF RoleWeightKeys
  <2>7. QED
    BY <2>1, <2>2, <2>3, <2>4, <2>5, <2>6
<1>4. QED
  BY <1>1, <1>2, <1>3

\* What each signal adds to a score.
Added(role, s) ==
  [name \in DOMAIN RoleWeights[role] |-> RoleWeights[role][name] * s[name]]

LEMMA WeightedScore ==
  ASSUME file \in Seq(Rows), NEW gid \in Accounts, NEW outside \in Outside,
         NEW s, s = Signals(Table, outside, gid), NEW role \in Roles
  PROVE  /\ Weighted(RoleWeights[role], s) = 100 * Sum(Added(role, s), RoleWeightKeys[role])
         /\ Sum(Added(role, s), RoleWeightKeys[role]) \in Int
         /\ \A name \in RoleWeightKeys[role] :
              /\ Added(role, s)[name] = RoleWeights[role][name] * s[name]
              /\ Added(role, s)[name] \in Int
<1> DEFINE K == RoleWeightKeys[role]
           added == Added(role, s)
<1>1. DOMAIN RoleWeights[role] = K /\ IsFiniteSet(K)
      /\ \A name \in K : RoleWeights[role][name] \in Nat
  BY KeysOfRoles
<1>2. \A name \in K : s[name] \in Int
  <2>1. /\ {s.in_degree, s.in_transactions, s.in_amount, s.authority, s.out_degree,
             s.out_transactions, s.out_amount, s.hub, s.seed_reach, s.component_structure,
             s.pagerank, s.betweenness, s.cross_cluster_bridge, s.daily_payers,
             s.daily_fan_out, s.degree_balance, s.amount_balance, s.balanced_flow,
             s.temporal_activity, s.observed_input, s.no_observed_output, s.turnover,
             s.retention, s.recipients_to_payers, s.pass_through, s.fast_forward,
             s.matched_out} \subseteq 0 .. Unit
    BY SignalsOfAccount, ZenonT(30)
  <2>2. \A x \in 0 .. Unit : x \in Int
    BY UnitAssumption
  <2>3. /\ \A name \in RoleWeightKeys["consolidator"] : s[name] \in Int
        /\ \A name \in RoleWeightKeys["transit"] : s[name] \in Int
    BY <2>1, <2>2, ZenonT(30) DEF RoleWeightKeys
  <2>4. /\ \A name \in RoleWeightKeys["distributor"] : s[name] \in Int
        /\ \A name \in RoleWeightKeys["terminal"] : s[name] \in Int
        /\ \A name \in RoleWeightKeys["coordinator"] : s[name] \in Int
    BY <2>1, <2>2, ZenonT(30) DEF RoleWeightKeys
  <2>5. QED
    BY <2>3, <2>4, RolesListed
<1>3. \A name \in K : added[name] = RoleWeights[role][name] * s[name] /\ added[name] \in Int
  BY <1>1, <1>2 DEF Added
<1>4. DOMAIN added = K
  BY <1>1 DEF Added
<1>5. Weighted(RoleWeights[role], s) = 100 * Sum(added, DOMAIN added)
  BY DEF Weighted, Added, Sum
<1> HIDE DEF K, added
<1>6. Sum(added, K) \in Int
  BY <1>1, <1>3, SumIsNumber
<1>7. QED
  BY <1>3, <1>4, <1>5, <1>6 DEF K, added

LEMMA LimitsAreNumbers ==
  RoleThreshold \in Nat /\ TerminalCap \in Nat /\ SeedPenalty \in Nat
<1>1. \A x \in {RoleThreshold, TerminalCap, SeedPenalty} : x \in 0 .. 100
  BY RoleEngineAssumption DEF ConfigAccepted
<1>2. RoleThreshold \in 0 .. 100 /\ TerminalCap \in 0 .. 100 /\ SeedPenalty \in 0 .. 100
  BY <1>1
<1>3. QED
  BY <1>2

LEMMA WeightedScores ==
  ASSUME file \in Seq(Rows), NEW gid \in Accounts, NEW outside \in Outside,
         NEW s, s = Signals(Table, outside, gid)
  PROVE  \A role \in Roles : Weighted(RoleWeights[role], s) \in Int
<1> SUFFICES ASSUME NEW role \in Roles
             PROVE  Weighted(RoleWeights[role], s) \in Int
  OBVIOUS
<1>1. PICK sum : sum = Sum(Added(role, s), RoleWeightKeys[role])
  OBVIOUS
<1>2. Weighted(RoleWeights[role], s) = 100 * sum /\ sum \in Int
  BY <1>1, WeightedScore
<1>3. QED
  BY <1>2

LEMMA ScoresAreNumbers ==
  ASSUME file \in Seq(Rows), NEW gid \in Accounts, NEW outside \in Outside,
         NEW s, s = Signals(Table, outside, gid), NEW a
  PROVE  CoreScores(a, s) \in [Roles -> Int]
<1>1. /\ SeedPenalty \in Nat /\ TerminalCap \in Nat
  BY LimitsAreNumbers
<1>2. \A role \in Roles : Weighted(RoleWeights[role], s) \in Int
  BY WeightedScores
<1>3. \A x \in Int : (x \div 100) * SeedPenalty \in Int
  BY <1>1
<1>4. \A x \in Int : Min({x, (Full \div 100) * TerminalCap}) \in Int
  <2>1. PICK cap \in Int : cap = (Full \div 100) * TerminalCap
    BY <1>1, UnitAssumption DEF Full
  <2>2. QED
    BY <2>1, TwoNumbers
<1>5. QED
  BY <1>2, <1>3, <1>4 DEF CoreScores, Roles

\* A part of a weight.
LEMMA NoMoreThan ==
  ASSUME NEW w \in Nat, NEW x \in Int, NEW y \in Int, x <= y
  PROVE  w * x \in Int /\ w * y \in Int /\ w * x <= w * y
<1>1. PICK d \in Nat : y = x + d
  <2>1. y - x \in Nat /\ y = x + (y - x)
    OBVIOUS
  <2>2. QED
    BY <2>1
<1>2. w * d \in Nat /\ w * x \in Int /\ w * y \in Int
  OBVIOUS
<1>3. w * y = w * x + w * d
  BY <1>1
<1>4. QED
  BY <1>2, <1>3

LEMMA SumOfThree ==
  ASSUME NEW S, IsFiniteSet(S), NEW f, \A n \in S : f[n] \in Int,
         NEW x \in S, NEW y \in S, NEW z \in S, x # y, x # z, y # z,
         \A n \in S \ {x, y, z} : f[n] = 0
  PROVE  Sum(f, S) = f[x] + f[y] + f[z]
<1>1. PICK A, B, C : A = S \ {x} /\ B = A \ {y} /\ C = B \ {z}
  OBVIOUS
<1>2. A \in SUBSET S /\ B \in SUBSET S /\ C \in SUBSET S
  BY <1>1
<1>3. IsFiniteSet(A) /\ IsFiniteSet(B) /\ IsFiniteSet(C)
  BY <1>2, FS_Subset
<1>4. Sum(f, S) = Sum(f, A) + f[x]
  BY <1>1, SumWithout
<1>5. Sum(f, A) = Sum(f, B) + f[y]
  <2>1. y \in A /\ \A n \in A : f[n] \in Int
    BY <1>1
  <2>2. QED
    BY <1>1, <1>3, <2>1, SumWithout
<1>6. Sum(f, B) = Sum(f, C) + f[z]
  <2>1. z \in B /\ \A n \in B : f[n] \in Int
    BY <1>1
  <2>2. QED
    BY <1>1, <1>3, <2>1, SumWithout
<1>7. Sum(f, C) = 0
  <2>1. \A n \in C : f[n] = 0
    BY <1>1
  <2>2. QED
    BY <1>3, <2>1, SumOfNothing
<1>8. f[x] \in Int /\ f[y] \in Int /\ f[z] \in Int
  OBVIOUS
<1>9. QED
  BY <1>4, <1>5, <1>6, <1>7, <1>8

\* Of the signals of a role only three add to its score.
OnlyThree(role, s, x, y, z) ==
  /\ {x, y, z} \subseteq RoleWeightKeys[role] /\ x # y /\ x # z /\ y # z
  /\ s[x] \in 0 .. Unit /\ s[y] \in 0 .. Unit /\ s[z] \in 0 .. Unit
  /\ \A n \in RoleWeightKeys[role] \ {x, y, z} : s[n] = 0

\* The score is then no more than what their weights allow.
AllowedByThree(role, s, x, y, z) ==
  \E sum \in Int :
    LET w == RoleWeights[role]
    IN /\ Weighted(w, s) = 100 * sum
       /\ sum <= Unit * (w[x] + w[y] + w[z])
       /\ s[x] = 0 /\ s[y] = 0 => sum <= Unit * w[z]

LEMMA ThreeSignals ==
  ASSUME file \in Seq(Rows), NEW gid \in Accounts, NEW outside \in Outside,
         NEW s, s = Signals(Table, outside, gid), NEW role \in Roles,
         NEW x, NEW y, NEW z, OnlyThree(role, s, x, y, z)
  PROVE  AllowedByThree(role, s, x, y, z)
<1>0. PICK w : w = RoleWeights[role]
  OBVIOUS
<1> DEFINE K == RoleWeightKeys[role]
           added == Added(role, s)
<1>1. IsFiniteSet(K) /\ \A n \in K : w[n] \in Nat
  BY <1>0, KeysOfRoles
<1>2. /\ Weighted(w, s) = 100 * Sum(added, K)
      /\ \A n \in K : added[n] = w[n] * s[n] /\ added[n] \in Int
  BY <1>0, WeightedScore
<1> HIDE DEF K, added
<1>3. PICK a, b, c \in Nat : a = w[x] /\ b = w[y] /\ c = w[z]
  BY <1>1 DEF K, OnlyThree
<1>4. PICK d, e, f \in 0 .. Unit : d = s[x] /\ e = s[y] /\ f = s[z]
  BY DEF OnlyThree
<1>5. Sum(added, K) = added[x] + added[y] + added[z]
  <2>1. x \in K /\ y \in K /\ z \in K /\ x # y /\ x # z /\ y # z
    BY DEF K, OnlyThree
  <2>2. \A n \in K \ {x, y, z} : added[n] = 0
    <3> SUFFICES ASSUME NEW n \in K \ {x, y, z} PROVE added[n] = 0
      OBVIOUS
    <3>1. PICK v \in Nat : v = w[n]
      BY <1>1
    <3>2. s[n] = 0
      BY DEF K, OnlyThree
    <3>3. added[n] = v * 0
      BY <1>2, <3>1, <3>2
    <3>4. QED
      BY <3>3
  <2>3. \A n \in K : added[n] \in Int
    BY <1>2
  <2>4. QED
    BY <1>1, <2>1, <2>2, <2>3, SumOfThree
<1>6. added[x] = a * d /\ added[y] = b * e /\ added[z] = c * f
  <2>1. x \in K /\ y \in K /\ z \in K
    BY DEF K, OnlyThree
  <2>2. QED
    BY <1>2, <1>3, <1>4, <2>1
<1>7. d \in Int /\ e \in Int /\ f \in Int /\ Unit \in Int /\ d <= Unit /\ e <= Unit /\ f <= Unit
  <2>1. Unit \in Int /\ \A v \in 0 .. Unit : v \in Int /\ v <= Unit
    BY UnitAssumption
  <2>2. QED
    BY <2>1
<1>8. PICK p, q, r \in Int : p = a * d /\ q = b * e /\ r = c * f
  BY <1>7
<1>9. p <= a * Unit /\ q <= b * Unit /\ r <= c * Unit
  BY <1>7, <1>8, NoMoreThan
<1>10. p + q + r <= Unit * (a + b + c)
  <2>1. PICK i, j, k \in Int : i = a * Unit /\ j = b * Unit /\ k = c * Unit
    BY <1>7
  <2>2. Unit * (a + b + c) = i + j + k
    BY <1>7, <2>1
  <2>3. p + q + r <= i + j + k
    BY <1>8, <1>9, <2>1, SMTT(30)
  <2>4. QED
    BY <2>2, <2>3
<1>11. d = 0 /\ e = 0 => p + q + r <= Unit * c
  <2>1. d = 0 => p = 0
    BY <1>8
  <2>2. e = 0 => q = 0
    BY <1>8
  <2>3. QED
    <3>1. c * Unit = Unit * c
      BY UnitAssumption
    <3>2. d = 0 /\ e = 0 => p + q + r = r
      BY <1>8, <2>1, <2>2
    <3>3. QED
      BY <1>8, <1>9, <3>1, <3>2
<1>12. p + q + r \in Int /\ Weighted(w, s) = 100 * (p + q + r)
  BY <1>2, <1>5, <1>6, <1>8
<1>13. QED
  BY <1>0, <1>3, <1>4, <1>10, <1>11, <1>12 DEF AllowedByThree

\* What a score needs to name a role, in parts of a signal.
LEMMA PenaltyLimit ==
  ASSUME NEW score \in Int, NEW part \in Int, score <= Unit * part, part < 100 * RoleThreshold
  PROVE  score < (Full \div 100) * RoleThreshold
<1>1. PICK unit \in Nat \ {0} : unit = Unit
  BY UnitAssumption
<1>2. PICK limit \in Nat : limit = 100 * RoleThreshold
  BY LimitsAreNumbers
<1>3. PICK m, n \in Int : m = unit * part /\ n = unit * limit
  OBVIOUS
<1>4. m < n
  <2>1. PICK more \in Int : more = part + 1 /\ more <= limit
    BY <1>2
  <2>2. unit * more <= unit * limit
    BY <2>1, NoMoreThan
  <2>3. unit * more = m + unit
    BY <1>3, <2>1
  <2>4. QED
    BY <1>3, <2>2, <2>3
<1>5. score <= m
  BY <1>1, <1>3
<1>6. (Full \div 100) * RoleThreshold = n
  <2>1. Full \div 100 = 100 * unit
    BY <1>1 DEF Full
  <2>2. RoleThreshold \in Nat
    BY LimitsAreNumbers
  <2>3. (100 * unit) * RoleThreshold = unit * (100 * RoleThreshold)
    BY <2>2
  <2>4. QED
    BY <1>2, <1>3, <2>1, <2>3
<1>7. QED
  BY <1>4, <1>5, <1>6

LEMMA ScoreLimit ==
  ASSUME NEW sum \in Int, NEW part \in Int, sum <= Unit * part, part < RoleThreshold
  PROVE  100 * sum < (Full \div 100) * RoleThreshold
<1>1. PICK unit \in Nat : unit = Unit
  BY UnitAssumption
<1>2. PICK score, all \in Int : score = 100 * sum /\ all = 100 * part
  OBVIOUS
<1>3. unit * all = 100 * (unit * part)
  BY <1>2
<1>4. PICK m \in Int : m = unit * part
  OBVIOUS
<1>5. sum <= m
  BY <1>1, <1>4
<1>6. score <= unit * all
  BY <1>2, <1>3, <1>4, <1>5
<1>7. all < 100 * RoleThreshold
  BY <1>2, LimitsAreNumbers
<1>8. QED
  BY <1>1, <1>2, <1>6, <1>7, PenaltyLimit

\* Without money in and out, or for a seed, the transit score stays below the
\* threshold.
LEMMA NoTransitUnobserved ==
  ASSUME WeightsNeedObservation, file \in Seq(Rows), NEW gid \in Accounts,
         NEW outside \in Outside, NEW a, a = Features(Money, file, gid),
         NEW s, s = Signals(Table, outside, gid),
         a.seed \/ a.inSum = 0 \/ a.outSum = 0
  PROVE  CoreScores(a, s)["transit"] < (Full \div 100) * RoleThreshold
<1> DEFINE w == RoleWeights["transit"]
           K == RoleWeightKeys["transit"]
<1>1. /\ "transit" \in Roles
      /\ K = {"pass_through", "fast_forward", "matched_out", "degree_balance",
              "amount_balance", "betweenness", "temporal_activity"}
  BY RolesListed DEF RoleWeightKeys
<1>2. /\ s.pass_through = 0 /\ s.fast_forward = 0 /\ s.matched_out = 0
      /\ s.temporal_activity = 0
      /\ a.inSum = 0 \/ a.outSum = 0 => s.degree_balance = 0 /\ s.amount_balance = 0
      /\ s.degree_balance \in 0 .. Unit /\ s.amount_balance \in 0 .. Unit
      /\ s.betweenness \in 0 .. Unit
  BY SignalsOfAccount
<1>3. PICK sum \in Int :
        /\ Weighted(w, s) = 100 * sum
        /\ sum <= Unit * (w["degree_balance"] + w["amount_balance"] + w["betweenness"])
        /\ s.degree_balance = 0 /\ s.amount_balance = 0 => sum <= Unit * w["betweenness"]
  <2>1. OnlyThree("transit", s, "degree_balance", "amount_balance", "betweenness")
    BY <1>1, <1>2 DEF OnlyThree
  <2>2. AllowedByThree("transit", s, "degree_balance", "amount_balance", "betweenness")
    BY <1>1, <2>1, ThreeSignals
  <2>3. QED
    BY <2>2 DEF AllowedByThree
<1>4. PICK b, c, d \in Nat :
        b = w["degree_balance"] /\ c = w["amount_balance"] /\ d = w["betweenness"]
  BY <1>1, KeysOfRoles
<1>5. RoleThreshold \in Nat /\ SeedPenalty \in Nat
  BY LimitsAreNumbers
<1>6. d < RoleThreshold /\ (b + c + d) * SeedPenalty < 100 * RoleThreshold
  BY <1>4 DEF WeightsNeedObservation
<1>7. CoreScores(a, s)["transit"] =
        IF a.seed THEN (Weighted(w, s) \div 100) * SeedPenalty ELSE Weighted(w, s)
  BY <1>1 DEF CoreScores, Roles
<1>8. Unit \in Nat
  BY UnitAssumption
<1> HIDE DEF w, K
<1>9. CASE a.seed
  <2>1. (100 * sum) \div 100 = sum
    OBVIOUS
  <2>2. PICK total, most \in Int : total = b + c + d /\ most = Unit * total
    BY <1>8
  <2>3. sum <= most
    BY <1>3, <1>4, <2>2
  <2>4. SeedPenalty * sum <= SeedPenalty * most
    BY <1>5, <2>3, NoMoreThan
  <2>5. PICK t \in Int : t = total * SeedPenalty
    BY <1>5, <2>2
  <2>6. SeedPenalty * most = Unit * t
    BY <1>5, <1>8, <2>2, <2>5
  <2>7. t < 100 * RoleThreshold
    BY <1>6, <2>2, <2>5
  <2>8. PICK score \in Int : score = SeedPenalty * sum
    BY <1>5
  <2>9. CoreScores(a, s)["transit"] = score
    BY <1>3, <1>5, <1>7, <1>9, <2>1, <2>8
  <2>10. score <= Unit * t
    BY <2>4, <2>6, <2>8
  <2>11. score < (Full \div 100) * RoleThreshold
    BY <1>5, <2>5, <2>7, <2>8, <2>10, PenaltyLimit
  <2>12. QED
    BY <2>9, <2>11
<1>10. CASE ~ a.seed
  <2>1. sum <= Unit * d
    BY <1>2, <1>3, <1>4, <1>10
  <2>2. CoreScores(a, s)["transit"] = 100 * sum
    BY <1>3, <1>7, <1>10
  <2>3. 100 * sum < (Full \div 100) * RoleThreshold
    BY <1>3, <1>6, <2>1, ScoreLimit
  <2>4. QED
    BY <2>2, <2>3
<1>11. QED
  BY <1>9, <1>10

\* Without money in, an account that is not isolated has a terminal score below the
\* threshold.
LEMMA NoTerminalUnobserved ==
  ASSUME WeightsNeedObservation, file \in Seq(Rows), NEW gid \in Accounts,
         NEW outside \in Outside, NEW a, a = Features(Money, file, gid),
         NEW s, s = Signals(Table, outside, gid),
         ~ a.truncated, ~ Isolated(a), a.inSum = 0
  PROVE  CoreScores(a, s)["terminal"] < (Full \div 100) * RoleThreshold
<1> DEFINE w == RoleWeights["terminal"]
           K == RoleWeightKeys["terminal"]
<1>1. /\ "terminal" \in Roles
      /\ K = {"observed_input", "no_observed_output", "in_amount", "in_degree",
              "retention", "authority"}
  BY RolesListed DEF RoleWeightKeys
<1>2. a.outDeg # 0
  BY AccountFeatures DEF Isolated
<1>3. /\ s.observed_input = 0 /\ s.no_observed_output = 0 /\ s.retention = 0
      /\ s.in_amount \in 0 .. Unit /\ s.in_degree \in 0 .. Unit /\ s.authority \in 0 .. Unit
  BY <1>2, SignalsOfAccount
<1>4. PICK sum \in Int :
        /\ Weighted(w, s) = 100 * sum
        /\ sum <= Unit * (w["in_amount"] + w["in_degree"] + w["authority"])
  <2>1. OnlyThree("terminal", s, "in_amount", "in_degree", "authority")
    BY <1>1, <1>3 DEF OnlyThree
  <2>2. AllowedByThree("terminal", s, "in_amount", "in_degree", "authority")
    BY <1>1, <2>1, ThreeSignals
  <2>3. QED
    BY <2>2 DEF AllowedByThree
<1>5. PICK b, c, d \in Nat :
        b = w["in_amount"] /\ c = w["in_degree"] /\ d = w["authority"]
  BY <1>1, KeysOfRoles
<1>6. RoleThreshold \in Nat /\ b + c + d < RoleThreshold
  BY <1>5, LimitsAreNumbers DEF WeightsNeedObservation
<1>7. CoreScores(a, s)["terminal"] = Weighted(w, s)
  BY <1>1 DEF CoreScores, Roles
<1> HIDE DEF w, K
<1>8. sum <= Unit * (b + c + d)
  BY <1>4, <1>5
<1>9. 100 * sum < (Full \div 100) * RoleThreshold
  <2>1. PICK part \in Int : part = b + c + d
    OBVIOUS
  <2>2. QED
    BY <1>4, <1>6, <1>8, <2>1, ScoreLimit
<1>10. QED
  BY <1>4, <1>7, <1>9

\* What RolesAreObserved says of one account.
ReadFromObservation(a, scores, role) ==
  /\ role = "transit" => ~ a.seed /\ a.inSum > 0 /\ a.outSum > 0
  /\ role = "terminal" => a.inSum > 0 /\ ~ a.truncated
  /\ role # "peripheral" /\ 2 * scores[role] > Full =>
       LET second == Max({Full - scores[role]} \cup {scores[r] : r \in DOMAIN scores \ {role}})
       IN  RoleScore(a, scores) = (80 * scores[role] + 20 * (scores[role] - second)) \div 100

\* A role is read from what was observed only (docs/methodology.md:121), for every
\* file of transactions, every weight and limit that the configuration accepts and
\* that WeightsNeedObservation allows, and wherever the libraries' measures stand.
THEOREM RolesNeedObservation ==
  ASSUME WeightsNeedObservation
  PROVE  Spec => []RolesAreObserved
<1>1. ASSUME FileTypeOK PROVE RolesAreObserved
  <2>1. file \in Seq(Rows)
    BY <1>1 DEF FileTypeOK
  <2>2. SUFFICES ASSUME NEW outside \in Outside, NEW gid \in Accounts,
                        NEW a, a = Table[gid],
                        NEW s, s = Signals(Table, outside, gid),
                        NEW scores, scores = CoreScores(a, s),
                        NEW role, role = RoleOfScores(a, scores)
                 PROVE  ReadFromObservation(a, scores, role)
    <3>1. SUFFICES ASSUME NEW table \in {Table}, NEW outside \in Outside, NEW gid \in Accounts
                   PROVE  ReadFromObservation(table[gid],
                            CoreScores(table[gid], Signals(table, outside, gid)),
                            RoleOfScores(table[gid],
                              CoreScores(table[gid], Signals(table, outside, gid))))
      BY Zenon DEF RolesAreObserved, ReadFromObservation
    <3>2. table = Table
      OBVIOUS
    <3>3. QED
      BY <3>2
  <2>3. a = Features(Money, file, gid)
    BY <2>2 DEF Table
  <2>4. scores \in [Roles -> Int]
    BY <2>1, <2>2, ScoresAreNumbers
  <2>5. a.inSum \in Nat /\ a.outSum \in Nat
    BY <2>1, <2>3, AccountFeatures
  <2>6. PICK limit \in Int : limit = (Full \div 100) * RoleThreshold
    BY LimitsAreNumbers, UnitAssumption DEF Full
  <2>7. ASSUME role # "peripheral"
        PROVE  ~ Isolated(a) /\ scores[role] >= limit /\ scores[role] \in Int
    BY <2>2, <2>4, <2>6, <2>7, NamedRole
  <2>8. ASSUME role = "transit"
        PROVE  ~ a.seed /\ a.inSum > 0 /\ a.outSum > 0
    <3>1. scores["transit"] >= limit /\ scores["transit"] \in Int
      BY <2>7, <2>8
    <3>2. a.seed \/ a.inSum = 0 \/ a.outSum = 0 => scores["transit"] < limit
      BY <2>1, <2>2, <2>3, <2>6, NoTransitUnobserved
    <3>3. ~ (a.seed \/ a.inSum = 0 \/ a.outSum = 0)
      BY <2>6, <3>1, <3>2
    <3>4. QED
      BY <2>5, <3>3
  <2>9. ASSUME role = "terminal"
        PROVE  a.inSum > 0 /\ ~ a.truncated
    <3>1. scores["terminal"] >= limit /\ scores["terminal"] \in Int /\ ~ Isolated(a)
      BY <2>7, <2>9
    <3>2. ~ a.truncated
      <4>1. TerminalCap < RoleThreshold
        BY DEF WeightsNeedObservation
      <4>2. Weighted(RoleWeights["terminal"], s) \in Int
        BY <2>1, <2>2, RolesListed, WeightedScores
      <4>3. \A r \in Roles : CoreScores(a, s)[r] \in Int
        BY <2>2, <2>4
      <4>4. RoleOfScores(a, CoreScores(a, s)) = "terminal"
        BY <2>2, <2>9
      <4>5. QED
        BY <4>1, <4>2, <4>3, <4>4, NoTerminalAtTheEdge
    <3>3. a.inSum = 0 => scores["terminal"] < limit
      BY <2>1, <2>2, <2>3, <2>6, <3>1, <3>2, NoTerminalUnobserved
    <3>4. QED
      BY <2>5, <2>6, <3>1, <3>2, <3>3
  <2>10. QED
    BY <2>2, <2>4, <2>8, <2>9, ConfidenceIsTheLead DEF ReadFromObservation
<1>2. QED
  BY <1>1, FileType, PTL

-----------------------------------------------------------------------------
(* Searches.                                                               *)

\* As many of the shortest paths as may be kept.
ShortestOf(got, all, cap) ==
  /\ ToSet(got) \subseteq all
  /\ Len(got) = Min({Cardinality(all), cap})
  /\ \A p \in all \ ToSet(got) : \A q \in ToSet(got) : Len(q) <= Len(p)

\* A search of paths returns the first paths of a list of all.
LEMMA FirstPaths ==
  ASSUME NEW U \in SUBSET Int, IsFiniteSet(U), NEW pairs, PairsAmong(pairs, U), NEW gid \in U,
         NEW depth \in Nat, NEW cap \in Nat,
         NEW all, all = PathsUpTo(pairs, U, gid, depth + 1),
         NEW got, got = PathsFrom(pairs, gid, depth, cap)
  PROVE  /\ IsFiniteSet(all) /\ Cardinality(all) \in Nat
         /\ ShortestOf(got, all, cap) /\ got \in Seq(all)
         /\ Len(got) = (IF cap < Cardinality(all) THEN cap ELSE Cardinality(all))
         /\ Cardinality(all) <= cap => ToSet(got) = all
<1>1. PICK paths : Lists(paths, all) /\ ShorterFirst(paths) /\ got = FirstOf(paths, cap)
  BY AllPathsFound
<1>2. IsFiniteSet(all) /\ Cardinality(all) = Len(paths) /\ Len(paths) \in Nat
  BY <1>1, ListsCount
<1>3. PICK count \in Nat : count = Len(paths)
  BY <1>2
<1>4. /\ paths \in [1 .. count -> all]
      /\ \A x \in all : \E n \in 1 .. count : paths[n] = x
  BY <1>1, <1>3 DEF Lists
<1>5. PICK kept \in Nat : kept = IF cap < count THEN cap ELSE count
  OBVIOUS
<1>6. kept <= count /\ kept <= cap /\ (count <= cap => kept = count)
  BY <1>5
<1>7. DOMAIN got = 1 .. kept /\ \A n \in 1 .. kept : got[n] = paths[n]
  <2>1. paths \in [1 .. count -> ToSet(paths)]
    BY <1>4 DEF ToSet
  <2>2. QED
    BY <1>1, <1>5, <2>1, FirstRows
<1>8. got \in Seq(all) /\ Len(got) = kept
  <2>1. got = SubSeq(paths, 1, Min({cap, Len(paths)}))
    BY <1>1 DEF FirstOf
  <2>2. Min({cap, count}) \in {cap, count} /\ Min({cap, count}) <= count /\ Min({cap, count}) <= cap
    BY TwoNumbers
  <2>3. PICK one, last \in Int : one = 1 /\ last = Min({cap, count})
    BY <2>2
  <2>4. last = kept
    BY <1>5, <2>2, <2>3
  <2>5. \A n \in one .. last : paths[n] \in all
    BY <1>4, <1>6, <2>3, <2>4
  <2>6. got = SubSeq(paths, one, last)
    BY <1>3, <2>1, <2>3
  <2>7. /\ SubSeq(paths, one, last) \in Seq(all)
        /\ Len(SubSeq(paths, one, last)) = IF one <= last THEN last - one + 1 ELSE 0
    BY <2>5, SubSeqProperties
  <2>8. (IF one <= last THEN last - one + 1 ELSE 0) = kept
    BY <2>3, <2>4
  <2>9. QED
    BY <2>6, <2>7, <2>8
<1>9. \A x : x \in ToSet(got) <=> \E n \in 1 .. kept : got[n] = x
  BY <1>7 DEF ToSet
<1>10. kept = Min({Cardinality(all), cap})
  <2>1. Min({count, cap}) \in {count, cap} /\ Min({count, cap}) <= count /\ Min({count, cap}) <= cap
        /\ Min({count, cap}) \in Int
    BY TwoNumbers
  <2>2. PICK least \in Int : least = Min({count, cap})
    BY <2>1
  <2>3. least = kept
    BY <1>5, <2>1, <2>2
  <2>4. QED
    BY <1>2, <1>3, <2>2, <2>3
<1>11. count <= cap => ToSet(got) = all
  <2> SUFFICES ASSUME count <= cap PROVE ToSet(got) = all
    OBVIOUS
  <2>1. kept = count
    BY <1>6
  <2>2. \A x \in all : x \in ToSet(got)
    BY <1>4, <1>7, <1>9, <2>1
  <2>3. \A x \in ToSet(got) : x \in all
    BY <1>4, <1>7, <1>9, <2>1
  <2>4. QED
    BY <2>2, <2>3
<1>12. ASSUME NEW p \in all, p \notin ToSet(got), NEW q \in ToSet(got)
       PROVE  Len(q) <= Len(p)
  <2>1. PICK m \in 1 .. count : paths[m] = p
    BY <1>4
  <2>2. PICK n \in 1 .. kept : got[n] = q
    BY <1>9
  <2>3. ~ (m \in 1 .. kept)
    BY <1>7, <1>9, <1>12, <2>1
  <2>4. n < m /\ n \in 1 .. count
    BY <1>6, <2>3
  <2>5. Len(paths[n]) <= Len(paths[m])
    BY <1>1, <1>3, <2>4 DEF ShorterFirst
  <2>6. QED
    BY <1>7, <2>1, <2>2, <2>5
<1>13. \A x \in ToSet(got) : x \in all
  BY <1>4, <1>6, <1>7, <1>9
<1>14. ShortestOf(got, all, cap)
  BY <1>8, <1>10, <1>12, <1>13 DEF ShortestOf
<1>15. QED
  BY <1>2, <1>3, <1>5, <1>8, <1>11, <1>14

\* No path that passes no account twice has more accounts than there are.
LEMMA PathsAreShort ==
  ASSUME NEW U, IsFiniteSet(U), NEW pairs, NEW gid, NEW k \in Nat \ {0},
         NEW p \in PathsOf(pairs, U, gid, k)
  PROVE  k <= Cardinality(U)
<1> DEFINE D == 1 .. k
<1>1. p \in [D -> U] /\ \A m, n \in D : p[m] = p[n] => m = n
  BY DEF PathsOf
<1>2. Cardinality(D) = k /\ IsFiniteSet(D)
  BY FS_Interval
<1> HIDE DEF D
<1>3. p \in Injection(D, U)
  BY <1>1 DEF Injection, IsInjective
<1>4. QED
  BY <1>2, <1>3, FS_Injection

LEMMA SimplePathsAreThese ==
  ASSUME NEW pairs, NEW gid \in Accounts, NEW hops \in Nat
  PROVE  SimplePaths(pairs, gid, hops) = PathsUpTo(pairs, Accounts, gid, hops + 1)
<1> DEFINE P(k) == PathsOf(pairs, Accounts, gid, k)
           size == Cardinality(Accounts)
           most == Min({hops + 1, size})
<1>1. IsFiniteSet(Accounts) /\ size \in Nat
  BY AccountsAreFinite, FS_CardinalityType
<1>2. most \in Int /\ most \in {hops + 1, size} /\ most <= hops + 1 /\ most <= size
  <2>1. PICK h, s \in Int : h = hops + 1 /\ s = size
    BY <1>1
  <2>2. QED
    BY <2>1, TwoNumbers
<1> HIDE DEF most, size
<1>3. ASSUME NEW p \in SimplePaths(pairs, gid, hops)
      PROVE  p \in PathsUpTo(pairs, Accounts, gid, hops + 1)
  <2>1. PICK k \in 2 .. most : p \in [1 .. k -> Accounts]
    BY DEF SimplePaths, most, size
  <2>2. Len(p) = k /\ DOMAIN p = 1 .. k
    <3>1. k \in Nat
      BY <1>2
    <3>2. p \in Seq(Accounts)
      BY <2>1, <3>1
    <3>3. QED
      BY <2>1, <3>1, <3>2
  <2>3. p \in P(k)
    BY <2>1, <2>2 DEF SimplePaths, PathsOf
  <2>4. k \in 2 .. (hops + 1)
    BY <1>2
  <2>5. QED
    BY <2>3, <2>4 DEF PathsUpTo
<1>4. ASSUME NEW p \in PathsUpTo(pairs, Accounts, gid, hops + 1)
      PROVE  p \in SimplePaths(pairs, gid, hops)
  <2>1. PICK k \in 2 .. (hops + 1) : p \in P(k)
    BY DEF PathsUpTo
  <2>2. k \in Nat \ {0}
    OBVIOUS
  <2>3. k <= size
    BY <1>1, <2>1, <2>2, PathsAreShort DEF size
  <2>4. k \in 2 .. most
    BY <1>1, <1>2, <2>3
  <2>5. p \in [1 .. k -> Accounts]
    BY <2>1 DEF PathsOf
  <2>6. Len(p) = k /\ DOMAIN p = 1 .. k
    BY <2>1, <2>2, <2>5, PathFacts
  <2>7. p \in UNION {[1 .. n -> Accounts] : n \in 2 .. most}
    BY <2>4, <2>5
  <2>8. /\ p[1] = gid /\ \A m, n \in 1 .. k : p[m] = p[n] => m = n
        /\ \A n \in 1 .. (k - 1) : <<p[n], p[n + 1]>> \in pairs
    BY <2>1 DEF PathsOf
  <2>9. QED
    BY <2>6, <2>7, <2>8 DEF SimplePaths, most, size
<1>5. QED
  BY <1>3, <1>4

\* By the last day, the history is the file.
LEMMA AllByTheLastDay ==
  ASSUME NEW rows \in Seq(Rows)
  PROVE  PairsOf(UpTo(Loaded(rows), LastDay)) = PairsOf(rows)
<1> DEFINE history == UpTo(Loaded(rows), LastDay)
           day == [r \in Rows |-> r.day]
<1>1. ToSet(history) = {r \in ToSet(rows) : r.day <= LastDay}
  BY HistoryRows
<1>2. ASSUME NEW r \in ToSet(rows)
      PROVE  r.day <= LastDay
  <2>1. r \in Rows
    BY DEF ToSet
  <2>2. Days = {day[q] : q \in Rows}
    BY DEF Days
  <2>3. Days \in SUBSET Int /\ r.day \in Days
    BY <2>1, RowsAreTransfers DEF Days
  <2> HIDE DEF day
  <2>4. IsFiniteSet(Days)
    BY <2>2, FiniteImage, TransactionFileAssumption
  <2>5. Max(Days) \in Days /\ \A d \in Days : Max(Days) >= d
    BY <2>3, <2>4, GreatestNumber
  <2>6. QED
    BY <2>3, <2>5 DEF LastDay
<1>3. ToSet(history) = ToSet(rows)
  BY <1>1, <1>2
<1> HIDE DEF history
<1>4. QED
  BY <1>3 DEF PairsOf, history

\* The searches leave out nothing that they could have shown, for every file: a route
\* has all paths that pass no account twice, or as many of the shortest as it may, and
\* clusters are exactly the connected parts.
THEOREM SearchesMissNothing == Spec => []SearchesAreComplete
<1>1. ASSUME FileTypeOK PROVE SearchesAreComplete
  <2>1. file \in Seq(Rows)
    BY <1>1 DEF FileTypeOK
  <2>2. ASSUME NEW gid \in Accounts,
               NEW all, all = SimplePaths(PairsOf(file), gid, RouteHops),
               NEW paths, paths = MoneyRoute(file, gid, LastDay).paths
        PROVE  /\ ToSet(paths) \subseteq all
               /\ Len(paths) = Min({Cardinality(all), RoutePaths})
               /\ \A p \in all \ ToSet(paths) : \A q \in ToSet(paths) : Len(q) <= Len(p)
    <3>1. RouteHops \in Nat /\ RoutePaths \in Nat
      BY AlertRulesAssumption
    <3>2. paths = PathsFrom(PairsOf(file), gid, RouteHops, RoutePaths)
      BY <2>1, <2>2, AllByTheLastDay DEF MoneyRoute
    <3>3. all = PathsUpTo(PairsOf(file), Accounts, gid, RouteHops + 1)
      BY <2>2, <3>1, SimplePathsAreThese
    <3>4. Accounts \in SUBSET Int /\ IsFiniteSet(Accounts) /\ PairsAmong(PairsOf(file), Accounts)
      BY <2>1, AccountsAreFinite, AccountsOfRows DEF PairsAmong
    <3>5. gid \in Accounts
      BY <2>2
    <3>6. PICK pairs : pairs = PairsOf(file)
      OBVIOUS
    <3>7. /\ PairsAmong(pairs, Accounts)
          /\ paths = PathsFrom(pairs, gid, RouteHops, RoutePaths)
          /\ all = PathsUpTo(pairs, Accounts, gid, RouteHops + 1)
      BY <3>2, <3>3, <3>4, <3>6
    <3>8. ShortestOf(paths, all, RoutePaths)
      BY <3>1, <3>4, <3>5, <3>7, FirstPaths
    <3>9. QED
      BY <3>8 DEF ShortestOf
  <2>3. \A a, b \in AccountsOf(file) :
          Clusters(file)[a] = Clusters(file)[b] <=> Connected(PairsOf(file), a, b)
    BY <2>1, ClustersAreConnected
  <2>4. QED
    BY <2>2, <2>3 DEF SearchesAreComplete
<1>2. QED
  BY <1>1, FileType, PTL

-----------------------------------------------------------------------------
(* Clusters.                                                               *)

\* Sets that part another one: none is empty, and each element is in one of them.
Parts(detected, S) ==
  /\ \A part \in detected : part \subseteq S /\ part # {}
  /\ \A x \in S : \E part \in detected : x \in part
  /\ \A one, other \in detected : one \cap other # {} => one = other

\* Parts of a finite set of numbers are finitely many and can be ranked.
LEMMA PartsAreOrdered ==
  ASSUME NEW S \in SUBSET Int, IsFiniteSet(S), NEW parts, Parts(parts, S)
  PROVE  /\ IsFiniteSet(parts)
         /\ \A part \in parts :
              IsFiniteSet(part) /\ Cardinality(part) \in Nat \ {0} /\ Min(part) \in part
         /\ StrictOrder(parts, [a \in parts |-> {b \in parts : Larger(b, a)}])
<1> DEFINE before == [a \in parts |-> {b \in parts : Larger(b, a)}]
<1>1. IsFiniteSet(parts)
  <2>1. parts \subseteq SUBSET S
    BY DEF Parts
  <2>2. QED
    BY <2>1, FS_SUBSET, FS_Subset
<1>2. \A part \in parts : /\ IsFiniteSet(part) /\ Cardinality(part) \in Nat \ {0}
                          /\ Min(part) \in part /\ Min(part) \in Int
  <2> SUFFICES ASSUME NEW part \in parts
               PROVE  /\ IsFiniteSet(part) /\ Cardinality(part) \in Nat \ {0}
                      /\ Min(part) \in part /\ Min(part) \in Int
    OBVIOUS
  <2>1. part \in SUBSET S /\ part # {} /\ part \in SUBSET Int
    BY DEF Parts
  <2>2. IsFiniteSet(part)
    BY <2>1, FS_Subset
  <2>3. Cardinality(part) \in Nat /\ Cardinality(part) # 0
    BY <2>1, <2>2, FS_CardinalityType, FS_EmptySet
  <2>4. Min(part) \in part
    BY <2>1, <2>2, SmallestNumber
  <2>5. QED
    BY <2>1, <2>2, <2>3, <2>4
<1>3. \A a, b \in parts : Min(a) = Min(b) => a = b
  BY <1>2 DEF Parts
<1> DEFINE size == [a \in parts |-> Cardinality(a)]
           first == [a \in parts |-> Min(a)]
           Ahead(a, b) == size[a] > size[b] \/ (size[a] = size[b] /\ first[a] < first[b])
<1>4. \A a, b \in parts : Larger(a, b) <=> Ahead(a, b)
  BY DEF Larger
<1>5. \A a \in parts : size[a] \in Int /\ first[a] \in Int
  BY <1>2
<1>6. \A a, b \in parts : first[a] = first[b] => a = b
  BY <1>3
<1> HIDE DEF size, first
<1>7. \A a \in parts : ~ Ahead(a, a)
  BY <1>5, UrgencyOrders
<1>8. ASSUME NEW a \in parts, NEW b \in parts, NEW c \in parts, Ahead(a, b), Ahead(b, c)
      PROVE  Ahead(a, c)
  BY <1>5, <1>8, UrgencyOrders
<1>9. ASSUME NEW a \in parts, NEW b \in parts
      PROVE  a = b \/ Ahead(a, b) \/ Ahead(b, a)
  BY <1>5, <1>6, UrgencyOrders
<1>10. \A a \in parts : before[a] = {b \in parts : Ahead(b, a)}
  BY <1>4
<1>11. before \in [parts -> SUBSET parts]
  OBVIOUS
<1> HIDE DEF Ahead, before
<1>12. StrictOrder(parts, before)
  BY <1>7, <1>8, <1>9, <1>10, <1>11 DEF StrictOrder
<1>13. QED
  BY <1>1, <1>2, <1>12 DEF before

\* The accounts with an edge.
LinkedBy(graph) == UNION {{p[1], p[2]} : p \in DOMAIN graph.sum}

\* Each account has the number of its cluster, the numbers leave no gap, and an account
\* without an edge has a cluster of its own.
Numbered(graph, member) ==
  /\ DOMAIN member = graph.nodes
  /\ \A gid \in graph.nodes : member[gid] \in Nat
  /\ \E count \in Nat : {member[gid] : gid \in graph.nodes} = 0 .. (count - 1)
  /\ \A a \in graph.nodes \ LinkedBy(graph) : \A b \in graph.nodes :
       member[b] = member[a] => b = a

LEMMA ClustersAreNumbered ==
  ASSUME NEW graph, graph.nodes \in SUBSET Int, IsFiniteSet(graph.nodes),
         PairsAmong(DOMAIN graph.sum, graph.nodes),
         NEW detected, Parts(detected, LinkedBy(graph)),
         NEW member, member = Communities(graph, detected)
  PROVE  Numbered(graph, member)
<1> DEFINE U == graph.nodes
           linked == LinkedBy(graph)
           singles == {{gid} : gid \in U \ linked}
           parts == detected \cup singles
           before == [a \in parts |-> {b \in parts : Larger(b, a)}]
           table == Ranked(parts, Larger)
           count == Cardinality(parts)
<1>1. linked \subseteq U
  BY DEF LinkedBy, PairsAmong
<1>2. Parts(parts, U)
  <2> HIDE DEF linked
  <2>1. /\ \A part \in detected : part \subseteq linked /\ part # {}
        /\ \A x \in linked : \E part \in detected : x \in part
        /\ \A one, other \in detected : one \cap other # {} => one = other
    BY DEF Parts, linked
  <2> HIDE DEF U
  <2>2. \A part \in parts : part \subseteq U /\ part # {}
    BY <1>1, <2>1
  <2>3. \A x \in U : \E part \in parts : x \in part
    BY <2>1
  <2>4. ASSUME NEW one \in parts, NEW other \in parts, one \cap other # {}
        PROVE  one = other
    <3>1. PICK x : x \in one /\ x \in other
      BY <2>4
    <3>2. \A part \in parts : \/ part \in detected
                             \/ \E gid : part = {gid} /\ gid \notin linked
      OBVIOUS
    <3>3. CASE x \in linked
      <4>1. one \in detected /\ other \in detected
        BY <3>1, <3>2, <3>3
      <4>2. QED
        BY <2>1, <2>4, <4>1
    <3>4. CASE x \notin linked
      <4>1. one \notin detected /\ other \notin detected
        BY <2>1, <3>1, <3>4
      <4>2. PICK a : one = {a}
        BY <3>2, <4>1
      <4>3. PICK b : other = {b}
        BY <3>2, <4>1
      <4>4. QED
        BY <3>1, <4>2, <4>3
    <3>5. QED
      BY <3>3, <3>4
  <2>5. QED
    BY <2>2, <2>3, <2>4 DEF Parts
<1>3. member = [gid \in U |-> (CHOOSE n \in DOMAIN table : gid \in table[n]) - 1]
  BY DEF Communities, LinkedBy
<1>4. /\ DOMAIN table = 1 .. count
      /\ \A n \in 1 .. count :
           table[n] = CHOOSE x \in parts : Cardinality({y \in parts : Larger(y, x)}) = n - 1
  BY DEF Ranked
<1>5. \A x \in parts : before[x] = {y \in parts : Larger(y, x)}
  OBVIOUS
<1>6. /\ U \in SUBSET Int /\ IsFiniteSet(U)
      /\ \A a \in U \ linked : {a} \in parts
  OBVIOUS
<1> HIDE DEF U, linked, singles, parts, before, table, count
<1>7. IsFiniteSet(parts) /\ StrictOrder(parts, before)
  BY <1>2, <1>6, PartsAreOrdered DEF before
<1>8. Placed(parts, before, table)
  <2>1. ASSUME NEW n \in 1 .. count, \E x \in parts : Cardinality(before[x]) = n - 1
        PROVE  table[n] \in parts /\ Cardinality(before[table[n]]) = n - 1
    <3>1. \E x \in parts : Cardinality({y \in parts : Larger(y, x)}) = n - 1
      BY <1>5, <2>1
    <3>2. table[n] \in parts /\ Cardinality({y \in parts : Larger(y, table[n])}) = n - 1
      BY <1>4, <3>1
    <3>3. QED
      BY <1>5, <3>2
  <2>2. QED
    BY <1>4, <2>1 DEF Placed, count
<1>9. /\ count \in Nat
      /\ \A n \in 1 .. count : table[n] \in parts
      /\ \A x \in parts : \E n \in 1 .. count : table[n] = x
      /\ \A m, n \in 1 .. count : table[m] = table[n] => m = n
  <2>1. DOMAIN table = 1 .. count /\ count = Cardinality(parts)
    BY <1>4 DEF count
  <2>2. /\ Cardinality(parts) \in Nat
        /\ \A n \in DOMAIN table : table[n] \in parts
        /\ \A x \in parts : \E n \in DOMAIN table : table[n] = x
        /\ \A m, n \in DOMAIN table : table[m] = table[n] => m = n
    BY <1>7, <1>8, TableOfASet
  <2>3. QED
    BY <2>1, <2>2
<1>10. ASSUME NEW gid \in U
       PROVE  \E n \in 1 .. count : /\ member[gid] = n - 1 /\ gid \in table[n]
                                    /\ \A m \in 1 .. count : gid \in table[m] => m = n
  <2>1. PICK part \in parts : gid \in part
    BY <1>2 DEF Parts
  <2>2. PICK n \in 1 .. count : table[n] = part
    BY <1>9
  <2>3. \A m \in 1 .. count : gid \in table[m] => m = n
    BY <1>2, <1>9, <2>1, <2>2 DEF Parts
  <2>4. (CHOOSE m \in 1 .. count : gid \in table[m]) = n
    BY <2>1, <2>2, <2>3
  <2>5. QED
    BY <1>3, <1>4, <2>1, <2>2, <2>3, <2>4
<1>11. DOMAIN member = U
  BY <1>3
<1>12. \A gid \in U : member[gid] \in 0 .. (count - 1)
  BY <1>9, <1>10
<1>13. {member[gid] : gid \in U} = 0 .. (count - 1)
  <2>1. ASSUME NEW c \in 0 .. (count - 1)
        PROVE  \E gid \in U : member[gid] = c
    <3>1. c + 1 \in 1 .. count
      BY <1>9
    <3>2. table[c + 1] \in parts
      BY <1>9, <3>1
    <3>3. PICK gid \in U : gid \in table[c + 1]
      BY <1>2, <3>2 DEF Parts
    <3>4. PICK n \in 1 .. count : member[gid] = n - 1 /\ n = c + 1
      BY <1>10, <3>1, <3>3
    <3>5. QED
      BY <3>4
  <2>2. QED
    BY <1>12, <2>1
<1>14. ASSUME NEW a \in U \ linked, NEW b \in U, member[b] = member[a]
       PROVE  b = a
  <2>1. PICK m \in 1 .. count : member[a] = m - 1 /\ a \in table[m]
    BY <1>10
  <2>2. PICK n \in 1 .. count : member[b] = n - 1 /\ b \in table[n]
    BY <1>10
  <2>3. m = n
    BY <1>14, <2>1, <2>2
  <2>4. {a} \in parts /\ table[m] \in parts
    BY <1>6, <1>9
  <2>5. table[m] = {a}
    BY <1>2, <2>1, <2>4 DEF Parts
  <2>6. QED
    BY <2>2, <2>3, <2>5
<1>15. QED
  BY <1>9, <1>11, <1>12, <1>13, <1>14 DEF Numbered, U, linked

\* The edges that stay in a cluster, come into it and leave it.
Staying(pairs, member, c) == {p \in pairs : member[p[1]] = c /\ member[p[2]] = c}
Crossing(pairs, member) == {p \in pairs : member[p[1]] # member[p[2]]}
Entering(pairs, member, c) == {p \in Crossing(pairs, member) : member[p[2]] = c}
Leaving(pairs, member, c) == {p \in Crossing(pairs, member) : member[p[1]] = c}

LEMMA SummaryOfCluster ==
  ASSUME NEW graph, NEW member, NEW c, NEW s, s = ClusterSummary(graph, member, c),
         NEW pairs, pairs = DOMAIN graph.sum
  PROVE  /\ s.nodes = Cardinality({gid \in graph.nodes : member[gid] = c})
         /\ s.inside = Sum(graph.sum, Staying(pairs, member, c))
         /\ s.into = Sum(graph.sum, Entering(pairs, member, c))
         /\ s.outOf = Sum(graph.sum, Leaving(pairs, member, c))
         /\ s.intoEdges = Cardinality(Entering(pairs, member, c))
         /\ s.outEdges = Cardinality(Leaving(pairs, member, c))
<1> DEFINE edges(fromIn, toIn) ==
             {p \in DOMAIN graph.sum : (member[p[1]] = c) = fromIn /\ (member[p[2]] = c) = toIn}
<1>1. edges(TRUE, TRUE) = Staying(pairs, member, c)
  BY DEF Staying
<1>2. edges(FALSE, TRUE) = Entering(pairs, member, c)
  BY DEF Entering, Crossing
<1>3. edges(TRUE, FALSE) = Leaving(pairs, member, c)
  BY DEF Leaving, Crossing
<1>4. /\ s.nodes = Cardinality({gid \in graph.nodes : member[gid] = c})
      /\ s.inside = Sum(graph.sum, edges(TRUE, TRUE))
      /\ s.into = Sum(graph.sum, edges(FALSE, TRUE))
      /\ s.outOf = Sum(graph.sum, edges(TRUE, FALSE))
      /\ s.intoEdges = Cardinality(edges(FALSE, TRUE))
      /\ s.outEdges = Cardinality(edges(TRUE, FALSE))
  BY DEF ClusterSummary, Sum
<1> HIDE DEF edges
<1>5. QED
  BY <1>1, <1>2, <1>3, <1>4

\* What the clusters say of their accounts and edges adds up, over the clusters and over
\* the accounts of one cluster.
FlowsBalance(graph, member, clusters) ==
  LET pairs == DOMAIN graph.sum
      crossing == Crossing(pairs, member)
      over(name) == Sum([c \in clusters |-> ClusterSummary(graph, member, c)[name]], clusters)
  IN /\ over("nodes") = Cardinality(graph.nodes)
     /\ over("into") = over("outOf") /\ over("intoEdges") = over("outEdges")
     /\ over("inside") + over("into") = Sum(graph.sum, pairs)
     /\ \A c \in clusters :
          LET group == {gid \in graph.nodes : member[gid] = c}
          IN ClusterSummary(graph, member, c).into
               = Sum([gid \in group |-> Bridge(graph, member, gid).into], group)

\* The elements that have a key, for each key.
Counted(S, P, key, of) ==
  /\ \A x \in S : key[x] \in P
  /\ \A p \in P : of[p] = Cardinality({x \in S : key[x] = p})

LEMMA CountByKey ==
  ASSUME NEW S, IsFiniteSet(S), NEW P, IsFiniteSet(P), NEW key, NEW of, Counted(S, P, key, of)
  PROVE  Sum(of, P) = Cardinality(S)
<1> DEFINE ones == [x \in S |-> 1]
<1>1. \A x \in S : ones[x] = 1 /\ ones[x] \in Int
  OBVIOUS
<1> HIDE DEF ones
<1>2. ASSUME NEW p \in P
      PROVE  of[p] = Sum(ones, {x \in S : key[x] = p})
  <2> DEFINE part == {x \in S : key[x] = p}
  <2>1. IsFiniteSet(part) /\ \A x \in part : ones[x] = 1
    BY <1>1, FS_Subset
  <2>2. of[p] = Cardinality(part)
    BY DEF Counted
  <2> HIDE DEF part
  <2>3. Sum(ones, part) = Cardinality(part)
    BY <2>1, SumOfOnes
  <2>4. QED
    BY <2>2, <2>3 DEF part
<1>3. Grouped(S, ones, P, key, of)
  BY <1>2 DEF Grouped, Counted
<1>4. Sum(of, P) = Sum(ones, S)
  BY <1>1, <1>3, SumByKey
<1>5. QED
  BY <1>1, <1>4, SumOfOnes

\* The edges that bring money from other clusters to an account.
Bridging(graph, member, gid) == {p \in Crossing(DOMAIN graph.sum, member) : p[2] = gid}

LEMMA BridgeOfAccount ==
  ASSUME NEW graph, NEW member, NEW gid
  PROVE  Bridge(graph, member, gid).into = Sum(graph.sum, Bridging(graph, member, gid))
<1> DEFINE crossing == Crossing(DOMAIN graph.sum, member)
<1>1. crossing \cap InPairs(graph, gid) = Bridging(graph, member, gid)
  BY DEF InPairs, Crossing, Bridging
<1>2. Bridge(graph, member, gid).into = Sum(graph.sum, crossing \cap InPairs(graph, gid))
  BY DEF Bridge, Sum, Crossing
<1> HIDE DEF crossing
<1>3. QED
  BY <1>1, <1>2 DEF crossing

\* For every graph and every way to part its accounts: what leaves clusters enters
\* clusters, nothing is lost between inside and outside, each account is counted in one
\* cluster, and the accounts' bridge flows are their clusters'.
LEMMA ClusterFlowsAddUp ==
  ASSUME NEW graph, IsFiniteSet(graph.nodes), NEW pairs, pairs = DOMAIN graph.sum,
         IsFiniteSet(pairs), PairsAmong(pairs, graph.nodes), \A p \in pairs : graph.sum[p] \in Int,
         NEW member, NEW clusters, IsFiniteSet(clusters),
         clusters = {member[gid] : gid \in graph.nodes}
  PROVE  FlowsBalance(graph, member, clusters)
<1> DEFINE f == graph.sum
           U == graph.nodes
           crossing == Crossing(pairs, member)
           Summary(c) == ClusterSummary(graph, member, c)
           column(name) == [c \in clusters |-> Summary(c)[name]]
           source == [p \in pairs |-> member[p[1]]]
           target == [p \in pairs |-> member[p[2]]]
<1>1. IsFiniteSet(crossing) /\ crossing \subseteq pairs /\ IsFiniteSet(pairs \ crossing)
  BY FS_Subset DEF Crossing
<1>2. \A p \in pairs : /\ source[p] = member[p[1]] /\ source[p] \in clusters
                       /\ target[p] = member[p[2]] /\ target[p] \in clusters
                       /\ p[1] \in U /\ p[2] \in U
  BY DEF PairsAmong
<1>3. \A c \in clusters :
        /\ column("nodes")[c] = Cardinality({gid \in U : member[gid] = c})
        /\ column("inside")[c] = Sum(f, Staying(pairs, member, c))
        /\ column("into")[c] = Sum(f, Entering(pairs, member, c))
        /\ column("outOf")[c] = Sum(f, Leaving(pairs, member, c))
        /\ column("intoEdges")[c] = Cardinality(Entering(pairs, member, c))
        /\ column("outEdges")[c] = Cardinality(Leaving(pairs, member, c))
  BY SummaryOfCluster
<1>4. \A c \in clusters : /\ Staying(pairs, member, c) = {p \in pairs \ crossing : target[p] = c}
                          /\ Entering(pairs, member, c) = {p \in crossing : target[p] = c}
                          /\ Leaving(pairs, member, c) = {p \in crossing : source[p] = c}
  BY <1>2 DEF Staying, Entering, Leaving, Crossing
<1>5. \A p \in pairs : f[p] \in Int
  OBVIOUS
<1>6. \A gid \in U : member[gid] \in clusters
  OBVIOUS
<1>7. \A c \in clusters : Summary(c).into = column("into")[c]
  OBVIOUS
<1> HIDE DEF f, U, crossing, column, source, target
<1>8. Sum(column("nodes"), clusters) = Cardinality(U)
  <2>1. PICK of : of = column("nodes")
    OBVIOUS
  <2>2. \A c \in clusters : of[c] = Cardinality({gid \in U : member[gid] = c})
    BY <1>3, <2>1
  <2>3. Counted(U, clusters, member, of)
    BY <1>6, <2>2 DEF Counted
  <2>4. Sum(of, clusters) = Cardinality(U)
    BY <2>3, CountByKey DEF U
  <2>5. QED
    BY <2>1, <2>4
<1>9. /\ Sum(column("into"), clusters) = Sum(f, crossing)
      /\ Sum(column("intoEdges"), clusters) = Cardinality(crossing)
  <2>1. PICK of, many : of = column("into") /\ many = column("intoEdges")
    OBVIOUS
  <2>2. \A c \in clusters : /\ of[c] = Sum(f, {p \in crossing : target[p] = c})
                            /\ many[c] = Cardinality({p \in crossing : target[p] = c})
    BY <1>3, <1>4, <2>1
  <2>3. \A p \in crossing : f[p] \in Int /\ target[p] \in clusters
    BY <1>1, <1>2, <1>5
  <2>4. Grouped(crossing, f, clusters, target, of) /\ Counted(crossing, clusters, target, many)
    BY <2>2, <2>3 DEF Grouped, Counted
  <2>5. Sum(of, clusters) = Sum(f, crossing) /\ Sum(many, clusters) = Cardinality(crossing)
    BY <1>1, <2>3, <2>4, SumByKey, CountByKey
  <2>6. QED
    BY <2>1, <2>5
<1>10. /\ Sum(column("outOf"), clusters) = Sum(f, crossing)
       /\ Sum(column("outEdges"), clusters) = Cardinality(crossing)
  <2>1. PICK of, many : of = column("outOf") /\ many = column("outEdges")
    OBVIOUS
  <2>2. \A c \in clusters : /\ of[c] = Sum(f, {p \in crossing : source[p] = c})
                            /\ many[c] = Cardinality({p \in crossing : source[p] = c})
    BY <1>3, <1>4, <2>1
  <2>3. \A p \in crossing : f[p] \in Int /\ source[p] \in clusters
    BY <1>1, <1>2, <1>5
  <2>4. Grouped(crossing, f, clusters, source, of) /\ Counted(crossing, clusters, source, many)
    BY <2>2, <2>3 DEF Grouped, Counted
  <2>5. Sum(of, clusters) = Sum(f, crossing) /\ Sum(many, clusters) = Cardinality(crossing)
    BY <1>1, <2>3, <2>4, SumByKey, CountByKey
  <2>6. QED
    BY <2>1, <2>5
<1>11. Sum(column("inside"), clusters) = Sum(f, pairs \ crossing)
  <2>1. PICK of, rest : of = column("inside") /\ rest = pairs \ crossing
    OBVIOUS
  <2>2. \A c \in clusters : of[c] = Sum(f, {p \in rest : target[p] = c})
    BY <1>3, <1>4, <2>1
  <2>3. \A p \in rest : f[p] \in Int /\ target[p] \in clusters
    BY <1>2, <1>5, <2>1
  <2>4. Grouped(rest, f, clusters, target, of)
    BY <2>2, <2>3 DEF Grouped
  <2>5. Sum(of, clusters) = Sum(f, rest)
    BY <1>1, <2>1, <2>3, <2>4, SumByKey
  <2>6. QED
    BY <2>1, <2>5
<1>14. Sum(f, pairs) = Sum(f, pairs \ crossing) + Sum(f, crossing)
  BY <1>1, <1>5, SumSplit
<1>15. ASSUME NEW c \in clusters, NEW group, group = {gid \in U : member[gid] = c}
       PROVE  Summary(c).into = Sum([gid \in group |-> Bridge(graph, member, gid).into], group)
  <2> DEFINE entering == Entering(pairs, member, c)
             end == [p \in pairs |-> p[2]]
             of == [gid \in group |-> Bridge(graph, member, gid).into]
  <2>1. IsFiniteSet(entering) /\ entering \subseteq crossing
    BY <1>1, <1>4, FS_Subset
  <2>2. IsFiniteSet(group)
    BY <1>15, FS_Subset DEF U
  <2>3. \A p \in entering : end[p] = p[2] /\ end[p] \in group /\ f[p] \in Int
    BY <1>1, <1>2, <1>4, <1>5, <1>15, <2>1
  <2>4. ASSUME NEW gid \in group
        PROVE  of[gid] = Sum(f, {p \in entering : end[p] = gid})
    <3>1. of[gid] = Sum(f, {p \in crossing : p[2] = gid})
      <4>1. of[gid] = Bridge(graph, member, gid).into
        OBVIOUS
      <4>2. Bridge(graph, member, gid).into = Sum(graph.sum, Bridging(graph, member, gid))
        BY BridgeOfAccount
      <4>3. Bridging(graph, member, gid) = {p \in crossing : p[2] = gid}
        BY DEF crossing, Bridging
      <4>4. f = graph.sum
        BY DEF f
      <4> HIDE DEF of
      <4>5. QED
        BY <4>1, <4>2, <4>3, <4>4
    <3>2. {p \in crossing : p[2] = gid} = {p \in entering : end[p] = gid}
      <4>1. member[gid] = c
        BY <1>15
      <4>2. \A p \in crossing : p[2] = gid => p \in entering /\ end[p] = gid
        BY <1>1, <1>2, <1>4, <4>1
      <4>3. \A p \in entering : end[p] = gid => p \in crossing /\ p[2] = gid
        BY <2>1, <2>3
      <4>4. QED
        BY <4>2, <4>3
    <3>3. QED
      BY <3>1, <3>2
  <2> HIDE DEF of, end, entering
  <2>5. Grouped(entering, f, group, end, of)
    BY <2>3, <2>4 DEF Grouped
  <2>6. Sum(of, group) = Sum(f, entering)
    BY <2>1, <2>2, <2>3, <2>5, SumByKey
  <2>7. Summary(c).into = Sum(f, entering)
    BY <1>3, <1>7 DEF entering
  <2>8. QED
    BY <2>6, <2>7 DEF of
<1>16. QED
  BY <1>8, <1>9, <1>10, <1>11, <1>14, <1>15
     DEF FlowsBalance, f, U, crossing, column

\* The graph of the file, as the lemmas about graphs ask for it.
LEMMA MoneyIsAGraph ==
  ASSUME file \in Seq(Rows)
  PROVE  /\ Money.nodes = Accounts /\ Money.nodes \in SUBSET Int /\ IsFiniteSet(Money.nodes)
         /\ DOMAIN Money.sum = PairsOf(file) /\ IsFiniteSet(PairsOf(file))
         /\ PairsAmong(PairsOf(file), Accounts)
         /\ LinkedBy(Money) = AccountsOf(file) /\ AccountsOf(file) \subseteq Accounts
         /\ \A p \in PairsOf(file) : Money.sum[p] \in Int
         /\ Sum(Money.sum, PairsOf(file)) = Total(file)
<1> DEFINE pairs == PairsOf(file)
           D == DOMAIN file
           amounts == Amounts(file)
           at == PairAt(file)
           sums == [p \in pairs |-> SumOfPair(file, p)]
<1>1. Money.nodes = Accounts /\ Accounts \in SUBSET Int /\ IsFiniteSet(Accounts)
  BY AccountsAreFinite, MoneyIsTheFile
<1>2. DOMAIN Money.sum = pairs /\ \A p \in pairs : Money.sum[p] = SumOfPair(file, p)
  BY MoneyIsTheFile
<1>3. IsFiniteSet(pairs) /\ \A i \in D : at[i] \in pairs
  BY PairsAreOfRows
<1>4. \A r \in Rows : r.amount \in Int
  BY RowsAreTransfers
<1>5. OfPairs(file, amounts, sums)
  <2>1. PICK ones : ones = [i \in DOMAIN file |-> 1]
    OBVIOUS
  <2>2. QED
    BY <1>4, <2>1, PairTotals
<1>6. PairsAmong(pairs, Accounts) /\ AccountsOf(file) \subseteq Accounts
  BY AccountsOfRows DEF PairsAmong
<1>7. LinkedBy(Money) = AccountsOf(file)
  <2>1. LinkedBy(Money) = UNION {{p[1], p[2]} : p \in pairs}
    BY <1>2 DEF LinkedBy
  <2>2. \A x \in AccountsOf(file) : \E p \in pairs : x \in {p[1], p[2]}
    <3> SUFFICES ASSUME NEW x \in AccountsOf(file)
                 PROVE  \E p \in pairs : x \in {p[1], p[2]}
      OBVIOUS
    <3>1. PICK r \in ToSet(file) : x = r.src \/ x = r.dst
      BY DEF AccountsOf, SrcOf, DstOf
    <3>2. <<r.src, r.dst>> \in pairs
      BY DEF PairsOf
    <3>3. x \in {<<r.src, r.dst>>[1], <<r.src, r.dst>>[2]}
      BY <3>1
    <3>4. QED
      BY <3>2, <3>3
  <2>3. \A p \in pairs : p[1] \in AccountsOf(file) /\ p[2] \in AccountsOf(file)
    BY AccountsOfRows DEF PairsAmong
  <2> HIDE DEF pairs
  <2>4. QED
    BY <2>1, <2>2, <2>3
<1> HIDE DEF pairs, D, amounts, at, sums
<1>8. Grouped(D, amounts, pairs, at, sums) /\ \A i \in D : amounts[i] \in Int
  BY <1>3, <1>5 DEF OfPairs, Grouped, D, pairs, at
<1>9. IsFiniteSet(D)
  BY TableDomain DEF D
<1>10. Sum(amounts, D) = Sum(sums, pairs) /\ \A p \in pairs : sums[p] \in Int
  BY <1>3, <1>8, <1>9, SumByKey
<1>11. Total(file) = Sum(amounts, D)
  BY <1>4, TotalIsSum DEF amounts, D
<1>12. \A p \in pairs : Money.sum[p] = sums[p]
  BY <1>2 DEF sums
<1>13. Sum(Money.sum, pairs) = Sum(sums, pairs)
  <2>1. PICK f : f = Money.sum
    OBVIOUS
  <2>2. \A p \in pairs : f[p] \in Int /\ f[p] = sums[p]
    BY <1>10, <1>12, <2>1
  <2>3. Sum(f, pairs) = Sum(sums, pairs)
    BY <1>3, <2>2, SumSame
  <2>4. QED
    BY <2>1, <2>3
<1>14. QED
  BY <1>1, <1>2, <1>3, <1>6, <1>7, <1>10, <1>11, <1>12, <1>13 DEF pairs

\* The ways to part the accounts that are tried are ways to part them.
LEMMA PartitionsPart ==
  ASSUME NEW detected \in Partitions
  PROVE  Parts(detected, Linked)
<1>1. PICK S \in SUBSET Linked : detected = {part \in {S, Linked \ S} : part # {}}
  BY DEF Partitions
<1>2. \A part \in detected : part \subseteq Linked /\ part # {}
  BY <1>1
<1>3. \A x \in Linked : \E part \in detected : x \in part
  <2> SUFFICES ASSUME NEW x \in Linked
               PROVE  \E part \in detected : x \in part
    OBVIOUS
  <2>1. CASE x \in S
    BY <1>1, <2>1
  <2>2. CASE x \notin S
    <3>1. x \in Linked \ S /\ Linked \ S \in detected
      BY <1>1, <2>2
    <3>2. QED
      BY <3>1
  <2>3. QED
    BY <2>1, <2>2
<1>4. \A one, other \in detected : one \cap other # {} => one = other
  BY <1>1
<1>5. QED
  BY <1>2, <1>3, <1>4 DEF Parts

LEMMA MembersOfMoney ==
  ASSUME file \in Seq(Rows), NEW detected \in Partitions,
         NEW member, member = Communities(Money, detected)
  PROVE  Numbered(Money, member)
<1>1. Parts(detected, LinkedBy(Money))
  BY PartitionsPart, MoneyIsAGraph DEF Linked
<1>2. PICK graph : graph = Money
  OBVIOUS
<1>3. /\ graph.nodes \in SUBSET Int /\ IsFiniteSet(graph.nodes)
      /\ PairsAmong(DOMAIN graph.sum, graph.nodes)
      /\ Parts(detected, LinkedBy(graph)) /\ member = Communities(graph, detected)
  BY <1>1, <1>2, MoneyIsAGraph
<1>4. Numbered(graph, member)
  BY <1>3, ClustersAreNumbered
<1>5. QED
  BY <1>2, <1>4

LEMMA CountFromNone ==
  ASSUME NEW count \in Nat
  PROVE  IsFiniteSet(0 .. (count - 1)) /\ Cardinality(0 .. (count - 1)) = count
<1>1. PICK first, last \in Int : first = 0 /\ last = count - 1
  OBVIOUS
<1>2. IsFiniteSet(first .. last)
      /\ Cardinality(first .. last) = IF first > last THEN 0 ELSE last - first + 1
  BY FS_Interval
<1>3. QED
  BY <1>1, <1>2

\* However Louvain parts the accounts, the boundary flows of clusters.csv balance.
LEMMA ClustersBalance ==
  ASSUME file \in Seq(Rows)
  PROVE  ClusterFlowsBalance
<1> SUFFICES ASSUME NEW detected \in Partitions,
                    NEW member, member = Communities(Money, detected),
                    NEW summary, summary = [c \in {member[gid] : gid \in Accounts} |->
                                              ClusterSummary(Money, member, c)]
             PROVE  FlowsAddUp(Money, member, summary)
  BY DEF ClusterFlowsBalance
<1> DEFINE clusters == DOMAIN summary
           bridge == [gid \in Accounts |-> Bridge(Money, member, gid)]
           column(name) == [c \in clusters |-> ClusterSummary(Money, member, c)[name]]
           groupOf(c) == {gid \in Accounts : member[gid] = c}
           flows(c) == [gid \in groupOf(c) |-> Bridge(Money, member, gid).into]
<1>1. Numbered(Money, member)
  BY MembersOfMoney
<1>2. Money.nodes = Accounts
  BY MoneyIsAGraph
<1>3. clusters = {member[gid] : gid \in Accounts}
  OBVIOUS
<1>4. PICK count \in Nat : clusters = 0 .. (count - 1)
  BY <1>1, <1>2, <1>3 DEF Numbered
<1>5. IsFiniteSet(clusters) /\ Cardinality(clusters) = count
  BY <1>4, CountFromNone
<1>6. FlowsBalance(Money, member, clusters)
  <2>1. PICK graph, pairs : graph = Money /\ pairs = PairsOf(file)
    OBVIOUS
  <2>2. /\ IsFiniteSet(graph.nodes) /\ pairs = DOMAIN graph.sum /\ IsFiniteSet(pairs)
        /\ PairsAmong(pairs, graph.nodes) /\ \A p \in pairs : graph.sum[p] \in Int
        /\ clusters = {member[gid] : gid \in graph.nodes}
    BY <1>2, <1>3, <2>1, MoneyIsAGraph
  <2>3. FlowsBalance(graph, member, clusters)
    BY <1>5, <2>2, ClusterFlowsAddUp
  <2>4. QED
    BY <2>1, <2>3
<1>7. /\ Sum(column("nodes"), clusters) = Cardinality(Accounts)
      /\ Sum(column("into"), clusters) = Sum(column("outOf"), clusters)
      /\ Sum(column("intoEdges"), clusters) = Sum(column("outEdges"), clusters)
      /\ Sum(column("inside"), clusters) + Sum(column("into"), clusters) = Total(file)
      /\ \A c \in clusters : ClusterSummary(Money, member, c).into = Sum(flows(c), groupOf(c))
  <2>1. DOMAIN Money.sum = PairsOf(file) /\ Sum(Money.sum, PairsOf(file)) = Total(file)
    BY MoneyIsAGraph
  <2>2. QED
    BY <1>2, <1>6, <2>1 DEF FlowsBalance
<1>8. \A c \in clusters : summary[c] = ClusterSummary(Money, member, c)
  BY <1>3
<1>9. \A name \in {"nodes", "into", "outOf", "intoEdges", "outEdges", "inside"} :
        [c \in clusters |-> summary[c][name]] = column(name)
  BY <1>8
<1>10. \A c \in clusters : [gid \in groupOf(c) |-> bridge[gid].into] = flows(c)
  OBVIOUS
<1> HIDE DEF column, groupOf, flows, clusters, bridge
<1>11. /\ Sum([c \in clusters |-> summary[c]["nodes"]], clusters) = Cardinality(Accounts)
       /\ Sum([c \in clusters |-> summary[c]["into"]], clusters)
            = Sum([c \in clusters |-> summary[c]["outOf"]], clusters)
       /\ Sum([c \in clusters |-> summary[c]["intoEdges"]], clusters)
            = Sum([c \in clusters |-> summary[c]["outEdges"]], clusters)
       /\ Sum([c \in clusters |-> summary[c]["inside"]], clusters)
            + Sum([c \in clusters |-> summary[c]["into"]], clusters) = Total(file)
  BY <1>7, <1>9
<1>12. \A c \in clusters :
         summary[c].into = Sum([gid \in groupOf(c) |-> bridge[gid].into], groupOf(c))
  BY <1>7, <1>8, <1>10
<1>13. clusters = 0 .. (Cardinality(clusters) - 1)
  BY <1>4, <1>5
<1>14. QED
  BY <1>11, <1>12, <1>13 DEF FlowsAddUp, Sum, groupOf, clusters, bridge

-----------------------------------------------------------------------------
(* Removed accounts.                                                       *)

\* Both orders of removal name each account once.
LEMMA RankedForRemoval ==
  ASSUME NEW priority, DOMAIN priority \in SUBSET Int, IsFiniteSet(DOMAIN priority),
         \A gid \in DOMAIN priority : priority[gid] \in Int, NEW scenario
  PROVE  LET table == RankedGids(priority, scenario)
             count == Cardinality(DOMAIN priority)
         IN  /\ count \in Nat /\ DOMAIN table = 1 .. count
             /\ \A n \in 1 .. count : table[n] \in DOMAIN priority
             /\ \A gid \in DOMAIN priority : \E n \in 1 .. count : table[n] = gid
             /\ table \in [1 .. count -> ToSet(table)]
<1> DEFINE S == DOMAIN priority
           count == Cardinality(S)
           urgency == [gid \in S |-> IF scenario = "priority" THEN priority[gid] ELSE 0 - priority[gid]]
           Removed(a, b) == \/ IF scenario = "priority" THEN priority[a] > priority[b]
                                                       ELSE priority[a] < priority[b]
                            \/ priority[a] = priority[b] /\ a < b
           Ahead(a, b) == urgency[a] > urgency[b] \/ (urgency[a] = urgency[b] /\ a < b)
           table == RankedGids(priority, scenario)
           before == [x \in S |-> {y \in S : Ahead(y, x)}]
<1>1. \A a \in S : urgency[a] \in Int /\ a \in Int
  OBVIOUS
<1>2. \A a, b \in S : Removed(a, b) <=> Ahead(a, b)
  OBVIOUS
<1>3. DOMAIN table = 1 .. count
  BY DEF RankedGids, Ranked
<1>4. \A n \in 1 .. count :
        table[n] = CHOOSE x \in S : Cardinality({y \in S : Removed(y, x)}) = n - 1
  BY DEF RankedGids, Ranked
<1>15. table = [n \in 1 .. count |-> table[n]]
  <2> DEFINE place(n) == CHOOSE x \in S : Cardinality({y \in S : Removed(y, x)}) = n - 1
  <2>1. table = [n \in 1 .. count |-> place(n)]
    BY DEF RankedGids, Ranked
  <2> HIDE DEF place, table
  <2>2. QED
    BY <2>1
<1> HIDE DEF urgency, Removed, table, count, S
<1>5. \A x \in S : before[x] = {y \in S : Removed(y, x)}
  BY <1>2
<1>6. before \in [S -> SUBSET S] /\ \A x \in S : before[x] = {y \in S : Ahead(y, x)}
  OBVIOUS
<1>7. \A a \in S : ~ Ahead(a, a)
  BY <1>1, UrgencyOrders
<1>8. ASSUME NEW a \in S, NEW b \in S, NEW c \in S, Ahead(a, b), Ahead(b, c)
      PROVE  Ahead(a, c)
  BY <1>1, <1>8, UrgencyOrders
<1>9. ASSUME NEW a \in S, NEW b \in S
      PROVE  a = b \/ Ahead(a, b) \/ Ahead(b, a)
  BY <1>1, UrgencyOrders
<1> HIDE DEF Ahead, before
<1>10. StrictOrder(S, before)
  BY <1>6, <1>7, <1>8, <1>9 DEF StrictOrder
<1>11. Placed(S, before, table)
  <2>1. ASSUME NEW n \in 1 .. count, \E x \in S : Cardinality(before[x]) = n - 1
        PROVE  table[n] \in S /\ Cardinality(before[table[n]]) = n - 1
    <3>1. \E x \in S : Cardinality({y \in S : Removed(y, x)}) = n - 1
      BY <1>5, <2>1
    <3>2. table[n] \in S /\ Cardinality({y \in S : Removed(y, table[n])}) = n - 1
      BY <1>4, <3>1
    <3>3. QED
      BY <1>5, <3>2
  <2>2. QED
    BY <1>3, <2>1 DEF Placed, count
<1>12. /\ count \in Nat /\ \A n \in 1 .. count : table[n] \in S
       /\ \A gid \in S : \E n \in 1 .. count : table[n] = gid
  BY <1>3, <1>10, <1>11, TableOfASet DEF S, count
<1>13. table \in [1 .. count -> ToSet(table)]
  BY <1>3, <1>15 DEF ToSet
<1>14. QED
  BY <1>3, <1>12, <1>13 DEF S, count, table

\* A component of what is left lies in a component of what was left before.
LEMMA ComponentsShrink ==
  ASSUME NEW graph, NEW more, IsFiniteSet(more), NEW left \in SUBSET more
  PROVE  /\ ComponentMetrics(graph, left).largest \in Nat
         /\ ComponentMetrics(graph, left).largest <= ComponentMetrics(graph, more).largest
<1> DEFINE Among(U) == {p \in DOMAIN graph.sum : p[1] \in U /\ p[2] \in U}
           Part(U, gid) == Around(Among(U), {gid}, Cardinality(U))
           sizes(U) == {0} \cup {Cardinality(Part(U, gid)) : gid \in U}
<1>1. \A U : ComponentMetrics(graph, U).largest = Max(sizes(U))
  <2> SUFFICES ASSUME NEW U PROVE ComponentMetrics(graph, U).largest = Max(sizes(U))
    OBVIOUS
  <2>1. sizes(U) = {0} \cup {Cardinality(part) : part \in {Part(U, gid) : gid \in U}}
    OBVIOUS
  <2>2. QED
    BY <2>1 DEF ComponentMetrics
<1>2. IsFiniteSet(left)
  BY FS_Subset
<1>3. ASSUME NEW U, IsFiniteSet(U)
      PROVE  /\ \A gid \in U : IsFiniteSet(Part(U, gid)) /\ Cardinality(Part(U, gid)) \in Nat
             /\ IsFiniteSet(sizes(U)) /\ sizes(U) \in SUBSET Nat /\ sizes(U) # {}
  <2> DEFINE size == [gid \in U |-> Cardinality(Part(U, gid))]
  <2>1. PairsAmong(Among(U), U)
    BY DEF PairsAmong
  <2>2. ASSUME NEW gid \in U
        PROVE  IsFiniteSet(Part(U, gid)) /\ Cardinality(Part(U, gid)) \in Nat
    <3>1. Part(U, gid) \subseteq U
      <4> HIDE DEF Among
      <4>1. QED
        BY <1>3, <2>1, Components
    <3>2. QED
      BY <1>3, <3>1, FS_Subset, FS_CardinalityType
  <2>3. sizes(U) = {0} \cup {size[gid] : gid \in U}
    OBVIOUS
  <2>4. \A gid \in U : size[gid] \in Nat
    BY <2>2
  <2> HIDE DEF size, sizes
  <2>5. IsFiniteSet({size[gid] : gid \in U})
    BY <1>3, FiniteImage
  <2>9. IsFiniteSet({0})
    BY FS_Singleton
  <2>6. IsFiniteSet({0} \cup {size[gid] : gid \in U})
    BY <2>5, <2>9, FS_Union
  <2>7. IsFiniteSet(sizes(U)) /\ sizes(U) \in SUBSET Nat /\ sizes(U) # {}
    BY <2>3, <2>4, <2>6
  <2>8. QED
    BY <2>2, <2>7
<1>4. ASSUME NEW gid \in left
      PROVE  Part(left, gid) \subseteq Part(more, gid)
  <2>1. PairsAmong(Among(left), left) /\ PairsAmong(Among(more), more)
    BY DEF PairsAmong
  <2>2. Among(left) \subseteq Among(more)
    OBVIOUS
  <2> HIDE DEF Among
  <2>3. gid \in Part(more, gid) /\ Parted(Among(more), Part(more, gid))
    BY <2>1, Components
  <2>4. Parted(Among(left), Part(more, gid))
    BY <2>2, <2>3 DEF Parted
  <2>5. PICK S : S = Part(more, gid)
    OBVIOUS
  <2>6. Parted(Among(left), S) /\ gid \in S
    BY <2>3, <2>4, <2>5
  <2>7. Part(left, gid) \subseteq S
    BY <1>2, <2>1, <2>6, Components
  <2>8. QED
    BY <2>5, <2>7
<1>5. /\ Max(sizes(left)) \in sizes(left) /\ Max(sizes(left)) \in Nat
      /\ Max(sizes(more)) \in Nat /\ \A n \in sizes(more) : n <= Max(sizes(more))
  <2> HIDE DEF sizes
  <2>1. /\ sizes(left) \in SUBSET Nat /\ IsFiniteSet(sizes(left)) /\ sizes(left) # {}
        /\ sizes(more) \in SUBSET Nat /\ IsFiniteSet(sizes(more)) /\ sizes(more) # {}
    BY <1>2, <1>3
  <2>2. PICK s, t : s = sizes(left) /\ t = sizes(more)
    OBVIOUS
  <2>3. /\ s \in SUBSET Int /\ IsFiniteSet(s) /\ s # {} /\ s \in SUBSET Nat
        /\ t \in SUBSET Int /\ IsFiniteSet(t) /\ t # {} /\ t \in SUBSET Nat
    BY <2>1, <2>2
  <2>4. Max(s) \in s /\ Max(t) \in t /\ \A n \in t : Max(t) >= n
    BY <2>3, GreatestNumber
  <2>5. QED
    BY <2>2, <2>3, <2>4
<1>6. Max(sizes(left)) <= Max(sizes(more))
  <2>1. CASE Max(sizes(left)) = 0
    BY <1>5, <2>1
  <2>2. ASSUME NEW gid \in left, Max(sizes(left)) = Cardinality(Part(left, gid))
        PROVE  Max(sizes(left)) <= Max(sizes(more))
    <3>1. IsFiniteSet(Part(more, gid)) /\ Cardinality(Part(more, gid)) \in sizes(more)
      BY <1>3
    <3>2. PICK one, other : one = Part(left, gid) /\ other = Part(more, gid)
      OBVIOUS
    <3>3. Cardinality(one) <= Cardinality(other)
      BY <1>4, <3>1, <3>2, FS_Subset
    <3>4. Cardinality(one) \in Nat /\ Cardinality(other) \in Nat
      BY <1>2, <1>3, <3>2
    <3> HIDE DEF sizes
    <3>5. PICK m, n \in Int : m = Cardinality(one) /\ n = Cardinality(other)
      BY <3>4
    <3>9. PICK top \in Int : top = Max(sizes(more))
      BY <1>5
    <3>6. n <= top
      BY <1>5, <3>1, <3>2, <3>5, <3>9
    <3>7. m <= top
      BY <3>3, <3>5, <3>6
    <3>8. QED
      BY <2>2, <3>2, <3>5, <3>7, <3>9
  <2>3. QED
    BY <1>5, <2>1, <2>2
<1> HIDE DEF sizes
<1>7. QED
  BY <1>1, <1>5, <1>6

-----------------------------------------------------------------------------
(* Scores and priorities.                                                  *)

LEMMA FullIsNumber == Full \in Nat /\ Unit \in Nat
<1>1. PICK unit \in Nat : unit = Unit
  BY UnitAssumption
<1>2. 10000 * unit \in Nat
  OBVIOUS
<1>3. QED
  BY <1>1, <1>2 DEF Full

LEMMA SignalsAreShares ==
  ASSUME file \in Seq(Rows), NEW gid \in Accounts, NEW outside \in Outside,
         NEW s, s = Signals(Table, outside, gid)
  PROVE  /\ \A role \in Roles : \A name \in RoleWeightKeys[role] : s[name] \in 0 .. Unit
         /\ \A name \in PriorityWeightKeys \ Roles : s[name] \in 0 .. Unit
<1>1. /\ {s.in_degree, s.in_transactions, s.in_amount, s.authority, s.out_degree,
           s.out_transactions, s.out_amount, s.hub, s.seed_reach, s.component_structure,
           s.pagerank, s.betweenness, s.cross_cluster_bridge, s.daily_payers,
           s.daily_fan_out, s.degree_balance, s.amount_balance, s.balanced_flow,
           s.temporal_activity, s.observed_input, s.no_observed_output, s.turnover,
           s.retention, s.recipients_to_payers, s.pass_through, s.fast_forward,
           s.matched_out} \subseteq 0 .. Unit
  BY SignalsOfAccount, ZenonT(30)
<1>2. /\ \A name \in RoleWeightKeys["consolidator"] : s[name] \in 0 .. Unit
      /\ \A name \in RoleWeightKeys["transit"] : s[name] \in 0 .. Unit
  <2>1. \A name \in {"in_degree", "in_transactions", "in_amount", "authority", "seed_reach",
                     "retention", "daily_payers"} : s[name] \in 0 .. Unit
    BY <1>1
  <2>2. \A name \in {"pass_through", "fast_forward", "matched_out", "degree_balance",
                     "amount_balance", "betweenness", "temporal_activity"} :
          s[name] \in 0 .. Unit
    BY <1>1
  <2>3. QED
    BY <2>1, <2>2 DEF RoleWeightKeys
<1>3. /\ \A name \in RoleWeightKeys["distributor"] : s[name] \in 0 .. Unit
      /\ \A name \in RoleWeightKeys["terminal"] : s[name] \in 0 .. Unit
      /\ \A name \in RoleWeightKeys["coordinator"] : s[name] \in 0 .. Unit
  <2>1. \A name \in {"out_degree", "out_transactions", "out_amount", "hub",
                     "recipients_to_payers", "daily_fan_out"} : s[name] \in 0 .. Unit
    BY <1>1
  <2>2. \A name \in {"observed_input", "no_observed_output", "in_amount", "in_degree",
                     "retention", "authority"} : s[name] \in 0 .. Unit
    BY <1>1
  <2>3. \A name \in {"betweenness", "pagerank", "seed_reach", "cross_cluster_bridge",
                     "component_structure", "balanced_flow"} : s[name] \in 0 .. Unit
    BY <1>1
  <2>4. QED
    BY <2>1, <2>2, <2>3 DEF RoleWeightKeys
<1>4. PriorityWeightKeys \ Roles \subseteq {"pagerank", "betweenness", "seed_reach", "turnover"}
  BY RolesListed DEF PriorityWeightKeys
<1>5. QED
  BY <1>1, <1>2, <1>3, <1>4, RolesListed

\* The weights of a role are hundredths of a whole.
LEMMA WeightsAddUp ==
  ASSUME NEW role \in Roles
  PROVE  Sum(RoleWeights[role], RoleWeightKeys[role]) = 100
<1>1. role \in DOMAIN RoleWeights /\ DOMAIN RoleWeights[role] = RoleWeightKeys[role]
  BY RoleEngineAssumption DEF ConfigAccepted, Roles
<1>2. RoleWeights[role] \in {RoleWeights[r] : r \in DOMAIN RoleWeights} \cup {PriorityWeights}
  BY <1>1
<1>3. SumOver(DOMAIN RoleWeights[role], LAMBDA name : RoleWeights[role][name]) = 100
  BY <1>2, RoleEngineAssumption DEF ConfigAccepted
<1>4. QED
  BY <1>1, <1>3 DEF Sum

LEMMA WeightedIsShare ==
  ASSUME file \in Seq(Rows), NEW gid \in Accounts, NEW outside \in Outside,
         NEW s, s = Signals(Table, outside, gid), NEW role \in Roles
  PROVE  Weighted(RoleWeights[role], s) \in 0 .. Full
<1>1. PICK K : K = RoleWeightKeys[role]
  OBVIOUS
<1>2. PICK w : w = RoleWeights[role]
  OBVIOUS
<1>3. PICK added : added = Added(role, s)
  OBVIOUS
<1>4. PICK sum : sum = Sum(added, K)
  OBVIOUS
<1>5. /\ Weighted(w, s) = 100 * sum /\ sum \in Int
      /\ \A name \in K : added[name] = w[name] * s[name] /\ added[name] \in Int
  BY <1>1, <1>2, <1>3, <1>4, WeightedScore
<1>6. /\ IsFiniteSet(K) /\ \A name \in K : w[name] \in Nat
  BY <1>1, <1>2, KeysOfRoles
<1>7. \A name \in K : s[name] \in 0 .. Unit
  BY <1>1, SignalsAreShares
<1>8. PICK unit \in Nat : unit = Unit
  BY UnitAssumption
<1>9. PICK most : most = [name \in K |-> unit * w[name]]
  OBVIOUS
<1>10. \A name \in K : added[name] \in Nat /\ most[name] \in Int /\ added[name] <= most[name]
  <2> SUFFICES ASSUME NEW name \in K
               PROVE  added[name] \in Nat /\ most[name] \in Int /\ added[name] <= most[name]
    OBVIOUS
  <2>1. PICK x \in Nat : x = w[name]
    BY <1>6
  <2>2. PICK y \in Nat : y = s[name] /\ y <= unit
    BY <1>7, <1>8
  <2>3. x * y \in Int /\ x * unit \in Int /\ x * y <= x * unit
    BY <2>2, NoMoreThan
  <2>4. x * y \in Nat /\ unit * x = x * unit
    OBVIOUS
  <2>5. added[name] = x * y /\ most[name] = unit * x
    BY <1>5, <1>9, <2>1, <2>2
  <2>6. QED
    BY <2>3, <2>4, <2>5
<1>11. sum \in Nat
  BY <1>4, <1>6, <1>10, SumOfNumbers
<1>12. sum <= Sum(most, K)
  BY <1>4, <1>5, <1>6, <1>10, SumAtMost
<1>13. Sum(most, K) = unit * Sum(w, K)
  <2>1. \A name \in K : w[name] \in Int /\ most[name] = unit * w[name]
    BY <1>6, <1>9
  <2>2. QED
    BY <1>6, <2>1, SumScaled
<1>14. Sum(w, K) = 100
  BY <1>1, <1>2, WeightsAddUp
<1>15. sum <= 100 * unit
  BY <1>11, <1>12, <1>13, <1>14
<1>16. Full = 10000 * unit
  BY <1>8 DEF Full
<1>17. 100 * sum \in 0 .. Full
  BY <1>11, <1>15, <1>16
<1>18. QED
  BY <1>2, <1>5, <1>17

\* A core score is a part of the whole, for every account and every weighting.
LEMMA ScoresAreShares ==
  ASSUME file \in Seq(Rows), NEW gid \in Accounts, NEW outside \in Outside,
         NEW s, s = Signals(Table, outside, gid), NEW a
  PROVE  CoreScores(a, s) \in [Roles -> 0 .. Full]
<1>1. SeedPenalty \in 0 .. 100 /\ TerminalCap \in 0 .. 100
  BY RoleEngineAssumption DEF ConfigAccepted
<1>2. PICK unit \in Nat : Full = 10000 * unit /\ Full \in Nat
  BY FullIsNumber DEF Full
<1>3. \A role \in Roles : Weighted(RoleWeights[role], s) \in 0 .. Full
  BY WeightedIsShare
<1>4. \A x \in 0 .. Full : (x \div 100) * SeedPenalty \in 0 .. Full
  <2> SUFFICES ASSUME NEW x \in 0 .. Full
               PROVE  (x \div 100) * SeedPenalty \in 0 .. Full
    OBVIOUS
  <2>1. PICK q \in Nat : q = x \div 100
    OBVIOUS
  <2>2. q <= 100 * unit
    BY <1>2, <2>1
  <2>3. PICK p \in Nat : p = SeedPenalty /\ p <= 100
    BY <1>1
  <2>4. q * p \in Nat /\ q * p <= q * 100
    BY <2>3, NoMoreThan
  <2>5. q * 100 <= Full
    BY <1>2, <2>2
  <2>6. q * p \in 0 .. Full
    BY <1>2, <2>4, <2>5
  <2>7. QED
    BY <2>1, <2>3, <2>6
<1>5. \A x \in 0 .. Full : Min({x, (Full \div 100) * TerminalCap}) \in 0 .. Full
  <2>1. PICK cap \in Int : cap >= 0 /\ cap = (Full \div 100) * TerminalCap
    BY <1>1, UnitAssumption DEF Full
  <2>2. \A x \in Int : Min({x, cap}) \in {x, cap} /\ Min({x, cap}) <= x
    BY TwoNumbers
  <2>3. ASSUME NEW x \in 0 .. Full
        PROVE  Min({x, cap}) \in 0 .. Full
    <3>1. x \in Int /\ x >= 0 /\ x <= Full
      BY <1>2
    <3>2. Min({x, cap}) \in {x, cap} /\ Min({x, cap}) <= x
      BY <2>2, <3>1
    <3>3. PICK m \in Nat : m = Min({x, cap}) /\ m <= x
      BY <2>1, <3>1, <3>2
    <3>4. QED
      BY <1>2, <3>1, <3>2, <3>3
  <2>4. QED
    BY <2>1, <2>3
<1>6. QED
  BY <1>3, <1>4, <1>5 DEF CoreScores, Roles

LEMMA RolesAreFinite == IsFiniteSet(Roles)
<1>1. PICK a, b, c, d, e : /\ a = "consolidator" /\ b = "transit" /\ c = "distributor"
                           /\ d = "terminal" /\ e = "coordinator"
  OBVIOUS
<1>2. Roles = {a, b, c, d, e, e}
  BY <1>1, RolesListed
<1>3. QED
  BY <1>2, SixAreFinite

\* The score of the role that is named is a part of the whole, too.
LEMMA RoleScoreIsShare ==
  ASSUME NEW a, NEW scores \in [Roles -> 0 .. Full]
  PROVE  RoleScore(a, scores) \in 0 .. Full
<1>1. Full \in Nat
  BY FullIsNumber
<1>2. scores \in [Roles -> Int] /\ DOMAIN scores = Roles
  BY <1>1
<1>3. PICK top : top = Max({scores[role] : role \in DOMAIN scores})
  OBVIOUS
<1>4. /\ \E role \in Roles : scores[role] = top
      /\ \A role \in Roles : scores[role] <= top
      /\ top \in Int
  BY <1>2, <1>3, HighestScore
<1>5. top \in 0 .. Full
  BY <1>4
<1>6. PICK peripheral : peripheral = IF Isolated(a) THEN Full ELSE Full - top
  OBVIOUS
<1>7. peripheral \in 0 .. Full /\ peripheral \in Int /\ top \in Int
  BY <1>1, <1>5, <1>6
<1>8. PICK first : first = Max({top, peripheral})
  OBVIOUS
<1>9. first \in {top, peripheral} /\ first >= top /\ first >= peripheral
  BY <1>7, <1>8, TwoNumbers
<1>10. first \in 0 .. Full
  BY <1>5, <1>7, <1>9
<1>11. PICK others : others = IF peripheral >= top THEN DOMAIN scores
                              ELSE DOMAIN scores \ {CHOOSE role \in DOMAIN scores : scores[role] = top}
  OBVIOUS
<1>12. PICK S : S = {scores[role] : role \in others} \cup IF peripheral >= top THEN {} ELSE {peripheral}
  OBVIOUS
<1>13. S \subseteq 0 .. first
  <2>1. others \subseteq Roles
    BY <1>2, <1>11
  <2>2. \A role \in others : scores[role] \in 0 .. first
    BY <1>1, <1>4, <1>5, <1>9, <1>10, <2>1
  <2>3. peripheral \in 0 .. first
    BY <1>7, <1>9, <1>10
  <2>4. QED
    BY <1>12, <2>2, <2>3
<1>14. IsFiniteSet(S)
  <2>1. IsFiniteSet(0 .. first)
    BY <1>10, FS_Interval
  <2>2. QED
    BY <1>13, <2>1, FS_Subset
<1>15. S # {}
  <2>1. CASE peripheral >= top
    BY <1>2, <1>4, <1>11, <1>12, <2>1
  <2>2. CASE ~ (peripheral >= top)
    BY <1>12, <2>2
  <2>3. QED
    BY <2>1, <2>2
<1>16. PICK second : second = Max(S)
  OBVIOUS
<1>17. second \in 0 .. first
  <2>1. S \in SUBSET Int
    BY <1>13
  <2>2. Max(S) \in S
    BY <1>14, <1>15, <2>1, GreatestNumber
  <2>3. QED
    BY <1>13, <1>16, <2>2
<1>18. RoleScore(a, scores) = (80 * first + 20 * (first - second)) \div 100
  BY <1>3, <1>6, <1>8, <1>11, <1>12, <1>16 DEF RoleScore
<1>19. (80 * first + 20 * (first - second)) \div 100 \in 0 .. first
  <2>1. PICK n \in Nat : n = 80 * first + 20 * (first - second) /\ n <= 100 * first
    BY <1>10, <1>17
  <2>2. n \div 100 \in 0 .. first
    BY <1>10, <2>1
  <2>3. QED
    BY <2>1, <2>2
<1>20. QED
  BY <1>1, <1>10, <1>18, <1>19

LEMMA RoleIsListed ==
  ASSUME NEW a, NEW scores \in [Roles -> 0 .. Full]
  PROVE  RoleOfScores(a, scores) \in Roles \cup {"peripheral"}
<1>1. scores \in [Roles -> Int]
  BY FullIsNumber
<1>2. QED
  BY <1>1, NamedRole

\* What each driver adds to the priority is a number.
LEMMA ContributionsAreNumbers ==
  ASSUME file \in Seq(Rows), NEW gid \in Accounts, NEW outside \in Outside,
         NEW s, s = Signals(Table, outside, gid), NEW scores \in [Roles -> 0 .. Full]
  PROVE  /\ DOMAIN Contributions(scores, s) = PriorityWeightKeys
         /\ \A name \in PriorityWeightKeys : Contributions(scores, s)[name] \in Nat
<1>1. DOMAIN PriorityWeights = PriorityWeightKeys
      /\ \A name \in PriorityWeightKeys : PriorityWeights[name] \in Nat
  BY RoleEngineAssumption DEF ConfigAccepted
<1>2. \A name \in PriorityWeightKeys \ Roles : s[name] \in 0 .. Unit
  BY SignalsAreShares
<1>3. PICK unit \in Nat : unit = Unit
  BY UnitAssumption
<1>4. PICK full \in Nat : full = Full
  BY FullIsNumber
<1>5. \A name \in PriorityWeightKeys :
        (IF name \in DOMAIN scores THEN scores[name] \div 100 ELSE 100 * s[name]) \in Nat
  <2> SUFFICES ASSUME NEW name \in PriorityWeightKeys
               PROVE  (IF name \in Roles THEN scores[name] \div 100 ELSE 100 * s[name]) \in Nat
    OBVIOUS
  <2>1. CASE name \in Roles
    <3>1. PICK n \in Nat : n = scores[name]
      BY <1>4, <2>1
    <3>2. n \div 100 \in Nat
      OBVIOUS
    <3>3. QED
      BY <2>1, <3>1, <3>2
  <2>2. CASE name \notin Roles
    <3>1. PICK n \in Nat : n = s[name]
      BY <1>2, <1>3, <2>2
    <3>2. QED
      BY <2>2, <3>1
  <2>3. QED
    BY <2>1, <2>2
<1>6. \A m, n \in Nat : m * n \in Nat
  OBVIOUS
<1>7. QED
  BY <1>1, <1>5, <1>6 DEF Contributions

LEMMA PriorityKeysAreFinite == IsFiniteSet(PriorityWeightKeys)
<1>1. PICK a, b, c, d, e, f, g, h :
        /\ a = "coordinator" /\ b = "consolidator" /\ c = "distributor" /\ d = "transit"
        /\ e = "pagerank" /\ f = "betweenness" /\ g = "seed_reach" /\ h = "turnover"
  OBVIOUS
<1>2. IsFiniteSet({a, b, c, d}) /\ IsFiniteSet({e, f, g, h})
  <2>1. {a, b, c, d} = {a, b, c, d, d, d} /\ {e, f, g, h} = {e, f, g, h, h, h}
    OBVIOUS
  <2>2. QED
    BY <2>1, SixAreFinite
<1>3. IsFiniteSet({a, b, c, d} \cup {e, f, g, h})
  BY <1>2, FS_Union
<1>4. PriorityWeightKeys = {a, b, c, d} \cup {e, f, g, h}
  BY <1>1 DEF PriorityWeightKeys
<1>5. QED
  BY <1>3, <1>4

LEMMA QuotientsApart ==
  ASSUME NEW d \in Nat \ {0}, NEW m \in Nat, NEW n \in Nat, m + d <= n
  PROVE  m \div d < n \div d
<1>1. PICK p, q \in Int : p = m \div d /\ q = n \div d
  OBVIOUS
<1>2. /\ p * d <= m /\ m < (p + 1) * d
      /\ q * d <= n /\ n < (q + 1) * d
  BY <1>1, SMTT(30)
<1>3. (p + 1) * d < (q + 1) * d
  <2>1. (p + 1) * d = p * d + d
    OBVIOUS
  <2>2. (p + 1) * d \in Int /\ (q + 1) * d \in Int /\ p * d \in Int
    OBVIOUS
  <2>3. QED
    BY <1>2, <2>1, <2>2
<1>4. p < q
  BY <1>3, SMTT(30)
<1>5. QED
  BY <1>1, <1>4

\* Where there are no more accounts than parts of the whole, more of a value is a
\* higher rank.
LEMMA RanksTellApart ==
  ASSUME NEW value, IsFiniteSet(DOMAIN value), \A gid \in DOMAIN value : value[gid] \in Int,
         Cardinality(DOMAIN value) <= Unit,
         NEW ifLevel, NEW a \in DOMAIN value, NEW b \in DOMAIN value, value[a] < value[b]
  PROVE  RankScaled(value, a, ifLevel) < RankScaled(value, b, ifLevel)
<1>1. PICK count : count = Cardinality(DOMAIN value)
  OBVIOUS
<1>2. PICK lessA, levelA, lessB, levelB :
        /\ lessA = Below(value, a) /\ levelA = Level(value, a)
        /\ lessB = Below(value, b) /\ levelB = Level(value, b)
  OBVIOUS
<1>3. /\ count \in Nat \ {0}
      /\ lessA \in Nat /\ levelA \in Nat \ {0} /\ lessA + levelA <= count
      /\ lessB \in Nat /\ levelB \in Nat \ {0} /\ lessB + levelB <= count
      /\ value[a] < value[b] => lessA + levelA <= lessB
      /\ levelA = count => value[b] = value[a]
      /\ levelB = count => value[a] = value[b]
  BY <1>1, <1>2, Standings
<1>4. value[a] \in Int /\ value[b] \in Int /\ value[a] # value[b]
  OBVIOUS
<1>5. levelA # count /\ levelB # count /\ lessA + levelA <= lessB
  BY <1>3, <1>4
<1>6. PICK d, x, y : d = 2 * (count - 1) /\ x = 2 * lessA + levelA - 1 /\ y = 2 * lessB + levelB - 1
  OBVIOUS
<1>7. d \in Nat \ {0} /\ x \in Nat /\ y \in Nat /\ x + 2 <= y
  BY <1>3, <1>5, <1>6
<1>8. PICK unit \in Nat : unit = Unit
  BY FullIsNumber
<1>9. d <= 2 * unit
  BY <1>1, <1>3, <1>6, <1>8
<1>10. unit * x \in Nat /\ unit * y \in Nat /\ unit * x + d <= unit * y
  <2>1. unit * (x + 2) <= unit * y /\ unit * y \in Int
    BY <1>7, NoMoreThan
  <2>2. unit * (x + 2) = unit * x + 2 * unit /\ unit * x \in Nat /\ unit * y \in Nat
    BY <1>7
  <2>3. QED
    BY <1>7, <1>9, <2>1, <2>2
<1>11. (unit * x) \div d < (unit * y) \div d
  BY <1>7, <1>10, QuotientsApart
<1>12. /\ RankScaled(value, a, ifLevel) = (unit * x) \div d
       /\ RankScaled(value, b, ifLevel) = (unit * y) \div d
  BY <1>1, <1>2, <1>5, <1>6, <1>8 DEF RankScaled
<1>13. QED
  BY <1>11, <1>12

\* No driver is named exactly where no driver adds anything.
LEMMA DriversExplain ==
  ASSUME NEW c, IsFiniteSet(DOMAIN c), \A name \in DOMAIN c : c[name] \in Nat
  PROVE  /\ Sum(c, DOMAIN c) \in Nat
         /\ Drivers(c) = {} <=> Sum(c, DOMAIN c) = 0
<1> DEFINE positive == {name \in DOMAIN c : c[name] > 0}
<1>1. Sum(c, DOMAIN c) \in Nat /\ (Sum(c, DOMAIN c) = 0 => \A name \in DOMAIN c : c[name] = 0)
  BY SumOfNumbers
<1>2. ASSUME Sum(c, DOMAIN c) = 0
      PROVE  Drivers(c) = {}
  <2>1. positive = {}
    BY <1>1, <1>2
  <2>2. Drivers(c) \subseteq positive
    BY DEF Drivers
  <2>3. QED
    BY <2>1, <2>2
<1>3. ASSUME Sum(c, DOMAIN c) # 0
      PROVE  Drivers(c) # {}
  <2>1. positive # {}
    <3>1. CASE positive = {}
      <4>1. \A name \in DOMAIN c : c[name] = 0
        BY <3>1
      <4>2. QED
        BY <1>3, <4>1, SumOfNothing
    <3>2. QED
      BY <3>1
  <2>2. IsFiniteSet(positive)
    BY FS_Subset
  <2>3. PICK value : value = [name \in positive |-> c[name]]
    OBVIOUS
  <2>4. PICK V : V = {value[name] : name \in positive}
    OBVIOUS
  <2>5. IsFiniteSet(V)
    <3> HIDE DEF positive
    <3>1. IsFiniteSet({value[name] : name \in positive})
      BY <2>2, FiniteImage
    <3>2. QED
      BY <2>4, <3>1
  <2>6. V \in SUBSET Int /\ V # {}
    BY <2>1, <2>3, <2>4
  <2>7. Max(V) \in V /\ \A v \in V : Max(V) >= v
    BY <2>5, <2>6, GreatestNumber
  <2>8. PICK name \in positive : value[name] = Max(V)
    BY <2>4, <2>7
  <2>9. {n \in positive : c[n] > c[name]} = {}
    <3>1. \A n \in positive : c[n] \in V /\ c[n] \in Int /\ c[name] = Max(V)
      BY <2>3, <2>4, <2>8
    <3>2. QED
      BY <2>7, <3>1
  <2>10. Cardinality({n \in positive : c[n] > c[name]}) = 0
    BY <2>9, FS_EmptySet
  <2>11. 0 < TopDrivers
    BY ExportsAssumption
  <2>12. name \in Drivers(c)
    BY <2>10, <2>11 DEF Drivers
  <2>13. QED
    BY <2>12
<1>4. QED
  BY <1>1, <1>2, <1>3

\* What Priority ranks: the weighted sum of the drivers of each account.
RawPriorities(outside) ==
  [gid \in Accounts |->
     LET signals == Signals(Table, outside, gid)
     IN PriorityRaw(CoreScores(Table[gid], signals), signals)]

DriversOf(outside, gid) ==
  LET signals == Signals(Table, outside, gid)
  IN Drivers(Contributions(CoreScores(Table[gid], signals), signals))

LEMMA RawPriorityIsSum ==
  ASSUME file \in Seq(Rows), NEW outside \in Outside, NEW gid \in Accounts
  PROVE  /\ RawPriorities(outside)[gid] \in Nat
         /\ DriversOf(outside, gid) = {} <=> RawPriorities(outside)[gid] = 0
<1>1. PICK s : s = Signals(Table, outside, gid)
  OBVIOUS
<1>2. PICK scores : scores = CoreScores(Table[gid], s)
  OBVIOUS
<1>3. scores \in [Roles -> 0 .. Full]
  BY <1>1, <1>2, ScoresAreShares
<1>4. PICK c : c = Contributions(scores, s)
  OBVIOUS
<1>5. DOMAIN c = PriorityWeightKeys /\ \A name \in PriorityWeightKeys : c[name] \in Nat
  BY <1>1, <1>3, <1>4, ContributionsAreNumbers
<1>6. RawPriorities(outside)[gid] = PriorityRaw(scores, s)
  BY <1>1, <1>2 DEF RawPriorities
<1>7. PriorityRaw(scores, s) = Sum(Contributions(scores, s), DOMAIN Contributions(scores, s))
  BY DEF PriorityRaw, Sum
<1>8. RawPriorities(outside)[gid] = Sum(c, DOMAIN c)
  BY <1>4, <1>6, <1>7
<1>9. DriversOf(outside, gid) = Drivers(c)
  BY <1>1, <1>2, <1>4 DEF DriversOf
<1>10. Sum(c, DOMAIN c) \in Nat /\ (Drivers(c) = {} <=> Sum(c, DOMAIN c) = 0)
  <2>1. IsFiniteSet(DOMAIN c)
    BY <1>5, PriorityKeysAreFinite
  <2>2. QED
    BY <1>5, <2>1, DriversExplain
<1>11. QED
  BY <1>8, <1>9, <1>10

\* The priority where all sums are level.
LevelPriority(outside, gid) ==
  IF Cardinality(Accounts) = 1 THEN Min({Unit, RawPriorities(outside)[gid] \div 10000}) ELSE 0

LEMMA PrioritiesAreRanks ==
  ASSUME file \in Seq(Rows), NEW outside \in Outside
  PROVE  /\ DOMAIN Priority(Table, outside) = Accounts
         /\ \A gid \in Accounts :
              /\ Priority(Table, outside)[gid]
                   = RankScaled(RawPriorities(outside), gid, LevelPriority(outside, gid))
              /\ Priority(Table, outside)[gid] \in 0 .. Unit
<1>1. DOMAIN Table = Accounts
  BY DEF Table
<1>2. Priority(Table, outside) = [gid \in Accounts |->
        RankScaled(RawPriorities(outside), gid, LevelPriority(outside, gid))]
  BY <1>1 DEF Priority, RawPriorities, LevelPriority
<1>3. DOMAIN RawPriorities(outside) = Accounts
  BY DEF RawPriorities
<1>4. PICK raw : raw = RawPriorities(outside)
  OBVIOUS
<1>5. /\ IsFiniteSet(DOMAIN raw) /\ \A gid \in DOMAIN raw : raw[gid] \in Int
      /\ DOMAIN raw = Accounts
  <2>1. \A gid \in Accounts : raw[gid] \in Nat
    BY <1>4, RawPriorityIsSum
  <2>2. DOMAIN raw = Accounts
    BY <1>3, <1>4
  <2>3. IsFiniteSet(Accounts)
    BY AccountsAreFinite
  <2>4. QED
    BY <2>1, <2>2, <2>3
<1>6. ASSUME NEW gid \in Accounts
      PROVE  LevelPriority(outside, gid) \in 0 .. Unit
  <2>1. PICK share : share = raw[gid] \div 10000
    OBVIOUS
  <2>2. share \in Nat /\ Unit \in Nat
    <3>1. raw[gid] \in Nat
      BY <1>4, RawPriorityIsSum
    <3>2. PICK sum \in Nat : sum = raw[gid]
      BY <3>1
    <3>3. sum \div 10000 \in Nat
      BY SMTT(30)
    <3>4. QED
      BY <2>1, <3>2, <3>3, UnitAssumption
  <2>3. Min({Unit, share}) \in {Unit, share} /\ Min({Unit, share}) <= Unit
    <3>1. PICK whole \in Int : whole = Unit
      BY <2>2
    <3>2. share \in Int
      BY <2>2
    <3>3. Min({whole, share}) \in {whole, share} /\ Min({whole, share}) <= whole
      BY <3>2, TwoNumbers
    <3>4. QED
      BY <3>1, <3>3
  <2>4. PICK least : least = Min({Unit, share})
    OBVIOUS
  <2>5. least \in 0 .. Unit /\ 0 \in 0 .. Unit
    BY <2>2, <2>3, <2>4
  <2>6. QED
    BY <1>4, <2>1, <2>4, <2>5 DEF LevelPriority
<1>7. ASSUME NEW gid \in Accounts
      PROVE  RankScaled(raw, gid, LevelPriority(outside, gid)) \in 0 .. Unit
  <2>1. PICK share \in 0 .. Unit : share = LevelPriority(outside, gid)
    BY <1>6
  <2>2. raw[gid] <= raw[gid]
    BY <1>5
  <2>3. RankScaled(raw, gid, share) \in 0 .. Unit
    BY <1>5, <2>2, RanksKeepTheOrder
  <2>4. QED
    BY <2>1, <2>3
<1>8. QED
  BY <1>2, <1>4, <1>7

\* An account that no driver explains is not more urgent than one that has a driver.
LEMMA UnexplainedComeLast ==
  ASSUME file \in Seq(Rows), NEW outside \in Outside, Cardinality(Accounts) <= Unit,
         NEW a \in Accounts, NEW b \in Accounts,
         Priority(Table, outside)[b] <= Priority(Table, outside)[a], DriversOf(outside, a) = {}
  PROVE  DriversOf(outside, b) = {}
<1>1. PICK raw : raw = RawPriorities(outside)
  OBVIOUS
<1>2. DOMAIN raw = Accounts /\ IsFiniteSet(DOMAIN raw)
  BY <1>1, AccountsAreFinite DEF RawPriorities
<1>3. \A gid \in DOMAIN raw : raw[gid] \in Int
  BY <1>1, <1>2, RawPriorityIsSum
<1>4. raw[a] = 0 /\ raw[b] \in Nat
  BY <1>1, RawPriorityIsSum
<1>5. PICK p, q : /\ p = RankScaled(raw, a, LevelPriority(outside, a))
                  /\ q = RankScaled(raw, b, LevelPriority(outside, b))
  OBVIOUS
<1>6. p \in 0 .. Unit /\ q \in 0 .. Unit /\ q <= p
  BY <1>1, <1>5, PrioritiesAreRanks
<1>7. a = b \/ (LevelPriority(outside, a) = 0 /\ LevelPriority(outside, b) = 0)
  <2>1. Cardinality(Accounts) = 1 => a = b
    BY AccountsAreFinite, FS_Singleton
  <2>2. QED
    BY <2>1 DEF LevelPriority
<1>8. ~ (raw[a] < raw[b])
  <2>1. SUFFICES ASSUME raw[a] < raw[b]
                 PROVE  FALSE
    OBVIOUS
  <2>2. a # b
    BY <1>4, <2>1
  <2>3. RankScaled(raw, a, 0) < RankScaled(raw, b, 0)
    BY <1>2, <1>3, <2>1, RanksTellApart
  <2>4. p < q /\ p \in Int /\ q \in Int
    BY <1>5, <1>6, <1>7, <2>3, <2>2, FullIsNumber
  <2>5. QED
    BY <1>6, <2>4
<1>9. raw[b] = 0
  BY <1>4, <1>8
<1>10. QED
  BY <1>1, <1>9, RawPriorityIsSum

-----------------------------------------------------------------------------
(* Findings.                                                               *)

LEMMA IsolatedAccounts ==
  ASSUME file \in Seq(Rows), NEW gid \in Accounts, NEW a, a = Features(Money, file, gid)
  PROVE  Isolated(a) <=> gid \notin AccountsOf(file)
<1>1. PICK graph : graph = Money
  OBVIOUS
<1>2. DOMAIN graph.sum = PairsOf(file)
  BY <1>1, MoneyIsTheFile
<1>3. PICK ins, outs : ins = InPairs(graph, gid) /\ outs = OutPairs(graph, gid)
  OBVIOUS
<1>4. a.inDeg = Cardinality(ins) /\ a.outDeg = Cardinality(outs)
  BY <1>1, <1>3 DEF Features
<1>5. /\ ins = {p \in PairsOf(file) : p[2] = gid}
      /\ outs = {p \in PairsOf(file) : p[1] = gid}
  BY <1>2, <1>3 DEF InPairs, OutPairs
<1>6. IsFiniteSet(ins) /\ IsFiniteSet(outs)
  <2>1. IsFiniteSet(PairsOf(file))
    BY MoneyIsAGraph
  <2>2. ins \subseteq PairsOf(file) /\ outs \subseteq PairsOf(file)
    BY <1>5
  <2>3. QED
    BY <2>1, <2>2, FS_Subset
<1>7. (Cardinality(ins) = 0 <=> ins = {}) /\ (Cardinality(outs) = 0 <=> outs = {})
  BY <1>6, FS_EmptySet
<1>8. ins = {} /\ outs = {} <=> gid \notin AccountsOf(file)
  <2>1. /\ \A r \in ToSet(file) : <<r.src, r.dst>> \in PairsOf(file)
        /\ \A p \in PairsOf(file) : \E r \in ToSet(file) : p[1] = r.src /\ p[2] = r.dst
        /\ \A r \in ToSet(file) : <<r.src, r.dst>>[1] = r.src /\ <<r.src, r.dst>>[2] = r.dst
    BY DEF PairsOf
  <2>2. ins = {} <=> \A r \in ToSet(file) : r.dst # gid
    BY <1>5, <2>1
  <2>3. outs = {} <=> \A r \in ToSet(file) : r.src # gid
    BY <1>5, <2>1
  <2>4. gid \notin AccountsOf(file) <=> \A r \in ToSet(file) : r.src # gid /\ r.dst # gid
    BY DEF AccountsOf, SrcOf, DstOf
  <2>5. QED
    BY <2>2, <2>3, <2>4
<1>9. QED
  BY <1>4, <1>7, <1>8 DEF Isolated

\* What the files tell of an account agrees with where it stands in the graph.
Told(findings) ==
  /\ DOMAIN findings = Accounts
  /\ \A gid \in Accounts :
       LET found == findings[gid]
       IN /\ WellFormed(found)
          /\ found.evidence = "no links" => gid \notin AccountsOf(file)
          /\ gid \notin AccountsOf(file) => found.evidence \in {"no links", "boundary"}
          /\ found.role = "terminal" => found.evidence = "terminal"
  /\ \A a, b \in Accounts :
       findings[b].priority <= findings[a].priority /\ findings[a].drivers = {}
         => findings[b].drivers = {}

LEMMA FindingOfAccount ==
  ASSUME file \in Seq(Rows), NEW outside \in Outside, NEW gid \in Accounts,
         TerminalCap < RoleThreshold, NEW found, found = Findings(Table, outside)[gid]
  PROVE  /\ found.priority = Priority(Table, outside)[gid]
         /\ found.drivers = DriversOf(outside, gid)
         /\ WellFormed(found)
         /\ found.evidence = "no links" => gid \notin AccountsOf(file)
         /\ gid \notin AccountsOf(file) => found.evidence \in {"no links", "boundary"}
         /\ found.role = "terminal" => found.evidence = "terminal"
<1>1. PICK a : a = Table[gid]
  OBVIOUS
<1>2. a = Features(Money, file, gid)
  BY <1>1 DEF Table
<1>3. PICK s : s = Signals(Table, outside, gid)
  OBVIOUS
<1>4. PICK scores : scores = CoreScores(a, s)
  OBVIOUS
<1>5. scores \in [Roles -> 0 .. Full]
  BY <1>3, <1>4, ScoresAreShares
<1>6. PICK role : role = RoleOfScores(a, scores)
  OBVIOUS
<1>7. found = [role |-> role, roleScore |-> RoleScore(a, scores),
               priority |-> Priority(Table, outside)[gid],
               evidence |-> Evidence(a, role),
               drivers |-> Drivers(Contributions(scores, s))]
  BY <1>1, <1>3, <1>4, <1>6 DEF Findings, Table
<1>8. role \in Roles \cup {"peripheral"}
  BY <1>5, <1>6, RoleIsListed
<1>9. WellFormed(found)
  <2>1. RoleScore(a, scores) \in 0 .. Full
    BY <1>5, RoleScoreIsShare
  <2>2. Priority(Table, outside)[gid] \in 0 .. Unit
    BY PrioritiesAreRanks
  <2>3. QED
    BY <1>7, <1>8, <2>1, <2>2 DEF WellFormed, Roles
<1>10. found.drivers = DriversOf(outside, gid)
  BY <1>1, <1>3, <1>4, <1>7 DEF DriversOf
<1>11. Isolated(a) <=> gid \notin AccountsOf(file)
  BY <1>2, IsolatedAccounts
<1>12. role # "no links" /\ role # "boundary"
  BY <1>8, RolesListed
<1>13. found.evidence = Evidence(a, role)
  BY <1>7
<1>14. /\ found.evidence = "no links" => gid \notin AccountsOf(file)
       /\ gid \notin AccountsOf(file) => found.evidence \in {"no links", "boundary"}
  BY <1>11, <1>12, <1>13 DEF Evidence
<1>15. ASSUME role = "terminal"
       PROVE  Evidence(a, role) = role
  <2>1. scores \in [Roles -> Int]
    BY <1>5, FullIsNumber
  <2>2. ~ Isolated(a)
    BY <1>6, <1>15, <2>1, NamedRole
  <2>3. ~ a.truncated
    <3>1. SUFFICES ASSUME a.truncated
                   PROVE  FALSE
      OBVIOUS
    <3>2. \A r \in Roles : CoreScores(a, s)[r] \in Int
      BY <1>4, <2>1
    <3>3. "terminal" \in Roles
      BY RolesListed
    <3>4. Weighted(RoleWeights["terminal"], s) \in Int
      BY <1>3, <3>3, WeightedScores
    <3>5. RoleOfScores(a, CoreScores(a, s)) # "terminal"
      BY <3>1, <3>2, <3>4, NoTerminalAtTheEdge
    <3>6. QED
      BY <1>4, <1>6, <1>15, <3>5
  <2>4. QED
    BY <2>2, <2>3 DEF Evidence
<1>16. found.role = role /\ found.priority = Priority(Table, outside)[gid]
  BY <1>7
<1>17. QED
  BY <1>9, <1>10, <1>13, <1>14, <1>15, <1>16

LEMMA FindingsAreTold ==
  ASSUME file \in Seq(Rows), NEW outside \in Outside,
         TerminalCap < RoleThreshold, Cardinality(Accounts) <= Unit,
         NEW findings, findings = Findings(Table, outside)
  PROVE  Told(findings)
<1>1. DOMAIN findings = Accounts
  BY DEF Findings, Table
<1>2. \A gid \in Accounts :
        LET found == findings[gid]
        IN /\ WellFormed(found)
           /\ found.evidence = "no links" => gid \notin AccountsOf(file)
           /\ gid \notin AccountsOf(file) => found.evidence \in {"no links", "boundary"}
           /\ found.role = "terminal" => found.evidence = "terminal"
  BY FindingOfAccount
<1>3. \A gid \in Accounts : /\ findings[gid].priority = Priority(Table, outside)[gid]
                            /\ findings[gid].drivers = DriversOf(outside, gid)
  BY FindingOfAccount
<1>4. ASSUME NEW a \in Accounts, NEW b \in Accounts,
             findings[b].priority <= findings[a].priority, findings[a].drivers = {}
      PROVE  findings[b].drivers = {}
  <2>1. Priority(Table, outside)[b] <= Priority(Table, outside)[a] /\ DriversOf(outside, a) = {}
    BY <1>3, <1>4
  <2>2. DriversOf(outside, b) = {}
    BY <2>1, UnexplainedComeLast
  <2>3. QED
    BY <1>3, <2>2
<1>5. QED
  BY <1>1, <1>2, <1>4 DEF Told

-----------------------------------------------------------------------------
(* Removals.                                                               *)

Removed(priority, scenario, n) == ToSet(FirstOf(RankedGids(priority, scenario), n))

LEMMA RemovedAccounts ==
  ASSUME NEW priority, DOMAIN priority \in SUBSET Int, IsFiniteSet(DOMAIN priority),
         \A gid \in DOMAIN priority : priority[gid] \in Int, NEW scenario,
         NEW m \in Nat, NEW n \in Nat
  PROVE  /\ m <= n => Removed(priority, scenario, m) \subseteq Removed(priority, scenario, n)
         /\ n >= Cardinality(DOMAIN priority) =>
              DOMAIN priority \subseteq Removed(priority, scenario, n)
<1>1. PICK table, count : table = RankedGids(priority, scenario) /\ count = Cardinality(DOMAIN priority)
  OBVIOUS
<1>2. /\ count \in Nat /\ DOMAIN table = 1 .. count
      /\ \A k \in 1 .. count : table[k] \in DOMAIN priority
      /\ \A gid \in DOMAIN priority : \E k \in 1 .. count : table[k] = gid
      /\ table \in [1 .. count -> ToSet(table)]
  BY <1>1, RankedForRemoval
<1>3. ASSUME NEW most \in Nat
      PROVE  Removed(priority, scenario, most)
               = {table[k] : k \in 1 .. (IF most < count THEN most ELSE count)}
  <2>1. PICK kept : kept = IF most < count THEN most ELSE count
    OBVIOUS
  <2>2. /\ DOMAIN FirstOf(table, most) = 1 .. kept
        /\ \A k \in 1 .. kept : FirstOf(table, most)[k] = table[k]
    BY <1>2, <2>1, FirstRows
  <2>3. PICK seq : seq = FirstOf(table, most)
    OBVIOUS
  <2>4. ToSet(seq) = {table[k] : k \in 1 .. kept}
    BY <2>2, <2>3 DEF ToSet
  <2>5. QED
    BY <1>1, <2>1, <2>3, <2>4 DEF Removed
<1>4. PICK few, many : /\ few = (IF m < count THEN m ELSE count)
                       /\ many = (IF n < count THEN n ELSE count)
  OBVIOUS
<1>5. /\ Removed(priority, scenario, m) = {table[k] : k \in 1 .. few}
      /\ Removed(priority, scenario, n) = {table[k] : k \in 1 .. many}
  BY <1>3, <1>4
<1>6. ASSUME m <= n
      PROVE  Removed(priority, scenario, m) \subseteq Removed(priority, scenario, n)
  <2>1. 1 .. few \subseteq 1 .. many
    BY <1>2, <1>4, <1>6
  <2>2. QED
    BY <1>5, <2>1
<1>7. ASSUME n >= count
      PROVE  DOMAIN priority \subseteq Removed(priority, scenario, n)
  <2>1. many = count
    BY <1>2, <1>4, <1>7
  <2>2. QED
    BY <1>2, <1>5, <2>1
<1>8. QED
  BY <1>1, <1>6, <1>7

LEMMA NothingLeft ==
  ASSUME NEW graph
  PROVE  ComponentMetrics(graph, {}) = [largest |-> 0, parts |-> 0]
<1>1. PICK none \in Int : none = 0
  OBVIOUS
<1>2. Max({none}) = none
  BY DEF Max
<1>3. Max({0} \cup {}) = 0
  <2>1. {0} \cup {} = {none}
    BY <1>1
  <2>2. QED
    BY <1>1, <1>2, <2>1
<1>4. Cardinality({}) = 0
  BY FS_EmptySet
<1>5. \A pairs : {Around(pairs, {gid}, Cardinality({})) : gid \in {}} = {}
  OBVIOUS
<1>6. {Cardinality(part) : part \in {}} = {}
  OBVIOUS
<1>7. QED
  BY <1>3, <1>4, <1>5, <1>6 DEF ComponentMetrics

Shrinking(after, count) ==
  /\ \A m, n \in DOMAIN after : m <= n => after[n].largest <= after[m].largest
  /\ \A n \in DOMAIN after : n >= count => after[n] = [largest |-> 0, parts |-> 0]

LEMMA RemovalsShrink ==
  ASSUME file \in Seq(Rows), NEW outside \in Outside,
         NEW priority, priority = Priority(Table, outside), NEW scenario,
         NEW graph, graph = Money,
         NEW after, after = [n \in 0..(Cardinality(Accounts) + 1) |->
                               AfterRemoval(graph, priority, scenario, n)]
  PROVE  Shrinking(after, Cardinality(Accounts))
<1>1. /\ DOMAIN priority = Accounts /\ \A gid \in Accounts : priority[gid] \in Int
      /\ Accounts \in SUBSET Int /\ IsFiniteSet(Accounts)
  <2>1. \A gid \in Accounts : priority[gid] \in 0 .. Unit
    BY PrioritiesAreRanks
  <2>2. DOMAIN priority = Accounts
    BY PrioritiesAreRanks
  <2>3. QED
    BY <2>1, <2>2, AccountsAreFinite
<1>2. PICK count \in Nat : count = Cardinality(Accounts)
  BY <1>1, FS_CardinalityType
<1>3. DOMAIN after = 0 .. (count + 1)
  BY <1>2
<1>4. graph.nodes = Accounts
  BY MoneyIsTheFile
<1>5. \A n \in 0 .. (count + 1) :
        after[n] = ComponentMetrics(graph, Accounts \ Removed(priority, scenario, n))
  BY <1>2, <1>4 DEF AfterRemoval, Removed
<1>6. ASSUME NEW m \in 0 .. (count + 1), NEW n \in 0 .. (count + 1), m <= n
      PROVE  after[n].largest <= after[m].largest
  <2>1. PICK more, left : /\ more = Accounts \ Removed(priority, scenario, m)
                          /\ left = Accounts \ Removed(priority, scenario, n)
    OBVIOUS
  <2>2. Removed(priority, scenario, m) \subseteq Removed(priority, scenario, n)
    <3>1. m \in Nat /\ n \in Nat
      BY <1>2
    <3>2. QED
      BY <1>1, <1>6, <3>1, RemovedAccounts
  <2>3. left \in SUBSET more /\ more \in SUBSET Accounts
    BY <2>1, <2>2
  <2>4. IsFiniteSet(more)
    BY <1>1, <2>3, FS_Subset
  <2>5. ComponentMetrics(graph, left).largest <= ComponentMetrics(graph, more).largest
    BY <2>3, <2>4, ComponentsShrink
  <2>6. QED
    BY <1>5, <2>1, <2>5
<1>7. ASSUME NEW n \in 0 .. (count + 1), n >= count
      PROVE  after[n] = [largest |-> 0, parts |-> 0]
  <2>1. n \in Nat
    BY <1>2
  <2>2. Accounts \subseteq Removed(priority, scenario, n)
    BY <1>1, <1>2, <1>7, <2>1, RemovedAccounts
  <2>3. Accounts \ Removed(priority, scenario, n) = {}
    BY <2>2
  <2>4. QED
    BY <1>5, <2>3, NothingLeft
<1>8. QED
  BY <1>2, <1>3, <1>6, <1>7 DEF Shrinking

LEMMA RemovalShrinks ==
  ASSUME file \in Seq(Rows)
  PROVE  RemovalOnlyShrinks
<1>1. ASSUME NEW table \in {Table}, NEW graph \in {Money}, NEW outside \in Outside,
             NEW priority \in {Priority(table, outside)},
             NEW scenario \in {"priority", "low_priority"},
             NEW after \in {[n \in 0..(Cardinality(Accounts) + 1) |->
                               AfterRemoval(graph, priority, scenario, n)]}
      PROVE  Shrinking(after, Cardinality(Accounts))
  <2>1. /\ priority = Priority(Table, outside) /\ graph = Money
        /\ after = [n \in 0..(Cardinality(Accounts) + 1) |->
                      AfterRemoval(graph, priority, scenario, n)]
    OBVIOUS
  <2>2. QED
    BY <2>1, RemovalsShrink
<1>2. QED
  BY <1>1, Zenon DEF RemovalOnlyShrinks, Shrinking

-----------------------------------------------------------------------------
(* The files that are exported, next to each other.                        *)

\* The clusters, which are numbered from nothing, are listed in that order.
LEMMA SortedFromNone ==
  ASSUME NEW count \in Nat
  PROVE  /\ DOMAIN Sorted(0 .. (count - 1)) = 1 .. count
         /\ \A c \in 0 .. (count - 1) : Sorted(0 .. (count - 1))[c + 1] = c
<1>1. PICK S : S = 0 .. (count - 1)
  OBVIOUS
<1>2. IsFiniteSet(S) /\ Cardinality(S) = count
  BY <1>1, CountFromNone
<1>3. DOMAIN Sorted(S) = 1 .. count
  BY <1>2 DEF Sorted, Ranked
<1>4. ASSUME NEW x \in S
      PROVE  Cardinality({y \in S : y < x}) = x
  <2>1. PICK n \in Nat : n = x /\ n < count
    BY <1>1
  <2>2. {y \in S : y < x} = 0 .. (n - 1)
    BY <1>1, <2>1
  <2>3. QED
    BY <2>1, <2>2, CountFromNone
<1>5. ASSUME NEW c \in S
      PROVE  Sorted(S)[c + 1] = c
  <2>1. PICK n \in 1 .. count : n = c + 1 /\ n - 1 = c
    BY <1>1
  <2>2. Sorted(S)[n] = CHOOSE x \in S : Cardinality({y \in S : y < x}) = n - 1
    BY <1>2 DEF Sorted, Ranked
  <2>3. \A x \in S : Cardinality({y \in S : y < x}) = n - 1 <=> x = c
    BY <1>4, <2>1
  <2>4. QED
    BY <2>1, <2>2, <2>3
<1>6. QED
  BY <1>1, <1>3, <1>5

\* A list of the first of all, kept to one group, begins like the list of the group.
LEMMA ListsAgree ==
  ASSUME NEW S \in SUBSET Int, IsFiniteSet(S), NEW before, StrictOrder(S, before),
         NEW order, Placed(S, before, order), NEW group \in SUBSET S,
         NEW inside, inside = [x \in group |-> before[x] \cap group],
         NEW list, Placed(group, inside, list),
         NEW kept \in 0 .. Cardinality(S),
         NEW places, places = {i \in 1 .. kept : order[i] \in group}
  PROVE  /\ IsFiniteSet(places) /\ Cardinality(places) \in Nat
         /\ Cardinality(places) <= Cardinality(group)
         /\ \A k \in 1 .. Cardinality(places) : list[k] = order[Sorted(places)[k]]
<1>1. PICK count : count = Cardinality(S)
  OBVIOUS
<1>2. /\ count \in Nat /\ DOMAIN order = 1 .. count
      /\ \A n \in 1 .. count : order[n] \in S
      /\ \A x \in S : \E n \in 1 .. count : order[n] = x
      /\ \A m, n \in 1 .. count : m < n <=> order[m] \in before[order[n]]
      /\ \A m, n \in 1 .. count : order[m] = order[n] => m = n
  BY <1>1, TableOfASet
<1>3. places \subseteq 1 .. count /\ places \in SUBSET Int
  BY <1>1, <1>2
<1>4. IsFiniteSet(places)
  <2>1. IsFiniteSet(1 .. count)
    BY <1>2, FS_Interval
  <2>2. QED
    BY <1>3, <2>1, FS_Subset
<1>5. PICK number : number = Cardinality(places)
  OBVIOUS
<1>6. PICK sorted : sorted = Sorted(places)
  OBVIOUS
<1>7. /\ number \in Nat /\ DOMAIN sorted = 1 .. number
      /\ \A k \in 1 .. number : sorted[k] \in places
      /\ \A i \in places : \E k \in 1 .. number : sorted[k] = i
      /\ \A j, k \in 1 .. number : sorted[j] = sorted[k] => j = k
      /\ \A j, k \in 1 .. number : j < k <=> sorted[j] < sorted[k]
  <2>1. /\ Cardinality(places) \in Nat /\ DOMAIN Sorted(places) = 1 .. Cardinality(places)
        /\ \A n \in DOMAIN Sorted(places) : Sorted(places)[n] \in places
        /\ \A x \in places : \E n \in DOMAIN Sorted(places) : Sorted(places)[n] = x
        /\ \A m, n \in DOMAIN Sorted(places) : Sorted(places)[m] = Sorted(places)[n] => m = n
        /\ \A m, n \in DOMAIN Sorted(places) : m < n <=> Sorted(places)[m] < Sorted(places)[n]
    BY <1>3, <1>4, SortedNumbers
  <2>2. QED
    BY <1>5, <1>6, <2>1
<1>8. IsFiniteSet(group)
  BY FS_Subset
<1>9. StrictOrder(group, inside)
  <2>1. /\ before \in [S -> SUBSET S]
        /\ \A x \in S : x \notin before[x]
        /\ \A x, y \in S : y \in before[x] => before[y] \subseteq before[x]
        /\ \A x, y \in S : x = y \/ x \in before[y] \/ y \in before[x]
    BY DEF StrictOrder
  <2>2. \A x \in group : x \in S /\ inside[x] = before[x] \cap group
    OBVIOUS
  <2>3. inside \in [group -> SUBSET group]
    OBVIOUS
  <2>4. QED
    BY <2>1, <2>2, <2>3 DEF StrictOrder
<1>10. ASSUME NEW k \in 1 .. number
       PROVE  Cardinality(inside[order[sorted[k]]]) = k - 1
  <2>1. PICK x : x = order[sorted[k]]
    OBVIOUS
  <2>2. sorted[k] \in places /\ sorted[k] \in 1 .. count /\ x \in group
    BY <1>3, <1>7, <2>1
  <2>3. PICK name : name = [j \in 1 .. (k - 1) |-> order[sorted[j]]]
    OBVIOUS
  <2>4. \A j \in 1 .. (k - 1) : /\ j \in 1 .. number /\ j < k /\ name[j] = order[sorted[j]]
                                /\ sorted[j] \in places /\ sorted[j] \in 1 .. count
    BY <1>3, <1>7, <2>3
  <2>5. ASSUME NEW j \in 1 .. (k - 1)
        PROVE  name[j] \in inside[x]
    <3>1. sorted[j] < sorted[k]
      BY <1>7, <2>4
    <3>2. order[sorted[j]] \in before[x]
      BY <1>2, <2>1, <2>2, <2>4, <3>1
    <3>3. order[sorted[j]] \in group
      BY <2>4
    <3>4. QED
      BY <2>2, <2>4, <3>2, <3>3
  <2>6. ASSUME NEW i \in 1 .. (k - 1), NEW j \in 1 .. (k - 1), name[i] = name[j]
        PROVE  i = j
    <3>1. sorted[i] = sorted[j]
      BY <1>2, <2>4, <2>6
    <3>2. QED
      BY <1>7, <2>4, <3>1
  <2>7. ASSUME NEW y \in inside[x]
        PROVE  \E j \in 1 .. (k - 1) : name[j] = y
    <3>1. y \in before[x] /\ y \in group
      BY <2>2
    <3>2. PICK n \in 1 .. count : order[n] = y
      BY <1>2, <3>1
    <3>3. n < sorted[k]
      BY <1>2, <2>1, <2>2, <3>1, <3>2
    <3>4. n \in places
      BY <2>2, <3>1, <3>2, <3>3
    <3>5. PICK j \in 1 .. number : sorted[j] = n
      BY <1>7, <3>4
    <3>6. j < k
      BY <1>7, <3>3, <3>5
    <3>7. j \in 1 .. (k - 1)
      BY <1>7, <3>6
    <3>8. QED
      BY <2>4, <3>2, <3>5, <3>7
  <2>8. Renames(1 .. (k - 1), name, inside[x])
    BY <2>5, <2>6, <2>7 DEF Renames
  <2>9. PICK less \in Nat : less = k - 1
    BY <1>7
  <2>10. IsFiniteSet(1 .. less) /\ Cardinality(1 .. less) = less
    BY <2>9, FS_Interval
  <2>11. PICK f, g : f = [j \in 1 .. less |-> 0] /\ g = [y \in inside[x] |-> 0]
    OBVIOUS
  <2>12. /\ \A j \in 1 .. less : f[j] \in Int
         /\ \A j \in 1 .. less : g[name[j]] = f[j]
    BY <2>5, <2>9, <2>11
  <2>13. Cardinality(inside[x]) = Cardinality(1 .. less)
    BY <2>8, <2>9, <2>10, <2>12, SumRenamed
  <2>14. QED
    BY <2>1, <2>9, <2>10, <2>13
<1>11. PICK size : size = Cardinality(group)
  OBVIOUS
<1>12. /\ size \in Nat /\ DOMAIN list = 1 .. size
       /\ \A n \in 1 .. size : list[n] \in group
  BY <1>8, <1>9, <1>11, TableOfASet
<1>13. /\ \A x \in group : Cardinality(inside[x]) \in 0 .. (size - 1)
       /\ \A x, y \in group : x \in inside[y] <=> Cardinality(inside[x]) < Cardinality(inside[y])
  BY <1>8, <1>9, <1>11, PlacesOfASet
<1>14. ASSUME NEW k \in 1 .. number
       PROVE  k \in 1 .. size /\ list[k] = order[sorted[k]]
  <2>1. PICK x : x = order[sorted[k]]
    OBVIOUS
  <2>2. x \in group /\ Cardinality(inside[x]) = k - 1
    BY <1>7, <1>10, <2>1
  <2>3. k - 1 \in 0 .. (size - 1)
    BY <1>13, <2>2
  <2>4. k \in 1 .. size
    BY <1>7, <1>12, <2>3
  <2>5. list[k] \in group /\ Cardinality(inside[list[k]]) = k - 1
    BY <1>11, <2>2, <2>4 DEF Placed
  <2>6. x = list[k] \/ x \in inside[list[k]] \/ list[k] \in inside[x]
    BY <1>9, <2>2, <2>5 DEF StrictOrder
  <2>7. PICK below \in Int : below = k - 1
    BY <1>7
  <2>8. ~ (x \in inside[list[k]]) /\ ~ (list[k] \in inside[x])
    <3>1. PICK y \in group : y = list[k] /\ Cardinality(inside[y]) = below
      BY <2>5, <2>7
    <3>2. Cardinality(inside[x]) = below /\ ~ (below < below)
      BY <2>2, <2>7
    <3>3. ~ (x \in inside[y]) /\ ~ (y \in inside[x])
      BY <1>13, <2>2, <3>1, <3>2
    <3>4. QED
      BY <3>1, <3>3
  <2>9. QED
    BY <2>1, <2>4, <2>6, <2>8
<1>15. number <= size
  <2>1. CASE number = 0
    BY <1>12, <2>1
  <2>2. CASE number # 0
    <3>1. number \in 1 .. number
      BY <1>7, <2>2
    <3>2. number \in 1 .. size
      BY <1>14, <3>1
    <3>3. QED
      BY <1>12, <3>2
  <2>3. QED
    BY <2>1, <2>2
<1>16. QED
  BY <1>4, <1>5, <1>6, <1>7, <1>11, <1>14, <1>15

ClustersCount(findings, member, count) ==
  {member[gid] : gid \in DOMAIN findings} = 0 .. (count - 1)

RowsInOrder(clusters, findings, member, count) ==
  /\ DOMAIN clusters = 1 .. count
  /\ \A n \in 1 .. count : clusters[n] = ClusterRow(findings, member, Edges, Seeds, n - 1)

LEMMA ClusterRowsInOrder ==
  ASSUME NEW findings, NEW member, NEW count \in Nat, ClustersCount(findings, member, count),
         NEW clusters, clusters = ClusterRows(findings, member, Edges, Seeds)
  PROVE  RowsInOrder(clusters, findings, member, count)
<1>1. PICK order : order = Sorted(0 .. (count - 1))
  OBVIOUS
<1>2. DOMAIN order = 1 .. count /\ \A c \in 0 .. (count - 1) : order[c + 1] = c
  BY <1>1, SortedFromNone
<1>3. clusters = [n \in DOMAIN order |-> ClusterRow(findings, member, Edges, Seeds, order[n])]
  BY <1>1 DEF ClusterRows, ClustersCount
<1>4. \A n \in 1 .. count : order[n] = n - 1
  <2> SUFFICES ASSUME NEW n \in 1 .. count
               PROVE  order[n] = n - 1
    OBVIOUS
  <2>1. PICK c \in 0 .. (count - 1) : c = n - 1 /\ c + 1 = n
    OBVIOUS
  <2>2. QED
    BY <1>2, <2>1
<1>5. QED
  BY <1>2, <1>3, <1>4 DEF RowsInOrder

LEMMA InsideOfSummary ==
  ASSUME NEW graph, NEW member, NEW c
  PROVE  ClusterSummary(graph, member, c).inside
           = Sum(graph.sum, Staying(DOMAIN graph.sum, member, c))
<1> DEFINE edges(fromIn, toIn) ==
             {p \in DOMAIN graph.sum : (member[p[1]] = c) = fromIn /\ (member[p[2]] = c) = toIn}
<1>1. edges(TRUE, TRUE) = Staying(DOMAIN graph.sum, member, c)
  BY DEF Staying
<1>2. ClusterSummary(graph, member, c).inside = Sum(graph.sum, edges(TRUE, TRUE))
  BY DEF ClusterSummary, Sum
<1> HIDE DEF edges
<1>3. QED
  BY <1>1, <1>2

\* The money inside a cluster is the same from the table of edges as from the graph.
LEMMA InsideOfCluster ==
  ASSUME file \in Seq(Rows), NEW findings, DOMAIN findings = Accounts,
         NEW member, NEW c,
         NEW row, row = ClusterRow(findings, member, Edges, Seeds, c),
         NEW summary, summary = ClusterSummary(Money, member, c)
  PROVE  row.inside = summary.inside /\ row.nodes = summary.nodes
<1>1. PICK edges, graph : edges = Edges /\ graph = Money
  OBVIOUS
<1>2. PICK pairs : /\ IsFiniteSet(DOMAIN edges) /\ Renames(DOMAIN edges, pairs, PairsOf(file))
                   /\ \A n \in DOMAIN edges : edges[n] = Edge(pairs[n])
  BY <1>1, EdgesAreOfPairs
<1>3. /\ graph.nodes = Accounts /\ DOMAIN graph.sum = PairsOf(file)
      /\ \A p \in PairsOf(file) : graph.sum[p] \in Int /\ p[1] \in Accounts /\ p[2] \in Accounts
  BY <1>1, MoneyIsAGraph DEF PairsAmong
<1>4. \A n \in DOMAIN edges : /\ pairs[n] \in PairsOf(file)
                              /\ edges[n].src = pairs[n][1] /\ edges[n].dst = pairs[n][2]
                              /\ edges[n].sum = graph.sum[pairs[n]]
  <2>1. \A p \in PairsOf(file) : graph.sum[p] = SumOfPair(file, p)
    BY <1>1, MoneyIsTheFile
  <2>2. QED
    BY <1>2, <2>1 DEF Renames, Edge
<1>5. PICK group : group = {gid \in Accounts : member[gid] = c}
  OBVIOUS
<1>6. PICK within : within = {n \in DOMAIN edges : {edges[n].src, edges[n].dst} \subseteq group}
  OBVIOUS
<1>7. PICK sums : sums = [n \in DOMAIN edges |-> edges[n].sum]
  OBVIOUS
<1>8. row.nodes = Cardinality(group) /\ row.inside = Sum(sums, within)
  BY <1>1, <1>5, <1>6, <1>7 DEF ClusterRow, Sum
<1>9. PICK staying : staying = Staying(PairsOf(file), member, c)
  OBVIOUS
<1>10. summary.nodes = Cardinality(group) /\ summary.inside = Sum(graph.sum, staying)
  <2>1. PICK all : all = DOMAIN graph.sum
    OBVIOUS
  <2>2. summary = ClusterSummary(graph, member, c)
    BY <1>1
  <2>3. summary.nodes = Cardinality(group)
    BY <1>3, <1>5, <2>2 DEF ClusterSummary
  <2>4. summary.inside = Sum(graph.sum, Staying(all, member, c))
    BY <2>1, <2>2, InsideOfSummary
  <2>5. QED
    BY <1>3, <1>9, <2>1, <2>3, <2>4
<1>11. Renames(within, pairs, staying)
  <2>1. \A n \in DOMAIN edges : n \in within <=> pairs[n] \in staying
    BY <1>3, <1>4, <1>5, <1>6, <1>9 DEF Staying
  <2>2. within \subseteq DOMAIN edges /\ staying \subseteq PairsOf(file)
    BY <1>6, <1>9 DEF Staying
  <2>3. QED
    BY <1>2, <2>1, <2>2 DEF Renames
<1>12. IsFiniteSet(within)
  BY <1>2, <1>6, FS_Subset
<1>13. \A n \in within : sums[n] \in Int /\ graph.sum[pairs[n]] = sums[n]
  BY <1>3, <1>4, <1>6, <1>7
<1>14. Sum(sums, within) = Sum(graph.sum, staying)
  BY <1>11, <1>12, <1>13, SumRenamed
<1>15. QED
  BY <1>8, <1>10, <1>14

\* The most frequent role of a group is a role of one of its accounts.
LEMMA LeadingRoleIsOfGroup ==
  ASSUME NEW findings, NEW group \in SUBSET Int, IsFiniteSet(group), group # {}
  PROVE  \E gid \in group : LeadingRole(findings, group) = findings[gid].role
<1> DEFINE having(role) == {gid \in group : findings[gid].role = role}
           roles == {findings[gid].role : gid \in group}
           most == Max({Cardinality(having(role)) : role \in roles})
           leading == {gid \in group : Cardinality(having(findings[gid].role)) = most}
<1>1. \A role : Cardinality(having(role)) \in Nat
  BY FS_Subset, FS_CardinalityType
<1>2. PICK size : size = [gid \in group |-> Cardinality(having(findings[gid].role))]
  OBVIOUS
<1>3. PICK sizes : sizes = {size[gid] : gid \in group}
  OBVIOUS
<1>4. {Cardinality(having(role)) : role \in roles} = sizes
  BY <1>2, <1>3
<1>5. IsFiniteSet(sizes)
  <2>1. IsFiniteSet({size[gid] : gid \in group})
    BY FiniteImage
  <2>2. QED
    BY <1>3, <2>1
<1>6. sizes \in SUBSET Int /\ sizes # {}
  <2>1. ASSUME NEW gid \in group
        PROVE  size[gid] \in Int
    <3>1. PICK role : role = findings[gid].role
      OBVIOUS
    <3>2. size[gid] = Cardinality(having(role)) /\ Cardinality(having(role)) \in Nat
      BY <1>1, <1>2, <3>1
    <3>3. QED
      BY <3>2
  <2>2. QED
    BY <1>3, <2>1
<1>7. most \in sizes
  BY <1>4, <1>5, <1>6, GreatestNumber
<1>8. leading # {}
  BY <1>2, <1>3, <1>7
<1>9. IsFiniteSet(leading) /\ leading \in SUBSET Int
  BY FS_Subset
<1>10. Min(leading) \in leading
  <2> HIDE DEF leading
  <2>1. QED
    BY <1>8, <1>9, SmallestNumber
<1>11. LeadingRole(findings, group) = findings[Min(leading)].role
  BY DEF LeadingRole
<1>12. QED
  BY <1>10, <1>11

LEMMA AccountsOfEdges ==
  ASSUME file \in Seq(Rows)
  PROVE  AccountsOf(Edges) = AccountsOf(file)
<1>1. PICK edges : edges = Edges
  OBVIOUS
<1>2. ToSet(edges) = {Edge(p) : p \in PairsOf(file)}
  BY <1>1, EdgesAreOfPairs
<1>3. \A p : Edge(p).src = p[1] /\ Edge(p).dst = p[2]
  BY DEF Edge
<1>4. /\ \A r \in ToSet(file) : \E p \in PairsOf(file) : p[1] = r.src /\ p[2] = r.dst
      /\ \A p \in PairsOf(file) : \E r \in ToSet(file) : p[1] = r.src /\ p[2] = r.dst
  <2>1. \A r \in ToSet(file) : /\ <<r.src, r.dst>> \in PairsOf(file)
                               /\ <<r.src, r.dst>>[1] = r.src /\ <<r.src, r.dst>>[2] = r.dst
    BY DEF PairsOf
  <2>2. \A p \in PairsOf(file) : \E r \in ToSet(file) : p[1] = r.src /\ p[2] = r.dst
    BY DEF PairsOf
  <2>3. QED
    BY <2>1, <2>2
<1>5. SrcOf(edges) = SrcOf(file)
  <2>1. SrcOf(edges) = {p[1] : p \in PairsOf(file)}
    BY <1>2, <1>3 DEF SrcOf
  <2>2. {p[1] : p \in PairsOf(file)} = {r.src : r \in ToSet(file)}
    BY <1>4
  <2>3. QED
    BY <2>1, <2>2 DEF SrcOf
<1>6. DstOf(edges) = DstOf(file)
  <2>1. DstOf(edges) = {p[2] : p \in PairsOf(file)}
    BY <1>2, <1>3 DEF DstOf
  <2>2. {p[2] : p \in PairsOf(file)} = {r.dst : r \in ToSet(file)}
    BY <1>4
  <2>3. QED
    BY <2>1, <2>2 DEF DstOf
<1>7. QED
  BY <1>1, <1>5, <1>6 DEF AccountsOf

\* A cluster is called isolated exactly if it is one account without a transfer.
LEMMA HypothesisOfCluster ==
  ASSUME file \in Seq(Rows), NEW findings, Told(findings),
         NEW group \in SUBSET Accounts, NEW gid \in group
  PROVE  /\ Hypothesis(findings, group, AccountsOf(file)) = "isolated"
              => gid \notin AccountsOf(file)
         /\ group = {gid} /\ gid \notin AccountsOf(file)
              => Hypothesis(findings, group, AccountsOf(file)) = "isolated"
<1>1. IsFiniteSet(group) /\ group \in SUBSET Int /\ group # {}
  <2>1. IsFiniteSet(Accounts) /\ Accounts \subseteq Nat
    BY AccountsAreFinite
  <2>2. IsFiniteSet(group)
    BY <2>1, FS_Subset
  <2>3. QED
    BY <2>1, <2>2
<1>2. PICK lead : lead = LeadingRole(findings, group)
  OBVIOUS
<1>3. lead # "isolated"
  <2>1. PICK x \in group : lead = findings[x].role
    BY <1>1, <1>2, LeadingRoleIsOfGroup
  <2>2. findings[x].role \in Roles \cup {"peripheral"}
    BY DEF Told, WellFormed, Roles
  <2>3. QED
    BY <2>1, <2>2, RolesListed
<1>4. ASSUME Hypothesis(findings, group, AccountsOf(file)) = "isolated"
      PROVE  gid \notin AccountsOf(file)
  BY <1>2, <1>3, <1>4 DEF Hypothesis
<1>5. ASSUME group = {gid}, gid \notin AccountsOf(file)
      PROVE  Hypothesis(findings, group, AccountsOf(file)) = "isolated"
  <2>1. Cardinality(group) = 1
    BY <1>5, FS_Singleton
  <2>2. group \cap AccountsOf(file) = {}
    BY <1>5
  <2>3. QED
    BY <2>1, <2>2 DEF Hypothesis
<1>6. QED
  BY <1>4, <1>5

LEMMA SmallerOfTwo ==
  ASSUME NEW m \in Nat, NEW n \in Nat
  PROVE  Min({m, n}) = IF m < n THEN m ELSE n
<1>1. PICK a \in Int, b \in Int : a = m /\ b = n
  OBVIOUS
<1>2. PICK least : least = Min({a, b})
  OBVIOUS
<1>3. least \in {a, b} /\ least <= a /\ least <= b
  BY <1>2, TwoNumbers
<1>4. least = IF a < b THEN a ELSE b
  BY <1>3
<1>5. QED
  BY <1>1, <1>2, <1>4

LEMMA FirstOfRows ==
  ASSUME NEW T, NEW rows \in Seq(T), NEW most \in Nat,
         NEW kept, kept = IF most < Len(rows) THEN most ELSE Len(rows)
  PROVE  /\ FirstOf(rows, most) \in Seq(T) /\ Len(FirstOf(rows, most)) = kept
         /\ \A k \in 1 .. kept : FirstOf(rows, most)[k] = rows[k]
<1>1. PICK count \in Nat : count = Len(rows)
  BY LenProperties
<1>2. kept = IF most < count THEN most ELSE count
  BY <1>1
<1>3. kept \in Nat /\ kept <= count /\ kept <= most
  BY <1>2
<1>4. Min({most, count}) = kept
  BY <1>2, SmallerOfTwo
<1>5. FirstOf(rows, most) = SubSeq(rows, 1, kept)
  BY <1>1, <1>4 DEF FirstOf
<1>6. \A i \in 1 .. kept : rows[i] \in T
  BY <1>1, <1>3, ElementOfSeq
<1>7. /\ SubSeq(rows, 1, kept) \in Seq(T)
      /\ Len(SubSeq(rows, 1, kept)) = kept
      /\ \A i \in 1 .. kept : SubSeq(rows, 1, kept)[i] = rows[i]
  <2>1. PICK sub, one : sub = SubSeq(rows, one, kept) /\ one = 1
    OBVIOUS
  <2>2. /\ sub \in Seq(T) /\ Len(sub) = IF one <= kept THEN kept - one + 1 ELSE 0
        /\ \A i \in 1 .. (kept - one + 1) : sub[i] = rows[one + i - 1]
    BY <1>3, <1>6, <2>1, SubSeqProperties
  <2>3. Len(sub) = kept
    BY <1>3, <2>1, <2>2
  <2>4. \A i \in 1 .. kept : i \in 1 .. (kept - one + 1) /\ one + i - 1 = i
    BY <1>3, <2>1
  <2>5. \A i \in 1 .. kept : sub[i] = rows[i]
    BY <2>2, <2>4
  <2>6. QED
    BY <2>1, <2>2, <2>3, <2>5
<1>8. QED
  BY <1>5, <1>7

\* Two lists that agree with a third as far as they go agree in what both show.
LEMMA PrefixesAgree ==
  ASSUME NEW S, NEW one \in Seq(S), NEW other \in Seq(S), NEW list,
         \A k \in 1 .. Len(one) : one[k] = list[k],
         \A k \in 1 .. Len(other) : other[k] = list[k]
  PROVE  FirstOf(one, Min({Len(one), Len(other)})) = FirstOf(other, Min({Len(one), Len(other)}))
<1>1. PICK m \in Nat, n \in Nat : m = Len(one) /\ n = Len(other)
  BY LenProperties
<1>4. PICK both : both = Min({m, n})
  OBVIOUS
<1>5. both = IF m < n THEN m ELSE n
  BY <1>4, SmallerOfTwo
<1>6. both \in Nat /\ both <= m /\ both <= n
  BY <1>5
<1>7. PICK first, second : first = FirstOf(one, both) /\ second = FirstOf(other, both)
  OBVIOUS
<1>8. first \in Seq(S) /\ Len(first) = both /\ \A k \in 1 .. both : first[k] = one[k]
  <2>1. both = IF both < Len(one) THEN both ELSE Len(one)
    BY <1>1, <1>6
  <2>2. /\ FirstOf(one, both) \in Seq(S) /\ Len(FirstOf(one, both)) = both
        /\ \A k \in 1 .. both : FirstOf(one, both)[k] = one[k]
    BY <1>6, <2>1, FirstOfRows
  <2>3. QED
    BY <1>7, <2>2
<1>9. second \in Seq(S) /\ Len(second) = both /\ \A k \in 1 .. both : second[k] = other[k]
  <2>1. both = IF both < Len(other) THEN both ELSE Len(other)
    BY <1>1, <1>6
  <2>2. /\ FirstOf(other, both) \in Seq(S) /\ Len(FirstOf(other, both)) = both
        /\ \A k \in 1 .. both : FirstOf(other, both)[k] = other[k]
    BY <1>6, <2>1, FirstOfRows
  <2>3. QED
    BY <1>7, <2>2
<1>10. \A k \in 1 .. both : one[k] = list[k] /\ other[k] = list[k]
  BY <1>1, <1>6
<1>11. \A k \in 1 .. both : first[k] = second[k]
  BY <1>8, <1>9, <1>10
<1>12. first = second
  BY <1>8, <1>9, <1>11, SeqEqual
<1>13. QED
  BY <1>1, <1>4, <1>7, <1>12

\* A list is the beginning of another; two lists agree as far as both go.
Begins(S, seq, list) == seq \in Seq(S) /\ \A k \in 1 .. Len(seq) : seq[k] = list[k]

SameStart(one, other) ==
  FirstOf(one, Min({Len(one), Len(other)})) = FirstOf(other, Min({Len(one), Len(other)}))

LEMMA BeginningsAgree ==
  ASSUME NEW S, NEW list, NEW one, NEW other, Begins(S, one, list), Begins(S, other, list)
  PROVE  SameStart(one, other)
BY PrefixesAgree DEF Begins, SameStart

\* Accounts that can be ranked by their urgency.
Urgent(findings, S) ==
  S \in SUBSET Int /\ IsFiniteSet(S) /\ \A gid \in S : findings[gid].priority \in Int

\* The accounts of a list that are in a group, by the order of their urgency.
LEMMA PickedByUrgency ==
  ASSUME NEW findings, NEW S, Urgent(findings, S), NEW group \in SUBSET S, NEW gids,
         Begins(S, gids, ByPriority(findings, S)), Len(gids) <= Cardinality(S),
         NEW places, places = {n \in DOMAIN gids : gids[n] \in group}
  PROVE  /\ ByPriority(findings, group) \in Seq(S)
         /\ Begins(S, Picked(gids, places), ByPriority(findings, group))
<1>1. gids \in Seq(S) /\ \A n \in 1 .. Len(gids) : gids[n] = ByPriority(findings, S)[n]
   BY DEF Begins
<1>2. S \in SUBSET Int
  BY DEF Urgent
<1>3. IsFiniteSet(S)
  BY DEF Urgent
<1>4. \A gid \in S : findings[gid].priority \in Int
  BY DEF Urgent
<1>5. PICK order, before : order = ByPriority(findings, S) /\ before = MoreUrgent(findings, S)
  OBVIOUS
<1>6. StrictOrder(S, before) /\ Placed(S, before, order)
  BY <1>5, <1>2, <1>3, <1>4, UrgencyRanks
<1>7. PICK kept \in Nat : kept = Len(gids)
  BY <1>1, LenProperties
<1>8. DOMAIN gids = 1 .. kept /\ kept \in 0 .. Cardinality(S)
      /\ \A n \in 1 .. kept : gids[n] = order[n]
  <2>1. Cardinality(S) \in Nat
    BY <1>3, FS_CardinalityType
  <2>2. DOMAIN gids = 1 .. kept
    BY <1>7, <1>1, LenProperties
  <2>3. QED
    BY <1>5, <1>7, <1>1, <2>1, <2>2
<1>9. places = {n \in 1 .. kept : order[n] \in group} /\ places \in SUBSET DOMAIN gids
  BY <1>8
<1>10. PICK listed, list, inside : /\ listed = Picked(gids, places)
                                  /\ list = ByPriority(findings, group)
                                  /\ inside = MoreUrgent(findings, group)
  OBVIOUS
<1>11. IsFiniteSet(group) /\ group \in SUBSET Int
      /\ \A gid \in group : findings[gid].priority \in Int
  <2>1. IsFiniteSet(group)
    BY <1>3, FS_Subset
  <2>2. QED
    BY <1>2, <1>4, <2>1
<1>12. Placed(group, inside, list)
  BY <1>10, <1>11, UrgencyRanks
<1>13. inside = [x \in group |-> before[x] \cap group]
  <2>1. \A x \in group : x \in S /\ {y \in group :
             \/ findings[y].priority > findings[x].priority
             \/ findings[y].priority = findings[x].priority /\ y < x} = before[x] \cap group
    BY <1>5 DEF MoreUrgent
  <2>2. QED
    BY <1>10, <2>1 DEF MoreUrgent
<1>14. PICK number, sorted : number = Cardinality(places) /\ sorted = Sorted(places)
  OBVIOUS
<1>15. number \in Nat /\ listed \in Seq(S) /\ Len(listed) = number
       /\ \A k \in 1 .. number : listed[k] = gids[sorted[k]] /\ sorted[k] \in places
  <2>1. /\ Cardinality(places) \in Nat /\ Picked(gids, places) \in Seq(S)
        /\ Len(Picked(gids, places)) = Cardinality(places)
    BY <1>9, <1>1, PickedRows
  <2>2. \A n \in 1 .. Cardinality(places) : /\ Sorted(places)[n] \in places
                                            /\ Picked(gids, places)[n] = gids[Sorted(places)[n]]
    BY <1>9, <1>1, PickedRows
  <2>3. QED
    BY <1>10, <1>14, <2>1, <2>2
<1>16. number <= Cardinality(group) /\ \A k \in 1 .. number : list[k] = order[sorted[k]]
  <2>1. /\ Cardinality(places) <= Cardinality(group)
        /\ \A k \in 1 .. Cardinality(places) : list[k] = order[Sorted(places)[k]]
    BY <1>6, <1>8, <1>9, <1>12, <1>13, <1>2, <1>3, ListsAgree
  <2>2. QED
    BY <1>14, <2>1
<1>17. list \in Seq(S) /\ Len(list) = Cardinality(group)
  <2>1. PICK size \in Nat : size = Cardinality(group)
    BY <1>11, FS_CardinalityType
  <2>2. list \in [1 .. size -> ToSet(list)] /\ \A n \in DOMAIN list : list[n] \in group
    BY <1>10, <1>11, <2>1, MostUrgentFirst
  <2>3. Len(list) = size
    BY <2>2, LengthOfTable
  <2>4. list \in [1 .. size -> S]
    BY <2>2
  <2>5. list \in Seq(S)
    BY <2>4
  <2>6. QED
    BY <2>1, <2>3, <2>5
<1>18. \A k \in 1 .. number : listed[k] = list[k]
  BY <1>8, <1>9, <1>15, <1>16
<1>19. QED
  <2>1. listed \in Seq(S) /\ \A k \in 1 .. Len(listed) : listed[k] = list[k]
    BY <1>15, <1>18
  <2>2. Begins(S, listed, list)
    BY <2>1 DEF Begins
  <2>3. QED
    BY <1>10, <1>17, <2>2

\* The accounts of the top list, and those of a list that are in a cluster.
TopGids(top) == [m \in DOMAIN top |-> top[m].gid]

ListedIn(gids, member, c) == Picked(gids, {i \in DOMAIN gids : member[gids[i]] = c})

\* A list of clusters.csv begins like the top list, kept to the cluster.
LEMMA TopsAgree ==
  ASSUME NEW findings, NEW member, Exportable(findings, member), NEW top, top = TopRows(findings),
         NEW edges, NEW seeds, NEW c, NEW row, row = ClusterRow(findings, member, edges, seeds, c),
         NEW gids, gids = TopGids(top), NEW listed, listed = ListedIn(gids, member, c)
  PROVE  SameStart(listed, row.top)
<1>1. PICK S \in SUBSET Int : S = DOMAIN findings
  BY ExportableFindings
<1>2. IsFiniteSet(S) /\ \A gid \in S : findings[gid].priority \in Int
  BY <1>1, ExportableFindings
<1>3. PICK count, kept, order : /\ count = Cardinality(S)
                                /\ kept = IF TopNodes < count THEN TopNodes ELSE count
                                /\ order = ByPriority(findings, S)
  OBVIOUS
<1>4. /\ kept \in 0 .. count /\ count \in Nat /\ DOMAIN top = 1 .. kept
      /\ \A n \in DOMAIN top : top[n].gid \in S /\ top[n].gid = order[n]
  BY <1>1, <1>3, TopListIsTheTop
<1>5. gids \in [1 .. kept -> S] /\ \A n \in 1 .. kept : gids[n] = order[n]
  BY <1>4 DEF TopGids
<1>6. gids \in Seq(S) /\ Len(gids) = kept
  BY <1>4, <1>5, LengthOfTable
<1>7. PICK group : group = {gid \in S : member[gid] = c}
  OBVIOUS
<1>8. PICK places : places = {n \in DOMAIN gids : gids[n] \in group}
  OBVIOUS
<1>9. listed = Picked(gids, places)
  <2>1. {i \in DOMAIN gids : member[gids[i]] = c} = places
    BY <1>5, <1>7, <1>8
  <2>2. QED
    BY <2>1 DEF ListedIn
<1>10. PICK list : list = ByPriority(findings, group)
  OBVIOUS
<1>11. list \in Seq(S) /\ Begins(S, listed, list)
  <2>1. group \in SUBSET S /\ Len(gids) <= Cardinality(S)
    BY <1>3, <1>4, <1>6, <1>7
  <2>2. Begins(S, gids, ByPriority(findings, S))
    BY <1>3, <1>5, <1>6 DEF Begins
  <2>3. Urgent(findings, S)
    BY <1>2 DEF Urgent
  <2>4. /\ ByPriority(findings, group) \in Seq(S)
        /\ Begins(S, Picked(gids, places), ByPriority(findings, group))
    BY <1>8, <2>1, <2>2, <2>3, PickedByUrgency
  <2>5. QED
    BY <1>9, <1>10, <2>4
<1>12. PICK other : other = row.top
  OBVIOUS
<1>13. other = FirstOf(list, TopOfGroup)
  BY <1>1, <1>7, <1>10, <1>12 DEF ClusterRow
<1>14. Begins(S, other, list)
  <2>1. PICK most, size : most = TopOfGroup /\ size = IF most < Len(list) THEN most ELSE Len(list)
    OBVIOUS
  <2>2. /\ FirstOf(list, most) \in Seq(S) /\ Len(FirstOf(list, most)) = size
        /\ \A k \in 1 .. size : FirstOf(list, most)[k] = list[k]
    BY <1>11, <2>1, ExportsAssumption, FirstOfRows
  <2>3. Begins(S, FirstOf(list, most), list)
    BY <2>2 DEF Begins
  <2>4. QED
    BY <1>13, <2>1, <2>3
<1>15. SameStart(listed, other)
  BY <1>11, <1>14, BeginningsAgree
<1>16. QED
  BY <1>12, <1>15

\* Each row of clusters.csv agrees with the graph and with the top list.
LEMMA RowOfClusterAgrees ==
  ASSUME file \in Seq(Rows), NEW findings, DOMAIN findings = Accounts,
         NEW member, Exportable(findings, member), NEW top, top = TopRows(findings),
         NEW c, NEW row, row = ClusterRow(findings, member, Edges, Seeds, c)
  PROVE  ClusterAgrees(Money, member, top, row)
<1>1. row.cluster = c
  BY DEF ClusterRow
<1>2. PICK summary : summary = ClusterSummary(Money, member, c)
  OBVIOUS
<1>3. row.inside = summary.inside /\ row.nodes = summary.nodes
  BY <1>2, InsideOfCluster
<1>4. PICK gids : gids = TopGids(top)
  OBVIOUS
<1>5. PICK listed : listed = ListedIn(gids, member, c)
  OBVIOUS
<1>6. SameStart(listed, row.top)
  BY <1>4, <1>5, TopsAgree
<1>7. QED
  BY <1>1, <1>2, <1>3, <1>4, <1>5, <1>6, Zenon DEF ClusterAgrees, SameStart, Where, TopGids, ListedIn

LEMMA ClustersAgree ==
  ASSUME file \in Seq(Rows), NEW findings, DOMAIN findings = Accounts,
         NEW member, Exportable(findings, member), Numbered(Money, member),
         NEW top, top = TopRows(findings),
         NEW clusters, clusters = ClusterRows(findings, member, Edges, Seeds)
  PROVE  \A n \in DOMAIN clusters : ClusterAgrees(Money, member, top, clusters[n])
<1>1. PICK count \in Nat : {member[gid] : gid \in DOMAIN findings} = 0 .. (count - 1)
  BY MoneyIsAGraph DEF Numbered
<1>2. RowsInOrder(clusters, findings, member, count)
  <2>1. ClustersCount(findings, member, count)
    BY <1>1 DEF ClustersCount
  <2>2. QED
    BY <2>1, ClusterRowsInOrder
<1>3. ASSUME NEW n \in DOMAIN clusters
      PROVE  ClusterAgrees(Money, member, top, clusters[n])
  <2>1. PICK row, c : row = clusters[n] /\ c = n - 1
    OBVIOUS
  <2>2. row = ClusterRow(findings, member, Edges, Seeds, c)
    BY <1>2, <1>3, <2>1 DEF RowsInOrder
  <2>3. QED
    BY <2>1, <2>2, RowOfClusterAgrees
<1>4. QED
  BY <1>3

\* Each row of nodes_roles.csv agrees with the row of its cluster.
LEMMA AccountsAgree ==
  ASSUME file \in Seq(Rows), NEW findings, Told(findings),
         NEW member, Exportable(findings, member), Numbered(Money, member),
         NEW nodes, nodes = NodeRows(findings, member),
         NEW clusters, clusters = ClusterRows(findings, member, Edges, Seeds)
  PROVE  \A n \in DOMAIN nodes : AccountAgrees(nodes[n], clusters[nodes[n].cluster + 1])
<1>1. DOMAIN findings = Accounts /\ Money.nodes = Accounts /\ LinkedBy(Money) = AccountsOf(file)
  BY MoneyIsAGraph DEF Told
<1>2. PICK count \in Nat : {member[gid] : gid \in DOMAIN findings} = 0 .. (count - 1)
  BY <1>1 DEF Numbered
<1>3. RowsInOrder(clusters, findings, member, count)
  <2>1. ClustersCount(findings, member, count)
    BY <1>2 DEF ClustersCount
  <2>2. QED
    BY <2>1, ClusterRowsInOrder
<1>4. ASSUME NEW n \in DOMAIN nodes
      PROVE  AccountAgrees(nodes[n], clusters[nodes[n].cluster + 1])
  <2>1. PICK row, gid : row = nodes[n] /\ gid = row.gid
    OBVIOUS
  <2>2. /\ gid \in DOMAIN findings /\ row.cluster = member[gid]
        /\ row.role = findings[gid].role /\ row.evidence = findings[gid].evidence
    BY <1>4, <2>1, NodeTable
  <2>3. PICK c \in Nat : c = row.cluster
    BY <2>2, ExportableFindings
  <2>4. c + 1 \in 1 .. count /\ (c + 1) - 1 = c
    BY <1>2, <2>2, <2>3
  <2>5. PICK cluster : cluster = clusters[c + 1]
    OBVIOUS
  <2>6. cluster = ClusterRow(findings, member, Edges, Seeds, c)
    BY <1>3, <2>4, <2>5 DEF RowsInOrder
  <2>7. PICK group : group = {g \in DOMAIN findings : member[g] = c}
    OBVIOUS
  <2>8. cluster.hypothesis = Hypothesis(findings, group, AccountsOf(file))
    BY <2>6, <2>7, AccountsOfEdges DEF ClusterRow
  <2>9. group \in SUBSET Accounts /\ gid \in group
    BY <1>1, <2>2, <2>3, <2>7
  <2>10. gid \notin AccountsOf(file) => group = {gid}
    BY <1>1, <2>2, <2>3, <2>7, <2>9 DEF Numbered
  <2>11. cluster.hypothesis = "isolated" <=> gid \notin AccountsOf(file)
    BY <2>8, <2>9, <2>10, HypothesisOfCluster
  <2>12. /\ row.evidence = "no links" => gid \notin AccountsOf(file)
         /\ gid \notin AccountsOf(file) => row.evidence \in {"no links", "boundary"}
         /\ row.role = "terminal" => row.evidence = "terminal"
    BY <2>2, <1>1 DEF Told
  <2>13. AccountAgrees(row, cluster)
    BY <2>11, <2>12 DEF AccountAgrees
  <2>14. QED
    BY <2>1, <2>3, <2>5, <2>13
<1>5. QED
  BY <1>4

\* An account without a driver stands behind those that have one.
LEMMA UnexplainedLast ==
  ASSUME NEW findings, Told(findings), NEW member, Exportable(findings, member),
         NEW top, top = TopRows(findings)
  PROVE  \A m, n \in DOMAIN top : m < n /\ top[m].drivers = {} => top[n].drivers = {}
<1>1. ASSUME NEW m \in DOMAIN top, NEW n \in DOMAIN top, m < n, top[m].drivers = {}
      PROVE  top[n].drivers = {}
  <2>1. PICK a, b : a = top[m].gid /\ b = top[n].gid
    OBVIOUS
  <2>2. a \in DOMAIN findings /\ b \in DOMAIN findings
    BY <1>1, <2>1, TopListIsTheTop
  <2>3. /\ top[m].priority = findings[a].priority /\ top[n].priority = findings[b].priority
        /\ top[m].drivers = findings[a].drivers /\ top[n].drivers = findings[b].drivers
    BY <1>1, <2>1, TopListIsTheTop
  <2>4. top[m].priority >= top[n].priority
    BY <1>1, TopListIsTheTop
  <2>5. findings[a].priority \in Int /\ findings[b].priority \in Int
    BY <2>2, ExportableFindings
  <2>6. findings[b].priority <= findings[a].priority
    BY <2>3, <2>4, <2>5
  <2>7. QED
    BY <1>1, <2>2, <2>3, <2>6 DEF Told
<1>2. QED
  BY <1>1

\* What the analysis found can be exported.
LEMMA ToldIsExportable ==
  ASSUME file \in Seq(Rows), Rows # {}, NEW findings, Told(findings),
         NEW member, Numbered(Money, member)
  PROVE  Exportable(findings, member)
<1>1. DOMAIN findings = Accounts /\ \A gid \in Accounts : WellFormed(findings[gid])
  BY DEF Told
<1>2. \A gid \in Accounts : member[gid] \in Nat
  BY MoneyIsAGraph DEF Numbered
<1>3. Accounts # {}
  BY DEF Accounts
<1>4. ~ TopNodes < MandatoryTop
  <2>1. TopNodes \in Nat /\ MandatoryTop \in Nat /\ TopNodes >= MandatoryTop
    BY ExportsAssumption
  <2>2. QED
    BY <2>1
<1>5. ~ Refused(findings, member)
  BY <1>1, <1>2, <1>3, <1>4, Zenon DEF Refused
<1>6. IsFiniteSet(Accounts) /\ Accounts \subseteq Int
  BY AccountsAreFinite
<1>7. QED
  BY <1>1, <1>5, <1>6 DEF Exportable

FilesOfRun(findings, member, nodes, clusters, top) ==
  /\ ~ Refused(findings, member)
  /\ OneStory(Money, member, nodes, clusters, top)
  /\ LossIsNoticed(nodes, clusters, top)

LEMMA FilesOfRunAgree ==
  ASSUME file \in Seq(Rows), Rows # {}, NEW findings, Told(findings),
         NEW member, Numbered(Money, member),
         NEW nodes, nodes = NodeRows(findings, member),
         NEW clusters, clusters = ClusterRows(findings, member, Edges, Seeds),
         NEW top, top = TopRows(findings)
  PROVE  FilesOfRun(findings, member, nodes, clusters, top)
<1>1. Exportable(findings, member)
  BY ToldIsExportable
<1>2. DOMAIN findings = Accounts
  BY DEF Told
<1>3. OneStory(Money, member, nodes, clusters, top)
  <2>1. \A n \in DOMAIN clusters : ClusterAgrees(Money, member, top, clusters[n])
    BY <1>1, <1>2, ClustersAgree
  <2>2. \A n \in DOMAIN nodes : AccountAgrees(nodes[n], clusters[nodes[n].cluster + 1])
    BY <1>1, AccountsAgree
  <2>3. \A m, n \in DOMAIN top : m < n /\ top[m].drivers = {} => top[n].drivers = {}
    BY <1>1, UnexplainedLast
  <2>4. QED
    BY <2>1, <2>2, <2>3, Zenon DEF OneStory
<1>4. PICK count : count = Cardinality(Accounts)
  OBVIOUS
<1>5. ~ Rejected(nodes, clusters, top, count)
  BY <1>1, <1>2, <1>4, ExportsAreAccepted
<1>6. /\ \A n \in DOMAIN nodes : Rejected(RemoveAt(nodes, n), clusters, top, count)
      /\ \A n \in DOMAIN clusters : Rejected(nodes, RemoveAt(clusters, n), top, count)
      /\ \A n \in 1 .. (Len(top) - 1) : Rejected(nodes, clusters, RemoveAt(top, n), count)
  BY <1>1, <1>2, <1>4, LossesAreRejected
<1>7. LossIsNoticed(nodes, clusters, top)
  BY <1>4, <1>5, <1>6, Zenon DEF LossIsNoticed
<1>8. QED
  BY <1>1, <1>3, <1>7 DEF FilesOfRun, Exportable

LEMMA FilesTellOneStory ==
  ASSUME file \in Seq(Rows), Rows # {}, TerminalCap < RoleThreshold,
         Cardinality(Accounts) <= Unit
  PROVE  FilesAgree
<1>1. ASSUME NEW table \in {Table}, NEW edges \in {Edges}, NEW graph \in {Money},
             NEW outside \in Outside, NEW findings \in {Findings(table, outside)},
             NEW member \in {Communities(graph, detected) : detected \in Partitions},
             NEW nodes \in {NodeRows(findings, member)}, NEW top \in {TopRows(findings)},
             NEW clusters \in {ClusterRows(findings, member, edges, Seeds)}
      PROVE  /\ graph = Money
             /\ FilesOfRun(findings, member, nodes, clusters, top)
  <2>1. PICK detected \in Partitions : member = Communities(Money, detected)
    OBVIOUS
  <2>2. Numbered(Money, member)
    BY <2>1, MembersOfMoney
  <2>3. findings = Findings(Table, outside)
    OBVIOUS
  <2>4. Told(findings)
    BY <2>3, FindingsAreTold
  <2>5. nodes = NodeRows(findings, member) /\ top = TopRows(findings)
        /\ clusters = ClusterRows(findings, member, Edges, Seeds)
    OBVIOUS
  <2>6. QED
    BY <2>2, <2>4, <2>5, FilesOfRunAgree
<1>2. QED
  BY <1>1, ZenonT(30) DEF FilesAgree, FilesOfRun

\* The clusters' boundary flows balance, removing accounts only shrinks what is left,
\* and the files of one run tell one story, for every file of transactions, every
\* partition that the community detection may return, and every limit and weight that
\* the configuration accepts.  There is a transaction to read; an account at the edge of
\* the collection cannot be called terminal, as with config/default.yaml; and Unit tells
\* the ranks of the accounts apart, as the code's floats do.
THEOREM StructureAlwaysAddsUp ==
  ASSUME Rows # {}, TerminalCap < RoleThreshold, Cardinality(Accounts) <= Unit
  PROVE  Spec => []StructureAddsUp
<1>1. ASSUME FileTypeOK PROVE StructureAddsUp
  <2>1. file \in Seq(Rows)
    BY <1>1 DEF FileTypeOK
  <2>2. ClusterFlowsBalance
    BY <2>1, ClustersBalance
  <2>3. RemovalOnlyShrinks
    BY <2>1, RemovalShrinks
  <2>4. FilesAgree
    BY <2>1, FilesTellOneStory
  <2>5. QED
    BY <2>2, <2>3, <2>4 DEF StructureAddsUp
<1>2. QED
  BY <1>1, FileType, PTL

-----------------------------------------------------------------------------
(* The queries of the graph, next to each other.                           *)

\* Pairs that lead where others come from.
Backwards(pairs, turned) == \A x, y : <<x, y>> \in pairs => <<y, x>> \in turned

\* A path the other way is a path along the turned pairs.
LEMMA ReversedPath ==
  ASSUME NEW pairs, NEW turned, Backwards(pairs, turned),
         NEW U, NEW gid, NEW k \in Nat \ {0}, NEW p \in PathsOf(pairs, U, gid, k),
         NEW q, q = Reverse(p)
  PROVE  /\ q \in PathsOf(turned, U, p[k], k) /\ q[k] = gid /\ Reverse(q) = p
         /\ \A n \in 1 .. k : q[n] = p[k - n + 1]
<1>1. /\ p \in [1 .. k -> U] /\ Len(p) = k /\ p[1] = gid
      /\ \A m, n \in 1 .. k : p[m] = p[n] => m = n
      /\ \A n \in 1 .. (k - 1) : <<p[n], p[n + 1]>> \in pairs
  BY PathFacts DEF PathsOf
<1>2. q = [i \in 1 .. k |-> p[k - i + 1]]
  BY <1>1 DEF Reverse
<1>3. \A n \in 1 .. k : k - n + 1 \in 1 .. k
  OBVIOUS
<1>4. q \in [1 .. k -> U] /\ \A n \in 1 .. k : q[n] = p[k - n + 1]
  BY <1>1, <1>2, <1>3
<1>5. q[1] = p[k] /\ q[k] = gid
  <2>1. 1 \in 1 .. k /\ k \in 1 .. k /\ k - 1 + 1 = k /\ k - k + 1 = 1
    OBVIOUS
  <2>2. QED
    BY <1>1, <1>4, <2>1
<1>6. ASSUME NEW m \in 1 .. k, NEW n \in 1 .. k, q[m] = q[n]
      PROVE  m = n
  <2>1. k - m + 1 = k - n + 1
    BY <1>1, <1>3, <1>4, <1>6
  <2>2. QED
    BY <2>1
<1>7. ASSUME NEW n \in 1 .. (k - 1)
      PROVE  <<q[n], q[n + 1]>> \in turned
  <2>1. PICK m \in 1 .. (k - 1) : m = k - n
    OBVIOUS
  <2>2. n \in 1 .. k /\ n + 1 \in 1 .. k /\ k - n + 1 = m + 1 /\ k - (n + 1) + 1 = m
    BY <2>1
  <2>3. q[n] = p[m + 1] /\ q[n + 1] = p[m]
    BY <1>4, <2>2
  <2>4. <<p[m], p[m + 1]>> \in pairs
    BY <1>1, <2>1
  <2>5. QED
    BY <2>3, <2>4 DEF Backwards
<1>8. q \in PathsOf(turned, U, p[k], k)
  BY <1>4, <1>5, <1>6, <1>7 DEF PathsOf
<1>9. Reverse(q) = p
  <2>1. Len(q) = k
    BY <1>8, PathFacts
  <2>2. Reverse(q) = [i \in 1 .. k |-> q[k - i + 1]]
    BY <2>1 DEF Reverse
  <2>3. \A i \in 1 .. k : k - (k - i + 1) + 1 = i
    OBVIOUS
  <2>4. \A i \in 1 .. k : q[k - i + 1] = p[i]
    BY <1>3, <1>4, <2>3
  <2>5. QED
    BY <1>1, <2>2, <2>4
<1>10. QED
  BY <1>4, <1>5, <1>8, <1>9

\* The sums along a path of so many accounts.
SumsAlong(graph, p, k) == {graph.sum[<<p[n], p[n + 1]>>] : n \in 1 .. (k - 1)}

\* Its flow is the smallest of them, which way it is looked at.
LEMMA FlowEitherWay ==
  ASSUME NEW graph, NEW pairs, NEW U, NEW gid, NEW k \in Nat \ {0},
         NEW p \in PathsOf(pairs, U, gid, k), NEW q, q = Reverse(p)
  PROVE  /\ PathFlow(graph, p, "downstream") = Min(SumsAlong(graph, p, k))
         /\ PathFlow(graph, q, "upstream") = Min(SumsAlong(graph, p, k))
<1>1. Len(p) = k
  BY PathFacts
<1>2. PathFlow(graph, p, "downstream") = Min(SumsAlong(graph, p, k))
  BY <1>1 DEF PathFlow, SumsAlong
<1>3. Len(q) = k /\ \A n \in 1 .. k : q[n] = p[k - n + 1]
  <2>1. q = [i \in 1 .. k |-> p[k - i + 1]]
    BY <1>1 DEF Reverse
  <2>2. QED
    BY <2>1
<1>4. PathFlow(graph, q, "upstream") = Min({graph.sum[<<q[n + 1], q[n]>>] : n \in 1 .. (k - 1)})
  BY <1>3 DEF PathFlow
<1>5. \A n \in 1 .. (k - 1) : k - n \in 1 .. (k - 1)
        /\ <<q[n + 1], q[n]>> = <<p[k - n], p[(k - n) + 1]>>
  <2> SUFFICES ASSUME NEW n \in 1 .. (k - 1)
               PROVE  k - n \in 1 .. (k - 1) /\ <<q[n + 1], q[n]>> = <<p[k - n], p[(k - n) + 1]>>
    OBVIOUS
  <2>1. n \in 1 .. k /\ n + 1 \in 1 .. k /\ k - (n + 1) + 1 = k - n
    OBVIOUS
  <2>2. q[n] = p[k - n + 1] /\ q[n + 1] = p[k - n]
    BY <1>3, <2>1
  <2>3. QED
    BY <2>2
<1>6. \A m \in 1 .. (k - 1) : \E n \in 1 .. (k - 1) : k - n = m
  <2> SUFFICES ASSUME NEW m \in 1 .. (k - 1) PROVE \E n \in 1 .. (k - 1) : k - n = m
    OBVIOUS
  <2>1. k - m \in 1 .. (k - 1) /\ k - (k - m) = m
    OBVIOUS
  <2>2. QED
    BY <2>1
<1>7. {graph.sum[<<q[n + 1], q[n]>>] : n \in 1 .. (k - 1)} = SumsAlong(graph, p, k)
  <2>1. \A n \in 1 .. (k - 1) : graph.sum[<<q[n + 1], q[n]>>] \in SumsAlong(graph, p, k)
    BY <1>5 DEF SumsAlong
  <2>2. ASSUME NEW x \in SumsAlong(graph, p, k)
        PROVE  \E n \in 1 .. (k - 1) : x = graph.sum[<<q[n + 1], q[n]>>]
    <3>1. PICK m \in 1 .. (k - 1) : x = graph.sum[<<p[m], p[m + 1]>>]
      BY DEF SumsAlong
    <3>2. PICK n \in 1 .. (k - 1) : k - n = m
      BY <1>6
    <3>3. <<q[n + 1], q[n]>> = <<p[m], p[m + 1]>>
      BY <1>5, <3>2
    <3>4. QED
      BY <3>1, <3>3
  <2>3. QED
    BY <2>1, <2>2
<1>8. QED
  BY <1>2, <1>4, <1>7

\* More steps reach more.
LEMMA WithinMore ==
  ASSUME NEW pairs, NEW start, NEW m \in Nat, NEW n \in Nat, m <= n
  PROVE  Within(pairs, start, m) \subseteq Within(pairs, start, n)
<1> DEFINE good == {d \in Nat : Within(pairs, start, m) \subseteq Within(pairs, start, m + d)}
<1>1. 0 \in good
  OBVIOUS
<1>2. ASSUME NEW d \in Nat, d \in good
      PROVE  d + 1 \in good
  <2>1. Within(pairs, start, m + d) \subseteq Within(pairs, start, (m + d) + 1)
    BY WithinGrows
  <2>2. m + (d + 1) = (m + d) + 1
    OBVIOUS
  <2>3. QED
    BY <1>2, <2>1, <2>2
<1>3. Nat \subseteq good
  <2> HIDE DEF good
  <2>1. QED
    BY <1>1, <1>2, SetInduction
<1>4. n - m \in Nat /\ m + (n - m) = n
  OBVIOUS
<1>5. QED
  BY <1>3, <1>4

\* A path reaches its accounts, one step after the other.
LEMMA PathsReach ==
  ASSUME NEW pairs, NEW U, NEW gid, NEW k \in Nat \ {0}, NEW p \in PathsOf(pairs, U, gid, k)
  PROVE  p[k] \in Within(pairs, {gid}, k - 1)
<1> DEFINE at(n) == Within(pairs, {gid}, n)
           good == {n \in Nat : n < k => p[n + 1] \in at(n)}
<1>1. p[1] = gid /\ \A n \in 1 .. (k - 1) : <<p[n], p[n + 1]>> \in pairs
  BY DEF PathsOf
<1>2. 0 \in good
  BY <1>1, WithinStep
<1>3. ASSUME NEW n \in Nat, n \in good
      PROVE  n + 1 \in good
  <2> SUFFICES ASSUME n + 1 < k PROVE p[(n + 1) + 1] \in at(n + 1)
    OBVIOUS
  <2>1. p[n + 1] \in at(n)
    BY <1>3
  <2>2. PICK e : e = <<p[n + 1], p[(n + 1) + 1]>>
    OBVIOUS
  <2>3. e \in pairs /\ e[1] = p[n + 1] /\ e[2] = p[(n + 1) + 1]
    BY <1>1, <2>2
  <2>4. at(n + 1) = Spread(pairs, at(n))
    BY WithinStep
  <2> HIDE DEF at
  <2>5. QED
    BY <2>1, <2>3, <2>4, SpreadFacts
<1>4. Nat \subseteq good
  <2> HIDE DEF good
  <2>1. QED
    BY <1>2, <1>3, SetInduction
<1>5. k - 1 \in Nat /\ k - 1 < k /\ (k - 1) + 1 = k
  OBVIOUS
<1>6. QED
  BY <1>4, <1>5

TruePairs(pairs) == \A e \in pairs : e = <<e[1], e[2]>>

\* What is reached is reached by a path that passes no account twice.
LEMMA ReachedByPath ==
  ASSUME NEW U, NEW pairs, PairsAmong(pairs, U), TruePairs(pairs), NEW gid \in U, NEW steps \in Nat,
         NEW b \in Within(pairs, {gid}, steps)
  PROVE  \E k \in 1 .. (steps + 1) : \E p \in PathsOf(pairs, U, gid, k) : p[k] = b
<1> DEFINE at(n) == Within(pairs, {gid}, n)
           Led(n, x) == \E k \in 1 .. (n + 1) : \E p \in PathsOf(pairs, U, gid, k) :
                          p[k] = x /\ \A i \in 1 .. k : p[i] \in at(n)
           good == {n \in Nat : \A x \in at(n) : Led(n, x)}
<1>1. 0 \in good
  <2>1. at(0) = {gid}
    BY WithinStep
  <2>2. <<gid>> \in PathsOf(pairs, U, gid, 1)
    <3>1. 1 - 1 = 0 /\ 1 .. 1 = {1} /\ 1 .. 0 = {}
      OBVIOUS
    <3>2. <<gid>> \in [1 .. 1 -> U] /\ <<gid>>[1] = gid
      OBVIOUS
    <3>3. QED
      BY <3>1, <3>2 DEF PathsOf
  <2>3. 1 \in 1 .. (0 + 1) /\ <<gid>>[1] = gid /\ 1 .. 1 = {1}
    OBVIOUS
  <2>4. ASSUME NEW x \in at(0) PROVE Led(0, x)
    BY <2>1, <2>2, <2>3
  <2>5. QED
    BY <2>4
<1>2. ASSUME NEW n \in Nat, n \in good
      PROVE  n + 1 \in good
  <2>1. at(n + 1) = Spread(pairs, at(n)) /\ at(n) \subseteq at(n + 1)
    BY WithinStep, WithinGrows
  <2>2. ASSUME NEW x \in at(n + 1)
        PROVE  Led(n + 1, x)
    <3>1. CASE x \in at(n)
      <4>1. PICK k \in 1 .. (n + 1) : \E p \in PathsOf(pairs, U, gid, k) :
              p[k] = x /\ \A i \in 1 .. k : p[i] \in at(n)
        BY <1>2, <3>1
      <4>2. PICK p \in PathsOf(pairs, U, gid, k) : p[k] = x /\ \A i \in 1 .. k : p[i] \in at(n)
        BY <4>1
      <4>3. k \in 1 .. ((n + 1) + 1) /\ \A i \in 1 .. k : p[i] \in at(n + 1)
        BY <2>1, <4>2
      <4> HIDE DEF at
      <4>4. QED
        BY <4>2, <4>3
    <3>2. CASE x \notin at(n)
      <4>1. PICK e \in pairs : e[1] \in at(n) /\ e[2] = x
        BY <2>1, <2>2, <3>2, SpreadFacts
      <4>2. PICK k \in 1 .. (n + 1) : \E p \in PathsOf(pairs, U, gid, k) :
              p[k] = e[1] /\ \A i \in 1 .. k : p[i] \in at(n)
        BY <1>2, <4>1
      <4>3. PICK p \in PathsOf(pairs, U, gid, k) :
              p[k] = e[1] /\ \A i \in 1 .. k : p[i] \in at(n)
        BY <4>2
      <4>4. k \in Nat \ {0} /\ k + 1 \in 1 .. ((n + 1) + 1)
        OBVIOUS
      <4> HIDE DEF at
      <4>5. /\ p \in Seq(U) /\ Len(p) = k /\ Last(p) = e[1]
            /\ \A y : y \in ToSet(p) <=> \E i \in 1 .. k : p[i] = y
        BY <4>3, <4>4, PathFacts
      <4>6. x \notin ToSet(p)
        BY <3>2, <4>3, <4>5
      <4>7. x \in U
        BY <4>1 DEF PairsAmong
      <4>8. x \in {f[2] : f \in pairs}
        BY <4>1
      <4>9. <<Last(p), x>> \in pairs
        <5>1. e = <<e[1], e[2]>>
          BY <4>1 DEF TruePairs
        <5>2. QED
          BY <4>1, <4>5, <5>1
      <4>10. PICK q : q = Append(p, x)
        OBVIOUS
      <4>11. q \in Extended(pairs, p)
        BY <4>6, <4>8, <4>9, <4>10 DEF Extended, Onward
      <4>12. q \in PathsOf(pairs, U, gid, k + 1)
        BY <4>3, <4>4, <4>11, PathsGoOn
      <4>13. q[k + 1] = x /\ \A i \in 1 .. k : q[i] = p[i]
        BY <4>4, <4>5, <4>7, <4>10, PathAndOneMore
      <4>14. \A i \in 1 .. (k + 1) : i = k + 1 \/ i \in 1 .. k
        BY <4>4
      <4>15. \A i \in 1 .. (k + 1) : q[i] \in at(n + 1)
        BY <2>1, <2>2, <4>3, <4>13, <4>14
      <4>16. QED
        BY <4>4, <4>12, <4>13, <4>15
    <3>3. QED
      BY <3>1, <3>2
  <2> HIDE DEF Led, at
  <2>3. QED
    BY <2>2
<1>3. Nat \subseteq good
  <2> HIDE DEF good
  <2>1. QED
    BY <1>1, <1>2, SetInduction
<1>4. QED
  BY <1>3

\* Who is reached within some steps is the end of a path that is so long at most.
LEMMA EndsAreReached ==
  ASSUME NEW U, NEW pairs, PairsAmong(pairs, U), TruePairs(pairs), NEW gid \in U, NEW steps \in Nat
  PROVE  /\ \A p \in PathsUpTo(pairs, U, gid, steps + 1) :
              Last(p) \in U /\ Last(p) # gid /\ Last(p) \in Within(pairs, {gid}, steps)
         /\ \A b \in Within(pairs, {gid}, steps) :
              b # gid => \E p \in PathsUpTo(pairs, U, gid, steps + 1) : Last(p) = b
<1>1. ASSUME NEW p \in PathsUpTo(pairs, U, gid, steps + 1)
      PROVE  Last(p) \in U /\ Last(p) # gid /\ Last(p) \in Within(pairs, {gid}, steps)
  <2>1. PICK k \in 2 .. (steps + 1) : p \in PathsOf(pairs, U, gid, k)
    BY <1>1 DEF PathsUpTo
  <2>2. k \in Nat \ {0} /\ k - 1 \in Nat /\ k - 1 <= steps /\ 1 \in 1 .. k /\ k \in 1 .. k /\ k # 1
    BY <2>1
  <2>3. /\ Last(p) = p[k] /\ p[k] \in U /\ p[1] = gid
        /\ \A m, n \in 1 .. k : p[m] = p[n] => m = n
    BY <2>1, <2>2, PathFacts
  <2>4. p[k] # gid
    BY <2>2, <2>3
  <2>5. p[k] \in Within(pairs, {gid}, k - 1)
    BY <2>1, <2>2, PathsReach
  <2>6. Within(pairs, {gid}, k - 1) \subseteq Within(pairs, {gid}, steps)
    BY <2>2, WithinMore
  <2>7. QED
    BY <2>3, <2>4, <2>5, <2>6
<1>2. ASSUME NEW b \in Within(pairs, {gid}, steps), b # gid
      PROVE  \E p \in PathsUpTo(pairs, U, gid, steps + 1) : Last(p) = b
  <2>1. PICK k \in 1 .. (steps + 1) : \E p \in PathsOf(pairs, U, gid, k) : p[k] = b
    BY ReachedByPath
  <2>2. PICK p \in PathsOf(pairs, U, gid, k) : p[k] = b
    BY <2>1
  <2>3. k \in Nat \ {0}
    BY <2>1
  <2>4. Last(p) = p[k] /\ p[1] = gid
    BY <2>2, <2>3, PathFacts
  <2>5. k # 1
    BY <1>2, <2>2, <2>4
  <2>6. k \in 2 .. (steps + 1)
    BY <2>1, <2>5
  <2>7. p \in PathsUpTo(pairs, U, gid, steps + 1)
    BY <2>2, <2>6 DEF PathsUpTo
  <2>8. QED
    BY <2>2, <2>4, <2>7
<1>3. QED
  BY <1>1, <1>2

\* The accounts at some distance are those within as many steps.
LEMMA DistantAccounts ==
  ASSUME NEW pairs, NEW gid, NEW cutoff
  PROVE  cutoff \in Nat => DOMAIN Distances(pairs, gid, cutoff) = Within(pairs, {gid}, cutoff)
<1>1. cutoff \in Nat => cutoff \in 0 .. cutoff
  OBVIOUS
<1>2. QED
  BY <1>1 DEF Distances

\* Two of two accounts are both.
LEMMA BothOfTwo ==
  ASSUME NEW a, NEW b, a # b, NEW reach, reach \subseteq {a, b}
  PROVE  /\ Cardinality(reach) >= 2 <=> a \in reach /\ b \in reach
         /\ Cardinality(reach) = 2 <=> a \in reach /\ b \in reach
<1>1. IsFiniteSet({a, b}) /\ Cardinality({a, b}) = 2
  <2>1. IsFiniteSet({a}) /\ Cardinality({a}) = 1
    BY FS_Singleton
  <2>2. {a, b} = {a} \cup {b} /\ b \notin {a}
    OBVIOUS
  <2>3. QED
    BY <2>1, <2>2, FS_AddElement
<1>2. /\ Cardinality(reach) \in Nat /\ Cardinality(reach) <= 2
      /\ Cardinality(reach) = 2 => reach = {a, b}
  BY <1>1, FS_Subset, FS_CardinalityType
<1>3. a \in reach /\ b \in reach => reach = {a, b}
  OBVIOUS
<1>4. a \in reach /\ b \in reach => Cardinality(reach) = 2
  BY <1>1, <1>3
<1>5. Cardinality(reach) = 2 => a \in reach /\ b \in reach
  BY <1>2
<1>6. QED
  BY <1>2, <1>4, <1>5

\* An account that all of two accounts reach is a successor that they share.
LEMMA ReceiversAreShared ==
  ASSUME NEW graph, NEW a, NEW b, a # b
  PROVE  {c.gid : c \in {d \in CommonReceivers(graph, {a, b}, 4) : d.reachedBy = 2}}
           = SharedSuccessors(graph, {a, b}) \ {a, b}
<1> DEFINE pairs == DOMAIN graph.sum
           from == [gid \in {a, b} |-> Distances(pairs, gid, 4)]
           reach(x) == {gid \in {a, b} : x \in DOMAIN from[gid]}
           met == {x \in graph.nodes \ {a, b} : Cardinality(reach(x)) >= 2}
           found(x) == [gid |-> x, reachedBy |-> Cardinality(reach(x)),
                        nearest |-> Min({from[gid][x] : gid \in reach(x)})]
           both(x) == x \in Within(pairs, {a}, 4) /\ x \in Within(pairs, {b}, 4)
<1>1. CommonReceivers(graph, {a, b}, 4) = {found(x) : x \in met}
  BY DEF CommonReceivers
<1>2. /\ DOMAIN from[a] = Within(pairs, {a}, 4)
      /\ DOMAIN from[b] = Within(pairs, {b}, 4)
  <2>1. /\ DOMAIN Distances(pairs, a, 4) = Within(pairs, {a}, 4)
        /\ DOMAIN Distances(pairs, b, 4) = Within(pairs, {b}, 4)
    BY DistantAccounts
  <2> HIDE DEF pairs
  <2>2. QED
    BY <2>1
<1>3. \A x : /\ reach(x) \subseteq {a, b}
             /\ a \in reach(x) <=> x \in DOMAIN from[a]
             /\ b \in reach(x) <=> x \in DOMAIN from[b]
  OBVIOUS
<1> HIDE DEF from, pairs, reach
<1>4. \A x : /\ Cardinality(reach(x)) >= 2 <=> both(x)
             /\ Cardinality(reach(x)) = 2 <=> both(x)
  BY <1>2, <1>3, BothOfTwo
<1>5. SharedSuccessors(graph, {a, b}) \ {a, b} = {x \in graph.nodes \ {a, b} : both(x)}
  BY DEF SharedSuccessors, pairs
<1>6. \A x \in met : found(x).gid = x /\ found(x).reachedBy = Cardinality(reach(x))
  OBVIOUS
<1>7. \A x : x \in met <=> x \in graph.nodes \ {a, b} /\ both(x)
  BY <1>4
<1>8. \A x \in met : found(x).reachedBy = 2 /\ found(x).gid = x
  BY <1>4, <1>6, <1>7
<1> HIDE DEF met, found, both
<1>9. {c.gid : c \in {d \in {found(x) : x \in met} : d.reachedBy = 2}} = met
  BY <1>8
<1>10. {x \in graph.nodes \ {a, b} : both(x)} = met
  BY <1>7
<1>11. QED
  BY <1>1, <1>5, <1>9, <1>10

\* Records of paths as a trace has them.
TraceRecords(records, largest) ==
  /\ \A r \in records : r.hops \in Nat /\ Rank(r, largest) \in Int
  /\ \A r \in records : r.path \in [1 .. (r.hops + 1) -> Int]
  /\ \A r, s \in records : r.path = s.path => r = s

\* The records of a trace have one order.
LEMMA RecordsAreOrdered ==
  ASSUME NEW largest, NEW records, TraceRecords(records, largest)
  PROVE  StrictOrder(records, [s \in records |-> {r \in records : ListedBefore(r, s, largest)}])
<1> DEFINE before == [s \in records |-> {r \in records : ListedBefore(r, s, largest)}]
           rank == [r \in records |-> Rank(r, largest)]
<1>1. \A r, s \in records :
        ListedBefore(r, s, largest) <=>
          \/ rank[r] > rank[s]
          \/ rank[r] = rank[s] /\ r.hops < s.hops
          \/ rank[r] = rank[s] /\ r.hops = s.hops /\ SmallerPath(r.path, s.path)
  BY DEF ListedBefore
<1>2. \A r \in records : rank[r] \in Int /\ r.hops \in Int
  BY DEF TraceRecords
<1> HIDE DEF rank
<1>3. ASSUME NEW r \in records, NEW s \in records, NEW t \in records, r.hops = s.hops, s.hops = t.hops
      PROVE  /\ ~ SmallerPath(r.path, r.path)
             /\ SmallerPath(r.path, s.path) /\ SmallerPath(s.path, t.path) =>
                  SmallerPath(r.path, t.path)
             /\ r = s \/ SmallerPath(r.path, s.path) \/ SmallerPath(s.path, r.path)
  <2>1. PICK k \in Nat : k = r.hops + 1
    BY DEF TraceRecords
  <2>2. r.path \in [1 .. k -> Int] /\ s.path \in [1 .. k -> Int] /\ t.path \in [1 .. k -> Int]
    BY <1>3, <2>1 DEF TraceRecords
  <2>3. r.path = s.path => r = s
    BY DEF TraceRecords
  <2>4. PICK p : p = r.path
    OBVIOUS
  <2>5. PICK q : q = s.path
    OBVIOUS
  <2>6. PICK u : u = t.path
    OBVIOUS
  <2>7. p \in [1 .. k -> Int] /\ q \in [1 .. k -> Int] /\ u \in [1 .. k -> Int]
    BY <2>2, <2>4, <2>5, <2>6
  <2>8. /\ ~ SmallerPath(p, p)
        /\ SmallerPath(p, q) /\ SmallerPath(q, u) => SmallerPath(p, u)
        /\ p = q \/ SmallerPath(p, q) \/ SmallerPath(q, p)
    BY <2>7, PathsAreOrdered
  <2>9. QED
    BY <2>3, <2>4, <2>5, <2>6, <2>8
<1>4. \A r \in records : ~ ListedBefore(r, r, largest)
  BY <1>1, <1>2, <1>3
<1>5. ASSUME NEW r \in records, NEW s \in records, NEW t \in records,
             ListedBefore(r, s, largest), ListedBefore(s, t, largest)
      PROVE  ListedBefore(r, t, largest)
  <2>1. PICK a \in Int, b \in Int, c \in Int : a = rank[r] /\ b = rank[s] /\ c = rank[t]
    BY <1>2
  <2>2. PICK i \in Int, j \in Int, k \in Int : i = r.hops /\ j = s.hops /\ k = t.hops
    BY <1>2
  <2>3. a > b \/ (a = b /\ i < j) \/ (a = b /\ i = j /\ SmallerPath(r.path, s.path))
    BY <1>1, <1>5, <2>1, <2>2
  <2>4. b > c \/ (b = c /\ j < k) \/ (b = c /\ j = k /\ SmallerPath(s.path, t.path))
    BY <1>1, <1>5, <2>1, <2>2
  <2>5. i = j /\ j = k /\ SmallerPath(r.path, s.path) /\ SmallerPath(s.path, t.path) =>
          SmallerPath(r.path, t.path)
    BY <1>3, <2>2
  <2>6. a > c \/ (a = c /\ i < k) \/ (a = c /\ i = k /\ SmallerPath(r.path, t.path))
    BY <2>3, <2>4, <2>5
  <2>7. QED
    BY <1>1, <2>1, <2>2, <2>6
<1>6. ASSUME NEW r \in records, NEW s \in records
      PROVE  r = s \/ ListedBefore(r, s, largest) \/ ListedBefore(s, r, largest)
  <2>1. PICK a \in Int, b \in Int : a = rank[r] /\ b = rank[s]
    BY <1>2
  <2>2. PICK i \in Int, j \in Int : i = r.hops /\ j = s.hops
    BY <1>2
  <2>3. i = j => r = s \/ SmallerPath(r.path, s.path) \/ SmallerPath(s.path, r.path)
    BY <1>3, <2>2
  <2>4. \/ r = s \/ a > b \/ b > a
        \/ a = b /\ (i < j \/ j < i)
        \/ a = b /\ i = j /\ (SmallerPath(r.path, s.path) \/ SmallerPath(s.path, r.path))
    BY <2>1, <2>2, <2>3
  <2>5. QED
    BY <1>1, <2>1, <2>2, <2>4
<1>7. /\ before \in [records -> SUBSET records]
      /\ \A s \in records : before[s] = {r \in records : ListedBefore(r, s, largest)}
  OBVIOUS
<1> HIDE DEF before
<1>8. \A r, s \in records : r \in before[s] <=> ListedBefore(r, s, largest)
  BY <1>7
<1>9. \A x, y \in records : y \in before[x] => before[y] \subseteq before[x]
  BY <1>5, <1>7, <1>8
<1>10. StrictOrder(records, before)
  BY <1>4, <1>6, <1>7, <1>8, <1>9 DEF StrictOrder
<1>11. QED
  BY <1>10 DEF before

\* A trace of a graph with whole sums whose logarithms are known.
Traceable(graph, U, sums) ==
  /\ U \in SUBSET Int /\ IsFiniteSet(U) /\ PairsAmong(DOMAIN graph.sum, U)
  /\ TruePairs(DOMAIN graph.sum)
  /\ U \subseteq DOMAIN Urgency
  /\ sums \in SUBSET Nat /\ 0 \in sums /\ \A n \in sums : Log1p[n] \in Nat
  /\ \A e \in DOMAIN graph.sum : graph.sum[e] \in sums

\* The pairs that a trace follows, and the pair that a hop stands for.
Followed(graph, direction) ==
  IF direction = "downstream" THEN DOMAIN graph.sum ELSE Turned(DOMAIN graph.sum)

\* A trace's record of a path has a flow of the graph.
LEMMA RecordOfPath ==
  ASSUME NEW graph, NEW U, NEW sums, Traceable(graph, U, sums),
         NEW direction, NEW k \in Nat, 2 <= k, NEW gid,
         NEW p \in PathsOf(Followed(graph, direction), U, gid, k)
  PROVE  LET r == PathRecord(graph, p, direction)
         IN  /\ r.path = p /\ r.hops = k - 1 /\ r.flow \in sums
             /\ r.urgency \in 0 .. 100
<1> DEFINE hop(n) == IF direction = "downstream" THEN <<p[n], p[n + 1]>> ELSE <<p[n + 1], p[n]>>
           flows == [n \in 1 .. (k - 1) |-> graph.sum[hop(n)]]
           r == PathRecord(graph, p, direction)
<1>1. /\ Len(p) = k /\ Last(p) \in U
      /\ \A n \in 1 .. (k - 1) : <<p[n], p[n + 1]>> \in Followed(graph, direction)
  <2>1. k \in Nat \ {0}
    OBVIOUS
  <2>2. QED
    BY <2>1, PathFacts
<1>2. \A n \in 1 .. (k - 1) : hop(n) \in DOMAIN graph.sum
  <2>1. CASE direction = "downstream"
    BY <1>1, <2>1 DEF Followed
  <2>2. CASE direction # "downstream"
    <3>1. ASSUME NEW n \in 1 .. (k - 1) PROVE <<p[n + 1], p[n]>> \in DOMAIN graph.sum
      <4>1. <<p[n], p[n + 1]>> \in Turned(DOMAIN graph.sum)
        BY <1>1, <2>2 DEF Followed
      <4>2. PICK e \in DOMAIN graph.sum : <<p[n], p[n + 1]>> = <<e[2], e[1]>>
        BY <4>1 DEF Turned
      <4>3. e = <<e[1], e[2]>>
        BY DEF Traceable, TruePairs
      <4>4. QED
        BY <4>2, <4>3
    <3>2. QED
      BY <2>2, <3>1
  <2>3. QED
    BY <2>1, <2>2
<1>3. \A n \in 1 .. (k - 1) : flows[n] \in sums
  BY <1>2 DEF Traceable
<1>4. PathFlow(graph, p, direction) = Min({flows[n] : n \in 1 .. (k - 1)})
  <2>1. \A n \in 1 .. (k - 1) :
          (LET pair == <<p[n], p[n + 1]>>
           IN graph.sum[IF direction = "downstream" THEN pair ELSE <<pair[2], pair[1]>>]) = flows[n]
    OBVIOUS
  <2>2. QED
    BY <1>1, <2>1 DEF PathFlow
<1> HIDE DEF flows
<1>5. PathFlow(graph, p, direction) \in sums
  <2> DEFINE all == {flows[n] : n \in 1 .. (k - 1)}
  <2>1. all \in SUBSET Int /\ IsFiniteSet(all)
    <3>1. IsFiniteSet(1 .. (k - 1))
      BY FS_Interval
    <3>2. IsFiniteSet(all)
      BY <3>1, FiniteImage
    <3>3. \A n \in 1 .. (k - 1) : flows[n] \in Int
      <4>1. \A x \in sums : x \in Int
        BY DEF Traceable
      <4>2. QED
        BY <1>3, <4>1
    <3>4. QED
      BY <3>2, <3>3
  <2>2. all # {}
    <3>1. 1 \in 1 .. (k - 1)
      OBVIOUS
    <3>2. QED
      BY <3>1
  <2>3. \A x \in all : x \in sums
    BY <1>3
  <2> HIDE DEF all
  <2>4. Min(all) \in all
    BY <2>1, <2>2, SmallestNumber
  <2>5. QED
    BY <1>4, <2>3, <2>4 DEF all
<1>6. Urgency[Last(p)] \in 0 .. 100
  BY <1>1, GraphSearchAssumption DEF Traceable
<1>7. QED
  BY <1>1, <1>5, <1>6 DEF PathRecord

\* The pairs that a trace follows are pairs of the same accounts.
LEMMA FollowedPairs ==
  ASSUME NEW graph, NEW U, NEW sums, Traceable(graph, U, sums), NEW direction
  PROVE  PairsAmong(Followed(graph, direction), U) /\ TruePairs(Followed(graph, direction))
<1>1. PairsAmong(DOMAIN graph.sum, U) /\ TruePairs(DOMAIN graph.sum)
  BY DEF Traceable
<1>2. PairsAmong(Turned(DOMAIN graph.sum), U)
  BY <1>1 DEF PairsAmong, Turned
<1>3. TruePairs(Turned(DOMAIN graph.sum))
  BY DEF TruePairs, Turned
<1>4. QED
  BY <1>1, <1>2, <1>3 DEF Followed

\* The records of paths, as a trace of this direction makes them.
RecordsOf(graph, paths, direction) == {PathRecord(graph, p, direction) : p \in paths}

\* Records of a trace can be ranked, under the largest flow that occurs.
LEMMA RecordsOfTrace ==
  ASSUME NEW graph, NEW U, NEW sums, Traceable(graph, U, sums), NEW direction, NEW gid,
         NEW depth \in Nat, NEW largest \in sums,
         NEW paths \in SUBSET PathsUpTo(Followed(graph, direction), U, gid, depth + 1)
  PROVE  TraceRecords(RecordsOf(graph, paths, direction), largest)
<1> DEFINE record(p) == PathRecord(graph, p, direction)
<1>1. ASSUME NEW p \in paths
      PROVE  /\ record(p).path = p /\ record(p).hops \in Nat /\ Rank(record(p), largest) \in Int
             /\ p \in [1 .. (record(p).hops + 1) -> Int]
  <2>1. PICK k \in 2 .. (depth + 1) : p \in PathsOf(Followed(graph, direction), U, gid, k)
    BY DEF PathsUpTo
  <2>2. k \in Nat /\ 2 <= k /\ k - 1 \in Nat \ {0} /\ (k - 1) + 1 = k
    BY <2>1
  <2>3. PICK r : r = record(p)
    OBVIOUS
  <2>4. r.path = p /\ r.hops = k - 1 /\ r.flow \in sums /\ r.urgency \in 0 .. 100
    BY <2>1, <2>2, <2>3, RecordOfPath
  <2>5. Log1p[r.flow] \in Int /\ Log1p[largest] \in Int
    <3>1. \A n \in sums : Log1p[n] \in Int
      BY DEF Traceable
    <3>2. QED
      BY <2>4, <3>1
  <2>6. 300 \div r.hops \in Int /\ r.urgency \in Int
    BY <2>2, <2>4
  <2>7. Rank(r, largest) \in Int
    <3>1. PICK a \in Int, b \in Int, c \in Int, d \in Int :
            a = Log1p[r.flow] /\ b = Log1p[largest] /\ c = 300 \div r.hops /\ d = r.urgency
      BY <2>5, <2>6
    <3>2. Rank(r, largest) = 600 * a + b * (c + 3 * d)
      BY <3>1 DEF Rank
    <3>3. QED
      BY <3>2
  <2>8. p \in [1 .. k -> Int]
    <3>1. p \in [1 .. k -> U] /\ U \subseteq Int
      BY <2>1 DEF PathsOf, Traceable
    <3>2. QED
      BY <3>1
  <2>9. QED
    BY <2>2, <2>3, <2>4, <2>7, <2>8
<1> HIDE DEF record
<1>2. RecordsOf(graph, paths, direction) = {record(p) : p \in paths}
  BY DEF RecordsOf, record
<1>3. ASSUME NEW r \in {record(p) : p \in paths}
      PROVE  /\ r.hops \in Nat /\ Rank(r, largest) \in Int
             /\ r.path \in [1 .. (r.hops + 1) -> Int] /\ r = record(r.path)
  BY <1>1
<1>4. QED
  BY <1>2, <1>3 DEF TraceRecords

\* A trace that is not cut short lists all paths of its depth that pass no account twice.
LEMMA TraceListsAll ==
  ASSUME NEW graph, NEW U, NEW sums, Traceable(graph, U, sums), NEW direction, NEW gid \in U,
         NEW depth \in Nat, ~ Trace(graph, gid, direction, depth).truncated
  PROVE  ToSet(Trace(graph, gid, direction, depth).paths) =
           RecordsOf(graph, PathsUpTo(Followed(graph, direction), U, gid, depth + 1), direction)
<1> DEFINE pairs == Followed(graph, direction)
           all == PathsUpTo(pairs, U, gid, depth + 1)
           cap == CandidateFactor * PathLimit
           got == PathsFrom(pairs, gid, depth, cap)
           records == RecordsOf(graph, ToSet(got), direction)
           largest == IF records = {} THEN 0 ELSE Max({r.flow : r \in records})
           table == Ranked(records, LAMBDA r, s : ListedBefore(r, s, largest))
           count == Cardinality(records)
<1>1. /\ Trace(graph, gid, direction, depth).paths = FirstOf(table, PathLimit)
      /\ ~ count > PathLimit
  BY DEF Trace, RecordsOf, Followed
<1>2. PathLimit \in Nat /\ cap \in Nat /\ PathLimit < cap
  BY GraphSearchAssumption DEF CandidateFactor
<1>3. PairsAmong(pairs, U) /\ U \in SUBSET Int /\ IsFiniteSet(U)
  BY FollowedPairs DEF Traceable
<1> HIDE DEF pairs, cap, table
<1>4. IsFiniteSet(all) /\ Cardinality(all) \in Nat /\ ToSet(got) \subseteq all
  <2>1. all = PathsUpTo(pairs, U, gid, depth + 1) /\ got = PathsFrom(pairs, gid, depth, cap)
    OBVIOUS
  <2> HIDE DEF all, got
  <2>2. IsFiniteSet(all) /\ Cardinality(all) \in Nat /\ ShortestOf(got, all, cap)
    BY <1>2, <1>3, <2>1, FirstPaths
  <2>3. QED
    BY <2>2 DEF ShortestOf
<1> HIDE DEF all, got
<1>5. ASSUME NEW p \in all
      PROVE  PathRecord(graph, p, direction).path = p /\ PathRecord(graph, p, direction).flow \in sums
  <2>1. PICK k \in 2 .. (depth + 1) : p \in PathsOf(pairs, U, gid, k)
    BY DEF PathsUpTo, all
  <2>2. k \in Nat /\ 2 <= k
    BY <2>1
  <2>3. QED
    BY <2>1, <2>2, RecordOfPath DEF pairs
<1>6. IsFiniteSet(records)
  <2> DEFINE record == [p \in ToSet(got) |-> PathRecord(graph, p, direction)]
  <2>1. IsFiniteSet(ToSet(got))
    BY <1>4, FS_Subset
  <2>2. records = {record[p] : p \in ToSet(got)}
    BY DEF RecordsOf
  <2> HIDE DEF record
  <2>3. QED
    BY <2>1, <2>2, FiniteImage
<1>7. \A r \in records : r.flow \in sums
  BY <1>4, <1>5 DEF RecordsOf
<1>8. largest \in sums
  <2> DEFINE flow == [r \in records |-> r.flow]
             flows == {flow[r] : r \in records}
  <2>1. 0 \in sums /\ \A n \in sums : n \in Int
    BY DEF Traceable
  <2>2. {r.flow : r \in records} = flows
    OBVIOUS
  <2>3. flows \in SUBSET sums
    BY <1>7
  <2> HIDE DEF flow
  <2>4. IsFiniteSet(flows)
    BY <1>6, FiniteImage
  <2>5. flows \in SUBSET Int
    BY <2>1, <2>3
  <2>6. records # {} => flows # {}
    OBVIOUS
  <2> HIDE DEF flows
  <2>7. flows # {} => Max(flows) \in flows
    BY <2>4, <2>5, GreatestNumber
  <2> HIDE DEF records
  <2>8. QED
    BY <2>1, <2>2, <2>3, <2>6, <2>7
<1> HIDE DEF largest
<1>9. StrictOrder(records, [s \in records |-> {r \in records : ListedBefore(r, s, largest)}])
  <2>1. TraceRecords(records, largest)
    BY <1>4, <1>8, RecordsOfTrace DEF all, pairs
  <2> HIDE DEF records
  <2>2. QED
    BY <2>1, RecordsAreOrdered
<1> DEFINE before == [s \in records |-> {r \in records : ListedBefore(r, s, largest)}]
<1>10. Placed(records, before, table)
  <2> HIDE DEF records
  <2>1. DOMAIN table = 1 .. count
    BY DEF table, Ranked
  <2>2. \A n \in 1 .. count :
          table[n] = CHOOSE x \in records :
                       Cardinality({y \in records : ListedBefore(y, x, largest)}) = n - 1
    BY DEF table, Ranked
  <2>3. \A x \in records : before[x] = {y \in records : ListedBefore(y, x, largest)}
    OBVIOUS
  <2> HIDE DEF before
  <2>4. ASSUME NEW n \in 1 .. count, \E x \in records : Cardinality(before[x]) = n - 1
        PROVE  table[n] \in records /\ Cardinality(before[table[n]]) = n - 1
    <3>1. \E x \in records : Cardinality({y \in records : ListedBefore(y, x, largest)}) = n - 1
      BY <2>3, <2>4
    <3>2. /\ table[n] \in records
          /\ Cardinality({y \in records : ListedBefore(y, table[n], largest)}) = n - 1
      BY <2>2, <3>1
    <3>3. QED
      BY <2>3, <3>2
  <2>5. QED
    BY <2>1, <2>4 DEF Placed
<1>11. table \in [1 .. count -> ToSet(table)]
  <2> DEFINE place(n) == CHOOSE x \in records :
               Cardinality({y \in records : ListedBefore(y, x, largest)}) = n - 1
  <2>1. table = [n \in 1 .. count |-> place(n)]
    BY DEF table, Ranked
  <2> HIDE DEF place, records
  <2>2. QED
    BY <2>1 DEF ToSet
<1> HIDE DEF records, before
<1>12. /\ count \in Nat /\ \A n \in 1 .. count : table[n] \in records
       /\ \A x \in records : \E n \in 1 .. count : table[n] = x
  <2>1. /\ Cardinality(records) \in Nat
        /\ DOMAIN table = 1 .. Cardinality(records)
        /\ \A n \in DOMAIN table : table[n] \in records
        /\ \A x \in records : \E n \in DOMAIN table : table[n] = x
    BY <1>6, <1>9, <1>10, TableOfASet DEF before
  <2>2. QED
    BY <2>1
<1>13. ToSet(FirstOf(table, PathLimit)) = records
  <2>1. PICK n \in Nat : n = count
    BY <1>12
  <2>2. n <= PathLimit
    BY <1>1, <1>2, <2>1
  <2>3. PICK kept \in Nat : kept = IF PathLimit < n THEN PathLimit ELSE n
    BY <1>2, <2>1
  <2>4. kept = n
    BY <1>2, <2>2, <2>3
  <2>5. PICK first : first = FirstOf(table, PathLimit)
    OBVIOUS
  <2>6. DOMAIN first = 1 .. n /\ \A m \in 1 .. n : first[m] = table[m]
    BY <1>2, <1>11, <2>1, <2>3, <2>4, <2>5, FirstRows
  <2>7. ToSet(first) = records
    BY <1>12, <2>1, <2>6 DEF ToSet
  <2>8. QED
    BY <2>5, <2>7
<1>14. ToSet(got) = all
  <2>1. all = PathsUpTo(pairs, U, gid, depth + 1) /\ got = PathsFrom(pairs, gid, depth, cap)
    BY DEF all, got
  <2>2. PICK paths : Lists(paths, all) /\ got = FirstOf(paths, cap)
    BY <1>2, <1>3, <2>1, AllPathsFound
  <2>3. PICK length \in Nat : length = Len(paths) /\ length = Cardinality(all)
    BY <2>2, ListsCount
  <2>4. Cardinality(all) <= cap => ToSet(got) = all
    BY <1>2, <1>3, <2>1, FirstPaths
  <2>5. ASSUME cap < length
        PROVE  FALSE
    <3>1. /\ paths \in [1 .. length -> all]
          /\ \A m, n \in 1 .. length : paths[m] = paths[n] => m = n
      <4>1. paths \in Seq(all) /\ Len(paths) = length
        BY <2>2, <2>3 DEF Lists
      <4>2. \A m, n \in 1 .. length : paths[m] = paths[n] => m = n
        BY <2>2, <4>1 DEF Lists
      <4>3. paths \in [1 .. length -> all]
        BY <4>1
      <4>4. QED
        BY <4>2, <4>3
    <3>2. paths \in [1 .. length -> ToSet(paths)]
      BY <3>1 DEF ToSet
    <3>3. PICK kept \in Nat : kept = IF cap < length THEN cap ELSE length
      BY <1>2
    <3>4. DOMAIN got = 1 .. cap /\ \A n \in 1 .. cap : got[n] = paths[n]
      BY <1>2, <2>2, <2>3, <2>5, <3>2, <3>3, FirstRows
    <3>5. \A n \in 1 .. cap : n \in 1 .. length
      BY <1>2, <2>5
    <3> DEFINE f == [n \in 1 .. cap |-> PathRecord(graph, got[n], direction)]
    <3>6. \A n \in 1 .. cap : got[n] \in all /\ got[n] \in ToSet(got)
      BY <3>1, <3>4, <3>5 DEF ToSet
    <3>7. \A n \in 1 .. cap : f[n].path = got[n] /\ f[n] \in records
      BY <1>5, <3>6 DEF records, RecordsOf
    <3>8. f \in [1 .. cap -> records]
      BY <3>7
    <3> HIDE DEF f
    <3>9. \A m, n \in 1 .. cap : f[m] = f[n] => m = n
      BY <3>1, <3>4, <3>5, <3>7
    <3>10. PICK c \in Nat : c = count
      BY <1>12
    <3>11. c < cap
      BY <1>1, <1>2, <3>10
    <3>12. IsFiniteSet(1 .. cap) /\ Cardinality(1 .. cap) = cap
      <4>1. PICK top \in Nat \ {0} : top = cap
        BY <1>2
      <4>2. 1 \in Int /\ top \in Int /\ top - 1 + 1 = top /\ ~ 1 > top
        BY <4>1
      <4>3. IsFiniteSet(1 .. top) /\ Cardinality(1 .. top) = top
        BY <4>2, FS_Interval
      <4>4. QED
        BY <4>1, <4>3
    <3>13. Cardinality(records) < Cardinality(1 .. cap)
      BY <3>10, <3>11, <3>12
    <3>14. \E x, y \in 1 .. cap : x # y /\ f[x] = f[y]
      BY <1>6, <3>8, <3>12, <3>13, FS_PigeonHole
    <3>15. QED
      BY <3>9, <3>14
  <2>6. length <= cap
    BY <1>2, <2>5
  <2>7. QED
    BY <2>3, <2>4, <2>6
<1>15. QED
  BY <1>1, <1>13, <1>14 DEF records, all, pairs

\* Read backwards, a path down is a path up, with the same flow, and the other way round.
LEMMA PathsBothWays ==
  ASSUME NEW graph, NEW U, NEW sums, Traceable(graph, U, sums), NEW most \in Nat,
         NEW a, NEW b,
         NEW down, down = PathsUpTo(Followed(graph, "downstream"), U, a, most),
         NEW up, up = PathsUpTo(Followed(graph, "upstream"), U, b, most)
  PROVE  /\ \A p \in down : Last(p) = b =>
              /\ Reverse(p) \in up /\ Last(Reverse(p)) = a /\ Reverse(Reverse(p)) = p
              /\ PathFlow(graph, p, "downstream") = PathFlow(graph, Reverse(p), "upstream")
         /\ \A q \in up : Last(q) = a =>
              /\ Reverse(q) \in down /\ Last(Reverse(q)) = b /\ Reverse(Reverse(q)) = q
              /\ PathFlow(graph, Reverse(q), "downstream") = PathFlow(graph, q, "upstream")
<1> DEFINE pairs == DOMAIN graph.sum
           turned == Turned(pairs)
<1>1. Followed(graph, "downstream") = pairs /\ Followed(graph, "upstream") = turned
  BY DEF Followed
<1>2. Backwards(pairs, turned)
  BY DEF Turned, Backwards
<1>3. Backwards(turned, pairs)
  <2> SUFFICES ASSUME NEW x, NEW y, <<x, y>> \in turned PROVE <<y, x>> \in pairs
    BY DEF Backwards
  <2>1. PICK e \in pairs : <<x, y>> = <<e[2], e[1]>>
    BY DEF Turned
  <2>2. e = <<e[1], e[2]>>
    BY DEF Traceable, TruePairs
  <2>3. QED
    BY <2>1, <2>2
<1> HIDE DEF pairs, turned
<1>4. ASSUME NEW p \in down, Last(p) = b
      PROVE  /\ Reverse(p) \in up /\ Last(Reverse(p)) = a /\ Reverse(Reverse(p)) = p
             /\ PathFlow(graph, p, "downstream") = PathFlow(graph, Reverse(p), "upstream")
  <2>1. PICK k \in 2 .. most : p \in PathsOf(pairs, U, a, k)
    BY <1>1 DEF PathsUpTo
  <2>2. k \in Nat \ {0}
    BY <2>1
  <2>3. PICK q : q = Reverse(p)
    OBVIOUS
  <2>4. q \in PathsOf(turned, U, p[k], k) /\ q[k] = a /\ Reverse(q) = p
    BY <1>2, <2>1, <2>2, <2>3, ReversedPath
  <2>5. p[k] = b
    BY <1>4, <2>1, <2>2, PathFacts
  <2>6. q \in PathsOf(turned, U, b, k)
    BY <2>4, <2>5
  <2>7. Last(q) = a
    BY <2>2, <2>4, <2>6, PathFacts
  <2>8. q \in up
    BY <1>1, <2>1, <2>6 DEF PathsUpTo
  <2>9. PathFlow(graph, p, "downstream") = PathFlow(graph, q, "upstream")
    BY <2>1, <2>2, <2>3, FlowEitherWay
  <2>10. QED
    BY <2>3, <2>4, <2>7, <2>8, <2>9
<1>5. ASSUME NEW q \in up, Last(q) = a
      PROVE  /\ Reverse(q) \in down /\ Last(Reverse(q)) = b /\ Reverse(Reverse(q)) = q
             /\ PathFlow(graph, Reverse(q), "downstream") = PathFlow(graph, q, "upstream")
  <2>1. PICK k \in 2 .. most : q \in PathsOf(turned, U, b, k)
    BY <1>1 DEF PathsUpTo
  <2>2. k \in Nat \ {0}
    BY <2>1
  <2>3. PICK p : p = Reverse(q)
    OBVIOUS
  <2>4. p \in PathsOf(pairs, U, q[k], k) /\ p[k] = b /\ Reverse(p) = q
    BY <1>3, <2>1, <2>2, <2>3, ReversedPath
  <2>5. q[k] = a
    BY <1>5, <2>1, <2>2, PathFacts
  <2>6. p \in PathsOf(pairs, U, a, k)
    BY <2>4, <2>5
  <2>7. Last(p) = b
    BY <2>2, <2>4, <2>6, PathFacts
  <2>8. p \in down
    BY <1>1, <2>1, <2>6 DEF PathsUpTo
  <2>9. PathFlow(graph, p, "downstream") = PathFlow(graph, q, "upstream")
    BY <2>2, <2>4, <2>6, FlowEitherWay
  <2>10. QED
    BY <2>3, <2>4, <2>7, <2>8, <2>9
<1>6. QED
  BY <1>4, <1>5

\* What a trace down shows as paths from one account to another, a trace up shows as
\* paths from the other to the one.
LEMMA TracesMirror ==
  ASSUME NEW graph, NEW U, NEW sums, Traceable(graph, U, sums), NEW most \in Nat,
         NEW a, NEW b,
         NEW down, down = PathsUpTo(Followed(graph, "downstream"), U, a, most),
         NEW up, up = PathsUpTo(Followed(graph, "upstream"), U, b, most),
         NEW above, above = RecordsOf(graph, down, "downstream"),
         NEW below, below = RecordsOf(graph, up, "upstream")
  PROVE  {[path |-> r.path, flow |-> r.flow] : r \in {s \in above : Last(s.path) = b}}
           = {[path |-> Reverse(r.path), flow |-> r.flow] : r \in {s \in below : Last(s.path) = a}}
<1> DEFINE left == {[path |-> r.path, flow |-> r.flow] : r \in {s \in above : Last(s.path) = b}}
           right == {[path |-> Reverse(r.path), flow |-> r.flow] :
                       r \in {s \in below : Last(s.path) = a}}
<1>1. /\ \A p \in down : PathRecord(graph, p, "downstream") \in above
      /\ \A r \in above : \E p \in down : r = PathRecord(graph, p, "downstream")
      /\ \A q \in up : PathRecord(graph, q, "upstream") \in below
      /\ \A r \in below : \E q \in up : r = PathRecord(graph, q, "upstream")
  BY DEF RecordsOf
<1>2. \A p, direction : /\ PathRecord(graph, p, direction).path = p
                        /\ PathRecord(graph, p, direction).flow = PathFlow(graph, p, direction)
  BY DEF PathRecord
<1>3. /\ \A p \in down : Last(p) = b =>
           /\ Reverse(p) \in up /\ Last(Reverse(p)) = a /\ Reverse(Reverse(p)) = p
           /\ PathFlow(graph, p, "downstream") = PathFlow(graph, Reverse(p), "upstream")
      /\ \A q \in up : Last(q) = a =>
           /\ Reverse(q) \in down /\ Last(Reverse(q)) = b /\ Reverse(Reverse(q)) = q
           /\ PathFlow(graph, Reverse(q), "downstream") = PathFlow(graph, q, "upstream")
  BY PathsBothWays
<1>4. ASSUME NEW x \in left PROVE x \in right
  <2>1. PICK r \in above : Last(r.path) = b /\ x = [path |-> r.path, flow |-> r.flow]
    OBVIOUS
  <2>2. PICK p \in down : r = PathRecord(graph, p, "downstream")
    BY <1>1
  <2>3. r.path = p /\ r.flow = PathFlow(graph, p, "downstream")
    BY <1>2, <2>2
  <2>4. PICK q : q = Reverse(p)
    OBVIOUS
  <2>5. q \in up /\ Last(q) = a /\ Reverse(q) = p /\ r.flow = PathFlow(graph, q, "upstream")
    BY <1>3, <2>1, <2>3, <2>4
  <2>6. PICK s : s = PathRecord(graph, q, "upstream")
    OBVIOUS
  <2>7. s \in below /\ s.path = q /\ s.flow = r.flow
    BY <1>1, <1>2, <2>5, <2>6
  <2>8. x = [path |-> Reverse(s.path), flow |-> s.flow] /\ Last(s.path) = a
    BY <2>1, <2>3, <2>5, <2>7
  <2>9. QED
    BY <2>7, <2>8
<1>5. ASSUME NEW x \in right PROVE x \in left
  <2>1. PICK r \in below : Last(r.path) = a /\ x = [path |-> Reverse(r.path), flow |-> r.flow]
    OBVIOUS
  <2>2. PICK q \in up : r = PathRecord(graph, q, "upstream")
    BY <1>1
  <2>3. r.path = q /\ r.flow = PathFlow(graph, q, "upstream")
    BY <1>2, <2>2
  <2>4. PICK p : p = Reverse(q)
    OBVIOUS
  <2>5. p \in down /\ Last(p) = b /\ r.flow = PathFlow(graph, p, "downstream")
    BY <1>3, <2>1, <2>3, <2>4
  <2>6. PICK s : s = PathRecord(graph, p, "downstream")
    OBVIOUS
  <2>7. s \in above /\ s.path = p /\ s.flow = r.flow
    BY <1>1, <1>2, <2>5, <2>6
  <2>8. x = [path |-> s.path, flow |-> s.flow] /\ Last(s.path) = b
    BY <2>1, <2>3, <2>4, <2>5, <2>7
  <2>9. QED
    BY <2>7, <2>8
<1> HIDE DEF left, right
<1>6. left = right
  BY <1>4, <1>5
<1>7. QED
  BY <1>6 DEF left, right

\* The ends of a trace down are the successors of its account.
LEMMA TraceEndsAtSuccessors ==
  ASSUME NEW graph, NEW U, NEW sums, Traceable(graph, U, sums), graph.nodes = U, NEW a \in U,
         NEW records,
         records = RecordsOf(graph, PathsUpTo(Followed(graph, "downstream"), U, a, 4 + 1), "downstream")
  PROVE  {Last(r.path) : r \in records} = SharedSuccessors(graph, {a})
<1> DEFINE pairs == DOMAIN graph.sum
           down == PathsUpTo(pairs, U, a, 4 + 1)
<1>1. PairsAmong(pairs, U) /\ TruePairs(pairs)
  BY DEF Traceable
<1>2. /\ \A p \in down : PathRecord(graph, p, "downstream") \in records
      /\ \A r \in records : \E p \in down : r = PathRecord(graph, p, "downstream")
  BY DEF RecordsOf, Followed
<1>3. \A p : PathRecord(graph, p, "downstream").path = p
  BY DEF PathRecord
<1>4. SharedSuccessors(graph, {a}) = {b \in U : b # a /\ b \in Within(pairs, {a}, 4)}
  BY DEF SharedSuccessors
<1> HIDE DEF pairs
<1>5. /\ \A p \in down : Last(p) \in U /\ Last(p) # a /\ Last(p) \in Within(pairs, {a}, 4)
      /\ \A b \in Within(pairs, {a}, 4) : b # a => \E p \in down : Last(p) = b
  <2>1. PICK steps \in Nat : steps = 4
    OBVIOUS
  <2>2. down = PathsUpTo(pairs, U, a, steps + 1)
    BY <2>1
  <2> HIDE DEF down
  <2>3. /\ \A p \in PathsUpTo(pairs, U, a, steps + 1) :
             Last(p) \in U /\ Last(p) # a /\ Last(p) \in Within(pairs, {a}, steps)
        /\ \A b \in Within(pairs, {a}, steps) :
             b # a => \E p \in PathsUpTo(pairs, U, a, steps + 1) : Last(p) = b
    BY <1>1, EndsAreReached
  <2>4. QED
    BY <2>1, <2>2, <2>3
<1> HIDE DEF down
<1>6. ASSUME NEW r \in records
      PROVE  Last(r.path) \in {b \in U : b # a /\ b \in Within(pairs, {a}, 4)}
  BY <1>2, <1>3, <1>5
<1>7. ASSUME NEW b \in U, b # a, b \in Within(pairs, {a}, 4)
      PROVE  \E r \in records : Last(r.path) = b
  <2>1. PICK p \in down : Last(p) = b
    BY <1>5, <1>7
  <2>2. QED
    BY <1>2, <1>3, <2>1
<1>8. QED
  BY <1>4, <1>6, <1>7

\* The file stays within its bound.
FileFits == FileTypeOK /\ Len(file) <= MaxRows

LEMMA FileIsBounded == Spec => []FileFits
<1>1. Init => FileFits
  BY TransactionFileAssumption DEF Init, FileFits, FileTypeOK
<1>2. ASSUME FileFits, [Receive]_file
      PROVE  FileFits'
  <2>1. CASE Receive
    <3>1. PICK r \in Rows : file' = Append(file, r)
      BY <2>1 DEF Receive
    <3>2. file \in Seq(Rows) /\ Len(file) < MaxRows
      BY <1>2, <2>1 DEF FileFits, FileTypeOK, Receive
    <3>3. file' \in Seq(Rows) /\ Len(file') = Len(file) + 1 /\ Len(file) \in Nat
      BY <3>1, <3>2
    <3>4. Len(file') <= MaxRows
      BY <3>2, <3>3, TransactionFileAssumption
    <3>5. QED
      BY <3>3, <3>4 DEF FileFits, FileTypeOK
  <2>2. CASE UNCHANGED file
    BY <1>2, <2>2 DEF FileFits, FileTypeOK
  <2>3. QED
    BY <1>2, <2>1, <2>2
<1>3. QED
  BY <1>1, <1>2, PTL DEF Spec

\* What moved between two accounts is bounded by the rows and by the largest transfer.
LEMMA SumsAreBounded ==
  ASSUME Rows # {}, FileFits, NEW pair
  PROVE  SumOfPair(file, pair) \in 0 .. LargestSum /\ LargestSum \in Nat
<1> DEFINE amount == [r \in Rows |-> r.amount]
           amounts == {amount[r] : r \in Rows}
           places == {i \in DOMAIN file : <<file[i].src, file[i].dst>> = pair}
           f == Amounts(file)
<1>1. file \in Seq(Rows) /\ Len(file) <= MaxRows /\ \A r \in Rows : r.amount \in Int
  BY RowsAreTransfers DEF FileFits, FileTypeOK
<1>2. PICK most \in Nat : most = Max(amounts) /\ \A r \in Rows : r.amount <= most
  <2>1. amounts \in SUBSET Nat /\ amounts # {}
    BY RowsAreTransfers
  <2> HIDE DEF amount
  <2>2. IsFiniteSet(amounts)
    BY TransactionFileAssumption, FiniteImage
  <2>3. \A r \in Rows : r.amount \in amounts
    BY DEF amount
  <2> HIDE DEF amounts
  <2>4. Max(amounts) \in amounts /\ \A y \in amounts : Max(amounts) >= y
    BY <2>1, <2>2, GreatestNumber
  <2>5. QED
    BY <2>1, <2>3, <2>4
<1>3. LargestSum = MaxRows * most
  <2>1. amounts = {r.amount : r \in Rows}
    OBVIOUS
  <2> HIDE DEF amounts
  <2>2. QED
    BY <1>2, <2>1 DEF LargestSum
<1>4. /\ IsFiniteSet(DOMAIN file) /\ Cardinality(DOMAIN file) = Len(file) /\ Len(file) \in Nat
      /\ \A i \in DOMAIN file : file[i] \in Rows
  BY <1>1, TableDomain
<1>5. IsFiniteSet(places) /\ places \in SUBSET DOMAIN file
  BY <1>4, FS_Subset
<1>6. SumOfPair(file, pair) = Sum(f, places)
  <2>1. OfPair(file, pair) = Picked(file, places)
    BY DEF OfPair, Where
  <2> HIDE DEF places
  <2>2. QED
    BY <1>1, <1>5, <2>1, TotalOfPicked DEF SumOfPair
<1>7. PICK size \in Nat : size = Cardinality(places) /\ size <= Len(file)
  <2>1. Cardinality(places) \in Nat /\ Cardinality(places) <= Cardinality(DOMAIN file)
    BY <1>4, <1>5, FS_Subset, FS_CardinalityType
  <2>2. QED
    BY <1>4, <2>1
<1>8. \A i \in places : f[i] \in Nat /\ f[i] <= most
  BY <1>2, <1>4, RowsAreTransfers DEF Amounts
<1> DEFINE ones == [i \in places |-> 1]
           bound == [i \in places |-> most]
           nothing == [i \in places |-> 0]
<1>9. /\ \A i \in places : ones[i] = 1 /\ bound[i] = most * ones[i] /\ nothing[i] = 0 * ones[i]
      /\ \A i \in places : ones[i] \in Int /\ bound[i] \in Int /\ nothing[i] \in Int
      /\ \A i \in places : f[i] \in Int /\ f[i] <= bound[i] /\ nothing[i] <= f[i]
  BY <1>8
<1> HIDE DEF f, places, ones, bound, nothing
<1>10. Sum(ones, places) = size
  BY <1>5, <1>7, <1>9, SumOfOnes
<1>11. Sum(bound, places) = most * size
  <2>1. most \in Int
    OBVIOUS
  <2>2. Sum(bound, places) = most * Sum(ones, places)
    BY <1>5, <1>9, <2>1, SumScaled
  <2>3. QED
    BY <1>10, <2>2
<1>12. Sum(nothing, places) = 0
  <2>1. Sum(nothing, places) = 0 * Sum(ones, places)
    <3>1. 0 \in Int
      OBVIOUS
    <3>2. QED
      BY <1>5, <1>9, <3>1, SumScaled
  <2>2. QED
    BY <1>10, <2>1
<1>13. Sum(f, places) <= most * size /\ 0 <= Sum(f, places)
  BY <1>5, <1>9, <1>11, <1>12, SumAtMost
<1>14. Sum(f, places) \in Int
  BY <1>5, <1>9, SumIsNumber
<1>15. size <= MaxRows /\ MaxRows \in Nat
  BY <1>1, <1>4, <1>7, TransactionFileAssumption
<1>16. most * size <= MaxRows * most /\ MaxRows * most \in Nat
  BY <1>15
<1>17. QED
  <2>1. PICK total \in Int : total = Sum(f, places)
    BY <1>14
  <2>2. PICK limit \in Nat : limit = MaxRows * most
    BY <1>16
  <2>3. PICK product \in Int : product = most * size
    OBVIOUS
  <2>4. 0 <= total /\ total <= limit
    BY <1>13, <1>16, <2>1, <2>2, <2>3
  <2>5. QED
    BY <1>3, <1>6, <2>1, <2>2, <2>4

\* The graph of a file can be traced.
LEMMA GraphIsTraceable ==
  ASSUME Rows # {}, RankingIsComplete, FileFits
  PROVE  Traceable(Graph, Accounts, 0 .. LargestSum)
<1>1. file \in Seq(Rows)
  BY DEF FileFits, FileTypeOK
<1>2. LargestSum \in Nat /\ \A pair : SumOfPair(file, pair) \in 0 .. LargestSum
  BY SumsAreBounded
<1>3. DOMAIN Graph.sum = PairsOf(file) /\ \A e \in PairsOf(file) : Graph.sum[e] = SumOfPair(file, e)
  BY DEF Graph
<1>4. Accounts \in SUBSET Int /\ IsFiniteSet(Accounts)
  BY AccountsAreFinite
<1>5. PairsAmong(PairsOf(file), Accounts)
  BY <1>1, AccountsOfRows DEF PairsAmong
<1>6. TruePairs(PairsOf(file))
  BY DEF TruePairs, PairsOf
<1>7. 0 \in 0 .. LargestSum /\ 0 .. LargestSum \in SUBSET Nat
  BY <1>2
<1>8. Accounts \subseteq DOMAIN Urgency /\ \A n \in 0 .. LargestSum : Log1p[n] \in Nat
  BY DEF RankingIsComplete
<1>9. \A e \in DOMAIN Graph.sum : Graph.sum[e] \in 0 .. LargestSum
  BY <1>2, <1>3
<1>10. PairsAmong(DOMAIN Graph.sum, Accounts) /\ TruePairs(DOMAIN Graph.sum)
  BY <1>3, <1>5, <1>6
<1>11. QED
  BY <1>4, <1>7, <1>8, <1>9, <1>10 DEF Traceable

\* The queries agree with each other, for every file, at the depth of the comparison:
\* traces down and up show the same paths with the same flows, the ends of a trace are
\* the successors, and who is reached from both of two accounts is their common
\* successor.
THEOREM QueriesAlwaysAgree ==
  ASSUME Rows # {}, RouteHops = 4, RankingIsComplete
  PROVE  Spec => []QueriesAgree
<1>1. ASSUME FileFits PROVE QueriesAgree
  <2> DEFINE Down(a) == Trace(Graph, a, "downstream", RouteHops)
             Up(a) == Trace(Graph, a, "upstream", RouteHops)
             down == [a \in Accounts |-> Down(a)]
             up == [a \in Accounts |-> Up(a)]
  <2>1. Traceable(Graph, Accounts, 0 .. LargestSum) /\ RouteHops \in Nat
    BY <1>1, GraphIsTraceable
  <2>2. PICK sums : sums = 0 .. LargestSum
    OBVIOUS
  <2>3. Traceable(Graph, Accounts, sums)
    BY <2>1, <2>2
  <2>4. ASSUME NEW a \in Accounts, ~ Down(a).truncated
        PROVE  ToSet(Down(a).paths) =
                 RecordsOf(Graph, PathsUpTo(Followed(Graph, "downstream"), Accounts, a, RouteHops + 1),
                           "downstream")
    BY <2>1, <2>3, <2>4, TraceListsAll
  <2>5. ASSUME NEW a \in Accounts, ~ Up(a).truncated
        PROVE  ToSet(Up(a).paths) =
                 RecordsOf(Graph, PathsUpTo(Followed(Graph, "upstream"), Accounts, a, RouteHops + 1),
                           "upstream")
    BY <2>1, <2>3, <2>5, TraceListsAll
  <2> HIDE DEF Down, Up
  <2>6. ASSUME NEW a \in Accounts, NEW b \in Accounts, ~ Down(a).truncated, ~ Up(b).truncated
        PROVE  {[path |-> r.path, flow |-> r.flow] :
                  r \in {s \in ToSet(Down(a).paths) : Last(s.path) = b}}
                 = {[path |-> Reverse(r.path), flow |-> r.flow] :
                      r \in {s \in ToSet(Up(b).paths) : Last(s.path) = a}}
    <3>1. PICK most \in Nat : most = RouteHops + 1
      BY <2>1
    <3>2. PICK above : above = ToSet(Down(a).paths)
      OBVIOUS
    <3>3. PICK below : below = ToSet(Up(b).paths)
      OBVIOUS
    <3>4. PICK ways : ways = PathsUpTo(Followed(Graph, "downstream"), Accounts, a, most)
      OBVIOUS
    <3>5. PICK back : back = PathsUpTo(Followed(Graph, "upstream"), Accounts, b, most)
      OBVIOUS
    <3>6. above = RecordsOf(Graph, ways, "downstream") /\ below = RecordsOf(Graph, back, "upstream")
      BY <2>4, <2>5, <2>6, <3>1, <3>2, <3>3, <3>4, <3>5
    <3>7. {[path |-> r.path, flow |-> r.flow] : r \in {s \in above : Last(s.path) = b}}
            = {[path |-> Reverse(r.path), flow |-> r.flow] : r \in {s \in below : Last(s.path) = a}}
      BY <2>3, <3>4, <3>5, <3>6, TracesMirror
    <3>8. QED
      BY <3>2, <3>3, <3>7
  <2>7. ASSUME NEW a \in Accounts, ~ Down(a).truncated
        PROVE  {Last(r.path) : r \in ToSet(Down(a).paths)} = SharedSuccessors(Graph, {a})
    <3>1. PICK records : records = ToSet(Down(a).paths)
      OBVIOUS
    <3>2. records =
            RecordsOf(Graph, PathsUpTo(Followed(Graph, "downstream"), Accounts, a, 4 + 1), "downstream")
      BY <2>4, <2>7, <3>1
    <3>3. Graph.nodes = Accounts
      BY DEF Graph
    <3>4. {Last(r.path) : r \in records} = SharedSuccessors(Graph, {a})
      BY <2>3, <3>2, <3>3, TraceEndsAtSuccessors
    <3>5. QED
      BY <3>1, <3>4
  <2>8. ASSUME NEW a \in Accounts, NEW b \in Accounts, a # b
        PROVE  {c.gid : c \in {d \in CommonReceivers(Graph, {a, b}, RouteHops) : d.reachedBy = 2}}
                 = SharedSuccessors(Graph, {a, b}) \ {a, b}
    BY <2>8, ReceiversAreShared
  <2>9. \A a \in Accounts : down[a] = Down(a) /\ up[a] = Up(a)
    OBVIOUS
  <2>10. /\ \A a, b \in Accounts : ~ down[a].truncated /\ ~ up[b].truncated =>
              {[path |-> r.path, flow |-> r.flow] :
                 r \in {s \in ToSet(down[a].paths) : Last(s.path) = b}}
                = {[path |-> Reverse(r.path), flow |-> r.flow] :
                     r \in {s \in ToSet(up[b].paths) : Last(s.path) = a}}
         /\ \A a \in Accounts : ~ down[a].truncated =>
              {Last(r.path) : r \in ToSet(down[a].paths)} = SharedSuccessors(Graph, {a})
    BY <2>6, <2>7, <2>9
  <2>11. QED
    BY <2>8, <2>10 DEF QueriesAgree, Down, Up
<1>2. QED
  BY <1>1, FileIsBounded, PTL

\* A sum over rows, and over the table of their amounts.
LEMMA SumOfAmounts ==
  ASSUME NEW S, IsFiniteSet(S), NEW rows, NEW f, \A x \in S : f[x] \in Int,
         \A x \in S : f[x] = rows[x].amount
  PROVE  SumOver(S, LAMBDA x : rows[x].amount) = Sum(f, S)
<1> DEFINE Totals(results) == results = [part \in SUBSET S |->
              IF part = {} THEN 0
              ELSE results[part \ {CHOOSE x \in part : TRUE}]
                     + rows[(CHOOSE x \in part : TRUE)].amount]
<1>1. PICK results \in [SUBSET S -> Int] :
        Summed(S, f, results) /\ Sum(f, S) = results[S]
  BY SumIsDefined
<1>2. \A part \in SUBSET S : part # {} =>
         /\ AnyOf(part) \in S /\ AnyOf(part) = CHOOSE x \in part : TRUE
         /\ f[AnyOf(part)] = rows[AnyOf(part)].amount
  BY AnyOfPart DEF AnyOf
<1>3. Totals(results)
  <2>1. \A part \in SUBSET S :
          results[part] = IF part = {} THEN 0
                          ELSE results[part \ {CHOOSE x \in part : TRUE}]
                                 + rows[(CHOOSE x \in part : TRUE)].amount
    <3> SUFFICES ASSUME NEW part \in SUBSET S, part # {}
                 PROVE  results[part] = results[part \ {CHOOSE x \in part : TRUE}]
                                          + rows[(CHOOSE x \in part : TRUE)].amount
      BY <1>1 DEF Summed
    <3>1. results[part] = results[part \ {AnyOf(part)}] + f[AnyOf(part)]
      BY <1>1 DEF Summed
    <3>2. QED
      BY <1>2, <3>1
  <2>2. QED
    BY <2>1
<1>4. SumOver(S, LAMBDA x : rows[x].amount) = (CHOOSE r : Totals(r))[S]
  BY DEF SumOver, FoldSet, MapThenFoldSet
<1>5. Totals(CHOOSE r : Totals(r))
  <2> HIDE DEF Totals
  <2>1. QED
    BY <1>3
<1>6. Summed(S, f, CHOOSE r : Totals(r))
  <2> DEFINE chosen == CHOOSE r : Totals(r)
  <2>1. Totals(chosen)
    BY <1>5
  <2> HIDE DEF chosen
  <2>2. Summed(S, f, chosen)
    <3> SUFFICES ASSUME NEW part \in SUBSET S
                 PROVE  chosen[part] = IF part = {} THEN 0
                                       ELSE chosen[part \ {AnyOf(part)}] + f[AnyOf(part)]
      BY DEF Summed
    <3>1. chosen[part] = IF part = {} THEN 0
                         ELSE chosen[part \ {CHOOSE x \in part : TRUE}]
                                + rows[(CHOOSE x \in part : TRUE)].amount
      BY <2>1
    <3>2. QED
      BY <1>2, <3>1
  <2>3. QED
    BY <2>2 DEF chosen
<1>7. QED
  <2> HIDE DEF Totals
  <2>1. (CHOOSE r : Totals(r))[S] = results[S]
    BY <1>1, <1>6, SumsAgree
  <2>2. QED
    BY <1>1, <1>4, <2>1

\* The same of the holding times of an account.
LEMMA SumOfHeldFor ==
  ASSUME NEW S, IsFiniteSet(S), NEW gid, NEW f, \A x \in S : f[x] \in Int,
         \A x \in S : f[x] = HeldFor(gid, x)
  PROVE  SumOver(S, LAMBDA x : HeldFor(gid, x)) = Sum(f, S)
<1> DEFINE Totals(results) == results = [part \in SUBSET S |->
              IF part = {} THEN 0
              ELSE results[part \ {CHOOSE x \in part : TRUE}]
                     + HeldFor(gid, (CHOOSE x \in part : TRUE))]
<1>1. PICK results \in [SUBSET S -> Int] :
        Summed(S, f, results) /\ Sum(f, S) = results[S]
  BY SumIsDefined
<1>2. \A part \in SUBSET S : part # {} =>
         /\ AnyOf(part) \in S /\ AnyOf(part) = CHOOSE x \in part : TRUE
         /\ f[AnyOf(part)] = HeldFor(gid, AnyOf(part))
  BY AnyOfPart DEF AnyOf
<1>3. Totals(results)
  <2>1. \A part \in SUBSET S :
          results[part] = IF part = {} THEN 0
                          ELSE results[part \ {CHOOSE x \in part : TRUE}]
                                 + HeldFor(gid, (CHOOSE x \in part : TRUE))
    <3> SUFFICES ASSUME NEW part \in SUBSET S, part # {}
                 PROVE  results[part] = results[part \ {CHOOSE x \in part : TRUE}]
                                          + HeldFor(gid, (CHOOSE x \in part : TRUE))
      BY <1>1 DEF Summed
    <3>1. results[part] = results[part \ {AnyOf(part)}] + f[AnyOf(part)]
      BY <1>1 DEF Summed
    <3>2. QED
      BY <1>2, <3>1
  <2>2. QED
    BY <2>1
<1>4. SumOver(S, LAMBDA x : HeldFor(gid, x)) = (CHOOSE r : Totals(r))[S]
  BY DEF SumOver, FoldSet, MapThenFoldSet
<1>5. Totals(CHOOSE r : Totals(r))
  <2> HIDE DEF Totals
  <2>1. QED
    BY <1>3
<1>6. Summed(S, f, CHOOSE r : Totals(r))
  <2> DEFINE chosen == CHOOSE r : Totals(r)
  <2>1. Totals(chosen)
    BY <1>5
  <2> HIDE DEF chosen
  <2>2. Summed(S, f, chosen)
    <3> SUFFICES ASSUME NEW part \in SUBSET S
                 PROVE  chosen[part] = IF part = {} THEN 0
                                       ELSE chosen[part \ {AnyOf(part)}] + f[AnyOf(part)]
      BY DEF Summed
    <3>1. chosen[part] = IF part = {} THEN 0
                         ELSE chosen[part \ {CHOOSE x \in part : TRUE}]
                                + HeldFor(gid, (CHOOSE x \in part : TRUE))
      BY <2>1
    <3>2. QED
      BY <1>2, <3>1
  <2>3. QED
    BY <2>2 DEF chosen
<1>7. QED
  <2> HIDE DEF Totals
  <2>1. (CHOOSE r : Totals(r))[S] = results[S]
    BY <1>1, <1>6, SumsAgree
  <2>2. QED
    BY <1>1, <1>4, <2>1

-----------------------------------------------------------------------------
(* What the matching of an account says of the file, and what the lots and *)
(* the chunks of the code make of it.                                      *)

\* What has come in, and gone out, by each day.
InflowByDay(gid) == BroughtBy(file, Into(file, gid), Days)
OutflowByDay(gid) == BroughtBy(file, OutOf(file, gid), Days)

LEMMA DaysOfRows ==
  /\ Days \in SUBSET Nat /\ IsFiniteSet(Days)
  /\ Accounts # {} => Latest(Days, LastDay)
<1>1. Days \in SUBSET Nat
  BY RowsAreTransfers DEF Days
<1>2. IsFiniteSet(Days)
  <2> DEFINE of == [r \in Rows |-> r.day]
  <2>1. Days = {of[r] : r \in Rows}
    BY DEF Days
  <2>2. IsFiniteSet(Rows)
    BY TransactionFileAssumption
  <2> HIDE DEF of
  <2>3. QED
    BY <2>1, <2>2, FiniteImage
<1>3. ASSUME Accounts # {}
      PROVE  Latest(Days, LastDay)
  <2>1. Days # {}
    BY <1>3 DEF Accounts, Days
  <2>2. Max(Days) \in Days /\ \A d \in Days : Max(Days) >= d
    BY <1>1, <1>2, <2>1, GreatestNumber
  <2>3. PICK last : last = Max(Days)
    OBVIOUS
  <2>4. last \in Nat /\ Days \subseteq Nat /\ last \in Days /\ \A d \in Days : last >= d
    BY <1>1, <2>2, <2>3
  <2>5. \A d \in Days : d <= last
    BY <2>4
  <2>6. QED
    BY <2>3, <2>4, <2>5 DEF Latest, LastDay
<1>4. QED
  BY <1>1, <1>2, <1>3

LEMMA RowsOfFile ==
  ASSUME FileTypeOK
  PROVE  /\ IsFiniteSet(DOMAIN file) /\ DOMAIN file = Times(file) /\ DOMAIN file \subseteq Int
         /\ \A i \in DOMAIN file : /\ file[i] \in Rows /\ file[i].day \in Days
                                   /\ file[i].amount \in Nat /\ file[i].amount # 0
<1>1. /\ IsFiniteSet(DOMAIN file) /\ DOMAIN file = 1 .. Len(file) /\ DOMAIN file \subseteq Int
      /\ \A i \in DOMAIN file : file[i] \in Rows
  BY TableDomain DEF FileTypeOK
<1>2. \A r \in Rows : r.day \in Days /\ r.amount \in Nat /\ r.amount # 0
  BY RowsAreTransfers DEF Days
<1>3. QED
  BY <1>1, <1>2 DEF Times

\* The totals of a day are sums over the table of amounts.
LEMMA TotalsByDay ==
  ASSUME FileTypeOK, NEW gid, NEW day \in Days
  PROVE  /\ CameInBy(gid, day) = InflowByDay(gid)[day] /\ InflowByDay(gid)[day] \in Nat
         /\ WentOutBy(gid, day) = OutflowByDay(gid)[day] /\ OutflowByDay(gid)[day] \in Nat
<1> DEFINE f == Amounts(file)
           came == {i \in Into(file, gid) : file[i].day <= day}
           went == {i \in OutOf(file, gid) : file[i].day <= day}
<1>1. \A i \in DOMAIN file : f[i] = file[i].amount /\ f[i] \in Nat /\ f[i] \in Int
  BY RowsOfFile DEF Amounts
<1>2. came \in SUBSET DOMAIN file /\ went \in SUBSET DOMAIN file
  BY RowsOfFile DEF Into, OutOf
<1>3. IsFiniteSet(came) /\ IsFiniteSet(went)
  BY <1>2, RowsOfFile, FS_Subset
<1>4. InflowByDay(gid)[day] = Sum(f, came) /\ OutflowByDay(gid)[day] = Sum(f, went)
  BY DEF InflowByDay, OutflowByDay, BroughtBy
<1>5. CameInBy(gid, day) = SumOver(came, LAMBDA i : file[i].amount)
  BY DEF CameInBy
<1>6. WentOutBy(gid, day) = SumOver(went, LAMBDA i : file[i].amount)
  BY DEF WentOutBy
<1>7. SumOver(came, LAMBDA i : file[i].amount) = Sum(f, came)
  <2> HIDE DEF f, came
  <2>1. \A x \in came : f[x] \in Int /\ f[x] = file[x].amount
    BY <1>1, <1>2
  <2>2. QED
    BY <1>3, <2>1, SumOfAmounts
<1>8. SumOver(went, LAMBDA i : file[i].amount) = Sum(f, went)
  <2> HIDE DEF f, went
  <2>1. \A x \in went : f[x] \in Int /\ f[x] = file[x].amount
    BY <1>1, <1>2
  <2>2. QED
    BY <1>3, <2>1, SumOfAmounts
<1>9. Sum(f, came) \in Nat /\ Sum(f, went) \in Nat
  <2> HIDE DEF f, came, went
  <2>1. \A x \in came : f[x] \in Nat
    BY <1>1, <1>2
  <2>2. \A x \in went : f[x] \in Nat
    BY <1>1, <1>2
  <2>3. QED
    BY <1>3, <2>1, <2>2, SumOfNumbers
<1> HIDE DEF f, came, went
<1>10. QED
  BY <1>4, <1>5, <1>6, <1>7, <1>8, <1>9

\* What is missing, matched and held, day by day, is what these totals say.
LEMMA MatchingByDay ==
  ASSUME FileTypeOK, NEW gid, NEW C, C = InflowByDay(gid), NEW W, W = OutflowByDay(gid)
  PROVE  /\ \A d \in Days : /\ MissingBy(gid, d) = MostMissing(Days, W, C, d)
                            /\ MatchedBy(gid, d) = MatchedUpTo(Days, W, C)[d]
         /\ \A n \in Nat : HeldFor(gid, n) = HoldingDays(Days, W, C)[n]
<1>1. \A d \in Days : CameInBy(gid, d) = C[d] /\ WentOutBy(gid, d) = W[d]
  BY TotalsByDay
<1>2. ASSUME NEW d \in Days
      PROVE  MissingBy(gid, d) = MostMissing(Days, W, C, d)
  <2>1. {WentOutBy(gid, e) - CameInBy(gid, e) : e \in {f \in Days : f <= d}}
          = {W[e] - C[e] : e \in {f \in Days : f <= d}}
    BY <1>1
  <2>2. QED
    BY <2>1 DEF MissingBy, MostMissing
<1>3. \A d \in Days : MatchedBy(gid, d) = MatchedUpTo(Days, W, C)[d]
  BY <1>1, <1>2 DEF MatchedBy, MatchedUpTo
<1>4. ASSUME NEW n \in Nat
      PROVE  HeldFor(gid, n) = HoldingDays(Days, W, C)[n]
  <2>1. {d \in Days : CameInBy(gid, d) >= n} = {d \in Days : C[d] >= n}
    BY <1>1
  <2>2. {d \in Days : MatchedBy(gid, d) >= n} = {d \in Days : MatchedUpTo(Days, W, C)[d] >= n}
    BY <1>3
  <2>3. ArrivalOf(gid, n) = FirstWith(Days, C, n)
    BY <2>1 DEF ArrivalOf, FirstWith
  <2>4. DepartureOf(gid, n) = FirstWith(Days, MatchedUpTo(Days, W, C), n)
    BY <2>2 DEF DepartureOf, FirstWith
  <2>5. QED
    BY <2>3, <2>4 DEF HeldFor, HoldingDays
<1>5. QED
  BY <1>2, <1>3, <1>4

\* The lots and the chunks of the code are the units of the file.
LEMMA CodeMatches ==
  ASSUME FileTypeOK, NEW gid \in Accounts, NEW C, C = InflowByDay(gid),
         NEW W, W = OutflowByDay(gid),
         NEW H, H = HoldingDays(Days, W, C), NEW count, count = MatchedUpTo(Days, W, C)[LastDay]
  PROVE  /\ MatchedSoFar(Matched(file, gid), ArrivalDay(Days, C), H, W[LastDay], count, C[LastDay])
         /\ FastVolume(To(file, gid), From(file, gid)) = Cardinality(FastUnits(H, 0, count))
<1> DEFINE L == [src : Nat, dst : Nat, day : Nat, amount : Nat]
<1>1. Latest(Days, LastDay) /\ Days \in SUBSET Nat /\ IsFiniteSet(Days)
  BY DaysOfRows
<1>2. Transfers(Rows) /\ \A r \in Rows : r.amount # 0
  BY RowsAreTransfers
<1>3. \A i \in DOMAIN file : file[i].day \in Days /\ file[i].amount # 0
  BY RowsOfFile
<1>4. MatchedSoFar(Matched(file, gid), ArrivalDay(Days, C), HoldingDays(Days, W, C),
                   W[LastDay], MatchedUpTo(Days, W, C)[LastDay], C[LastDay])
  BY <1>1, <1>2, <1>3, MatchedByItsDays DEF FileTypeOK, InflowByDay, OutflowByDay
<1>5. Lots(L) /\ Portions(L) /\ Transfers(L)
  BY DEF Lots, Portions, Transfers
<1>6. file \in Seq(L)
  <2>1. \A r \in Rows : r \in L
    <3>1. \A r \in Rows : r \in [src : Nat, dst : Nat, day : Nat, amount : Nat \ {0}]
      BY TransactionFileAssumption
    <3>2. QED
      BY <3>1
  <2> HIDE DEF L
  <2>2. Seq(Rows) \subseteq Seq(L)
    BY <2>1
  <2>3. QED
    BY <2>2 DEF FileTypeOK
<1>7. Into(file, gid) \in SUBSET DOMAIN file /\ OutOf(file, gid) \in SUBSET DOMAIN file
  BY RowsOfFile DEF Into, OutOf
<1>8. /\ To(file, gid) = Picked(file, Into(file, gid))
      /\ From(file, gid) = Picked(file, OutOf(file, gid))
  BY RowsOfFile DEF To, From, Where, Into, OutOf
<1> HIDE DEF L
<1>9. PICK into : into = Into(file, gid)
  OBVIOUS
<1>10. PICK out : out = OutOf(file, gid)
  OBVIOUS
<1>11. FastVolume(Picked(file, into), Picked(file, out))
         = Cardinality(FastUnits(HoldingDays(Days, W, C), 0, MatchedUpTo(Days, W, C)[LastDay]))
  <2>1. C = BroughtBy(file, into, Days) /\ W = BroughtBy(file, out, Days)
    BY <1>9, <1>10 DEF InflowByDay, OutflowByDay
  <2>2. into \in SUBSET DOMAIN file /\ out \in SUBSET DOMAIN file
    BY <1>7, <1>9, <1>10
  <2>3. \A i \in DOMAIN file : file[i].amount # 0
    BY <1>3
  <2>4. \A i \in DOMAIN file : file[i].day \in Days
    BY <1>3
  <2>5. QED
    BY <1>1, <1>5, <1>6, <2>1, <2>2, <2>3, <2>4, FastByItsDays
<1>12. QED
  BY <1>4, <1>8, <1>9, <1>10, <1>11

LEMMA FlowsOfAccount ==
  ASSUME FileTypeOK, NEW gid \in Accounts,
         NEW m, m = FifoMetrics(file, gid), NEW last, last = LastDay,
         NEW units, units = Units(gid)
  PROVE  /\ m.observed = WentOutBy(gid, last)
         /\ m.unmatched = MissingBy(gid, last)
         /\ m.matched = Cardinality(units)
         /\ m.fast = Cardinality({n \in units : HeldFor(gid, n) <= FastDays})
         /\ m.unitDays = SumOver(units, LAMBDA n : HeldFor(gid, n))
         /\ m.median = IF units = {} THEN NoValue
                       ELSE Min({d \in 0 .. last :
                              2 * Cardinality({n \in units : HeldFor(gid, n) <= d})
                                >= Cardinality(units)})
         /\ FastVolume(To(file, gid), From(file, gid)) = m.fast
<1>1. PICK C : C = InflowByDay(gid)
  OBVIOUS
<1>2. PICK W : W = OutflowByDay(gid)
  OBVIOUS
<1>3. PICK H : H = HoldingDays(Days, W, C)
  OBVIOUS
<1>4. PICK count : count = MatchedUpTo(Days, W, C)[last]
  OBVIOUS
<1>5. PICK acc : acc = Matched(file, gid)
  OBVIOUS
<1>6. /\ Latest(Days, last) /\ last \in Days /\ last \in Nat
      /\ Days \in SUBSET Nat /\ IsFiniteSet(Days)
  BY DaysOfRows DEF Latest
<1>7. /\ MatchedSoFar(acc, ArrivalDay(Days, C), H, W[last], count, C[last])
      /\ FastVolume(To(file, gid), From(file, gid)) = Cardinality(FastUnits(H, 0, count))
  BY <1>1, <1>2, <1>3, <1>4, <1>5, CodeMatches
<1>8. /\ acc.chunks \in Seq(Chunk) /\ ChunksCover(acc.chunks, H, 0, count)
      /\ acc.observed = W[last] /\ acc.unmatched = W[last] - count
  <2>1. acc \in Matches /\ ChunksCover(acc.chunks, H, 0, count)
    BY <1>7 DEF MatchedSoFar
  <2>2. acc.observed = W[last] /\ acc.unmatched = W[last] - count
    BY <1>7 DEF MatchedSoFar
  <2>3. QED
    BY <2>1, <2>2 DEF Matches
<1>9. PICK chunks \in Seq(Chunk) : chunks = acc.chunks
  BY <1>8
<1>10. /\ m.matched = VolumeOf(chunks) /\ m.unmatched = acc.unmatched /\ m.observed = acc.observed
       /\ m.fast = VolumeOf(Where(chunks, LAMBDA c : c.held <= FastDays))
       /\ m.unitDays = UnitDaysOf(chunks) /\ m.median = WeightedMedian(chunks)
  BY <1>5, <1>9 DEF FifoMetrics, UnitDaysOf
<1>11. ChunksCover(chunks, H, 0, count)
  BY <1>8, <1>9
<1>12. /\ count \in Nat /\ VolumeOf(chunks) = count /\ UnitDaysOf(chunks) = Sum(H, 1 .. count)
       /\ chunks = <<>> <=> count = 0
  <2>1. /\ count \in Nat /\ VolumeOf(chunks) = count - 0
        /\ UnitDaysOf(chunks) = Sum(H, (0 + 1) .. count)
        /\ chunks = <<>> <=> count = 0
    BY <1>11, ChunksMeasured
  <2>2. 0 + 1 = 1
    OBVIOUS
  <2>3. QED
    BY <2>1, <2>2
<1>13. units = 1 .. count
  <2>1. MatchedBy(gid, last) = count
    BY <1>1, <1>2, <1>4, <1>6, MatchingByDay
  <2>2. QED
    BY <2>1 DEF Units
<1>14. IsFiniteSet(units) /\ Cardinality(units) = count
  <2>1. IsFiniteSet(1 .. count) /\ Cardinality(1 .. count) = IF 1 > count THEN 0 ELSE count - 1 + 1
    BY <1>12, FS_Interval
  <2>2. QED
    BY <1>12, <1>13, <2>1
<1>15. \A n \in units : HeldFor(gid, n) = H[n]
  BY <1>1, <1>2, <1>3, <1>12, <1>13, MatchingByDay
<1>16. \A n \in units : H[n] \in 0 .. last
  <2> SUFFICES ASSUME NEW n \in units
               PROVE  H[n] \in 0 .. last
    OBVIOUS
  <2>1. \A d \in Days : W[d] \in Nat /\ C[d] \in Nat
    BY <1>1, <1>2, TotalsByDay
  <2>2. n \in Nat /\ n <= MatchedUpTo(Days, W, C)[last]
    BY <1>4, <1>12, <1>13
  <2>3. HoldingDays(Days, W, C)[n] \in 0 .. last
    BY <1>6, <2>1, <2>2, UnitsStay
  <2>4. QED
    BY <1>3, <2>3
<1>17. m.observed = WentOutBy(gid, last)
  BY <1>2, <1>6, <1>8, <1>10, TotalsByDay
<1>18. m.unmatched = MissingBy(gid, last)
  <2>1. \A d \in Days : W[d] \in Nat /\ C[d] \in Nat
    BY <1>1, <1>2, TotalsByDay
  <2>2. PICK w \in Nat : w = W[last]
    BY <1>6, <2>1
  <2>3. PICK most \in Int : most = MostMissing(Days, W, C, last)
    BY <1>6, <2>1, MissingAtLeast
  <2>4. count = w - most
    BY <1>4, <1>6, <2>2, <2>3 DEF MatchedUpTo
  <2>5. MissingBy(gid, last) = most
    BY <1>1, <1>2, <1>6, <2>3, MatchingByDay
  <2>6. m.unmatched = w - count
    BY <1>8, <1>10, <2>2
  <2>7. QED
    BY <2>4, <2>5, <2>6
<1>19. m.fast = Cardinality({n \in units : HeldFor(gid, n) <= FastDays})
  <2>1. FastDays \in Int
    BY DEF FastDays
  <2>2. CountedUpTo(chunks, H, 0, count, FastDays)
    BY <1>11, <2>1, VolumeUpTo
  <2>3. VolumeOf(Where(chunks, LAMBDA c : c.held <= FastDays))
          = Cardinality({n \in (0 + 1) .. count : H[n] <= FastDays})
    BY <2>2 DEF CountedUpTo
  <2>4. {n \in (0 + 1) .. count : H[n] <= FastDays} = {n \in units : HeldFor(gid, n) <= FastDays}
    BY <1>13, <1>15
  <2>5. QED
    BY <1>10, <2>3, <2>4
<1>20. m.unitDays = SumOver(units, LAMBDA n : HeldFor(gid, n))
  <2>1. \A x \in units : H[x] \in Int /\ H[x] = HeldFor(gid, x)
    BY <1>6, <1>15, <1>16
  <2>2. SumOver(units, LAMBDA x : HeldFor(gid, x)) = Sum(H, units)
    BY <1>14, <2>1, SumOfHeldFor
  <2>3. QED
    BY <1>10, <1>12, <1>13, <2>2
<1>21. m.median = IF units = {} THEN NoValue
                  ELSE Min({d \in 0 .. last :
                         2 * Cardinality({n \in units : HeldFor(gid, n) <= d})
                           >= Cardinality(units)})
  <2>1. CASE units = {}
    <3>1. chunks = <<>>
      BY <1>12, <1>14, <2>1, FS_EmptySet
    <3>2. QED
      BY <1>10, <2>1, <3>1 DEF WeightedMedian
  <2>2. CASE units # {}
    <3>1. count \in Nat \ {0}
      BY <1>12, <1>13, <2>2
    <3>2. WeightedMedian(chunks) = Min(HalfHeld(H, count, last))
      BY <1>6, <1>11, <1>13, <1>16, <3>1, MedianOfChunks
    <3>3. \A d \in 0 .. last : {n \in units : HeldFor(gid, n) <= d} = {n \in 1 .. count : H[n] <= d}
      BY <1>13, <1>15
    <3>4. HalfHeld(H, count, last)
            = {d \in 0 .. last : 2 * Cardinality({n \in units : HeldFor(gid, n) <= d})
                                   >= Cardinality(units)}
      BY <1>14, <3>3 DEF HalfHeld, HeldWithin
    <3>5. QED
      BY <1>10, <2>2, <3>2, <3>4
  <2>3. QED
    BY <2>1, <2>2
<1>22. FastVolume(To(file, gid), From(file, gid)) = m.fast
  <2>1. FastDays \in Int
    BY DEF FastDays
  <2>2. \A n \in units : H[n] \in 0 .. FastDays <=> H[n] <= FastDays
    BY <1>6, <1>16, <2>1
  <2>3. FastUnits(H, 0, count) = {n \in (0 + 1) .. count : H[n] \in 0 .. FastDays}
    BY DEF FastUnits
  <2>4. FastUnits(H, 0, count) = {n \in units : HeldFor(gid, n) <= FastDays}
    BY <1>13, <1>15, <2>2, <2>3
  <2>5. QED
    BY <1>7, <1>19, <2>4
<1>23. QED
  BY <1>10, <1>12, <1>14, <1>17, <1>18, <1>19, <1>20, <1>21, <1>22

\* For every file the matchings of the code agree with the money of the account: what is
\* asked for, missing and matched, how long each unit stays, and what leaves within two days,
\* whichever of the two matchings counts it.
THEOREM FlowsAreMatched == Spec => []FlowsAreExact
<1>1. FileTypeOK => FlowsAreExact
  <2> SUFFICES ASSUME FileTypeOK
               PROVE  FlowsAreExact
    OBVIOUS
  <2>1. QED
    BY FlowsOfAccount DEF FlowsAreExact
<1>2. QED
  BY <1>1, FileType, PTL

=============================================================================
