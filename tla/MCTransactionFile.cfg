SPECIFICATION Spec
CONSTANTS
  Rows <- SmallRows
  MaxRows = 3
  ManyPayers = 2
  LargeDay = 2
  ScanLimit = 1
  PayersKept = 2
  RouteHops = 4
  RoutePaths = 2
  RouteSize = 2
  PathLimit = 3
  Log1p <- Logarithms
  Urgency <- Priorities
  Seeds = {1}
  DepthOf <- Depths
  Period = {1, 2, 3, 4}
  MaxSeedHops = 2
  RoleWeights <- DefaultRoleWeights
  PriorityWeights <- DefaultPriorityWeights
  RoleThreshold = 40
  TerminalCap = 25
  SeedPenalty = 60
  Unit = 840
  TopNodes = 3
  MandatoryTop = 2
  TopOfGroup = 2
  TopDrivers = 3
CHECK_DEADLOCK FALSE
INVARIANTS FlowsAreExact SearchesAreComplete QueriesAgree TablesAreTheFile StructureAddsUp RolesAreObserved
PROPERTIES NoLookAhead EffectsFitTheAlert
