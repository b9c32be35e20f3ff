SPECIFICATION Spec
CONSTANTS
  a1 = a1
  a2 = a2
  draft = draft
  route = route
  watchlist = watchlist
  k1 = k1
  k2 = k2
  w1 = w1
  w2 = w2
  w3 = w3
  Alerts = {a1}
  AutoAlerts = {a1}
  ActionKeys = {draft, route}
  CaseActions = {draft}
  ClientKeys = {k1, k2}
  Workers = {w1, w2}
  MaxTrail = 3
  NoKey = NoKey
INVARIANT EnrichedCaseKeepsReasons
SYMMETRY Symmetry
