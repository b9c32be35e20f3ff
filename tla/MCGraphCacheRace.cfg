SPECIFICATION CacheSpec
CONSTANTS
  Files <- FewFiles
  Threads = {t1, t2}
  NoThread = NoThread
  RawEdges = TRUE
  MaxRuns = 2
  MaxFaults = 0
  Queriers = {t1, t2}
  Tracers = {}
SYMMETRY ThreadSymmetry
INVARIANT
  ServedGraphIsFresh
