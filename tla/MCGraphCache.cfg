SPECIFICATION CacheSpec
CONSTANTS
  Files <- FewFiles
  Threads = {t1, t2}
  NoThread = NoThread
  RawEdges = TRUE
  MaxRuns = 2
  MaxFaults = 0
  Queriers = {t1}
  Tracers = {t1}
INVARIANTS
  ServedGraphIsFresh
  TraceIsOfOneRun
