SPECIFICATION Spec
CONSTANTS
  Files <- SomeFiles
  Threads = {t1}
  NoThread = NoThread
  RawEdges = TRUE
  MaxRuns = 2
  MaxFaults = 0
INVARIANT ServesOneRun
