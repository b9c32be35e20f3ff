SPECIFICATION FairSpec
CONSTANTS
  Files <- SomeFiles
  Threads = {t1}
  NoThread = NoThread
  RawEdges = TRUE
  MaxRuns = 2
  MaxFaults = 2
INVARIANTS
  ManifestMeansComplete
  AnswersAreFresh
  StoreMatchesSignature
  NothingServedTooEarly
PROPERTY
  StoreCatchesUp
