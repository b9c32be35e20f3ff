SPECIFICATION Spec
CONSTANTS
  w1 = w1
  w2 = w2
  k1 = k1
  k2 = k2
  Workers = {w1, w2}
  Keys = {k1, k2}
  Identities = {"openai"}
  IdentityOf <- OneIdentity
  RowIds = {1, 2, 3}
  DailyLimit = 1
  MaxEntries = 1
  TTL = 1
  DayLength = 2
  Retention = 5
  Cooldown = 2
  Stale = 2
  MaxLag = 1
  MaxFlight = 3
  MaxClock = 7
  NoKey = NoKey
SYMMETRY Symmetry
INVARIANTS
  QuotaNeverExceeded
  EveryCallIsCharged
  DuplicateOnlyAfterTimeout
PROPERTIES
  PauseAfterFailure
  OutcomesStand
  BlockedOnlyWhileFresh
  ImplementsAllowance
