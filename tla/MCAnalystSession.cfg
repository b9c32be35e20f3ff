SPECIFICATION Spec
CONSTANTS
  a1 = a1
  a2 = a2
  s1 = s1
  s2 = s2
  Actions = {a1, a2}
  Sessions = {s1, s2}
  MaxTries = 2
  MaxLives = 2
SYMMETRY Symmetry
INVARIANTS ReceiptsAreTrue RetriesGetTheReceipt
