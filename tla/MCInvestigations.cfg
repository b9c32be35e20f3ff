SPECIFICATION Spec
CONSTANTS
  w1 = w1
  w2 = w2
  w3 = w3
  x = x
  y = y
  Cases = {i1}
  Gids = {x, y}
  Statuses = {"new", "closed"}
  Workers = {w1, w2, w3}
  Editors = {w1}
  MaxEvents = 3
SYMMETRY Symmetry
INVARIANTS
  TrailTellsCase
  ExportIsExplained
