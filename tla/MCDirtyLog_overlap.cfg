CONSTANTS
  Ids = {i1, i2}
  Pushes = {p1, p2}
  Loads = {c1}
  NoId = NoId
  MaxWrites = 2
  MaxCrashes = 0
  Overlap = TRUE
SPECIFICATION Spec
PROPERTIES OnlyCompletedLeave
