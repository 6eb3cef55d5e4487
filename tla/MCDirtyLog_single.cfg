CONSTANTS
  Ids = {i1, i2, i3}
  Pushes = {p1}
  Loads = {c1}
  NoId = NoId
  MaxWrites = 4
  MaxCrashes = 1
  Overlap = FALSE
SYMMETRY MCSymmetry
SPECIFICATION Spec
INVARIANTS TypeOK UniqueEntries IndicesStable
PROPERTIES ImplementsMap
