SPECIFICATION Spec
CONSTANTS
  Bodies = {b1, b2}
  NoBody = NoBody
  Nil = Nil
  Devices = {d1, d2}
  Ids = {r1}
  Strategies = {"version", "remote-wins"}
  Ops = {"put", "delete", "forget"}
  MaxOps = 3
  Faults = {"call fails", "answer lost", "crash"}
  MaxFaults = 1
  DevicesOverlap = TRUE
  ResolveWindow = FALSE
  RecreateErased = TRUE
  AppDuringSync = FALSE
SYMMETRY Symmetry
INVARIANTS
  TypeOK
  NoSilentDivergence
  DirtyVersionMatches
  ViewsCoherent
PROPERTIES
  SupersedesRemote
  ErasureTerminal
  OwnWritesSupersede
