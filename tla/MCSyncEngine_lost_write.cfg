SPECIFICATION Spec
CONSTANTS
  Bodies = {b1, b2}
  NoBody = NoBody
  Nil = Nil
  Devices = {d1}
  Ids = {r1}
  Strategies = {"version"}
  Ops = {"put", "delete", "forget"}
  MaxOps = 3
  Faults = {}
  MaxFaults = 0
  DevicesOverlap = TRUE
  ResolveWindow = FALSE
  RecreateErased = FALSE
  AppDuringSync = TRUE
SYMMETRY Symmetry
INVARIANTS
  CaughtUp
