SPECIFICATION Spec
CONSTANTS
  Bodies = {b1, b2}
  NoBody = NoBody
  Nil = Nil
  Devices = {d1, d2}
  Ids = {r1}
  Strategies = {"version"}
  Ops = {"put", "delete", "forget"}
  MaxOps = 3
  Faults = {}
  MaxFaults = 0
  DevicesOverlap = FALSE
  ResolveWindow = FALSE
  RecreateErased = FALSE
  AppDuringSync = FALSE
SYMMETRY Symmetry
PROPERTIES
  RemoteErasureTerminal
