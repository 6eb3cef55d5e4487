SPECIFICATION FairSpec
CONSTANTS
  Bodies = {b1, b2}
  NoBody = NoBody
  Nil = Nil
  Devices = {d1, d2}
  Ids = {r1}
  Strategies = {"local-wins"}
  Ops = {"put", "delete", "forget"}
  MaxOps = 2
  Faults = {"call fails", "answer lost"}
  MaxFaults = 1
  DevicesOverlap = TRUE
  ResolveWindow = FALSE
  RecreateErased = FALSE
  AppDuringSync = FALSE
PROPERTIES
  EventuallyConverged
  EventuallyCaughtUp
  ImplementsDirtyMap
