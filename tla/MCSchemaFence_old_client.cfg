\* One write of an old instance, one cutover, nothing fails.
SPECIFICATION Spec
CONSTANTS
  New = {n1, n2}
  Old = {o1}
  Admins = {n1}
  Watched = {n2}
  Writes = {w1}
  Calls = {}
  None = None
  MaxRuns = 1
  MaxFaults = 0
PROPERTY MigratedStaysMigrated
CHECK_DEADLOCK FALSE
