\* The migrator and one more new instance, whose watcher runs; two writes, a cutover and
\* its retry, one call at any time, an abort or a registration, and one fault.  (The
\* admin's own watcher is left out: its cutover does not count its own document.  Old
\* instances: the other cfg.)
SPECIFICATION Spec
CONSTANTS
  New = {n1, n2}
  Old = {}
  Admins = {n1}
  Watched = {n2}
  Writes = {w1, w2}
  Calls = {k1}
  None = None
  MaxRuns = 2
  MaxFaults = 1
INVARIANTS TypeOK QuietWhileMigrating BehindIsRefused
PROPERTIES CutoverSettles
CHECK_DEADLOCK FALSE
