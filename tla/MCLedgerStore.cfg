\* Two stores, three appends (two without a delta, one on the forgotten record),
\* two attempts, two faults.
SPECIFICATION Spec
CONSTANTS
  Stores = {s1, s2}
  Calls = {a, b, f}
  Forgotten = {f}
  Plain = {a, b}
  MaxAttempts = 2
  MaxFaults = 2
  Unknown = Unknown
INVARIANTS TypeOK ChainVerifies ReturnedIsComplete OncePerCall PurgeIsComplete
PROPERTIES ImplementsLog
SYMMETRY Alike
CHECK_DEADLOCK FALSE
