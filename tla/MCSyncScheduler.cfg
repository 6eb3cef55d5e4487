\* Five policies, two phases, two writes, two starts.
SPECIFICATION Spec
CONSTANTS
  Policies <- MCPolicies
  Sequence <- MCSequence
  MaxWrites = 2
  MaxStarts = 2
  MaxPushes = 2
  MaxPulls = 2
INVARIANTS TypeOK BusyIsTrue
PROPERTIES QuietAfterStop EveryWriteOffered PullingNeverTerminal
CHECK_DEADLOCK FALSE
