\* One commit, two puts that do not overlap each other, two faults. A second commit
\* and overlapping puts are left out: the code does not order them (see README).
SPECIFICATION Spec
CONSTANTS
  r1 = r1
  r2 = r2
  Records = {r1, r2}
  Txs = {t1}
  Puts = {p1, p2}
  Before = Before
  OpLists <- MCOpLists
  MaxFaults = 2
  Overlap = FALSE
INVARIANTS TypeOK AbortedLeavesNothing
PROPERTIES CommitRespectsEarlierPuts RevertStaysInside CommitEnds
CHECK_DEADLOCK FALSE
