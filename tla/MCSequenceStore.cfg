\* Three calls, two attempts each, a seed of 3, two faults.
SPECIFICATION Spec
CONSTANTS
  Calls = {c1, c2, c3}
  Seeds = {3}
  MaxAttempts = 2
  MaxFaults = 2
INVARIANTS TypeOK RealTimeOrder GapsAreLostAnswers LosesOnlyToOthers
PROPERTIES CallsEnd ImplementsCounter
CHECK_DEADLOCK FALSE
