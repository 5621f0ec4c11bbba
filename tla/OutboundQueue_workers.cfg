\* Three workers of two instances on one job; four faults of any kind.
CONSTANTS
  a = a
  b = b
  a1 = a1
  a2 = a2
  b1 = b1
  NoOwner = NoOwner
  Jobs = {1}
  Instances = {a, b}
  Workers = {a1, a2, b1}
  InstanceOf <- MCInstanceOf
  MaxAttempts = 3
  MaxFaults = 4
SPECIFICATION FairSpec
CHECK_DEADLOCK FALSE
INVARIANTS TypeOK AttemptsExact ReportedOnce OneOutcome OpenHasMessage
PROPERTIES SettledForGood KeepsPromise
