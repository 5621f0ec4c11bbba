\* Three goroutines on one event, three attempts, three faults of any kind.
CONSTANTS
  Events = {1}
  Workers = {w1, w2, w3}
  MaxAttempts = 3
  MaxFaults = 3
SPECIFICATION FairSpec
CHECK_DEADLOCK FALSE
INVARIANTS AcceptedOnce RetriesBounded
PROPERTIES SettledUnlessOvertaken Settles
