\* Two goroutines on one job, an import of a message or an export; the
\* code's 10, 2 and 6 minutes.
CONSTANTS
  Jobs = {1}
  Workers = {w1, w2}
  Contents = {m1}
  Lease = 10
  Renew = 2
  GiveUp = 6
  Slack = 1
  FlushEvery = 1
  MaxFaults = 2
SPECIFICATION FairSpec
CHECK_DEADLOCK FALSE
INVARIANTS ExclusiveUnlessHung AttachedOnceUnlessHung CompletedIsWhole OneEvent
PROPERTIES SettledForGood Settles
