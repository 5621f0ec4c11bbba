\* A message for x+tag@ and for a bounce address; the mailbox of x@ has room
\* for one copy.
CONSTANTS
  x = x
  y = y
  plus = plus
  Mailboxes = {x, y}
  Addresses = {plus, v1}
  Verp = {v1}
  Tagged = {plus}
  Quota <- MCQuota
  MailboxOf <- MCNone
  RouteOf <- MCRouteOf
  BaseRoute <- MCNone
  PatternOf <- MCNone
  BaseOf <- MCBaseOf
  CatchAll = {x}
  Size = 1
  Headers = 1
  Burst = 1
  MaxBounceRecipients = 1
  MaxFaults = 2
SPECIFICATION FairSpec
CHECK_DEADLOCK FALSE
INVARIANTS StoredAsTold BouncesRecorded NoOrphans
PROPERTIES RefusedOnlyIfNone GetsThrough PurgeEnds
