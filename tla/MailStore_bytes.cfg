\* A request and the rules of a delivery on two messages of different size,
\* at the edge of the quota.
SPECIFICATION Spec
CONSTANTS
  m1 = m1
  m2 = m2
  Messages = {m1, m2}
  Size <- MCSize
  SystemFolders = {Inbox, Trash}
  Trash = Trash
  UserFolders = {}
  Labels = {}
  Names = {}
  Requests = {r1}
  Engines = {e1}
  Quota = 2
  MaxUID = 3
  MaxClock = 2
CHECK_DEADLOCK FALSE
INVARIANTS ExactUnlessRaced QuotaHolds
PROPERTIES AppearsAtTop Announced
