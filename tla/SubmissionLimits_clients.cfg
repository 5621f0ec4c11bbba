\* Two submissions for a mailbox, one for a domain and an append.
CONSTANTS
  d1 = d1
  d2 = d2
  a = a
  Clients = {m1, m2, d1, a}
  Kind <- MCKind
  Counts = {1, 2}
  PerHour = 2
  PerDay = 3
  RecipientsPerMessage = 2
  Hour = 1
  Day = 2
SPECIFICATION FairSpec
INVARIANTS LimitsHold
PROPERTIES Ends
