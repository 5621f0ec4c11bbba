\* A lockout is longer than the window, as in the code (15 and 10 minutes).
CONSTANTS
  imap = imap
  smtp = smtp
  l1 = l1
  l2 = l2
  Nodes = {imap, smtp}
  Logins = {l1, l2}
  NodeOf <- MCNodeOf
  MaxFailures = 2
  Window = 1
  Lockout = 2
  MaxFaults = 1
SPECIFICATION FairSpec
INVARIANTS GuessesBounded LockBacked
PROPERTIES LockoutEnds
