SPECIFICATION Spec
CONSTANTS
  m1 = m1
  m2 = m2
  Messages = {m1, m2}
  Size <- MCSize
  SystemFolders = {Trash}
  Trash = Trash
  UserFolders = {f1, f2}
  Labels = {}
  Names = {Work}
  Requests = {r1}
  Engines = {}
  Quota = 0
  MaxUID = 3
  MaxClock = 2
INVARIANTS StableUIDs
CHECK_DEADLOCK FALSE
