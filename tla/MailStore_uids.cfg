\* A folder and a label come and go around two messages.
SPECIFICATION Spec
CONSTANTS
  m1 = m1
  m2 = m2
  Messages = {m1, m2}
  Size <- MCUnit
  SystemFolders = {Trash}
  Trash = Trash
  UserFolders = {f1}
  Labels = {l1}
  Names = {Work}
  Requests = {r1}
  Engines = {}
  Quota = 0
  MaxUID = 3
  MaxClock = 1
SYMMETRY MessageSymmetry
INVARIANTS TypeOK NoUIDReuse
CHECK_DEADLOCK FALSE
