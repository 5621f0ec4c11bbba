SPECIFICATION Spec
CONSTANTS
  m1 = m1
  m2 = m2
  Messages = {m1}
  Size <- MCSize
  SystemFolders = {Inbox, Trash}
  Trash = Trash
  UserFolders = {}
  Labels = {}
  Names = {Work}
  Requests = {}
  Engines = {e1}
  Quota = 0
  MaxUID = 3
  MaxClock = 2
INVARIANTS UsageTracksDeletes
CHECK_DEADLOCK FALSE
