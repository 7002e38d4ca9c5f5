SPECIFICATION Spec
CHECK_DEADLOCK FALSE
CONSTANTS
  VTY_CLIENT_MAX = 2
  THREAD_INFO_LIMIT = 6
  FdLimit = 13
  MaxSessions = 3
  MaxPaged = 1
  MaxStarts = 1
INVARIANTS
  EntryOwned
  TableSuffices
  SessionKeepsFd
  FdsAccounted
PROPERTY
  ControlProgress
