SPECIFICATION Spec
CHECK_DEADLOCK FALSE
CONSTANTS
  HISTORY_SIZE = 4
  EMPTY = EMPTY
  Printable <- MCPrintable
  Typists <- MCTypists
  Digits <- MCDigits
  Completions <- MCCompletions
  InitialSize = 2
  SubnegoSize = 6
  DumpSize = 33
  Hex = 2
  ByteSize = 4
INVARIANTS
  LineSound
  ScreenMatches
  HistoryIsLast
  YankRestores
  WordMotion
  TelnetInStep
