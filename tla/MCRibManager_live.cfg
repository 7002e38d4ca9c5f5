\* Fair workers and a fair rib manager: grace periods end and messages are processed.
CONSTANTS
  RTE_MAX_LCORE = 3
  LcoreCount = 3
  NPorts = 1
  NQueues = 1
  MAX_RX_QUEUE_PER_LCORE = 2
  RibIds = {r1, r2, r3}
  NULL = NULL
  Workers = {1, 2}
  Func <- RepeaterAndTap
  NRxPort = {}
  MsgRingSize = 2
  DescValues = {}
  DescDefault = 1
  Commands = {"qconf", "start", "stop"}
  MaxCommands = 2
  MaxManagers = 1
  MallocMayFail = FALSE
SPECIFICATION FairSpec
PROPERTIES
  MainReturns
  QueueDrains
CHECK_DEADLOCK FALSE
