\* Queues of two ports between two polling workers.
CONSTANTS
  RTE_MAX_LCORE = 3
  LcoreCount = 3
  NPorts = 2
  NQueues = 1
  MAX_RX_QUEUE_PER_LCORE = 2
  RibIds = {r1, r2, r3, r4}
  NULL = NULL
  Workers = {1, 2}
  Func <- TwoPollers
  NRxPort = {2}
  MsgRingSize = 1
  DescValues = {2}
  DescDefault = 1
  Commands = {"qconf", "eth_link", "start"}
  MaxCommands = 3
  MaxManagers = 1
  MallocMayFail = FALSE
SPECIFICATION Spec
SYMMETRY RibSymmetry
INVARIANTS
  TypeOK
  LastQconfWins
  ExclusiveQueue
  ServedTxReady
  ServedRingExists
PROPERTY ImplementsQueueLease
CHECK_DEADLOCK FALSE
