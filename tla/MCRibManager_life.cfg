\* Every message and every lcore command, a ring that fills up, two rib managers.
CONSTANTS
  RTE_MAX_LCORE = 3
  LcoreCount = 3
  NPorts = 1
  NQueues = 1
  MAX_RX_QUEUE_PER_LCORE = 2
  RibIds = {r1, r2, r3}
  NULL = NULL
  Workers = {1, 2}
  Func <- PollerAndTap
  NRxPort = {}
  MsgRingSize = 1
  DescValues = {2}
  DescDefault = 1
  Commands = {"qconf", "port_status", "eth_link", "txrx_desc", "start", "stop", "restart", "sigterm"}
  MaxCommands = 2
  MaxManagers = 2
  MallocMayFail = TRUE
SPECIFICATION Spec
SYMMETRY RibSymmetry
INVARIANTS
  NoUseAfterFree
  ReclaimOnce
  StaleIsOlder
  NoOrphan
CHECK_DEADLOCK FALSE
