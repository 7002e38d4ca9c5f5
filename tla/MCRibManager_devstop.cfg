\* A port is stopped under a worker that polls it.
CONSTANTS
  RTE_MAX_LCORE = 3
  LcoreCount = 3
  NPorts = 1
  NQueues = 1
  MAX_RX_QUEUE_PER_LCORE = 2
  RibIds = {r1, r2, r3}
  NULL = NULL
  Workers = {1}
  Func <- OnePoller
  NRxPort = {}
  MsgRingSize = 2
  DescValues = {}
  DescDefault = 1
  Commands = {"qconf", "port_status", "start"}
  MaxCommands = 3
  MaxManagers = 1
  MallocMayFail = FALSE
SPECIFICATION Spec
INVARIANT NoDeviceConflict
CHECK_DEADLOCK FALSE
