\* Every table and every rib configuration that five commands can produce.
CONSTANTS
  RTE_MAX_LCORE = 3
  LcoreCount = 2
  NPorts = 2
  NQueues = 2
  MAX_RX_QUEUE_PER_LCORE = 2
  MaxEdits = 5
SPECIFICATION Spec
INVARIANTS
  CheckIsOrdered
  TableConsistent
PROPERTY BusyLcoresGrow
CHECK_DEADLOCK FALSE
