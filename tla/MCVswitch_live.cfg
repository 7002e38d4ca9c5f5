\* Bursts shorter than the ring.
CONSTANTS
  NPorts = 2
  PortQueues <- TwoQueues
  NettlpQueues = {}
  Mbufs = {m1, m2}
  NULL = NULL
  EtherAddrs = {}
  LocalEther = zero
  ZeroAddr = zero
  VSWITCH_PORT_SIZE = 4
  FDB_SIZE = 1
  MAX_PKT_BURST = 1
  RingSize = 2
  MaxFds = 2
  StackValues = {9}
  MaxVer = 2
  MaxStarts = 1
SPECIFICATION FairSpec
PROPERTY UpDelivered
CHECK_DEADLOCK FALSE
