\* Two ports with a queue each, a vswitch with room for one of the queues, an
\* fdb with one entry, two addresses that move, a pool that runs dry, rings
\* that fill, and a restart of the tap handler.
CONSTANTS
  NPorts = 2
  PortQueues <- TwoQueues
  NettlpQueues <- NettlpQueue
  Mbufs = {m1, m2}
  NULL = NULL
  EtherAddrs = {a, b}
  LocalEther = a
  ZeroAddr = zero
  VSWITCH_PORT_SIZE = 3
  FDB_SIZE = 1
  MAX_PKT_BURST = 2
  RingSize = 1
  MaxFds = 2
  StackValues = {0, 9}
  MaxVer = 2
  MaxStarts = 2
SPECIFICATION Spec
SYMMETRY MbufSymmetry
INVARIANTS
  MbufOnce
  VswitchShape
  FdbTracks
CHECK_DEADLOCK FALSE
