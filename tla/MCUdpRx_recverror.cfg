\* udp_recv_from with transport errors on RECV: the stale Sn_RX_RSR after a lost RECV.
CONSTANTS
  o1 = o1
  o2 = o2
  Origins <- MCOrigins
  RxRdInit <- MCRxRdInit
  Lens = {0, 1, 3}
  GarbageLens = {0, 2, 40}
  BufLens = {0, 2, 4}
  SeekOffsets <- MCSeekOffsets
  RxSize = 22
  MaxDgrams = 3
  Chunked = FALSE
  CallerOps = {"udp_recv_from"}
SPECIFICATION SpecWithBusFaults
SYMMETRY MCSymmetry
INVARIANT DeliveredFromQueueHead
