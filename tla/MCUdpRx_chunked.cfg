\* Receive path with frames that become visible in two parts; copying calls
\* only, polled by the caller.  No symmetry: RecvProgress is a liveness property.
CONSTANTS
  o1 = o1
  o2 = o2
  Origins <- MCOrigins
  RxRdInit <- MCRxRdInit
  Lens = {0, 1, 3}
  GarbageLens = {0, 2, 40}
  BufLens = {0, 2, 4}
  SeekOffsets <- MCSeekOffsets
  RxSize = 22
  MaxDgrams = 3
  Chunked = TRUE
  CallerOps = {"udp_recv_from", "udp_peek_from", "udp_peek_from_header"}
SPECIFICATION FairSpec
INVARIANT WellFramed
INVARIANT DeliveredFromQueueHead
PROPERTY QueueRefinement
PROPERTY RecvProgress
