\* A udp_reader closure that returns an error.
CONSTANTS
  o1 = o1
  o2 = o2
  Origins <- MCOrigins
  RxRdInit <- MCRxRdInit
  Lens = {0, 1, 3}
  GarbageLens = {0, 2, 40}
  BufLens = {0, 2, 4}
  SeekOffsets <- MCSeekOffsets
  RxSize = 22
  MaxDgrams = 3
  Chunked = FALSE
  CallerOps = {"udp_recv_from", "udp_peek_from", "udp_peek_from_header", "udp_reader"}
SPECIFICATION Spec
PROPERTY ReaderExitCommits
