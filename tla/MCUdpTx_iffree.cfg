\* Transmit path, every caller API.
CONSTANTS
  a1 = a1
  a2 = a2
  Dests <- MCDests
  TxWrInit <- MCTxWrInit
  MsgLens = {0, 3, 6}
  LongLens = {65536}
  TxSize = 8
  MaxCalls = 5
  CallerOps = {"udp_send", "udp_send_to", "udp_send_if_free", "udp_send_to_if_free", "udp_writer", "udp_writer_to"}
SPECIFICATION Spec
\* The caller stops after MaxCalls calls and the chip after the last SEND.
CHECK_DEADLOCK FALSE
SYMMETRY MCSymmetry
INVARIANT SentWasAttempted
PROPERTY TxRefinement
