\* Transmit path, every caller API except the if_free variants.
CONSTANTS
  a1 = a1
  a2 = a2
  Dests <- MCDests
  TxWrInit <- MCTxWrInit
  MsgLens = {0, 3, 6}
  LongLens = {}
  TxSize = 8
  MaxCalls = 5
  CallerOps = {"udp_send", "udp_send_to", "udp_writer", "udp_writer_to"}
SPECIFICATION Spec
\* The caller stops after MaxCalls calls and the chip after the last SEND.
CHECK_DEADLOCK FALSE
SYMMETRY MCSymmetry
INVARIANT TypeOK
INVARIANT ReportedIsSent
PROPERTY TxRefinement
