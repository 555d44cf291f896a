\* udp_send_if_free when the buffer does not fit.
CONSTANTS
  a1 = a1
  a2 = a2
  Dests <- MCDests
  TxWrInit <- MCTxWrInit
  MsgLens = {0, 3, 6}
  LongLens = {}
  TxSize = 8
  MaxCalls = 5
  CallerOps = {"udp_send_if_free"}
SPECIFICATION Spec
\* The caller stops after MaxCalls calls and the chip after the last SEND.
CHECK_DEADLOCK FALSE
INVARIANT ReportedIsSent
