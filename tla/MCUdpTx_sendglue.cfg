\* udp_send with transport errors on SEND: a lost SEND glues its bytes to the next datagram.
CONSTANTS
  a1 = a1
  a2 = a2
  Dests <- MCDests
  TxWrInit <- MCTxWrInit
  MsgLens = {0, 3, 6}
  LongLens = {}
  TxSize = 8
  MaxCalls = 5
  CallerOps = {"udp_send"}
SPECIFICATION SpecWithBusFaults
\* The caller stops after MaxCalls calls and the chip after the last SEND.
CHECK_DEADLOCK FALSE
INVARIANT SentWasAttempted
