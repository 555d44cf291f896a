------------------------------- MODULE MCUdpTx -------------------------------
(* Model-checking instance of UdpTx: two destinations, an 8 byte TX        *)
(* buffer, buffers of 0, 3 and 6 bytes, and Sn_TX_WR starting 4 bytes     *)
(* below the 16-bit wrap.                                                  *)
EXTENDS UdpTx, TLC

CONSTANTS a1, a2

MCDests == {a1, a2}
MCTxWrInit == {65532}
MCSymmetry == Permutations(MCDests)

=============================================================================
