------------------------------- MODULE MCUdpRx -------------------------------
(* Model-checking instance of UdpRx: two origins, payloads of 0, 1 and 3   *)
(* bytes, an RX buffer that holds two frames, and Sn_RX_RD starting 6     *)
(* bytes below the 16-bit wrap so that frames straddle it.                 *)
EXTENDS UdpRx, TLC

CONSTANTS o1, o2

MCOrigins == {o1, o2}
MCRxRdInit == {65530}
MCSymmetry == Permutations(MCOrigins)
MCSeekOffsets == {-1, 1, 3}

=============================================================================
