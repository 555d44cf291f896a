------------------------------ MODULE MCUdpBind ------------------------------
(* Model-checking instance of UdpBind: two sockets and two ports.          *)
EXTENDS UdpBind, TLC

CONSTANTS s0, s1, p1, p2

MCSockets == {s0, s1}
MCPorts == {p1, p2}

=============================================================================
