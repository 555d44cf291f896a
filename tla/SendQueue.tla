----------------------------- MODULE SendQueue -----------------------------
(***************************************************************************)
(* What the transmit side of a W5500 UDP socket promises: every datagram  *)
(* the host commits with a SEND command is transmitted later, whole,       *)
(* unchanged and in commit order.                                          *)
(***************************************************************************)
EXTENDS Naturals, Sequences

VARIABLES
  queued,   \* committed datagrams not yet transmitted, oldest first
  wire      \* datagrams transmitted, in order

Init == queued = <<>> /\ wire = <<>>

\* The host commits one more datagram; the ones queued before stay as they
\* were.
Commit ==
  /\ Len(queued') = Len(queued) + 1
  /\ SubSeq(queued', 1, Len(queued)) = queued
  /\ UNCHANGED wire

\* The chip transmits the oldest committed datagram.
Transmit ==
  /\ queued /= <<>>
  /\ wire' = Append(wire, Head(queued))
  /\ queued' = Tail(queued)

Next == Commit \/ Transmit

Spec == Init /\ [][Next]_<<queued, wire>>

=============================================================================
