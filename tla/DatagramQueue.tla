--------------------------- MODULE DatagramQueue ---------------------------
(***************************************************************************)
(* What the receive side of a W5500 UDP socket promises its caller: the    *)
(* datagrams the chip has completely received form a FIFO queue; the       *)
(* network appends to it and a committing receive removes exactly the      *)
(* oldest one.  Peeks, header peeks, WouldBlock results and reader scopes  *)
(* that are unread or fail change nothing.                                 *)
(***************************************************************************)
EXTENDS Sequences

CONSTANT Ids            \* identities of datagrams

VARIABLE queue          \* complete, unconsumed datagrams, oldest first

Init == queue = <<>>

\* The chip finished receiving datagram d.
Deliver == \E d \in Ids : queue' = Append(queue, d)

\* The caller committed past the oldest datagram.
Consume == queue /= <<>> /\ queue' = Tail(queue)

Next == Deliver \/ Consume

Spec == Init /\ [][Next]_queue

=============================================================================
