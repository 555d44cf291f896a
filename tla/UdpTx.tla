-------------------------------- MODULE UdpTx --------------------------------
(***************************************************************************)
(* Transmit path of one W5500 socket bound as UDP (src/hl/src/udp.rs).     *)
(*                                                                         *)
(* The host writes payload into the socket TX ring at Sn_TX_WR, advances   *)
(* Sn_TX_WR and issues SEND; the chip transmits the bytes between the end  *)
(* of the previous SEND and Sn_TX_WR as one datagram to the destination    *)
(* in Sn_DIPR/Sn_DPORT, then frees them (Sn_TX_RD moves, Sn_TX_FSR        *)
(* grows).  The host side is udp_send, udp_send_to, udp_send_if_free,     *)
(* udp_send_to_if_free and the udp_writer / udp_writer_to scopes with the  *)
(* Writer operations write, write_all and abort.                           *)
(*                                                                         *)
(* Byte k of the buffer the caller passes in its i-th writing call is      *)
(* [id |-> i, off |-> k]; TX memory never written holds Junk.              *)
(***************************************************************************)
EXTENDS Integers, Sequences, SequencesExt, FiniteSets, Wrapping

CONSTANTS
  Dests,      \* destination socket addresses (model values)
  MsgLens,    \* lengths of the buffers the caller sends or writes
  LongLens,   \* lengths past a u16 of the buffers the caller sends
  TxSize,     \* capacity of the socket TX buffer in bytes
  TxWrInit,   \* values Sn_TX_WR may have when the model starts
  MaxCalls,   \* number of calls (sends, writer scopes, writes) the caller makes
  CallerOps   \* the Udp trait methods the application calls

ASSUME /\ TxSize \in Nat \ {0} /\ 65536 % TxSize = 0
       /\ MsgLens \subseteq 0..65535 /\ TxWrInit \subseteq 0..65535
       /\ CallerOps \subseteq {"udp_send", "udp_send_to", "udp_send_if_free",
                               "udp_send_to_if_free", "udp_writer",
                               "udp_writer_to"}
       /\ \A n \in LongLens : n \in Nat /\ n > 65535

VARIABLES
  txWr,      \* Sn_TX_WR
  txRd,      \* Sn_TX_RD: bytes before it have been transmitted and freed
  mem,       \* the chip's TX memory
  latched,   \* end of the region taken by the last SEND command
  pending,   \* regions of accepted SEND commands not yet transmitted
  wire,      \* datagrams transmitted, in order
  dest,      \* Sn_DIPR/Sn_DPORT
  writer,    \* the open Writer scope, or NoWriter
  promised,  \* the datagrams the calls reported as sent (history)
  failed,    \* the datagrams of calls whose SEND returned an error (history)
  calls      \* number of calls made so far

vars == <<txWr, txRd, mem, latched, pending, wire, dest, writer, promised,
          failed, calls>>

Junk == [id |-> 0, off |-> 0]
NoDest == "none"
NoWriter == [head |-> 0, tail |-> 0, ptr |-> 0, abort |-> FALSE,
             to |-> NoDest, got |-> <<>>, last |-> [res |-> "none", n |-> 0], open |-> FALSE]

Idle == ~writer.open

\* The caller's buffer of its i-th writing call, n bytes long.
Msg(i, n) == [k \in 1..n |-> [id |-> i, off |-> k - 1]]

\* The chip maps a 16-bit pointer into its TX memory.
Addr(p) == p % TxSize

\* Sn_TX_FSR.  The chip takes Sn_TX_WR when it executes SEND, as it takes
\* Sn_RX_RD when it executes RECV: the free size counts from the write
\* pointer of the last SEND it took (latched), not from a Sn_TX_WR the host
\* wrote without a SEND.  Without faults the two are equal between calls.
FSR == TxSize - WrapSub(latched, txRd)

\* set_sn_tx_buf(sn, p, bytes): the memory after the write.
Written(p, bytes) ==
  [i \in 0..TxSize - 1 |->
     LET k == (i - Addr(p)) % TxSize
     IN IF k < Len(bytes) THEN bytes[k + 1] ELSE mem[i]]

\* The bytes of TX memory from pointer a up to pointer b.
Region(a, b) == [k \in 1..WrapSub(b, a) |-> mem[Addr(WrapAdd(a, k - 1))]]

\* set_sn_cr(Send) after Sn_TX_WR was set: the chip takes the bytes up to
\* the new Sn_TX_WR as one datagram to d.
SendCmd(d) ==
  /\ pending' = Append(pending, [from |-> latched, to |-> txWr', dest |-> d])
  /\ latched' = txWr'

\* The caller was told that datagram bytes went to d.
Promise(d, bytes) == promised' = Append(promised, [dest |-> d, bytes |-> bytes])

-----------------------------------------------------------------------------
(* The chip.                                                               *)

\* The oldest accepted SEND is transmitted and its region freed.
ChipTransmit ==
  /\ pending /= <<>>
  /\ LET p == Head(pending)
     IN /\ wire' = Append(wire, [dest |-> p.dest, bytes |-> Region(p.from, p.to)])
        /\ txRd' = p.to
  /\ pending' = Tail(pending)
  /\ UNCHANGED <<txWr, mem, latched, dest, writer, promised, calls, failed>>

-----------------------------------------------------------------------------
(* The Udp trait.                                                          *)

\* The body of udp_send for a buffer of n bytes and destination d: send as
\* much as fits, and nothing (no SEND) when nothing fits.
SendBody(n, d) ==
  LET id == calls + 1
      txBytes == MinOf(MinOf(n, U16 - 1), FSR)
  IN /\ calls < MaxCalls
     /\ calls' = id
     /\ \/ /\ txBytes /= 0
           /\ mem' = Written(txWr, Msg(id, txBytes))
           /\ txWr' = WrapAdd(txWr, txBytes)
           /\ SendCmd(d)
           /\ Promise(d, Msg(id, txBytes))
        \/ /\ txBytes = 0
           /\ UNCHANGED <<mem, txWr, pending, latched, promised>>
     /\ UNCHANGED <<txRd, wire, writer, failed>>

\* Udp::udp_send
udp_send(n) ==
  /\ Idle /\ "udp_send" \in CallerOps
  /\ SendBody(n, dest)
  /\ UNCHANGED dest

\* Udp::udp_send_to: set the destination, then udp_send.
udp_send_to(n, a) ==
  /\ Idle /\ "udp_send_to" \in CallerOps
  /\ dest' = a
  /\ SendBody(n, a)

\* Fault variant of udp_send_if_free past its length check: it sends what
\* fits, like udp_send, and still returns the buffer's length.
SendIfFreeOk_partial(n, d) ==
  LET id == calls + 1
      k == MinOf(n, FSR)
  IN /\ mem' = Written(txWr, Msg(id, k))
     /\ txWr' = WrapAdd(txWr, k)
     /\ SendCmd(d)
     /\ Promise(d, Msg(id, n))
     /\ UNCHANGED <<txRd, wire, writer, failed>>

\* udp_send_if_free past its length check.
SendIfFreeOk(n, d) ==
  LET id == calls + 1
  IN /\ \/ /\ n <= FSR
           /\ mem' = Written(txWr, Msg(id, n))
           /\ txWr' = WrapAdd(txWr, n)
           /\ SendCmd(d)
        \/ /\ n > FSR
           /\ UNCHANGED <<mem, txWr, pending, latched>>
     /\ Promise(d, Msg(id, n))
     /\ UNCHANGED <<txRd, wire, writer, failed>>

\* The body of udp_send_if_free for a buffer of n bytes and destination d:
\* a buffer longer than a u16 returns 0 at once; otherwise send the whole
\* buffer if it fits, and return its length either way.
SendIfFreeBody(n, d) ==
  LET id == calls + 1
  IN /\ calls < MaxCalls
     /\ calls' = id
     /\ \/ /\ n > U16 - 1
           /\ UNCHANGED <<mem, txWr, pending, latched, promised, txRd, wire,
                          writer, failed>>
        \/ n <= U16 - 1 /\ SendIfFreeOk(n, d)

\* Udp::udp_send_if_free
udp_send_if_free(n) ==
  /\ Idle /\ "udp_send_if_free" \in CallerOps
  /\ SendIfFreeBody(n, dest)
  /\ UNCHANGED dest

\* Udp::udp_send_to_if_free: set the destination, then udp_send_if_free.
udp_send_to_if_free(n, a) ==
  /\ Idle /\ "udp_send_to_if_free" \in CallerOps
  /\ dest' = a
  /\ SendIfFreeBody(n, a)

\* Fault variant of udp_writer_open: the scope spans the whole buffer
\* instead of the free space.
udp_writer_open_whole(op, to) ==
  /\ Idle /\ op \in CallerOps
  /\ writer' = [head |-> txWr, tail |-> WrapAdd(txWr, TxSize), ptr |-> txWr,
                abort |-> FALSE, to |-> to, got |-> <<>>, last |-> [res |-> "none", n |-> 0],
                open |-> TRUE]
  /\ calls < MaxCalls /\ calls' = calls + 1
  /\ UNCHANGED <<txWr, txRd, mem, latched, pending, wire, dest, promised, failed>>

\* Udp::udp_writer (to = NoDest) and Udp::udp_writer_to (to = the address)
\* up to the call of the closure: the scope spans the free space.
udp_writer_open(op, to) ==
  /\ Idle /\ op \in CallerOps
  /\ writer' = [head |-> txWr, tail |-> WrapAdd(txWr, FSR), ptr |-> txWr,
                abort |-> FALSE, to |-> to, got |-> <<>>, last |-> [res |-> "none", n |-> 0],
                open |-> TRUE]
  /\ calls < MaxCalls /\ calls' = calls + 1
  /\ UNCHANGED <<txWr, txRd, mem, latched, pending, wire, dest, promised, failed>>

\* Udp::udp_writer_to up to the call of the closure.
udp_writer_to_open(a) == udp_writer_open("udp_writer_to", a)

\* Fault variant of udp_writer_close: commits the scope's tail.
udp_writer_close_at_tail ==
  /\ writer.open /\ writer.to = NoDest
  /\ IF writer.abort
     THEN UNCHANGED <<txWr, pending, latched, promised>>
     ELSE /\ txWr' = writer.tail
          /\ SendCmd(dest)
          /\ Promise(dest, writer.got)
  /\ writer' = NoWriter
  /\ UNCHANGED <<txRd, mem, wire, dest, calls, failed>>

\* The commit of a writer scope whose closure returned Ok: unless it
\* called abort, Sn_TX_WR := the cursor and SEND to d.
WriterCommit(d) ==
  IF writer.abort
  THEN UNCHANGED <<txWr, pending, latched, promised>>
  ELSE /\ txWr' = writer.ptr
       /\ SendCmd(d)
       /\ Promise(d, writer.got)

\* Udp::udp_writer after the closure returned Ok.
udp_writer_close ==
  /\ writer.open /\ writer.to = NoDest
  /\ WriterCommit(dest)
  /\ writer' = NoWriter
  /\ UNCHANGED <<txRd, mem, wire, dest, calls, failed>>

\* Udp::udp_writer_to after the closure returned Ok: set_sn_dest is part
\* of the commit, so an aborted scope leaves the destination alone.
udp_writer_to_close ==
  /\ writer.open /\ writer.to /= NoDest
  /\ WriterCommit(writer.to)
  /\ dest' = IF writer.abort THEN dest ELSE writer.to
  /\ writer' = NoWriter
  /\ UNCHANGED <<txRd, mem, wire, calls, failed>>

-----------------------------------------------------------------------------
(* Transport errors on set_sn_cr(sn, Send), the last register access of   *)
(* every sending call.  The write either never reached the chip or took    *)
(* effect before the error was reported; either way the call returns Err  *)
(* and reports nothing sent.  An error on an earlier access returns before *)
(* any register changed that matters here (bytes written to free TX memory *)
(* are overwritten by the next call), so it is a stuttering step.          *)

\* SEND reached the chip (applied) or not.
SendCmdFails(d, applied) ==
  IF applied THEN SendCmd(d) ELSE UNCHANGED <<pending, latched>>

\* The datagram of a call whose SEND failed.
Fail(d, bytes) == failed' = failed \cup {[dest |-> d, bytes |-> bytes]}

\* udp_send, udp_send_to, udp_send_if_free or udp_send_to_if_free (op) with
\* a buffer of n bytes fails on its SEND: the k bytes it chose to send are
\* in TX memory and Sn_TX_WR has moved past them.
udp_send_bus_error(op, n, a, applied) ==
  LET id == calls + 1
      d == IF op \in {"udp_send_to", "udp_send_to_if_free"} THEN a ELSE dest
      k == IF op \in {"udp_send", "udp_send_to"} THEN MinOf(n, FSR) ELSE n
  IN /\ Idle /\ op \in CallerOps
     /\ calls < MaxCalls /\ calls' = id
     /\ 0 < k /\ k <= FSR
     /\ dest' = d
     /\ mem' = Written(txWr, Msg(id, k))
     /\ txWr' = WrapAdd(txWr, k)
     /\ SendCmdFails(d, applied)
     /\ Fail(d, Msg(id, k))
     /\ UNCHANGED <<txRd, wire, writer, promised>>

\* The commit of a writer scope fails on its SEND, after Sn_TX_WR := the
\* cursor (and, for udp_writer_to, set_sn_dest).
udp_writer_close_bus_error(applied) ==
  LET d == IF writer.to = NoDest THEN dest ELSE writer.to
  IN /\ writer.open /\ ~writer.abort
     /\ dest' = d
     /\ txWr' = writer.ptr
     /\ SendCmdFails(d, applied)
     /\ Fail(d, writer.got)
     /\ writer' = NoWriter
     /\ UNCHANGED <<txRd, mem, wire, promised, calls>>

-----------------------------------------------------------------------------

\* The closure returned Err: `f(&mut writer)?` returns it at once.
udp_writer_fail ==
  /\ writer.open
  /\ writer' = NoWriter
  /\ UNCHANGED <<txWr, txRd, mem, latched, pending, wire, dest, promised,
                 failed, calls>>

-----------------------------------------------------------------------------
(* The cursor of the open scope (Writer).                                  *)

\* Copy k bytes of the caller's buffer to the cursor and advance; the
\* call returns r to the closure.
WriterCopy(k, r) ==
  LET id == calls + 1
  IN /\ calls < MaxCalls
     /\ calls' = id
     /\ mem' = Written(writer.ptr, Msg(id, k))
     /\ writer' = [writer EXCEPT !.ptr = WrapAdd(@, k), !.got = @ \o Msg(id, k),
                                 !.last = r]

\* Writer::write: copy as much as remains, drop the rest.
write(n) ==
  /\ writer.open
  /\ LET k == MinOf(n, WrapSub(writer.tail, writer.ptr))
     IN WriterCopy(k, [res |-> "Ok", n |-> k])
  /\ UNCHANGED <<txWr, txRd, latched, pending, wire, dest, promised, failed>>

\* Writer::write_all: all n bytes, or OutOfMemory and nothing written.
write_all(n) ==
  /\ writer.open
  /\ \/ n <= WrapSub(writer.tail, writer.ptr) /\ WriterCopy(n, [res |-> "Ok", n |-> n])
     \/ /\ n > WrapSub(writer.tail, writer.ptr)
        /\ writer' = [writer EXCEPT !.last = [res |-> "OutOfMemory", n |-> 0]]
        /\ UNCHANGED <<mem, calls>>
  /\ UNCHANGED <<txWr, txRd, latched, pending, wire, dest, promised, failed>>

\* Writer::abort
abort ==
  /\ writer.open
  /\ writer' = [writer EXCEPT !.abort = TRUE]
  /\ UNCHANGED <<txWr, txRd, mem, latched, pending, wire, dest, promised,
                 failed, calls>>

-----------------------------------------------------------------------------

\* Lengths of the buffers given to the udp_send* calls.
SendLens == MsgLens \cup LongLens

Init ==
  /\ txWr \in TxWrInit
  /\ txRd = txWr
  /\ latched = txWr
  /\ mem = [i \in 0..TxSize - 1 |-> Junk]
  /\ pending = <<>>
  /\ wire = <<>>
  /\ dest \in Dests
  /\ writer = NoWriter
  /\ promised = <<>>
  /\ failed = {}
  /\ calls = 0

Next ==
  \/ ChipTransmit
  \/ \E n \in SendLens : udp_send(n) \/ udp_send_if_free(n)
  \/ \E n \in SendLens, a \in Dests :
       udp_send_to(n, a) \/ udp_send_to_if_free(n, a)
  \/ udp_writer_open("udp_writer", NoDest)
  \/ \E a \in Dests : udp_writer_to_open(a)
  \/ udp_writer_close
  \/ udp_writer_to_close
  \/ udp_writer_fail
  \/ \E n \in MsgLens : write(n) \/ write_all(n)
  \/ abort

Spec == Init /\ [][Next]_vars

\* The caller's steps with transport errors on SEND.
NextWithBusFaults ==
  \/ Next
  \/ \E op \in {"udp_send", "udp_send_to", "udp_send_if_free",
                "udp_send_to_if_free"}, n \in MsgLens, a \in Dests,
       applied \in BOOLEAN : udp_send_bus_error(op, n, a, applied)
  \/ \E applied \in BOOLEAN : udp_writer_close_bus_error(applied)

SpecWithBusFaults == Init /\ [][NextWithBusFaults]_vars

-----------------------------------------------------------------------------
(* Properties.                                                             *)

Byte == [id : 0..MaxCalls, off : 0..65535]
Datagram == [dest : Dests, bytes : Seq(Byte)]

TypeOK ==
  /\ txWr \in 0..U16 - 1 /\ txRd \in 0..U16 - 1 /\ latched \in 0..U16 - 1
  /\ mem \in [0..TxSize - 1 -> Byte]
  /\ pending \in Seq([from : 0..U16 - 1, to : 0..U16 - 1, dest : Dests])
  /\ wire \in Seq(Datagram) /\ promised \in Seq(Datagram)
  /\ failed \subseteq Datagram
  /\ dest \in Dests
  /\ writer \in {NoWriter} \cup
       [head : 0..U16 - 1, tail : 0..U16 - 1, ptr : 0..U16 - 1,
        abort : BOOLEAN, to : Dests \cup {NoDest}, got : Seq(Byte),
        last : [res : {"none", "Ok", "OutOfMemory"}, n : 0..TxSize], open : {TRUE}]
  /\ calls \in 0..MaxCalls

\* The datagrams of the accepted SEND commands, as they stand in TX memory.
Queued ==
  [i \in DOMAIN pending |->
     [dest |-> pending[i].dest, bytes |-> Region(pending[i].from, pending[i].to)]]

SQ == INSTANCE SendQueue WITH queued <- Queued, wire <- wire

\* The transmit path implements a FIFO of committed datagrams: no write of
\* udp_send, udp_send_if_free or a Writer lands on bytes a SEND has taken
\* but the chip has not transmitted, however stale the Sn_TX_FSR the
\* caller read, and the chip sends them whole and in order.
TxRefinement == SQ!Spec

NonEmpty(g) == g.bytes /= <<>>

\* What the caller was told is what goes out: the non-empty datagrams sent
\* or queued are, in order, the ones the calls reported (udp_send: the
\* count it returned of the caller's buffer; a Writer scope: the bytes its
\* write/write_all calls reported), each to the destination in force.
ReportedIsSent ==
  SelectSeq(wire \o Queued, NonEmpty) = SelectSeq(promised, NonEmpty)

\* Every non-empty datagram the chip transmits or has queued is the data
\* of one call that tried to send it, whether the call reported success
\* or a transport error: the bytes a failed call left between the last
\* SEND and Sn_TX_WR are never glued onto the next call's datagram.  For
\* udp_send_if_free the datagram is the caller's whole buffer, never the
\* part of it that fitted (specification section 8, send space policy).
SentWasAttempted ==
  \A i \in DOMAIN (wire \o Queued) :
    LET g == (wire \o Queued)[i]
    IN NonEmpty(g) => g \in Range(promised) \cup failed

=============================================================================
