-------------------------------- MODULE UdpRx --------------------------------
(***************************************************************************)
(* Receive path of one W5500 socket bound as UDP (src/hl/src/udp.rs).      *)
(*                                                                         *)
(* The chip appends every datagram it receives to the socket RX ring as a  *)
(* frame: an 8 byte header (origin IP, origin port, payload length)        *)
(* followed by the payload.  Sn_RX_RSR counts the received bytes from      *)
(* Sn_RX_RD on; writing Sn_RX_RD and issuing RECV frees the bytes before   *)
(* it.  The host side is the Udp trait: udp_recv_from, udp_peek_from,      *)
(* udp_peek_from_header and the udp_reader scope with its cursor           *)
(* operations (read, read_exact, seek, rewind, unread).                    *)
(*                                                                         *)
(* Bytes are abstracted to their provenance: byte k of the frame of the    *)
(* d-th datagram the network delivered is [dg |-> d, off |-> k].  A       *)
(* header decodes to the true header exactly when its 8 bytes are the     *)
(* header bytes of one frame; any other 8 bytes decode to an arbitrary     *)
(* header.  Memory past the received bytes holds stale data (Junk).        *)
(***************************************************************************)
EXTENDS Integers, Sequences, SequencesExt, FiniteSets, Wrapping

CONSTANTS
  Origins,      \* origin socket addresses of datagrams (model values)
  Lens,         \* payload lengths of datagrams the network delivers
  GarbageLens,  \* lengths a header decoded from non-header bytes may carry
  BufLens,      \* lengths of the caller buffers given to recv/peek/read
  SeekOffsets,  \* offsets given to seek
  RxSize,       \* capacity of the socket RX buffer in bytes
  RxRdInit,     \* values Sn_RX_RD may have when the model starts
  MaxDgrams,    \* number of datagrams the network delivers
  Chunked,      \* TRUE: the chip may make a frame visible in two parts
  CallerOps     \* the Udp trait methods the application calls

ASSUME /\ Lens \subseteq 0..RxSize /\ BufLens \subseteq Nat
       /\ RxRdInit \subseteq 0..65535 /\ MaxDgrams \in Nat \ {0}
       /\ Chunked \in BOOLEAN
       /\ CallerOps \subseteq {"udp_recv_from", "udp_peek_from",
                               "udp_peek_from_header", "udp_reader"}

VARIABLES
  rxRd,      \* Sn_RX_RD
  recvRd,    \* the value of Sn_RX_RD when the chip last accepted RECV
  rxBuf,     \* the bytes received from Sn_RX_RD on
  inflight,  \* rest of a frame the chip has not made visible yet
  dgrams,    \* datagrams the network delivered, in order (history)
  reader,    \* the open udp_reader scope (its TcpReader), or NoReader
  ret        \* what the last call returned to the caller

vars == <<rxRd, recvRd, rxBuf, inflight, dgrams, reader, ret>>

\* UdpHeader::LEN
LEN == 8

Junk == [dg |-> 0, off |-> 0]
NoHdr == [dg |-> 0, origin |-> "none", len |-> 0]
NoReader == [head |-> 0, tail |-> 0, ptr |-> 0, unread |-> FALSE,
             hdr |-> NoHdr, expect |-> 0, open |-> FALSE]

FrameOf(d, l) == [k \in 1..LEN + l |-> [dg |-> d, off |-> k - 1]]
Frame(d) == FrameOf(d, dgrams[d].len)
Payload(d) == [k \in 1..dgrams[d].len |-> [dg |-> d, off |-> LEN + k - 1]]

\* Sn_RX_RSR: the chip counts the received bytes from the read pointer of
\* the last RECV it accepted; it reads Sn_RX_RD only when it executes RECV.
RSR == Len(rxBuf) + WrapSub(rxRd, recvRd)

\* The byte the chip's RX memory holds at pointer a.
ByteAt(a) == LET k == WrapSub(a, rxRd)
             IN IF k < Len(rxBuf) THEN rxBuf[k + 1] ELSE Junk

\* sn_rx_buf(sn, a, buf[..n]): read n bytes from pointer a on.
SnRxBuf(a, n) == [i \in 1..n |-> ByteAt(WrapAdd(a, i - 1))]

\* UdpHeader::deser: the headers 8 bytes may decode to.
Deser(bytes) ==
  IF \E d \in DOMAIN dgrams : bytes = SubSeq(Frame(d), 1, LEN)
  THEN LET d == CHOOSE d \in DOMAIN dgrams : bytes = SubSeq(Frame(d), 1, LEN)
       IN {[dg |-> d, origin |-> dgrams[d].origin, len |-> dgrams[d].len]}
  ELSE [dg : {0}, origin : Origins, len : GarbageLens]

\* The datagram whose frame starts at Sn_RX_RD (0 when none does).
QueueHead == IF rxBuf = <<>> THEN 0 ELSE rxBuf[1].dg

Result(op, res, hdr, at, bytes) ==
  [op |-> op, res |-> res, hdr |-> hdr, at |-> at, bytes |-> bytes,
   expect |-> QueueHead]

WouldBlock(op) ==
  /\ ret' = Result(op, "WouldBlock", NoHdr, 0, <<>>)
  /\ UNCHANGED <<rxRd, recvRd, rxBuf, inflight, dgrams, reader>>

\* Write Sn_RX_RD := p and issue RECV: the chip frees the bytes before p.
CommitRxRd(p) ==
  /\ rxRd' = p
  /\ recvRd' = p
  /\ rxBuf' = SubSeq(rxBuf, WrapSub(p, rxRd) + 1, Len(rxBuf))

Idle == ~reader.open

-----------------------------------------------------------------------------
(* The chip.                                                               *)

\* A datagram from origin o with l payload bytes arrives and fits.  With
\* Chunked, only a prefix of its frame may become visible at first.
ChipReceive(o, l) ==
  /\ Len(dgrams) < MaxDgrams
  /\ inflight = <<>>
  /\ RSR + LEN + l <= RxSize
  /\ dgrams' = Append(dgrams, [origin |-> o, len |-> l])
  /\ LET f == FrameOf(Len(dgrams) + 1, l)
     IN \E k \in (IF Chunked THEN 1..Len(f) ELSE {Len(f)}) :
          /\ rxBuf' = rxBuf \o SubSeq(f, 1, k)
          /\ inflight' = SubSeq(f, k + 1, Len(f))
  /\ UNCHANGED <<rxRd, recvRd, reader, ret>>

\* The rest of a partly visible frame becomes visible.
ChipReceiveRest ==
  /\ inflight /= <<>>
  /\ rxBuf' = rxBuf \o inflight
  /\ inflight' = <<>>
  /\ UNCHANGED <<rxRd, recvRd, dgrams, reader, ret>>

-----------------------------------------------------------------------------
(* The Udp trait.                                                          *)

\* Fault variant of udp_recv_from: Sn_RX_RD advances by the bytes copied,
\* not by the datagram length.
udp_recv_from_truncating(n) ==
  /\ Idle /\ "udp_recv_from" \in CallerOps
  /\ \/ RSR < LEN /\ WouldBlock("udp_recv_from")
     \/ /\ RSR >= LEN
        /\ \E h \in Deser(SnRxBuf(rxRd, LEN)) :
             LET ptr == WrapAdd(rxRd, LEN)
                 size == MinOf(h.len, n)
             IN \/ RSR - LEN < h.len /\ WouldBlock("udp_recv_from")
                \/ /\ RSR - LEN >= h.len
                   /\ ret' = Result("udp_recv_from", "Ok", h, 0,
                                    SnRxBuf(ptr, size))
                   /\ CommitRxRd(WrapAdd(ptr, size))
                   /\ UNCHANGED <<inflight, dgrams, reader>>

\* Fault variant of udp_recv_from: the commit frees everything received.
udp_recv_from_drain(n) ==
  /\ Idle /\ "udp_recv_from" \in CallerOps
  /\ \/ RSR < LEN /\ WouldBlock("udp_recv_from")
     \/ /\ RSR >= LEN
        /\ \E h \in Deser(SnRxBuf(rxRd, LEN)) :
             LET ptr == WrapAdd(rxRd, LEN)
                 size == MinOf(h.len, n)
             IN \/ RSR - LEN < h.len /\ WouldBlock("udp_recv_from")
                \/ /\ RSR - LEN >= h.len
                   /\ ret' = Result("udp_recv_from", "Ok", h, 0,
                                    SnRxBuf(ptr, size))
                   /\ CommitRxRd(WrapAdd(rxRd, RSR))
                   /\ UNCHANGED <<inflight, dgrams, reader>>

\* Fault variant of udp_recv_from: the completeness check is off by one,
\* so the datagram that ends exactly at the last received byte is reported
\* WouldBlock.
udp_recv_from_offbyone(n) ==
  /\ Idle /\ "udp_recv_from" \in CallerOps
  /\ \/ RSR < LEN /\ WouldBlock("udp_recv_from")
     \/ /\ RSR >= LEN
        /\ \E h \in Deser(SnRxBuf(rxRd, LEN)) :
             LET ptr == WrapAdd(rxRd, LEN)
             IN \/ RSR - LEN <= h.len /\ WouldBlock("udp_recv_from")
                \/ /\ RSR - LEN > h.len
                   /\ ret' = Result("udp_recv_from", "Ok", h, 0,
                                    SnRxBuf(ptr, MinOf(h.len, n)))
                   /\ CommitRxRd(WrapAdd(ptr, h.len))
                   /\ UNCHANGED <<inflight, dgrams, reader>>

\* Udp::udp_recv_from with a buffer of n bytes.
udp_recv_from(n) ==
  /\ Idle /\ "udp_recv_from" \in CallerOps
  /\ \/ RSR < LEN /\ WouldBlock("udp_recv_from")
     \/ /\ RSR >= LEN
        /\ \E h \in Deser(SnRxBuf(rxRd, LEN)) :
             LET ptr == WrapAdd(rxRd, LEN)
                 size == MinOf(h.len, n)
             IN \/ RSR - LEN < h.len /\ WouldBlock("udp_recv_from")
                \/ /\ RSR - LEN >= h.len
                   /\ ret' = Result("udp_recv_from", "Ok", h, 0,
                                    SnRxBuf(ptr, size))
                   /\ CommitRxRd(WrapAdd(ptr, h.len))
                   /\ UNCHANGED <<inflight, dgrams, reader>>

\* Fault variant of udp_peek_from: the payload is copied from Sn_RX_RD,
\* without skipping the header.
udp_peek_from_noskip(n) ==
  /\ Idle /\ "udp_peek_from" \in CallerOps
  /\ \/ RSR < LEN /\ WouldBlock("udp_peek_from")
     \/ /\ RSR >= LEN
        /\ \E h \in Deser(SnRxBuf(rxRd, LEN)) :
             \/ RSR - LEN < h.len /\ WouldBlock("udp_peek_from")
             \/ /\ RSR - LEN >= h.len
                /\ ret' = Result("udp_peek_from", "Ok", h, 0,
                                 SnRxBuf(rxRd, MinOf(h.len, n)))
                /\ UNCHANGED <<rxRd, recvRd, rxBuf, inflight, dgrams, reader>>

\* Udp::udp_peek_from with a buffer of n bytes.
udp_peek_from(n) ==
  /\ Idle /\ "udp_peek_from" \in CallerOps
  /\ \/ RSR < LEN /\ WouldBlock("udp_peek_from")
     \/ /\ RSR >= LEN
        /\ \E h \in Deser(SnRxBuf(rxRd, LEN)) :
             \/ RSR - LEN < h.len /\ WouldBlock("udp_peek_from")
             \/ /\ RSR - LEN >= h.len
                /\ ret' = Result("udp_peek_from", "Ok", h, 0,
                                 SnRxBuf(WrapAdd(rxRd, LEN), MinOf(h.len, n)))
                /\ UNCHANGED <<rxRd, recvRd, rxBuf, inflight, dgrams, reader>>

\* Udp::udp_peek_from_header.
udp_peek_from_header ==
  /\ Idle /\ "udp_peek_from_header" \in CallerOps
  /\ \/ RSR < LEN /\ WouldBlock("udp_peek_from_header")
     \/ /\ RSR >= LEN
        /\ \E h \in Deser(SnRxBuf(rxRd, LEN)) :
             ret' = Result("udp_peek_from_header", "Ok", h, 0, <<>>)
        /\ UNCHANGED <<rxRd, recvRd, rxBuf, inflight, dgrams, reader>>

\* Fault variant of rsr_or_datagram_len: not limited to the first datagram.
rsr_or_datagram_len_unbounded(h) == RSR - LEN

\* The length of a udp_reader scope: the first datagram only, or as much
\* of it as has been received.
rsr_or_datagram_len(h) == MinOf(h.len, RSR - LEN)

\* Udp::udp_reader up to the call of the caller's closure: the scope spans
\* the first datagram, or as much of it as has been received.
udp_reader_open ==
  /\ Idle /\ "udp_reader" \in CallerOps
  /\ \/ RSR < LEN /\ WouldBlock("udp_reader")
     \/ /\ RSR >= LEN
        /\ \E h \in Deser(SnRxBuf(rxRd, LEN)) :
             LET head == WrapAdd(rxRd, LEN)
             IN reader' = [head |-> head,
                           tail |-> WrapAdd(head, rsr_or_datagram_len(h)),
                           ptr |-> head, unread |-> FALSE, hdr |-> h,
                           expect |-> QueueHead, open |-> TRUE]
        /\ ret' = Result("udp_reader", "Ok", NoHdr, 0, <<>>)
        /\ UNCHANGED <<rxRd, recvRd, rxBuf, inflight, dgrams>>

\* Fault variant of udp_reader_close: commits the cursor, not the tail.
udp_reader_close_at_cursor ==
  /\ reader.open
  /\ IF reader.unread THEN UNCHANGED <<rxRd, recvRd, rxBuf>>
                      ELSE CommitRxRd(reader.ptr)
  /\ reader' = NoReader
  /\ ret' = Result("udp_reader", "Ok", NoHdr, 0, <<>>)
  /\ UNCHANGED <<inflight, dgrams>>

\* The closure returned Ok: unless it called unread, commit the whole scope.
udp_reader_close ==
  /\ reader.open
  /\ IF reader.unread THEN UNCHANGED <<rxRd, recvRd, rxBuf>>
                      ELSE CommitRxRd(reader.tail)
  /\ reader' = NoReader
  /\ ret' = Result("udp_reader", "Ok", NoHdr, 0, <<>>)
  /\ UNCHANGED <<inflight, dgrams>>

\* The closure returned Err: `f(&mut reader)?` returns it at once.
udp_reader_fail ==
  /\ reader.open
  /\ reader' = NoReader
  /\ ret' = Result("udp_reader", "Err", NoHdr, 0, <<>>)
  /\ UNCHANGED <<rxRd, recvRd, rxBuf, inflight, dgrams>>

-----------------------------------------------------------------------------
(* The cursor of the open scope (TcpReader behind UdpReader).              *)

Remain == WrapSub(reader.tail, reader.ptr)

\* Copy k bytes at the cursor into the caller's buffer and advance.
CursorCopy(op, k) ==
  /\ ret' = Result(op, "Ok", reader.hdr, WrapSub(reader.ptr, reader.head),
                   SnRxBuf(reader.ptr, k))
  /\ reader' = [reader EXCEPT !.ptr = WrapAdd(@, k)]

CursorErr(op) ==
  /\ ret' = Result(op, "Err", NoHdr, 0, <<>>)
  /\ UNCHANGED reader

\* Read::read: copy as much as fits and remains.
read(n) ==
  /\ reader.open
  /\ CursorCopy("read", MinOf(n, Remain))
  /\ UNCHANGED <<rxRd, recvRd, rxBuf, inflight, dgrams>>

\* Read::read_exact: all n bytes or an error that moves nothing.
read_exact(n) ==
  /\ reader.open
  /\ \/ n <= Remain /\ CursorCopy("read_exact", n)
     \/ n > Remain /\ CursorErr("read_exact")
  /\ UNCHANGED <<rxRd, recvRd, rxBuf, inflight, dgrams>>

\* Seek::seek(SeekFrom::Start/End/Current(o)): a target outside the scope
\* is refused without moving the cursor.
seek(from, o) ==
  LET base == CASE from = "Start" -> reader.head
                [] from = "End" -> reader.tail
                [] from = "Current" -> reader.ptr
      target == WrapAdd(base, o)
  IN /\ reader.open
     /\ from = "Start" => o >= 0
     /\ \/ /\ WrapSub(target, reader.head) <= WrapSub(reader.tail, reader.head)
           /\ reader' = [reader EXCEPT !.ptr = target]
           /\ ret' = Result("seek", "Ok", NoHdr, 0, <<>>)
        \/ /\ WrapSub(target, reader.head) > WrapSub(reader.tail, reader.head)
           /\ CursorErr("seek")
     /\ UNCHANGED <<rxRd, recvRd, rxBuf, inflight, dgrams>>

\* Seek::rewind
rewind ==
  /\ reader.open
  /\ reader' = [reader EXCEPT !.ptr = reader.head]
  /\ UNCHANGED <<rxRd, recvRd, rxBuf, inflight, dgrams, ret>>

\* Read::unread
unread ==
  /\ reader.open
  /\ reader' = [reader EXCEPT !.unread = TRUE]
  /\ UNCHANGED <<rxRd, recvRd, rxBuf, inflight, dgrams, ret>>

-----------------------------------------------------------------------------

Init ==
  /\ rxRd \in RxRdInit
  /\ recvRd = rxRd
  /\ rxBuf = <<>>
  /\ inflight = <<>>
  /\ dgrams = <<>>
  /\ reader = NoReader
  /\ ret = Result("none", "Ok", NoHdr, 0, <<>>)

Next ==
  \/ \E o \in Origins, l \in Lens : ChipReceive(o, l)
  \/ ChipReceiveRest
  \/ \E n \in BufLens : udp_recv_from(n) \/ udp_peek_from(n)
  \/ udp_peek_from_header
  \/ udp_reader_open
  \/ udp_reader_close
  \/ udp_reader_fail
  \/ \E n \in BufLens : read(n) \/ read_exact(n)
  \/ \E from \in {"Start", "End", "Current"}, o \in SeekOffsets : seek(from, o)
  \/ rewind
  \/ unread

Spec == Init /\ [][Next]_vars

\* The caller polls: it calls udp_recv_from again after every return,
\* WouldBlock included, and a udp_reader closure runs to completion.  The
\* chip copies the rest of an arriving frame into the RX buffer.
FairSpec ==
  /\ Spec
  /\ WF_vars(\E n \in BufLens : udp_recv_from(n))
  /\ WF_vars(udp_reader_close \/ udp_reader_fail)
  /\ WF_vars(ChipReceiveRest)

-----------------------------------------------------------------------------
(* Transport errors on set_sn_cr(sn, Recv), the last register access of a *)
(* committing receive: Sn_RX_RD has been written but the chip never takes *)
(* the RECV, and the call returns Err.  An error on any earlier access     *)
(* returns before a register changed (a stuttering step).                  *)

\* Sn_RX_RD := p without RECV: the chip neither frees the bytes before p
\* nor recounts Sn_RX_RSR from p.
LostRecv(p) ==
  /\ rxRd' = p
  /\ rxBuf' = SubSeq(rxBuf, WrapSub(p, rxRd) + 1, Len(rxBuf))
  /\ UNCHANGED recvRd

\* udp_recv_from with a buffer of n bytes fails on its RECV.
udp_recv_from_bus_error(n) ==
  /\ Idle /\ "udp_recv_from" \in CallerOps
  /\ RSR >= LEN
  /\ \E h \in Deser(SnRxBuf(rxRd, LEN)) :
       /\ RSR - LEN >= h.len
       /\ LostRecv(WrapAdd(WrapAdd(rxRd, LEN), h.len))
  /\ ret' = Result("udp_recv_from", "Err", NoHdr, 0, <<>>)
  /\ UNCHANGED <<inflight, dgrams, reader>>

\* The commit of a udp_reader scope fails on its RECV.
udp_reader_close_bus_error ==
  /\ reader.open /\ ~reader.unread
  /\ LostRecv(reader.tail)
  /\ reader' = NoReader
  /\ ret' = Result("udp_reader", "Err", NoHdr, 0, <<>>)
  /\ UNCHANGED <<inflight, dgrams>>

NextWithBusFaults ==
  \/ Next
  \/ \E n \in BufLens : udp_recv_from_bus_error(n)
  \/ udp_reader_close_bus_error

SpecWithBusFaults == Init /\ [][NextWithBusFaults]_vars

-----------------------------------------------------------------------------
(* Properties.                                                             *)

Byte == [dg : 0..MaxDgrams, off : 0..LEN + RxSize]
Hdr == [dg : 0..MaxDgrams, origin : Origins, len : Lens \cup GarbageLens]

TypeOK ==
  /\ rxRd \in 0..U16 - 1 /\ recvRd \in 0..U16 - 1
  /\ rxBuf \in Seq(Byte) /\ Len(rxBuf) <= RxSize
  /\ inflight \in Seq(Byte)
  /\ dgrams \in Seq([origin : Origins, len : Lens])
  /\ reader \in {NoReader} \cup
       [head : 0..U16 - 1, tail : 0..U16 - 1, ptr : 0..U16 - 1,
        unread : BOOLEAN, hdr : Hdr, expect : 0..MaxDgrams, open : {TRUE}]
  /\ ret.res \in {"Ok", "WouldBlock", "Err"}
  /\ ret.hdr \in Hdr \cup {NoHdr} /\ ret.bytes \in Seq(Byte)

\* Sn_RX_RD always sits on a frame boundary: the bytes from it on are the
\* frames of the datagrams not yet consumed, whole and in arrival order
\* (the last one possibly still partly invisible).  A commit of
\* udp_recv_from or of a udp_reader scope that stops inside a frame, or
\* skips one, makes the next receive decode payload bytes as a header.
WellFramed ==
  \E c \in 0..Len(dgrams) :
    rxBuf \o inflight = FlattenSeq([i \in 1..Len(dgrams) - c |-> Frame(c + i)])

\* Whatever a call hands the caller comes from the oldest unconsumed
\* datagram: the header udp_recv_from, udp_peek_from, udp_peek_from_header
\* or a reader reports is that datagram's header, and the bytes copied by
\* recv/peek/read/read_exact are its payload from the cursor's offset on.
DeliveredFromQueueHead ==
  ret.res = "Ok" /\ ret.hdr /= NoHdr =>
    /\ ret.expect /= 0
    /\ ret.hdr.dg = ret.expect
    /\ ret.at + Len(ret.bytes) <= dgrams[ret.expect].len
    /\ ret.bytes = SubSeq(Payload(ret.expect), ret.at + 1,
                          ret.at + Len(ret.bytes))

\* An open udp_reader scope spans only the payload of the first queued
\* datagram, even when more datagrams are queued behind it, and its
\* cursor stays inside the scope across reads and seeks with wrapping
\* 16-bit pointers.
ReaderIsolated ==
  reader.open =>
    LET w == WrapSub(reader.tail, reader.head)
    IN /\ reader.hdr.dg = reader.expect
       /\ WrapSub(reader.ptr, reader.head) <= w
       /\ \A i \in 0..w - 1 :
            ByteAt(WrapAdd(reader.head, i)) = [dg |-> reader.expect, off |-> LEN + i]

\* The datagrams whose frames are wholly in the RX buffer, oldest first.
RxQueue ==
  LET Complete(d) ==
        Cardinality({i \in DOMAIN rxBuf : rxBuf[i].dg = d}) = LEN + dgrams[d].len
  IN SetToSortSeq({d \in DOMAIN dgrams : Complete(d)}, <)

DQ == INSTANCE DatagramQueue WITH Ids <- 1..MaxDgrams, queue <- RxQueue

\* The receive path implements a FIFO datagram queue: every step either
\* leaves the queue of complete datagrams alone, appends the one just
\* received, or removes exactly the oldest one.
QueueRefinement == DQ!Spec

\* Spec section 4.2 and 9: the commit decision of udp_reader runs on
\* every exit of the closure; a scope that did not call unread commits
\* Sn_RX_RD := tail even when the closure returns an error.
ReaderExitCommits ==
  [][reader.open /\ ~reader'.open /\ ~reader.unread => rxRd' = reader.tail]_vars

\* A caller that keeps calling udp_recv_from gets every datagram the chip
\* receives: each one whose bytes are in the chip is eventually returned by udp_recv_from with its own
\* header, however its frame was split on arrival and however many are
\* queued behind it.
RecvProgress ==
  \A d \in 1..MaxDgrams :
    (\E i \in DOMAIN (rxBuf \o inflight) : (rxBuf \o inflight)[i].dg = d) ~>
      /\ ret.op = "udp_recv_from" /\ ret.res = "Ok"
      /\ ret.hdr.dg = d /\ ret.hdr.len = dgrams[d].len

=============================================================================
