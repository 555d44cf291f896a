# TLA+ models of the w5500-hl UDP socket layer

These modules model `src/hl/src/udp.rs`, the `Udp` trait of `w5500-hl`, against
the W5500 chip. The chip runs concurrently with the host: it fills a socket's
RX ring while the host reads it, drains the TX ring after a SEND, and accepts
socket commands some time after they are written.

## The system

The host talks to one socket through its registers:

| register | meaning | used by |
|---|---|---|
| `Sn_RX_RD`, `Sn_RX_RSR` | read pointer and received size of the RX ring | receive path |
| `Sn_TX_WR`, `Sn_TX_FSR` | write pointer and free size of the TX ring | transmit path |
| `Sn_CR` | command register (OPEN, CLOSE, SEND, RECV) | all |
| `Sn_SR`, `Sn_MR`, `Sn_PORT` | status, mode and local port | `udp_bind` |
| `Sn_DIPR`/`Sn_DPORT` | destination | `udp_send_to`, `udp_writer_to` |

Both rings are addressed by 16-bit pointers that wrap at 65536. In the RX ring
each datagram is an 8-byte header (origin IP, origin port, length;
`UdpHeader::deser`) followed by its payload. The parts interact only through
these registers:
- The receive methods move `Sn_RX_RD` and then issue RECV.
- The send methods move `Sn_TX_WR` and then issue SEND.
- `udp_bind` issues CLOSE and OPEN, and polls `Sn_SR` after each.

### Inventory

- **Receive path** (`udp_recv_from` 289-321, `udp_peek_from` 370-400,
  `udp_peek_from_header` 442-456, `udp_reader` 658-702, `UdpHeader` 21-40):
  - State: `Sn_RX_RD`, the ring contents, `Sn_RX_RSR`.
  - Hard parts:
    - the chip appending datagrams concurrently, possibly in parts;
    - truncated receives that must still skip the whole datagram;
    - reader scopes that must stop at the first datagram;
    - the commit at scope exit.
- **Reader cursor** (`UdpReader`, 83-121, which forwards to `TcpReader`, not
  under `src/`): read, read_exact, seek, rewind, unread.
- **Transmit path** (`udp_send` 574-587, `udp_send_to` 491-494,
  `udp_send_if_free` 624-639, `udp_send_to_if_free` 532-540, `udp_writer`
  748-774, `udp_writer_to` 810-842):
  - State: `Sn_TX_WR`, the ring, the destination, and the SEND commands the
    chip has not yet transmitted.
  - Hard parts:
    - a `Sn_TX_FSR` snapshot that goes stale while the chip frees space;
    - what each call reports against what is actually sent.
- **Writer cursor** (`Writer`, outside `src/`): write, write_all, abort.
- **Binding** (`udp_bind` 209-237): CLOSE, a busy poll for CLOSED, writes to
  Sn_PORT and Sn_MR, OPEN, and a busy poll for UDP.

## Modules

| module | models | state | actions |
|---|---|---|---|
| `Wrapping` | `u16` wrapping arithmetic, `min` | – | operators `WrapAdd`, `WrapSub`, `MinOf` |
| `DatagramQueue` | abstract RX promise: a FIFO of complete datagrams | `queue` | `Deliver`, `Consume` |
| `UdpRx` | receive path and reader cursor | `rxRd`, `recvRd` (`Sn_RX_RD` at the last RECV the chip took), `rxBuf` (the received bytes after `rxRd`), `inflight` (bytes the chip has not yet made visible), `dgrams` (history of arrivals), `reader`, `ret` (last result) | `ChipReceive`, `ChipReceiveRest`, one action per method, scope open/close/fail, cursor ops |
| `SendQueue` | abstract TX promise: a FIFO of committed datagrams, transmitted whole and in order | `queued`, `wire` | `Commit`, `Transmit` |
| `UdpTx` | transmit path and writer cursor | `txWr`, `txRd`, `mem`, `latched` (end of last SEND), `pending` (accepted SENDs), `wire`, `dest`, `writer`, `promised` (what calls reported), `failed` (what calls whose SEND failed tried to send), `calls` | `ChipTransmit`, one action per method, open/close of `udp_writer` and `udp_writer_to` scopes, fail, `write`, `write_all`, `abort`, SEND failures |
| `UdpBind` | `udp_bind` against an asynchronous `Sn_CR` | `sr`, `mr`, `portReg`, `cr`, `openPort`, `host` (the bind's program counter) | `ChipCommand`, `BindClose`, `BindOpen`, `BindPoll`, `BindDone` |
| `MCUdpRx`, `MCUdpTx`, `MCUdpBind` | model values and small constant sets for TLC | | |

How the modules correspond to the code:
- **Data.** Bytes are abstracted to where they came from.
  - RX: byte `off` of datagram `dg`, with offsets 0-7 being the header.
  - TX: byte `off` of the caller's buffer in call `id`.
  - `Deser` returns the true header when `Sn_RX_RD` sits on a frame boundary. Otherwise it returns any header (origin, length from `GarbageLens`): deserializing payload bytes yields an arbitrary header.
- **Actions.** Each method is one action that contains every register write it makes, including the trailing `set_sn_rx_rd` + RECV or `set_sn_tx_wr` + SEND.
- **Scopes.** A reader or writer scope is three actions, because the caller's closure runs in between and calls the cursor operations:
  - open: everything up to `f(&mut ..)`;
  - close: the closure returned `Ok`, so commit unless unread or abort was called;
  - fail: the closure returned `Err`, and `?` returns at once.
- **Refinement.**
  - `UdpRx` implements `DatagramQueue` with `queue <- RxQueue`, the ids of the complete datagrams not yet consumed.
  - `UdpTx` implements `SendQueue` with `queued <- Queued`, the TX memory regions of the accepted SENDs as they now stand. Any overwrite of queued bytes therefore breaks the refinement.
- **Transport errors.** A failing register access returns `Err` through `?`. Only a failure of the final command write leaves state behind, because the pointer register has already moved. So that failure is modelled as its own action, and a failure anywhere earlier is a stuttering step.
  - **TX** (`udp_send_bus_error`, `udp_writer_close_bus_error`, in `SpecWithBusFaults`): `Sn_TX_WR` has moved. The SEND either never reached the chip or took effect before the error was reported.
  - **RX** (`udp_recv_from_bus_error`, `udp_reader_close_bus_error`, in `SpecWithBusFaults`): `Sn_RX_RD` has moved, but the chip never took the RECV.
  - The chip reads a ring pointer only when it executes the command that hands the ring over.
    - RX: it reads `Sn_RX_RD` on RECV, so `Sn_RX_RSR` is counted from `recvRd`, the pointer of the last RECV.
    - TX: it reads `Sn_TX_WR` on SEND, so `Sn_TX_FSR` is counted from `latched`, the pointer of the last SEND.
    - Without faults, these pointers equal the live registers between calls. The fault-free runs reach the same states under either reading.
    - After a lost SEND, the bytes past `latched` count as free. A later call may then overwrite them, or, when it gets its own SEND through, send them glued to its own data (tx_send_error_glue).
  - The fault actions are not in `Next`. The fault-free runs check the code as the specification describes it. The two fault runs each check one consequence of a lost command.
- **Spec-modelled parts.** The cursor operations of `TcpReader` and `Writer` are modelled from `spec.md` because their code is not under `src/`. PROJECT.json marks them `spec_modelled`.

## Runs

| run | cfg | checks | result |
|---|---|---|---|
| rx | `MCUdpRx.cfg` | TypeOK, WellFramed, DeliveredFromQueueHead, ReaderIsolated, QueueRefinement | pass (about 14k states) |
| rx_chunked | `MCUdpRx_chunked.cfg` | WellFramed, DeliveredFromQueueHead, QueueRefinement without `udp_reader`, with datagrams arriving in two parts, plus RecvProgress under `FairSpec` | pass (about 47k states) |
| rx_reader_partial | `MCUdpRx_partial.cfg` | WellFramed with `udp_reader` and chunked arrival | **violation** |
| rx_reader_error | `MCUdpRx_failcommit.cfg` | ReaderExitCommits | **violation** |
| tx | `MCUdpTx.cfg` | TypeOK, ReportedIsSent, TxRefinement | pass (about 263k states) |
| tx_if_free | `MCUdpTx_iffree.cfg` | SentWasAttempted, TxRefinement with all six send methods and a 65536-byte buffer | pass (about 1.04M states) |
| tx_if_free_report | `MCUdpTx_report.cfg` | ReportedIsSent with `udp_send_if_free` | **violation** |
| tx_send_error_glue | `MCUdpTx_sendglue.cfg` | SentWasAttempted with `udp_send` and SEND failures | **violation** |
| rx_recv_error | `MCUdpRx_recverror.cfg` | DeliveredFromQueueHead with `udp_recv_from` and RECV failures | **violation** |
| bind | `MCUdpBind.cfg` | BindReturnsBound, BindTerminates | pass (810 states) |

What the properties say:
- **WellFramed:** the visible and in-flight RX bytes are exactly the frames of a suffix of the arrived datagrams, so `Sn_RX_RD` is always on a frame boundary.
- **DeliveredFromQueueHead:** every successful receive or peek returns the header and payload bytes of the oldest complete datagram.
- **ReaderIsolated:** an open reader scope never covers a byte past the end of the first datagram.
- **QueueRefinement and TxRefinement:** the two refinements above.
- **ReportedIsSent:** the non-empty datagrams transmitted or queued are, in order, the ones the calls reported as sent.
- **SentWasAttempted:** every non-empty datagram transmitted or queued is the data of one call that tried to send it, whether that call succeeded or failed. In tx_if_free it says that `udp_send_if_free` sends a caller's whole buffer or nothing, never a part (specification §8, send space policy). ReportedIsSent fails in that run, and this converse direction still holds.
- **RecvProgress:** a caller that keeps polling `udp_recv_from` eventually gets every datagram whose bytes are in the chip, with its own header.
- **ReaderExitCommits:** a reader scope that ends without `unread` moves `Sn_RX_RD` to its tail.
- **BindReturnsBound:** `udp_bind` returns only when the chip holds the socket open as UDP on the requested port, with no command pending.
- **BindTerminates:** every bind returns.

### Findings

1. **`udp_send_if_free` reports unsent data as sent** (udp.rs:638). When the buffer does not fit in `Sn_TX_FSR`, it returns `data_len` although nothing was written. Its documentation says it returns the number of bytes written. Run: tx_if_free_report.
2. **`udp_reader` over a partly received datagram** (udp.rs:676-678). It lacks the `rsr < header.len` check that `udp_recv_from` has at lines 308-311. When the scope closes, `Sn_RX_RD` lands inside the datagram's payload, and every later receive parses payload as a header. Run: rx_reader_partial. The counterexample takes 4 states.
3. **A closure error skips the commit** (udp.rs:694). `f(&mut reader)?` returns before lines 696-699, so the datagram stays queued. The specification describes the commit decision as taken at every scope exit. Run: rx_reader_error.
4. **A failed SEND glues datagrams** (udp.rs:582-584). When `set_sn_cr(Send)` fails, `Sn_TX_WR` stays advanced. The chip's next SEND then transmits the failed call's bytes and the next call's bytes as one datagram. The specification does not say what state a transport failure leaves. Run: tx_send_error_glue. The counterexample takes 3 states.
5. **A failed RECV makes the next receive invent a datagram** (udp.rs:318-319). When `set_sn_cr(Recv)` fails, `Sn_RX_RD` has moved but `Sn_RX_RSR` still counts the consumed bytes. The next `udp_recv_from` then decodes unreceived memory as a header and returns `Ok`. Run: rx_recv_error. The counterexample takes 4 states.

### Bounds

- **RX**
  - RX ring of 22 bytes, with `Sn_RX_RD` starting at 65530. Wrap-around is therefore reached within the first datagram.
  - At most 3 datagrams.
  - Payload lengths {0, 1, 3}. A zero length is a real UDP case, and 3 leaves room for truncation by caller buffers of {0, 2, 4}.
  - Garbage header lengths {0, 2, 40}: 40 exceeds every RSR.
  - Seek offsets {-1, 1, 3}.
  - Symmetry over the two origins, except in rx_chunked, which checks liveness.
  - Three datagrams are the fewest for which "the reader stops at the first of several" and "receives consume in order" both have a third datagram behind the one being read.
- **TX**
  - TX ring of 8 bytes, with `Sn_TX_WR` starting at 65532.
  - Message lengths {0, 3, 6}. Two 3-byte sends fill the ring and 6 overflows it after one send, which covers partial sends, `write` truncation and `write_all` OutOfMemory.
  - 5 calls, 2 destinations with symmetry.
  - tx_if_free adds a buffer of 65536 bytes (`LongLens`) to the `udp_send*` calls. That is one past `u16::MAX`, so `udp_send` clamps it (line 576) and `udp_send_if_free` takes its early return (lines 627-630).
- **Bind**
  - 2 sockets and 2 ports.
  - Every initial combination of Sn_MR, Sn_SR and port is enumerated.

### Fairness

- `UdpBind` and `UdpRx` have liveness.
- `UdpRx!FairSpec` assumes a caller that polls.
  - It calls `udp_recv_from` again after every return, `WouldBlock` included (weak fairness). The specification describes exactly this retry loop for `WouldBlock`.
  - A reader closure runs to its end (weak fairness on close or fail).
  - The chip copies the rest of a frame it has begun to store (weak fairness on `ChipReceiveRest`).
  - rx_chunked leaves `udp_reader` out. A caller that opens a reader and calls `unread` every time never consumes anything, and weak fairness cannot exclude that.
  - The run has no symmetry, because symmetry is unsound for liveness.
- The chip accepts every command (weak fairness on `ChipCommand`). The code's own comments at lines 216 and 228 rely on this: "unless you do something silly like holding the W5500 in reset".
- The host keeps polling while it is in a loop (weak fairness on `BindOpen` and `BindDone`).
- `UdpTx` has no liveness property. ReportedIsSent already makes every reported datagram a queued SEND, so "every reported datagram is eventually transmitted" would depend only on the chip transmitting its queue, not on the code.
- The TX runs set `CHECK_DEADLOCK FALSE`, because the caller stops after `MaxCalls` calls.

## Not modelled

- `port_is_unique` is a debug assertion without state change. The specification makes port uniqueness a caller contract whose violation is undefined, so there is nothing of the program's to check against it.
- Transport errors other than on the final command write: they return before any register that matters has changed.
- The chip's handling of a datagram longer than its RX buffer.
- A command written while `Sn_CR` is still non-zero.
- The composition of `udp_bind` with the receive and transmit paths. The host keeps no socket state between calls: every call reads `Sn_RX_RD`, `Sn_RX_RSR`, `Sn_TX_WR` and `Sn_TX_FSR` afresh. A scope holds the transport exclusively, so a bind cannot fall inside one. A bind therefore reaches the receive and transmit paths only through the chip's reset of both rings on CLOSE and OPEN. That reset is datasheet behaviour, not code of this repository, and a composed model would check the chip rather than the program.
- What a caller does with `Ok(0)` from `udp_send_if_free` for a buffer longer than `u16::MAX` (lines 627-630). The early return itself is modelled. A wrong cast there would copy 65536 bytes, too many for TLC to hold in a state.
- TCP and the other crates, which are not under `src/`.

## Plan for later work

None of the code under `src/` is left to model. The remaining items depend on chip behaviour the repository does not define (see "Not modelled").
