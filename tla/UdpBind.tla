------------------------------- MODULE UdpBind -------------------------------
(***************************************************************************)
(* Udp::udp_bind (src/hl/src/udp.rs) against the W5500 socket command     *)
(* register.  The host writes CLOSE to Sn_CR and busy-polls Sn_SR until it *)
(* reads CLOSED, then writes Sn_PORT and Sn_MR (protocol UDP), writes OPEN *)
(* and busy-polls Sn_SR until it reads UDP.  The chip accepts a command    *)
(* some time after it is written: CLOSE discards the socket's buffers and  *)
(* makes it CLOSED; OPEN starts the socket in the protocol Sn_MR selects   *)
(* on the port Sn_PORT holds at that moment.                               *)
(***************************************************************************)
EXTENDS Integers, FiniteSets

CONSTANTS
  Sockets,    \* socket numbers (model values)
  Ports       \* local ports the caller binds

\* Sn_SR values and Sn_MR protocols of the model.
Statuses == {"Closed", "Udp", "Init"}
Protocols == {"Udp", "Tcp"}
NoCmd == "none"

VARIABLES
  sr,        \* Sn_SR per socket
  mr,        \* Sn_MR protocol per socket
  portReg,   \* Sn_PORT per socket
  cr,        \* Sn_CR per socket: the command not yet accepted, or NoCmd
  openPort,  \* the port the chip opened each socket on
  host       \* the udp_bind call in progress

vars == <<sr, mr, portReg, cr, openPort, host>>

Idle == host.pc = "idle"

-----------------------------------------------------------------------------
(* The chip.                                                               *)

\* The chip accepts the command in Sn_CR of socket s (CLOSE also discards
\* the socket's buffers, which this module does not track).
ChipCommand(s) ==
  /\ cr[s] /= NoCmd
  /\ cr' = [cr EXCEPT ![s] = NoCmd]
  /\ \/ /\ cr[s] = "Close"
        /\ sr' = [sr EXCEPT ![s] = "Closed"]
        /\ UNCHANGED openPort
     \/ /\ cr[s] = "Open"
        /\ sr' = [sr EXCEPT ![s] = IF mr[s] = "Udp" THEN "Udp" ELSE "Init"]
        /\ openPort' = [openPort EXCEPT ![s] = portReg[s]]
  /\ UNCHANGED <<mr, portReg, host>>

-----------------------------------------------------------------------------
(* Udp::udp_bind(sn, port).                                                *)

\* set_sn_cr(sn, Close).
BindClose(s, p) ==
  /\ Idle
  /\ cr' = [cr EXCEPT ![s] = "Close"]
  /\ host' = [pc |-> "wait_closed", sn |-> s, port |-> p]
  /\ UNCHANGED <<sr, mr, portReg, openPort>>

\* Fault variant of BindOpen: Sn_MR is not written.
BindOpenKeepMode ==
  /\ host.pc = "wait_closed"
  /\ sr[host.sn] = "Closed"
  /\ portReg' = [portReg EXCEPT ![host.sn] = host.port]
  /\ cr' = [cr EXCEPT ![host.sn] = "Open"]
  /\ host' = [host EXCEPT !.pc = "wait_udp"]
  /\ UNCHANGED <<sr, mr, openPort>>

\* The first loop reads CLOSED; then set_sn_port, set_sn_mr(UDP) and
\* set_sn_cr(Open).
BindOpen ==
  /\ host.pc = "wait_closed"
  /\ sr[host.sn] = "Closed"
  /\ portReg' = [portReg EXCEPT ![host.sn] = host.port]
  /\ mr' = [mr EXCEPT ![host.sn] = "Udp"]
  /\ cr' = [cr EXCEPT ![host.sn] = "Open"]
  /\ host' = [host EXCEPT !.pc = "wait_udp"]
  /\ UNCHANGED <<sr, openPort>>

\* Fault variant of BindDone: returns without the second loop.
BindDoneNoWait ==
  /\ host.pc = "wait_udp"
  /\ host' = [host EXCEPT !.pc = "idle"]
  /\ UNCHANGED <<sr, mr, portReg, cr, openPort>>

\* The second loop reads UDP and udp_bind returns Ok.
BindDone ==
  /\ host.pc = "wait_udp"
  /\ sr[host.sn] = "Udp"
  /\ host' = [host EXCEPT !.pc = "idle"]
  /\ UNCHANGED <<sr, mr, portReg, cr, openPort>>

\* Either busy loop reads a status other than the one it waits for and
\* polls again.
BindPoll ==
  /\ \/ host.pc = "wait_closed" /\ sr[host.sn] /= "Closed"
     \/ host.pc = "wait_udp" /\ sr[host.sn] /= "Udp"
  /\ UNCHANGED vars

-----------------------------------------------------------------------------

\* Any socket may be open as UDP or TCP, or closed, when the caller binds.
Init ==
  /\ mr \in [Sockets -> Protocols]
  /\ sr \in {f \in [Sockets -> Statuses] :
               \A s \in Sockets : f[s] = "Udp" => mr[s] = "Udp"}
  /\ portReg \in [Sockets -> Ports]
  /\ openPort = portReg
  /\ cr = [s \in Sockets |-> NoCmd]
  /\ host = [pc |-> "idle", sn |-> CHOOSE s \in Sockets : TRUE,
             port |-> CHOOSE p \in Ports : TRUE]

Next ==
  \/ \E s \in Sockets : ChipCommand(s)
  \/ \E s \in Sockets, p \in Ports : BindClose(s, p)
  \/ BindOpen
  \/ BindDone
  \/ BindPoll

\* The chip accepts every command (the comments at udp.rs:216 and :228
\* rely on it: "unless you do something silly like holding the W5500 in
\* reset"), and the busy loops poll Sn_SR without end.
Fairness ==
  /\ \A s \in Sockets : WF_vars(ChipCommand(s))
  /\ WF_vars(BindOpen)
  /\ WF_vars(BindDone)

Spec == Init /\ [][Next]_vars /\ Fairness

-----------------------------------------------------------------------------
(* Properties.                                                             *)

\* When udp_bind returns, the chip has opened the socket as UDP on the
\* requested port and no command of the bind is still pending, whatever
\* the socket was doing (UDP on another port, TCP, closed) and however
\* late the chip accepted CLOSE and OPEN.
BindReturnsBound ==
  [][host.pc /= "idle" /\ host'.pc = "idle" =>
       /\ sr'[host.sn] = "Udp"
       /\ openPort'[host.sn] = host.port
       /\ cr'[host.sn] = NoCmd]_vars

\* Every udp_bind call returns: neither busy loop spins for ever when the
\* chip accepts its commands.
BindTerminates == host.pc /= "idle" ~> host.pc = "idle"

=============================================================================
