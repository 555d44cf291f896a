------------------------------- MODULE Wrapping -------------------------------
(***************************************************************************)
(* The u16 arithmetic the socket layer does on W5500 buffer pointers.      *)
(* Sn_RX_RD, Sn_TX_WR and the cursors of readers and writers are 16-bit   *)
(* and wrap independently of the buffer size.                              *)
(***************************************************************************)
EXTENDS Integers

U16 == 65536

\* Fault variant: plain addition where the code needs wrapping_add.
NoWrapAdd(a, b) == a + b

\* u16::wrapping_add
WrapAdd(a, b) == (a + b) % U16

\* u16::wrapping_sub: the distance from b forward to a.
WrapSub(a, b) == (a - b) % U16

\* core::cmp::min
MinOf(a, b) == IF a < b THEN a ELSE b

=============================================================================
