---------------------------- MODULE MCPacketGet ----------------------------
(***************************************************************************)
(* Small instances of PacketGet for TLC: packets of two bytes.             *)
(***************************************************************************)
EXTENDS PacketGet

\* A packet with a 0, one whose bytes are escaped, and those with a checksum
\* of ESC and ETX.
TwoBytes == { <<0, 9>>, <<126, 125>>, <<17, 113>>, <<127, 1>> }
=============================================================================
