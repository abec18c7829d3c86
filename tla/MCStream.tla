------------------------------ MODULE MCStream ------------------------------
(***************************************************************************)
(* Small instances of Stream for TLC: packets of two bytes.                *)
(***************************************************************************)
EXTENDS Stream

\* Bytes that must be escaped next to bytes that look escaped, and checksums
\* that are ESC, ETX (twice) and 0x11.  A checksum of STX is left out: the
\* board would send it as it is, and readStream would take it for a start.
TwoBytes ==
  { <<125, 240>>, <<127, 3>>, <<0, 128>>, <<126, 2>>, <<93, 125>>, <<17, 221>> }

Quiet == { 0 }
=============================================================================
