-------------------------- MODULE MCGarminFraming ---------------------------
(* GarminFraming for TLC: packets with 2, 2, 1, 2 and 2 bytes of data, of     *)
(* which two fit in the buffer.                                            *)
EXTENDS GarminFraming

const_Ends == <<5, 10, 14, 19, 24>>

\* A short packet, one longer than the buffer, and what wraps around to less
\* than a header.
const_Misread == {1, 4, 99}
=============================================================================
