------------------------------ MODULE MCBuffer ------------------------------
(***************************************************************************)
(* The ring buffer on small instances.                                     *)
(***************************************************************************)
EXTENDS Buffer
CONSTANTS b1, b2, junk

MCByte1 == {b1}
MCByte2 == {b1, b2}
============================================================================
