--------------------------- MODULE MCServerLoops ----------------------------
(***************************************************************************)
(* ServerLoops on small instances.                                         *)
(***************************************************************************)
EXTENDS ServerLoops
============================================================================
