------------------------------ MODULE MCSplice ------------------------------
(***************************************************************************)
(* Splice on small instances.                                              *)
(***************************************************************************)
EXTENDS Splice
============================================================================
