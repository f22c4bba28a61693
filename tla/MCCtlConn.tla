----------------------------- MODULE MCCtlConn ------------------------------
(***************************************************************************)
(* A control connection on small instances.                                *)
(***************************************************************************)
EXTENDS CtlConn
============================================================================
