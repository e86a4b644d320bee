----------------------------- MODULE MCPdsClient -----------------------------
(***************************************************************************)
(* Model checking PdsClient: a report and a label, and tokens that expire  *)
(* between the tries of a write.                                           *)
(***************************************************************************)
EXTENDS PdsClient
=============================================================================
