------------------------------ MODULE MCLedServer ------------------------------
(***************************************************************************)
(* LedServer on small instances: a handful of calls, of the kinds the code *)
(* tells apart, against a queue they can fill.                             *)
(***************************************************************************)
EXTENDS LedServerInv
=============================================================================
