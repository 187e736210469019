------------------------------ MODULE MCLsps1 ------------------------------
(* One order at one server.  Five requests are enough for the terms, the   *)
(* quote, the status and two later recoveries.                             *)
EXTENDS Lsps1, TLC
=============================================================================
