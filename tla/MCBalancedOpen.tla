--------------------------- MODULE MCBalancedOpen ---------------------------
(* Two runs of the initiator and two acceptances: enough for an abandoned  *)
(* request, a repeated acceptance and an acceptance of a stale request.    *)
EXTENDS BalancedOpen
=============================================================================
