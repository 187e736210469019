----------------------------- MODULE MCSwapOut -----------------------------
(* Two confirmations and blocks past the timeout: enough for a deposit or a *)
(* recovery that comes too late.                                           *)
EXTENDS SwapOut
=============================================================================
