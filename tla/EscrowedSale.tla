---------------------------- MODULE EscrowedSale ----------------------------
(***************************************************************************)
(* What a sale through a held payment promises both sides: the goods are   *)
(* given only after the payment was locked, the payment is taken only      *)
(* after the goods were given, and what was taken or returned stays so.    *)
(***************************************************************************)

VARIABLES
  payment,       \* none, locked, taken or returned
  delivered      \* the goods were given

vars == <<payment, delivered>>

Init == payment = "none" /\ delivered = FALSE

Lock ==
  /\ payment = "none" /\ payment' = "locked"
  /\ UNCHANGED delivered

\* The lock may run out before the goods arrive: that is the seller's risk
Deliver ==
  /\ payment \in {"locked", "returned"}
  /\ delivered' = TRUE
  /\ UNCHANGED payment

Take ==
  /\ payment = "locked" /\ delivered
  /\ payment' = "taken"
  /\ UNCHANGED delivered

Return ==
  /\ payment \in {"none", "locked"} /\ payment' = "returned"
  /\ UNCHANGED delivered

Next == Lock \/ Deliver \/ Take \/ Return

Spec == Init /\ [][Next]_vars

=============================================================================
