--------------------------- MODULE AtomicFunding ---------------------------
(***************************************************************************)
(* What funding several channels with one transaction promises: the        *)
(* commitments arrive one by one, in any order, and are kept; the          *)
(* transaction is published once all of them are there, and stays          *)
(* published.                                                              *)
(***************************************************************************)
CONSTANT Channels

VARIABLES
  committed,     \* the channels whose opener holds a commitment
  published      \* the transaction was handed to the network

Init == committed = {} /\ published = FALSE

Commit(c) ==
  /\ c \notin committed
  /\ committed' = committed \cup {c}
  /\ UNCHANGED published

Publish ==
  /\ committed = Channels
  /\ published' = TRUE
  /\ UNCHANGED committed

Next == Publish \/ \E c \in Channels : Commit(c)

Spec == Init /\ [][Next]_<<committed, published>>

=============================================================================
