---------------------------- MODULE JointFunding ----------------------------
(***************************************************************************)
(* What a channel funded by several parties promises each of them: a party *)
(* gives its share only once it holds a commitment to take it back with,   *)
(* and the shares are spent together, when all were given.                 *)
(***************************************************************************)
CONSTANT Parties

VARIABLES
  committed,     \* the parties that hold a commitment
  contributed,   \* the parties whose share was given
  funded         \* the shares were spent into the channel

vars == <<committed, contributed, funded>>

Init == committed = {} /\ contributed = {} /\ funded = FALSE

Commit(p) ==
  /\ p \notin committed
  /\ committed' = committed \cup {p}
  /\ UNCHANGED <<contributed, funded>>

Contribute(p) ==
  /\ p \in committed \ contributed
  /\ contributed' = contributed \cup {p}
  /\ UNCHANGED <<committed, funded>>

Fund ==
  /\ contributed = Parties /\ committed = Parties
  /\ funded' = TRUE
  /\ UNCHANGED <<committed, contributed>>

Next == Fund \/ \E p \in Parties : Commit(p) \/ Contribute(p)

Spec == Init /\ [][Next]_vars

=============================================================================
