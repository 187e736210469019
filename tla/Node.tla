-------------------------------- MODULE Node --------------------------------
(***************************************************************************)
(* What the commands know of the node that they run on: the peers and the  *)
(* channels with them.  The modules of the commands share these.           *)
(***************************************************************************)
CONSTANTS
  Peers,         \* the peers of the node
  Channels,      \* its channels, all active
  Partner,       \* [Channels -> Peers]
  Anyone         \* stands for no peer

ASSUME NodeAssumption == Partner \in [Channels -> Peers] /\ Anyone \notin Peers
=============================================================================
