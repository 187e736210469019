--------------------------- MODULE MCOpenChannels ---------------------------
(* Two saved nodes open three channels to two peers in one transaction.    *)
EXTENDS OpenChannels, TLC

CONSTANTS alice, bob, carol, dave, c1, c2, c3

MCNodes == {alice, bob}
MCChannels == {c1, c2, c3}
MCNodeOf == c1 :> alice @@ c2 :> alice @@ c3 :> bob
MCPeerOf == c1 :> carol @@ c2 :> dave @@ c3 :> carol

\* One of the channels is opened by one saved node to the other
MCLinkedPeerOf == c1 :> bob @@ c2 :> dave @@ c3 :> carol
=============================================================================
