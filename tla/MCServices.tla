----------------------------- MODULE MCServices -----------------------------
(***************************************************************************)
(* Constants to check the services with.                                   *)
(***************************************************************************)
EXTENDS Services, TLC

CONSTANTS p1, p2, s, l, n, h, k, f, g, u, v, x, w, j

MCAsk == [r \in Requests |-> [capacity |-> IF r = s THEN 1 ELSE 2, trust |-> r = p2]]
MCPolicies ==
  {[rules |-> {}, trust |-> {p2}, addresses |-> <<"a", "b">>],
   [rules |-> {"age"}, trust |-> {}, addresses |-> <<>>],
   [rules |-> {"age", "capacity"}, trust |-> {}, addresses |-> <<"a", "b">>],
   [rules |-> {"capacity"}, trust |-> {p2}, addresses |-> <<"a", "b">>],
   [rules |-> {}, trust |-> {}, addresses |-> <<"a">>],
   [rules |-> {}, trust |-> {}, addresses |-> <<"a", "b", "a">>]}
MCHome == [i \in Indexes |-> l]
MCOpenedAt == [c \in NewChannels |-> IF c = u THEN 1 ELSE 3]
MCDeliveries ==
  LET one(z, y, c, b) == [kind |-> z, received |-> y, hash |-> c, request |-> b] IN
    {(p1 :> one("ping", 3, h, TRUE)) @@ (p2 :> one("ping", 2, h, TRUE))} \cup
    {(p1 :> one(z, y, h, b)) @@ (p2 :> NoPing) :
       z \in {"ping", "simulated", "other"}, y \in {1, 3, 4}, b \in BOOLEAN}
MCThrough == [c \in Forwards |-> l]
MCUpdateKind == [c \in Updates |-> IF c = u THEN "invoice" ELSE "rebalance"]
MCNoLocktimeId == [c \in Txs |-> j]
MCBots ==
  {[user |-> TRUE, happens |-> {"forwards"}],
   [user |-> FALSE, happens |-> {"updates", "trades", "backups"}],
   [user |-> TRUE, happens |-> {"transactions", "raw"}],
   [user |-> TRUE, happens |-> {"transactions", "outages"}]}
=============================================================================
