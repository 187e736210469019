----------------------------- MODULE MCCommands -----------------------------
(***************************************************************************)
(* Constants to check the commands with: three channels with two peers and *)
(* three coins.                                                            *)
(***************************************************************************)
EXTENDS Commands, TLC

CONSTANTS p1, p2, c1, c2, c3, k1, k2, k3

MCPartner == [x \in Channels |-> IF x = c3 THEN p2 ELSE p1]
MCStarts == {(c1 :> 6) @@ (c2 :> 3) @@ (c3 :> 0)}
MCInboundRate == [x \in Peers |-> 1]

PayOrders ==
  {[NoOrder EXCEPT !.name = n, !.amount = x, !.limit = f, !.multi = y, !.outs = o] :
     n \in {"pay", "probe"}, x \in {1, 3}, f \in {0, 2}, y \in BOOLEAN,
     o \in {{}, {p1}, Peers}}
SendOrders ==
  {[NoOrder EXCEPT !.name = "send", !.kind = z, !.amount = x, !.limit = f, !.rated = r,
                !.outs = o] :
     z \in {"key", "zero", "lnurl"}, x \in {1, 3}, f \in {0, 2}, r \in BOOLEAN,
     o \in {{}, {p1}}}
LnurlOrders ==
  {[NoOrder EXCEPT !.name = "lnurl", !.kind = "lnurl", !.amount = x, !.limit = 2, !.multi = y] :
     x \in {1, 3}, y \in BOOLEAN}
TransferOrders ==
  {[NoOrder EXCEPT !.name = "transfer", !.limit = f, !.dry = d, !.self = z, !.outs = o] :
     f \in {0, 2}, d \in BOOLEAN, z \in BOOLEAN, o \in {{}, {p1}}}
AvoidOrders ==
  {[NoOrder EXCEPT !.avoid = o, !.tagged = {p1}, !.multi = y] :
     o \in {{}, {p1}, {p2}}, y \in BOOLEAN} \cup
  {[NoOrder EXCEPT !.name = "send", !.kind = "key", !.avoid = o, !.tagged = {p1}] :
     o \in {{}, {p2}}}
OtherOrders ==
  {[NoOrder EXCEPT !.amount = 0], [NoOrder EXCEPT !.strict = TRUE],
   [NoOrder EXCEPT !.strict = TRUE, !.multi = TRUE],
   [NoOrder EXCEPT !.message = TRUE, !.multi = TRUE],
   [NoOrder EXCEPT !.name = "send", !.kind = "key", !.dry = TRUE],
   [NoOrder EXCEPT !.name = "send", !.kind = "key", !.amount = 0],
   [NoOrder EXCEPT !.name = "send", !.kind = "key", !.known = FALSE, !.to = p1],
   [NoOrder EXCEPT !.name = "send", !.kind = "request"]}
MCOrders == PayOrders \cup SendOrders \cup LnurlOrders \cup TransferOrders \cup AvoidOrders \cup OtherOrders

MCPlans ==
  {[NoPlan EXCEPT !.ban = y] : y \in {{}, {p1}, {p2}}} \cup
  {[NoPlan EXCEPT !.maximum = 1],
   [NoPlan EXCEPT !.maximum = 3, !.in = p2, !.out = p1],
   [NoPlan EXCEPT !.in = p2, !.ban = Peers],
   [NoPlan EXCEPT !.in = p1, !.out = p1],
   [NoPlan EXCEPT !.in = p2, !.out = p1, !.filter = TRUE, !.ban = {p1}],
   [NoPlan EXCEPT !.strict = TRUE],
   [NoPlan EXCEPT !.strict = TRUE, !.maxRate = 5, !.in = p2, !.out = p1],
   [NoPlan EXCEPT !.want = 5, !.in = p2, !.maxFee = 1],
   [NoPlan EXCEPT !.want = 8, !.side = "out", !.in = p2, !.out = p1],
   [NoPlan EXCEPT !.want = 5, !.maximum = 3]}

MCValue == [x \in Coins |-> IF x = k2 THEN 3 ELSE 2]
MCWishes ==
  {[NoWish EXCEPT !.amount = x, !.max = y, !.given = g, !.select = z, !.dry = d, !.send = ~d] :
     x \in {1, 3}, y \in BOOLEAN, z \in BOOLEAN, g \in {{}, {k1}, {k2}, {k1, k2}}, d \in BOOLEAN} \cup
  {[NoWish EXCEPT !.amount = x, !.send = z, !.dry = z] : x \in {0, 1}, z \in BOOLEAN} \cup
  {[NoWish EXCEPT !.name = "split", !.count = x, !.size = 2, !.dry = d, !.confirmed = z] :
     x \in 1 .. 4, d \in BOOLEAN, z \in BOOLEAN} \cup
  {[NoWish EXCEPT !.name = "recover", !.amount = 2, !.index = x, !.paysIt = y] :
     x \in {0, 1}, y \in BOOLEAN}

MCJobs ==
  {[NoJob EXCEPT !.peer = x, !.forced = f, !.dry = d, !.points = y] :
     x \in {p1, Anyone}, f \in BOOLEAN, d \in BOOLEAN, y \in {{}, {c1}}} \cup
  {[NoJob EXCEPT !.peer = p1, !.forced = f, !.select = TRUE] : f \in BOOLEAN} \cup
  {[NoJob EXCEPT !.name = "open", !.peer = x, !.seeds = {p2, Self}, !.dry = d, !.online = z] :
     x \in {p1, Anyone}, d \in BOOLEAN, z \in BOOLEAN}

MCFileJobs ==
  {[NoFileJob EXCEPT !.then = "lock", !.node = x, !.to = y] : x \in {p1, Unnamed}, y \in GpgKeys} \cup
  {[NoFileJob EXCEPT !.then = "unlock", !.node = x] : x \in {p2, Unnamed}} \cup
  {[NoFileJob EXCEPT !.first = "remove", !.node = x] : x \in {p1, Unnamed}} \cup
  {[NoFileJob EXCEPT !.first = "register", !.node = x] : x \in {p1, Unnamed}} \cup
  {[NoFileJob EXCEPT !.first = x, !.then = "lock", !.node = p2, !.to = k1] :
     x \in {"register", "remove"}} \cup {NoFileJob}

MCFeeStarts ==
  LET policy(x, y, z) == [rate |-> x, cltv |-> y, discount |-> z] IN
    {[open |-> {c1, c3}, policies |-> (c1 :> policy(1, 2, 1)) @@ (c2 :> NoSetting)
                                      @@ (c3 :> policy(0, 1, 0))],
     [open |-> {c1, c2, c3}, policies |-> (c1 :> policy(1, 0, 2)) @@ (c2 :> policy(0, 2, 1))
                                         @@ (c3 :> policy(2, 1, 0))]}
MCFeeJobs ==
  {[to |-> x, set |-> y] : x \in {{}, {p1}}, y \in {NoSetting, [NoSetting EXCEPT !.cltv = 1],
     [NoSetting EXCEPT !.rate = 0, !.discount = 0]}}
  \cup {[to |-> {p1}, set |-> [NoSetting EXCEPT !.rate = 2]],
        [to |-> Peers, set |-> [rate |-> 2, cltv |-> 1, discount |-> 0]]}

=============================================================================
