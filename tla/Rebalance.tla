----------------------------- MODULE Rebalance -----------------------------
(***************************************************************************)
(* `bos rebalance`: a circular payment out by one peer and in by another   *)
(* (src/swaps/rebalance.js), tried again after some errors                 *)
(* (src/swaps/manage_rebalance.js).                                        *)
(*                                                                         *)
(* A try reads the channels, chooses the peers, looks for the maximum of a *)
(* route with a call of Probing, makes an invoice for it, and pays it by a *)
(* route of its own.  After the payment it reads the liquidity of the two  *)
(* peers.  An error of the node or of the network at any of these steps    *)
(* starts another try; the payments of earlier tries stay.                 *)
(***************************************************************************)
EXTENDS Probing, FiniteSets

CONSTANTS
  MinRebalance,  \* the least amount to rebalance (50,000)
  ProbeSize,     \* the amount probed is between this (200,000) and twice this
  MaxPayment,    \* the most when no maximum is given (4,294,967)
  Reserve,       \* what a channel keeps back as a reserve
  HighInbound,   \* the inbound a peer needs to be chosen to receive by (2 * 4,294,967)
  LowInbound,    \* a peer with less inbound is one to send by (4,294,967)
  DefaultFee, DefaultRate, RateBase,   \* limits when none is given (1337, 250, 1,000,000)
  InboundRate,   \* [Peers -> Nat]: the fee rates of the peers
  Plans,         \* what users ask for
  Tries          \* bound on the tries (5)

ASSUME PlansAssumption ==
  /\ IsFiniteSet(Channels) /\ Tries \in Nat \ {0}
  /\ ProbeSize \in Nat /\ MaxPayment \in Nat /\ RateBase \in Nat \ {0}
  /\ \A p \in Plans : p.maximum \in Nat /\ p.maxRate \in Nat /\ p.want \in Nat

VARIABLES
  plan,          \* the options of the command
  try,           \* the number of this try
  step,          \* how far it is
  seen,          \* the balances read when the try started
  outPeer,       \* the peer to send by
  inPeer,        \* the peer to receive by
  probe,         \* the amount probed
  target,        \* the maximum to rebalance in this try
  invoiced       \* the amount of the invoice of this try

rebalancing == <<plan, try, step, seen, outPeer, inPeer, probe, target, invoiced>>
rebalanceVars == <<local, moved, call, payments, plan, try, step, seen, outPeer,
                   inPeer, probe, target, invoiced>>

Steps == {"off", "start", "peers", "call", "route", "flight", "after", "ended", "failed"}

\* maximum, maxFee, maxRate: 0 for none; want: the liquidity to reach on side; by:
\* whether the peers given are named or matched by a filter
NoPlan == [maximum |-> 0, maxFee |-> 0, maxRate |-> 0, strict |-> FALSE, want |-> 0,
           side |-> "in", in |-> Anyone, out |-> Anyone, filter |-> FALSE, ban |-> {}]

RebalanceTypes ==
  /\ step \in Steps /\ try \in 1 .. Tries
  /\ seen \in [Channels -> 0 .. Capacity]
  /\ outPeer \in Peers \cup {Anyone} /\ inPeer \in Peers \cup {Anyone}
  /\ probe \in Nat /\ target \in Nat /\ invoiced \in Nat

\* A try starts from nothing
Fresh ==
  /\ seen = [c \in Channels |-> 0] /\ outPeer = Anyone /\ inPeer = Anyone
  /\ probe = 0 /\ target = 0 /\ invoiced = 0
Forget ==
  /\ seen' = [c \in Channels |-> 0] /\ outPeer' = Anyone /\ inPeer' = Anyone
  /\ probe' = 0 /\ target' = 0 /\ invoiced' = 0
  /\ call' = [Called(NoArgs) EXCEPT !.phase = "idle"]
  /\ UNCHANGED <<plan, local, moved, payments>>

Unplanned == try = 1 /\ Fresh /\ plan = NoPlan /\ step = "off"

RebalanceInit ==
  /\ ProbingInit /\ Fresh
  /\ plan \in Plans /\ try = 1 /\ step = "start"

\* Mutant of Again: the tries are not counted
AgainForever == step' = "start" /\ UNCHANGED try /\ Forget

\* Mutant of Again: one try too many
OneMoreTry ==
  /\ IF try <= Tries THEN step' = "start" /\ try' = try + 1
     ELSE step' = "failed" /\ UNCHANGED try
  /\ Forget

\* A try that failed at the node or in the network is followed by another
Again ==
  /\ IF try < Tries THEN step' = "start" /\ try' = try + 1
     ELSE step' = "failed" /\ UNCHANGED try
  /\ Forget
After(s) == step' = s /\ UNCHANGED <<plan, try>>

-----------------------------------------------------------------------------
(* The peers and the amount                                                *)

\* A read of the node fails, a peer is not found or a filter is not right
ReadAll ==
  /\ step = "start"
  /\ \/ Again
     \/ After("failed") /\ UNCHANGED <<seen, probe, outPeer, inPeer, target, invoiced, probing>>
     \/ /\ After(IF plan.maximum # 0 /\ plan.maximum < MinRebalance THEN "failed" ELSE "peers")
        /\ seen' = local
        /\ probe' \in {ProbeSize, 2 * ProbeSize}
        /\ UNCHANGED <<outPeer, inPeer, target, invoiced, probing>>

Remote(balances, p) ==
  LET cs == {c \in Channels : Partner[c] = p} IN
    Cardinality(cs) * Capacity - FoldFunctionOnSet(+, 0, balances, cs)
Local(balances, p) ==
  FoldFunctionOnSet(+, 0, balances, {c \in Channels : Partner[c] = p})

\* Channels and peers to send by when none is given: there is enough to probe with
\* and the peer needs inbound
Sendable(p) == \E c \in Channels : Partner[c] = p /\ seen[c] > probe + Reserve

\* Mutant of Needing: a peer to avoid may be chosen
EvenBanned ==
  {p \in Peers \ {plan.in} : Sendable(p) /\ Remote(seen, p) < LowInbound}
Needing ==
  {p \in Peers \ (plan.ban \cup {plan.in}) : Sendable(p) /\ Remote(seen, p) < LowInbound}

\* A filter that matches a peer does not replace the need for one that needs inbound
MaySendBy(p) ==
  IF plan.out = Anyone THEN p \in Needing
  ELSE p = plan.out /\ (plan.filter => Needing # {})

\* Peers to receive by: the one that is given, or one in the upper half by inbound
\* with a fee rate below the limit
Limit(given, default) == IF given = 0 THEN default ELSE given
Named == plan.in # Anyone /\ ~plan.filter
Inbounds(out) ==
  {c \in Channels : /\ Partner[c] # out /\ Partner[c] \notin plan.ban
                    /\ Named \/ Remote(seen, Partner[c]) > HighInbound}
Cheap(out) ==
  {c \in Inbounds(out) : InboundRate[Partner[c]] < Limit(plan.maxRate, DefaultRate)}
UpperHalf(cs) ==
  {c \in cs : 2 * Cardinality({d \in cs : Remote(seen, Partner[d]) > Remote(seen, Partner[c])})
                < Cardinality(cs) + (Cardinality(cs) % 2)}
MayReceiveBy(p, out) ==
  /\ Inbounds(out) # {}
  /\ IF plan.in # Anyone THEN p = plan.in
     ELSE p \in {Partner[c] : c \in UpperHalf(Cheap(out))}

\* The maximum, or what is missing on the side whose liquidity is wanted
Missing(out, in) ==
  LET current == IF plan.side = "in" THEN Local(local, in) ELSE Remote(local, out) IN
    IF plan.want = 0
    THEN IF plan.maximum = 0 THEN MaxPayment ELSE plan.maximum
    ELSE IF current + probe > plan.want \/ plan.maximum # 0 THEN 0
    ELSE plan.want - current

NoPeers ==
  \/ \A p \in Peers : ~MaySendBy(p)
  \/ \E p \in Peers : MaySendBy(p) /\ \A q \in Peers : ~MayReceiveBy(q, p)

ChoosePeers ==
  /\ step = "peers"
  /\ \/ NoPeers /\ After("failed") /\ UNCHANGED <<outPeer, inPeer, target, call>>
        /\ UNCHANGED <<seen, probe, invoiced, local, moved, payments>>
     \/ plan.want # 0 /\ Again
     \/ \E out \in Peers, in \in Peers :
          /\ MaySendBy(out) /\ MayReceiveBy(in, out)
          /\ outPeer' = out /\ inPeer' = in /\ target' = Missing(out, in)
          /\ IF Missing(out, in) = 0 \/ in = out \/ (plan.strict /\ plan.maxRate = 0)
             THEN After("failed") /\ UNCHANGED call
             ELSE /\ After("call")
                  /\ call' = Called([NoArgs EXCEPT
                       !.amount = probe, !.find = Missing(out, in), !.limited = plan.strict,
                       !.limit = (plan.maxRate * probe) \div RateBase, !.strict = plan.strict,
                       !.out = out])
          /\ UNCHANGED <<seen, probe, invoiced, local, moved, payments>>

-----------------------------------------------------------------------------
(* The payment                                                             *)

\* The invoice is for the maximum that was found
Invoice ==
  /\ step = "call" /\ call.phase = "returned"
  /\ \/ /\ call.answer = "probed"
        /\ After("route") /\ invoiced' = call.maximum
        /\ UNCHANGED <<seen, outPeer, inPeer, probe, target, probing>>
     \/ /\ call.answer \in {"noroute", "client", "timeout", "crashed"}
        /\ After("failed")
        /\ UNCHANGED <<seen, outPeer, inPeer, probe, target, invoiced, probing>>
     \/ /\ call.answer \in {"server", "probed"}    \* or a read of a channel failed
        /\ Again

FeeOk(amount, fee) ==
  /\ fee <= Limit(plan.maxFee, DefaultFee)
  /\ fee * RateBase <= Limit(plan.maxRate, DefaultRate) * (amount + fee)

\* Mutant of CheckedFee: only the total fee is checked
TotalFeeOnly(amount, fee) == fee <= Limit(plan.maxFee, DefaultFee)
CheckedFee(amount, fee) == FeeOk(amount, fee)

\* A route for the amount of the invoice is made of the channels of the probe; its
\* fees are those of the channels for that amount
PayRebalance ==
  /\ step = "route"
  /\ \/ Again                             \* the amount is too low, or the channel has less by now
     \/ \E fee \in Fees :
          /\ invoiced + fee >= MinRebalance
          /\ IF CheckedFee(invoiced, fee)
             THEN /\ \E c \in call.via, d \in {b \in Channels : Partner[b] = inPeer} :
                       Sent(c, invoiced, fee, d)
                  /\ After("flight")
             ELSE After("failed") /\ UNCHANGED <<local, payments>>
          /\ UNCHANGED <<seen, outPeer, inPeer, probe, target, invoiced, moved, call>>

\* The payment ended, or its answer is lost
PayReturns ==
  /\ step = "flight"
  /\ \/ Again
     \/ /\ Last.state = "settled" /\ After("after")
        /\ UNCHANGED <<seen, outPeer, inPeer, probe, target, invoiced, probing>>

\* The liquidity of both peers is read
ReadAdjusted ==
  /\ step = "after"
  /\ \/ Again
     \/ /\ After("ended")
        /\ UNCHANGED <<seen, outPeer, inPeer, probe, target, invoiced, probing>>

RebalanceStep ==
  \/ ReadAll \/ ChoosePeers \/ Invoice \/ PayRebalance \/ PayReturns \/ ReadAdjusted

RebalanceNext ==
  \/ RebalanceStep
  \/ CallStep /\ UNCHANGED rebalancing
  \/ NetworkStep /\ UNCHANGED rebalancing

-----------------------------------------------------------------------------
(* Properties                                                              *)

MayUse(p, given) == p = given \/ (given = Anyone /\ p \notin plan.ban)

\* Every payment of every try keeps both fee limits for the amount that it moves,
\* though the route was probed for another amount (rebalance.js:744), leaves by
\* one peer and returns by another, and uses no peer to avoid that was not asked for
RebalancedAsPlanned ==
  step # "off" => \A i \in DOMAIN payments :
    /\ FeeOk(payments[i].amount, payments[i].fee)
    /\ MayUse(Partner[payments[i].into], plan.in)
    /\ \A c \in Channels : payments[i].parts[c] > 0 =>
         /\ Partner[c] # Partner[payments[i].into]
         /\ MayUse(Partner[c], plan.out)

\* The node answers every call
RebalanceFairness ==
  /\ WF_rebalanceVars(RebalanceStep)
  /\ WF_rebalanceVars(CallStep /\ UNCHANGED rebalancing)

\* The tries come to an end, whatever errors they meet (manage_rebalance.js:70)
RebalanceEnds == step = "start" ~> step \in {"ended", "failed"}
=============================================================================
