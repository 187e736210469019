------------------------------ MODULE Probing ------------------------------
(***************************************************************************)
(* The call that looks for a route to a destination and, when it is asked  *)
(* to, pays it (src/network/probe_destination.js over execute_probe.js).   *)
(* The commands that pay, send, probe and rebalance make it, one call at a *)
(* time.                                                                   *)
(*                                                                         *)
(* The balances of the channels are read when the call starts and used     *)
(* when routes are found: the traffic of the node may change them between. *)
(* A payment that is sent settles or fails whatever becomes of the call.   *)
(***************************************************************************)
EXTENDS Naturals, Sequences, Functions, Node

CONSTANTS
  Capacity,      \* the capacity of a channel
  Kept,          \* what a channel keeps back: its reserve and twice its fees
  Fees,          \* what a route may cost
  Starts         \* balances the channels may start with

ASSUME ProbingAssumption ==
  /\ Fees \subseteq Nat /\ Capacity \in Nat /\ Kept \in Nat
  /\ Starts \subseteq [Channels -> 0 .. Capacity]

VARIABLES
  local,         \* what the node has in each channel
  moved,         \* another payment has gone over a channel (the bound is one)
  call,          \* the call: what was asked for and how far it is
  payments       \* every payment sent, oldest first

probing == <<local, moved, call, payments>>

Lower(a, b) == IF a < b THEN a ELSE b
Higher(a, b) == IF a > b THEN a ELSE b

\* limited: a maximum fee is given; find: the amount to look up to, 0 for none;
\* known: the features of the destination are in the request or the graph; avoid:
\* peers that routes do not go through
Args == [amount : Nat, find : Nat, real : BOOLEAN, limited : BOOLEAN, limit : Nat,
         strict : BOOLEAN, out : Peers \cup {Anyone}, to : Peers \cup {Anyone},
         known : BOOLEAN, avoid : SUBSET Peers]

Answers == {"none", "client", "server", "timeout", "noroute", "probed", "paid", "crashed"}
Phases == {"idle", "reading", "probing", "finding", "paying", "flight", "returned"}

CallTypes ==
  /\ call.phase \in Phases /\ call.answer \in Answers
  /\ call.most \in Nat /\ call.fee \in Nat /\ call.maximum \in Nat

ProbingTypes ==
  /\ local \in [Channels -> 0 .. Capacity] /\ moved \in BOOLEAN
  /\ CallTypes
  /\ \A i \in DOMAIN payments :
       /\ payments[i].parts \in [Channels -> Nat]
       /\ payments[i].into \in Channels \cup {Anyone}
       /\ payments[i].state \in {"flight", "settled", "failed"}

NoArgs == [amount |-> 0, find |-> 0, real |-> FALSE, limited |-> FALSE, limit |-> 0,
           strict |-> FALSE, out |-> Anyone, to |-> Anyone, known |-> TRUE, avoid |-> {}]

Called(a) == [phase |-> "reading", answer |-> "none", args |-> a, via |-> {},
              most |-> 0, fee |-> 0, maximum |-> 0]

ProbingInit ==
  /\ local \in Starts /\ moved = FALSE
  /\ call = [Called(NoArgs) EXCEPT !.phase = "idle"]
  /\ payments = <<>>

Returned(c, a) == [c EXCEPT !.phase = "returned", !.answer = a]

-----------------------------------------------------------------------------
(* What the call reads before it probes                                    *)

\* Channels with the peer to go out by that can send the amount and keep their
\* reserve and fees
WithBalance(a) ==
  {c \in Channels : Partner[c] = a.out /\ local[c] > a.amount + Kept}

\* The channel with the least that is enough is used
ChooseOut(a) ==
  IF a.out = Anyone THEN call' = [call EXCEPT !.phase = "probing", !.via = Channels]
  ELSE IF WithBalance(a) = {} THEN call' = Returned(call, "client")
  ELSE \E c \in WithBalance(a) :
         /\ \A d \in WithBalance(a) : local[c] <= local[d]
         /\ call' = [call EXCEPT !.phase = "probing", !.via = {c}, !.most = local[c] - Kept]

StrictWithoutLimit(a) == a.strict /\ ~a.limited

\* A strict limit needs a limit.  The features of a direct peer are read from a
\* name that is not defined: the program stops
Prepare ==
  /\ call.phase = "reading"
  /\ LET a == call.args IN
       IF ~a.known /\ a.to \in Peers THEN call' = Returned(call, "crashed")
       ELSE IF StrictWithoutLimit(a) THEN call' = Returned(call, "client")
       ELSE ChooseOut(a)
  /\ UNCHANGED <<local, moved, payments>>

ReadFails ==
  /\ call.phase = "reading"
  /\ call' = Returned(call, "server")
  /\ UNCHANGED <<local, moved, payments>>

-----------------------------------------------------------------------------
(* The probe, the maximum and the payment                                  *)

\* A limit of zero is not a limit for the probe
AboveProbeLimit(a, fee) == a.limited /\ a.limit # 0 /\ fee > a.limit

Found(fee) ==
  LET a == call.args
      c == [call EXCEPT !.fee = fee] IN
    IF AboveProbeLimit(a, fee) THEN Returned(call, "client")
    ELSE IF a.find > 0 THEN [c EXCEPT !.phase = "finding"]
    ELSE IF a.real THEN [c EXCEPT !.phase = "paying"]
    ELSE Returned(c, "probed")

RouteFound ==
  /\ call.phase = "probing"
  /\ \E c \in call.via, fee \in Fees :
       /\ Partner[c] \notin call.args.avoid
       /\ call.args.amount + fee <= local[c]
       /\ call.args.strict => fee <= call.args.limit
       /\ call' = [Found(fee) EXCEPT !.via = {c}]
  /\ UNCHANGED <<local, moved, payments>>

ProbeEnds ==
  /\ call.phase = "probing"
  /\ \E a \in {"noroute", "server", "timeout"} : call' = Returned(call, a)
  /\ UNCHANGED <<local, moved, payments>>

\* The maximum is at least what was probed, and at most what the channel could
\* send when it was read; without a peer to go out by, the program stops
Maximum(m) == Lower(call.most, Higher(m, call.args.amount + call.fee))

FindMaximum ==
  /\ call.phase = "finding"
  /\ \/ IF call.args.out = Anyone THEN call' = Returned(call, "crashed")
        ELSE \E m \in 1 .. call.args.find :
               call' = [Returned(call, "probed") EXCEPT !.maximum = Maximum(m)]
     \/ call' = [Returned(call, "probed") EXCEPT
                   !.maximum = Lower(call.args.find, call.args.amount + call.fee)]
     \/ call' = Returned(call, "server")
  /\ UNCHANGED <<local, moved, payments>>

Last == payments[Len(payments)]

\* A payment leaves by its parts; a payment to the node comes back by a channel
SentBy(parts, amount, fee, into) ==
  /\ \A c \in Channels : parts[c] <= local[c]
  /\ local' = [c \in Channels |-> local[c] - parts[c]]
  /\ payments' = Append(payments, [parts |-> parts, amount |-> amount, fee |-> fee,
                                   into |-> into, state |-> "flight"])

Sent(c, amount, fee, into) ==
  SentBy([d \in Channels |-> IF d = c THEN amount + fee ELSE 0], amount, fee, into)

\* Mutant of PayRoute: the limit is that of the probe, for which zero is none
ProbeLimitOnly ==
  /\ call.phase = "paying"
  /\ \E c \in call.via : Sent(c, call.args.amount, call.fee, Anyone)
  /\ call' = [call EXCEPT !.phase = "flight"]
  /\ UNCHANGED moved

\* A route that costs more than the limit, a limit of zero included, is not paid
PayRoute ==
  /\ call.phase = "paying"
  /\ IF call.args.limited /\ call.fee > call.args.limit
     THEN call' = Returned(call, "client") /\ UNCHANGED <<local, payments>>
     ELSE /\ \E c \in call.via : Sent(c, call.args.amount, call.fee, Anyone)
          /\ call' = [call EXCEPT !.phase = "flight"]
  /\ UNCHANGED moved

\* The channel cannot send what the probe found any more, or the answer is lost
PayFails ==
  /\ \/ call.phase = "paying" /\ \A c \in call.via : call.args.amount + call.fee > local[c]
     \/ call.phase = "flight"
  /\ call' = Returned(call, "server")
  /\ UNCHANGED <<local, moved, payments>>

PayAnswers ==
  /\ call.phase = "flight" /\ Last.state # "flight"
  /\ call' = Returned(call, IF Last.state = "settled" THEN "paid" ELSE "server")
  /\ UNCHANGED <<local, moved, payments>>

-----------------------------------------------------------------------------
(* The network: payments in flight end, other payments change the balances  *)

PaymentSettles ==
  /\ \E i \in DOMAIN payments :
       /\ payments[i].state = "flight"
       /\ payments' = [payments EXCEPT ![i].state = "settled"]
       /\ local' = [c \in Channels |->
                     IF c = payments[i].into
                     THEN Lower(Capacity, local[c] + payments[i].amount) ELSE local[c]]
  /\ UNCHANGED <<moved, call>>

PaymentFails ==
  /\ \E i \in DOMAIN payments :
       LET p == payments[i] IN
         /\ p.state = "flight"
         /\ payments' = [payments EXCEPT ![i].state = "failed"]
         /\ local' = [c \in Channels |-> Lower(Capacity, local[c] + p.parts[c])]
  /\ UNCHANGED <<moved, call>>

OtherTraffic ==
  /\ ~moved /\ moved' = TRUE
  /\ call.phase \in {"probing", "finding", "paying", "returned"}
  /\ \E c \in Channels : /\ local[c] > 0
                         /\ local' = [local EXCEPT ![c] = @ \div 2]
  /\ UNCHANGED <<call, payments>>

CallStep ==
  \/ Prepare \/ ReadFails \/ RouteFound \/ ProbeEnds \/ FindMaximum
  \/ PayRoute \/ PayFails \/ PayAnswers

NetworkStep == PaymentSettles \/ PaymentFails \/ OtherTraffic

InFlight == {i \in DOMAIN payments : payments[i].state = "flight"}
Settled == {i \in DOMAIN payments : payments[i].state = "settled"}
=============================================================================
