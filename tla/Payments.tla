------------------------------ MODULE Payments ------------------------------
(***************************************************************************)
(* The commands that pay: `bos pay`, `bos send`, `bos lnurl pay`, `bos     *)
(* transfer` and `bos probe`, which does all but pay (src/network/pay.js,  *)
(* push_payment.js, transfer_funds.js, probe.js and src/lnurl/pay.js).     *)
(*                                                                         *)
(* A command turns what the user asks for into a request with an amount    *)
(* and a fee limit and makes a call of Probing, or pays over several paths *)
(* that it probes first.  The service of an LNURL answers with any request *)
(* and a request may expire while paths are looked for.                    *)
(***************************************************************************)
EXTENDS Probing, FiniteSets

CONSTANTS
  Amounts,       \* the amounts a service may make a request for
  Orders         \* what users ask for

\* The options that the commands have: only a send and a transfer have a dry run, only a
\* send a fee rate; these two pay by one path; and a transfer avoids no peer
ASSUME OrdersAssumption ==
  \A o \in Orders :
    /\ o.amount \in Nat /\ o.limit \in Nat /\ o.rated \in BOOLEAN
    /\ o.dry => o.name \in {"send", "transfer"}
    /\ o.rated => o.name = "send"
    /\ o.name \in {"send", "transfer"} => ~o.multi
    /\ o.name = "transfer" => o.avoid = {}
    /\ o.name \in {"pay", "lnurl"} /\ o.kind # "request" => o.amount # 0
    /\ o.name = "lnurl" => o.kind = "lnurl"
    /\ o.name \in {"pay", "send", "lnurl", "transfer", "probe"}

VARIABLES
  order,         \* what the user asked for
  stage,         \* how far the command is
  send,          \* what it makes of it: the amount, the fee limit, and the paths found
  expired,       \* the request to pay has expired
  outcome        \* what the command told the user

paying == <<order, stage, send, expired, outcome>>
payVars == <<local, moved, call, payments, order, stage, send, expired, outcome>>

Kinds == {"request", "zero", "key", "lnurl"}
Stages == {"off", "validate", "terms", "confirm", "ready", "tried", "paths", "parts",
           "call", "after", "ended"}
\* unpaid: no route was found, which is not an error
Outcomes == {"none", "success", "unpaid", "error", "crash"}

\* rated: a fee rate of one in two limits the fee too; multi: max_paths is above
\* one; outs: peers to go out by; kind: what there is to pay; self: a transfer to
\* the node itself; avoid, tagged: peers to avoid, and those that a tag says to avoid
NoOrder == [name |-> "pay", kind |-> "request", amount |-> 1, limit |-> 1, rated |-> FALSE,
         multi |-> FALSE, strict |-> FALSE, message |-> FALSE, outs |-> {}, dry |-> FALSE,
         known |-> TRUE, to |-> Anyone, self |-> FALSE, avoid |-> {},
         tagged |-> {}]

NoPaths == [c \in Channels |-> 0]
Unsent == [amount |-> 0, limit |-> 0, found |-> NoPaths]

PaymentTypes ==
  /\ stage \in Stages /\ outcome \in Outcomes /\ expired \in BOOLEAN
  /\ send \in [amount : Nat, limit : Nat, found : [Channels -> Nat]]

Idle ==
  /\ stage = "off" /\ order = NoOrder /\ expired = FALSE
  /\ send = Unsent /\ outcome = "none"

PaymentsInit ==
  /\ ProbingInit
  /\ order \in Orders
  /\ stage = "validate" /\ send = Unsent
  /\ expired = FALSE /\ outcome = "none"

End(o) == stage' = "ended" /\ outcome' = o
Kept1 == UNCHANGED <<local, moved, payments>>

-----------------------------------------------------------------------------
(* From the order to the payment                                           *)

\* Mutant of FeeLimit: the higher one counts
HigherLimit(o) == IF o.rated THEN Higher(o.limit, o.amount \div 2) ELSE o.limit

\* The lower of the fee limit and the fee by rate
FeeLimit(o) == IF o.rated THEN Lower(o.limit, o.amount \div 2) ELSE o.limit

\* pay and lnurl: a request that is expired or has no amount is not paid; a key
\* cannot be paid
PayRefused(o) == o.kind = "request" /\ (o.amount = 0 \/ expired)

\* send: a request has no amount of its own, the order must have one
SendRefused(o) == o.amount = 0 \/ o.kind = "request"

\* A read of the node, the tags or the peers may fail
Validated(refused, limit) ==
  /\ \/ End("error") /\ UNCHANGED send
     \/ /\ IF refused THEN End("error")
           ELSE /\ stage' = IF order.kind = "lnurl" THEN "terms" ELSE "ready"
                /\ UNCHANGED outcome
        /\ send' = [Unsent EXCEPT !.amount = order.amount, !.limit = limit]
  /\ UNCHANGED <<order, expired, call>> /\ Kept1

Validate ==
  /\ stage = "validate" /\ order.name # "send"
  /\ Validated(order.name = "pay" /\ PayRefused(order), order.limit)

\* The keys, the tags, the fiat rates and the balances the amount may be made of
ValidateSend ==
  /\ stage = "validate" /\ order.name = "send"
  /\ Validated(SendRefused(order), FeeLimit(order))

\* Mutant of AcceptRequest: the amount of the service's request is not checked
AnyRequest(amount) == TRUE

\* The request of the service must be for the amount and not have expired
AcceptRequest(amount) == amount = send.amount

\* The service gives the least and the most it takes and then a request for any
\* amount: what is paid is the amount of the request
LnurlRequest ==
  /\ stage = "terms"
  /\ \/ End("error") /\ UNCHANGED send
     \/ \E amount \in Amounts :
          /\ AcceptRequest(amount)
          /\ send' = [send EXCEPT !.amount = amount]
          /\ stage' = IF order.name = "lnurl" THEN "confirm" ELSE "ready"
          /\ UNCHANGED outcome
  /\ UNCHANGED <<order, expired, call>> /\ Kept1

Confirm ==
  /\ stage = "confirm"
  /\ \/ End("error")
     \/ IF expired THEN End("error") ELSE stage' = "ready" /\ UNCHANGED outcome
  /\ UNCHANGED <<order, send, expired, call>> /\ Kept1

RequestExpires ==
  /\ order.kind # "key" /\ order.name \notin {"send", "transfer"} /\ ~expired
  /\ stage \in {"terms", "confirm", "paths"}
  /\ expired' = TRUE
  /\ UNCHANGED <<order, stage, send, outcome, call>> /\ Kept1

\* Mutant of RealPayment: a probe pays
ProbePays(o) == TRUE
RealPayment(o) == o.name # "probe"

OutOf(o) == IF o.outs = {} THEN Anyone ELSE CHOOSE p \in o.outs : TRUE

\* pay and probe avoid what the tags say only when the user avoids something too; a
\* send always does
Avoided(o) ==
  IF o.name = "transfer" \/ (o.name # "send" /\ o.avoid = {}) THEN {}
  ELSE o.avoid \cup o.tagged

SinglePath ==
  /\ stage = "ready" /\ ~order.multi /\ order.name # "transfer"
  /\ IF order.dry \/ Cardinality(order.outs) > 1
     THEN End("error") /\ UNCHANGED call
     ELSE /\ stage' = "call"
          /\ call' = Called([NoArgs EXCEPT
               !.amount = IF send.amount = 0 THEN 1 ELSE send.amount,
               !.real = RealPayment(order), !.limited = TRUE, !.limit = send.limit,
               !.strict = order.strict, !.out = OutOf(order), !.known = order.known,
               !.to = order.to, !.avoid = Avoided(order)])
          /\ UNCHANGED outcome
  /\ UNCHANGED <<order, send, expired>> /\ Kept1

-----------------------------------------------------------------------------
(* A transfer between two nodes of the user                                *)

\* The amount is probed first, without a limit
TransferProbe ==
  /\ stage = "ready" /\ order.name = "transfer"
  /\ stage' = "tried"
  /\ call' = Called([NoArgs EXCEPT !.amount = send.amount, !.out = OutOf(order)])
  /\ UNCHANGED <<order, send, expired, outcome>> /\ Kept1

\* Mutant of MayTransfer: a dry run stops at the probe only when its fee is too high
FeeOnly == ~order.self /\ call.answer = "probed" /\ call.fee <= send.limit
MayTransfer ==
  /\ ~order.self /\ ~order.dry
  /\ call.answer = "probed" /\ call.fee <= send.limit

\* The other node makes an invoice when the probe cost less than the limit, and a call
\* of its own, which may find another route, pays it.  A dry run ends as an error
Transfer ==
  /\ stage = "tried" /\ call.phase = "returned"
  /\ \/ End("error") /\ UNCHANGED call     \* the other node makes no invoice
     \/ IF MayTransfer
        THEN /\ stage' = "call" /\ UNCHANGED outcome
             /\ call' = Called([NoArgs EXCEPT
                  !.amount = send.amount, !.real = TRUE, !.limited = TRUE,
                  !.limit = send.limit, !.out = OutOf(order)])
        ELSE End(IF call.answer = "crashed" THEN "crash" ELSE "error") /\ UNCHANGED call
  /\ UNCHANGED <<order, send, expired>> /\ Kept1

-----------------------------------------------------------------------------
(* Several paths                                                           *)

MultiPathProbe ==
  /\ stage = "ready" /\ order.multi
  /\ IF order.strict \/ (order.message /\ order.name # "probe")
     THEN End("error")
     ELSE stage' = "paths" /\ UNCHANGED outcome
  /\ UNCHANGED <<order, send, expired, call>> /\ Kept1

Outs ==
  {c \in Channels : /\ order.outs = {} \/ Partner[c] \in order.outs
                    /\ Partner[c] \notin Avoided(order)}

Total(f) == FoldFunction(+, 0, f)

\* What is found on the paths must be enough for the amount; a probe reports it
PathsFound ==
  /\ stage = "paths"
  /\ \/ End("error") /\ UNCHANGED send
     \/ \E found \in [Channels -> 0 .. Capacity] :
          /\ \A c \in Channels : found[c] <= IF c \in Outs THEN local[c] ELSE 0
          /\ send' = [send EXCEPT !.found = found]
          /\ IF order.name = "probe" THEN End("success")
             ELSE IF send.amount > Total(found) THEN End("error")
             ELSE stage' = "parts" /\ UNCHANGED outcome
  /\ UNCHANGED <<order, expired, call>> /\ Kept1

\* Each path carries a part, at most what was found on it (the split is made by the
\* library that pays)
Used == {c \in Channels : send.found[c] > 0}
Parts ==
  {parts \in [Channels -> 0 .. Capacity] :
     Total(parts) = send.amount /\ \A c \in Channels : parts[c] <= send.found[c]}

\* The request is checked again: it may have expired during the probe
PayParts ==
  /\ stage = "parts"
  /\ \/ /\ ~expired
        /\ \E fee \in {f \in Fees : f <= send.limit}, parts \in Parts, c \in Used :
             SentBy([parts EXCEPT ![c] = @ + fee], send.amount, fee, Anyone)
        /\ call' = [call EXCEPT !.phase = "flight"]
        /\ stage' = "call" /\ UNCHANGED outcome
     \/ End("error") /\ UNCHANGED <<call, local, payments>>
  /\ UNCHANGED <<order, send, expired, moved>>

-----------------------------------------------------------------------------
(* What the user is told                                                   *)

\* Mutant of Told: an answer that never came is a success
AnsweredOrNot(a) ==
  CASE a = "paid" \/ a = "server" -> "success" [] a = "crashed" -> "crash"
    [] a = "probed" -> "success" [] a = "noroute" -> "unpaid" [] OTHER -> "error"
Told(a) ==
  CASE a = "paid" -> "success" [] a = "crashed" -> "crash"
    [] a = "probed" -> "success" [] a = "noroute" -> "unpaid" [] OTHER -> "error"

\* A probe checks the fee once more; a send or a transfer by a peer reads its
\* liquidity, and finding no route is an error for them
Pushes == order.name \in {"send", "transfer"}
Finish ==
  /\ stage = "call" /\ call.phase = "returned"
  /\ IF Pushes /\ call.answer = "noroute" THEN End("error")
     ELSE IF Pushes /\ call.answer = "paid" /\ order.outs # {}
          THEN stage' = "after" /\ UNCHANGED outcome
     ELSE IF order.name = "probe" /\ call.answer = "probed" /\ call.fee > order.limit
          THEN End("error")
     ELSE End(Told(call.answer))
  /\ UNCHANGED <<order, send, expired, call>> /\ Kept1

\* The payment is made when the liquidity is read: an error is told all the same
ReadLiquidity ==
  /\ stage = "after"
  /\ \E o \in {"success", "error"} : End(o)
  /\ UNCHANGED <<order, send, expired, call>> /\ Kept1

CommandStep ==
  \/ Validate \/ ValidateSend \/ LnurlRequest \/ Confirm \/ SinglePath
  \/ MultiPathProbe \/ TransferProbe \/ Transfer \/ PathsFound \/ PayParts
  \/ Finish \/ ReadLiquidity

PaymentsNext ==
  \/ CommandStep \/ RequestExpires
  \/ CallStep /\ UNCHANGED paying
  \/ NetworkStep /\ UNCHANGED paying

-----------------------------------------------------------------------------
(* Properties                                                              *)

\* One payment at most, for the amount of the order, with no more fees than each of
\* the limits of the user allows: whatever request a service answers with,
\* whether one path pays or several, and though a limit of zero is none for the
\* probe (probe_destination.js:473).  Nothing leaves by a peer to avoid, and a probe
\* and a dry run pay nothing.
SentAsOrdered ==
  /\ Len(payments) <= 1
  /\ order.name = "probe" \/ order.dry => payments = <<>>
  /\ \A i \in DOMAIN payments :
       /\ payments[i].amount = order.amount
       /\ payments[i].fee <= order.limit
       /\ \A c \in Channels : payments[i].parts[c] > 0 => Partner[c] \notin order.avoid
       /\ order.rated => 2 * payments[i].fee <= order.amount

\* The user is told of a success only when the payment settled, and of no path only
\* when nothing was sent, whatever answers are lost
ToldAsPaid ==
  /\ outcome = "success" /\ order.name # "probe" => Settled # {}
  /\ outcome = "unpaid" => payments = <<>>

\* What holds of a command that pays: it sends what was ordered and tells what it sent
PaidAsOrdered == stage # "off" => SentAsOrdered /\ ToldAsPaid

\* The node answers every call, and a payment in flight settles or fails
PaymentsFairness ==
  /\ WF_payVars(CommandStep)
  /\ WF_payVars(CallStep /\ UNCHANGED paying)
  /\ WF_payVars((PaymentSettles \/ PaymentFails) /\ UNCHANGED paying)

\* Every command ends, whatever the calls answer and however long payments are in
\* flight (probe_destination.js:490)
PaymentEnds == stage = "validate" ~> stage = "ended"
=============================================================================
