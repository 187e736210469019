--------------------------- MODULE SendingProofs ----------------------------
(***************************************************************************)
(* The invariants of the two commands that send: what is paid and what the *)
(* user is told of it, for any channels, balances, fees and orders; and    *)
(* the payments of all the tries of a rebalance, for any peers, limits,    *)
(* plans and number of tries.  CommandsProofs has the theorems.            *)
(***************************************************************************)
EXTENDS Payments, Rebalance, SetLemmas

-----------------------------------------------------------------------------
(* Payments                                                                *)

\* A payment as the user ordered it
AsOrdered ==
  {s \in [parts : [Channels -> Int], amount : Int, fee : Int, into : Channels \cup {Anyone},
          state : {"flight", "settled", "failed"}] :
     /\ s.amount = order.amount /\ s.fee <= order.limit
     /\ order.rated => 2 * s.fee <= order.amount
     /\ \A c \in Channels : s.parts[c] > 0 => Partner[c] \notin order.avoid}

MayPay == order.name # "probe" /\ ~order.dry

PaymentsInv ==
  /\ payments \in Seq(AsOrdered) /\ Len(payments) <= 1
  /\ payments # <<>> => MayPay /\ stage \in {"call", "after", "ended"}

\* What the command makes of the order is within it
SendInv ==
  /\ PaymentTypes /\ order \in Orders
  /\ stage \notin {"off", "validate", "ended"} =>
       /\ send.amount = order.amount
       /\ send.limit <= order.limit
       /\ order.rated => 2 * send.limit <= order.amount
       /\ order.name \in {"pay", "send", "lnurl"} => order.amount # 0
  /\ stage \in {"paths", "parts"} => order.multi
  /\ stage = "tried" => order.name = "transfer"
  /\ stage = "parts" =>
       /\ order.name # "probe"
       /\ \A c \in Channels : send.found[c] > 0 => Partner[c] \notin order.avoid

\* A call that can pay has what the order allows
CallArgs ==
  /\ call.args.find = 0
  /\ stage = "tried" => ~call.args.real
  /\ stage = "call" => (order.name # "probe" => call.args.real)
  /\ stage = "call" /\ call.args.real =>
       /\ MayPay /\ call.args.amount = order.amount
       /\ call.args.limited /\ call.args.limit = send.limit
       /\ order.avoid \subseteq call.args.avoid

IsCall ==
  call = [phase |-> call.phase, answer |-> call.answer, args |-> call.args, via |-> call.via,
          most |-> call.most, fee |-> call.fee, maximum |-> call.maximum]

Before == {"reading", "probing", "paying"}
CallInv ==
  /\ IsCall
  /\ call.phase \in Before => stage \in {"tried", "call"} /\ payments = <<>> /\ CallArgs
  /\ call.phase = "paying" =>
       /\ call.args.real /\ call.fee \in Nat
       /\ \A c \in call.via : Partner[c] \notin call.args.avoid
  /\ call.phase = "flight" => stage = "call" /\ MayPay /\ payments # <<>>
  /\ call.phase \in Before \cup {"flight", "idle", "returned"}

\* What a call returned and what the user was told are true of the payments
ToldInv ==
  /\ stage = "call" /\ call.phase = "returned" =>
       /\ call.answer = "paid" => Settled # {}
       /\ call.answer = "noroute" => payments = <<>>
       /\ call.answer = "probed" => order.name = "probe"
  /\ stage = "after" => Settled # {}
  /\ outcome # "none" => stage = "ended"
  /\ ToldAsPaid

PayInv == PaymentsInv /\ SendInv /\ CallInv /\ ToldInv

-----------------------------------------------------------------------------

LEMMA PayInit == ASSUME PaymentsInit PROVE PayInv
<1> USE ProbingAssumption, OrdersAssumption DEF PaymentsInit, ProbingInit
<1>1. PaymentsInv
  BY DEF PaymentsInv
<1>2. SendInv
  BY DEF SendInv, PaymentTypes, Unsent, Stages, Outcomes, NoPaths
<1>3. CallInv
  BY DEF CallInv, IsCall, Before, CallArgs, Called
<1>4. ToldInv
  BY DEF ToldInv, ToldAsPaid
<1> QED BY <1>1, <1>2, <1>3, <1>4 DEF PayInv

\* Steps of the command that leave the call and the payments alone
LEMMA QuietStep ==
  ASSUME PayInv,
         \/ Validate \/ ValidateSend \/ LnurlRequest \/ Confirm \/ MultiPathProbe
         \/ PathsFound \/ ReadLiquidity \/ RequestExpires
  PROVE  PayInv'
<1> USE ProbingAssumption, OrdersAssumption DEF PayInv, SendInv
<1>1. UNCHANGED <<order, call, payments>>
  BY DEF Validate, ValidateSend, LnurlRequest, Confirm, MultiPathProbe, PathsFound,
         ReadLiquidity, RequestExpires, Validated, Kept1
<1>2. stage \in {"validate", "terms", "confirm", "ready", "paths", "after"}
  BY DEF Validate, ValidateSend, LnurlRequest, Confirm, MultiPathProbe, PathsFound,
         ReadLiquidity, RequestExpires
<1>3. /\ stage' \in {"terms", "confirm", "ready", "paths", "parts", "ended"}
      /\ stage = "after" => stage' = "ended"
  BY DEF Validate, ValidateSend, LnurlRequest, Confirm, MultiPathProbe, PathsFound,
         ReadLiquidity, RequestExpires, Validated, End, PaymentTypes, Stages
<1>4. call.phase \in {"idle", "returned"}
  BY <1>2 DEF CallInv, Before
<1>5. PaymentsInv'
  BY <1>1, <1>2, <1>3 DEF PaymentsInv, MayPay, AsOrdered
<1>6. CallInv'
  BY <1>1, <1>3, <1>4 DEF CallInv, Before, IsCall
<1>7. SendInv'
  <2>1. CASE Validate
    <3>1. order.name # "send" /\ ~order.rated
      BY <2>1 DEF Validate
    <3>2. CASE stage' = "ended" /\ UNCHANGED send
      BY <1>1, <2>1, <3>2 DEF Validate, Validated, End, PaymentTypes, Stages, Outcomes
    <3>3. CASE send' = [Unsent EXCEPT !.amount = order.amount, !.limit = order.limit]
      <4>1. send' = [amount |-> order.amount, limit |-> order.limit, found |-> NoPaths]
        BY <3>3 DEF Unsent
      <4>2. stage' # "ended" => ~(order.name = "pay" /\ PayRefused(order))
        BY <2>1 DEF Validate, Validated, End
      <4>3. stage' # "ended" /\ order.name \in {"pay", "send", "lnurl"} => order.amount # 0
        BY <3>1, <4>2 DEF PayRefused
      <4>4. PaymentTypes'
        BY <2>1, <4>1 DEF Validate, Validated, End, PaymentTypes, Stages, Outcomes, NoPaths
      <4> QED BY <1>1, <1>3, <2>1, <3>1, <4>1, <4>3, <4>4 DEF Validate, Validated, End
    <3> QED BY <2>1, <3>2, <3>3 DEF Validate, Validated, End
  <2>2. CASE ValidateSend
    <3>1. order.name = "send" /\ order.rated \in BOOLEAN /\ order.amount \in Nat /\ order.limit \in Nat
      BY <2>2 DEF ValidateSend
    <3>2. CASE stage' = "ended" /\ UNCHANGED send
      BY <1>1, <2>2, <3>2 DEF ValidateSend, Validated, End, PaymentTypes, Stages, Outcomes
    <3>3. CASE send' = [Unsent EXCEPT !.amount = order.amount, !.limit = FeeLimit(order)]
      <4>1. send' = [amount |-> order.amount, limit |-> FeeLimit(order), found |-> NoPaths]
        BY <3>3 DEF Unsent
      <4>2. /\ FeeLimit(order) \in Nat /\ FeeLimit(order) <= order.limit
            /\ order.rated => 2 * FeeLimit(order) <= order.amount
        BY <3>1 DEF FeeLimit, Lower
      <4>3. stage' # "ended" => order.amount # 0
        BY <2>2 DEF ValidateSend, Validated, End, SendRefused
      <4>4. PaymentTypes'
        BY <2>2, <4>1, <4>2, <3>1 DEF ValidateSend, Validated, End, PaymentTypes, Stages, Outcomes, NoPaths
      <4> QED BY <1>1, <1>3, <2>2, <3>1, <4>1, <4>2, <4>3, <4>4 DEF ValidateSend, Validated, End
    <3> QED BY <2>2, <3>2, <3>3 DEF ValidateSend, Validated, End
  <2>3. CASE LnurlRequest
    BY <2>3 DEF LnurlRequest, End, PaymentTypes, Stages, Outcomes, AcceptRequest
  <2>4. CASE Confirm
    BY <2>4 DEF Confirm, End, PaymentTypes, Stages, Outcomes
  <2>5. CASE MultiPathProbe
    BY <2>5 DEF MultiPathProbe, End, PaymentTypes, Stages, Outcomes
  <2>6. CASE PathsFound
    BY <2>6 DEF PathsFound, End, PaymentTypes, Stages, Outcomes, Outs, Avoided
  <2>7. CASE ReadLiquidity
    BY <2>7 DEF ReadLiquidity, End, PaymentTypes, Stages, Outcomes
  <2>8. CASE RequestExpires
    BY <2>8 DEF RequestExpires, End, PaymentTypes, Stages, Outcomes
  <2> QED BY <2>1, <2>2, <2>3, <2>4, <2>5, <2>6, <2>7, <2>8
<1>8. ToldInv'
  <2>1. \/ UNCHANGED outcome /\ stage' # "ended"
        \/ stage' = "ended" /\ outcome' = "error"
        \/ stage' = "ended" /\ outcome' = "success" /\ (order.name = "probe" \/ stage = "after")
    BY DEF Validate, ValidateSend, LnurlRequest, Confirm, MultiPathProbe, PathsFound,
           ReadLiquidity, RequestExpires, Validated, End
  <2> QED BY <1>1, <1>2, <1>3, <2>1 DEF ToldInv, ToldAsPaid, Settled
<1> QED BY <1>5, <1>6, <1>7, <1>8

\* Steps that start a call, or take what it answers
LEMMA CallerStep ==
  ASSUME PayInv, SinglePath \/ TransferProbe \/ Transfer \/ Finish
  PROVE  PayInv'
<1> USE ProbingAssumption, OrdersAssumption DEF PayInv, SendInv
<1>1. UNCHANGED <<order, payments, send, expired>>
  BY DEF SinglePath, TransferProbe, Transfer, Finish, Kept1
<1>2. stage \in {"ready", "tried", "call"} /\ (stage = "ready" \/ call.phase = "returned")
  BY DEF SinglePath, TransferProbe, Transfer, Finish
<1>3. CASE stage' = "ended" /\ UNCHANGED call /\ outcome' \in {"error", "crash"}
  <2>1. PaymentsInv'
    BY <1>1, <1>2, <1>3 DEF PaymentsInv, MayPay, AsOrdered
  <2>2. SendInv'
    BY <1>1, <1>3 DEF PaymentTypes, Stages, Outcomes
  <2>3. CallInv'
    <3>1. call.phase \in {"idle", "returned"}
      BY <1>2 DEF CallInv, Before
    <3> QED BY <1>3, <3>1 DEF CallInv, Before, IsCall
  <2>4. ToldInv'
    BY <1>1, <1>3 DEF ToldInv, ToldAsPaid
  <2> QED BY <2>1, <2>2, <2>3, <2>4
<1>4. ASSUME NEW args, call' = Called(args), stage \in {"ready", "tried"}, UNCHANGED outcome,
             stage' \in {"tried", "call"}, stage' = "tried" => order.name = "transfer",
             CallArgs', args = call'.args
      PROVE  PayInv'
  <2>1. payments = <<>> /\ outcome = "none"
    BY <1>4 DEF PaymentsInv, ToldInv, PaymentTypes, Outcomes
  <2>2. PaymentsInv'
    BY <1>1, <2>1 DEF PaymentsInv, MayPay, AsOrdered
  <2>3. SendInv'
    BY <1>1, <1>4 DEF PaymentTypes, Stages, Outcomes
  <2>4. CallInv'
    BY <1>1, <1>4, <2>1 DEF CallInv, Before, IsCall, Called
  <2>5. ToldInv'
    BY <1>1, <1>4, <2>1 DEF ToldInv, ToldAsPaid, Called
  <2> QED BY <2>2, <2>3, <2>4, <2>5
<1>5. CASE SinglePath
  <2>1. CASE stage' = "ended"
    BY <1>3, <1>5, <2>1 DEF SinglePath, End
  <2>2. CASE stage' # "ended"
    <3> DEFINE args == [NoArgs EXCEPT
                 !.amount = IF send.amount = 0 THEN 1 ELSE send.amount,
                 !.real = RealPayment(order), !.limited = TRUE, !.limit = send.limit,
                 !.strict = order.strict, !.out = OutOf(order), !.known = order.known,
                 !.to = order.to, !.avoid = Avoided(order)]
    <3>1. /\ call' = Called(args) /\ stage' = "call" /\ ~order.dry /\ UNCHANGED outcome
          /\ stage = "ready" /\ order.name # "transfer"
      BY <1>5, <2>2 DEF SinglePath, End
    <3>2. call'.args = args
      BY <3>1 DEF Called
    <3>3. /\ args.find = 0 /\ args.limited /\ args.limit = send.limit /\ args.avoid = Avoided(order)
          /\ args.real = RealPayment(order)
          /\ args.amount = IF send.amount = 0 THEN 1 ELSE send.amount
      BY DEF NoArgs
    <3>4. args.real <=> order.name # "probe"
      BY <3>3 DEF RealPayment
    <3>5. order.avoid \subseteq Avoided(order)
      BY <3>1 DEF Avoided
    <3>6. order.name # "probe" => send.amount = order.amount /\ order.amount # 0
      BY <3>1
    <3> HIDE DEF args
    <3>7. CallArgs'
      BY <1>1, <3>1, <3>2, <3>3, <3>4, <3>5, <3>6 DEF CallArgs, MayPay
    <3> QED BY <1>4, <3>1, <3>2, <3>7
  <2> QED BY <2>1, <2>2
<1>6. CASE TransferProbe
  <2> DEFINE args == [NoArgs EXCEPT !.amount = send.amount, !.out = OutOf(order)]
  <2>1. /\ call' = Called(args) /\ stage' = "tried" /\ UNCHANGED outcome
        /\ stage = "ready" /\ order.name = "transfer"
    BY <1>6 DEF TransferProbe
  <2>2. call'.args = args /\ args.find = 0 /\ args.real = FALSE
    BY <2>1 DEF Called, NoArgs
  <2>3. CallArgs'
    BY <2>1, <2>2 DEF CallArgs
  <2> HIDE DEF args
  <2> QED BY <1>4, <2>1, <2>2, <2>3
<1>7. CASE Transfer
  <2>1. CASE stage' = "ended"
    BY <1>3, <1>7, <2>1 DEF Transfer, End
  <2>2. CASE stage' # "ended"
    <3> DEFINE args == [NoArgs EXCEPT
                  !.amount = send.amount, !.real = TRUE, !.limited = TRUE,
                  !.limit = send.limit, !.out = OutOf(order)]
    <3>1. /\ call' = Called(args) /\ stage' = "call" /\ ~order.dry /\ UNCHANGED outcome
          /\ stage = "tried" /\ order.name = "transfer"
      BY <1>7, <2>2 DEF Transfer, MayTransfer, End
    <3>2. call'.args = args
      BY <3>1 DEF Called
    <3>3. /\ args.find = 0 /\ args.limited /\ args.limit = send.limit
          /\ args.real /\ args.amount = send.amount
      BY DEF NoArgs
    <3>4. order.avoid = {} /\ send.amount = order.amount
      BY <3>1
    <3>5. CallArgs'
      BY <1>1, <3>1, <3>2, <3>3, <3>4 DEF CallArgs, MayPay
    <3> HIDE DEF args
    <3> QED BY <1>4, <3>1, <3>2, <3>5
  <2> QED BY <2>1, <2>2
<1>8. CASE Finish
  <2>1. stage = "call" /\ call.phase = "returned" /\ UNCHANGED call
    BY <1>8 DEF Finish
  <2>2. CASE stage' = "after" /\ UNCHANGED outcome /\ call.answer = "paid"
    <3>1. PaymentsInv'
      BY <1>1, <2>2 DEF PaymentsInv, MayPay, AsOrdered
    <3>2. SendInv'
      BY <1>1, <2>1, <2>2 DEF PaymentTypes, Stages, Outcomes
    <3>3. CallInv'
      BY <2>1, <2>2 DEF CallInv, Before, IsCall
    <3>4. ToldInv'
      BY <1>1, <2>1, <2>2 DEF ToldInv, ToldAsPaid, Settled
    <3> QED BY <3>1, <3>2, <3>3, <3>4
  <2>3. CASE /\ stage' = "ended" /\ outcome' \in Outcomes
             /\ outcome' = "success" => call.answer \in {"paid", "probed"}
             /\ outcome' = "unpaid" => call.answer = "noroute"
    <3>1. PaymentsInv'
      BY <1>1, <2>3 DEF PaymentsInv, MayPay, AsOrdered
    <3>2. SendInv'
      BY <1>1, <2>1, <2>3 DEF PaymentTypes, Stages
    <3>3. CallInv'
      BY <2>1, <2>3 DEF CallInv, Before, IsCall
    <3>4. ToldInv'
      BY <1>1, <2>1, <2>3 DEF ToldInv, ToldAsPaid, Settled
    <3> QED BY <3>1, <3>2, <3>3, <3>4
  <2>4. /\ Told(call.answer) \in Outcomes
        /\ Told(call.answer) = "success" => call.answer \in {"paid", "probed"}
        /\ Told(call.answer) = "unpaid" => call.answer = "noroute"
    BY DEF Told, Outcomes
  <2> QED BY <1>8, <2>2, <2>3, <2>4 DEF Finish, End, Outcomes
<1> QED BY <1>5, <1>6, <1>7, <1>8

\* What a step of the call that sends nothing does to it
CallGoesOn ==
  /\ UNCHANGED payments
  /\ IsCall' /\ call'.args = call.args
  /\ call.phase \in Before \/ (call.phase = "flight" /\ call'.phase = "returned")
  /\ call'.phase \in Before \cup {"returned"}
  /\ call'.phase = "paying" =>
       /\ call'.args.real /\ call'.fee \in Nat
       /\ \A c \in call'.via : Partner[c] \notin call'.args.avoid
  /\ call'.phase = "returned" =>
       /\ call'.answer = "paid" => Settled # {}
       /\ call'.answer = "noroute" => call.phase \in Before
       /\ call'.answer = "probed" => call.phase \in Before /\ ~call.args.real

LEMMA CallGoesOnSafe ==
  ASSUME PayInv, CallGoesOn, UNCHANGED paying PROVE PayInv'
<1> USE DEF PayInv, CallGoesOn, paying
<1>1. PaymentsInv'
  BY DEF PaymentsInv, MayPay, AsOrdered
<1>2. SendInv'
  BY DEF SendInv, PaymentTypes
<1>3. CallArgs => CallArgs'
  BY DEF CallArgs, MayPay
<1>4. CallInv'
  BY <1>3 DEF CallInv, Before
<1>5. ToldInv'
  BY DEF ToldInv, ToldAsPaid, Settled, CallInv, CallArgs
<1> QED BY <1>1, <1>2, <1>4, <1>5

LEMMA RouteStep ==
  ASSUME PayInv, RouteFound PROVE CallGoesOn
<1> USE DEF PayInv, CallInv, IsCall, Before, CallArgs
<1>1. PICK c \in call.via, fee \in Fees :
        /\ Partner[c] \notin call.args.avoid
        /\ call' = [Found(fee) EXCEPT !.via = {c}]
  BY DEF RouteFound
<1>2. UNCHANGED payments /\ call.phase = "probing" /\ call.args.find = 0 /\ fee \in Nat
  BY ProbingAssumption DEF RouteFound
<1>3. CASE Found(fee) = Returned(call, "client")
  BY <1>1, <1>2, <1>3 DEF Returned, CallGoesOn
<1>4. CASE call.args.real /\ Found(fee) = [[call EXCEPT !.fee = fee] EXCEPT !.phase = "paying"]
  <2>1. call' = [phase |-> "paying", answer |-> call.answer, args |-> call.args, via |-> {c},
                 most |-> call.most, fee |-> fee, maximum |-> call.maximum]
    BY <1>1, <1>4
  <2>2. IsCall' /\ call'.args = call.args /\ call'.phase = "paying" /\ call'.fee = fee /\ call'.via = {c}
    BY <2>1
  <2> HIDE DEF IsCall
  <2> QED BY <1>1, <1>2, <1>4, <2>2 DEF CallGoesOn
<1>5. CASE ~call.args.real /\ Found(fee) = Returned([call EXCEPT !.fee = fee], "probed")
  BY <1>1, <1>2, <1>5 DEF Returned, CallGoesOn
<1> QED BY <1>2, <1>3, <1>4, <1>5 DEF Found

\* The route that is paid costs no more than the limit and leaves by a peer that is not avoided
LEMMA PayStep ==
  ASSUME PayInv, PayRoute, UNCHANGED paying PROVE PayInv'
<1> USE DEF PayInv, CallInv, IsCall, Before, CallArgs
<1>1. call.phase = "paying" /\ payments = <<>> /\ call.args.real /\ stage = "call"
  BY DEF PayRoute
<1>2. CASE call.args.limited /\ call.fee > call.args.limit
  <2>1. CallGoesOn
    BY <1>1, <1>2 DEF PayRoute, Returned, CallGoesOn
  <2> QED BY <2>1, CallGoesOnSafe
<1>3. CASE ~(call.args.limited /\ call.fee > call.args.limit)
  <2>1. PICK c \in call.via : Sent(c, call.args.amount, call.fee, Anyone)
    BY <1>1, <1>3 DEF PayRoute
  <2>2. call' = [call EXCEPT !.phase = "flight"]
    BY <1>1, <1>3 DEF PayRoute
  <2> DEFINE parts == [d \in Channels |-> IF d = c THEN call.args.amount + call.fee ELSE 0]
             s == [parts |-> parts, amount |-> call.args.amount, fee |-> call.fee,
                   into |-> Anyone, state |-> "flight"]
  <2>3. payments' = Append(payments, s)
    BY <2>1 DEF Sent, SentBy
  <2>4. /\ MayPay /\ call.args.amount = order.amount /\ call.args.limited
        /\ call.args.limit = send.limit /\ call.fee \in Nat
        /\ Partner[c] \notin order.avoid
    BY <1>1, <2>1
  <2>5. order.amount \in Nat /\ order.limit \in Nat /\ send.limit \in Nat
        /\ send.limit <= order.limit /\ (order.rated => 2 * send.limit <= order.amount)
    BY <1>1, OrdersAssumption DEF SendInv, PaymentTypes
  <2>6. s \in AsOrdered
    <3>1. call.fee <= send.limit
      BY <1>3, <2>4, <2>5
    <3>2. parts \in [Channels -> Int]
      BY <2>4, <2>5
    <3>3. \A d \in Channels : parts[d] > 0 => Partner[d] \notin order.avoid
      BY <2>4
    <3> HIDE DEF parts
    <3> QED BY <3>1, <3>2, <3>3, <2>4, <2>5 DEF AsOrdered
  <2>7. PaymentsInv'
    <3> HIDE DEF s
    <3>1. AsOrdered' = AsOrdered
      BY DEF AsOrdered, paying
    <3>2. payments' = <<s>>
      BY <1>1, <2>3
    <3> QED BY <1>1, <2>4, <2>6, <3>1, <3>2 DEF PaymentsInv, MayPay, paying
  <2>8. SendInv'
    BY DEF SendInv, PaymentTypes, paying
  <2>9. CallInv'
    BY <1>1, <2>2, <2>3, <2>4 DEF paying, MayPay
  <2>10. ToldInv'
    BY <1>1, <2>2 DEF ToldInv, ToldAsPaid, paying, PaymentTypes, SendInv
  <2> QED BY <2>7, <2>8, <2>9, <2>10
<1> QED BY <1>2, <1>3

LEMMA CallStepSafe ==
  ASSUME PayInv, CallStep, UNCHANGED paying PROVE PayInv'
<1> USE DEF CallGoesOn, IsCall, Before, Returned
<1>0. CallInv
  BY DEF PayInv
<1>1. CASE Prepare
  <2>1. call.phase = "reading" /\ UNCHANGED payments /\ IsCall
    BY <1>0, <1>1 DEF CallInv, Prepare
  <2>2. CASE call' = Returned(call, "crashed") \/ call' = Returned(call, "client")
    <3>1. CallGoesOn
      BY <2>1, <2>2
    <3> QED BY <3>1, CallGoesOnSafe
  <2>3. CASE call' = [call EXCEPT !.phase = "probing", !.via = Channels]
    <3>1. IsCall' /\ call'.args = call.args /\ call'.phase = "probing"
      BY <2>1, <2>3
    <3>2. CallGoesOn
      BY <2>1, <3>1
    <3> QED BY <3>2, CallGoesOnSafe
  <2>4. ASSUME NEW c \in Channels,
               call' = [call EXCEPT !.phase = "probing", !.via = {c}, !.most = local[c] - Kept]
        PROVE  PayInv'
    <3>1. IsCall' /\ call'.args = call.args /\ call'.phase = "probing"
      BY <2>1, <2>4
    <3>2. CallGoesOn
      BY <2>1, <3>1
    <3> QED BY <3>2, CallGoesOnSafe
  <2> QED BY <1>1, <2>2, <2>3, <2>4 DEF Prepare, ChooseOut, WithBalance
<1>2. CASE ReadFails
  <2>1. CallGoesOn
    BY <1>0, <1>2 DEF CallInv, ReadFails
  <2> QED BY <2>1, CallGoesOnSafe
<1>3. CASE RouteFound
  BY <1>3, RouteStep, CallGoesOnSafe
<1>4. CASE ProbeEnds
  <2>1. CallGoesOn
    BY <1>0, <1>4 DEF CallInv, ProbeEnds
  <2> QED BY <2>1, CallGoesOnSafe
<1>5. CASE FindMaximum
  BY <1>0, <1>5 DEF CallInv, FindMaximum
<1>6. CASE PayRoute
  BY <1>6, PayStep
<1>7. CASE PayFails
  <2>1. CallGoesOn
    BY <1>0, <1>7 DEF CallInv, PayFails
  <2> QED BY <2>1, CallGoesOnSafe
<1>8. CASE PayAnswers
  <2>1. call.phase = "flight" /\ UNCHANGED payments
    BY <1>8 DEF PayAnswers
  <2>2. Last.state = "settled" => Settled # {}
    BY <2>1 DEF Last, Settled, PayInv, PaymentsInv, CallInv
  <2>3. CallGoesOn
    BY <1>0, <1>8, <2>1, <2>2 DEF CallInv, PayAnswers
  <2> QED BY <2>3, CallGoesOnSafe
<1> QED BY <1>1, <1>2, <1>3, <1>4, <1>5, <1>6, <1>7, <1>8 DEF CallStep

\* A payment over several paths
LEMMA PartsStep ==
  ASSUME PayInv, PayParts PROVE PayInv'
<1> USE DEF PayInv
<1>1. stage = "parts" /\ payments = <<>> /\ outcome = "none" /\ UNCHANGED <<order, send, expired>>
  BY DEF PayParts, PaymentsInv, ToldInv, SendInv, PaymentTypes, Outcomes
<1>2. CASE stage' = "ended" /\ outcome' = "error" /\ UNCHANGED <<call, payments>>
  <2>1. PaymentsInv' /\ SendInv'
    BY <1>1, <1>2 DEF PaymentsInv, SendInv, PaymentTypes, Stages, Outcomes, MayPay, AsOrdered
  <2>2. CallInv' /\ ToldInv'
    BY <1>1, <1>2 DEF CallInv, ToldInv, ToldAsPaid, Before, IsCall
  <2> QED BY <2>1, <2>2
<1>3. CASE stage' = "call" /\ UNCHANGED outcome
  <2>1. PICK fee \in Fees, parts \in Parts, c \in Used :
          /\ fee <= send.limit
          /\ SentBy([parts EXCEPT ![c] = @ + fee], send.amount, fee, Anyone)
    BY <1>1, <1>3 DEF PayParts, End
  <2> DEFINE s == [parts |-> [parts EXCEPT ![c] = @ + fee], amount |-> send.amount, fee |-> fee,
                   into |-> Anyone, state |-> "flight"]
  <2>2. payments' = <<s>>
    BY <1>1, <2>1 DEF SentBy
  <2>3. call' = [call EXCEPT !.phase = "flight"]
    BY <1>1, <1>3 DEF PayParts, End
  <2>4. /\ MayPay /\ order.amount \in Nat /\ order.limit \in Nat /\ send.amount = order.amount
        /\ send.limit \in Nat /\ send.limit <= order.limit
        /\ order.rated => 2 * send.limit <= order.amount
        /\ send.found \in [Channels -> Nat] /\ fee \in Nat
        /\ \A d \in Channels : send.found[d] > 0 => Partner[d] \notin order.avoid
    BY <1>1, ProbingAssumption, OrdersAssumption DEF SendInv, PaymentTypes, MayPay
  <2>5. /\ parts \in [Channels -> Int] /\ c \in Channels /\ send.found[c] > 0
        /\ \A d \in Channels : parts[d] <= send.found[d]
    BY ProbingAssumption DEF Parts, Used
  <2>6. s \in AsOrdered
    <3>1. s.parts \in [Channels -> Int]
      BY <2>4, <2>5
    <3>2. \A d \in Channels : s.parts[d] > 0 => Partner[d] \notin order.avoid
      BY <2>4, <2>5
    <3>3. order.rated => 2 * fee <= order.amount
      BY <2>1, <2>4
    <3>4. fee <= order.limit
      BY <2>1, <2>4
    <3> DEFINE p == s.parts
    <3>5. /\ s = [parts |-> p, amount |-> send.amount, fee |-> fee, into |-> Anyone,
                 state |-> "flight"]
          /\ p \in [Channels -> Int] /\ \A d \in Channels : p[d] > 0 => Partner[d] \notin order.avoid
      BY <3>1, <3>2
    <3> HIDE DEF s, p
    <3> QED BY <2>4, <3>3, <3>4, <3>5 DEF AsOrdered
  <2>7. PaymentsInv'
    <3> HIDE DEF s
    <3>1. AsOrdered' = AsOrdered
      BY <1>1 DEF AsOrdered
    <3> QED BY <1>1, <1>3, <2>2, <2>4, <2>6, <3>1 DEF PaymentsInv, MayPay
  <2>8. SendInv'
    BY <1>1, <1>3 DEF SendInv, PaymentTypes, Stages
  <2>9. CallInv'
    BY <1>1, <1>3, <2>2, <2>3, <2>4 DEF CallInv, IsCall, Before, MayPay
  <2>10. ToldInv'
    BY <1>1, <1>3, <2>3 DEF ToldInv, ToldAsPaid, CallInv, IsCall
  <2> QED BY <2>7, <2>8, <2>9, <2>10
<1> QED BY <1>2, <1>3 DEF PayParts, End

\* The network changes the state of payments that are in flight, and balances
LEMMA NetworkSafe ==
  ASSUME PayInv, NetworkStep, UNCHANGED paying PROVE PayInv'
<1> USE DEF PayInv, paying
<1>1. UNCHANGED call
  BY DEF NetworkStep, PaymentSettles, PaymentFails, OtherTraffic
<1>2. SendInv'
  BY DEF SendInv, PaymentTypes
<1>3. AsOrdered' = AsOrdered
  BY DEF AsOrdered
<1>4. CASE UNCHANGED payments
  BY <1>1, <1>2, <1>3, <1>4
     DEF PaymentsInv, CallInv, CallArgs, Before, IsCall, ToldInv, ToldAsPaid, Settled, MayPay
<1>5. ASSUME NEW i \in DOMAIN payments, NEW t \in {"settled", "failed"},
             payments[i].state = "flight", payments' = [payments EXCEPT ![i].state = t]
      PROVE  PayInv'
  <2>1. payments \in Seq(AsOrdered) /\ payments # <<>>
    BY <1>5 DEF PaymentsInv
  <2>2. [payments[i] EXCEPT !.state = t] \in AsOrdered
    <3> DEFINE s == payments[i]
               u == [s EXCEPT !.state = t]
    <3>1. s \in AsOrdered
      BY <2>1
    <3> HIDE DEF s
    <3>2. /\ u \in [parts : [Channels -> Int], amount : Int, fee : Int,
                    into : Channels \cup {Anyone}, state : {"flight", "settled", "failed"}]
          /\ u.parts = s.parts /\ u.amount = s.amount /\ u.fee = s.fee
      BY <3>1 DEF AsOrdered
    <3> HIDE DEF u
    <3>3. u \in AsOrdered
      BY <3>1, <3>2 DEF AsOrdered
    <3> QED BY <3>3 DEF s, u
  <2>3. payments' \in Seq(AsOrdered) /\ Len(payments') = Len(payments) /\ payments' # <<>>
    BY <2>1, <2>2, <1>5
  <2>4. PaymentsInv'
    BY <1>3, <1>5, <2>1, <2>3 DEF PaymentsInv, MayPay
  <2>5. CallInv'
    BY <1>1, <2>1, <2>3 DEF CallInv, Before, IsCall, MayPay
  <2>6. Settled # {} => Settled' # {}
    BY <1>5, <2>1 DEF Settled
  <2>7. ToldInv'
    BY <1>1, <2>1, <2>6 DEF ToldInv, ToldAsPaid
  <2> QED BY <1>2, <2>4, <2>5, <2>7
<1> QED BY <1>4, <1>5 DEF NetworkStep, PaymentSettles, PaymentFails, OtherTraffic

LEMMA PayInvStep ==
  ASSUME PayInv, [PaymentsNext]_payVars PROVE PayInv'
<1>1. CASE CommandStep
  BY <1>1, QuietStep, CallerStep, PartsStep DEF CommandStep
<1>2. CASE RequestExpires
  BY <1>2, QuietStep
<1>3. CASE CallStep /\ UNCHANGED paying
  BY <1>3, CallStepSafe
<1>4. CASE NetworkStep /\ UNCHANGED paying
  BY <1>4, NetworkSafe
<1>5. CASE UNCHANGED payVars
  BY <1>5 DEF payVars, PayInv, PaymentsInv, AsOrdered, MayPay, SendInv, PaymentTypes, CallInv,
              CallArgs, Before, IsCall, ToldInv, ToldAsPaid, Settled
<1> QED BY <1>1, <1>2, <1>3, <1>4, <1>5 DEF PaymentsNext

\* What the invariant means for the user
LEMMA PayInvMeans == ASSUME PayInv PROVE PaidAsOrdered
BY DEF PayInv, PaymentsInv, ToldInv, PaidAsOrdered, SentAsOrdered, AsOrdered, MayPay

-----------------------------------------------------------------------------
(* Rebalances                                                              *)

IsPayment(s) ==
  s = [parts |-> s.parts, amount |-> s.amount, fee |-> s.fee, into |-> s.into,
       state |-> s.state]

\* A payment as the user planned it, whichever try made it
Planned(s) ==
  /\ IsPayment(s) /\ FeeOk(s.amount, s.fee)
  /\ MayUse(Partner[s.into], plan.in)
  /\ \A c \in Channels : s.parts[c] > 0 =>
       Partner[c] # Partner[s.into] /\ MayUse(Partner[c], plan.out)

TriesInv ==
  /\ \E S : payments \in Seq(S)
  /\ \A i \in DOMAIN payments : Planned(payments[i])

\* The peers of this try may be used
ChosenInv ==
  step \in {"call", "route"} =>
    /\ outPeer \in Peers /\ inPeer # outPeer
    /\ MayUse(inPeer, plan.in) /\ MayUse(outPeer, plan.out)

\* The call of a try pays nothing, and finds a route out by the peer that was chosen
ProbeInv ==
  /\ IsCall
  /\ call.phase \in {"idle", "reading", "probing", "finding", "returned"}
  /\ call.phase \in {"reading", "probing", "finding"} => step = "call"
  /\ step \in {"call", "route"} =>
       /\ ~call.args.real /\ call.args.out = outPeer
       /\ \A c \in call.via : c \in Channels /\ Partner[c] = outPeer

RebalanceInv == TriesInv /\ ChosenInv /\ ProbeInv

-----------------------------------------------------------------------------

LEMMA RebalanceStarts == ASSUME RebalanceInit PROVE RebalanceInv
<1>1. TriesInv
  BY DEF RebalanceInit, ProbingInit, TriesInv
<1>2. ChosenInv /\ ProbeInv
  BY DEF RebalanceInit, ProbingInit, ChosenInv, ProbeInv, Called, IsCall
<1> QED BY <1>1, <1>2 DEF RebalanceInv

\* A step that leaves the payments and the plan alone keeps what holds of the payments
LEMMA SameTries ==
  ASSUME TriesInv, UNCHANGED <<payments, plan>> PROVE TriesInv'
BY DEF TriesInv, Planned, FeeOk, MayUse, IsPayment

\* A payment of this try
LEMMA NewPayment ==
  ASSUME TriesInv, ChosenInv, ProbeInv, step = "route", UNCHANGED plan,
         NEW c \in call.via, NEW d \in Channels, Partner[d] = inPeer,
         NEW fee, FeeOk(invoiced, fee), Sent(c, invoiced, fee, d)
  PROVE  TriesInv'
<1> DEFINE parts == [b \in Channels |-> IF b = c THEN invoiced + fee ELSE 0]
           s == [parts |-> parts, amount |-> invoiced, fee |-> fee, into |-> d,
                 state |-> "flight"]
<1>1. payments' = Append(payments, s)
  BY DEF Sent, SentBy
<1>2. Planned(s)
  <2>1. \A b \in Channels : parts[b] > 0 => b = c
    OBVIOUS
  <2>2. Partner[c] = outPeer /\ inPeer # outPeer /\ MayUse(inPeer, plan.in) /\ MayUse(outPeer, plan.out)
    BY DEF ProbeInv, ChosenInv
  <2> HIDE DEF parts
  <2> QED BY <2>1, <2>2 DEF Planned, IsPayment
<1> HIDE DEF s
<1>3. PICK S : payments \in Seq(S)
  BY DEF TriesInv
<1>4. /\ payments' \in Seq(S \cup {s})
      /\ \A i \in DOMAIN payments' : payments'[i] = s \/ (i \in DOMAIN payments /\ payments'[i] = payments[i])
  <2>1. payments \in Seq(S \cup {s})
    BY <1>3
  <2> QED BY <1>1, <2>1
<1>5. \A i \in DOMAIN payments' : Planned(payments'[i])
  BY <1>2, <1>4 DEF TriesInv
<1> QED BY <1>4, <1>5 DEF TriesInv, Planned, FeeOk, MayUse, IsPayment

\* Every try starts from nothing
LEMMA AgainSafe == ASSUME RebalanceInv, Again PROVE RebalanceInv'
<1>1. TriesInv'
  BY SameTries DEF RebalanceInv, Again, Forget
<1>2. ChosenInv' /\ ProbeInv'
  BY DEF Again, Forget, ChosenInv, ProbeInv, Called, IsCall
<1> QED BY <1>1, <1>2 DEF RebalanceInv

\* One step per action of a try
LEMMA TryStep == ASSUME RebalanceInv, RebalanceStep PROVE RebalanceInv'
<1> USE DEF RebalanceInv
<1>1. ASSUME UNCHANGED <<plan, payments, call>>, step # "call" \/ call.phase = "returned",
             step' \notin {"call", "route"}
      PROVE  RebalanceInv'
  BY <1>1, SameTries DEF ChosenInv, ProbeInv, IsCall
<1>2. CASE ReadAll
  <2>1. CASE Again
    BY <2>1, AgainSafe
  <2>2. CASE UNCHANGED <<plan, payments, call>> /\ step' \notin {"call", "route"}
    BY <1>1, <1>2, <2>2 DEF ReadAll
  <2> QED BY <1>2, <2>1, <2>2 DEF ReadAll, After, probing
<1>3. CASE ChoosePeers
  <2>1. step = "peers"
    BY <1>3 DEF ChoosePeers
  <2>2. CASE Again
    BY <2>2, AgainSafe
  <2>3. CASE UNCHANGED <<plan, payments, call>> /\ step' \notin {"call", "route"}
    BY <1>1, <2>1, <2>3
  <2>4. ASSUME NEW out \in Peers, NEW in \in Peers, NEW args,
               MaySendBy(out), MayReceiveBy(in, out), outPeer' = out, inPeer' = in, in # out,
               UNCHANGED <<plan, payments>>, step' = "call", call' = Called(args),
               ~args.real, args.out = out
        PROVE  RebalanceInv'
    <3>1. MayUse(out, plan.out)
      BY <2>4 DEF MaySendBy, MayUse, Needing
    <3>2. MayUse(in, plan.in)
      BY <2>4 DEF MayReceiveBy, MayUse, UpperHalf, Cheap, Inbounds
    <3>3. ChosenInv'
      BY <2>4, <3>1, <3>2 DEF ChosenInv, MayUse
    <3>4. ProbeInv'
      BY <2>4 DEF ProbeInv, Called, IsCall
    <3> QED BY <2>4, <3>3, <3>4, SameTries
  <2>5. CASE \E out \in Peers, in \in Peers :
          /\ MaySendBy(out) /\ MayReceiveBy(in, out)
          /\ outPeer' = out /\ inPeer' = in /\ target' = Missing(out, in)
          /\ IF Missing(out, in) = 0 \/ in = out \/ (plan.strict /\ plan.maxRate = 0)
             THEN After("failed") /\ UNCHANGED call
             ELSE /\ After("call")
                  /\ call' = Called([NoArgs EXCEPT
                       !.amount = probe, !.find = Missing(out, in), !.limited = plan.strict,
                       !.limit = (plan.maxRate * probe) \div RateBase, !.strict = plan.strict,
                       !.out = out])
          /\ UNCHANGED <<seen, probe, invoiced, local, moved, payments>>
    <3>1. PICK out \in Peers, in \in Peers :
            /\ MaySendBy(out) /\ MayReceiveBy(in, out) /\ outPeer' = out /\ inPeer' = in
            /\ IF Missing(out, in) = 0 \/ in = out \/ (plan.strict /\ plan.maxRate = 0)
               THEN After("failed") /\ UNCHANGED call
               ELSE /\ After("call")
                    /\ call' = Called([NoArgs EXCEPT
                         !.amount = probe, !.find = Missing(out, in), !.limited = plan.strict,
                         !.limit = (plan.maxRate * probe) \div RateBase, !.strict = plan.strict,
                         !.out = out])
            /\ UNCHANGED payments
      BY <2>5
    <3>2. CASE After("failed") /\ UNCHANGED call
      BY <2>3, <3>1, <3>2 DEF After
    <3>3. CASE ~(Missing(out, in) = 0 \/ in = out \/ (plan.strict /\ plan.maxRate = 0))
      <4> DEFINE args == [NoArgs EXCEPT
                    !.amount = probe, !.find = Missing(out, in), !.limited = plan.strict,
                    !.limit = (plan.maxRate * probe) \div RateBase, !.strict = plan.strict,
                    !.out = out]
      <4>1. args.real = FALSE /\ args.out = out
        BY DEF NoArgs
      <4>2. call' = Called(args) /\ After("call")
        BY <3>1, <3>3
      <4> HIDE DEF args
      <4> QED BY <2>4, <3>1, <3>3, <4>1, <4>2 DEF After
    <3> QED BY <3>1, <3>2, <3>3
  <2> QED BY <1>3, <2>2, <2>3, <2>5 DEF ChoosePeers, After
<1>4. CASE Invoice
  <2>1. step = "call" /\ call.phase = "returned"
    BY <1>4 DEF Invoice
  <2>2. CASE Again
    BY <2>2, AgainSafe
  <2>3. CASE step' = "failed" /\ UNCHANGED <<plan, payments, call>>
    BY <1>1, <2>1, <2>3
  <2>4. CASE step' = "route" /\ UNCHANGED <<plan, payments, call, outPeer, inPeer>>
    BY <2>1, <2>4, SameTries DEF ChosenInv, ProbeInv, IsCall, MayUse
  <2> QED BY <1>4, <2>2, <2>3, <2>4 DEF Invoice, After, probing
<1>5. CASE PayRebalance
  <2>1. step = "route"
    BY <1>5 DEF PayRebalance
  <2>2. CASE Again
    BY <2>2, AgainSafe
  <2>3. ASSUME NEW fee \in Fees, UNCHANGED call,
               IF CheckedFee(invoiced, fee)
               THEN /\ \E c \in call.via, d \in {b \in Channels : Partner[b] = inPeer} :
                         Sent(c, invoiced, fee, d)
                    /\ After("flight")
               ELSE After("failed") /\ UNCHANGED <<local, payments>>
        PROVE  RebalanceInv'
    <3>1. CASE CheckedFee(invoiced, fee)
      <4>1. PICK c \in call.via, d \in Channels :
              Partner[d] = inPeer /\ Sent(c, invoiced, fee, d)
        BY <2>3, <3>1
      <4>2. UNCHANGED plan /\ step' = "flight"
        BY <2>3, <3>1 DEF After
      <4>3. TriesInv'
        BY <2>1, <3>1, <4>1, <4>2, NewPayment DEF CheckedFee
      <4>4. ChosenInv' /\ ProbeInv'
        BY <2>1, <2>3, <4>2 DEF ChosenInv, ProbeInv, IsCall
      <4> QED BY <4>3, <4>4
    <3>2. CASE ~CheckedFee(invoiced, fee)
      BY <1>1, <2>1, <2>3, <3>2 DEF After
    <3> QED BY <3>1, <3>2
  <2> QED BY <1>5, <2>2, <2>3 DEF PayRebalance
<1>6. CASE PayReturns \/ ReadAdjusted
  <2>1. CASE Again
    BY <2>1, AgainSafe
  <2>2. CASE ~Again
    BY <1>1, <1>6, <2>2 DEF PayReturns, ReadAdjusted, After, probing
  <2> QED BY <2>1, <2>2
<1> QED BY <1>2, <1>3, <1>4, <1>5, <1>6 DEF RebalanceStep

\* The call looks for a route and its maximum, and returns
LEMMA ProbeStep ==
  ASSUME RebalanceInv, CallStep, UNCHANGED rebalancing PROVE RebalanceInv'
<1> USE DEF RebalanceInv, rebalancing
<1>1. ASSUME UNCHANGED payments, IsCall', call'.args = call.args, call.phase # "idle",
             step = "call",
             call'.phase \in {"probing", "finding", "returned"},
             \A c \in call'.via : c \in Channels /\ Partner[c] = outPeer
      PROVE  RebalanceInv'
  BY <1>1, SameTries DEF ChosenInv, ProbeInv, MayUse
<1>2. /\ IsCall /\ call.phase \in {"idle", "reading", "probing", "finding", "returned"}
      /\ call.phase \in {"reading", "probing", "finding"} =>
           /\ step = "call" /\ ~call.args.real /\ call.args.out = outPeer /\ outPeer # Anyone
           /\ \A c \in call.via : c \in Channels /\ Partner[c] = outPeer
  BY NodeAssumption DEF ProbeInv, ChosenInv
<1> USE DEF IsCall, Returned
<1>3. CASE Prepare
  <2>1. call.phase = "reading" /\ UNCHANGED payments
    BY <1>3 DEF Prepare
  <2>2. CASE call' = Returned(call, "crashed") \/ call' = Returned(call, "client")
    BY <1>1, <1>2, <2>1, <2>2
  <2>3. ASSUME NEW c \in Channels, Partner[c] = outPeer,
               call' = [call EXCEPT !.phase = "probing", !.via = {c}, !.most = local[c] - Kept]
        PROVE  RebalanceInv'
    <3>1. IsCall' /\ call'.args = call.args /\ call'.phase = "probing" /\ call'.via = {c}
      BY <1>2, <2>3
    <3> QED BY <1>1, <1>2, <2>1, <2>3, <3>1
  <2> QED BY <1>2, <1>3, <2>1, <2>2, <2>3 DEF Prepare, ChooseOut, WithBalance
<1>4. CASE ReadFails
  BY <1>1, <1>2, <1>4 DEF ReadFails
<1>5. CASE RouteFound
  <2>1. PICK c \in call.via, fee \in Fees : call' = [Found(fee) EXCEPT !.via = {c}]
    BY <1>5 DEF RouteFound
  <2>2. call.phase = "probing" /\ UNCHANGED payments
    BY <1>5 DEF RouteFound
  <2>3. Found(fee) \in {Returned(call, "client"), [[call EXCEPT !.fee = fee] EXCEPT !.phase = "finding"],
                        Returned([call EXCEPT !.fee = fee], "probed")}
    BY <1>2, <2>2 DEF Found
  <2>4. /\ IsCall' /\ call'.args = call.args /\ call'.via = {c}
        /\ call'.phase \in {"finding", "returned"}
    <3>1. CASE Found(fee) = Returned(call, "client")
      BY <1>2, <2>1, <3>1
    <3>2. CASE Found(fee) = [[call EXCEPT !.fee = fee] EXCEPT !.phase = "finding"]
      BY <1>2, <2>1, <3>2
    <3>3. CASE Found(fee) = Returned([call EXCEPT !.fee = fee], "probed")
      BY <1>2, <2>1, <3>3
    <3> QED BY <2>3, <3>1, <3>2, <3>3
  <2> QED BY <1>1, <1>2, <2>2, <2>4
<1>6. CASE ProbeEnds
  BY <1>1, <1>2, <1>6 DEF ProbeEnds
<1>7. CASE FindMaximum
  <2>1. call.phase = "finding" /\ UNCHANGED payments
    BY <1>7 DEF FindMaximum
  <2>2. \/ call' \in {Returned(call, "crashed"), Returned(call, "server")}
        \/ \E m : call' = [Returned(call, "probed") EXCEPT !.maximum = m]
    BY <1>7 DEF FindMaximum
  <2>3. IsCall' /\ call'.args = call.args /\ call'.via = call.via /\ call'.phase = "returned"
    BY <1>2, <2>2
  <2> QED BY <1>1, <1>2, <2>1, <2>3
<1>8. CASE PayRoute \/ PayFails \/ PayAnswers
  BY <1>2, <1>8 DEF PayRoute, PayFails, PayAnswers
<1> QED BY <1>3, <1>4, <1>5, <1>6, <1>7, <1>8 DEF CallStep

\* The network changes the state of payments, and balances
LEMMA RebalanceNetwork ==
  ASSUME RebalanceInv, NetworkStep, UNCHANGED rebalancing PROVE RebalanceInv'
<1> USE DEF RebalanceInv, rebalancing
<1>1. UNCHANGED call
  BY DEF NetworkStep, PaymentSettles, PaymentFails, OtherTraffic
<1>2. ChosenInv' /\ ProbeInv'
  BY <1>1 DEF ChosenInv, ProbeInv, MayUse, IsCall
<1>3. CASE UNCHANGED payments
  BY <1>2, <1>3, SameTries
<1>4. ASSUME NEW i \in DOMAIN payments, NEW t \in {"settled", "failed"},
             payments' = [payments EXCEPT ![i].state = t]
      PROVE  RebalanceInv'
  <2>1. PICK S : payments \in Seq(S)
    BY DEF TriesInv
  <2> DEFINE u == [payments[i] EXCEPT !.state = t]
  <2>2. /\ IsPayment(u) /\ u.parts = payments[i].parts /\ u.amount = payments[i].amount
        /\ u.fee = payments[i].fee /\ u.into = payments[i].into
    <3>1. IsPayment(payments[i])
      BY DEF TriesInv, Planned
    <3> DEFINE s == payments[i]
    <3>2. IsPayment(s)
      BY <3>1
    <3> HIDE DEF s
    <3>3. LET v == [s EXCEPT !.state = t] IN
            /\ IsPayment(v) /\ v.parts = s.parts /\ v.amount = s.amount
            /\ v.fee = s.fee /\ v.into = s.into
      BY <3>2 DEF IsPayment
    <3> QED BY <3>3 DEF s
  <2>3. Planned(payments[i]) => Planned(u)
    <3> HIDE DEF u
    <3> QED BY <2>2 DEF Planned
  <2> HIDE DEF u
  <2>4. payments' = [payments EXCEPT ![i] = u]
    BY <1>4 DEF u
  <2>5. payments' \in Seq(S \cup {u}) /\ DOMAIN payments' = DOMAIN payments
    BY <2>1, <2>4
  <2>6. \A j \in DOMAIN payments' : Planned(payments'[j])
    BY <2>3, <2>4, <2>5 DEF TriesInv
  <2>7. TriesInv'
    BY <2>5, <2>6 DEF TriesInv, Planned, FeeOk, MayUse, IsPayment
  <2> QED BY <1>2, <2>7
<1> QED BY <1>3, <1>4 DEF NetworkStep, PaymentSettles, PaymentFails, OtherTraffic

LEMMA RebalanceInvStep ==
  ASSUME RebalanceInv, [RebalanceNext]_rebalanceVars PROVE RebalanceInv'
<1>1. CASE UNCHANGED rebalanceVars
  BY <1>1, SameTries DEF rebalanceVars, RebalanceInv, ChosenInv, ProbeInv, IsCall, MayUse
<1> QED BY <1>1, TryStep, ProbeStep, RebalanceNetwork DEF RebalanceNext

\* What the invariant means for the user
LEMMA RebalanceInvMeans == ASSUME RebalanceInv PROVE RebalancedAsPlanned
BY DEF RebalanceInv, TriesInv, Planned, RebalancedAsPlanned
-----------------------------------------------------------------------------
(* The types of what is sent                                               *)

Payment ==
  [parts : [Channels -> Nat], amount : Nat, fee : Nat, into : Channels \cup {Anyone},
   state : {"flight", "settled", "failed"}]

CallTyped ==
  /\ IsCall /\ CallTypes /\ call.via \subseteq Channels
  /\ call.args.amount \in Nat /\ call.args.find \in Nat

ProbingTyped ==
  /\ local \in [Channels -> 0 .. Capacity] /\ moved \in BOOLEAN
  /\ payments \in Seq(Payment) /\ CallTyped

LEMMA ProbingTypesStart == ASSUME ProbingInit PROVE ProbingTyped
<1> USE ProbingAssumption DEF ProbingInit
<1>1. local \in [Channels -> 0 .. Capacity] /\ moved \in BOOLEAN
  OBVIOUS
<1>2. payments \in Seq(Payment)
  OBVIOUS
<1>3. CallTyped
  BY DEF Called, NoArgs, CallTyped, IsCall, CallTypes, Phases, Answers
<1> QED BY <1>1, <1>2, <1>3 DEF ProbingTyped

LEMMA ProbingTypesMean == ASSUME ProbingTyped PROVE ProbingTypes
<1>1. \A i \in DOMAIN payments : payments[i] \in Payment
  BY DEF ProbingTyped
<1> QED BY <1>1 DEF ProbingTyped, CallTyped, ProbingTypes, Payment

\* A new call, and one that returns
LEMMA CalledTyped ==
  ASSUME NEW args, args.amount \in Nat, args.find \in Nat, call' = Called(args)
  PROVE  CallTyped'
<1>1. call' = [phase |-> "reading", answer |-> "none", args |-> args, via |-> {},
               most |-> 0, fee |-> 0, maximum |-> 0]
  BY DEF Called
<1>2. IsCall'
  BY <1>1 DEF IsCall
<1>3. CallTypes'
  BY <1>1 DEF CallTypes, Phases, Answers
<1> QED BY <1>1, <1>2, <1>3 DEF CallTyped

LEMMA ReturnedTyped ==
  ASSUME CallTyped, NEW a \in Answers, call' = Returned(call, a) PROVE CallTyped'
<1>1. call' = [phase |-> "returned", answer |-> a, args |-> call.args, via |-> call.via,
               most |-> call.most, fee |-> call.fee, maximum |-> call.maximum]
  BY DEF CallTyped, IsCall, Returned
<1>2. IsCall'
  BY <1>1 DEF IsCall
<1>3. CallTypes'
  BY <1>1 DEF CallTyped, CallTypes, Phases
<1> QED BY <1>1, <1>2, <1>3 DEF CallTyped

\* A payment leaves the balances, and the list of payments, as they should be
LEMMA SentTyped ==
  ASSUME ProbingTyped, NEW parts \in [Channels -> Nat], NEW amount \in Nat, NEW fee \in Nat,
         NEW into \in Channels \cup {Anyone}, SentBy(parts, amount, fee, into)
  PROVE  local' \in [Channels -> 0 .. Capacity] /\ payments' \in Seq(Payment)
<1> USE ProbingAssumption DEF ProbingTyped, SentBy
<1>1. ASSUME NEW c \in Channels PROVE local[c] - parts[c] \in 0 .. Capacity
  <2>1. local[c] \in 0 .. Capacity /\ parts[c] \in Nat /\ parts[c] <= local[c]
    OBVIOUS
  <2> QED BY <2>1
<1>2. local' \in [Channels -> 0 .. Capacity]
  BY <1>1
<1>3. [parts |-> parts, amount |-> amount, fee |-> fee, into |-> into, state |-> "flight"]
        \in Payment
  BY DEF Payment
<1> QED BY <1>2, <1>3

LEMMA CallTypesStep ==
  ASSUME ProbingTyped, CallStep PROVE ProbingTyped'
<1> USE ProbingAssumption DEF ProbingTyped
<1>0. /\ IsCall /\ call.via \subseteq Channels /\ call.args.amount \in Nat
      /\ call.args.find \in Nat /\ call.most \in Nat /\ call.fee \in Nat /\ call.maximum \in Nat
      /\ call.phase \in Phases /\ call.answer \in Answers
  BY DEF CallTyped, CallTypes
\* The call goes on, with what it found
<1>1. ASSUME NEW ph \in Phases, NEW an \in Answers, NEW via \in SUBSET Channels,
             NEW most \in Nat, NEW fee \in Nat, NEW maximum \in Nat,
             call' = [phase |-> ph, answer |-> an, args |-> call.args, via |-> via,
                      most |-> most, fee |-> fee, maximum |-> maximum]
      PROVE  CallTyped'
  <2>1. IsCall'
    BY <1>1 DEF IsCall
  <2>2. CallTypes'
    BY <1>1 DEF CallTypes
  <2> QED BY <1>0, <1>1, <2>1, <2>2 DEF CallTyped
<1>2. CASE Prepare
  <2>1. UNCHANGED <<local, moved, payments>>
    BY <1>2 DEF Prepare
  <2>2. CASE call' = Returned(call, "crashed") \/ call' = Returned(call, "client")
    BY <2>1, <2>2, ReturnedTyped DEF Answers
  <2>3. CASE call' = [call EXCEPT !.phase = "probing", !.via = Channels]
    <3>1. call' = [phase |-> "probing", answer |-> call.answer, args |-> call.args,
                   via |-> Channels, most |-> call.most, fee |-> call.fee,
                   maximum |-> call.maximum]
      BY <1>0, <2>3 DEF IsCall
    <3>2. CallTyped'
      BY <1>0, <1>1, <3>1 DEF Phases
    <3> QED BY <2>1, <3>2
  <2>4. ASSUME NEW c \in WithBalance(call.args),
               call' = [call EXCEPT !.phase = "probing", !.via = {c}, !.most = local[c] - Kept]
        PROVE  ProbingTyped'
    <3>1. c \in Channels /\ local[c] > call.args.amount + Kept
      BY DEF WithBalance
    <3>2. local[c] \in Nat
      BY <3>1
    <3>3. local[c] - Kept \in Nat
      BY <1>0, <3>1, <3>2
    <3>4. call' = [phase |-> "probing", answer |-> call.answer, args |-> call.args,
                   via |-> {c}, most |-> local[c] - Kept, fee |-> call.fee,
                   maximum |-> call.maximum]
      BY <1>0, <2>4 DEF IsCall
    <3>5. CallTyped'
      BY <1>0, <1>1, <3>1, <3>3, <3>4 DEF Phases
    <3> QED BY <2>1, <3>5
  <2> QED BY <1>2, <2>2, <2>3, <2>4 DEF Prepare, ChooseOut
<1>3. CASE ReadFails \/ ProbeEnds
  BY <1>3, ReturnedTyped DEF ReadFails, ProbeEnds, Answers
<1>4. CASE RouteFound
  <2>1. PICK c \in call.via, fee \in Fees : call' = [Found(fee) EXCEPT !.via = {c}]
    BY <1>4 DEF RouteFound
  <2>2. UNCHANGED <<local, moved, payments>>
    BY <1>4 DEF RouteFound
  <2>3. fee \in Nat /\ c \in Channels
    BY <1>0
  <2>4. PICK ph \in Phases, an \in Answers, f \in {fee, call.fee} :
          Found(fee) = [phase |-> ph, answer |-> an, args |-> call.args, via |-> call.via,
                        most |-> call.most, fee |-> f, maximum |-> call.maximum]
    <3>1. CASE Found(fee) = Returned(call, "client")
      <4>1. Found(fee) = [phase |-> "returned", answer |-> "client", args |-> call.args,
                          via |-> call.via, most |-> call.most, fee |-> call.fee,
                          maximum |-> call.maximum]
        BY <1>0, <3>1 DEF IsCall, Returned
      <4> QED BY <4>1 DEF Phases, Answers
    <3>2. CASE \E ph \in {"finding", "paying"} :
                 Found(fee) = [[call EXCEPT !.fee = fee] EXCEPT !.phase = ph]
      <4>1. PICK ph \in {"finding", "paying"} :
              Found(fee) = [[call EXCEPT !.fee = fee] EXCEPT !.phase = ph]
        BY <3>2
      <4>2. Found(fee) = [phase |-> ph, answer |-> call.answer, args |-> call.args,
                          via |-> call.via, most |-> call.most, fee |-> fee,
                          maximum |-> call.maximum]
        BY <1>0, <4>1 DEF IsCall
      <4> QED BY <1>0, <4>2 DEF Phases
    <3>3. CASE Found(fee) = Returned([call EXCEPT !.fee = fee], "probed")
      <4>1. Found(fee) = [phase |-> "returned", answer |-> "probed", args |-> call.args,
                          via |-> call.via, most |-> call.most, fee |-> fee,
                          maximum |-> call.maximum]
        BY <1>0, <3>3 DEF IsCall, Returned
      <4> QED BY <4>1 DEF Phases, Answers
    <3> QED BY <3>1, <3>2, <3>3 DEF Found
  <2>5. call' = [phase |-> ph, answer |-> an, args |-> call.args, via |-> {c},
                 most |-> call.most, fee |-> f, maximum |-> call.maximum]
    <3> DEFINE r == Found(fee)
    <3>1. call' = [r EXCEPT !.via = {c}]
      BY <2>1
    <3>2. r = [phase |-> ph, answer |-> an, args |-> call.args, via |-> call.via,
               most |-> call.most, fee |-> f, maximum |-> call.maximum]
      BY <2>4
    <3> HIDE DEF r
    <3> QED BY ONLY <3>1, <3>2
  <2>6. CallTyped'
    BY <1>0, <1>1, <2>3, <2>5
  <2> QED BY <2>2, <2>6
<1>5. CASE FindMaximum
  <2>1. UNCHANGED <<local, moved, payments>>
    BY <1>5 DEF FindMaximum
  <2>2. CASE call' = Returned(call, "crashed") \/ call' = Returned(call, "server")
    BY <2>1, <2>2, ReturnedTyped DEF Answers
  <2>3. ASSUME NEW m \in Nat, call' = [Returned(call, "probed") EXCEPT !.maximum = m]
        PROVE  ProbingTyped'
    <3>1. call' = [phase |-> "returned", answer |-> "probed", args |-> call.args,
                   via |-> call.via, most |-> call.most, fee |-> call.fee, maximum |-> m]
      BY <1>0, <2>3 DEF IsCall, Returned
    <3>2. CallTyped'
      BY <1>0, <1>1, <3>1 DEF Phases, Answers
    <3> QED BY <2>1, <3>2
  <2>4. ASSUME NEW m \in 1 .. call.args.find PROVE Maximum(m) \in Nat
    BY <1>0 DEF Maximum, Lower, Higher
  <2>5. Lower(call.args.find, call.args.amount + call.fee) \in Nat
    BY <1>0 DEF Lower
  <2> QED BY <1>5, <2>2, <2>3, <2>4, <2>5 DEF FindMaximum
<1>6. CASE PayRoute
  <2>1. UNCHANGED moved
    BY <1>6 DEF PayRoute
  <2>2. CASE call' = Returned(call, "client") /\ UNCHANGED <<local, payments>>
    BY <2>1, <2>2, ReturnedTyped DEF Answers
  <2>3. ASSUME NEW c \in call.via, Sent(c, call.args.amount, call.fee, Anyone),
               call' = [call EXCEPT !.phase = "flight"]
        PROVE  ProbingTyped'
    <3>1. [d \in Channels |-> IF d = c THEN call.args.amount + call.fee ELSE 0]
            \in [Channels -> Nat]
      BY <1>0
    <3>2. local' \in [Channels -> 0 .. Capacity] /\ payments' \in Seq(Payment)
      BY <1>0, <2>3, <3>1, SentTyped DEF Sent
    <3>3. call' = [phase |-> "flight", answer |-> call.answer, args |-> call.args,
                   via |-> call.via, most |-> call.most, fee |-> call.fee,
                   maximum |-> call.maximum]
      BY <1>0, <2>3 DEF IsCall
    <3>4. CallTyped'
      BY <1>0, <1>1, <3>3 DEF Phases
    <3> QED BY <2>1, <3>2, <3>4
  <2> QED BY <1>6, <2>2, <2>3 DEF PayRoute
<1>7. CASE PayFails \/ PayAnswers
  BY <1>7, ReturnedTyped DEF PayFails, PayAnswers, Answers
<1> QED BY <1>2, <1>3, <1>4, <1>5, <1>6, <1>7 DEF CallStep

LEMMA NetworkTypesStep ==
  ASSUME ProbingTyped, NetworkStep PROVE ProbingTyped'
<1> USE ProbingAssumption DEF ProbingTyped
<1>1. CASE PaymentSettles \/ PaymentFails
  <2>1. UNCHANGED <<moved, call>>
    BY <1>1 DEF PaymentSettles, PaymentFails
  <2>2. CallTyped'
    BY <2>1 DEF CallTyped, IsCall, CallTypes
  <2>3. PICK i \in DOMAIN payments, s \in {"settled", "failed"} :
          /\ payments' = [payments EXCEPT ![i].state = s]
          /\ \/ local' = [c \in Channels |->
                            IF c = payments[i].into
                            THEN Lower(Capacity, local[c] + payments[i].amount) ELSE local[c]]
             \/ local' = [c \in Channels |-> Lower(Capacity, local[c] + payments[i].parts[c])]
    BY <1>1 DEF PaymentSettles, PaymentFails
  <2>4. payments[i] \in Payment
    OBVIOUS
  <2>5. payments' \in Seq(Payment)
    <3>1. [payments[i] EXCEPT !.state = s] \in Payment
      BY <2>4 DEF Payment
    <3>2. payments' = [payments EXCEPT ![i] = [payments[i] EXCEPT !.state = s]]
      BY <2>3
    <3> QED BY <3>1, <3>2
  <2>6. ASSUME NEW c \in Channels, NEW n \in Nat PROVE Lower(Capacity, local[c] + n) \in 0 .. Capacity
    <3>1. local[c] \in 0 .. Capacity
      OBVIOUS
    <3> QED BY <3>1 DEF Lower
  <2>7. payments[i].amount \in Nat /\ \A c \in Channels : payments[i].parts[c] \in Nat
    BY <2>4 DEF Payment
  <2>8. local' \in [Channels -> 0 .. Capacity]
    BY <2>3, <2>6, <2>7
  <2> QED BY <2>1, <2>2, <2>5, <2>8
<1>2. CASE OtherTraffic
  <2>1. UNCHANGED <<call, payments>> /\ moved' \in BOOLEAN
    BY <1>2 DEF OtherTraffic
  <2>2. ASSUME NEW c \in Channels PROVE local[c] \div 2 \in 0 .. Capacity
    <3>1. local[c] \in 0 .. Capacity
      OBVIOUS
    <3> QED BY <3>1
  <2>3. local' \in [Channels -> 0 .. Capacity]
    BY <1>2, <2>2 DEF OtherTraffic
  <2> QED BY <2>1, <2>3 DEF CallTyped, IsCall, CallTypes
<1> QED BY <1>1, <1>2 DEF NetworkStep

\* The commands that pay, and the call that they make
LEMMA CommandTypesStep ==
  ASSUME ProbingTyped, PaymentTypes, CommandStep PROVE ProbingTyped'
<1> USE DEF ProbingTyped
<1>1. CASE UNCHANGED probing
  BY <1>1 DEF probing, CallTyped, IsCall, CallTypes
<1>2. send.amount \in Nat /\ send.limit \in Nat
  BY DEF PaymentTypes
<1>3. ASSUME Kept1, CallTyped' PROVE ProbingTyped'
  BY <1>3 DEF Kept1
<1>4. CASE SinglePath
  <2>1. ASSUME NEW n \in Nat, NEW real, NEW limit, NEW strict, NEW out, NEW known, NEW to,
               NEW avoid,
               call' = Called([NoArgs EXCEPT !.amount = n, !.real = real, !.limited = TRUE,
                 !.limit = limit, !.strict = strict, !.out = out, !.known = known, !.to = to,
                 !.avoid = avoid])
        PROVE  CallTyped'
    <3>1. LET a == [NoArgs EXCEPT !.amount = n, !.real = real, !.limited = TRUE,
                      !.limit = limit, !.strict = strict, !.out = out, !.known = known,
                      !.to = to, !.avoid = avoid]
          IN  a.amount \in Nat /\ a.find \in Nat
      BY DEF NoArgs
    <3> QED BY <2>1, <3>1, CalledTyped
  <2>2. CASE UNCHANGED call
    BY <1>4, <2>2 DEF SinglePath, Kept1, CallTyped, IsCall, CallTypes
  <2> DEFINE n == IF send.amount = 0 THEN 1 ELSE send.amount
  <2>3. n \in Nat
    BY <1>2
  <2>4. CASE call' = Called([NoArgs EXCEPT !.amount = n, !.real = RealPayment(order),
               !.limited = TRUE, !.limit = send.limit, !.strict = order.strict,
               !.out = OutOf(order), !.known = order.known, !.to = order.to,
               !.avoid = Avoided(order)])
    <3>1. Kept1
      BY <1>4 DEF SinglePath
    <3> HIDE DEF n
    <3> QED BY <1>3, <2>1, <2>3, <2>4, <3>1
  <2> QED BY <1>4, <2>2, <2>4 DEF SinglePath
<1>5. CASE TransferProbe
  <2> DEFINE a == [NoArgs EXCEPT !.amount = send.amount, !.out = OutOf(order)]
  <2>1. a.amount \in Nat /\ a.find \in Nat
    BY <1>2 DEF NoArgs
  <2>2. call' = Called(a) /\ Kept1
    BY <1>5 DEF TransferProbe
  <2> HIDE DEF a
  <2> QED BY <1>3, <2>1, <2>2, CalledTyped
<1>6. CASE Transfer
  <2>1. CASE UNCHANGED call
    BY <1>6, <2>1 DEF Transfer, Kept1, CallTyped, IsCall, CallTypes
  <2> DEFINE a == [NoArgs EXCEPT !.amount = send.amount, !.real = TRUE, !.limited = TRUE,
                     !.limit = send.limit, !.out = OutOf(order)]
  <2>2. CASE call' = Called(a)
    <3>1. a.amount \in Nat /\ a.find \in Nat
      BY <1>2 DEF NoArgs
    <3>2. Kept1
      BY <1>6 DEF Transfer
    <3> HIDE DEF a
    <3> QED BY <1>3, <2>2, <3>1, <3>2, CalledTyped
  <2> QED BY <1>6, <2>1, <2>2 DEF Transfer
<1>7. CASE PayParts
  <2>1. CASE UNCHANGED <<call, local, payments>>
    BY <1>1, <1>7, <2>1 DEF PayParts, probing
  <2>2. ASSUME NEW fee \in Fees, NEW parts \in Parts, NEW c \in Used,
               SentBy([parts EXCEPT ![c] = @ + fee], send.amount, fee, Anyone),
               call' = [call EXCEPT !.phase = "flight"]
        PROVE  ProbingTyped'
    <3>1. parts \in [Channels -> 0 .. Capacity] /\ fee \in Nat /\ c \in Channels
      BY ProbingAssumption DEF Parts, Used
    <3>2. parts[c] \in Nat
      BY <3>1, ProbingAssumption
    <3>3. [parts EXCEPT ![c] = @ + fee] \in [Channels -> Nat]
      BY <3>1, <3>2, ProbingAssumption
    <3>4. local' \in [Channels -> 0 .. Capacity] /\ payments' \in Seq(Payment)
      BY <1>2, <2>2, <3>1, <3>3, SentTyped
    <3>5. call' = [phase |-> "flight", answer |-> call.answer, args |-> call.args,
                   via |-> call.via, most |-> call.most, fee |-> call.fee,
                   maximum |-> call.maximum]
      BY <2>2 DEF CallTyped, IsCall
    <3>6. CallTyped'
      BY <3>5 DEF CallTyped, IsCall, CallTypes, Phases
    <3> QED BY <1>7, <3>4, <3>6 DEF PayParts
  <2> QED BY <1>7, <2>1, <2>2 DEF PayParts
<1>8. CASE \/ Validate \/ ValidateSend \/ LnurlRequest \/ Confirm \/ MultiPathProbe
           \/ PathsFound \/ Finish \/ ReadLiquidity
  BY <1>1, <1>8 DEF Validate, ValidateSend, Validated, LnurlRequest, Confirm, MultiPathProbe,
     PathsFound, Finish, ReadLiquidity, Kept1, probing
<1> QED BY <1>4, <1>5, <1>6, <1>7, <1>8 DEF CommandStep

LEMMA PaymentTypesStep ==
  ASSUME ProbingTyped, PaymentTypes, PaymentsNext PROVE ProbingTyped'
<1>1. CASE RequestExpires
  BY <1>1 DEF RequestExpires, Kept1, ProbingTyped, CallTyped, IsCall, CallTypes
<1> QED BY <1>1, CommandTypesStep, CallTypesStep, NetworkTypesStep DEF PaymentsNext
-----------------------------------------------------------------------------
(* The types of a rebalance                                                *)

RebalanceTyped == RebalanceTypes /\ plan \in Plans \cup {NoPlan}

LEMMA RebalanceTypesStart == ASSUME RebalanceInit \/ Unplanned PROVE RebalanceTyped
BY ProbingAssumption, PlansAssumption
DEF RebalanceInit, Unplanned, Fresh, RebalanceTyped, RebalanceTypes, Steps

\* The amount a try is for
LEMMA MissingTyped ==
  ASSUME ProbingTyped, RebalanceTyped, NEW out, NEW in PROVE Missing(out, in) \in Nat
<1> USE ProbingAssumption, PlansAssumption DEF RebalanceTyped, RebalanceTypes
<1>1. plan.maximum \in Nat /\ plan.want \in Nat /\ MaxPayment \in Nat /\ probe \in Nat
  BY DEF NoPlan
<1>2. ASSUME NEW p
      PROVE  Local(local, p) \in Int /\ Remote(local, p) \in Int
  <2> DEFINE cs == {c \in Channels : Partner[c] = p}
  <2>1. IsFiniteSet(cs)
    BY FS_Subset
  <2>2. \A c \in cs : local[c] \in Nat
    BY DEF ProbingTyped
  <2> HIDE DEF cs
  <2>3. SumOver(local, cs) \in Nat /\ Cardinality(cs) \in Nat
    BY <2>1, <2>2, SumIsNat, FS_CardinalityType
  <2>4. Cardinality(cs) * Capacity - SumOver(local, cs) \in Int
    <3>1. \A a, b \in Nat : a * b \in Int
      OBVIOUS
    <3> QED BY <2>3, <3>1
  <2>5. Local(local, p) = SumOver(local, cs)
    BY DEF Local, SumOver, cs
  <2>6. Remote(local, p) = Cardinality(cs) * Capacity - SumOver(local, cs)
    BY DEF Remote, SumOver, cs
  <2> QED BY <2>3, <2>4, <2>5, <2>6
<1>3. ASSUME NEW n \in Int, ~(n + probe > plan.want) PROVE plan.want - n \in Nat
  BY <1>1, <1>3
<1> QED BY <1>1, <1>2, <1>3 DEF Missing

LEMMA SameSent == ASSUME ProbingTyped, UNCHANGED probing PROVE ProbingTyped'
<1>1. local' = local /\ moved' = moved /\ call' = call /\ payments' = payments
  BY DEF probing
<1>2. CallTyped'
  BY <1>1 DEF ProbingTyped, CallTyped, IsCall, CallTypes
<1> QED BY <1>1, <1>2 DEF ProbingTyped

LEMMA AgainTyped ==
  ASSUME ProbingTyped, RebalanceTyped, Again PROVE ProbingTyped' /\ RebalanceTyped'
<1>1. call' = [phase |-> "idle", answer |-> "none", args |-> NoArgs, via |-> {}, most |-> 0,
               fee |-> 0, maximum |-> 0]
  BY DEF Again, Forget, Called
<1>2. CallTyped'
  <2>1. IsCall'
    BY <1>1 DEF IsCall
  <2>2. CallTypes'
    BY <1>1 DEF CallTypes, Phases, Answers
  <2>3. NoArgs.amount = 0 /\ NoArgs.find = 0
    BY DEF NoArgs
  <2>4. call'.via = {} /\ call'.args = NoArgs
    BY <1>1
  <2> QED BY <2>1, <2>2, <2>3, <2>4 DEF CallTyped
<1> USE ProbingAssumption, PlansAssumption DEF Again, Forget
<1>3. try' \in 1 .. Tries /\ step' \in Steps
  BY DEF RebalanceTyped, RebalanceTypes, Steps
<1> QED BY <1>2, <1>3 DEF ProbingTyped, RebalanceTyped, RebalanceTypes

LEMMA TryTypesStep ==
  ASSUME ProbingTyped, RebalanceTyped, RebalanceStep PROVE ProbingTyped' /\ RebalanceTyped'
<1>1. ASSUME UNCHANGED probing PROVE ProbingTyped'
  BY <1>1, SameSent
<1> USE ProbingAssumption, PlansAssumption
<1>2. CASE Again
  BY <1>2, AgainTyped
<1>3. CASE ReadAll /\ ~Again
  <2>1. UNCHANGED probing
    BY <1>3 DEF ReadAll
  <2>2. RebalanceTyped'
    BY <1>3 DEF ReadAll, After, RebalanceTyped, RebalanceTypes, Steps, ProbingTyped
  <2> QED BY <1>1, <2>1, <2>2
<1>4. CASE ChoosePeers /\ ~Again
  <2>1. UNCHANGED <<local, moved, payments, seen, probe, invoiced>>
    BY <1>4 DEF ChoosePeers
  <2>2. CASE After("failed") /\ UNCHANGED <<outPeer, inPeer, target, call>>
    <3>1. RebalanceTyped'
      BY <2>1, <2>2 DEF After, RebalanceTyped, RebalanceTypes, Steps
    <3> QED BY <1>1, <2>1, <2>2, <3>1 DEF probing
  <2>3. ASSUME NEW out \in Peers, NEW in \in Peers,
               outPeer' = out, inPeer' = in, target' = Missing(out, in),
               \/ After("failed") /\ UNCHANGED call
               \/ /\ After("call")
                  /\ call' = Called([NoArgs EXCEPT
                       !.amount = probe, !.find = Missing(out, in), !.limited = plan.strict,
                       !.limit = (plan.maxRate * probe) \div RateBase, !.strict = plan.strict,
                       !.out = out])
        PROVE  ProbingTyped' /\ RebalanceTyped'
    <3>1. RebalanceTyped'
      BY <2>1, <2>3, MissingTyped DEF After, RebalanceTyped, RebalanceTypes, Steps
    <3>2. CASE UNCHANGED call
      BY <1>1, <2>1, <3>1, <3>2 DEF probing
    <3>3. CASE ~UNCHANGED call
      <4> DEFINE m == Missing(out, in)
                 limit == (plan.maxRate * probe) \div RateBase
      <4>1. m \in Nat /\ probe \in Nat
        BY MissingTyped DEF RebalanceTyped, RebalanceTypes
      <4>2. call' = Called([NoArgs EXCEPT !.amount = probe, !.find = m,
              !.limited = plan.strict, !.limit = limit, !.strict = plan.strict, !.out = out])
        BY <2>3, <3>3
      <4> HIDE DEF m, limit
      <4>3. LET a == [NoArgs EXCEPT !.amount = probe, !.find = m, !.limited = plan.strict,
                        !.limit = limit, !.strict = plan.strict, !.out = out]
            IN  a.amount \in Nat /\ a.find \in Nat
        BY <4>1 DEF NoArgs
      <4>4. CallTyped'
        BY <4>2, <4>3, CalledTyped
      <4> QED BY <2>1, <3>1, <4>4 DEF ProbingTyped
    <3> QED BY <3>2, <3>3
  <2> QED BY <1>4, <2>2, <2>3 DEF ChoosePeers
<1>5. CASE Invoice /\ ~Again
  <2>1. UNCHANGED probing
    BY <1>5 DEF Invoice
  <2>2. RebalanceTyped'
    BY <1>5 DEF Invoice, After, RebalanceTyped, RebalanceTypes, Steps, ProbingTyped, CallTyped,
       CallTypes
  <2> QED BY <1>1, <2>1, <2>2
<1>6. CASE PayRebalance /\ ~Again
  <2>1. UNCHANGED <<seen, outPeer, inPeer, probe, target, invoiced, moved, call>>
    BY <1>6 DEF PayRebalance
  <2>2. CASE After("failed") /\ UNCHANGED <<local, payments>>
    <3>1. RebalanceTyped'
      BY <2>1, <2>2 DEF After, RebalanceTyped, RebalanceTypes, Steps
    <3> QED BY <1>1, <2>1, <2>2, <3>1 DEF probing
  <2>3. ASSUME NEW fee \in Fees, NEW c \in call.via, NEW d \in Channels,
               Sent(c, invoiced, fee, d), After("flight")
        PROVE  ProbingTyped' /\ RebalanceTyped'
    <3>1. RebalanceTyped'
      BY <2>1, <2>3 DEF After, RebalanceTyped, RebalanceTypes, Steps
    <3>2. invoiced \in Nat /\ fee \in Nat
      BY DEF RebalanceTyped, RebalanceTypes
    <3>3. [b \in Channels |-> IF b = c THEN invoiced + fee ELSE 0] \in [Channels -> Nat]
      BY <3>2
    <3>4. local' \in [Channels -> 0 .. Capacity] /\ payments' \in Seq(Payment)
      BY <2>3, <3>2, <3>3, SentTyped DEF Sent
    <3> QED BY <2>1, <3>1, <3>4 DEF ProbingTyped, CallTyped, IsCall, CallTypes
  <2> QED BY <1>6, <2>2, <2>3 DEF PayRebalance
<1>7. CASE (PayReturns \/ ReadAdjusted) /\ ~Again
  <2>1. UNCHANGED probing
    BY <1>7 DEF PayReturns, ReadAdjusted
  <2>2. RebalanceTyped'
    BY <1>7 DEF PayReturns, ReadAdjusted, After, RebalanceTyped, RebalanceTypes, Steps
  <2> QED BY <1>1, <2>1, <2>2
<1> QED BY <1>2, <1>3, <1>4, <1>5, <1>6, <1>7 DEF RebalanceStep

LEMMA RebalanceTypesStep ==
  ASSUME ProbingTyped, RebalanceTyped, RebalanceNext PROVE ProbingTyped' /\ RebalanceTyped'
<1>1. UNCHANGED rebalancing => RebalanceTyped'
  BY DEF rebalancing, RebalanceTyped, RebalanceTypes
<1> QED BY <1>1, TryTypesStep, CallTypesStep, NetworkTypesStep DEF RebalanceNext
=============================================================================
