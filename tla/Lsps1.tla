------------------------------- MODULE Lsps1 -------------------------------
(***************************************************************************)
(* Selling and buying inbound channels over LSPS1: the server of           *)
(* `bos offer-channel-open` (src/lsp/lsps1_server.js, process_order.js,    *)
(* open_sold_channel.js, send_info.js, send_order.js) and the client of    *)
(* `bos get-inbound-channel` (src/lsp/lsps1_client.js, make_request.js).   *)
(*                                                                         *)
(* An order stands for the client run that makes it, for the processOrder  *)
(* call it starts at the server and for the hold invoice between them.     *)
(* Later runs of the client ask for the status of the same order.          *)
(* status[o] is the order in the server's map, by the fields that change:  *)
(*   absent    not in the map                                              *)
(*   created   order CREATED, payment EXPECT_PAYMENT, no channel           *)
(*   hold      order CREATED, payment HOLD, no channel                     *)
(*   opened    order CREATED, payment HOLD, with its channel               *)
(*   paid      order COMPLETED, payment PAID, with its channel             *)
(*   refunded  order FAILED, payment REFUNDED, no channel                  *)
(***************************************************************************)
EXTENDS Naturals

CONSTANTS
  Orders,        \* the orders that clients may make
  MaxAsks        \* requests the runs of a client may make for one order

\* A purchase asks for the terms, for the quote and for the status
ASSUME AsksAssumption == MaxAsks \in Nat /\ MaxAsks >= 3

VARIABLES
  server,        \* up, deaf (it stopped listening to messages) or down
  srv,           \* srv[o]: where processOrder is
  sending,       \* orders whose sendMessageToPeer call is in flight
  status,        \* status[o]: the order in the server's map
  cli,           \* cli[o]: where the client's run is
  run,           \* run[o]: what it runs for: buy, dry or recover
  asks,          \* asks[o]: the id of its last request
  seen,          \* seen[o]: the last status it was told
  requests,      \* peer messages to the server
  replies,       \* peer messages to the clients
  invoice,       \* invoice[o]: the hold invoice on the server's node
  pay,           \* pay[o]: the payment on the client's node
  channel        \* orders whose channel the server's node opened

serving == <<server, srv, sending, status>>
client == <<cli, run, asks, seen>>
wire == <<requests, replies>>
nodes == <<invoice, pay, channel>>
vars == <<server, srv, sending, status, cli, run, asks, seen, requests,
          replies, invoice, pay, channel>>

ServerSteps == {"none", "quoting", "rejected", "waiting", "feerate", "accepts",
                "open", "refund", "settle", "settled", "ended"}
ClientSteps == {"idle", "limits", "quote", "probe", "accept", "paying",
                "status", "done", "failed"}
Statuses == {"absent", "created", "hold", "opened", "paid", "refunded"}

\* Replies carry the status that was read, error for an error response
Bodies == (Statuses \ {"absent"}) \cup {"info", "error"}

ServerTypes ==
  /\ server \in {"up", "deaf", "down"}
  /\ srv \in [Orders -> ServerSteps]
  /\ sending \subseteq Orders
  /\ status \in [Orders -> Statuses]

ClientTypes ==
  /\ cli \in [Orders -> ClientSteps]
  /\ run \in [Orders -> {"buy", "dry", "recover"}]
  /\ asks \in [Orders -> 0 .. MaxAsks]
  /\ seen \in [Orders -> Statuses]

WireTypes ==
  /\ requests \subseteq
       [order : Orders, id : 1 .. MaxAsks, method : {"info", "create", "get"}]
  /\ replies \subseteq [order : Orders, id : 1 .. MaxAsks, body : Bodies]

NodeTypes ==
  /\ invoice \in [Orders -> {"none", "open", "held", "settled", "canceled"}]
  /\ pay \in [Orders -> {"none", "flight", "paid", "failed"}]
  /\ channel \subseteq Orders

TypeOK == ServerTypes /\ ClientTypes /\ WireTypes /\ NodeTypes

Init ==
  /\ server = "up" /\ sending = {}
  /\ srv = [o \in Orders |-> "none"]
  /\ status = [o \in Orders |-> "absent"]
  /\ cli = [o \in Orders |-> "idle"]
  /\ run \in [Orders -> {"buy", "dry"}]
  /\ asks = [o \in Orders |-> 0]
  /\ seen = [o \in Orders |-> "absent"]
  /\ requests = {} /\ replies = {}
  /\ invoice = [o \in Orders |-> "none"]
  /\ pay = [o \in Orders |-> "none"]
  /\ channel = {}

-----------------------------------------------------------------------------
(* The client                                                              *)

ClientOnly == UNCHANGED <<serving, nodes>>

\* makeRequest: a new id, a listener for it, and a message to the service.  The
\* client sets no timeout: a lost message leaves it waiting
Ask(o, method) ==
  /\ asks[o] < MaxAsks
  /\ asks' = [asks EXCEPT ![o] = @ + 1]
  /\ requests' = requests \cup {[order |-> o, id |-> asks'[o], method |-> method]}

\* The order is asked for by the second request of the run that buys
CreateId == 2

GoTo(o, step) == cli' = [cli EXCEPT ![o] = step]

Start(o) ==
  /\ cli[o] = "idle" /\ GoTo(o, "limits") /\ Ask(o, "info")
  /\ UNCHANGED <<run, seen, replies>> /\ ClientOnly

\* Mutant of IsReply: a reply to an earlier request is taken as well
IsAnyReply(o, m) == m \in replies /\ m.order = o
\* Only a reply that carries the id of the request is listened to
IsReply(o, m) == m \in replies /\ m.order = o /\ m.id = asks[o]

HearLimits(o, m) ==
  /\ cli[o] = "limits" /\ IsReply(o, m) /\ m.body = "info"
  /\ replies' = replies \ {m}
  /\ GoTo(o, "quote") /\ Ask(o, "create")
  /\ UNCHANGED <<run, seen>> /\ ClientOnly

HearQuote(o, m) ==
  /\ cli[o] = "quote" /\ IsReply(o, m) /\ m.body = "created"
  /\ replies' = replies \ {m}
  /\ GoTo(o, "probe") /\ seen' = [seen EXCEPT ![o] = "created"]
  /\ UNCHANGED <<run, asks, requests>> /\ ClientOnly

\* A route was found; the order id is shown for a later recovery
GetFee(o) ==
  /\ cli[o] = "probe" /\ GoTo(o, "accept")
  /\ UNCHANGED <<run, asks, seen, wire>> /\ ClientOnly

\* A dry run ends with the quote; else the user accepts and the client pays
Accept(o) ==
  /\ cli[o] = "accept"
  /\ \/ run[o] = "dry" /\ GoTo(o, "done") /\ UNCHANGED pay
     \/ /\ run[o] = "buy" /\ GoTo(o, "paying")
        /\ pay' = [pay EXCEPT ![o] = "flight"]
  /\ UNCHANGED <<run, asks, seen, wire, serving, invoice, channel>>

\* Once paid, the client asks for the order
Paid(o) ==
  /\ cli[o] = "paying" /\ pay[o] = "paid"
  /\ GoTo(o, "status") /\ Ask(o, "get")
  /\ UNCHANGED <<run, seen, replies>> /\ ClientOnly

HearOrder(o, m) ==
  /\ cli[o] = "status" /\ IsReply(o, m) /\ m.body \in Statuses
  /\ replies' = replies \ {m}
  /\ GoTo(o, "done") /\ seen' = [seen EXCEPT ![o] = m.body]
  /\ UNCHANGED <<run, asks, requests>> /\ ClientOnly

\* The user stops or declines, the payment or a request fails, or the reply is an
\* error.  A payment that was started goes on
ClientFails(o) ==
  /\ cli[o] \notin {"idle", "done", "failed"} /\ GoTo(o, "failed")
  /\ UNCHANGED <<run, asks, seen, wire>> /\ ClientOnly

\* A later run asks for the status of an order whose id was shown
Recover(o) ==
  /\ cli[o] \in {"done", "failed"} /\ seen[o] # "absent"
  /\ run' = [run EXCEPT ![o] = "recover"]
  /\ GoTo(o, "status") /\ Ask(o, "get")
  /\ UNCHANGED <<seen, replies>> /\ ClientOnly

-----------------------------------------------------------------------------
(* The server: messages                                                    *)

Reply(m, body) ==
  replies' = replies \cup {[order |-> m.order, id |-> m.id, body |-> body]}

Receive(m, method) ==
  /\ server = "up" /\ m \in requests /\ m.method = method
  /\ requests' = requests \ {m}

SendInfo(m) ==
  /\ Receive(m, "info")
  /\ Reply(m, "info")
  /\ UNCHANGED <<serving, client, nodes>>

\* Mutant of SendOrder: an order that is not found is not told from the others
SendAnyOrder(m) ==
  /\ Receive(m, "get")
  /\ Reply(m, status[m.order])
  /\ UNCHANGED <<serving, client, nodes>>

\* The map is read when the message is handled
SendOrder(m) ==
  /\ Receive(m, "get")
  /\ Reply(m, IF status[m.order] = "absent" THEN "error" ELSE status[m.order])
  /\ UNCHANGED <<serving, client, nodes>>

\* processOrder starts: the terms are valid, or an error response is sent
ReceiveOrder(m) ==
  /\ Receive(m, "create") /\ srv[m.order] = "none"
  /\ \/ srv' = [srv EXCEPT ![m.order] = "quoting"] /\ UNCHANGED replies
     \/ srv' = [srv EXCEPT ![m.order] = "rejected"] /\ Reply(m, "error")
  /\ UNCHANGED <<server, sending, status, client, nodes>>

-----------------------------------------------------------------------------
(* The server: processOrder                                                *)

Step(o, from, to) == srv[o] = from /\ srv' = [srv EXCEPT ![o] = to]

SetStatus(o, s) == status' = [status EXCEPT ![o] = s]

\* The error response could not be sent: that error is the one way out of a
\* rejected order, since makeOrder returns without calling back
RejectFails(o) ==
  /\ Step(o, "rejected", "ended")
  /\ UNCHANGED <<server, sending, status, client, wire, nodes>>

\* Fees and invoice; then two tasks at once: waitForPayment listens to the
\* invoice, makeOrder stores the order and sends it
MakeInvoice(o) ==
  /\ Step(o, "quoting", "waiting")
  /\ invoice' = [invoice EXCEPT ![o] = "open"]
  /\ SetStatus(o, "created")
  /\ sending' = sending \cup {o}
  /\ Reply([order |-> o, id |-> CreateId], "created")
  /\ UNCHANGED <<server, client, requests, pay, channel>>

QuoteFails(o) ==
  /\ Step(o, "quoting", "ended")
  /\ UNCHANGED <<server, sending, status, client, wire, nodes>>

OrderSent(o) ==
  /\ o \in sending /\ sending' = sending \ {o}
  /\ UNCHANGED <<server, srv, status, client, wire, nodes>>

\* An error of the send ends the graph: tasks that did not start never do, while
\* an openSoldChannel that was started goes on
OrderNotSent(o) ==
  /\ o \in sending /\ sending' = sending \ {o}
  /\ srv' = [srv EXCEPT ![o] = IF @ \in {"waiting", "feerate"} THEN "ended" ELSE @]
  /\ UNCHANGED <<server, status, client, wire, nodes>>

\* The payment is being held
WaitForPayment(o) ==
  /\ invoice[o] = "held" /\ Step(o, "waiting", "feerate")
  /\ UNCHANGED <<server, sending, status, client, wire, nodes>>

\* Mutant of StopWaiting: the wait for the payment has no timeout
StopOnError(o) ==
  /\ invoice[o] = "held" /\ Step(o, "waiting", "ended")
  /\ UNCHANGED <<server, sending, status, client, wire, nodes>>

\* An hour passed, maybe just before the update came, or the subscription failed
StopWaiting(o) ==
  /\ Step(o, "waiting", "ended")
  /\ UNCHANGED <<server, sending, status, client, wire, nodes>>

\* The fee rate is known: openSoldChannel records the hold, and asks whether the
\* client's node accepts the open
GetOpenFeeRate(o) ==
  /\ Step(o, "feerate", "accepts")
  /\ SetStatus(o, "hold")
  /\ UNCHANGED <<server, sending, client, wire, nodes>>

\* The held payment is neither settled nor canceled
GetOpenFeeRateFails(o) ==
  /\ Step(o, "feerate", "ended")
  /\ UNCHANGED <<server, sending, status, client, wire, nodes>>

AcceptsOpen(o) ==
  /\ Step(o, "accepts", "open") \/ Step(o, "accepts", "refund")
  /\ UNCHANGED <<server, sending, status, client, wire, nodes>>

\* Mutant of OpenChannel: the channel is not recorded before the settlement
OpenChannelUnrecorded(o) ==
  /\ Step(o, "open", "settle")
  /\ channel' = channel \cup {o}
  /\ UNCHANGED <<server, sending, status, client, wire, invoice, pay>>

\* openChannel, then addChannel
OpenChannel(o) ==
  /\ Step(o, "open", "settle")
  /\ channel' = channel \cup {o}
  /\ SetStatus(o, "opened")
  /\ UNCHANGED <<server, sending, client, wire, invoice, pay>>

\* Mutant of OpenFails: the payment is taken whatever the open returned
OpenFailsUnseen(o) ==
  /\ Step(o, "open", "settle")
  /\ channel' \in {channel, channel \cup {o}}
  /\ UNCHANGED <<server, sending, status, client, wire, invoice, pay>>

\* The request may fail although the channel was opened
OpenFails(o) ==
  /\ Step(o, "open", "refund")
  /\ channel' \in {channel, channel \cup {o}}
  /\ UNCHANGED <<server, sending, status, client, wire, invoice, pay>>

CancelInvoice(o) == invoice' = [invoice EXCEPT ![o] = "canceled"]

\* The payment goes back, and only then the order is recorded as failed
Cancel(o) ==
  /\ Step(o, "refund", "ended")
  /\ CancelInvoice(o)
  /\ SetStatus(o, "refunded")
  /\ UNCHANGED <<server, sending, client, wire, pay, channel>>

\* Mutant of CancelFails: the order is recorded as refunded all the same
CancelFailsUnseen(o) ==
  /\ Step(o, "refund", "ended")
  /\ CancelInvoice(o) \/ UNCHANGED invoice
  /\ SetStatus(o, "refunded")
  /\ UNCHANGED <<server, sending, client, wire, pay, channel>>

\* An error of the cancelation, with or without effect, leaves the order on hold
CancelFails(o) ==
  /\ Step(o, "refund", "ended")
  /\ CancelInvoice(o) \/ UNCHANGED invoice
  /\ UNCHANGED <<server, sending, status, client, wire, pay, channel>>

\* The node takes the funds; its answer is still on the way
Settle(o) ==
  /\ invoice[o] = "held" /\ Step(o, "settle", "settled")
  /\ invoice' = [invoice EXCEPT ![o] = "settled"]
  /\ UNCHANGED <<server, sending, status, client, wire, pay, channel>>

\* The settlement failed or its answer was lost: the order stays as it was
SettleFails(o) ==
  /\ Step(o, "settle", "ended") \/ Step(o, "settled", "ended")
  /\ UNCHANGED <<server, sending, status, client, wire, nodes>>

UpdateAsPaid(o) ==
  /\ Step(o, "settled", "ended")
  /\ SetStatus(o, "paid")
  /\ UNCHANGED <<server, sending, client, wire, nodes>>

-----------------------------------------------------------------------------
(* The server's process                                                    *)

\* No graph update for a quarter of an hour, or a subscription that failed: no
\* message is listened to anymore; the orders that were started go on
StopListening ==
  /\ server = "up" /\ server' = "deaf"
  /\ UNCHANGED <<srv, sending, status, client, wire, nodes>>

\* The invoice, when the request that the order waits for takes effect
InvoiceAfter(o) ==
  CASE srv[o] = "quoting" -> "open"
    [] srv[o] = "refund" -> "canceled"
    [] srv[o] = "settle" /\ invoice[o] = "held" -> "settled"
    [] OTHER -> invoice[o]

\* The orders are only in memory.  Requests to the node that are in flight may still take
\* effect, and no one hears it
ServerStops ==
  /\ server # "down" /\ server' = "down"
  /\ srv' = [o \in Orders |-> IF srv[o] = "none" THEN "none" ELSE "ended"]
  /\ status' = [o \in Orders |-> "absent"]
  /\ sending' = {}
  /\ \E done \in SUBSET Orders :
       /\ channel' = channel \cup {o \in done : srv[o] = "open"}
       /\ invoice' = [o \in Orders |-> IF o \in done THEN InvoiceAfter(o) ELSE invoice[o]]
  /\ UNCHANGED <<client, wire, pay>>

ServerStarts ==
  /\ server = "down" /\ server' = "up"
  /\ UNCHANGED <<srv, sending, status, client, wire, nodes>>

-----------------------------------------------------------------------------
(* The nodes and the network, modelled from how the code uses them         *)

MessageLost ==
  /\ \/ \E m \in requests : requests' = requests \ {m} /\ UNCHANGED replies
     \/ \E m \in replies : replies' = replies \ {m} /\ UNCHANGED requests
  /\ UNCHANGED <<serving, client, nodes>>

PaymentHeld(o) ==
  /\ pay[o] = "flight" /\ invoice[o] = "open"
  /\ invoice' = [invoice EXCEPT ![o] = "held"]
  /\ UNCHANGED <<serving, client, wire, pay, channel>>

\* An open invoice expires; a payment that nobody resolves times out in the end
InvoiceExpires(o) ==
  /\ invoice[o] \in {"open", "held"}
  /\ CancelInvoice(o)
  /\ UNCHANGED <<serving, client, wire, pay, channel>>

\* The client's payment settles with the invoice, or fails: on its way, or as the
\* invoice is canceled
PaymentEnds(o) ==
  /\ pay[o] = "flight"
  /\ \/ invoice[o] = "settled" /\ pay' = [pay EXCEPT ![o] = "paid"]
     \/ invoice[o] \in {"open", "canceled"} /\ pay' = [pay EXCEPT ![o] = "failed"]
  /\ UNCHANGED <<serving, client, wire, invoice, channel>>

-----------------------------------------------------------------------------

Client(o) ==
  \/ Start(o) \/ GetFee(o) \/ Accept(o) \/ Paid(o) \/ ClientFails(o) \/ Recover(o)
  \/ \E m \in replies : HearLimits(o, m) \/ HearQuote(o, m) \/ HearOrder(o, m)

Messages == \E m \in requests : SendInfo(m) \/ SendOrder(m) \/ ReceiveOrder(m)

Quoting(o) == MakeInvoice(o) \/ QuoteFails(o)
Waiting(o) == WaitForPayment(o) \/ StopWaiting(o)
Rating(o) == GetOpenFeeRate(o) \/ GetOpenFeeRateFails(o)
Opening(o) == OpenChannel(o) \/ OpenFails(o)
Refunding(o) == Cancel(o) \/ CancelFails(o)
Settling(o) == Settle(o) \/ SettleFails(o) \/ UpdateAsPaid(o)

\* An order goes on by itself: its requests are answered and its wait is timed
ProcessOrder(o) ==
  \/ Quoting(o) \/ Waiting(o) \/ Rating(o) \/ AcceptsOpen(o) \/ Opening(o)
  \/ Refunding(o) \/ Settling(o)

Sending(o) == OrderSent(o) \/ OrderNotSent(o)

Process == StopListening \/ ServerStops \/ ServerStarts

Network ==
  \/ MessageLost
  \/ \E o \in Orders : PaymentHeld(o) \/ InvoiceExpires(o) \/ PaymentEnds(o)

Next ==
  \/ \E o \in Orders : Client(o) \/ ProcessOrder(o) \/ Sending(o) \/ RejectFails(o)
  \/ Messages \/ Process \/ Network

Spec == Init /\ [][Next]_vars

FairSpec == Spec /\ \A o \in Orders : WF_vars(ProcessOrder(o)) /\ WF_vars(Sending(o))

-----------------------------------------------------------------------------
(* Properties                                                              *)

(* The order a client can ask for never claims more than the node did,     *)
(* whichever of the requests that follow each other fails.                 *)
StatusIsTrue ==
  \A o \in Orders :
    /\ status[o] \in {"opened", "paid"} => o \in channel
    /\ status[o] = "paid" => invoice[o] = "settled"
    /\ status[o] = "refunded" => invoice[o] = "canceled"

(* A buyer whose payment went through is told of the channel by the same   *)
(* run, although the order is updated after the payment was taken.         *)
BuyerSeesChannel ==
  \A o \in Orders :
    run[o] = "buy" /\ cli[o] = "done" => seen[o] \in {"opened", "paid"}

(* What a client is told of an order never goes back, whatever replies to  *)
(* earlier requests are still under way.                                   *)
Rank(s) == CASE s = "absent" -> 0 [] s = "created" -> 1 [] s = "hold" -> 2
             [] s = "opened" -> 3 [] s = "paid" -> 4 [] s = "refunded" -> 4
NeverToldLess ==
  [][\A o \in Orders :
       /\ Rank(seen[o]) <= Rank(seen'[o])
       /\ seen[o] = "refunded" => seen'[o] = "refunded"]_seen

(* An order that got its terms ends at the server, paid or not: nothing it *)
(* waits for has no end.                                                   *)
OrderEnds == \A o \in Orders : srv[o] = "quoting" ~> srv[o] = "ended"

(* "@returns via cbk or Promise": a call of processOrder returns, that of  *)
(* a request it rejects too.                                               *)
RejectedOrderEnds == \A o \in Orders : srv[o] = "rejected" ~> srv[o] = "ended"

\* What a sale through a held payment promises, and its implementation here
Escrow(o) == CASE invoice[o] \in {"none", "open"} -> "none"
               [] invoice[o] = "held" -> "locked"
               [] invoice[o] = "settled" -> "taken"
               [] invoice[o] = "canceled" -> "returned"
Sale(o) == INSTANCE EscrowedSale
  WITH payment <- Escrow(o), delivered <- (o \in channel)
SaleSpec ==
  /\ \A o \in Orders : Sale(o)!Init
  /\ [][\A o \in Orders : [Sale(o)!Next]_(Sale(o)!vars)]_vars

=============================================================================
