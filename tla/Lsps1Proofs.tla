---------------------------- MODULE Lsps1Proofs ----------------------------
(***************************************************************************)
(* For every set of orders and number of requests: type correctness, the   *)
(* truth of the status that the server reports, the implementation of      *)
(* EscrowedSale by each order, and what the clients are told of theirs.    *)
(***************************************************************************)
EXTENDS Lsps1, TLAPS

-----------------------------------------------------------------------------
(* Types                                                                   *)

LEMMA TypeInit == Init => TypeOK
BY AsksAssumption DEF Init, TypeOK, ServerTypes, ClientTypes, WireTypes, NodeTypes,
  ServerSteps, ClientSteps, Statuses

LEMMA TypeStep == TypeOK /\ [Next]_vars => TypeOK'
<1> SUFFICES ASSUME TypeOK, [Next]_vars PROVE TypeOK'
  OBVIOUS
<1> USE AsksAssumption DEF TypeOK, serving, client, wire, nodes
<1>1. ASSUME NEW o \in Orders, Client(o) PROVE TypeOK'
  <2>1. ServerTypes'
    BY <1>1 DEF ServerTypes, Client, ClientOnly, Start, HearLimits, HearQuote,
      GetFee, Accept, Paid, HearOrder, ClientFails, Recover
  <2>2. ClientTypes'
    <3> USE DEF ClientTypes, ClientSteps, Statuses
    <3>1. CASE Start(o) \/ Paid(o) \/ Recover(o)
      BY <3>1 DEF Start, Paid, Recover, Ask, GoTo
    <3>2. CASE GetFee(o) \/ Accept(o) \/ ClientFails(o)
      BY <3>2 DEF GetFee, Accept, ClientFails, GoTo
    <3>3. CASE \E m \in replies : HearLimits(o, m) \/ HearQuote(o, m) \/ HearOrder(o, m)
      BY <3>3 DEF HearLimits, HearQuote, HearOrder, Ask, GoTo
    <3> QED BY <1>1, <3>1, <3>2, <3>3 DEF Client
  <2>3. WireTypes'
    <3>1. CASE UNCHANGED wire
      BY <3>1 DEF WireTypes
    <3>2. ASSUME NEW method \in {"info", "create", "get"}, Ask(o, method),
                 replies' \subseteq replies
          PROVE  WireTypes'
      <4>1. asks'[o] \in 1 .. MaxAsks
        BY <3>2 DEF Ask, ClientTypes
      <4> QED BY <3>2, <4>1 DEF Ask, WireTypes
    <3>3. CASE \E m \in replies : HearQuote(o, m) \/ HearOrder(o, m)
      BY <3>3 DEF HearQuote, HearOrder, WireTypes
    <3>4. CASE Start(o) \/ Paid(o) \/ Recover(o) \/ \E m \in replies : HearLimits(o, m)
      BY <3>4, <3>2 DEF Start, Paid, Recover, HearLimits
    <3> QED BY <1>1, <3>1, <3>3, <3>4 DEF Client, GetFee, Accept, ClientFails
  <2>4. NodeTypes'
    BY <1>1 DEF NodeTypes, Client, ClientOnly, Start, HearLimits, HearQuote,
      GetFee, Accept, Paid, HearOrder, ClientFails, Recover
  <2> QED BY <2>1, <2>2, <2>3, <2>4
<1>2. ASSUME NEW o \in Orders, ProcessOrder(o) \/ Sending(o) \/ RejectFails(o)
      PROVE  TypeOK'
  <2> USE DEF ProcessOrder, Quoting, Waiting, Rating, Opening, Refunding, Settling,
        Sending
  <2>1. ServerTypes'
    BY <1>2 DEF ServerTypes, ServerSteps, Statuses, Step, SetStatus, RejectFails,
      MakeInvoice, QuoteFails, OrderSent, OrderNotSent, WaitForPayment, StopWaiting,
      GetOpenFeeRate, GetOpenFeeRateFails, AcceptsOpen, OpenChannel, OpenFails,
      Cancel, CancelFails, Settle, SettleFails, UpdateAsPaid
  <2>2. ClientTypes'
    BY <1>2 DEF ClientTypes, RejectFails, MakeInvoice, QuoteFails, OrderSent,
      OrderNotSent, WaitForPayment, StopWaiting, GetOpenFeeRate,
      GetOpenFeeRateFails, AcceptsOpen, OpenChannel, OpenFails, Cancel, CancelFails,
      Settle, SettleFails, UpdateAsPaid
  <2>3. WireTypes'
    <3>1. CASE MakeInvoice(o)
      BY <3>1 DEF MakeInvoice, Reply, CreateId, WireTypes, Bodies, Statuses
    <3>2. CASE ~MakeInvoice(o)
      BY <1>2, <3>2 DEF WireTypes, RejectFails, QuoteFails, OrderSent, OrderNotSent,
        WaitForPayment, StopWaiting, GetOpenFeeRate, GetOpenFeeRateFails,
        AcceptsOpen, OpenChannel, OpenFails, Cancel, CancelFails, Settle,
        SettleFails, UpdateAsPaid
    <3> QED BY <3>1, <3>2
  <2>4. NodeTypes'
    BY <1>2 DEF NodeTypes, CancelInvoice, RejectFails, MakeInvoice, QuoteFails,
      OrderSent, OrderNotSent, WaitForPayment, StopWaiting, GetOpenFeeRate,
      GetOpenFeeRateFails, AcceptsOpen, OpenChannel, OpenFails, Cancel, CancelFails,
      Settle, SettleFails, UpdateAsPaid
  <2> QED BY <2>1, <2>2, <2>3, <2>4
<1>3. CASE Messages
  <2> PICK m \in requests : SendInfo(m) \/ SendOrder(m) \/ ReceiveOrder(m)
    BY <1>3 DEF Messages
  <2> USE DEF Receive, Reply
  <2>1. m \in [order : Orders, id : 1 .. MaxAsks, method : {"info", "create", "get"}]
    BY DEF WireTypes
  <2>2. ServerTypes' /\ ClientTypes' /\ NodeTypes'
    BY <2>1 DEF ServerTypes, ServerSteps, ClientTypes, NodeTypes, SendInfo, SendOrder,
      ReceiveOrder
  <2>3. status[m.order] \in Statuses
    BY <2>1 DEF ServerTypes
  <2>4. WireTypes'
    BY <2>1, <2>3 DEF WireTypes, Bodies, Statuses, SendInfo, SendOrder, ReceiveOrder
  <2> QED BY <2>2, <2>4
<1>4. CASE Process
  <2>1. ServerTypes' /\ ClientTypes' /\ WireTypes'
    BY <1>4 DEF Process, StopListening, ServerStops, ServerStarts, ServerTypes,
      ServerSteps, Statuses, ClientTypes, WireTypes
  <2>2. NodeTypes'
    BY <1>4 DEF Process, StopListening, ServerStops, ServerStarts, InvoiceAfter, NodeTypes
  <2> QED BY <2>1, <2>2
<1>5. CASE Network
  <2>1. ServerTypes' /\ ClientTypes' /\ WireTypes'
    BY <1>5 DEF Network, MessageLost, PaymentHeld, InvoiceExpires, PaymentEnds,
      ServerTypes, ClientTypes, WireTypes
  <2>2. NodeTypes'
    BY <1>5 DEF Network, MessageLost, PaymentHeld, InvoiceExpires, PaymentEnds,
      CancelInvoice, NodeTypes
  <2> QED BY <2>1, <2>2
<1>6. CASE UNCHANGED vars
  BY <1>6 DEF vars, ServerTypes, ClientTypes, WireTypes, NodeTypes
<1> QED BY <1>1, <1>2, <1>3, <1>4, <1>5, <1>6 DEF Next

(* The server, its clients, the messages and the nodes keep the types of   *)
(* TypeOK, the statuses that replies carry included.                       *)
THEOREM TypeCorrect == Spec => []TypeOK
BY TypeInit, TypeStep, PTL DEF Spec

-----------------------------------------------------------------------------
(* The status and the sale.  What the server knows of the invoice and the  *)
(* channel follows from where processOrder is.                             *)

InvoiceFollows(o) ==
  /\ srv[o] \in {"none", "quoting", "rejected"} => invoice[o] = "none"
  /\ srv[o] = "waiting" => invoice[o] \in {"open", "held", "canceled"}
  /\ srv[o] \in {"feerate", "accepts", "open", "refund", "settle"}
       => invoice[o] \in {"held", "canceled"}
  /\ srv[o] = "settled" => invoice[o] = "settled"

ChannelFollows(o) == srv[o] \in {"settle", "settled"} => o \in channel

StatusFollows(o) ==
  /\ status[o] \in {"opened", "paid"} => o \in channel
  /\ status[o] = "paid" => invoice[o] = "settled"
  /\ status[o] = "refunded" => invoice[o] = "canceled"

OrderInv == \A o \in Orders : InvoiceFollows(o) /\ ChannelFollows(o) /\ StatusFollows(o)

LEMMA OrderInvInit == Init => OrderInv
BY DEF Init, OrderInv, InvoiceFollows, ChannelFollows, StatusFollows

LEMMA OrderInvStep == TypeOK /\ OrderInv /\ [Next]_vars => OrderInv'
<1> SUFFICES ASSUME TypeOK, OrderInv, [Next]_vars, NEW o \in Orders
             PROVE  (InvoiceFollows(o) /\ ChannelFollows(o) /\ StatusFollows(o))'
  BY DEF OrderInv
<1>0. InvoiceFollows(o) /\ ChannelFollows(o) /\ StatusFollows(o)
  BY DEF OrderInv
<1> USE <1>0 DEF InvoiceFollows, ChannelFollows, StatusFollows, TypeOK, ServerTypes,
      NodeTypes, serving, client, wire, nodes
<1>1. CASE \E p \in Orders : Client(p)
  BY <1>1 DEF Client, ClientOnly, Start, HearLimits, HearQuote, GetFee, Accept, Paid,
    HearOrder, ClientFails, Recover
<1>2. ASSUME NEW p \in Orders, ProcessOrder(p)
      PROVE  (InvoiceFollows(o) /\ ChannelFollows(o) /\ StatusFollows(o))'
  <2>1. CASE Quoting(p) \/ Waiting(p) \/ Rating(p)
    BY <2>1 DEF Quoting, Waiting, Rating, Step, SetStatus, MakeInvoice, QuoteFails,
      WaitForPayment, StopWaiting, GetOpenFeeRate, GetOpenFeeRateFails
  <2>2. CASE AcceptsOpen(p) \/ Opening(p)
    BY <2>2 DEF Opening, Step, SetStatus, AcceptsOpen, OpenChannel, OpenFails
  <2>3. CASE Refunding(p)
    BY <2>3 DEF Refunding, Step, SetStatus, CancelInvoice, Cancel, CancelFails
  <2>4. CASE Settling(p)
    BY <2>4 DEF Settling, Step, SetStatus, Settle, SettleFails, UpdateAsPaid
  <2> QED BY <1>2, <2>1, <2>2, <2>3, <2>4 DEF ProcessOrder
<1>3. CASE \E p \in Orders : Sending(p) \/ RejectFails(p)
  BY <1>3 DEF Sending, OrderSent, OrderNotSent, RejectFails, Step
<1>4. CASE Messages
  <2> PICK m \in requests : SendInfo(m) \/ SendOrder(m) \/ ReceiveOrder(m)
    BY <1>4 DEF Messages
  <2> QED BY DEF Receive, SendInfo, SendOrder, ReceiveOrder
<1>5. CASE Process
  BY <1>5 DEF Process, StopListening, ServerStops, ServerStarts, InvoiceAfter
<1>6. CASE Network
  BY <1>6 DEF Network, MessageLost, PaymentHeld, InvoiceExpires, PaymentEnds,
    CancelInvoice
<1>7. CASE UNCHANGED vars
  BY <1>7 DEF vars
<1> QED BY <1>1, <1>2, <1>3, <1>4, <1>5, <1>6, <1>7 DEF Next

(* The order that a client can ask for never claims more than the node did *)
(* (open_sold_channel.js): a channel that was not opened, a payment that   *)
(* was not taken or one that was not given back.                           *)
THEOREM TrueStatus == Spec => []StatusIsTrue
<1>1. OrderInv => StatusIsTrue
  BY DEF OrderInv, StatusFollows, StatusIsTrue
<1> QED BY <1>1, TypeInit, TypeStep, OrderInvInit, OrderInvStep, PTL DEF Spec

-----------------------------------------------------------------------------

LEMMA SaleInit == ASSUME Init, NEW o \in Orders PROVE Sale(o)!Init
BY DEF Init, Sale!Init, Escrow

LEMMA SaleStep ==
  ASSUME TypeOK, OrderInv, [Next]_vars, NEW o \in Orders
  PROVE  [Sale(o)!Next]_(Sale(o)!vars)
<1>0. InvoiceFollows(o) /\ ChannelFollows(o)
  BY DEF OrderInv
<1> DEFINE SameOrMoved == [Sale(o)!Next]_(Sale(o)!vars)
<1>1. CASE invoice'[o] = invoice[o] /\ (o \in channel' <=> o \in channel)
  BY <1>1 DEF Sale!vars, Escrow
<1> USE <1>0 DEF InvoiceFollows, ChannelFollows, TypeOK, ServerTypes, NodeTypes,
      serving, client, wire, nodes, Escrow, Sale!vars, Sale!Next, Sale!Lock,
      Sale!Deliver, Sale!Take, Sale!Return
<1>2. CASE \E p \in Orders : Client(p) \/ Sending(p) \/ RejectFails(p)
  BY <1>2, <1>1 DEF Client, ClientOnly, Start, HearLimits, HearQuote, GetFee, Accept,
    Paid, HearOrder, ClientFails, Recover, Sending, OrderSent, OrderNotSent,
    RejectFails
<1>3. ASSUME NEW p \in Orders, ProcessOrder(p) PROVE SameOrMoved
  <2>1. CASE p # o
    BY <1>3, <2>1, <1>1 DEF ProcessOrder, Quoting, Waiting, Rating, Opening, Refunding,
      Settling, CancelInvoice, MakeInvoice, QuoteFails, WaitForPayment, StopWaiting,
      GetOpenFeeRate, GetOpenFeeRateFails, AcceptsOpen, OpenChannel, OpenFails,
      Cancel, CancelFails, Settle, SettleFails, UpdateAsPaid
  <2>2. CASE Quoting(o) \/ Waiting(o) \/ Rating(o) \/ AcceptsOpen(o)
    BY <2>2, <1>1 DEF Quoting, Waiting, Rating, Step, MakeInvoice, QuoteFails,
      WaitForPayment, StopWaiting, GetOpenFeeRate, GetOpenFeeRateFails, AcceptsOpen
  <2>3. CASE Opening(o)
    BY <2>3, <1>1 DEF Opening, Step, OpenChannel, OpenFails
  <2>4. CASE Refunding(o)
    BY <2>4, <1>1 DEF Refunding, Step, CancelInvoice, Cancel, CancelFails
  <2>5. CASE Settling(o)
    BY <2>5, <1>1 DEF Settling, Step, Settle, SettleFails, UpdateAsPaid
  <2> QED BY <1>3, <2>1, <2>2, <2>3, <2>4, <2>5 DEF ProcessOrder
<1>4. CASE Messages \/ Process
  BY <1>4, <1>1 DEF Messages, SendInfo, SendOrder, ReceiveOrder, Process,
    StopListening, ServerStops, ServerStarts, InvoiceAfter
<1>5. CASE Network
  BY <1>5, <1>1 DEF Network, MessageLost, PaymentHeld, InvoiceExpires, PaymentEnds,
    CancelInvoice
<1>6. CASE UNCHANGED vars
  BY <1>6, <1>1 DEF vars
<1> QED BY <1>2, <1>3, <1>4, <1>5, <1>6 DEF Next

(* Each order is an escrowed sale: the payment is taken only for a channel *)
(* that was opened, and the channel is opened only for a payment that was  *)
(* locked.                                                                 *)
THEOREM Implements == Spec => SaleSpec
<1>1. Init => \A o \in Orders : Sale(o)!Init
  BY SaleInit
<1>2. TypeOK /\ OrderInv /\ [Next]_vars
        => [\A o \in Orders : [Sale(o)!Next]_(Sale(o)!vars)]_vars
  BY SaleStep
<1> QED BY <1>1, <1>2, TypeInit, TypeStep, OrderInvInit, OrderInvStep, PTL
        DEF Spec, SaleSpec

-----------------------------------------------------------------------------
(* What the client is told.  A reply carries the status that was read when *)
(* it was sent, so it is behind the order, and ahead of what the client    *)
(* knew when it asked.                                                     *)

Later(a, b) == Rank(a) <= Rank(b) /\ (a = "refunded" => b = "refunded")

\* The order in the map follows from where processOrder is
StatusAt(o) ==
  /\ srv[o] \in {"none", "quoting", "rejected"} => status[o] = "absent"
  /\ srv[o] \in {"waiting", "feerate"} => status[o] = "created"
  /\ srv[o] \in {"accepts", "open", "refund"} => status[o] = "hold"
  /\ srv[o] \in {"settle", "settled"} => status[o] = "opened"
  /\ invoice[o] = "settled" => status[o] \in {"absent", "opened", "paid"}
  /\ pay[o] = "paid" => invoice[o] = "settled"

\* Each step of a purchase has its request, and no id was not asked with
IdsFollow(o) ==
  /\ cli[o] = "idle" => asks[o] = 0
  /\ cli[o] = "limits" => asks[o] = 1
  /\ cli[o] \in {"quote", "probe", "accept", "paying"} => asks[o] = CreateId
  /\ cli[o] = "status" => asks[o] > CreateId
  /\ srv[o] # "none" \/ seen[o] # "absent" => asks[o] >= CreateId
  /\ \A m \in requests :
       m.order = o => m.id <= asks[o] /\ (m.method = "create" => m.id = CreateId)
  /\ \A m \in replies : m.order = o => m.id <= asks[o]

Tellings(o) == {m \in replies : m.order = o /\ m.body \in Statuses}
Answers(o) == {m \in Tellings(o) : m.id = asks[o]}
TellingsFollow(o) ==
  /\ srv[o] \in {"none", "quoting", "rejected"} => seen[o] = "absent" /\ Tellings(o) = {}
  /\ status[o] # "absent" =>
       Later(seen[o], status[o]) /\ \A m \in Tellings(o) : Later(m.body, status[o])
  /\ cli[o] \in {"idle", "limits", "quote"} => seen[o] = "absent"
  /\ cli[o] = "status" => \A m \in Answers(o) : Later(seen[o], m.body)

\* A run that buys asks for the order when the payment was taken
BuyerFollows(o) ==
  run[o] = "buy" =>
    /\ cli[o] = "status" =>
         invoice[o] = "settled" /\ \A m \in Answers(o) : m.body \in {"opened", "paid"}
    /\ cli[o] = "done" => seen[o] \in {"opened", "paid"}

TellInv ==
  \A o \in Orders : StatusAt(o) /\ IdsFollow(o) /\ TellingsFollow(o) /\ BuyerFollows(o)

LEMMA TellInit == Init => TellInv
<1> SUFFICES ASSUME Init, NEW o \in Orders
             PROVE  StatusAt(o) /\ IdsFollow(o) /\ TellingsFollow(o) /\ BuyerFollows(o)
  BY DEF TellInv
<1> USE DEF Init
<1>1. StatusAt(o)
  BY DEF StatusAt
<1>2. IdsFollow(o)
  BY DEF IdsFollow
<1>3. TellingsFollow(o)
  BY DEF TellingsFollow, Tellings
<1>4. BuyerFollows(o)
  BY DEF BuyerFollows
<1> QED BY <1>1, <1>2, <1>3, <1>4

\* The statuses are ordered, and an order only moves on
LEMMA LaterOrder ==
  /\ \A a \in Statuses : Later(a, a) /\ Later("absent", a)
  /\ \A a, b, c \in Statuses : Later(a, b) /\ Later(b, c) => Later(a, c)
  /\ Later("created", "hold") /\ Later("hold", "opened") /\ Later("opened", "paid")
  /\ Later("hold", "refunded")
<1>1. \A a \in Statuses : Rank(a) \in 0 .. 4
  BY DEF Rank, Statuses
<1>2. \A a \in Statuses : Later(a, a) /\ Later("absent", a)
  BY <1>1 DEF Later, Rank, Statuses
<1>3. \A a, b, c \in Statuses : Later(a, b) /\ Later(b, c) => Later(a, c)
  BY <1>1 DEF Later
<1>4. /\ Later("created", "hold") /\ Later("hold", "opened") /\ Later("opened", "paid")
      /\ Later("hold", "refunded")
  BY DEF Later, Rank
<1> QED BY <1>2, <1>3, <1>4

LEMMA StatusAtStep ==
  ASSUME TypeOK, OrderInv, [Next]_vars, NEW o \in Orders, StatusAt(o)
  PROVE  StatusAt(o)'
<1>0. InvoiceFollows(o)
  BY DEF OrderInv
<1> USE <1>0 DEF InvoiceFollows, StatusAt, TypeOK, ServerTypes, NodeTypes, serving,
      client, wire, nodes
<1>1. CASE \E p \in Orders : Client(p)
  BY <1>1 DEF Client, ClientOnly, Start, HearLimits, HearQuote, GetFee, Accept, Paid,
    HearOrder, ClientFails, Recover
<1>2. ASSUME NEW p \in Orders, ProcessOrder(p) PROVE StatusAt(o)'
  <2>1. CASE Quoting(p) \/ Waiting(p) \/ Rating(p)
    BY <2>1 DEF Quoting, Waiting, Rating, Step, SetStatus, MakeInvoice, QuoteFails,
      WaitForPayment, StopWaiting, GetOpenFeeRate, GetOpenFeeRateFails
  <2>2. CASE AcceptsOpen(p) \/ Opening(p)
    BY <2>2 DEF Opening, Step, SetStatus, AcceptsOpen, OpenChannel, OpenFails
  <2>3. CASE Refunding(p)
    BY <2>3 DEF Refunding, Step, SetStatus, CancelInvoice, Cancel, CancelFails
  <2>4. CASE Settling(p)
    BY <2>4 DEF Settling, Step, SetStatus, Settle, SettleFails, UpdateAsPaid
  <2> QED BY <1>2, <2>1, <2>2, <2>3, <2>4 DEF ProcessOrder
<1>3. CASE \E p \in Orders : Sending(p) \/ RejectFails(p)
  BY <1>3 DEF Sending, OrderSent, OrderNotSent, RejectFails, Step
<1>4. CASE Messages
  <2> PICK m \in requests : SendInfo(m) \/ SendOrder(m) \/ ReceiveOrder(m)
    BY <1>4 DEF Messages
  <2> QED BY DEF Receive, SendInfo, SendOrder, ReceiveOrder
<1>5. CASE Process
  BY <1>5 DEF Process, StopListening, ServerStops, ServerStarts, InvoiceAfter
<1>6. CASE Network
  BY <1>6 DEF Network, MessageLost, PaymentHeld, InvoiceExpires, PaymentEnds,
    CancelInvoice
<1>7. CASE UNCHANGED vars
  BY <1>7 DEF vars
<1> QED BY <1>1, <1>2, <1>3, <1>4, <1>5, <1>6, <1>7 DEF Next

LEMMA IdsStep ==
  ASSUME TypeOK, [Next]_vars, NEW o \in Orders, IdsFollow(o)
  PROVE  IdsFollow(o)'
<1>0. /\ asks[o] \in Nat
      /\ \A m \in requests : m.order \in Orders /\ m.id \in Nat
      /\ \A m \in replies : m.id \in Nat
  BY AsksAssumption DEF TypeOK, ClientTypes, WireTypes
<1> USE <1>0 DEF IdsFollow, CreateId, TypeOK, ServerTypes, ClientTypes, serving, client,
      wire, nodes
<1>1. ASSUME NEW p \in Orders, Client(p) PROVE IdsFollow(o)'
  <2> USE DEF ClientOnly, GoTo
  <2>1. CASE Start(p) \/ Paid(p) \/ Recover(p)
    BY <2>1 DEF Start, Paid, Recover, Ask
  <2>2. CASE GetFee(p) \/ Accept(p) \/ ClientFails(p)
    BY <2>2 DEF GetFee, Accept, ClientFails
  <2>3. CASE \E m \in replies : HearLimits(p, m)
    BY <2>3 DEF HearLimits, Ask
  <2>4. CASE \E m \in replies : HearQuote(p, m) \/ HearOrder(p, m)
    BY <2>4 DEF HearQuote, HearOrder
  <2> QED BY <1>1, <2>1, <2>2, <2>3, <2>4 DEF Client
<1>2. ASSUME NEW p \in Orders, ProcessOrder(p) PROVE IdsFollow(o)'
  <2>1. CASE MakeInvoice(p)
    BY <2>1 DEF MakeInvoice, Step, Reply
  <2>2. CASE ~MakeInvoice(p)
    BY <1>2, <2>2 DEF ProcessOrder, Quoting, Waiting, Rating, Opening, Refunding,
      Settling, Step, QuoteFails, WaitForPayment, StopWaiting, GetOpenFeeRate,
      GetOpenFeeRateFails, AcceptsOpen, OpenChannel, OpenFails, Cancel, CancelFails,
      Settle, SettleFails, UpdateAsPaid
  <2> QED BY <2>1, <2>2
<1>3. CASE \E p \in Orders : Sending(p) \/ RejectFails(p)
  BY <1>3 DEF Sending, OrderSent, OrderNotSent, RejectFails, Step
<1>4. CASE Messages
  <2> PICK m \in requests : SendInfo(m) \/ SendOrder(m) \/ ReceiveOrder(m)
    BY <1>4 DEF Messages
  <2> QED BY DEF Receive, Reply, SendInfo, SendOrder, ReceiveOrder
<1>5. CASE Process
  BY <1>5 DEF Process, StopListening, ServerStops, ServerStarts
<1>6. CASE Network
  BY <1>6 DEF Network, MessageLost, PaymentHeld, InvoiceExpires, PaymentEnds
<1>7. CASE UNCHANGED vars
  BY <1>7 DEF vars
<1> QED BY <1>1, <1>2, <1>3, <1>4, <1>5, <1>6, <1>7 DEF Next

LEMMA TellingsStep ==
  ASSUME TypeOK, [Next]_vars, NEW o \in Orders,
         StatusAt(o), IdsFollow(o), TellingsFollow(o)
  PROVE  TellingsFollow(o)'
<1>0. /\ asks[o] \in Nat
      /\ \A m \in requests : m.order \in Orders /\ m.id \in Nat
      /\ \A m \in replies : m.order \in Orders /\ m.id \in Nat
  BY AsksAssumption DEF TypeOK, ClientTypes, WireTypes
<1>1. /\ \A m \in replies : m.order = o => m.id <= asks[o]
      /\ cli[o] = "status" => asks[o] > CreateId
  BY DEF IdsFollow
<1> USE DEF TypeOK, ServerTypes, ClientTypes, TellingsFollow, Tellings, Answers,
      serving, client, wire, nodes
\* A step that sends nothing to this client, and that it does not take
<1>2. ASSUME replies' \subseteq replies, asks'[o] = asks[o], seen'[o] = seen[o],
             cli'[o] = cli[o],
             srv'[o] \in {"none", "quoting", "rejected"}
               => srv[o] \in {"none", "quoting", "rejected"},
             status'[o] # "absent"
               => status[o] # "absent" /\ Later(status[o], status'[o]),
             status'[o] \in Statuses
      PROVE  TellingsFollow(o)'
  <2>1. status'[o] # "absent" =>
          /\ Later(seen'[o], status'[o])
          /\ \A m \in Tellings(o) : Later(m.body, status'[o])
    BY <1>2, LaterOrder
  <2> QED BY <1>2, <2>1
<1>3. Later(status[o], status[o])
  BY LaterOrder
<1>4. ASSUME NEW p \in Orders, Client(p) PROVE TellingsFollow(o)'
  <2> USE DEF ClientOnly, GoTo
  <2>1. CASE p # o
    <3>1. replies' \subseteq replies /\ UNCHANGED serving
      BY <1>4 DEF Client, Start, HearLimits, HearQuote, GetFee, Accept, Paid,
        HearOrder, ClientFails, Recover
    <3>2. asks'[o] = asks[o] /\ seen'[o] = seen[o] /\ cli'[o] = cli[o]
      BY <1>4, <2>1 DEF Client, Ask, Start, HearLimits, HearQuote, GetFee, Accept,
        Paid, HearOrder, ClientFails, Recover
    <3> QED BY <1>2, <1>3, <3>1, <3>2
  <2>2. CASE Start(o) \/ GetFee(o) \/ Accept(o) \/ ClientFails(o)
    BY <2>2 DEF Start, GetFee, Accept, ClientFails
  <2>3. CASE Paid(o) \/ Recover(o)
    <3>1. asks'[o] = asks[o] + 1 /\ UNCHANGED <<replies, seen, serving>>
      BY <2>3 DEF Paid, Recover, Ask
    <3>2. Answers(o)' = {}
      BY <3>1, <1>0, <1>1
    <3>3. cli'[o] = "status"
      BY <2>3 DEF Paid, Recover
    <3> QED BY <3>1, <3>2, <3>3
  <2>4. CASE \E m \in replies : HearLimits(o, m)
    BY <2>4 DEF HearLimits
  <2>5. CASE \E m \in replies : HearQuote(o, m) \/ HearOrder(o, m)
    <3>1. PICK m \in replies : HearQuote(o, m) \/ HearOrder(o, m)
      BY <2>5
    <3>2. /\ m \in Tellings(o) /\ seen'[o] = m.body
          /\ cli'[o] \in {"probe", "done"}
          /\ replies' \subseteq replies /\ UNCHANGED serving
      BY <3>1 DEF HearQuote, HearOrder, IsReply, Statuses
    <3> QED BY <3>2
  <2> QED BY <1>4, <2>1, <2>2, <2>3, <2>4, <2>5 DEF Client
<1>5. ASSUME NEW p \in Orders, ProcessOrder(p) PROVE TellingsFollow(o)'
  <2>1. CASE MakeInvoice(p) /\ p = o
    <3>1. seen[o] = "absent" /\ Tellings(o) = {} /\ status'[o] = "created"
      BY <2>1 DEF MakeInvoice, Step, SetStatus
    <3>2. \A m \in Tellings(o)' : m.body = "created" /\ m.id = CreateId
      BY <2>1, <3>1 DEF MakeInvoice, Reply
    <3>3. srv'[o] = "waiting" /\ UNCHANGED <<seen, cli, asks>>
      BY <2>1 DEF MakeInvoice, Step
    <3>4. cli[o] = "status" => Answers(o)' = {}
      BY <3>2, <3>3, <1>0, <1>1 DEF CreateId
    <3>5. Later("absent", "created") /\ Later("created", "created")
      BY LaterOrder DEF Statuses
    <3> QED BY <3>1, <3>2, <3>3, <3>4, <3>5
  <2>2. CASE MakeInvoice(p) /\ p # o
    <3>1. Tellings(o)' = Tellings(o) /\ Answers(o)' = Answers(o)
      BY <2>2 DEF MakeInvoice, Reply
    <3>2. /\ status'[o] = status[o] /\ srv'[o] = srv[o]
          /\ seen' = seen /\ cli' = cli /\ asks' = asks
      BY <2>2 DEF MakeInvoice, Step, SetStatus
    <3> QED BY <3>1, <3>2
  <2>3. CASE ~MakeInvoice(p)
    <3> USE DEF ProcessOrder, Quoting, Waiting, Rating, Opening, Refunding, Settling,
          QuoteFails, WaitForPayment, StopWaiting, GetOpenFeeRate,
          GetOpenFeeRateFails, AcceptsOpen, OpenChannel, OpenFails, Cancel,
          CancelFails, Settle, SettleFails, UpdateAsPaid
    <3>1. UNCHANGED <<client, wire>>
      BY <1>5, <2>3
    <3>2. srv'[o] = srv[o] \/ srv'[o] \notin {"none", "quoting", "rejected"}
      BY <1>5, <2>3 DEF Step
    <3>3. /\ status'[o] # "absent"
               => status[o] # "absent" /\ Later(status[o], status'[o])
          /\ status'[o] \in Statuses
      BY <1>5, <2>3, <1>3, LaterOrder DEF Step, SetStatus, StatusAt, Statuses
    <3> QED BY <1>2, <3>1, <3>2, <3>3
  <2> QED BY <2>1, <2>2, <2>3
<1>6. CASE \E p \in Orders : Sending(p) \/ RejectFails(p)
  BY <1>6, <1>2, <1>3 DEF Sending, OrderSent, OrderNotSent, RejectFails, Step
<1>7. CASE Messages
  <2> PICK m \in requests : SendInfo(m) \/ SendOrder(m) \/ ReceiveOrder(m)
    BY <1>7 DEF Messages
  <2>1. UNCHANGED <<status, seen, cli, asks>>
    BY DEF SendInfo, SendOrder, ReceiveOrder
  <2>2. srv'[o] \in {"none", "quoting", "rejected"}
          => srv[o] \in {"none", "quoting", "rejected"}
    BY <1>0 DEF SendInfo, SendOrder, ReceiveOrder
  <2>3. \A r \in Tellings(o)' :
          r \in Tellings(o) \/ (r.body = status[o] /\ status[o] # "absent")
    BY DEF SendInfo, SendOrder, ReceiveOrder, Reply, Statuses
  <2>4. srv'[o] \in {"none", "quoting", "rejected"} => status[o] = "absent"
    BY <2>2 DEF StatusAt
  <2> QED BY <1>3, <2>1, <2>2, <2>3, <2>4
<1>8. CASE Process
  BY <1>8, <1>2, <1>3 DEF Process, StopListening, ServerStops, ServerStarts, Statuses
<1>9. CASE Network
  BY <1>9, <1>2, <1>3 DEF Network, MessageLost, PaymentHeld, InvoiceExpires,
    PaymentEnds
<1>10. CASE UNCHANGED vars
  BY <1>10, <1>2, <1>3 DEF vars
<1> QED BY <1>4, <1>5, <1>6, <1>7, <1>8, <1>9, <1>10 DEF Next

LEMMA BuyerStep ==
  ASSUME TypeOK, OrderInv, [Next]_vars, NEW o \in Orders,
         StatusAt(o), IdsFollow(o), BuyerFollows(o)
  PROVE  BuyerFollows(o)'
<1>0. /\ asks[o] \in Nat
      /\ \A m \in requests : m.order \in Orders /\ m.id \in Nat
      /\ \A m \in replies : m.order \in Orders /\ m.id \in Nat
  BY AsksAssumption DEF TypeOK, ClientTypes, WireTypes
<1>1. \A m \in replies : m.order = o => m.id <= asks[o]
  BY DEF IdsFollow
<1>2. InvoiceFollows(o)
  BY DEF OrderInv
<1> USE DEF TypeOK, ServerTypes, ClientTypes, NodeTypes, BuyerFollows, Tellings, Answers,
      serving, client, wire, nodes
<1>3. ASSUME replies' \subseteq replies, UNCHANGED client,
             invoice[o] = "settled" => invoice'[o] = "settled"
      PROVE  BuyerFollows(o)'
  BY <1>3
<1>4. ASSUME NEW p \in Orders, Client(p) PROVE BuyerFollows(o)'
  <2> USE DEF ClientOnly, GoTo
  <2>1. CASE p # o
    <3>1. replies' \subseteq replies /\ UNCHANGED invoice
      BY <1>4 DEF Client, Start, HearLimits, HearQuote, GetFee, Accept, Paid,
        HearOrder, ClientFails, Recover
    <3>2. asks'[o] = asks[o] /\ seen'[o] = seen[o] /\ cli'[o] = cli[o] /\ run'[o] = run[o]
      BY <1>4, <2>1 DEF Client, Ask, Start, HearLimits, HearQuote, GetFee, Accept,
        Paid, HearOrder, ClientFails, Recover
    <3> QED BY <3>1, <3>2
  <2>2. CASE Start(o) \/ GetFee(o) \/ Accept(o) \/ ClientFails(o) \/ Recover(o)
    BY <2>2 DEF Start, GetFee, Accept, ClientFails, Recover
  <2>3. CASE Paid(o)
    <3>1. asks'[o] = asks[o] + 1 /\ UNCHANGED <<replies, invoice>>
      BY <2>3 DEF Paid, Ask
    <3>2. Answers(o)' = {}
      BY <3>1, <1>0, <1>1
    <3>3. cli'[o] = "status" /\ invoice[o] = "settled"
      BY <2>3 DEF Paid, StatusAt
    <3> QED BY <3>1, <3>2, <3>3
  <2>4. CASE \E m \in replies : HearLimits(o, m) \/ HearQuote(o, m)
    BY <2>4 DEF HearLimits, HearQuote
  <2>5. CASE \E m \in replies : HearOrder(o, m)
    BY <2>5 DEF HearOrder, IsReply
  <2> QED BY <1>4, <2>1, <2>2, <2>3, <2>4, <2>5 DEF Client
<1>5. ASSUME NEW p \in Orders, ProcessOrder(p) PROVE BuyerFollows(o)'
  <2>1. invoice[o] = "settled" => invoice'[o] = "settled"
    BY <1>5, <1>2 DEF InvoiceFollows, ProcessOrder, Quoting, Waiting, Rating, Opening,
      Refunding, Settling, Step, CancelInvoice, MakeInvoice, QuoteFails,
      WaitForPayment, StopWaiting, GetOpenFeeRate, GetOpenFeeRateFails, AcceptsOpen,
      OpenChannel, OpenFails, Cancel, CancelFails, Settle, SettleFails, UpdateAsPaid
  <2>2. CASE MakeInvoice(p)
    <3>1. invoice[o] = "settled" => p # o
      BY <2>2, <1>2 DEF MakeInvoice, Step, InvoiceFollows
    <3>2. p # o => Answers(o)' = Answers(o)
      BY <2>2 DEF MakeInvoice, Reply
    <3>3. UNCHANGED client
      BY <2>2 DEF MakeInvoice
    <3> QED BY <2>1, <3>1, <3>2, <3>3
  <2>3. CASE ~MakeInvoice(p)
    <3>1. UNCHANGED <<client, wire>>
      BY <1>5, <2>3 DEF ProcessOrder, Quoting, Waiting, Rating, Opening, Refunding,
        Settling, QuoteFails, WaitForPayment, StopWaiting, GetOpenFeeRate,
        GetOpenFeeRateFails, AcceptsOpen, OpenChannel, OpenFails, Cancel,
        CancelFails, Settle, SettleFails, UpdateAsPaid
    <3> QED BY <1>3, <2>1, <3>1
  <2> QED BY <2>2, <2>3
<1>6. CASE \E p \in Orders : Sending(p) \/ RejectFails(p)
  BY <1>6, <1>3 DEF Sending, OrderSent, OrderNotSent, RejectFails
<1>7. CASE Messages
  <2> PICK m \in requests : SendInfo(m) \/ SendOrder(m) \/ ReceiveOrder(m)
    BY <1>7 DEF Messages
  <2>1. UNCHANGED <<client, nodes>>
    BY DEF SendInfo, SendOrder, ReceiveOrder
  <2>2. \A r \in Answers(o)' :
          r \in Answers(o) \/ (r.body = status[o] /\ status[o] # "absent")
    BY <2>1 DEF SendInfo, SendOrder, ReceiveOrder, Reply, Statuses
  <2> QED BY <2>1, <2>2 DEF StatusAt
<1>8. CASE Process
  BY <1>8, <1>3, <1>2 DEF Process, StopListening, ServerStops, ServerStarts, InvoiceAfter,
    InvoiceFollows
<1>9. CASE Network
  BY <1>9, <1>3 DEF Network, MessageLost, PaymentHeld, InvoiceExpires, PaymentEnds,
    CancelInvoice
<1>10. CASE UNCHANGED vars
  BY <1>10, <1>3 DEF vars
<1> QED BY <1>4, <1>5, <1>6, <1>7, <1>8, <1>9, <1>10 DEF Next

LEMMA TellStep == TypeOK /\ OrderInv /\ TellInv /\ [Next]_vars => TellInv'
BY StatusAtStep, IdsStep, TellingsStep, BuyerStep DEF TellInv

LEMMA ToldLater ==
  ASSUME TypeOK, TellInv, [Next]_vars, NEW o \in Orders
  PROVE  Later(seen[o], seen'[o])
<1>0. /\ TellingsFollow(o) /\ IdsFollow(o) /\ Later(seen[o], seen[o])
      /\ \A s \in Statuses : Later("absent", s)
  BY LaterOrder DEF TellInv, TypeOK, ClientTypes
<1> USE <1>0 DEF TypeOK, ClientTypes, serving, client, wire, nodes
<1>1. ASSUME NEW p \in Orders, Client(p) PROVE Later(seen[o], seen'[o])
  <2>1. CASE UNCHANGED seen
    BY <2>1
  <2>2. CASE \E m \in replies : HearQuote(p, m)
    BY <2>2 DEF HearQuote, TellingsFollow, Statuses
  <2>3. CASE \E m \in replies : HearOrder(p, m)
    BY <2>3 DEF HearOrder, IsReply, TellingsFollow, Answers, Tellings
  <2> QED BY <1>1, <2>1, <2>2, <2>3 DEF Client, Start, HearLimits, GetFee, Accept,
        Paid, ClientFails, Recover
<1>2. CASE UNCHANGED seen
  BY <1>2
<1> QED BY <1>1, <1>2 DEF Next, ProcessOrder, Quoting, Waiting, Rating, Opening,
      Refunding, Settling, Sending, RejectFails, MakeInvoice, QuoteFails,
      WaitForPayment, StopWaiting, GetOpenFeeRate, GetOpenFeeRateFails, AcceptsOpen,
      OpenChannel, OpenFails, Cancel, CancelFails, Settle, SettleFails, UpdateAsPaid,
      OrderSent, OrderNotSent, Messages, SendInfo, SendOrder, ReceiveOrder, Process,
      StopListening, ServerStops, ServerStarts, Network, MessageLost, PaymentHeld,
      InvoiceExpires, PaymentEnds, vars

(* A buyer whose payment went through is told of the channel by the run    *)
(* that paid (lsps1_client.js asks once the payment is confirmed), since   *)
(* open_sold_channel.js records the channel before it settles the invoice. *)
THEOREM BuyerSees == Spec => []BuyerSeesChannel
<1>1. TellInv => BuyerSeesChannel
  BY DEF TellInv, BuyerFollows, BuyerSeesChannel
<1> QED BY <1>1, TypeInit, TypeStep, OrderInvInit, OrderInvStep, TellInit, TellStep,
           PTL DEF Spec

(* What a client is told of an order never goes back, although replies to  *)
(* earlier requests may still be under way: make_request.js listens only   *)
(* for the id of its own request, and send_order.js reads the order as it  *)
(* is when it answers.                                                     *)
THEOREM ToldForward == Spec => NeverToldLess
<1>1. TypeOK /\ TellInv /\ [Next]_vars =>
        [\A o \in Orders :
           /\ Rank(seen[o]) <= Rank(seen'[o])
           /\ seen[o] = "refunded" => seen'[o] = "refunded"]_seen
  BY ToldLater DEF Later
<1> QED BY <1>1, TypeInit, TypeStep, OrderInvInit, OrderInvStep, TellInit, TellStep,
           PTL DEF Spec, NeverToldLess

=============================================================================
