------------------------------ MODULE KeySend -------------------------------
(***************************************************************************)
(* `bos services`: a ping, a payment to the node that carries a request,   *)
(* is returned with a pong that pays the request                           *)
(* (src/services/service_key_send_requests.js over                         *)
(* respond_to_key_send_request.js and respond_to_key_send_ping.js).        *)
(*                                                                         *)
(* The past invoices and the updates of invoices are processed at once:    *)
(* one ping may be processed twice, and again after a restart, while a     *)
(* pong is in flight.  A ping is simulated by an invoice that nobody need  *)
(* pay.  The lock that is made for a ping is an invoice of another id than *)
(* the one that is looked for.                                             *)
(***************************************************************************)
EXTENDS Integers, FiniteSets, Functions

CONSTANTS
  Pings,         \* the invoices of the node that pings pay, or that simulate one
  Hashes,        \* the requests the pings carry
  Deliveries,    \* what the pings may be: assignments of a ping to each
  MinPrice, MaxPrice,   \* what a ping must cost (10 and 200)
  PongTokens,    \* what a pong pays (1)
  PongFees,      \* the fees that routes may cost
  Starts         \* bound on the runs of the service

VARIABLES
  delivery,      \* [Pings -> the ping]
  serving,       \* the run of the service, 0 when it does not run
  runs,          \* the runs there were
  invoice,       \* [Pings -> the state of the invoice]
  old,           \* those that were paid more than an hour ago
  live,          \* updates of invoices that the service was not told of yet
  paged,         \* the past invoices were processed
  task,          \* [Tasks -> how far the response is]
  locks,         \* the lock invoices: pings whose lock id is that of an invoice
  pongs          \* [Hashes -> the payment of the request]

keySend == <<delivery, serving, runs, invoice, old, live, paged, task, locks, pongs>>

\* kind: a ping, another message, or a simulated ping (the message is the description
\* of the invoice); received: what the ping pays, and for a simulated ping what its
\* invoice asks for; request: it has not expired and is for the tokens of a pong
NoPing == [kind |-> "other", received |-> 0, hash |-> "none", request |-> FALSE]

\* Fees are not negative; a request that can be paid has a hash
ASSUME DeliveriesAssumption ==
  /\ PongTokens \in Nat /\ PongFees \subseteq Nat /\ Starts \in Nat
  /\ \A d \in Deliveries : /\ d = [p \in Pings |-> d[p]]
                            /\ \A p \in Pings : /\ d[p].received \in Nat
                                                /\ d[p].request => d[p].hash \in Hashes

\* An invoice is processed as one of the past, when it is created and when it is settled
Tasks == Pings \X {"past", "open", "paid"}
Stages == {"none", "lock", "status", "alias", "pong", "paying", "done"}
NoPong == [state |-> "none", ping |-> "none", cost |-> 0]

KeySendTypes ==
  /\ serving \in 0 .. Starts /\ runs \in 0 .. Starts /\ paged \in BOOLEAN
  /\ invoice \in [Pings -> {"none", "open", "paid", "canceled"}]
  /\ old \subseteq Pings /\ live \subseteq Pings \X {"open", "paid"} /\ locks \subseteq Pings
  /\ task \in [Tasks -> Stages]
  /\ \A h \in Hashes : /\ pongs[h].state \in {"none", "flight", "settled", "failed"}
                       /\ pongs[h].cost \in Nat

Quiet ==
  /\ serving = 0 /\ runs = 0 /\ invoice = [p \in Pings |-> "none"] /\ old = {} /\ live = {}
  /\ paged = FALSE
  /\ task = [t \in Tasks |-> "none"] /\ locks = {} /\ pongs = [h \in Hashes |-> NoPong]
NotServing == Quiet /\ delivery = [p \in Pings |-> NoPing]
KeySendInit == Quiet /\ delivery \in Deliveries

Active == delivery # [p \in Pings |-> NoPing]
At(t, s) == task' = [task EXCEPT ![t] = s]
Ping(t) == delivery[t[1]]
Pong(t) == pongs[Ping(t).hash]
TasksOnly == UNCHANGED <<delivery, serving, runs, invoice, old, live, paged>>

-----------------------------------------------------------------------------
(* The service                                                             *)

Serve ==
  /\ Active /\ serving = 0 /\ runs < Starts
  /\ serving' = runs + 1 /\ runs' = runs + 1 /\ paged' = FALSE
  /\ UNCHANGED <<delivery, invoice, old, live, task, locks, pongs>>

\* The subscription fails or the program stops: the responses stop, payments do not
StopServing ==
  /\ serving # 0 /\ serving' = 0 /\ live' = {}
  /\ task' = [t \in Tasks |-> "none"]
  /\ UNCHANGED <<delivery, runs, invoice, old, paged, locks, pongs>>

\* Mutant of Taken: a ping is taken before its payment is settled
Unsettled(p, e) == e \in {"open", "paid"} /\ p \notin old
\* A simulated ping is taken at any age, paid or not; another one only in the hour after
\* it was paid
Taken(p, e) ==
  \/ delivery[p].kind = "simulated" /\ e \in {"open", "paid"}
  \/ e = "paid" /\ p \notin old

ProcessPast ==
  /\ serving # 0 /\ ~paged /\ paged' = TRUE
  /\ \/ task' = [t \in Tasks |-> IF t[2] = "past" /\ Taken(t[1], invoice[t[1]])
                                 THEN "lock" ELSE task[t]]
     \/ UNCHANGED task          \* the invoices cannot be read: only logged
  /\ UNCHANGED <<delivery, serving, runs, invoice, old, live, locks, pongs>>

\* The update tells the state that the invoice had then
ProcessNew ==
  /\ serving # 0
  /\ \E t \in live : /\ live' = live \ {t}
                     /\ IF Taken(t[1], t[2]) THEN At(t, "lock") ELSE UNCHANGED task
  /\ UNCHANGED <<delivery, serving, runs, invoice, old, paged, locks, pongs>>

\* The lock that is looked for has the hash of the ping as its id.  The one that is
\* created has an id of its own, so that none is ever found
Lock(t) ==
  /\ task[t] = "lock"
  /\ \/ At(t, "done")           \* the invoice cannot be created
     \/ At(t, IF t[1] \in locks \/ Ping(t).kind = "other" THEN "done" ELSE "status")
  /\ UNCHANGED <<locks, pongs>> /\ TasksOnly

\* A request that cannot be parsed is found out later; a payment that did not fail
\* is not made again, and when it cannot be read there is none
GetStatus(t) ==
  /\ task[t] = "status"
  /\ \/ At(t, "alias")
     \/ Pong(t).state \in {"flight", "settled"} /\ At(t, "done")
  /\ UNCHANGED <<locks, pongs>> /\ TasksOnly

GetAlias(t) ==
  /\ task[t] = "alias"
  /\ At(t, "pong") \/ At(t, "done")
  /\ UNCHANGED <<locks, pongs>> /\ TasksOnly

Payable(p) == p.request /\ p.received >= MinPrice /\ p.received <= MaxPrice

\* Mutant of FeeBudget: what the pong pays is not taken from the fees
AllForFees(p) == p.received
FeeBudget(p) == p.received - PongTokens

\* The node pays a request once at a time, and never again when it was paid
SendPong(t) ==
  /\ task[t] = "pong"
  /\ IF ~Payable(Ping(t)) \/ Pong(t).state \in {"flight", "settled"}
     THEN At(t, "done") /\ UNCHANGED pongs
     ELSE /\ At(t, "paying")
          /\ \E fee \in PongFees :
               /\ fee <= FeeBudget(Ping(t))
               /\ pongs' = [pongs EXCEPT ![Ping(t).hash] =
                    [state |-> "flight", ping |-> t[1], cost |-> PongTokens + fee]]
  /\ UNCHANGED locks /\ TasksOnly

\* An answer, or none: either is only logged
PongAnswered(t) ==
  /\ task[t] = "paying" /\ At(t, "done")
  /\ UNCHANGED <<locks, pongs>> /\ TasksOnly

-----------------------------------------------------------------------------
(* The network                                                             *)

InvoiceIs(p, e) ==
  /\ invoice' = [invoice EXCEPT ![p] = e]
  /\ live' = IF serving # 0 /\ e # "canceled" THEN live \cup {<<p, e>>} ELSE live
  /\ UNCHANGED <<delivery, serving, runs, old, paged, task, locks, pongs>>

\* The invoice of a payment that arrives is held at first; a simulated one is made by
\* the operator of the node
PingArrives == \E p \in Pings : delivery[p] # NoPing /\ invoice[p] = "none" /\ InvoiceIs(p, "open")

PingPaid == \E p \in Pings : invoice[p] = "open" /\ InvoiceIs(p, "paid")

\* The subscription tells of no invoice that is canceled
PingCanceled == \E p \in Pings : invoice[p] = "open" /\ InvoiceIs(p, "canceled")

PingAges ==
  /\ \E p \in Pings \ old : invoice[p] = "paid" /\ old' = old \cup {p}
  /\ UNCHANGED <<delivery, serving, runs, invoice, live, paged, task, locks, pongs>>

PongEnds ==
  /\ \E h \in Hashes, s \in {"settled", "failed"} :
       /\ pongs[h].state = "flight" /\ pongs' = [pongs EXCEPT ![h].state = s]
  /\ UNCHANGED <<delivery, serving, runs, invoice, old, live, paged, task, locks>>

KeySendNext ==
  \/ Serve \/ StopServing \/ ProcessPast \/ ProcessNew
  \/ \E t \in Tasks : Lock(t) \/ GetStatus(t) \/ GetAlias(t) \/ SendPong(t) \/ PongAnswered(t)
  \/ PingArrives \/ PingPaid \/ PingCanceled \/ PingAges \/ PongEnds

-----------------------------------------------------------------------------
(* Properties                                                              *)

Costs(p) == {h \in Hashes : pongs[h].ping = p /\ pongs[h].state \in {"flight", "settled"}}

\* A ping that is not simulated has a pong only when it was paid, and what its pongs cost
\* is not more than it paid, though it is processed twice, as it arrives and as it is
\* settled, and again after restarts (respond_to_key_send_request.js:74,
\* key_send_request_arguments.js:60).  For a simulated ping, the pongs cost no more than
\* its invoice asks for: nobody may have paid that
PongsPaidFor ==
  \A p \in Pings :
    /\ FoldFunctionOnSet(+, 0, [h \in Hashes |-> pongs[h].cost], Costs(p)) <= delivery[p].received
    /\ Costs(p) # {} => delivery[p].kind = "simulated" \/ invoice[p] = "paid"
=============================================================================
