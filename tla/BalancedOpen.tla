---------------------------- MODULE BalancedOpen ----------------------------
(***************************************************************************)
(* `bos open-balanced-channel`: an initiator and an acceptor each move     *)
(* half of a channel's capacity to a transit output, and one funding       *)
(* transaction spends both outputs into the channel (src/services/         *)
(* initiate_balanced_channel.js, accept_balanced_channel.js,               *)
(* open_balanced_channel.js, get_balanced_opens.js).                       *)
(*                                                                         *)
(* Each user may stop the program at any step and start it again: a        *)
(* request is one run of the initiator, an acceptance one run of the       *)
(* acceptor, and the funding transaction of an acceptance is the one that  *)
(* spends its transit output and that of the request it answers.  Messages *)
(* and payments take their time and may be lost.  chan[a] is the channel   *)
(* of acceptance a at the two nodes:                                       *)
(*   none      not known to the acceptor's node                            *)
(*   prepared  the acceptor's node expects its proposal                    *)
(*   opening   the initiator's node proposed it                            *)
(*   half      the acceptor's node lists it as pending                     *)
(*   orphan    it does, but the proposal failed at the initiator's node   *)
(*   both      both nodes hold their commitments                           *)
(***************************************************************************)
EXTENDS Naturals, Sequences

CONSTANTS
  MaxRequests,   \* runs of the initiator
  MaxAccepts,    \* runs of the acceptor that look at a request
  PollTimes,     \* bound standing for the polls of waitForPendingOpen (360)
  SendTimes      \* bound standing for the tries of a broadcast (60)

ASSUME BoundsAssumption ==
  /\ MaxRequests \in Nat /\ MaxAccepts \in Nat
  /\ PollTimes \in Nat \ {0} /\ SendTimes \in Nat \ {0}

Requests == 1 .. MaxRequests
Accepts == 1 .. MaxAccepts
None == 0

VARIABLES
  \* the initiator's program
  irun,          \* where it is, idle when it does not run
  ireq,          \* its current or last request
  isends,        \* failed tries of its current broadcast
  answered,      \* answered[r]: the acceptance it took for request r
  \* the acceptor's program
  arun,          \* where it is, idle when it does not run
  acur,          \* its current or last acceptance
  target,        \* target[a]: the request that acceptance a answers
  apolls,        \* failed tries of its current wait or broadcast
  acked,         \* acceptances it saw confirmed over peer messages
  \* the two nodes and what is between them
  pushes,        \* key sends on their way to the acceptor
  received,      \* requests the acceptor's node was paid for, oldest first
  invoice,       \* invoice[r]: the accept request on the initiator's node
  canceling,     \* cancelHodlInvoice calls in flight
  payment,       \* payment[r]: the acceptor's payment of that accept request
  payer,         \* payer[r]: the acceptance whose details it carries
  asks,          \* acceptances sent as a peer message, on their way
  acks,          \* their success answers, on their way
  chan,          \* the channel of each acceptance
  \* the chain
  initTransit,   \* requests whose transit transaction was published
  accTransit,    \* acceptances whose transit transaction was published
  funded         \* acceptances whose funding transaction was published

initiator == <<irun, ireq, isends, answered>>
acceptor == <<arun, acur, target, apolls, acked>>
invoices == <<invoice, canceling>>
payments == <<payment, payer>>
wire == <<asks, acks>>
keysends == <<pushes, received>>
chain == <<initTransit, accTransit, funded>>
vars == <<irun, ireq, isends, answered, arun, acur, target, apolls,
          acked, pushes, received, invoice, canceling, payment, payer,
          asks, acks, chan, initTransit, accTransit, funded>>

InitiatorSteps == {"idle", "push", "wait", "propose", "transit", "fund"}
AcceptorSteps == {"idle", "confirm", "p2p", "pay", "paying", "pending",
                  "transit"}

InitiatorTypes ==
  /\ irun \in InitiatorSteps /\ ireq \in 0 .. MaxRequests
  /\ isends \in 0 .. SendTimes
  /\ answered \in [Requests -> Accepts \cup {None}]

AcceptorTypes ==
  /\ arun \in AcceptorSteps /\ acur \in 0 .. MaxAccepts
  /\ target \in [Accepts -> Requests \cup {None}]
  /\ apolls \in 0 .. (PollTimes + SendTimes)
  /\ acked \subseteq Accepts

NodeTypes ==
  /\ pushes \subseteq Requests /\ received \in Seq(Requests)
  /\ invoice \in [Requests -> {"none", "open", "paid", "canceled"}]
  /\ canceling \subseteq Requests
  /\ payment \in [Requests -> {"none", "flight", "failed", "settled"}]
  /\ payer \in [Requests -> Accepts \cup {None}]
  /\ asks \subseteq Accepts /\ acks \subseteq Accepts
  /\ chan \in [Accepts -> {"none", "prepared", "opening", "half",
                         "orphan", "both"}]

ChainTypes ==
  /\ initTransit \subseteq Requests
  /\ accTransit \subseteq Accepts /\ funded \subseteq Accepts

TypeOK == InitiatorTypes /\ AcceptorTypes /\ NodeTypes /\ ChainTypes

Init ==
  /\ irun = "idle" /\ ireq = 0 /\ isends = 0
  /\ answered = [r \in Requests |-> None]
  /\ arun = "idle" /\ acur = 0 /\ apolls = 0 /\ acked = {}
  /\ target = [a \in Accepts |-> None]
  /\ pushes = {} /\ received = <<>> /\ canceling = {}
  /\ invoice = [r \in Requests |-> "none"]
  /\ payment = [r \in Requests |-> "none"]
  /\ payer = [r \in Requests |-> None]
  /\ asks = {} /\ acks = {}
  /\ chan = [a \in Accepts |-> "none"]
  /\ initTransit = {} /\ accTransit = {} /\ funded = {}

-----------------------------------------------------------------------------
(* The initiator                                                           *)

\* The funds are reserved in a transit transaction that is signed and kept, the
\* accept request is created, and the details are pushed.  A node that cannot send
\* peer messages serves none: the messages to it are lost
Initiate ==
  /\ irun = "idle" /\ ireq < MaxRequests
  /\ ireq' = ireq + 1 /\ irun' = "push"
  /\ invoice' = [invoice EXCEPT ![ireq'] = "open"]
  /\ pushes' = pushes \cup {ireq'}
  /\ UNCHANGED <<isends, answered, acceptor, received, canceling, payments,
                 wire, chan, chain>>

InitiatorOnly ==
  UNCHANGED <<ireq, acceptor, keysends, payments, chan>>

\* The key send was settled: the program listens on both ways to be accepted
Pushed ==
  /\ irun = "push" /\ \E i \in 1 .. Len(received) : received[i] = ireq
  /\ irun' = "wait"
  /\ UNCHANGED <<isends, answered, invoices, wire, chain>>
  /\ InitiatorOnly

\* Mutant of HearAccept: the id of the request is not compared
HearAnyAccept(a) ==
  /\ irun = "wait" /\ a \in asks
  /\ irun' = "propose"
  /\ answered' = [answered EXCEPT ![ireq] = a]
  /\ canceling' = canceling \cup {ireq}
  /\ asks' = asks \ {a} /\ acks' = acks \cup {a}
  /\ UNCHANGED <<isends, invoice, chain>>
  /\ InitiatorOnly

\* An acceptance for this request came as a peer message: the invoice is canceled
\* on the side, the peer is told, and both listeners are removed
HearAccept(a) ==
  /\ irun = "wait" /\ a \in asks /\ target[a] = ireq
  /\ irun' = "propose"
  /\ answered' = [answered EXCEPT ![ireq] = a]
  /\ canceling' = canceling \cup {ireq}
  /\ asks' = asks \ {a} /\ acks' = acks \cup {a}
  /\ UNCHANGED <<isends, invoice, chain>>
  /\ InitiatorOnly

\* The accept request was paid: its payment carries the details
SeePaid ==
  /\ irun = "wait" /\ invoice[ireq] = "paid"
  /\ irun' = "propose"
  /\ answered' = [answered EXCEPT ![ireq] = payer[ireq]]
  /\ UNCHANGED <<isends, invoices, wire, chain>>
  /\ InitiatorOnly

\* The funding transaction is signed and the channel proposed
Propose(a) ==
  /\ irun = "propose" /\ answered[ireq] = a /\ chan[a] = "prepared"
  /\ chan' = [chan EXCEPT ![a] = "opening"]
  /\ UNCHANGED <<initiator, acceptor, keysends, invoices, payments, wire,
                 chain>>

\* Mutant of Proposed: the proposal returns before the signature came
ProposedEarly(a) ==
  /\ irun = "propose" /\ answered[ireq] = a /\ chan[a] \in {"half", "both"}
  /\ irun' = "transit"
  /\ UNCHANGED <<isends, answered, invoices, wire, chain>>
  /\ InitiatorOnly

\* The proposal returns when the node has its commitment
Proposed(a) ==
  /\ irun = "propose" /\ answered[ireq] = a /\ chan[a] = "both"
  /\ irun' = "transit"
  /\ UNCHANGED <<isends, answered, invoices, wire, chain>>
  /\ InitiatorOnly

ProposeFails(a) ==
  /\ irun = "propose" /\ answered[ireq] = a /\ chan[a] \in {"none", "orphan"}
  /\ irun' = "idle"
  /\ UNCHANGED <<isends, answered, invoices, wire, chain>>
  /\ InitiatorOnly

\* The user stops the initiator, or some other request of it fails
InitiatorQuits ==
  /\ irun # "idle"
  /\ irun' = "idle" /\ isends' = 0
  /\ UNCHANGED <<answered, invoices, wire, chain>>
  /\ InitiatorOnly

\* Mutant of InitiatorRetries: the tries are not counted
InitiatorRetriesOn == UNCHANGED <<irun, isends, chain>>

\* A broadcast is tried again until its tries are used up
InitiatorRetries ==
  /\ IF isends + 1 < SendTimes THEN isends' = isends + 1 /\ UNCHANGED irun
                               ELSE isends' = 0 /\ irun' = "idle"
  /\ UNCHANGED chain

BroadcastTransit ==
  /\ irun = "transit"
  /\ \/ /\ initTransit' = initTransit \cup {ireq}
        /\ irun' = "fund" /\ isends' = 0
        /\ UNCHANGED <<accTransit, funded>>
     \/ InitiatorRetries
  /\ UNCHANGED <<answered, invoices, wire>>
  /\ InitiatorOnly

\* The network takes the funding transaction only when it knows both inputs
BroadcastFunding(a) ==
  /\ irun = "fund" /\ answered[ireq] = a
  /\ \/ /\ ireq \in initTransit /\ a \in accTransit
        /\ funded' = funded \cup {a}
        /\ irun' = "idle" /\ isends' = 0
        /\ UNCHANGED <<initTransit, accTransit>>
     \/ InitiatorRetries
  /\ UNCHANGED <<answered, invoices, wire>>
  /\ InitiatorOnly

-----------------------------------------------------------------------------
(* The acceptor                                                            *)

AcceptorOnly == UNCHANGED <<initiator, keysends, invoices>>

\* Only the latest request of a peer is looked at, and only while no payment of
\* its accept request is known, or the payment failed
Offered ==
  IF received = <<>> THEN {}
  ELSE {r \in {received[Len(received)]} : payment[r] \in {"none", "failed"}}

GetBalancedOpens(r) ==
  /\ arun = "idle" /\ r \in Offered /\ acur < MaxAccepts
  /\ arun' = "confirm" /\ acur' = acur + 1
  /\ target' = [target EXCEPT ![acur'] = r]
  /\ UNCHANGED <<apolls, acked, payments, wire, chan, chain>>
  /\ AcceptorOnly

\* The user confirms: the funds are reserved, the funding transaction is built
\* and signed, and the node is told to expect the proposal.  Then the acceptance
\* is sent as a peer message, if it can be sent
Accept ==
  /\ arun = "confirm" /\ arun' = "p2p"
  /\ chan' = [chan EXCEPT ![acur] = "prepared"]
  /\ asks' \in {asks, asks \cup {acur}}
  /\ UNCHANGED <<acur, target, apolls, acked, payments, acks, chain>>
  /\ AcceptorOnly

\* Mutant of HearAck: the answer to any acceptance is taken
HearAnyAck ==
  /\ arun = "p2p" /\ acks # {}
  /\ arun' = "pending"
  /\ acked' = acked \cup {acur} /\ acks' = {}
  /\ UNCHANGED <<acur, target, apolls, payments, asks, chan, chain>>
  /\ AcceptorOnly

\* The peer answered in time
HearAck ==
  /\ arun = "p2p" /\ acur \in acks
  /\ arun' = "pending"
  /\ acked' = acked \cup {acur} /\ acks' = acks \ {acur}
  /\ UNCHANGED <<acur, target, apolls, payments, asks, chan, chain>>
  /\ AcceptorOnly

\* Mutant of AckTimeout: the request to the peer has no timeout
NoAckTimeout == FALSE /\ UNCHANGED vars

\* No answer in time, a failure answer, or the message was not sent: the payment
\* is the fallback
AckTimeout ==
  /\ arun = "p2p" /\ arun' = "pay"
  /\ UNCHANGED <<acur, target, apolls, acked, payments, wire, chan,
                 chain>>
  /\ AcceptorOnly

\* A payment that is in flight or settled is not made twice
PayAcceptRequest ==
  /\ arun = "pay" /\ payment[target[acur]] \in {"none", "failed"}
  /\ arun' = "paying"
  /\ payment' = [payment EXCEPT ![target[acur]] = "flight"]
  /\ payer' = [payer EXCEPT ![target[acur]] = acur]
  /\ UNCHANGED <<acur, target, apolls, acked, wire, chan, chain>>
  /\ AcceptorOnly

AcceptPaid ==
  /\ arun = "paying" /\ payment[target[acur]] = "settled"
  /\ arun' = "pending"
  /\ UNCHANGED <<acur, target, apolls, acked, payments, wire, chan,
                 chain>>
  /\ AcceptorOnly

\* The payment failed, or is known to have been made by an earlier run
AcceptNotPaid ==
  /\ \/ arun = "paying" /\ payment[target[acur]] = "failed"
     \/ arun = "pay" /\ payment[target[acur]] \in {"flight", "settled"}
  /\ arun' = "idle"
  /\ UNCHANGED <<acur, target, apolls, acked, payments, wire, chan,
                 chain>>
  /\ AcceptorOnly

\* The user stops or declines, or some other request of the acceptor fails
AcceptorQuits ==
  /\ arun # "idle"
  /\ arun' = "idle" /\ apolls' = 0
  /\ UNCHANGED <<acur, target, acked, payments, wire, chan, chain>>
  /\ AcceptorOnly

\* Mutant of IsPendingOpen: any channel that the peer is opening is taken
IsAnyPendingOpen(a) == \E b \in Accepts : chan[b] \in {"half", "orphan", "both"}

\* The node lists the channel of this acceptance and this funding transaction
IsPendingOpen(a) == chan[a] \in {"half", "orphan", "both"}

\* Mutant of AcceptorRetries: the tries are counted and not limited
AcceptorRetriesOn(times) == apolls' = apolls + 1 /\ UNCHANGED arun

\* The wait or the broadcast is tried again until its tries are used up
AcceptorRetries(times) ==
  IF apolls + 1 < times THEN apolls' = apolls + 1 /\ UNCHANGED arun
                        ELSE apolls' = 0 /\ arun' = "idle"

WaitForPendingOpen ==
  /\ arun = "pending"
  /\ IF IsPendingOpen(acur)
       THEN arun' = "transit" /\ apolls' = 0
       ELSE AcceptorRetries(PollTimes)
  /\ UNCHANGED <<acur, target, acked, payments, wire, chan, chain>>
  /\ AcceptorOnly

BroadcastAcceptTransit ==
  /\ arun = "transit"
  /\ \/ /\ accTransit' = accTransit \cup {acur}
        /\ arun' = "idle" /\ apolls' = 0
     \/ AcceptorRetries(SendTimes) /\ UNCHANGED accTransit
  /\ UNCHANGED <<acur, target, acked, payments, wire, chan,
                 initTransit, funded>>
  /\ AcceptorOnly

-----------------------------------------------------------------------------
(* The nodes and the network, modelled from how the code uses them         *)

programs == <<initiator, acceptor>>

\* A key send settles, however late, or is lost
PushSettles(r) ==
  /\ r \in pushes
  /\ pushes' = pushes \ {r}
  /\ received' \in {received, Append(received, r)}
  /\ UNCHANGED <<programs, invoices, payments, wire, chan, chain>>

\* A payment settles on an open accept request only
PaymentEnds(r) ==
  /\ payment[r] = "flight"
  /\ \/ /\ invoice[r] = "open"
        /\ invoice' = [invoice EXCEPT ![r] = "paid"]
        /\ payment' = [payment EXCEPT ![r] = "settled"]
     \/ /\ payment' = [payment EXCEPT ![r] = "failed"]
        /\ UNCHANGED invoice
  /\ UNCHANGED <<programs, keysends, canceling, payer, wire, chan, chain>>

\* A paid accept request cannot be canceled
CancelHodlInvoice(r) ==
  /\ r \in canceling
  /\ canceling' = canceling \ {r}
  /\ invoice' = IF invoice[r] = "open"
                  THEN [invoice EXCEPT ![r] = "canceled"] ELSE invoice
  /\ UNCHANGED <<programs, keysends, payments, wire, chan, chain>>

\* A message is lost, or comes where nobody listens for its request
MessageLost(a) ==
  /\ a \in asks \cup acks
  /\ asks' = asks \ {a} /\ acks' = acks \ {a}
  /\ UNCHANGED <<programs, keysends, invoices, payments, chan, chain>>

\* Once proposed the channel is set up between the nodes by themselves
NodesOpen(a) ==
  /\ \/ chan[a] = "opening" /\ chan' = [chan EXCEPT ![a] = "half"]
     \/ chan[a] = "half" /\ chan' = [chan EXCEPT ![a] = "both"]
     \/ chan[a] = "half" /\ chan' = [chan EXCEPT ![a] = "orphan"]
     \/ /\ chan[a] \in {"prepared", "opening"}
        /\ chan' = [chan EXCEPT ![a] = "none"]
  /\ UNCHANGED <<programs, keysends, invoices, payments, wire, chain>>

-----------------------------------------------------------------------------

InitiatorGoesOn ==
  \/ Pushed \/ SeePaid \/ BroadcastTransit
  \/ \E a \in Accepts : HearAccept(a) \/ Propose(a) \/ Proposed(a)
                        \/ ProposeFails(a) \/ BroadcastFunding(a)

AcceptorGoesOn ==
  \/ HearAck \/ AckTimeout \/ PayAcceptRequest \/ AcceptPaid \/ AcceptNotPaid
  \/ WaitForPendingOpen \/ BroadcastAcceptTransit

Users ==
  \/ Initiate \/ InitiatorQuits \/ Accept \/ AcceptorQuits
  \/ \E r \in Requests : GetBalancedOpens(r)

Nodes == \E a \in Accepts : NodesOpen(a)

Network ==
  \/ \E r \in Requests : PushSettles(r) \/ PaymentEnds(r) \/ CancelHodlInvoice(r)
  \/ \E a \in Accepts : MessageLost(a)

Next == InitiatorGoesOn \/ AcceptorGoesOn \/ Users \/ Nodes \/ Network

Spec == Init /\ [][Next]_vars

\* Programs go on when they can, a channel that is set up gets set up or fails, and
\* messages and payments end; what users do is not forced
FairSpec ==
  /\ Spec
  /\ WF_vars(InitiatorGoesOn) /\ WF_vars(AcceptorGoesOn)
  /\ WF_vars(Network)
  /\ WF_vars(\E a \in Accepts : chan[a] # "prepared" /\ NodesOpen(a))

-----------------------------------------------------------------------------
(* Properties                                                              *)

(* Neither side moves its half of the capacity before the node of that     *)
(* side has a commitment for exactly this pair of request and acceptance.  *)
TransitAfterPending ==
  /\ \A a \in accTransit : chan[a] \in {"half", "orphan", "both"}
  /\ \A r \in initTransit :
       \E a \in Accepts : answered[r] = a /\ chan[a] = "both"

(* Whatever runs were stopped and started again, and however late the      *)
(* messages come, the initiator builds on an acceptance of its own request.*)
NoCrossedAcceptance ==
  \A r \in Requests : answered[r] # None => target[answered[r]] = r

(* An acceptor that saw its acceptance confirmed was the one that the      *)
(* initiator took.                                                         *)
AckMeansTaken == \A a \in acked : answered[target[a]] = a

(* "Filter out incoming opens that were already accepted": a request whose *)
(* acceptance was confirmed is not offered again.                          *)
AcceptedNotOffered == \A a \in acked : target[a] \notin Offered

(* The acceptor's run ends by itself, without a peer that answers.         *)
AcceptorRunEnds == arun = "p2p" ~> arun = "idle"

(* So does the initiator's once it has an acceptance: only the wait for    *)
(* one has no end.                                                         *)
AcceptedRunEnds == irun = "propose" ~> irun = "idle"

\* What a joint funding promises, and its implementation by each acceptance
Committed(a) ==
  {p \in {"initiator", "acceptor"} :
     chan[a] = "both" \/ (p = "acceptor" /\ chan[a] \in {"half", "orphan"})}
Contributed(a) ==
  {p \in {"initiator", "acceptor"} :
     IF p = "acceptor" THEN a \in accTransit
     ELSE \E r \in initTransit : answered[r] = a}
Joint(a) == INSTANCE JointFunding
  WITH Parties <- {"initiator", "acceptor"}, committed <- Committed(a),
       contributed <- Contributed(a), funded <- (a \in funded)
JointSpec ==
  /\ \A a \in Accepts : Joint(a)!Init
  /\ [][\A a \in Accepts : [Joint(a)!Next]_(Joint(a)!vars)]_vars

=============================================================================
