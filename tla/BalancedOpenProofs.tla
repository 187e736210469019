------------------------- MODULE BalancedOpenProofs -------------------------
(***************************************************************************)
(* For every number of runs and tries: type correctness, the safety of the *)
(* two transit transactions and of the acceptances, and the implementation *)
(* of JointFunding by each acceptance.                                     *)
(***************************************************************************)
EXTENDS BalancedOpen, TLAPS

USE DEF initiator, acceptor, invoices, payments, wire, keysends, chain, programs,
  InitiatorOnly, AcceptorOnly

-----------------------------------------------------------------------------
(* Types.  They are inductive with the remark that a program that runs has  *)
(* its request, or its acceptance and the request that it answers.         *)

HasRequest == irun # "idle" => ireq \in Requests
HasTarget == arun # "idle" => acur \in Accepts /\ target[acur] \in Requests

Typed == TypeOK /\ HasRequest /\ HasTarget

LEMMA TypeInit == Init => Typed
BY BoundsAssumption DEF Init, Typed, TypeOK, InitiatorTypes, AcceptorTypes, NodeTypes,
  ChainTypes, InitiatorSteps, AcceptorSteps, Requests, Accepts, None, HasRequest,
  HasTarget

LEMMA InitiatorTypeStep ==
  ASSUME Typed, InitiatorGoesOn \/ Initiate \/ InitiatorQuits PROVE Typed'
<1> USE BoundsAssumption DEF Typed, TypeOK, HasRequest
<1>0. HasTarget'
  BY DEF HasTarget, InitiatorGoesOn, Initiate, InitiatorQuits, Pushed, SeePaid,
    BroadcastTransit, HearAccept, Propose, Proposed, ProposeFails, BroadcastFunding
<1>1. InitiatorTypes' /\ HasRequest'
  <2> USE DEF InitiatorTypes, InitiatorSteps, Requests, Accepts, None
  <2>1. CASE Initiate \/ InitiatorQuits \/ Pushed
    BY <2>1 DEF Initiate, InitiatorQuits, Pushed
  <2>2. CASE SeePaid
    BY <2>2 DEF SeePaid, NodeTypes
  <2>3. CASE BroadcastTransit \/ \E a \in Accepts : BroadcastFunding(a)
    BY <2>3 DEF BroadcastTransit, BroadcastFunding, InitiatorRetries
  <2>4. ASSUME NEW a \in Accepts, HearAccept(a) \/ Propose(a) \/ Proposed(a)
                                  \/ ProposeFails(a)
        PROVE  InitiatorTypes' /\ HasRequest'
    BY <2>4 DEF HearAccept, Propose, Proposed, ProposeFails
  <2> QED BY <2>1, <2>2, <2>3, <2>4 DEF InitiatorGoesOn
<1>2. AcceptorTypes'
  BY DEF AcceptorTypes, InitiatorGoesOn, Initiate, InitiatorQuits, Pushed, SeePaid,
    BroadcastTransit, HearAccept, Propose, Proposed, ProposeFails, BroadcastFunding
<1>3. NodeTypes'
  <2>1. CASE Initiate
    BY <2>1 DEF NodeTypes, InitiatorTypes, Initiate, Requests
  <2>2. ASSUME NEW a \in Accepts, HearAccept(a) \/ Propose(a) PROVE NodeTypes'
    BY <2>2 DEF NodeTypes, HearAccept, Propose
  <2>3. CASE UNCHANGED <<pushes, received, invoice, canceling, payment, payer, asks,
                         acks, chan>>
    BY <2>3 DEF NodeTypes
  <2> QED BY <2>1, <2>2, <2>3 DEF InitiatorGoesOn, InitiatorQuits, Pushed, SeePaid,
        BroadcastTransit, Proposed, ProposeFails, BroadcastFunding
<1>4. ChainTypes'
  BY DEF ChainTypes, InitiatorGoesOn, Initiate, InitiatorQuits, Pushed, SeePaid,
    HearAccept, Propose, Proposed, ProposeFails, BroadcastTransit, BroadcastFunding,
    InitiatorRetries
<1> QED BY <1>0, <1>1, <1>2, <1>3, <1>4

LEMMA AcceptorTypeStep ==
  ASSUME Typed, AcceptorGoesOn \/ Accept \/ AcceptorQuits
                \/ \E r \in Requests : GetBalancedOpens(r)
  PROVE  Typed'
<1> USE BoundsAssumption DEF Typed, TypeOK, HasTarget
<1>0. InitiatorTypes' /\ HasRequest'
  BY DEF InitiatorTypes, HasRequest, AcceptorGoesOn, Accept, AcceptorQuits,
    GetBalancedOpens, HearAck, AckTimeout, PayAcceptRequest, AcceptPaid,
    AcceptNotPaid, WaitForPendingOpen, BroadcastAcceptTransit
<1>1. AcceptorTypes' /\ HasTarget'
  <2> USE DEF AcceptorTypes, AcceptorSteps, Accepts
  <2>1. ASSUME NEW r \in Requests, GetBalancedOpens(r)
        PROVE  AcceptorTypes' /\ HasTarget'
    <3>1. acur' \in Accepts /\ acur' \in 0 .. MaxAccepts
      BY <2>1 DEF GetBalancedOpens
    <3>2. target' = [target EXCEPT ![acur'] = r] /\ UNCHANGED <<apolls, acked>>
          /\ arun' = "confirm"
      BY <2>1 DEF GetBalancedOpens
    <3>3. target' \in [Accepts -> Requests \cup {None}] /\ target'[acur'] = r
      BY <3>1, <3>2
    <3> QED BY <3>1, <3>2, <3>3
  <2>2. ASSUME NEW times \in {PollTimes, SendTimes}, AcceptorRetries(times),
               arun # "idle", UNCHANGED <<acur, target, acked>>
        PROVE  AcceptorTypes' /\ HasTarget'
    <3>1. apolls \in Nat /\ times \in Nat
      OBVIOUS
    <3>2. CASE apolls + 1 < times
      <4>1. apolls + 1 \in 0 .. (PollTimes + SendTimes)
        BY <3>1, <3>2
      <4> QED BY <2>2, <3>2, <4>1 DEF AcceptorRetries
    <3>3. CASE ~(apolls + 1 < times)
      BY <2>2, <3>3 DEF AcceptorRetries
    <3> QED BY <3>2, <3>3
  <2>4. CASE WaitForPendingOpen \/ BroadcastAcceptTransit
    <3>1. arun # "idle" /\ UNCHANGED <<acur, target, acked>>
      BY <2>4 DEF WaitForPendingOpen, BroadcastAcceptTransit
    <3>2. \/ AcceptorRetries(PollTimes) \/ AcceptorRetries(SendTimes)
          \/ arun' \in {"transit", "idle"} /\ apolls' = 0
      BY <2>4 DEF WaitForPendingOpen, BroadcastAcceptTransit
    <3>3. CASE arun' \in {"transit", "idle"} /\ apolls' = 0
      BY <3>1, <3>3
    <3> QED BY <2>2, <3>1, <3>2, <3>3
  <2>3. CASE AcceptorQuits
    BY <2>3 DEF AcceptorQuits
  <2>5. CASE HearAck
    BY <2>5 DEF HearAck
  <2>6. CASE Accept \/ AckTimeout \/ PayAcceptRequest
    BY <2>6 DEF Accept, AckTimeout, PayAcceptRequest
  <2>7. CASE AcceptPaid \/ AcceptNotPaid
    BY <2>7 DEF AcceptPaid, AcceptNotPaid
  <2> QED BY <2>1, <2>3, <2>4, <2>5, <2>6, <2>7 DEF AcceptorGoesOn
<1>2. NodeTypes'
  <2>1. CASE Accept
    BY <2>1 DEF NodeTypes, Accept
  <2>2. CASE PayAcceptRequest
    BY <2>2 DEF NodeTypes, PayAcceptRequest, AcceptorTypes
  <2>3. CASE HearAck
    BY <2>3 DEF NodeTypes, HearAck
  <2>4. CASE UNCHANGED <<pushes, received, invoice, canceling, payment, payer, asks,
                         acks, chan>>
    BY <2>4 DEF NodeTypes
  <2> QED BY <2>1, <2>2, <2>3, <2>4 DEF AcceptorGoesOn, AcceptorQuits,
        GetBalancedOpens, AckTimeout, AcceptPaid, AcceptNotPaid, WaitForPendingOpen,
        BroadcastAcceptTransit
<1>3. ChainTypes'
  BY DEF ChainTypes, AcceptorGoesOn, Accept, AcceptorQuits, GetBalancedOpens, HearAck,
    AckTimeout, PayAcceptRequest, AcceptPaid, AcceptNotPaid, WaitForPendingOpen,
    BroadcastAcceptTransit
<1> QED BY <1>0, <1>1, <1>2, <1>3

LEMMA NetworkTypeStep == ASSUME Typed, Network \/ Nodes PROVE Typed'
<1> USE DEF Typed, TypeOK
<1>1. InitiatorTypes' /\ AcceptorTypes' /\ ChainTypes' /\ HasRequest' /\ HasTarget'
  BY DEF InitiatorTypes, AcceptorTypes, ChainTypes, HasRequest, HasTarget, Network,
    Nodes, PushSettles, PaymentEnds, CancelHodlInvoice, MessageLost, NodesOpen
<1>2. NodeTypes'
  <2>1. ASSUME NEW r \in Requests, PushSettles(r) PROVE NodeTypes'
    <3>1. Append(received, r) \in Seq(Requests)
      BY DEF NodeTypes
    <3> QED BY <2>1, <3>1 DEF NodeTypes, PushSettles
  <2>2. ASSUME NEW r \in Requests, PaymentEnds(r) \/ CancelHodlInvoice(r)
        PROVE  NodeTypes'
    BY <2>2 DEF NodeTypes, PaymentEnds, CancelHodlInvoice
  <2>3. ASSUME NEW a \in Accepts, MessageLost(a) \/ NodesOpen(a) PROVE NodeTypes'
    BY <2>3 DEF NodeTypes, MessageLost, NodesOpen
  <2> QED BY <2>1, <2>2, <2>3 DEF Network, Nodes
<1> QED BY <1>1, <1>2

LEMMA TypeStep == Typed /\ [Next]_vars => Typed'
<1> SUFFICES ASSUME Typed, [Next]_vars PROVE Typed'
  OBVIOUS
<1>1. CASE UNCHANGED vars
  BY <1>1 DEF vars, Typed, TypeOK, HasRequest, HasTarget, InitiatorTypes,
    AcceptorTypes, NodeTypes, ChainTypes
<1> QED BY <1>1, InitiatorTypeStep, AcceptorTypeStep, NetworkTypeStep DEF Next, Users

(* The two programs, their nodes and what is between them keep the types   *)
(* of TypeOK.                                                              *)
THEOREM TypeCorrect == Spec => []TypeOK
<1>1. Typed => TypeOK
  BY DEF Typed
<1> QED BY <1>1, TypeInit, TypeStep, PTL DEF Spec

-----------------------------------------------------------------------------
(* What only some of the actions change                                    *)

LEMMA TargetKept ==
  ASSUME [Next]_vars, \A r \in Requests : ~GetBalancedOpens(r)
  PROVE  UNCHANGED <<target, acur>>
BY DEF vars, Next, InitiatorGoesOn, AcceptorGoesOn, Users, Nodes, Network, Pushed,
  SeePaid, BroadcastTransit, HearAccept, Propose, Proposed, ProposeFails,
  BroadcastFunding, HearAck, AckTimeout, PayAcceptRequest, AcceptPaid, AcceptNotPaid,
  WaitForPendingOpen, BroadcastAcceptTransit, Initiate, InitiatorQuits, Accept,
  AcceptorQuits, NodesOpen, PushSettles, PaymentEnds, CancelHodlInvoice, MessageLost

LEMMA AnsweredKept ==
  ASSUME [Next]_vars, ~SeePaid, \A a \in Accepts : ~HearAccept(a)
  PROVE  UNCHANGED answered
BY DEF vars, Next, InitiatorGoesOn, AcceptorGoesOn, Users, Nodes, Network, Pushed,
  BroadcastTransit, Propose, Proposed, ProposeFails, GetBalancedOpens,
  BroadcastFunding, HearAck, AckTimeout, PayAcceptRequest, AcceptPaid, AcceptNotPaid,
  WaitForPendingOpen, BroadcastAcceptTransit, Initiate, InitiatorQuits, Accept,
  AcceptorQuits, NodesOpen, PushSettles, PaymentEnds, CancelHodlInvoice, MessageLost

LEMMA ChanKept ==
  ASSUME [Next]_vars, ~Accept, \A a \in Accepts : ~(Propose(a) \/ NodesOpen(a))
  PROVE  UNCHANGED chan
BY DEF vars, Next, InitiatorGoesOn, AcceptorGoesOn, Users, Nodes, Network, Pushed,
  SeePaid, BroadcastTransit, HearAccept, Proposed, ProposeFails, GetBalancedOpens,
  BroadcastFunding, HearAck, AckTimeout, PayAcceptRequest, AcceptPaid, AcceptNotPaid,
  WaitForPendingOpen, BroadcastAcceptTransit, Initiate, InitiatorQuits,
  InitiatorRetries, AcceptorQuits, PushSettles, PaymentEnds, CancelHodlInvoice,
  MessageLost

LEMMA RequestKept ==
  ASSUME [Next]_vars, ~Initiate
  PROVE  /\ UNCHANGED ireq
         /\ irun' \in {"push", "wait"} => irun \in {"push", "wait"}
BY DEF vars, Next, InitiatorGoesOn, AcceptorGoesOn, Users, Nodes, Network, Pushed,
  SeePaid, BroadcastTransit, HearAccept, Propose, Proposed, ProposeFails,
  GetBalancedOpens, BroadcastFunding, HearAck, AckTimeout, PayAcceptRequest,
  AcceptPaid, AcceptNotPaid, WaitForPendingOpen, BroadcastAcceptTransit,
  InitiatorQuits, InitiatorRetries, Accept, AcceptorQuits, NodesOpen, PushSettles,
  PaymentEnds, CancelHodlInvoice, MessageLost

LEMMA TransitKept ==
  ASSUME [Next]_vars, ~BroadcastTransit, ~BroadcastAcceptTransit
  PROVE  UNCHANGED <<initTransit, accTransit>>
BY DEF vars, Next, InitiatorGoesOn, AcceptorGoesOn, Users, Nodes, Network, Pushed,
  SeePaid, HearAccept, Propose, Proposed, ProposeFails, GetBalancedOpens,
  BroadcastFunding, HearAck, AckTimeout, PayAcceptRequest, AcceptPaid, AcceptNotPaid,
  WaitForPendingOpen, Initiate, InitiatorQuits, InitiatorRetries,
  Accept, AcceptorQuits, NodesOpen,
  PushSettles, PaymentEnds, CancelHodlInvoice, MessageLost

-----------------------------------------------------------------------------
(* The strengthening.  Requests are known to the acceptor's side only after *)
(* they were made, acceptances only after they were started.               *)

KnownRequests ==
  /\ \A r \in pushes : r <= ireq
  /\ \A i \in 1 .. Len(received) : received[i] <= ireq
  /\ \A a \in Accepts : target[a] <= ireq
  /\ \A r \in initTransit : r <= ireq

FreshAccepts ==
  /\ \A a \in Accepts : a > acur => target[a] = None /\ chan[a] = "none"
  /\ arun = "confirm" => chan[acur] = "none"

\* A payment of an accept request carries an acceptance of that request
PayerAnswers ==
  \A r \in Requests : payment[r] = "flight" \/ invoice[r] = "paid" =>
    payer[r] # None /\ target[payer[r]] = r

\* Only an acceptance that was taken is confirmed to the acceptor, and what was
\* taken for a request is not taken again
AcksTaken ==
  \A a \in acks \cup acked :
    /\ target[a] # None /\ answered[target[a]] = a
    /\ irun \in {"push", "wait"} => target[a] # ireq

\* The programs reach their broadcasts with a commitment at their own node
Secured ==
  /\ arun = "transit" => IsPendingOpen(acur)
  /\ irun = "transit" => answered[ireq] # None /\ chan[answered[ireq]] = "both"
  /\ irun \in {"push", "wait"} => ireq \notin initTransit

Inv ==
  /\ Typed /\ KnownRequests /\ FreshAccepts /\ PayerAnswers /\ AcksTaken
  /\ Secured /\ NoCrossedAcceptance /\ TransitAfterPending

LEMMA InvInit == Init => Inv
<1> SUFFICES ASSUME Init PROVE Inv
  OBVIOUS
<1>1. Typed
  BY TypeInit
<1>2. KnownRequests /\ FreshAccepts /\ PayerAnswers /\ AcksTaken /\ Secured
  BY DEF Init, KnownRequests, FreshAccepts, PayerAnswers, AcksTaken, Secured, None
<1>3. NoCrossedAcceptance /\ TransitAfterPending
  BY DEF Init, NoCrossedAcceptance, TransitAfterPending
<1> QED BY <1>1, <1>2, <1>3 DEF Inv

\* An acceptance that has a request keeps it
LEMMA TargetStep ==
  ASSUME Inv, [Next]_vars, NEW a \in Accepts, target[a] # None
  PROVE  target'[a] = target[a]
<1>1. CASE \A r \in Requests : ~GetBalancedOpens(r)
  BY <1>1, TargetKept
<1>2. ASSUME NEW r \in Requests, GetBalancedOpens(r) PROVE target'[a] = target[a]
  <2>1. a # acur + 1
    BY DEF Inv, FreshAccepts, Typed, TypeOK, AcceptorTypes, Accepts
  <2> QED BY <1>2, <2>1 DEF GetBalancedOpens, Inv, Typed, TypeOK, AcceptorTypes
<1> QED BY <1>1, <1>2

\* What was answered to a request changes only while that request waits
LEMMA AnsweredStep ==
  ASSUME Inv, [Next]_vars, NEW r \in Requests, answered'[r] # answered[r]
  PROVE  /\ r = ireq /\ irun = "wait" /\ irun' = "propose"
         /\ answered'[r] \in Accepts /\ target[answered'[r]] = r
<1> USE DEF Inv, Typed, TypeOK, InitiatorTypes
<1>1. ASSUME NEW a \in Accepts, HearAccept(a)
      PROVE  /\ r = ireq /\ irun = "wait" /\ irun' = "propose"
             /\ answered'[r] \in Accepts /\ target[answered'[r]] = r
  BY <1>1 DEF HearAccept
<1>2. CASE SeePaid
  <2>1. r = ireq /\ answered'[r] = payer[r] /\ invoice[r] = "paid"
    BY <1>2 DEF SeePaid
  <2>2. payer[r] \in Accepts /\ target[payer[r]] = r
    BY <2>1 DEF PayerAnswers, NodeTypes
  <2> QED BY <1>2, <2>1, <2>2 DEF SeePaid
<1> QED BY <1>1, <1>2, AnsweredKept

LEMMA NoCrossedStep == Inv /\ [Next]_vars => NoCrossedAcceptance'
<1> SUFFICES ASSUME Inv, [Next]_vars, NEW r \in Requests, answered'[r] # None
             PROVE  target'[answered'[r]] = r
  BY DEF NoCrossedAcceptance
<1> r # None
  BY DEF Requests, None
<1>1. CASE answered'[r] = answered[r]
  <2>1. answered[r] \in Accepts /\ target[answered[r]] = r
    BY <1>1 DEF Inv, NoCrossedAcceptance, Typed, TypeOK, InitiatorTypes
  <2> QED BY <1>1, <2>1, TargetStep
<1>2. CASE answered'[r] # answered[r]
  BY <1>2, AnsweredStep, TargetStep
<1> QED BY <1>1, <1>2

LEMMA KnownStep == Inv /\ [Next]_vars => KnownRequests'
<1> SUFFICES ASSUME Inv, [Next]_vars PROVE KnownRequests'
  OBVIOUS
<1> USE DEF Inv, Typed, TypeOK
<1>0. ireq' \in Nat /\ ireq \in Nat /\ ireq <= ireq'
  BY RequestKept DEF InitiatorTypes, Initiate
<1>1. \A r \in pushes' : r <= ireq'
  <2>1. pushes' \subseteq pushes \cup {ireq'}
    BY DEF vars, Next, InitiatorGoesOn, AcceptorGoesOn, Users, Nodes, Network, Pushed,
      SeePaid, BroadcastTransit, HearAccept, Propose, Proposed, ProposeFails,
      BroadcastFunding, HearAck, AckTimeout, PayAcceptRequest, AcceptPaid,
      AcceptNotPaid, WaitForPendingOpen, BroadcastAcceptTransit, Initiate,
      InitiatorQuits, Accept, AcceptorQuits, NodesOpen, PushSettles, PaymentEnds,
      CancelHodlInvoice, MessageLost, GetBalancedOpens
  <2>2. \A r \in pushes : r \in Nat /\ r <= ireq
    BY DEF KnownRequests, NodeTypes, Requests
  <2> QED BY <1>0, <2>1, <2>2
<1>2. \A i \in 1 .. Len(received') : received'[i] <= ireq'
  <2>0. \A i \in 1 .. Len(received) : received[i] \in Nat /\ received[i] <= ireq
    BY DEF KnownRequests, NodeTypes, Requests
  <2>1. CASE UNCHANGED received
    BY <1>0, <2>0, <2>1
  <2>2. ASSUME NEW r \in Requests, PushSettles(r), received' = Append(received, r)
        PROVE  \A i \in 1 .. Len(received') : received'[i] <= ireq'
    <3>1. r \in Nat /\ r <= ireq
      BY <2>2 DEF PushSettles, KnownRequests, Requests
    <3>2. \A i \in 1 .. Len(received') :
            \/ received'[i] = r
            \/ i \in 1 .. Len(received) /\ received'[i] = received[i]
      <4>1. received \in Seq(Requests)
        BY DEF NodeTypes
      <4>2. Len(received') = Len(received) + 1 /\ Len(received) \in Nat
        BY <2>2, <4>1
      <4>3. \A i \in 1 .. Len(received) : received'[i] = received[i]
        BY <2>2, <4>1
      <4>4. received'[Len(received) + 1] = r
        BY <2>2, <4>1
      <4>5. 1 .. Len(received') = (1 .. Len(received)) \cup {Len(received) + 1}
        BY <4>2
      <4> QED BY <4>3, <4>4, <4>5
    <3> QED BY <1>0, <2>0, <3>1, <3>2
  <2>3. UNCHANGED received
        \/ \E r \in Requests : PushSettles(r) /\ received' = Append(received, r)
    BY DEF vars, Next, InitiatorGoesOn, AcceptorGoesOn, Users, Nodes, Network, Pushed,
      SeePaid, BroadcastTransit, HearAccept, Propose, Proposed, ProposeFails,
      BroadcastFunding, HearAck, AckTimeout, PayAcceptRequest, AcceptPaid,
      AcceptNotPaid, WaitForPendingOpen, BroadcastAcceptTransit, Initiate,
      InitiatorQuits, Accept, AcceptorQuits, NodesOpen, PushSettles, PaymentEnds,
      CancelHodlInvoice, MessageLost, GetBalancedOpens
  <2> QED BY <2>1, <2>2, <2>3
<1>3. \A a \in Accepts : target'[a] <= ireq'
  <2>0. \A a \in Accepts : target[a] \in Nat /\ target[a] <= ireq
    BY DEF KnownRequests, AcceptorTypes, Requests, None
  <2>1. CASE UNCHANGED target
    BY <1>0, <2>0, <2>1
  <2>2. ASSUME NEW r \in Requests, GetBalancedOpens(r)
        PROVE  \A a \in Accepts : target'[a] <= ireq'
    <3>1. \E i \in 1 .. Len(received) : received[i] = r
      <4>1. received # <<>> /\ r = received[Len(received)]
        BY <2>2 DEF GetBalancedOpens, Offered
      <4>2. Len(received) \in 1 .. Len(received)
        BY <4>1 DEF NodeTypes
      <4> QED BY <4>1, <4>2
    <3>2. r \in Nat /\ r <= ireq
      BY <3>1 DEF KnownRequests, Requests
    <3> QED BY <1>0, <2>0, <2>2, <3>2 DEF GetBalancedOpens, AcceptorTypes
  <2> QED BY <2>1, <2>2, TargetKept
<1>4. \A r \in initTransit' : r <= ireq'
  <2>1. initTransit' = initTransit \/ (BroadcastTransit /\ ~BroadcastAcceptTransit)
    BY TransitKept DEF BroadcastAcceptTransit
  <2>2. initTransit' \subseteq initTransit \cup {ireq}
    BY <2>1 DEF BroadcastTransit, InitiatorRetries
  <2>3. \A r \in initTransit : r \in Nat /\ r <= ireq
    BY DEF KnownRequests, ChainTypes, Requests
  <2> QED BY <1>0, <2>2, <2>3
<1> QED BY <1>1, <1>2, <1>3, <1>4 DEF KnownRequests

LEMMA FreshStep == Inv /\ [Next]_vars => FreshAccepts'
<1> SUFFICES ASSUME Inv, [Next]_vars PROVE FreshAccepts'
  OBVIOUS
<1> USE DEF Inv, Typed, TypeOK, FreshAccepts, AcceptorTypes, NodeTypes, Accepts, None
<1>1. CASE Accept
  BY <1>1 DEF Accept, HasTarget
<1>2. ASSUME NEW r \in Requests, GetBalancedOpens(r) PROVE FreshAccepts'
  <2>1. acur' = acur + 1 /\ target' = [target EXCEPT ![acur + 1] = r]
        /\ UNCHANGED chan /\ acur + 1 \in Accepts /\ acur \in Nat
    BY <1>2, BoundsAssumption DEF GetBalancedOpens
  <2>2. chan'[acur'] = "none"
    BY <2>1
  <2>3. \A a \in Accepts : a > acur' => target'[a] = None /\ chan'[a] = "none"
    BY <2>1
  <2> QED BY <2>2, <2>3
<1>3. ASSUME NEW a \in Accepts, Propose(a) \/ NodesOpen(a) PROVE FreshAccepts'
  <2>1. chan[a] # "none" /\ UNCHANGED <<acur, arun, target>>
        /\ \A b \in Accepts \ {a} : chan'[b] = chan[b]
    BY <1>3 DEF Propose, NodesOpen
  <2> QED BY <2>1, <1>3 DEF HasTarget
<1>4. CASE /\ ~Accept /\ \A r \in Requests : ~GetBalancedOpens(r)
           /\ \A a \in Accepts : ~(Propose(a) \/ NodesOpen(a))
  <2>1. UNCHANGED <<target, acur, chan>>
    BY <1>4, TargetKept, ChanKept
  <2>2. arun' = "confirm" => arun = "confirm"
    BY <1>4 DEF vars, Next, InitiatorGoesOn, AcceptorGoesOn, Users, Nodes, Network,
      Pushed, SeePaid, BroadcastTransit, HearAccept, Proposed, ProposeFails,
      BroadcastFunding, HearAck, AckTimeout, PayAcceptRequest, AcceptPaid,
      AcceptNotPaid, WaitForPendingOpen, BroadcastAcceptTransit, Initiate,
      InitiatorQuits, AcceptorRetries, AcceptorQuits, PushSettles, PaymentEnds,
      CancelHodlInvoice, MessageLost
  <2> QED BY <2>1, <2>2
<1> QED BY <1>1, <1>2, <1>3, <1>4

LEMMA PayerStep == Inv /\ [Next]_vars => PayerAnswers'
<1> SUFFICES ASSUME Inv, [Next]_vars, NEW r \in Requests,
                    payment'[r] = "flight" \/ invoice'[r] = "paid"
             PROVE  payer'[r] # None /\ target'[payer'[r]] = r
  BY DEF PayerAnswers
<1> USE DEF Inv, Typed, TypeOK, NodeTypes, Accepts, Requests, None
<1>1. CASE PayAcceptRequest /\ target[acur] = r
  <2>1. payer'[r] = acur /\ acur \in Accepts
    BY <1>1 DEF PayAcceptRequest, HasTarget
  <2> QED BY <1>1, <2>1, TargetStep
<1>2. CASE ~(PayAcceptRequest /\ target[acur] = r)
  <2>1. payer'[r] = payer[r] /\ (payment[r] = "flight" \/ invoice[r] = "paid")
    BY <1>2 DEF vars, Next, InitiatorGoesOn, AcceptorGoesOn, Users, Nodes, Network,
      Pushed, SeePaid, BroadcastTransit, HearAccept, Propose, Proposed, ProposeFails,
      BroadcastFunding, HearAck, AckTimeout, PayAcceptRequest, AcceptPaid,
      AcceptNotPaid, WaitForPendingOpen, BroadcastAcceptTransit, Initiate,
      InitiatorQuits, Accept, AcceptorQuits, NodesOpen, PushSettles, PaymentEnds,
      CancelHodlInvoice, MessageLost, GetBalancedOpens, HasTarget
  <2>2. payer[r] \in Accepts /\ target[payer[r]] = r
    BY <2>1 DEF PayerAnswers
  <2> QED BY <2>1, <2>2, TargetStep
<1> QED BY <1>1, <1>2

LEMMA AcksStep == Inv /\ [Next]_vars => AcksTaken'
<1> SUFFICES ASSUME Inv, [Next]_vars, NEW a \in acks' \cup acked'
             PROVE  /\ target'[a] # None /\ answered'[target'[a]] = a
                    /\ irun' \in {"push", "wait"} => target'[a] # ireq'
  BY DEF AcksTaken
<1> USE DEF Inv, Typed, TypeOK, NodeTypes, AcceptorTypes, InitiatorTypes
<1>1. ASSUME NEW b \in Accepts, HearAccept(b), b = a
      PROVE  /\ target'[a] # None /\ answered'[target'[a]] = a
             /\ irun' \in {"push", "wait"} => target'[a] # ireq'
  BY <1>1, TargetStep DEF HearAccept, HasRequest, Requests, None
<1>2. CASE \A b \in Accepts : HearAccept(b) => b # a
  <2>1. a \in acks \cup acked
    BY <1>2 DEF vars, Next, InitiatorGoesOn, AcceptorGoesOn, Users, Nodes, Network,
      Pushed, SeePaid, BroadcastTransit, HearAccept, Propose, Proposed, ProposeFails,
      BroadcastFunding, HearAck, AckTimeout, PayAcceptRequest, AcceptPaid,
      AcceptNotPaid, WaitForPendingOpen, BroadcastAcceptTransit, Initiate,
      InitiatorQuits, Accept, AcceptorQuits, NodesOpen, PushSettles, PaymentEnds,
      CancelHodlInvoice, MessageLost, GetBalancedOpens
  <2>2. /\ a \in Accepts /\ target[a] \in Requests /\ answered[target[a]] = a
        /\ irun \in {"push", "wait"} => target[a] # ireq
    BY <2>1 DEF AcksTaken
  <2>3. target'[a] = target[a]
    BY <2>2, TargetStep DEF Requests, None
  <2>4. answered'[target[a]] = a
    BY <2>2, AnsweredStep
  <2>5. irun' \in {"push", "wait"} => target[a] # ireq'
    <3>1. CASE Initiate
      <4>1. target[a] <= ireq
        BY <2>2 DEF KnownRequests
      <4> QED BY <2>2, <3>1, <4>1 DEF Initiate, Requests
    <3> QED BY <2>2, <3>1, RequestKept
  <2> QED BY <2>2, <2>3, <2>4, <2>5 DEF Requests, None
<1> QED BY <1>1, <1>2

\* A node that lists a channel goes on to do so
LEMMA ListedStep ==
  ASSUME Inv, [Next]_vars, NEW a \in Accepts, IsPendingOpen(a)
  PROVE  IsPendingOpen(a)' /\ (chan[a] = "both" => chan'[a] = "both")
<1> USE DEF Inv, Typed, TypeOK, NodeTypes, IsPendingOpen
<1>1. CASE Accept
  BY <1>1 DEF Accept, FreshAccepts, HasTarget
<1>2. ASSUME NEW b \in Accepts, Propose(b) \/ NodesOpen(b)
      PROVE  IsPendingOpen(a)' /\ (chan[a] = "both" => chan'[a] = "both")
  BY <1>2 DEF Propose, NodesOpen
<1> QED BY <1>1, <1>2, ChanKept

LEMMA SecuredStep == Inv /\ [Next]_vars => Secured'
<1> SUFFICES ASSUME Inv, [Next]_vars PROVE Secured'
  OBVIOUS
<1> USE DEF Inv, Typed, TypeOK, AcceptorTypes, InitiatorTypes
<1>1. arun' = "transit" => IsPendingOpen(acur)'
  <2>1. arun' = "transit" => /\ arun # "idle" /\ UNCHANGED acur
                             /\ IsPendingOpen(acur)
    BY DEF vars, Next, InitiatorGoesOn, AcceptorGoesOn, Users, Nodes, Network,
      Pushed, SeePaid, BroadcastTransit, HearAccept, Propose, Proposed, ProposeFails,
      BroadcastFunding, HearAck, AckTimeout, PayAcceptRequest, AcceptPaid,
      AcceptNotPaid, WaitForPendingOpen, AcceptorRetries, BroadcastAcceptTransit,
      Initiate, InitiatorQuits, Accept, AcceptorQuits, NodesOpen, PushSettles,
      PaymentEnds, CancelHodlInvoice, MessageLost, GetBalancedOpens, Secured
  <2> QED BY <2>1, ListedStep DEF HasTarget, IsPendingOpen
<1>2. irun' = "transit" => answered'[ireq'] # None /\ chan'[answered'[ireq']] = "both"
  <2> SUFFICES ASSUME irun' = "transit"
               PROVE  answered'[ireq'] # None /\ chan'[answered'[ireq']] = "both"
    OBVIOUS
  <2>1. /\ irun # "idle" /\ UNCHANGED ireq
        /\ answered[ireq] \in Accepts /\ chan[answered[ireq]] = "both"
    BY DEF vars, Next, InitiatorGoesOn, AcceptorGoesOn, Users, Nodes, Network,
      Pushed, SeePaid, BroadcastTransit, HearAccept, Propose, Proposed, ProposeFails,
      BroadcastFunding, HearAck, AckTimeout, PayAcceptRequest, AcceptPaid,
      AcceptNotPaid, WaitForPendingOpen, BroadcastAcceptTransit, Initiate,
      InitiatorQuits, InitiatorRetries, Accept, AcceptorQuits, NodesOpen, PushSettles,
      PaymentEnds, CancelHodlInvoice, MessageLost, GetBalancedOpens, Secured,
      HasRequest
  <2>2. ireq \in Requests /\ answered'[ireq] = answered[ireq]
    BY <2>1, AnsweredStep DEF HasRequest
  <2>3. chan'[answered[ireq]] = "both"
    BY <2>1, ListedStep DEF IsPendingOpen
  <2> QED BY <2>1, <2>2, <2>3 DEF Accepts, None
<1>3. irun' \in {"push", "wait"} => ireq' \notin initTransit'
  <2>1. CASE Initiate
    <3>1. ireq + 1 \notin initTransit
      BY DEF KnownRequests, ChainTypes, Requests
    <3> QED BY <2>1, <3>1 DEF Initiate
  <2>2. CASE ~Initiate
    <3>1. CASE BroadcastTransit
      BY <3>1 DEF BroadcastTransit, InitiatorRetries
    <3>2. CASE ~BroadcastTransit
      <4>1. UNCHANGED initTransit
        BY <3>2, TransitKept DEF BroadcastAcceptTransit
      <4> QED BY <2>2, <4>1, RequestKept DEF Secured
    <3> QED BY <3>1, <3>2
  <2> QED BY <2>1, <2>2
<1> QED BY <1>1, <1>2, <1>3 DEF Secured

\* What was answered to a request whose transit was published stays
LEMMA SpentStep ==
  ASSUME Inv, [Next]_vars, NEW r \in initTransit PROVE answered'[r] = answered[r]
BY AnsweredStep DEF Inv, Typed, TypeOK, ChainTypes, Secured

LEMMA TransitStep == Inv /\ [Next]_vars => TransitAfterPending'
<1> SUFFICES ASSUME Inv, [Next]_vars PROVE TransitAfterPending'
  OBVIOUS
<1> USE DEF Inv, Typed, TypeOK, AcceptorTypes, InitiatorTypes, ChainTypes
<1>1. ASSUME NEW a \in accTransit' PROVE IsPendingOpen(a)'
  <2>1. a \in accTransit \/ (arun = "transit" /\ a = acur)
    BY <1>1, TransitKept DEF BroadcastTransit, BroadcastAcceptTransit,
      InitiatorRetries
  <2>2. a \in Accepts /\ IsPendingOpen(a)
    BY <2>1 DEF TransitAfterPending, IsPendingOpen, Secured, HasTarget
  <2> QED BY <2>2, ListedStep
<1>2. ASSUME NEW r \in initTransit'
      PROVE  \E a \in Accepts : answered'[r] = a /\ chan'[a] = "both"
  <2>1. r \in initTransit \/ (BroadcastTransit /\ r = ireq)
    BY <1>2, TransitKept DEF BroadcastTransit, BroadcastAcceptTransit,
      InitiatorRetries
  <2>2. answered[r] \in Accepts /\ chan[answered[r]] = "both"
    BY <2>1 DEF TransitAfterPending, Secured, HasRequest, BroadcastTransit
  <2>3. answered'[r] = answered[r]
    BY <2>1, SpentStep DEF BroadcastTransit
  <2>4. chan'[answered[r]] = "both"
    BY <2>2, ListedStep DEF IsPendingOpen
  <2> QED BY <2>2, <2>3, <2>4
<1> QED BY <1>1, <1>2 DEF TransitAfterPending, IsPendingOpen

LEMMA InvStep == Inv /\ [Next]_vars => Inv'
<1> SUFFICES ASSUME Inv, [Next]_vars PROVE Inv'
  OBVIOUS
<1>1. Typed'
  BY TypeStep DEF Inv
<1> QED BY <1>1, KnownStep, FreshStep, PayerStep, AcksStep, SecuredStep,
        NoCrossedStep, TransitStep DEF Inv

-----------------------------------------------------------------------------
(* The theorems                                                            *)

(* Neither transit transaction is published before the node of that side   *)
(* holds a commitment for the pair of request and acceptance.              *)
THEOREM TransitSafe == Spec => []TransitAfterPending
<1>1. Inv => TransitAfterPending
  BY DEF Inv
<1> QED BY <1>1, InvInit, InvStep, PTL DEF Spec

(* However many runs are stopped and started again, the initiator builds   *)
(* on an acceptance of its own request.                                    *)
THEOREM NoCrossed == Spec => []NoCrossedAcceptance
<1>1. Inv => NoCrossedAcceptance
  BY DEF Inv
<1> QED BY <1>1, InvInit, InvStep, PTL DEF Spec

(* An acceptance that the acceptor saw confirmed was taken by the          *)
(* initiator and stays the one it took.                                    *)
THEOREM AckTaken == Spec => []AckMeansTaken
<1>1. Inv => AckMeansTaken
  BY DEF Inv, AcksTaken, AckMeansTaken
<1> QED BY <1>1, InvInit, InvStep, PTL DEF Spec

-----------------------------------------------------------------------------
(* Each acceptance implements a joint funding                              *)

Both == {"initiator", "acceptor"}

\* A step moves one of: the commitments, the shares, the funding transaction
LEMMA CommittedStep ==
  ASSUME Inv, [Next]_vars, NEW a \in Accepts, Committed(a)' # Committed(a)
  PROVE  /\ \E p \in Both \ Committed(a) : Committed(a)' = Committed(a) \cup {p}
         /\ UNCHANGED <<answered, initTransit, accTransit, funded>>
<1> USE DEF Inv, Typed, TypeOK, NodeTypes, Committed
<1>0. chan'[a] # chan[a]
  OBVIOUS
<1>1. CASE Accept
  <2>1. chan[a] = "none" /\ chan'[a] = "prepared"
    BY <1>0, <1>1 DEF Accept, FreshAccepts, HasTarget
  <2> QED BY <2>1
<1>2. ASSUME NEW b \in Accepts, Propose(b) PROVE FALSE
  <2>1. chan[a] = "prepared" /\ chan'[a] = "opening"
    BY <1>0, <1>2 DEF Propose
  <2> QED BY <2>1
<1>3. ASSUME NEW b \in Accepts, NodesOpen(b)
      PROVE  /\ \E p \in Both \ Committed(a) : Committed(a)' = Committed(a) \cup {p}
             /\ UNCHANGED <<answered, initTransit, accTransit, funded>>
  <2>1. \/ chan[a] = "opening" /\ chan'[a] = "half"
        \/ chan[a] = "half" /\ chan'[a] = "both"
    BY <1>0, <1>3 DEF NodesOpen
  <2>2. CASE chan[a] = "opening" /\ chan'[a] = "half"
    <3>1. Committed(a) = {} /\ Committed(a)' = {"acceptor"}
      BY <2>2
    <3> QED BY <1>3, <3>1 DEF NodesOpen, Both
  <2>3. CASE chan[a] = "half" /\ chan'[a] = "both"
    <3>1. Committed(a) = {"acceptor"} /\ Committed(a)' = Both
      BY <2>3 DEF Both
    <3> QED BY <1>3, <3>1 DEF NodesOpen, Both
  <2> QED BY <2>1, <2>2, <2>3
<1> QED BY <1>0, <1>1, <1>2, <1>3, ChanKept

LEMMA ContributedStep ==
  ASSUME Inv, [Next]_vars, NEW a \in Accepts, Contributed(a)' # Contributed(a)
  PROVE  /\ \E p \in Committed(a) \ Contributed(a) :
                Contributed(a)' = Contributed(a) \cup {p}
         /\ UNCHANGED <<chan, funded>>
<1> USE DEF Inv, Typed, TypeOK
<1>1. \A r \in initTransit : answered'[r] = answered[r]
  BY SpentStep
<1>2. BroadcastTransit \/ BroadcastAcceptTransit
  BY <1>1, TransitKept DEF Contributed
<1>3. CASE BroadcastTransit
  <2>1. UNCHANGED <<answered, accTransit, chan, funded>>
        /\ initTransit' = initTransit \cup {ireq}
    BY <1>3 DEF BroadcastTransit, InitiatorRetries, Contributed
  <2>2. answered[ireq] = a /\ ~\E r \in initTransit : answered[r] = a
    BY <2>1 DEF Contributed
  <2>3. chan[a] = "both"
    BY <1>3, <2>2 DEF BroadcastTransit, Secured
  <2>4. "initiator" \in Committed(a) \ Contributed(a)
    BY <2>2, <2>3 DEF Committed, Contributed
  <2>5. Contributed(a)' = Contributed(a) \cup {"initiator"}
    BY <2>1, <2>2 DEF Contributed
  <2> QED BY <2>1, <2>4, <2>5
<1>4. CASE BroadcastAcceptTransit
  <2>1. UNCHANGED <<answered, initTransit, chan, funded>>
        /\ accTransit' = accTransit \cup {acur}
    BY <1>4 DEF BroadcastAcceptTransit, Contributed
  <2>2. acur = a /\ a \notin accTransit
    BY <2>1 DEF Contributed
  <2>3. "acceptor" \in Committed(a) \ Contributed(a)
    BY <1>4, <2>2 DEF BroadcastAcceptTransit, Secured, IsPendingOpen, Committed,
      Contributed
  <2>4. Contributed(a)' = Contributed(a) \cup {"acceptor"}
    BY <2>1, <2>2 DEF Contributed
  <2> QED BY <2>1, <2>3, <2>4
<1> QED BY <1>2, <1>3, <1>4

LEMMA FundedStep ==
  ASSUME Inv, [Next]_vars, NEW a \in Accepts, (a \in funded)' # (a \in funded)
  PROVE  (a \in funded)' /\ Contributed(a) = Both /\ Committed(a) = Both
<1>1. BroadcastFunding(a) /\ funded' = funded \cup {a}
  BY DEF vars, Next, InitiatorGoesOn, AcceptorGoesOn, Users, Nodes, Network,
    Pushed, SeePaid, BroadcastTransit, HearAccept, Propose, Proposed, ProposeFails,
    BroadcastFunding, HearAck, AckTimeout, PayAcceptRequest, AcceptPaid,
    AcceptNotPaid, WaitForPendingOpen, BroadcastAcceptTransit, Initiate,
    InitiatorQuits, InitiatorRetries, Accept, AcceptorQuits, NodesOpen, PushSettles,
    PaymentEnds, CancelHodlInvoice, MessageLost, GetBalancedOpens
<1>2. a \in accTransit /\ \E r \in initTransit : answered[r] = a
  BY <1>1 DEF BroadcastFunding, Inv, Typed, TypeOK, ChainTypes, InitiatorRetries
<1>3. chan[a] = "both"
  BY <1>2 DEF Inv, TransitAfterPending
<1> QED BY <1>1, <1>2, <1>3 DEF Contributed, Committed, Both

LEMMA JointStep ==
  ASSUME Inv, [Next]_vars, NEW a \in Accepts
  PROVE  [Joint(a)!Next]_(Joint(a)!vars)
<1> USE DEF Joint!vars, Joint!Next, Both
<1>1. CASE Committed(a)' # Committed(a)
  <2>1. Contributed(a)' = Contributed(a) /\ (a \in funded)' = (a \in funded)
    BY <1>1, CommittedStep DEF Contributed
  <2>2. PICK p \in Both \ Committed(a) : Committed(a)' = Committed(a) \cup {p}
    BY <1>1, CommittedStep
  <2> QED BY <2>1, <2>2 DEF Joint!Commit
<1>2. CASE Contributed(a)' # Contributed(a)
  <2>1. Committed(a)' = Committed(a) /\ (a \in funded)' = (a \in funded)
    BY <1>2, ContributedStep DEF Committed
  <2>2. PICK p \in Committed(a) \ Contributed(a) :
               Contributed(a)' = Contributed(a) \cup {p}
    BY <1>2, ContributedStep
  <2>3. p \in Both
    BY DEF Committed
  <2> QED BY <2>1, <2>2, <2>3 DEF Joint!Contribute
<1>3. CASE Committed(a)' = Committed(a) /\ Contributed(a)' = Contributed(a)
           /\ (a \in funded)' # (a \in funded)
  BY <1>3, FundedStep DEF Joint!Fund
<1> QED BY <1>1, <1>2, <1>3

(* Each acceptance implements JointFunding: a share is given after its     *)
(* commitment, and both are spent together.                                *)
THEOREM Implements == Spec => JointSpec
<1>1. Init => \A a \in Accepts : Joint(a)!Init
  BY DEF Init, Joint!Init, Committed, Contributed
<1>2. Inv /\ [Next]_vars
        => [\A a \in Accepts : [Joint(a)!Next]_(Joint(a)!vars)]_vars
  BY JointStep
<1> QED BY <1>1, <1>2, InvInit, InvStep, PTL DEF Spec, JointSpec

=============================================================================
