---------------------------- MODULE OpenChannels ----------------------------
(***************************************************************************)
(* `bos open`: one transaction funds channels that several saved nodes     *)
(* propose to several peers (src/peers/open_channels.js).                  *)
(*                                                                         *)
(* The asyncAuto graph is the variable phase for its main line (checks,    *)
(* proposals, funding, confirmation, broadcast or cancelation) and the     *)
(* variable detect for detectFunding, the one task that runs beside it.    *)
(* Calls that were started when a task fails stay in flight: they keep     *)
(* their effect on the nodes although nothing waits for their answer.      *)
(*                                                                         *)
(* The nodes (LND) are the environment.  chan[c] is what the two ends of   *)
(* channel c have:                                                         *)
(*   none         never proposed                                           *)
(*   proposed     the opener holds an unfunded proposal                    *)
(*   finalizing   the opener was given the funding and sent it to the peer *)
(*   countersigned  the peer signed, and lists the channel as pending      *)
(*   pending      the opener has its commitment, both list the channel     *)
(*   orphaned     the peer lists it, the opener lost the signature         *)
(*   gone         the proposal failed, timed out or was canceled           *)
(***************************************************************************)
EXTENDS FiniteSets, Naturals

CONSTANTS
  Channels,      \* the channels to open, across all batches
  Nodes,         \* the saved nodes that open: one batch each
  NodeOf,        \* NodeOf[c]: the saved node that opens c
  PeerOf,        \* PeerOf[c]: the node c is opened to
  CheckTimes,    \* bound standing for pendingCheckTimes (600)
  PollTimes      \* bound standing for utxoPollingTimes (20)

ASSUME ChannelsAssumption == IsFiniteSet(Channels) /\ Channels # {}
ASSUME NodesAssumption ==
  /\ IsFiniteSet(Nodes)
  /\ NodeOf \in [Channels -> Nodes]
  /\ \A c \in Channels : PeerOf[c] # NodeOf[c]
  /\ \A n \in Nodes : \E c \in Channels : NodeOf[c] = n
ASSUME TimesAssumption == CheckTimes \in Nat \ {0} /\ PollTimes \in Nat \ {0}

VARIABLES
  phase,         \* where the main line of the graph is
  result,        \* what the command returned: none yet, ok or error
  connected,     \* channels whose peer the opening node is connected to
  accepted,      \* channels whose peer said it would accept the open
  isExternal,    \* whether the funds come from outside the wallet
  isAvoiding,    \* the is_avoiding_broadcast argument
  batch,         \* batch[n]: the outcome of n's openChannels call
  canceled,      \* channels a cancelPendingChannel call was made for
  locked,        \* the inputs of the funding are locked in the wallet
  funding,       \* funding[n]: the fundPendingChannels call on n
  detect,        \* where detectFunding is
  detected,      \* nodes whose detectFunding fundPendingChannels is in flight
  polls,         \* polls detectFunding has made
  asked,         \* asked[n]: n's getChannelOutpoints call of this try
  answer,        \* answer[n]: the channels it returned
  tries,         \* tries of the confirmation that failed
  broadcast,     \* this program had the funding transaction published
  onchain,       \* an outside signer published the funding transaction
  chan           \* the state of each channel at its two nodes

vars == <<phase, result, connected, accepted, isExternal, isAvoiding, batch,
          canceled, locked, funding, detect, detected, polls, asked, answer,
          tries, broadcast, onchain, chan>>

checks == <<connected, accepted, isExternal, isAvoiding>>
detection == <<detect, detected, polls>>
confirming == <<asked, answer, tries, broadcast>>

Phases == {"connect", "anchors", "accept", "source", "balance", "propose",
           "undo", "getFunding", "psbt", "fund", "confirm", "broadcast",
           "cancel", "unlock", "stopped", "finished"}

\* The steps that run before anything is proposed
CheckPhases == {"connect", "anchors", "accept", "source", "balance"}

ChanStates == {"none", "proposed", "finalizing", "countersigned", "pending",
               "orphaned", "gone"}

\* The channels a node opens, and those it lists whoever opened them
OpenedBy(n) == {c \in Channels : NodeOf[c] = n}
ListedWhenFunded(n) == {c \in OpenedBy(n) :          \* mutant of ListedBy
  chan[c] \in {"finalizing", "countersigned", "pending"}}
ListedBy(n) == {c \in Channels :
  \/ NodeOf[c] = n /\ chan[c] = "pending"
  \/ PeerOf[c] = n /\ chan[c] \in {"countersigned", "pending", "orphaned"}}

FlagTypes ==
  /\ isExternal \in BOOLEAN /\ isAvoiding \in BOOLEAN /\ locked \in BOOLEAN
  /\ broadcast \in BOOLEAN /\ onchain \in BOOLEAN

TaskTypes ==
  /\ phase \in Phases
  /\ result \in {"none", "ok", "error"}
  /\ detect \in {"idle", "polling", "funding", "done"}
  /\ polls \in 0 .. PollTimes /\ tries \in 0 .. CheckTimes

SetTypes ==
  /\ connected \subseteq Channels /\ accepted \subseteq Channels
  /\ canceled \subseteq Channels /\ detected \subseteq Nodes

CallTypes ==
  /\ batch \in [Nodes -> {"waiting", "proposed", "failed"}]
  /\ funding \in [Nodes -> {"idle", "called", "ok", "failed"}]
  /\ asked \in [Nodes -> {"waiting", "answered", "failed"}]
  /\ answer \in [Nodes -> SUBSET Channels]

ChanTypes == chan \in [Channels -> ChanStates]

TypeOK == FlagTypes /\ TaskTypes /\ SetTypes /\ CallTypes /\ ChanTypes

Init ==
  /\ phase = "connect" /\ result = "none"
  /\ connected = {} /\ accepted = {}
  /\ isExternal = FALSE /\ isAvoiding \in BOOLEAN
  /\ batch = [n \in Nodes |-> "waiting"]
  /\ canceled = {} /\ locked = FALSE
  /\ funding = [n \in Nodes |-> "idle"]
  /\ detect = "idle" /\ detected = {} /\ polls = 0
  /\ asked = [n \in Nodes |-> "waiting"] /\ answer = [n \in Nodes |-> {}]
  /\ tries = 0
  /\ broadcast = FALSE /\ onchain = FALSE
  /\ chan = [c \in Channels |-> "none"]

-----------------------------------------------------------------------------
(* The checks that precede any proposal                                    *)

NothingProposed ==
  UNCHANGED <<batch, canceled, locked, funding, detection, confirming,
              onchain, chan>>

\* The first error of the graph is returned, and no further task starts
Stop == phase' = "stopped" /\ result' = "error"

\* Peers are connected in parallel; the next task waits for all of them
Connect(c) ==
  /\ phase = "connect" /\ c \notin connected
  /\ connected' = connected \cup {c}
  /\ phase' = IF connected' = Channels THEN "anchors" ELSE phase
  /\ UNCHANGED <<result, accepted, isExternal, isAvoiding>>
  /\ NothingProposed

CheckAnchorSupport ==
  /\ phase = "anchors" /\ phase' = "accept"
  /\ UNCHANGED <<result, checks>>
  /\ NothingProposed

\* Acceptance is tested one channel at a time
CheckAcceptance(c) ==
  /\ phase = "accept" /\ c \notin accepted
  /\ accepted' = accepted \cup {c}
  /\ phase' = IF accepted' = Channels THEN "source" ELSE phase
  /\ UNCHANGED <<result, connected, isExternal, isAvoiding>>
  /\ NothingProposed

\* Internal or external funds: an argument, an old wallet version or the answer
\* to a prompt decide it
ChooseSource ==
  /\ phase = "source" /\ phase' = "balance"
  /\ isExternal' \in BOOLEAN
  /\ UNCHANGED <<result, connected, accepted, isAvoiding>>
  /\ NothingProposed

\* The balance and fee rate steps do nothing for external funds
CheckBalance ==
  /\ phase = "balance" /\ phase' = "propose"
  /\ UNCHANGED <<result, checks>>
  /\ NothingProposed

\* A network mismatch, an unreachable peer, a missing feature, a refused open, a
\* low balance or a failing request: the command ends with nothing proposed
CheckFails ==
  /\ phase \in CheckPhases
  /\ phase = "balance" => ~isExternal
  /\ Stop
  /\ UNCHANGED checks
  /\ NothingProposed

-----------------------------------------------------------------------------
(* The proposals                                                           *)

\* A batch is proposed as a whole.  A failed batch does not stop the next ones
ProposeBatch(n) ==
  /\ phase = "propose" /\ batch[n] = "waiting"
  /\ \/ /\ batch' = [batch EXCEPT ![n] = "proposed"]
        /\ chan' = [c \in Channels |->
                      IF NodeOf[c] = n THEN "proposed" ELSE chan[c]]
     \/ /\ batch' = [batch EXCEPT ![n] = "failed"]
        /\ UNCHANGED chan
  /\ UNCHANGED <<phase, result, checks, canceled, locked, funding, detection,
                 confirming, onchain>>

AllBatchesFailed == \A n \in Nodes : batch[n] = "failed"  \* mutant of the next
SomeBatchFailed == \E n \in Nodes : batch[n] = "failed"

\* All batches were tried: a failed one sends the command to cancel the others
Proposed ==
  /\ phase = "propose" /\ \A n \in Nodes : batch[n] # "waiting"
  /\ IF SomeBatchFailed
       THEN phase' = "undo" /\ UNCHANGED detect
       ELSE /\ phase' = "getFunding"
            /\ detect' = IF isExternal THEN "polling" ELSE "done"
  /\ UNCHANGED <<result, checks, batch, canceled, locked, funding, detected,
                 polls, confirming, onchain, chan>>

\* The channels of the batches that were proposed
NoneToCancel == {}                                    \* mutant of ToCancel
ToCancel == {c \in Channels : batch[NodeOf[c]] = "proposed"}

\* cancelPendingChannel ends a proposal unless the node refuses
Cancel(c) ==
  /\ canceled' = canceled \cup {c}
  /\ \/ UNCHANGED chan
     \/ /\ chan[c] = "proposed"
        /\ chan' = [chan EXCEPT ![c] = "gone"]

CancelProposal(c) ==
  /\ phase = "undo" /\ c \in ToCancel \ canceled
  /\ Cancel(c)
  /\ UNCHANGED <<phase, result, checks, batch, locked, funding, detection,
                 confirming, onchain>>

ProposalsCanceled ==
  /\ phase = "undo" /\ ToCancel \subseteq canceled
  /\ Stop
  /\ UNCHANGED <<checks, batch, canceled, locked, funding, detection,
                 confirming, onchain, chan>>

-----------------------------------------------------------------------------
(* The funding                                                             *)

\* getFundedTransaction: the wallet signs and locks its inputs, or the user
\* pastes a signed transaction.  A failure goes to cancelPending, not to Stop
GetFunding ==
  /\ phase = "getFunding"
  /\ \/ phase' = "psbt" /\ locked' = ~isExternal
     \/ phase' = "cancel" /\ UNCHANGED locked
  /\ UNCHANGED <<result, checks, batch, canceled, funding, detection,
                 confirming, onchain, chan>>

\* The PSBT was returned, or derived from the transaction; the nodes are then
\* all called at once
FundingPsbt ==
  /\ phase = "psbt"
  /\ \/ phase' = "fund" /\ funding' = [n \in Nodes |-> "called"]
     \/ phase' = "cancel" /\ UNCHANGED funding
  /\ UNCHANGED <<result, checks, batch, canceled, locked, detection,
                 confirming, onchain, chan>>

\* fundPendingChannels on one node: it succeeds when it finalized each channel;
\* an error may leave some of them finalized
FundsAll(n) ==
  /\ \A c \in OpenedBy(n) : chan[c] = "proposed"
  /\ chan' = [c \in Channels |->
                IF NodeOf[c] = n THEN "finalizing" ELSE chan[c]]

FundsSome(n) ==
  \E S \in SUBSET {c \in OpenedBy(n) : chan[c] = "proposed"} :
       chan' = [c \in Channels |-> IF c \in S THEN "finalizing" ELSE chan[c]]

\* The first error ends the wait; the calls on the other nodes go on
FundNode(n) ==
  /\ funding[n] = "called"
  /\ \/ /\ FundsAll(n)
        /\ funding' = [funding EXCEPT ![n] = "ok"]
        /\ phase' = IF phase = "fund" /\ \A m \in Nodes : funding'[m] = "ok"
                      THEN "confirm" ELSE phase
     \/ /\ FundsSome(n)
        /\ funding' = [funding EXCEPT ![n] = "failed"]
        /\ phase' = IF phase = "fund" THEN "cancel" ELSE phase
  /\ UNCHANGED <<result, checks, batch, canceled, locked, detection,
                 confirming, onchain>>

\* One try of detectFunding: the address is looked up, and a transaction found
\* is given to every node.  The answer of a lookup may be an error
PollFunding ==
  /\ detect = "polling"
  /\ \/ /\ onchain
        /\ \/ detect' = "funding" /\ detected' = Nodes
           \/ detect' = "done" /\ UNCHANGED detected
        /\ UNCHANGED polls
     \/ /\ polls' = polls + 1
        /\ detect' = IF polls' = PollTimes THEN "done" ELSE detect
        /\ UNCHANGED detected
  /\ UNCHANGED <<phase, result, checks, batch, canceled, locked, funding,
                 confirming, onchain, chan>>

\* detectFunding ignores what the nodes answer
DetectedFund(n) ==
  /\ n \in detected
  /\ FundsSome(n)
  /\ detected' = detected \ {n}
  /\ detect' = IF detected' = {} THEN "done" ELSE detect
  /\ UNCHANGED <<phase, result, checks, batch, canceled, locked, funding,
                 polls, confirming, onchain>>

-----------------------------------------------------------------------------
(* The confirmation that every channel is pending, and the broadcast       *)

\* The nodes are asked for their channels in parallel
GetChannelOutpoints(n) ==
  /\ phase = "confirm" /\ asked[n] = "waiting"
  /\ \/ /\ asked' = [asked EXCEPT ![n] = "answered"]
        /\ answer' = [answer EXCEPT ![n] = ListedBy(n)]
     \/ /\ asked' = [asked EXCEPT ![n] = "failed"]
        /\ UNCHANGED answer
  /\ UNCHANGED <<phase, result, checks, batch, canceled, locked, funding,
                 detection, tries, broadcast, onchain, chan>>

\* A channel listed by two of the opening nodes is in the flattened list twice
Opening == {p \in Nodes \X Channels : p[2] \in answer[p[1]]}

\* Mutants of IsConfirmed: the answers are not counted; one missing is ignored
AllAnswered == \A n \in Nodes : asked[n] = "answered"
AllButOneConfirmed ==
  AllAnswered /\ Cardinality(Opening) + 1 >= Cardinality(Channels)
IsConfirmed ==
  /\ \A n \in Nodes : asked[n] = "answered"
  /\ Cardinality(Opening) = Cardinality(Channels)

\* Mutants of Retry: one try too many; a retry that is never counted
RetryOnceMore ==
  /\ tries' = tries + 1
  /\ asked' = [n \in Nodes |-> "waiting"] /\ answer' = [n \in Nodes |-> {}]
  /\ IF tries' > CheckTimes THEN Stop ELSE phase' = "confirm" /\ UNCHANGED result
RetryForever ==
  /\ asked' = [n \in Nodes |-> "waiting"] /\ answer' = [n \in Nodes |-> {}]
  /\ phase' = "confirm" /\ UNCHANGED <<tries, result>>

\* asyncRetry: a failed try is repeated until the times are used up
Retry ==
  /\ tries' = tries + 1
  /\ asked' = [n \in Nodes |-> "waiting"] /\ answer' = [n \in Nodes |-> {}]
  /\ IF tries' = CheckTimes THEN Stop ELSE phase' = "confirm" /\ UNCHANGED result

\* An error of one node fails the try at once; else the number of channels must
\* be the number that was proposed
ConfirmFails ==
  /\ phase = "confirm"
  /\ \/ \E n \in Nodes : asked[n] = "failed"
     \/ /\ \A n \in Nodes : asked[n] = "answered"
        /\ ~IsConfirmed
  /\ Retry
  /\ UNCHANGED <<checks, batch, canceled, locked, funding, detection,
                 broadcast, onchain, chan>>

Confirm ==
  /\ phase = "confirm" /\ IsConfirmed
  /\ phase' = IF isAvoiding THEN "finished" ELSE "broadcast"
  /\ UNCHANGED <<result, checks, batch, canceled, locked, funding, detection,
                 confirming, onchain, chan>>

\* The request may fail although the transaction was published
BroadcastChainTransaction ==
  /\ phase = "broadcast"
  /\ \/ /\ broadcast' = TRUE /\ phase' = "finished"
        /\ UNCHANGED <<result, tries, asked, answer>>
     \/ /\ broadcast' \in {broadcast, TRUE}
        /\ Retry
  /\ UNCHANGED <<checks, batch, canceled, locked, funding, detection, onchain,
                 chan>>

\* The command returns when every task has ended, detectFunding included
Completed ==
  /\ phase = "finished" /\ detect = "done" /\ result = "none"
  /\ result' = "ok"
  /\ UNCHANGED <<phase, checks, batch, canceled, locked, funding, detection,
                 confirming, onchain, chan>>

-----------------------------------------------------------------------------
(* The cancelation after a funding error                                   *)

\* The inner asyncEach is given a function where it takes the pending channels,
\* so that no cancelPendingChannel call is made
CancelPending ==
  /\ phase = "cancel" /\ phase' = "unlock"
  /\ UNCHANGED <<result, checks, batch, canceled, locked, funding, detection,
                 confirming, onchain, chan>>

\* The inputs are looked for on the reflected result, which has none, so that no
\* input is unlocked and the funding error is returned
CancelLocks ==
  /\ phase = "unlock"
  /\ Stop
  /\ UNCHANGED <<checks, batch, canceled, locked, funding, detection,
                 confirming, onchain, chan>>

-----------------------------------------------------------------------------
(* The environment: the nodes, their peers and an outside signer           *)

node == <<phase, result, checks, batch, canceled, locked, funding, detection,
          confirming>>

ChannelStep(c, from, to) ==
  /\ chan[c] = from
  /\ chan' = [chan EXCEPT ![c] = to]
  /\ UNCHANGED <<node, onchain>>

PeerSigns(c) == ChannelStep(c, "finalizing", "countersigned")
SignatureArrives(c) == ChannelStep(c, "countersigned", "pending")

\* A proposal times out, a peer rejects the funding or disconnects
ChannelLost(c) ==
  \/ \E s \in {"proposed", "finalizing"} : ChannelStep(c, s, "gone")
  \/ ChannelStep(c, "countersigned", "orphaned")

\* The outputs to pay are shown when getFunding starts
PublishOutside ==
  /\ isExternal /\ ~onchain /\ detect = "polling"
  /\ onchain' = TRUE
  /\ UNCHANGED <<node, chan>>

-----------------------------------------------------------------------------

Checks ==
  \/ \E c \in Channels : Connect(c) \/ CheckAcceptance(c)
  \/ CheckAnchorSupport \/ ChooseSource \/ CheckBalance \/ CheckFails

Proposals ==
  \/ \E n \in Nodes : ProposeBatch(n)
  \/ \E c \in Channels : CancelProposal(c)
  \/ Proposed \/ ProposalsCanceled

Detection == PollFunding \/ \E n \in Nodes : DetectedFund(n)

Publishing ==
  \/ \E n \in Nodes : FundNode(n) \/ GetChannelOutpoints(n)
  \/ FundingPsbt \/ ConfirmFails \/ Confirm \/ BroadcastChainTransaction
  \/ Completed \/ CancelPending \/ CancelLocks

\* What the program does by itself once it has the answers of its requests
Program == Checks \/ Proposals \/ Detection \/ Publishing

Environment ==
  \/ \E c \in Channels : PeerSigns(c) \/ SignatureArrives(c) \/ ChannelLost(c)
  \/ PublishOutside

Next == Program \/ GetFunding \/ Environment

Spec == Init /\ [][Next]_vars

\* Requests are answered.  GetFunding waits for a user and the environment may
\* stand still: neither is fair
FairSpec == Spec /\ WF_vars(Checks) /\ WF_vars(Proposals)
                 /\ WF_vars(Detection) /\ WF_vars(Publishing)

-----------------------------------------------------------------------------
(* Properties                                                              *)

HasCommitment == {c \in Channels : chan[c] = "pending"}

(* A transaction this program publishes never locks coins in a channel     *)
(* whose opener has no commitment to take them back with: "Every channel   *)
(* to open should be reflected in a channel" before the broadcast.         *)
BroadcastSafe == broadcast => HasCommitment = Channels

(* All or nothing: a node is given the funding only when every batch was   *)
(* proposed, whatever order the batches and the detection take.            *)
FundedOnlyWhenAllProposed ==
  (\E c \in Channels : chan[c] \in {"finalizing", "countersigned", "pending"})
    => \A n \in Nodes : batch[n] = "proposed"

(* When a batch fails the command returns only after it asked to cancel    *)
(* each channel the other batches proposed.                                *)
FailedProposalsCanceled ==
  result = "error" /\ SomeBatchFailed
    => {c \in Channels : chan[c] # "none"} \subseteq canceled

(* Success is reported only for channels that are all pending, even while  *)
(* detectFunding funds the same channels on the side.                      *)
SuccessIsComplete == result = "ok" => HasCommitment = Channels

(* A command whose user answered ends, whatever fails: every wait that     *)
(* follows the funding is a bounded retry.                                 *)
FundedCommandEnds == phase = "psbt" ~> result # "none"

(* "Cancel pending if there is an error": when cancelPending is over after *)
(* a funding error, a cancel call was made for each proposed channel.      *)
FailedFundingCanceled == phase = "unlock" => ToCancel \subseteq canceled

(* What a multi-channel funding promises, and its implementation here.     *)
Promise == INSTANCE AtomicFunding
  WITH committed <- HasCommitment, published <- broadcast
PromiseSpec == Promise!Spec

=============================================================================
