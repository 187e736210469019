------------------------- MODULE OpenChannelsProofs -------------------------
(***************************************************************************)
(* For every set of nodes and channels: type correctness, the all or       *)
(* nothing of the proposals, and, when no channel links two opening nodes, *)
(* the safety of the broadcast and the implementation of AtomicFunding.    *)
(***************************************************************************)
EXTENDS OpenChannels, FiniteSetTheorems, TLAPS

-----------------------------------------------------------------------------
(* Types.  The bounds of the two retry counters are inductive only with the *)
(* remark that a task that still retries has tries left.                   *)

RetriesLeft ==
  /\ phase \in CheckPhases \cup {"propose"} => detect = "idle" /\ detected = {}
  /\ detect \in {"idle", "polling"} => polls # PollTimes
  /\ phase # "stopped" => tries # CheckTimes

(* `bos open` keeps its state within the types of TypeOK: in particular    *)
(* neither retry counter passes its bound.                                 *)
THEOREM TypeCorrect == Spec => []TypeOK
<1> USE DEF TypeOK
<1>1. Init => TypeOK /\ RetriesLeft
  <2>1. Init => FlagTypes
    BY DEF Init, FlagTypes
  <2>2. Init => TaskTypes
    BY TimesAssumption DEF Init, TaskTypes, Phases
  <2>3. Init => SetTypes
    BY DEF Init, SetTypes
  <2>4. Init => CallTypes
    BY DEF Init, CallTypes
  <2>5. Init => ChanTypes
    BY DEF Init, ChanTypes, ChanStates
  <2>6. Init => RetriesLeft
    BY TimesAssumption DEF Init, RetriesLeft, CheckPhases
  <2> QED BY <2>1, <2>2, <2>3, <2>4, <2>5, <2>6
<1>2. TypeOK /\ RetriesLeft /\ [Next]_vars => (TypeOK /\ RetriesLeft)'
  <2> SUFFICES ASSUME TypeOK, RetriesLeft, [Next]_vars
               PROVE (TypeOK /\ RetriesLeft)'
    OBVIOUS
  <2> USE DEF NothingProposed, checks, detection, confirming, node, vars,
          Next, Program, Checks, Proposals, Detection, Publishing, Environment
  <2>1. FlagTypes'
    BY DEF FlagTypes, Connect, CheckAnchorSupport, CheckAcceptance,
      ChooseSource, CheckBalance, CheckFails, ProposeBatch, CancelProposal,
      Proposed, ProposalsCanceled, PollFunding, DetectedFund, FundNode,
      GetChannelOutpoints, FundingPsbt, ConfirmFails, Confirm,
      BroadcastChainTransaction, Completed, CancelPending, CancelLocks,
      GetFunding, PeerSigns, SignatureArrives, ChannelLost, ChannelStep,
      PublishOutside
  <2>2. TaskTypes' /\ RetriesLeft'
    <3> USE TimesAssumption DEF TaskTypes, RetriesLeft, Phases, CheckPhases
    <3>1. CASE Checks
      BY <3>1 DEF Connect, CheckAnchorSupport, CheckAcceptance,
        ChooseSource, CheckBalance, CheckFails, Stop
    <3>2. CASE Proposals
      BY <3>2 DEF ProposeBatch, CancelProposal, Proposed, ProposalsCanceled, Stop
    <3>3. CASE Detection
      <4>1. CASE PollFunding
        <5>1. CASE polls' = polls
          BY <4>1, <5>1 DEF PollFunding
        <5>2. CASE polls' = polls + 1 /\ UNCHANGED <<phase, result, tries>>
                   /\ detect' = IF polls' = PollTimes THEN "done" ELSE detect
          BY <5>2, <4>1 DEF PollFunding
        <5> QED BY <4>1, <5>1, <5>2 DEF PollFunding
      <4>2. CASE \E n \in Nodes : DetectedFund(n)
        BY <4>2 DEF DetectedFund
      <4> QED BY <3>3, <4>1, <4>2
    <3>4. CASE Publishing
      <4>1. CASE ConfirmFails \/ BroadcastChainTransaction
        <5>1. /\ UNCHANGED <<detect, polls>>
              /\ phase \in {"confirm", "broadcast"}
              /\ \/ Retry
                 \/ phase' = "finished" /\ UNCHANGED <<result, tries>>
          BY <4>1 DEF ConfirmFails, BroadcastChainTransaction
        <5>2. CASE Retry
          <6>1. tries' = tries + 1 /\ tries # CheckTimes
            BY <5>1, <5>2 DEF Retry
          <6>2. tries' \in 0 .. CheckTimes
            BY <6>1
          <6> QED BY <5>1, <5>2, <6>2 DEF Retry, Stop
        <5>3. CASE phase' = "finished" /\ UNCHANGED <<result, tries>>
          BY <5>1, <5>3
        <5> QED BY <5>1, <5>2, <5>3
      <4>2. CASE ~(ConfirmFails \/ BroadcastChainTransaction)
        BY <3>4, <4>2 DEF FundNode, GetChannelOutpoints, FundingPsbt, Confirm,
          Completed, CancelPending, CancelLocks, Stop
      <4> QED BY <4>1, <4>2
    <3>5. CASE GetFunding
      BY <3>5 DEF GetFunding
    <3>6. CASE Environment
      BY <3>6 DEF PeerSigns, SignatureArrives, ChannelLost, ChannelStep,
        PublishOutside
    <3> QED BY <3>1, <3>2, <3>3, <3>4, <3>5, <3>6
  <2>3. SetTypes'
    BY DEF SetTypes, Connect, CheckAnchorSupport, CheckAcceptance,
      ChooseSource, CheckBalance, CheckFails, ProposeBatch, CancelProposal,
      Cancel, Proposed, ProposalsCanceled, PollFunding, DetectedFund, FundNode,
      GetChannelOutpoints, FundingPsbt, ConfirmFails, Confirm,
      BroadcastChainTransaction, Completed, CancelPending, CancelLocks,
      GetFunding, PeerSigns, SignatureArrives, ChannelLost, ChannelStep,
      PublishOutside
  <2>4. CallTypes'
    BY DEF CallTypes, Connect, CheckAnchorSupport, CheckAcceptance,
      ChooseSource, CheckBalance, CheckFails, ProposeBatch, CancelProposal,
      Proposed, ProposalsCanceled, PollFunding, DetectedFund, FundNode,
      GetChannelOutpoints, ListedBy, FundingPsbt, ConfirmFails, Confirm, Retry,
      BroadcastChainTransaction, Completed, CancelPending, CancelLocks,
      GetFunding, PeerSigns, SignatureArrives, ChannelLost, ChannelStep,
      PublishOutside
  <2>5. ChanTypes'
    BY DEF ChanTypes, ChanStates, Connect, CheckAnchorSupport, CheckAcceptance,
      ChooseSource, CheckBalance, CheckFails, ProposeBatch, CancelProposal,
      Cancel, Proposed, ProposalsCanceled, PollFunding, DetectedFund, FundNode,
      FundsAll, FundsSome, GetChannelOutpoints, FundingPsbt, ConfirmFails,
      Confirm, BroadcastChainTransaction, Completed, CancelPending, CancelLocks,
      GetFunding, PeerSigns, SignatureArrives, ChannelLost, ChannelStep,
      PublishOutside
  <2> QED BY <2>1, <2>2, <2>3, <2>4, <2>5
<1> QED BY <1>1, <1>2, PTL DEF Spec

-----------------------------------------------------------------------------
(* All or nothing of the proposals                                         *)

\* Until every batch is proposed the command is in its checks or proposals, or
\* has returned; nothing of the funding has started and no channel is past its
\* proposal
NothingFunded ==
  /\ phase \in CheckPhases \cup {"propose", "undo", "stopped"}
  /\ detect = "idle" /\ detected = {}
  /\ \A n \in Nodes : funding[n] = "idle"
  /\ \A c \in Channels : chan[c] \in {"none", "proposed", "gone"}

AllProposed == \A n \in Nodes : batch[n] = "proposed"

ProposalInv ==
  /\ \A c \in Channels : chan[c] # "none" => batch[NodeOf[c]] = "proposed"
  /\ phase \in CheckPhases => \A n \in Nodes : batch[n] = "waiting"
  /\ AllProposed \/ NothingFunded
  /\ phase = "stopped" /\ SomeBatchFailed => ToCancel \subseteq canceled
  /\ result = "error" => phase = "stopped"

LEMMA ProposalInvInit == Init => ProposalInv
  BY DEF Init, ProposalInv, NothingFunded, CheckPhases

LEMMA ProposalInvStep == TypeOK /\ ProposalInv /\ [Next]_vars => ProposalInv'
<1> SUFFICES ASSUME TypeOK, ProposalInv, [Next]_vars PROVE ProposalInv'
  OBVIOUS
<1> USE NodesAssumption DEF TypeOK, CallTypes, ChanTypes, SetTypes,
        NothingProposed, checks, detection, confirming, ProposalInv,
        NothingFunded, AllProposed, SomeBatchFailed, ToCancel, CheckPhases, Stop
<1>1. CASE Checks
  BY <1>1 DEF Checks, Connect, CheckAnchorSupport, CheckAcceptance,
    ChooseSource, CheckBalance, CheckFails
<1>2. ASSUME NEW n \in Nodes, ProposeBatch(n) PROVE ProposalInv'
  BY <1>2 DEF ProposeBatch
<1>3. ASSUME NEW c \in Channels, CancelProposal(c) PROVE ProposalInv'
  BY <1>3 DEF CancelProposal, Cancel
<1>4. CASE Proposed \/ ProposalsCanceled
  BY <1>4 DEF Proposed, ProposalsCanceled
<1>5. CASE PollFunding
  BY <1>5 DEF PollFunding
<1>6. ASSUME NEW n \in Nodes, DetectedFund(n) PROVE ProposalInv'
  BY <1>6 DEF DetectedFund, FundsSome
<1>7. ASSUME NEW n \in Nodes, FundNode(n) PROVE ProposalInv'
  BY <1>7 DEF FundNode, FundsSome, FundsAll
<1>8. CASE \E n \in Nodes : GetChannelOutpoints(n)
  BY <1>8 DEF GetChannelOutpoints
<1>9. CASE FundingPsbt \/ GetFunding
  BY <1>9 DEF FundingPsbt, GetFunding
<1>10. CASE ConfirmFails \/ BroadcastChainTransaction
  BY <1>10 DEF ConfirmFails, BroadcastChainTransaction, Retry
<1>11. CASE Confirm \/ Completed \/ CancelPending \/ CancelLocks
  BY <1>11 DEF Confirm, Completed, CancelPending, CancelLocks
<1>12. CASE Environment
  BY <1>12 DEF Environment, PeerSigns, SignatureArrives, ChannelLost,
    ChannelStep, PublishOutside, node
<1>13. CASE UNCHANGED vars
  BY <1>13 DEF vars
<1> QED
  BY <1>1, <1>2, <1>3, <1>4, <1>5, <1>6, <1>7, <1>8, <1>9, <1>10, <1>11, <1>12,
     <1>13
  DEF Next, Program, Proposals, Detection, Publishing

(* No node is ever given the funding while a batch is not proposed: a      *)
(* failed or missing batch means that no channel is funded.                *)
THEOREM AllOrNothing == Spec => []FundedOnlyWhenAllProposed
<1>1. ProposalInv => FundedOnlyWhenAllProposed
  BY DEF ProposalInv, NothingFunded, AllProposed, FundedOnlyWhenAllProposed
<1> QED
  BY <1>1, TypeCorrect, ProposalInvInit, ProposalInvStep, PTL DEF Spec

(* The command that returns the error of a batch made a cancel call for    *)
(* each channel of the other batches.                                      *)
THEOREM FailedBatchCanceled == Spec => []FailedProposalsCanceled
<1>1. ProposalInv => FailedProposalsCanceled
  BY NodesAssumption
  DEF ProposalInv, FailedProposalsCanceled, ToCancel
<1> QED
  BY <1>1, TypeCorrect, ProposalInvInit, ProposalInvStep, PTL DEF Spec

-----------------------------------------------------------------------------
(* The safety of the broadcast, when no channel links two opening nodes    *)

NoLinks == \A c \in Channels : PeerOf[c] \notin Nodes

BroadcastInv ==
  /\ \A n \in Nodes : answer[n] \subseteq OpenedBy(n) \cap HasCommitment
  /\ broadcast \/ phase \in {"broadcast", "finished"} \/ result = "ok"
       => HasCommitment = Channels

(* The commitments are monotone: one arrives, in a step that publishes     *)
(* nothing, or they stay as they are.                                      *)
LEMMA Commitments ==
  ASSUME TypeOK, ProposalInv, [Next]_vars
  PROVE  \/ HasCommitment' = HasCommitment
         \/ \E c \in Channels :
              /\ c \notin HasCommitment
              /\ HasCommitment' = HasCommitment \cup {c}
              /\ UNCHANGED <<broadcast, answer, phase, result>>
<1> USE NodesAssumption DEF TypeOK, ChanTypes, CallTypes, HasCommitment, ProposalInv
<1>1. CASE UNCHANGED chan
  BY <1>1
<1>2. ASSUME NEW n \in Nodes, ProposeBatch(n) PROVE HasCommitment' = HasCommitment
  BY <1>2 DEF ProposeBatch
<1>3. ASSUME NEW c \in Channels, CancelProposal(c)
      PROVE  HasCommitment' = HasCommitment
  BY <1>3 DEF CancelProposal, Cancel
<1>4. ASSUME NEW n \in Nodes, FundNode(n) \/ DetectedFund(n)
      PROVE  HasCommitment' = HasCommitment
  <2>1. ASSUME NEW c \in Channels
        PROVE  \/ chan[c] = chan'[c]
               \/ chan[c] = "proposed" /\ chan'[c] = "finalizing"
    BY <1>4 DEF FundNode, DetectedFund, FundsAll, FundsSome, OpenedBy
  <2> QED BY <2>1
<1>5. ASSUME NEW c \in Channels, PeerSigns(c) \/ ChannelLost(c)
      PROVE  HasCommitment' = HasCommitment
  BY <1>5 DEF PeerSigns, ChannelLost, ChannelStep
<1>6. ASSUME NEW c \in Channels, SignatureArrives(c)
      PROVE  /\ c \notin HasCommitment
             /\ HasCommitment' = HasCommitment \cup {c}
             /\ UNCHANGED <<broadcast, answer, phase, result>>
  BY <1>6 DEF SignatureArrives, ChannelStep, node, confirming
<1> QED
  BY <1>1, <1>2, <1>3, <1>4, <1>5, <1>6
  DEF Next, Program, Checks, Proposals, Detection, Publishing, Environment,
    NothingProposed, vars, Connect, CheckAnchorSupport, CheckAcceptance,
    ChooseSource, CheckBalance, CheckFails, Proposed, ProposalsCanceled,
    PollFunding, GetChannelOutpoints, FundingPsbt, ConfirmFails, Confirm,
    BroadcastChainTransaction, Completed, CancelPending, CancelLocks,
    GetFunding, PublishOutside, node

(* A set of pairs that has as many members as there are channels, each a   *)
(* channel with the one node that opens it, holds every channel.           *)
LEMMA CountOfOpening ==
  ASSUME TypeOK, IsConfirmed,
         \A n \in Nodes : answer[n] \subseteq OpenedBy(n)
  PROVE  \A c \in Channels : c \in answer[NodeOf[c]]
<1> DEFINE Own == {<<NodeOf[c], c>> : c \in Channels}
           Pair == [c \in Channels |-> <<NodeOf[c], c>>]
<1>1. Opening \subseteq Own
  BY NodesAssumption DEF Opening, OpenedBy
<1>2. Pair \in Bijection(Channels, Own)
  BY DEF Bijection, Injection, Surjection, IsInjective
<1>3. IsFiniteSet(Own) /\ Cardinality(Own) = Cardinality(Channels)
  <2>1. ExistsBijection(Channels, Own)
    BY <1>2 DEF ExistsBijection
  <2> HIDE DEF Own
  <2> QED BY <2>1, ChannelsAssumption, FS_Bijection
<1>4. Opening = Own
  <2> HIDE DEF Own
  <2> QED BY <1>1, <1>3, FS_Subset DEF IsConfirmed
<1>5. ASSUME NEW c \in Channels PROVE c \in answer[NodeOf[c]]
  <2>1. <<NodeOf[c], c>> \in Opening
    BY <1>4
  <2>2. PICK p \in Nodes \X Channels :
          p = <<NodeOf[c], c>> /\ p[2] \in answer[p[1]]
    BY <2>1 DEF Opening
  <2> QED BY <2>2
<1> QED BY <1>5

LEMMA BroadcastInvInit == Init => BroadcastInv
  BY DEF Init, BroadcastInv

LEMMA BroadcastInvStep ==
  ASSUME NoLinks, TypeOK, ProposalInv, BroadcastInv, [Next]_vars
  PROVE  BroadcastInv'
<1> USE DEF BroadcastInv
<1>1. HasCommitment \subseteq HasCommitment'
      /\ (HasCommitment' # HasCommitment
            => UNCHANGED <<broadcast, answer, phase, result>>)
  BY Commitments
<1>2. HasCommitment' \subseteq Channels
  BY DEF HasCommitment
<1>3. CASE UNCHANGED <<broadcast, answer, phase, result>>
  BY <1>1, <1>2, <1>3 DEF OpenedBy
<1>4. CASE ~UNCHANGED <<broadcast, answer, phase, result>>
  <2> HasCommitment' = HasCommitment
    BY <1>1, <1>4
  <2> USE DEF OpenedBy
  <2>1. ASSUME NEW n \in Nodes, GetChannelOutpoints(n) PROVE BroadcastInv'
    <3>1. ListedBy(n) = OpenedBy(n) \cap HasCommitment
      BY DEF ListedBy, NoLinks, HasCommitment
    <3> QED BY <2>1, <3>1 DEF GetChannelOutpoints, TypeOK, CallTypes
  <2>2. CASE Confirm
    <3>1. \A c \in Channels : c \in answer[NodeOf[c]]
      BY <2>2, CountOfOpening DEF Confirm
    <3>2. HasCommitment = Channels
      BY <3>1, NodesAssumption DEF HasCommitment
    <3> QED BY <2>2, <3>2 DEF Confirm, confirming
  <2>3. CASE ConfirmFails
    BY <2>3 DEF ConfirmFails, Retry, Stop
  <2>4. CASE BroadcastChainTransaction
    BY <2>4 DEF BroadcastChainTransaction, Retry, Stop
  <2>5. CASE Completed
    BY <2>5 DEF Completed, confirming
  <2>6. CASE Checks \/ Proposals \/ Detection
    BY <2>6 DEF Checks, Connect, CheckAnchorSupport, CheckAcceptance,
      ChooseSource, CheckBalance, CheckFails, NothingProposed, Proposals,
      ProposeBatch, CancelProposal, Proposed, ProposalsCanceled, Detection,
      PollFunding, DetectedFund, confirming, Stop
  <2>7. CASE FundingPsbt \/ CancelPending \/ CancelLocks \/ GetFunding
             \/ \E n \in Nodes : FundNode(n)
    BY <2>7 DEF FundingPsbt, CancelPending, CancelLocks, GetFunding, FundNode,
      confirming, Stop
  <2>8. CASE Environment
    BY <1>4, <2>8 DEF Environment, PeerSigns, SignatureArrives, ChannelLost,
      ChannelStep, PublishOutside, node, confirming
  <2> QED
    BY <1>4, <2>1, <2>2, <2>3, <2>4, <2>5, <2>6, <2>7, <2>8
    DEF Next, Program, Publishing, vars
<1> QED BY <1>3, <1>4

(* When no saved node opens a channel to another, the funding transaction  *)
(* is broadcast only when every opener has its commitment: counting the    *)
(* channels of the transaction is then as good as comparing them.          *)
THEOREM SafeBroadcast == NoLinks => (Spec => []BroadcastSafe)
<1>1. BroadcastInv => BroadcastSafe
  BY DEF BroadcastInv, BroadcastSafe
<1>2. ASSUME NoLinks PROVE Spec => []BroadcastSafe
  <2>1. TypeOK /\ ProposalInv /\ BroadcastInv /\ [Next]_vars => BroadcastInv'
    BY <1>2, BroadcastInvStep
  <2> QED
    BY <1>1, <2>1, TypeCorrect, ProposalInvInit, ProposalInvStep,
      BroadcastInvInit, PTL DEF Spec
<1> QED BY <1>2

(* Under the same condition success is reported for complete opens only.   *)
THEOREM CompleteSuccess == NoLinks => (Spec => []SuccessIsComplete)
<1>1. BroadcastInv => SuccessIsComplete
  BY DEF BroadcastInv, SuccessIsComplete
<1>2. ASSUME NoLinks PROVE Spec => []SuccessIsComplete
  <2>1. TypeOK /\ ProposalInv /\ BroadcastInv /\ [Next]_vars => BroadcastInv'
    BY <1>2, BroadcastInvStep
  <2> QED
    BY <1>1, <2>1, TypeCorrect, ProposalInvInit, ProposalInvStep,
      BroadcastInvInit, PTL DEF Spec
<1> QED BY <1>2

(* Under the same condition `bos open` implements AtomicFunding: each step *)
(* adds one commitment, publishes with all of them, or changes neither.    *)
THEOREM Implements == NoLinks => (Spec => PromiseSpec)
<1> USE DEF Promise!Next, Promise!Commit, Promise!Publish
<1>1. Init => Promise!Init
  BY DEF Init, Promise!Init, HasCommitment
<1>2. ASSUME NoLinks PROVE Spec => PromiseSpec
  <2>1. ASSUME TypeOK, ProposalInv, BroadcastInv, BroadcastInv', [Next]_vars
        PROVE  [Promise!Next]_<<HasCommitment, broadcast>>
    <3>1. CASE HasCommitment' # HasCommitment
      BY <2>1, <3>1, Commitments
    <3>2. CASE HasCommitment' = HasCommitment /\ broadcast' # broadcast
      <4>1. broadcast' = TRUE
        BY <2>1, <3>2 DEF Next, Program, Checks, Proposals, Detection,
          Publishing, Environment, NothingProposed, vars, confirming, node,
          Connect, CheckAnchorSupport, CheckAcceptance, ChooseSource,
          CheckBalance, CheckFails, ProposeBatch, CancelProposal, Proposed,
          ProposalsCanceled, PollFunding, DetectedFund, FundNode,
          GetChannelOutpoints, FundingPsbt, ConfirmFails, Confirm,
          BroadcastChainTransaction, Completed, CancelPending, CancelLocks,
          GetFunding, PeerSigns, SignatureArrives, ChannelLost, ChannelStep,
          PublishOutside
      <4>2. HasCommitment = Channels
        BY <2>1, <3>2, <4>1 DEF BroadcastInv
      <4> QED BY <3>2, <4>1, <4>2
    <3> QED BY <3>1, <3>2
  <2>2. TypeOK /\ ProposalInv /\ BroadcastInv /\ [Next]_vars => BroadcastInv'
    BY <1>2, BroadcastInvStep
  <2> QED
    BY <1>1, <2>1, <2>2, TypeCorrect, ProposalInvInit, ProposalInvStep,
      BroadcastInvInit, PTL DEF Spec, PromiseSpec, Promise!Spec
<1> QED BY <1>2
=============================================================================
