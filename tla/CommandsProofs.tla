--------------------------- MODULE CommandsProofs ---------------------------
(***************************************************************************)
(* The theorems of the commands, for any channels, peers, coins, keys,     *)
(* fees, wishes and bounds.  SendingProofs has the invariants of the       *)
(* commands that send; those of the others come first here, a part for     *)
(* each command, then what holds whichever command runs.                   *)
(***************************************************************************)
EXTENDS Commands, SendingProofs, SetLemmas

-----------------------------------------------------------------------------
(* Peers that are removed, and channels that are opened                    *)

\* The channels that are closed are among those that were chosen and checked: all with
\* one peer, which is the one that is named
Closing ==
  /\ job.name = "remove" /\ ~job.dry
  /\ left \subseteq Channels
  /\ \A c, d \in left \cup Ended : Partner[c] = Partner[d]
  /\ job.peer # Anyone => left \subseteq With(job.peer)
  /\ job.points # {} /\ ~job.select => left \subseteq job.points
  /\ job.peer # Anyone /\ ~job.forced => \A c \in left : ~Blocked(c)

Opening ==
  /\ job.name = "open"
  /\ act \in {"try", "open"} => left \subseteq Candidates
  /\ act = "open" => trying \in Candidates /\ ~job.dry
  /\ act = "rate" /\ ~job.dry => opened # {}

PeeringInv ==
  /\ status \in [Channels -> States]
  /\ act \notin {"close", "ended"} => Ended = {}
  /\ act # "ended" => reply = "none"
  /\ act \in {"off", "start"} => opened = {}
  /\ act = "choose" => job.name = "remove" /\ (job.peer = Anyone => job.points = {} /\ ~job.select)
  /\ act = "close" => Closing
  /\ act \in {"try", "open", "rate"} => Opening
  /\ RemovedAsAsked /\ OpenedAsAsked

LEMMA PeeringStarts == ASSUME PeeringInit \/ Unemployed PROVE PeeringInv
BY DEF PeeringInit, Unemployed, Clear, PeeringInv, States, Ended, ByForce, RemovedAsAsked, OpenedAsAsked,
       NoJob

\* The steps that close channels, and the one in which a channel goes off or on line
LEMMA ClosingStep ==
  ASSUME PeeringInv, CloseChannel \/ Flap PROVE PeeringInv'
<1> USE DEF PeeringInv, States
<1>1. CASE Flap
  <2>1. Ended' = Ended /\ ByForce' = ByForce /\ status' \in [Channels -> States]
    BY <1>1 DEF Flap, Ended, ByForce
  <2>2. UNCHANGED <<job, act, readAs, left, trying, opened, reply>> /\ act \in {"choose", "close"}
    BY <1>1 DEF Flap
  <2>3. RemovedAsAsked' /\ OpenedAsAsked'
    BY <2>1, <2>2 DEF RemovedAsAsked, OpenedAsAsked, With
  <2>4. act = "close" => Closing'
    BY <2>1, <2>2 DEF Closing, With, Blocked
  <2> QED BY <2>1, <2>2, <2>3, <2>4
<1>2. CASE CloseChannel
  <2>1. PICK c \in left :
          \/ /\ left' = left \ {c}
             /\ \/ readAs[c] = "inactive" /\ status' = [status EXCEPT ![c] = "forced"]
                \/ readAs[c] # "inactive" /\ status[c] = "active"
                     /\ status' = [status EXCEPT ![c] = "closing"]
          \/ UNCHANGED <<left, status>>
    BY <1>2 DEF CloseChannel
  <2>2. /\ UNCHANGED <<job, flapped, readAs, trying, opened>> /\ Closing
        /\ (act' = "close" /\ reply' = "none") \/ (act' = "ended" /\ reply' = "error")
    BY <1>2 DEF CloseChannel, Goes, Replies
  <2>3. /\ Ended' \subseteq Ended \cup left /\ Ended' \cup left' \subseteq Ended \cup left
        /\ status' \in [Channels -> States]
    BY <2>1, <2>2 DEF Ended, Closing
  <2>4. job.peer # Anyone /\ ~job.forced => ByForce' = {}
    BY <2>1, <2>2 DEF ByForce, Closing, Blocked, RemovedAsAsked
  <2>5. RemovedAsAsked'
    BY <2>2, <2>3, <2>4 DEF RemovedAsAsked, Closing, With
  <2>6. Closing'
    BY <2>1, <2>2, <2>3 DEF Closing, With, Blocked
  <2>7. OpenedAsAsked'
    BY <2>2 DEF OpenedAsAsked, Closing
  <2> QED BY <2>2, <2>3, <2>5, <2>6, <2>7
<1> QED BY <1>1, <1>2

LEMMA PeeringStep ==
  ASSUME PeeringInv, [PeeringNext]_peeringVars PROVE PeeringInv'
<1> USE DEF PeeringInv, Goes, Replies
<1>1. ASSUME UNCHANGED <<job, status>> PROVE UNCHANGED <<Ended, ByForce>>
  BY <1>1 DEF Ended, ByForce
<1>2. ASSUME UNCHANGED <<job, status>> PROVE RemovedAsAsked'
  BY <1>1, <1>2 DEF RemovedAsAsked, With
<1>3. CASE ReadChannels
  BY <1>1, <1>2, <1>3 DEF ReadChannels, OpenedAsAsked
<1>4. CASE ChoosePeer
  <2>1. UNCHANGED <<job, status, readAs, opened, trying>> /\ act = "choose" /\ job.name = "remove"
    BY <1>4 DEF ChoosePeer
  <2>2. OpenedAsAsked'
    BY <2>1 DEF OpenedAsAsked
  <2>3. CASE act' = "ended"
    BY <1>1, <1>2, <2>1, <2>2, <2>3
  <2>4. CASE act' # "ended"
    <3>1. PICK p \in Peers : \E cs \in ToClose(p) :
            MayRemove(p) /\ Closable(cs) /\ ~job.dry /\ Goes("close") /\ left' = cs
      BY <1>4, <2>4 DEF ChoosePeer
    <3>2. PICK cs \in ToClose(p) :
            MayRemove(p) /\ Closable(cs) /\ ~job.dry /\ Goes("close") /\ left' = cs
      BY <3>1
    <3>3. cs \subseteq With(p) /\ (job.points # {} /\ ~job.select => cs \subseteq job.points)
      BY DEF ToClose
    <3>4. job.peer # Anyone => p = job.peer
      BY <3>2 DEF MayRemove
    <3>5. job.peer # Anyone /\ ~job.forced => \A c \in cs : ~Blocked(c)
      BY <3>2 DEF Closable
    <3>6. Ended' = {}
      BY <1>1, <2>1
    <3>7. Closing'
      BY <2>1, <3>2, <3>3, <3>4, <3>5, <3>6 DEF Closing, With, Blocked
    <3> QED BY <1>2, <2>1, <2>2, <3>2, <3>7
  <2> QED BY <2>3, <2>4
<1>5. CASE CloseChannel \/ Flap
  BY <1>5, ClosingStep
<1>6. CASE ReadClosed
  BY <1>1, <1>2, <1>6 DEF ReadClosed, OpenedAsAsked, Closing
<1>7. CASE ReadPeers
  BY <1>1, <1>2, <1>7 DEF ReadPeers, OpenedAsAsked, Opening, Candidates
<1>8. CASE TryPeer
  BY <1>1, <1>2, <1>8 DEF TryPeer, OpenedAsAsked, Opening, Candidates
<1>9. CASE OpenChannel
  BY <1>1, <1>2, <1>9 DEF OpenChannel, OnError, OpenedAsAsked, Opening, Candidates
<1>10. CASE SetFeeRate
  BY <1>1, <1>2, <1>10 DEF SetFeeRate, OpenedAsAsked, Opening
<1>11. CASE UNCHANGED peeringVars
  BY <1>1, <1>2, <1>11 DEF peeringVars, OpenedAsAsked, Opening, Candidates, Closing, With, Blocked
<1> QED BY <1>3, <1>4, <1>5, <1>6, <1>7, <1>8, <1>9, <1>10, <1>11 DEF PeeringNext

-----------------------------------------------------------------------------
(* Fees that are set                                                       *)

Updated(c) == c \in confirmedChannels /\ policies[c] \in Targets(c)

\* A policy is the one that was read, or a target for a channel with one of the peers;
\* until an error is told the channels that are not left have their target
FeesInv ==
  /\ policies = [c \in Channels |-> policies[c]]
  /\ feeAt \in {"off", "start"} => \A c \in Channels : ~Had(c)
  /\ feeAt = "start" => \A c \in Channels :
       policies[c] # NoSetting => c \in confirmedChannels /\ policies[c] \in Policies
  /\ \A c \in Channels : Had(c) =>
       /\ c \in confirmedChannels /\ policiesRead[c] \in Policies
       /\ policies[c] = policiesRead[c] \/ (Partner[c] \in feeJob.to /\ policies[c] \in Targets(c))
  /\ feeLeft \subseteq ToAdjust
  /\ feeTold # "error" /\ feeJob.set # NoSetting =>
       /\ feeAt \notin {"off", "start"} => \A c \in ToAdjust \ feeLeft : Updated(c)
       /\ feeAt \in {"table", "ended"} => feeLeft = {}
  /\ feeTold = "success" => feeAt = "ended"
  /\ feeAt \in {"off", "start"} => feeTold = "none"
  /\ feeAt = "table" => feeTold # "error"

LEMMA FeesStart == ASSUME FeesInit \/ NoFees PROVE FeesInv
<1>1. \A c \in Channels : ~Had(c)
  BY DEF FeesInit, NoFees, FeesUnread, Had
<1>2. CASE NoFees
  BY <1>1, <1>2 DEF NoFees, FeesUnread, FeesInv
<1>3. CASE FeesInit
  <2>1. PICK s \in FeeStarts : confirmedChannels = s.open /\ policies = s.policies
    BY <1>3 DEF FeesInit
  <2>2. /\ policies \in [Channels -> Settings]
        /\ \A c \in Channels :
             policies[c] # NoSetting => c \in confirmedChannels /\ policies[c] \in Policies
    BY <2>1, FeesAssumption
  <2> QED BY <1>1, <1>3, <2>2 DEF FeesInit, FeesUnread, FeesInv
<1> QED BY <1>2, <1>3

\* The policies that are read are those of channels, or none
LEMMA PoliciesAreRead ==
  ASSUME ReadFees
  PROVE  \/ feeAt' = "ended" /\ feeTold' = "error" /\ UNCHANGED <<policiesRead, feeLeft>>
         \/ /\ policiesRead' = [c \in Channels |-> policiesRead'[c]] /\ feeTold' = feeTold
            /\ \A c \in Channels : policiesRead'[c] \in {policies[c], NoSetting}
            /\ \/ feeJob.set = NoSetting /\ feeAt' = "table" /\ feeLeft' = feeLeft
               \/ feeAt' = "update" /\ feeLeft' = ToAdjust
BY DEF ReadFees

LEMMA FeesStepSafe ==
  ASSUME FeesInv, [FeesNext]_feeVars PROVE FeesInv'
<1> USE DEF FeesInv
<1>1. ASSUME UNCHANGED <<feeJob, policiesRead>>, NEW c PROVE UNCHANGED <<Targets(c), Had(c)>>
  BY <1>1 DEF Targets, Highest, Siblings, Had
<1>2. ASSUME UNCHANGED feeJob PROVE UNCHANGED ToAdjust
  BY <1>2 DEF ToAdjust
<1>3. CASE ReadFees
  <2>1. UNCHANGED <<feeJob, confirmedChannels, policies>> /\ feeAt = "start"
    BY <1>3 DEF ReadFees
  <2>2. CASE feeTold' = "error"
    BY <1>1, <1>2, <1>3, <2>1, <2>2 DEF ReadFees
  <2>3. CASE /\ \A c \in Channels : policiesRead'[c] \in {policies[c], NoSetting}
             /\ feeTold' = feeTold
             /\ \/ feeJob.set = NoSetting /\ feeAt' = "table" /\ feeLeft' = feeLeft
                \/ feeAt' = "update" /\ feeLeft' = ToAdjust
    BY <1>2, <2>1, <2>3 DEF Had
  <2> QED BY <1>3, <2>2, <2>3, PoliciesAreRead
\* The policy of one channel becomes its target
<1>4. ASSUME NEW c \in feeLeft, feeAt = "update", UNCHANGED <<feeJob, feeAt, confirmedChannels, policiesRead>>,
             Applied(c) \/ UNCHANGED policies,
             \/ feeLeft' = feeLeft /\ feeTold' = feeTold
             \/ feeLeft' = feeLeft \ {c} /\ ((Applied(c) /\ feeTold' = feeTold) \/ feeTold' = "error")
      PROVE  FeesInv'
  <2>1. UNCHANGED ToAdjust /\ c \in ToAdjust /\ feeTold # "success"
    BY <1>2, <1>4
  <2>2. \A d \in Channels : UNCHANGED <<Targets(d), Had(d)>>
    BY <1>1, <1>4
  <2>3. CASE UNCHANGED policies
    BY <1>4, <2>1, <2>2, <2>3 DEF Updated, Applied, ToAdjust
  <2>4. CASE Applied(c)
    <3>1. PICK p \in Targets(c) : policies' = [policies EXCEPT ![c] = p]
      BY <2>4 DEF Applied
    <3>2. /\ c \in confirmedChannels /\ policies'[c] = p
          /\ \A d \in Channels \ {c} : policies'[d] = policies[d]
          /\ policies' = [d \in Channels |-> policies'[d]]
      BY <2>1, <2>4, <3>1 DEF Applied, ToAdjust
    <3> QED BY <1>4, <2>1, <2>2, <3>1, <3>2 DEF Updated, ToAdjust
  <2> QED BY <1>4, <2>3, <2>4
<1>5. ASSUME NEW c \in Channels, UpdateFee(c) \/ UpdateFails(c) PROVE FeesInv'
  BY <1>4, <1>5 DEF UpdateFee, UpdateFails
<1>6. CASE UpdatesDone
  BY <1>1, <1>2, <1>6 DEF UpdatesDone, Updated, ToAdjust
<1>7. CASE ReadRates
  <2>1. /\ UNCHANGED <<feeJob, confirmedChannels, policies, policiesRead, feeLeft>>
        /\ feeAt = "table" /\ feeAt' = "ended" /\ feeTold # "error"
    BY <1>7 DEF ReadRates
  <2>2. \A d \in Channels : Targets(d)' = Targets(d) /\ (Had(d)' <=> Had(d))
    BY <1>1, <2>1
  <2>3. \A d \in Channels : Updated(d) => Updated(d)'
    BY <2>1, <2>2 DEF Updated
  <2>4. UNCHANGED ToAdjust /\ feeTold' # "none"
    BY <1>2, <1>7, <2>1 DEF ReadRates
  <2>5. ToAdjust \subseteq Channels
    BY DEF ToAdjust
  <2> QED BY <2>1, <2>2, <2>3, <2>4, <2>5
<1>8. CASE ChannelConfirms
  <2>1. PICK c \in Channels \ confirmedChannels, v \in Values :
          /\ confirmedChannels' = confirmedChannels \cup {c}
          /\ policies' = [policies EXCEPT ![c] = [rate |-> v, cltv |-> v, discount |-> v]]
    BY <1>8 DEF ChannelConfirms
  <2>2. UNCHANGED <<feeJob, feeAt, policiesRead, feeLeft, feeTold>>
    BY <1>8 DEF ChannelConfirms
  <2>3. \A d \in Channels : UNCHANGED <<Targets(d), Had(d)>>
    BY <1>1, <2>2
  <2>4. /\ \A d \in Channels \ {c} : policies'[d] = policies[d]
        /\ policies'[c] \in Policies /\ policies' = [d \in Channels |-> policies'[d]]
    BY <2>1 DEF Policies
  <2> QED BY <1>2, <2>1, <2>2, <2>3, <2>4 DEF Updated, ToAdjust
<1>9. CASE UNCHANGED feeVars
  BY <1>1, <1>2, <1>9 DEF feeVars, Updated, ToAdjust
<1> QED BY <1>3, <1>5, <1>6, <1>7, <1>8, <1>9 DEF FeesNext, FeesStep

\* The target of a channel with a policy is at least what any channel with the peer had
LEMMA TargetsKept ==
  ASSUME FeesInv, NEW c \in Channels, Had(c), NEW p \in Targets(c)
  PROVE  /\ feeJob.set.rate = Unset => p.rate >= policiesRead[c].rate
         /\ feeJob.set.cltv = Unset => p.cltv >= policiesRead[c].cltv
         /\ feeJob.set.discount = Unset => p.discount <= policiesRead[c].discount
<1> DEFINE known == {policiesRead[d] : d \in Siblings(c)}
           rates == {q.rate : q \in known}
           cltvs == {q.cltv : q \in known}
           discounts == {q.discount : q \in known}
<1>1. c \in Siblings(c) /\ policiesRead[c] \in known
  BY DEF Siblings, Had
<1>2. known \subseteq Policies
  BY DEF FeesInv, Siblings, Had
<1>3. /\ rates \subseteq Values /\ cltvs \subseteq Values /\ discounts \subseteq Values
  BY <1>2 DEF Policies
<1>4. /\ policiesRead[c].rate \in rates /\ policiesRead[c].cltv \in cltvs
      /\ policiesRead[c].discount \in discounts
  BY <1>1
<1>5. p = [rate |-> p.rate, cltv |-> p.cltv, discount |-> p.discount]
  BY DEF Targets
<1>6. /\ feeJob.set.rate = Unset => p.rate = Max(rates)
      /\ feeJob.set.cltv = Unset => p.cltv = Max(cltvs)
      /\ feeJob.set.discount = Unset => p.discount = Min(discounts)
  <2>1. Siblings(c) # {}
    BY <1>1
  <2>2. /\ Highest(c).rate = Max(rates) /\ Highest(c).cltv = Max(cltvs)
        /\ Highest(c).discount = Min(discounts)
    BY DEF Highest
  <2> HIDE DEF rates, cltvs, discounts
  <2> QED BY <2>1, <2>2 DEF Targets
<1> HIDE DEF rates, cltvs, discounts
<1>7. ASSUME NEW S \in SUBSET Values PROVE IsFiniteSet(S) /\ S \subseteq Int
  <2>1. IsFiniteSet(Values)
    BY FeesAssumption
  <2>2. IsFiniteSet(S)
    BY <2>1, FS_Subset
  <2>3. S \subseteq Int
    BY FeesAssumption
  <2> QED BY <2>2, <2>3
<1>8. Max(rates) >= policiesRead[c].rate /\ Max(cltvs) >= policiesRead[c].cltv
  BY <1>3, <1>4, <1>7, MaxIsHighest
<1>9. Min(discounts) <= policiesRead[c].discount
  BY <1>3, <1>4, <1>7, MinIsLowest
<1> QED BY <1>6, <1>8, <1>9

\* Channels of a peer have the same targets, and they are what was asked for
LEMMA TargetsAgree ==
  ASSUME NEW c \in Channels, NEW d \in Channels, Partner[c] = Partner[d],
         NEW p \in Targets(c), NEW q \in Targets(d)
  PROVE  Asked(p) /\ (Had(c) => p = q)
<1>1. Siblings(c) = Siblings(d) /\ Highest(c) = Highest(d)
  BY DEF Siblings, Highest
<1>2. /\ p = [rate |-> p.rate, cltv |-> p.cltv, discount |-> p.discount]
      /\ q = [rate |-> q.rate, cltv |-> q.cltv, discount |-> q.discount]
  BY DEF Targets
<1>3. Asked(p)
  BY DEF Targets, Asked
<1>4. Had(c) => p.rate = q.rate /\ p.cltv = q.cltv /\ p.discount = q.discount
  <2>1. Had(c) => Siblings(c) # {}
    BY DEF Siblings, Had
  <2> QED BY <1>1, <2>1 DEF Targets
<1> QED BY <1>2, <1>3, <1>4

LEMMA FeesInvMeans == ASSUME FeesInv PROVE FeesAsAsked
<1>1. ASSUME feeTold = "success", feeJob.set # NoSetting
      PROVE  /\ \A c \in Channels : Partner[c] \in feeJob.to => Asked(policies[c])
             /\ \A c, d \in Channels :
                  Partner[c] = Partner[d] /\ Partner[c] \in feeJob.to /\ Had(c)
                    => policies[c] = policies[d]
  <2>1. \A c \in ToAdjust : policies[c] \in Targets(c)
    BY <1>1 DEF FeesInv, Updated
  <2>2. \A c \in Channels : Partner[c] \in feeJob.to => Asked(policies[c])
    BY <2>1, TargetsAgree DEF ToAdjust
  <2>3. \A c, d \in Channels :
          Partner[c] = Partner[d] /\ Partner[c] \in feeJob.to /\ Had(c) => policies[c] = policies[d]
    BY <2>1, TargetsAgree DEF ToAdjust
  <2> QED BY <2>2, <2>3
<1>2. ASSUME NEW c \in Channels, Had(c)
      PROVE  /\ feeJob.set.rate = Unset => policies[c].rate >= policiesRead[c].rate
             /\ feeJob.set.cltv = Unset => policies[c].cltv >= policiesRead[c].cltv
             /\ feeJob.set.discount = Unset => policies[c].discount <= policiesRead[c].discount
             /\ Partner[c] \notin feeJob.to => policies[c] = policiesRead[c]
  <2>1. policiesRead[c] \in Policies
    BY <1>2 DEF FeesInv
  <2>2. CASE policies[c] = policiesRead[c]
    <3>1. /\ policiesRead[c].rate \in Values /\ policiesRead[c].cltv \in Values
          /\ policiesRead[c].discount \in Values
      BY <2>1 DEF Policies
    <3>2. \A v \in Values : v >= v /\ v <= v
      BY FeesAssumption
    <3> QED BY <2>2, <3>1, <3>2
  <2>3. CASE Partner[c] \in feeJob.to /\ policies[c] \in Targets(c)
    BY <1>2, <2>3, TargetsKept
  <2> QED BY <1>2, <2>2, <2>3 DEF FeesInv
<1> QED BY <1>1, <1>2 DEF FeesAsAsked
-----------------------------------------------------------------------------
(* The coins of the wallet                                                 *)

\* What the command takes from the wish, before the wallet funds it
Prepared ==
  /\ wish.name = "fund" /\ ~FundRefused
  /\ wish.given # {} => picked = wish.given
  /\ phase = "fund" /\ wish.max => picked # {}

\* What the wallet funded
FundedInv ==
  /\ wish.name = "fund" /\ ~FundRefused
  /\ wish.given # {} => funding.inputs = wish.given
  /\ wish.max => funding.pays = SumOf(funding.inputs) - ChainFee
  /\ ~wish.max => funding.pays = wish.amount

LockedInv ==
  /\ coin \in [Coins -> {"absent", "free", "locked", "spent"}]
  /\ phase \in {"sign", "signed"} => Locked \subseteq funding.inputs
  /\ phase \in {"start", "read", "picked", "fund", "found"} => Locked = {}
  /\ phase = "unlocked" /\ wish.dry => Locked = {}

FundsInv ==
  /\ phase # "off" => wish \in Wishes
  /\ read \subseteq Coins
  /\ phase # "ended" => ~published /\ result = "none"
  /\ phase = "read" => ~FundRefused
  /\ phase \in {"picked", "fund"} => Prepared
  /\ phase \in {"sign", "signed", "unlocked"} => FundedInv
  /\ phase = "found" => wish.name = "recover"
  /\ LockedInv /\ PublishedAsAsked /\ DryRunUnlocks

LEMMA FundsStart == ASSUME FundsInit \/ Unwished PROVE FundsInv
BY DEF FundsInit, Unwished, Emptied, FundsInv, LockedInv, Locked, PublishedAsAsked, DryRunUnlocks

\* The number of outputs of a split
LEMMA LargeType ==
  ASSUME read \subseteq Coins, wish \in Wishes
  PROVE  wish.count \in Nat /\ Cardinality(Large) \in Nat /\ Outputs \in Int
<1>1. Large \subseteq Coins
  BY DEF Large
<1>2. IsFiniteSet(Large)
  BY <1>1, WishesAssumption, FS_Subset
<1>3. Cardinality(Large) \in Nat /\ wish.count \in Nat
  BY <1>2, WishesAssumption, FS_CardinalityType
<1> QED BY <1>3 DEF Outputs

\* One step per action
LEMMA FundsStep ==
  ASSUME FundsInv, [FundsNext]_fundsVars
  PROVE  FundsInv'
<1> USE DEF FundsInv, To, Done, FundRefused, DryRunUnlocks, PublishedAsAsked
<1>1. CASE ReadCoins
  BY <1>1 DEF ReadCoins, SameCoins, LockedInv, Locked, Free
<1>2. CASE PickCoins
  BY <1>2 DEF PickCoins, SameCoins, LockedInv, Locked, Prepared, FundedInv
<1>3. CASE SetAmounts
  BY <1>3 DEF SetAmounts, SameCoins, LockedInv, Locked, Prepared
<1>4. CASE Fund
  <2>1. phase = "fund" /\ UNCHANGED <<wish, published, read, picked>> /\ Locked = {}
    BY <1>4 DEF Fund, LockedInv
  <2>2. CASE Done("error") /\ UNCHANGED <<funding, coin>>
    BY <2>1, <2>2 DEF LockedInv, Locked
  <2>3. ASSUME NEW cs \in SUBSET Free, MayFund(cs),
               funding' = [inputs |-> cs, pays |-> Pays],
               coin' = [c \in Coins |-> IF c \in cs THEN "locked" ELSE coin[c]], To("sign")
        PROVE  FundsInv'
    <3>1. FundedInv'
      BY <2>1, <2>3 DEF FundedInv, Prepared, MayFund, Pays
    <3>2. LockedInv'
      BY <2>1, <2>3 DEF LockedInv, Locked
    <3> QED BY <2>1, <2>3, <3>1, <3>2
  <2> QED BY <1>4, <2>2, <2>3 DEF Fund
<1>5. CASE Sign
  BY <1>5 DEF Sign, SameCoins, LockedInv, Locked, FundedInv
<1>6. CASE Unlock
  <2>1. phase = "signed" /\ UNCHANGED <<wish, published, read, picked, funding>>
    BY <1>6 DEF Unlock
  <2>2. CASE ~wish.dry
    BY <1>6, <2>1, <2>2 DEF Unlock, LockedInv, Locked, FundedInv
  <2>3. ASSUME wish.dry, NEW cs \in SUBSET funding.inputs, coin' = Unlocked(cs),
               IF cs = funding.inputs THEN To("unlocked") ELSE Done("error")
        PROVE  FundsInv'
    <3>1. coin' \in [Coins -> {"absent", "free", "locked", "spent"}]
      BY <2>3 DEF Unlocked, LockedInv
    <3>2. cs = funding.inputs => Locked' = {}
      BY <2>1, <2>3 DEF Unlocked, LockedInv, Locked
    <3> QED BY <2>1, <2>3, <3>1, <3>2 DEF LockedInv, FundedInv
  <2> QED BY <1>6, <2>2, <2>3 DEF Unlock
<1>7. CASE Publish
  <2>1. phase = "unlocked" /\ UNCHANGED <<wish, read, picked, funding>> /\ phase' = "ended"
    BY <1>7 DEF Publish
  <2>2. CASE UNCHANGED <<coin, published>>
    BY <2>1, <2>2 DEF LockedInv, Locked
  <2>3. CASE /\ wish.send /\ funding.inputs \subseteq read
             /\ coin' = [c \in Coins |-> IF c \in funding.inputs THEN "spent" ELSE coin[c]]
    <3>1. ~wish.dry
      BY <2>1, <2>3 DEF FundedInv
    <3>2. coin' \in [Coins -> {"absent", "free", "locked", "spent"}]
      BY <2>3 DEF LockedInv
    <3> QED BY <2>1, <2>3, <3>1, <3>2 DEF LockedInv, FundedInv
  <2> QED BY <1>7, <2>2, <2>3 DEF Publish
<1>8. CASE Split
  <2>1. /\ phase = "read" /\ wish.name = "split" /\ UNCHANGED <<wish, read>> /\ phase' = "ended"
        /\ Locked = {} /\ wish \in Wishes
    BY <1>8 DEF Split, LockedInv
  <2>2. CASE UNCHANGED <<coin, published>>
    BY <2>1, <2>2 DEF LockedInv, Locked
  <2>3. ASSUME NEW cs \in SUBSET (Free \ Pending), ~wish.dry, Outputs > 0,
               funding' = [inputs |-> cs, pays |-> Outputs * wish.size],
               coin' = [c \in Coins |-> IF c \in cs THEN "spent" ELSE coin[c]]
        PROVE  FundsInv'
    <3>1. wish.count \in Nat /\ Cardinality(Large) \in Nat
      BY <2>1, LargeType
    <3>2. Large' = Large
      BY <2>1 DEF Large
    <3>3. Outputs \in 1 .. wish.count /\ Outputs + Cardinality(Large) + 1 = wish.count
      BY <2>3, <3>1 DEF Outputs
    <3>4. PublishedAsAsked'
      <4>1. funding'.inputs \cap Pending = {} /\ funding'.pays = Outputs * wish.size
        BY <2>3
      <4>2. wish'.name = "split"
        BY <2>1
      <4>3. \E made \in 1 .. wish'.count :
              funding'.pays = made * wish'.size /\ made + Cardinality(Large') + 1 = wish'.count
        BY <2>1, <3>2, <3>3, <4>1
      <4> QED BY <4>1, <4>2, <4>3
    <3>5. Locked' = {} /\ coin' \in [Coins -> {"absent", "free", "locked", "spent"}]
      BY <2>1, <2>3 DEF LockedInv, Locked
    <3> QED BY <2>1, <2>3, <3>4, <3>5 DEF LockedInv
  <2>4. CASE ~UNCHANGED <<coin, published>>
    <3>1. PICK cs \in SUBSET (Free \ Pending) :
            /\ funding' = [inputs |-> cs, pays |-> Outputs * wish.size]
            /\ coin' = [c \in Coins |-> IF c \in cs THEN "spent" ELSE coin[c]]
      BY <1>8, <2>4 DEF Split
    <3>2. ~wish.dry /\ ~(Outputs <= 0)
      BY <1>8, <2>4 DEF Split
    <3>3. Outputs > 0
      BY <2>1, <3>2, LargeType
    <3> QED BY <2>3, <3>1, <3>2, <3>3
  <2> QED BY <2>2, <2>4
<1>9. CASE FindKey
  BY <1>9 DEF FindKey, SameCoins, LockedInv, Locked
<1>10. CASE RefundTransit
  <2>1. /\ phase = "found" /\ phase' = "ended" /\ UNCHANGED <<wish, coin, read, picked>>
        /\ wish \in Wishes /\ ~wish.dry /\ wish.name = "recover"
    BY <1>10, WishesAssumption DEF RefundTransit
  <2>2. CASE UNCHANGED published
    BY <2>1, <2>2 DEF LockedInv, Locked
  <2>3. CASE ~UNCHANGED published
    <3>1. funding' = [NoFunding EXCEPT !.pays = wish.amount - ChainFee]
      BY <1>10, <2>3 DEF RefundTransit
    <3>2. funding'.pays + ChainFee = wish.amount
      <4>1. funding'.pays = wish.amount - ChainFee
        BY <3>1 DEF NoFunding
      <4> QED BY <2>1, <4>1, WishesAssumption
    <3> QED BY <2>1, <3>2 DEF LockedInv, Locked
  <2> QED BY <2>2, <2>3
<1>11. CASE CoinMoves \/ CoinSpent
  <2>1. UNCHANGED <<wish, phase, read, picked, funding, published, result>>
    BY <1>11 DEF CoinMoves, CoinSpent
  <2>2. coin' \in [Coins -> {"absent", "free", "locked", "spent"}] /\ Locked' \subseteq Locked
    BY <1>11 DEF CoinMoves, CoinSpent, LockedInv, Locked, Free
  <2>3. phase # "ended" /\ phase # "unlocked"
    BY <1>11 DEF CoinMoves, CoinSpent
  <2>4. LockedInv'
    BY <2>1, <2>2, <2>3 DEF LockedInv
  <2> QED BY <2>1, <2>2, <2>3, <2>4 DEF Prepared, FundedInv
<1>12. CASE UNCHANGED fundsVars
  BY <1>12 DEF fundsVars, LockedInv, Locked, Prepared, FundedInv, Large
<1> QED
  BY <1>1, <1>2, <1>3, <1>4, <1>5, <1>6, <1>7, <1>8, <1>9, <1>10, <1>11, <1>12 DEF FundsNext

-----------------------------------------------------------------------------
(* The secret of a swap in                                                 *)

LEMMA WaitNeeds == InNeeds["wait"] = {"invoice", "recovery", "swap"}
BY DEF InNeeds, SecretLater, InTasks

\* The address is never shown bare, and nothing is sent before it is shown
ShownInv ==
  /\ shown \in {"no", "secret"}
  /\ SecretBeforeDeposit

\* The only steps that show something are those that end a task
LEMMA CompleteShows ==
  ASSUME ShownInv, NEW t, Complete(t) PROVE shown' \in {shown, "secret"}
BY WaitNeeds DEF Complete, InReady

LEMMA ShownStart == ASSUME NEW b, SwapInStart(b) PROVE ShownInv
BY DEF SwapInStart, ShownInv, SecretBeforeDeposit

LEMMA ShownStep ==
  ASSUME ShownInv, [SwapInNext]_swapIn PROVE ShownInv'
<1> USE DEF ShownInv, SecretBeforeDeposit
<1>1. CASE SwapInTask
  <2>1. UNCHANGED depositedAt
    BY <1>1 DEF SwapInTask, PayForService, Compute, SwapInvoice, ProbeInvoice, WaitForProbe,
                FindInMempool, FindDeposit, Refund, BroadcastRefund, WaitForPayment, inChain
  <2>2. UNCHANGED shown \/ \E t \in InTasks : Complete(t)
    BY <1>1 DEF SwapInTask, PayForService, Compute, SwapInvoice, ProbeInvoice, WaitForProbe,
                FindInMempool, FindDeposit, Refund, BroadcastRefund, WaitForPayment,
                Fault, Break, InTasks
  <2>3. shown' \in {shown, "secret"}
    BY <2>2, CompleteShows
  <2> QED BY <2>1, <2>3
<1>2. CASE Stop \/ GiveUp \/ Recover \/ ProbeArrives \/ ServicePays \/ InBlock \/ RefundConfirms
  <2>1. UNCHANGED <<shown, depositedAt>>
    BY <1>2 DEF Stop, GiveUp, Halt, Recover, ProbeArrives, ServicePays, InBlock, RefundConfirms,
                inSwap, inChain
  <2> QED BY <2>1
<1>3. CASE Deposit
  BY <1>3 DEF Deposit, inSwap
<1>4. CASE UNCHANGED swapIn
  BY <1>4 DEF swapIn
<1> QED BY <1>1, <1>2, <1>3, <1>4 DEF SwapInNext

-----------------------------------------------------------------------------
(* The files of the saved nodes                                            *)

\* What the checks and the listing of the nodes found
NodeFound ==
  fileJob.node # Unnamed /\ fileJob.first # "remove" => Readable(fileJob.node)
AfterRemoval == fileJob.first = "remove" => files[fileJob.node] = "none"

\* While macaroons that were encrypted are written without an error, the nodes that are
\* chosen and not written any more have the keys that were asked for
LockWritten ==
  /\ fileJob.then = "lock" /\ form = fileJob.to
  /\ AllReadable /\ NodeFound /\ AfterRemoval
  /\ writing \subseteq Chosen /\ \A n \in writing : Readable(n)
  /\ \A n \in Chosen \ writing : files[n] = fileJob.to

\* Between its checks and its success a command knows what it relies on
FilesInv ==
  /\ fileAt # "off" => fileJob \in FileJobs
  /\ files \in [Saved -> {"none", "empty", "torn", "plain"} \cup GpgKeys]
  /\ fileTold = "success" => fileAt = "ended" /\ SavedAsAsked
  /\ fileAt \in {"remove", "directory"} => fileJob.first = "remove" /\ fileJob.node # Unnamed
  /\ fileAt = "check" /\ fileJob.first = "remove" => fileJob.node # Unnamed
  /\ fileAt \in {"list", "encrypt"} => NodeFound /\ AfterRemoval
  /\ fileAt = "encrypt" =>
       fileJob.then = "lock" /\ AllReadable /\ (\A n \in Chosen : Readable(n)) /\ Wrong = {}
  /\ fileAt = "write" /\ form # "plain" /\ ~failed => LockWritten
  /\ fileAt = "save" => form = "plain" /\ fileJob.first = "register"
  /\ writing \subseteq Saved /\ form \in {"plain"} \cup GpgKeys

LEMMA FilesInit == ASSUME SavedNodesInit \/ NoFiles PROVE FilesInv
BY DEF SavedNodesInit, NoFiles, NothingWritten, FilesInv

\* One step per action: most lead to a state that nothing is claimed of
LEMMA FilesStep ==
  ASSUME FilesInv, [SavedNodesNext]_fileVars
  PROVE  FilesInv'
<1> USE FileJobsAssumption DEF FileJobsAssumption, FilesInv, Proceeds, Tells, WritesNothing, Writes, NodeFound, AfterRemoval, Readable,
            AllReadable, Directories, Chosen
<1>1. CASE StartJob
  BY <1>1 DEF StartJob, LockWritten, SavedAsAsked, Wrong, Encrypted
<1>2. CASE RegisterNode
  BY <1>2 DEF RegisterNode
<1>3. CASE CheckNode
  BY <1>3 DEF CheckNode, LockWritten, SavedAsAsked, Wrong, Encrypted
<1>4. CASE RemoveCredentials
  BY <1>4 DEF RemoveCredentials
<1>5. CASE RemoveDirectory
  BY <1>5 DEF RemoveDirectory
<1>6. CASE GetSavedNodes
  <2>1. UNCHANGED <<fileJob, files, writing, form, failed>> /\ fileAt = "list"
    BY <1>6 DEF GetSavedNodes, Unread
  <2>2. CASE fileAt' = "ended" /\ fileTold' = "error"
    BY <2>1, <2>2
  <2>3. CASE fileAt' = "ended" /\ fileTold' = "success"
    <3>1. AllReadable /\ fileJob.then # "lock"
      BY <1>6, <2>3 DEF GetSavedNodes, Unread
    <3>2. SavedAsAsked'
      BY <2>1, <3>1 DEF SavedAsAsked
    <3> QED BY <2>1, <2>3, <3>2
  <2>4. CASE fileAt' = "decrypt" /\ UNCHANGED fileTold
    BY <2>1, <2>4
  <2>5. CASE fileAt' = "encrypt" /\ UNCHANGED fileTold
    <3>1. /\ fileJob.then = "lock" /\ AllReadable /\ Wrong = {}
          /\ \A n \in Chosen : Readable(n)
      BY <1>6, <2>5 DEF GetSavedNodes, Unread
    <3>2. Wrong' = Wrong
      BY <2>1 DEF Wrong, Encrypted
    <3> QED BY <2>1, <2>5, <3>1, <3>2
  <2> QED BY <1>6, <2>2, <2>3, <2>4, <2>5 DEF GetSavedNodes, Unread
<1>7. CASE Decrypt
  BY <1>7 DEF Decrypt, Wrong, Encrypted
<1>8. CASE Encrypt
  <2>1. UNCHANGED <<fileJob, files, failed>> /\ fileAt = "encrypt"
    BY <1>8 DEF Encrypt
  <2>2. CASE Tells("error") /\ UNCHANGED <<form, writing>>
    BY <2>1, <2>2
  <2>3. CASE Writes("write", ToEncrypt, fileJob.to)
    <3>1. fileJob.to \in GpgKeys /\ Chosen \subseteq Saved
      BY <2>1
    <3>2. ToEncrypt \subseteq Chosen
      BY DEF ToEncrypt
    <3>3. \A n \in Chosen \ ToEncrypt : files[n] = fileJob.to
      BY <2>1 DEF ToEncrypt, Wrong, Encrypted
    <3>4. LockWritten'
      BY <2>1, <2>3, <3>2, <3>3 DEF LockWritten
    <3> QED BY <2>1, <2>3, <3>1, <3>2, <3>4
  <2> QED BY <1>8, <2>2, <2>3 DEF Encrypt
<1>9. ASSUME NEW n \in Saved, WriteFile(n) PROVE FilesInv'
  <2>1. /\ UNCHANGED <<fileJob, fileAt, form, fileTold>>
        /\ n \in writing /\ writing' = writing \ {n}
        /\ fileAt \in {"save", "write", "written"}
    BY <1>9 DEF WriteFile
  <2>2. CASE files' = [files EXCEPT ![n] = form] /\ UNCHANGED failed
    <3>1. CASE fileAt = "write" /\ form # "plain" /\ ~failed
      <4>1. LockWritten /\ form \in GpgKeys
        BY <2>1, <3>1 DEF LockWritten
      <4>2. files[n] # "none" /\ files'[n] = form
        BY <2>1, <2>2, <4>1 DEF LockWritten
      <4>3. Chosen' = Chosen
        BY <2>1, <2>2, <4>1, <4>2
      <4>4. LockWritten'
        BY <2>1, <2>2, <4>1, <4>2, <4>3 DEF LockWritten
      <4> QED BY <2>1, <2>2, <3>1, <4>1, <4>4
    <3>2. CASE ~(fileAt = "write" /\ form # "plain" /\ ~failed)
      <4>1. form \in {"plain"} \cup GpgKeys
        OBVIOUS
      <4> QED BY <2>1, <2>2, <3>2, <4>1
    <3> QED BY <3>1, <3>2
  <2>3. CASE failed' = TRUE /\ (files' = [files EXCEPT ![n] = "torn"] \/ UNCHANGED files)
    BY <2>1, <2>3
  <2> QED BY <1>9, <2>2, <2>3 DEF WriteFile
<1>10. CASE TellFailed
  BY <1>10 DEF TellFailed
<1>11. CASE WritesDone
  <2>1. UNCHANGED <<fileJob, files, form, writing, failed>> /\ writing = {} /\ fileAt # "off"
    BY <1>11 DEF WritesDone
  <2>2. CASE fileAt = "write" /\ form # "plain" /\ ~failed /\ Tells("success")
    <3>1. LockWritten
      BY <2>2
    <3>2. SavedAsAsked'
      BY <2>1, <2>2, <3>1 DEF LockWritten, SavedAsAsked
    <3> QED BY <2>1, <2>2, <3>2
  <2>3. CASE fileAt = "save" /\ fileAt' \in {"check", "ended"} /\ fileTold' # "success"
    BY <2>1, <2>3
  <2>4. CASE fileAt' \in {"hung", "ended"} /\ fileTold' # "success"
    BY <2>1, <2>4
  <2>5. fileTold = "success" => fileAt = "ended"
    OBVIOUS
  <2>6. fileAt \in {"save", "write", "written"} => fileTold # "success"
    BY <2>5
  <2>7. \/ fileAt = "write" /\ form # "plain" /\ ~failed /\ Tells("success")
        \/ fileAt = "save" /\ fileAt' \in {"check", "ended"} /\ fileTold' # "success"
        \/ fileAt' \in {"hung", "ended"} /\ fileTold' # "success"
    BY <1>11, <2>6 DEF WritesDone
  <2> QED BY <2>2, <2>3, <2>4, <2>7
<1>12. CASE StopFiles
  BY <1>12 DEF StopFiles
<1>13. CASE NextFileJob
  BY <1>13 DEF NextFileJob
<1>14. CASE UNCHANGED fileVars
  BY <1>14 DEF fileVars, LockWritten, SavedAsAsked, Wrong, Encrypted
<1> QED
  BY <1>1, <1>2, <1>3, <1>4, <1>5, <1>6, <1>7, <1>8, <1>9, <1>10, <1>11, <1>12, <1>13, <1>14
     DEF SavedNodesNext
-----------------------------------------------------------------------------
(* The types of the commands that do not send                              *)

PeeringTyped ==
  /\ PeeringTypes /\ job \in Jobs \cup {NoJob}
  /\ act \in {"try", "open"} => left \subseteq Peers \cup {Self}
  /\ act = "open" => trying \in Peers

LEMMA PeeringTypesStart == ASSUME PeeringInit \/ Unemployed PROVE PeeringTyped
BY DEF PeeringInit, Unemployed, Clear, PeeringTyped, PeeringTypes, States

LEMMA PeeringTypesStep ==
  ASSUME PeeringTyped, [PeeringNext]_peeringVars PROVE PeeringTyped'
<1> USE DEF PeeringTyped, PeeringTypes, Goes, Replies
<1>1. CASE ReadChannels
  BY <1>1 DEF ReadChannels
<1>2. CASE ChoosePeer
  <2>1. ASSUME NEW p \in Peers, NEW cs \in ToClose(p) PROVE cs \subseteq Channels
    BY <2>1 DEF ToClose, With
  <2> QED BY <1>2, <2>1 DEF ChoosePeer
<1>3. CASE CloseChannel \/ ReadClosed
  BY <1>3 DEF CloseChannel, ReadClosed, States
<1>4. CASE ReadPeers
  <2>1. act = "start" /\ job.name = "open"
    BY <1>4 DEF ReadPeers
  <2>2. left' # {} /\ left' = Candidates => left' \subseteq Peers \cup {Self}
    BY JobsAssumption DEF Candidates, NoJob
  <2> QED BY <1>4, <2>2 DEF ReadPeers
<1>5. CASE TryPeer
  BY <1>5 DEF TryPeer
<1>6. CASE OpenChannel
  BY <1>6 DEF OpenChannel, OnError
<1>7. CASE SetFeeRate
  BY <1>7 DEF SetFeeRate
<1>8. CASE Flap
  BY <1>8 DEF Flap, States
<1>9. CASE UNCHANGED peeringVars
  BY <1>9 DEF peeringVars
<1> QED
  BY <1>1, <1>2, <1>3, <1>4, <1>5, <1>6, <1>7, <1>8, <1>9 DEF PeeringNext

\* A channel that is still to be updated has tries left
FeesTyped ==
  /\ FeeTypes /\ feeJob \in FeeJobs \cup {NoFeeJob}
  /\ feeAt = "start" => \A c \in Channels : feeTried[c] = 0
  /\ \A c \in feeLeft : feeTried[c] < FeeTries

LEMMA FeeTypesStart == ASSUME FeesInit \/ NoFees PROVE FeesTyped
BY FeesAssumption DEF FeesInit, NoFees, FeesUnread, FeesTyped, FeeTypes, NoSetting, Settings

\* What is set is a policy
LEMMA TargetsTyped ==
  ASSUME FeesInv, FeesTyped, NEW c \in Channels, NEW p \in Targets(c)
  PROVE  p \in Settings
<1> DEFINE known == {policiesRead[d] : d \in Siblings(c)}
           rates == {q.rate : q \in known}
           cltvs == {q.cltv : q \in known}
           discounts == {q.discount : q \in known}
<1>1. known \subseteq Policies
  BY DEF FeesInv, Siblings, Had
<1>2. /\ rates \subseteq Values /\ cltvs \subseteq Values /\ discounts \subseteq Values
  BY <1>1 DEF Policies
<1>3. Siblings(c) # {} => rates # {} /\ cltvs # {} /\ discounts # {}
  OBVIOUS
<1>4. /\ Highest(c).rate = Max(rates) /\ Highest(c).cltv = Max(cltvs)
      /\ Highest(c).discount = Min(discounts)
  BY DEF Highest
<1> HIDE DEF known, rates, cltvs, discounts
<1>5. ASSUME NEW S \in SUBSET Values PROVE IsFiniteSet(S) /\ S \subseteq Int
  <2>1. IsFiniteSet(Values) /\ Values \subseteq Int
    BY FeesAssumption
  <2>2. IsFiniteSet(S)
    BY <2>1, FS_Subset
  <2> QED BY <2>1, <2>2
<1>6. Siblings(c) # {} => Max(rates) \in Values /\ Max(cltvs) \in Values /\ Min(discounts) \in Values
  BY <1>2, <1>3, <1>5, MaxIsHighest, MinIsLowest
<1>7. feeJob.set \in Settings
  BY FeesAssumption DEF FeesTyped, NoFeeJob, NoSetting, Settings
<1> QED BY <1>4, <1>6, <1>7 DEF Targets, Settings

LEMMA FeeTypesStep ==
  ASSUME FeesInv, FeesTyped, [FeesNext]_feeVars PROVE FeesTyped'
<1> USE FeesAssumption DEF FeesTyped, FeeTypes
<1>0. ASSUME NEW c \in Channels, Applied(c) PROVE policies' \in [Channels -> Settings]
  <2>1. PICK p \in Targets(c) : policies' = [policies EXCEPT ![c] = p]
    BY <1>0 DEF Applied
  <2> QED BY <2>1, TargetsTyped
<1>1. CASE ReadFees
  <2>1. \A c \in Channels : feeTried[c] < FeeTries
    BY <1>1 DEF ReadFees, FeesInv
  <2>2. policiesRead' \in [Channels -> Settings] /\ feeLeft' \subseteq Channels
    BY <1>1, PoliciesAreRead DEF ToAdjust, NoSetting, Settings
  <2> QED BY <1>1, <2>1, <2>2 DEF ReadFees
<1>2. ASSUME NEW c \in Channels, UpdateFee(c) PROVE FeesTyped'
  BY <1>0, <1>2 DEF UpdateFee
<1>3. ASSUME NEW c \in Channels, UpdateFails(c) PROVE FeesTyped'
  <2>1. policies' \in [Channels -> Settings]
    BY <1>0, <1>3 DEF UpdateFails
  <2>2. feeTried[c] \in Nat /\ feeTried[c] < FeeTries /\ feeTried'[c] = feeTried[c] + 1
    BY <1>3 DEF UpdateFails
  <2>3. feeTried' \in [Channels -> 0 .. FeeTries]
    BY <1>3, <2>2 DEF UpdateFails
  <2>4. \A d \in feeLeft' : feeTried'[d] < FeeTries
    BY <1>3, <2>2 DEF UpdateFails
  <2> QED BY <1>3, <2>1, <2>3, <2>4 DEF UpdateFails
<1>4. CASE UpdatesDone \/ ReadRates
  BY <1>4 DEF UpdatesDone, ReadRates
<1>5. CASE ChannelConfirms
  BY <1>5 DEF ChannelConfirms, Settings
<1>6. CASE UNCHANGED feeVars
  BY <1>6 DEF feeVars
<1> QED BY <1>1, <1>2, <1>3, <1>4, <1>5, <1>6 DEF FeesNext, FeesStep

LEMMA FileTypesStart == ASSUME SavedNodesInit \/ NoFiles PROVE FileTypes
<1> USE FileJobsAssumption DEF SavedNodesInit, NoFiles, NothingWritten
<1>1. failed \in BOOLEAN
  OBVIOUS
<1>2. /\ fileJob \in FileJobs \cup {NoFileJob}
      /\ files \in [Saved -> {"none", "empty", "torn", "plain"} \cup GpgKeys]
  OBVIOUS
<1> QED BY <1>1, <1>2 DEF FileTypes

LEMMA FileTypesStep ==
  ASSUME FilesInv, FilesInv', FileTypes, [SavedNodesNext]_fileVars PROVE FileTypes'
<1> USE FileJobsAssumption DEF FileTypes, FilesInv, Proceeds, Tells, WritesNothing, Writes
<1>1. CASE StartJob \/ RegisterNode \/ CheckNode \/ RemoveCredentials \/ RemoveDirectory
  BY <1>1 DEF StartJob, RegisterNode, CheckNode, RemoveCredentials, RemoveDirectory
<1>2. CASE GetSavedNodes \/ Decrypt \/ Encrypt
  BY <1>2 DEF GetSavedNodes, Decrypt, Encrypt
<1>3. CASE \/ \E n \in Saved : WriteFile(n)
           \/ TellFailed \/ WritesDone \/ StopFiles
  BY <1>3 DEF WriteFile, TellFailed, WritesDone, StopFiles
<1>4. CASE NextFileJob
  <2>1. fileRun' \in 0 .. FileRuns
    BY <1>4 DEF NextFileJob
  <2>2. failed' \in BOOLEAN
    BY <1>4 DEF NextFileJob
  <2> QED BY <1>4, <2>1, <2>2 DEF NextFileJob
<1>5. CASE UNCHANGED fileVars
  BY <1>5 DEF fileVars
<1> QED BY <1>1, <1>2, <1>3, <1>4, <1>5 DEF SavedNodesNext

SwapInFlags ==
  /\ recovering \in BOOLEAN /\ open \in BOOLEAN /\ broke \in BOOLEAN
  /\ readPaid \in BOOLEAN /\ paidSeen \in BOOLEAN /\ refundTx \in BOOLEAN
  /\ broadcast \in BOOLEAN /\ returned \in BOOLEAN
SwapInTasks == finished \subseteq back /\ back \subseteq InTasks
SwapInValues ==
  /\ faults \in 0 .. MaxFaults /\ spent \in Nat /\ shown \in {"no", "bare", "secret"}
  /\ invoice \in {"none", "open", "paid"}
  /\ probeInvoice \in {"none", "open", "held", "canceled"}
  /\ atHeight \in Nat /\ runHeight \in Nat /\ depositedAt \in 0 .. atHeight

SwapInTyped == SwapInFlags /\ SwapInTasks /\ SwapInValues

LEMMA SwapInTypesStart == ASSUME NEW b \in BOOLEAN, SwapInStart(b) PROVE SwapInTyped
<1> USE DEF SwapInStart
<1>1. SwapInFlags
  BY Zenon DEF SwapInFlags
<1>2. SwapInTasks
  BY DEF SwapInTasks
<1>3. SwapInValues
  BY HeightsAssumption DEF SwapInValues
<1> QED BY <1>1, <1>2, <1>3 DEF SwapInTyped

LEMMA SwapInFlagsStep ==
  ASSUME SwapInFlags, [SwapInNext]_swapIn PROVE SwapInFlags'
<1> USE DEF SwapInFlags, inGraph, inChain, inSwap, OtherTasks
<1>1. CASE PayForService \/ Compute \/ SwapInvoice \/ ProbeInvoice
  BY <1>1, Zenon DEF PayForService, Compute, SwapInvoice, ProbeInvoice, Complete, Break, Fault
<1>2. CASE WaitForProbe \/ FindInMempool \/ FindDeposit \/ WaitForPayment
  BY <1>2, Zenon DEF WaitForProbe, FindInMempool, FindDeposit, WaitForPayment, Complete, Break
<1>3. CASE Refund
  BY <1>3, Zenon DEF Refund, Complete
<1>4. CASE BroadcastRefund
  BY <1>4, Zenon DEF BroadcastRefund, Complete, Break
<1>5. CASE Stop \/ GiveUp \/ Recover
  BY <1>5, Zenon DEF Stop, GiveUp, Halt, Recover
<1>6. CASE Deposit \/ ProbeArrives \/ ServicePays \/ InBlock \/ RefundConfirms
  BY <1>6, Zenon DEF Deposit, ProbeArrives, ServicePays, InBlock, RefundConfirms
<1>7. CASE UNCHANGED swapIn
  BY <1>7, Zenon DEF swapIn
<1> QED BY <1>1, <1>2, <1>3, <1>4, <1>5, <1>6, <1>7 DEF SwapInNext, SwapInTask

LEMMA SwapInTasksStep ==
  ASSUME SwapInTasks, [SwapInNext]_swapIn PROVE SwapInTasks'
<1> USE DEF SwapInTasks
<1>1. ASSUME NEW t \in InTasks, Complete(t) \/ Break(t) \/ Fault(t) PROVE SwapInTasks'
  BY <1>1 DEF Complete, Break, Fault
<1>2. CASE SwapInTask
  <2>1. \E t \in InTasks : Complete(t) \/ Break(t) \/ Fault(t)
    BY <1>2 DEF SwapInTask, PayForService, Compute, SwapInvoice, ProbeInvoice, WaitForProbe,
      FindInMempool, FindDeposit, Refund, BroadcastRefund, WaitForPayment, InTasks
  <2> QED BY <1>1, <2>1
<1>3. CASE Recover
  BY <1>3 DEF Recover, Skipped, InTasks
<1>4. CASE UNCHANGED <<finished, back>>
  BY <1>4
<1> QED
  BY <1>2, <1>3, <1>4 DEF SwapInNext, Stop, GiveUp, Halt, Deposit, ProbeArrives, ServicePays,
    InBlock, RefundConfirms, swapIn

LEMMA SwapInValuesStep ==
  ASSUME SwapInValues, [SwapInNext]_swapIn PROVE SwapInValues'
<1> USE HeightsAssumption DEF SwapInValues, inGraph, inChain, inSwap, OtherTasks
<1>1. ASSUME NEW t, Complete(t) \/ Break(t) \/ Fault(t)
      PROVE  /\ faults' \in 0 .. MaxFaults /\ shown' \in {"no", "bare", "secret"}
             /\ runHeight' = runHeight
  <2>1. CASE Complete(t)
    BY <2>1 DEF Complete
  <2>2. CASE Break(t) \/ Fault(t)
    BY <2>2 DEF Break, Fault
  <2> QED BY <1>1, <2>1, <2>2
<1>2. CASE PayForService
  <2>1. spent' \in Nat
    BY <1>2 DEF PayForService
  <2> QED BY <1>1, <1>2, <2>1 DEF PayForService
<1>3. CASE Compute \/ SwapInvoice
  BY <1>1, <1>3 DEF Compute, SwapInvoice
<1>4. CASE ProbeInvoice \/ WaitForProbe
  BY <1>1, <1>4 DEF ProbeInvoice, WaitForProbe
<1>5. CASE FindInMempool \/ FindDeposit \/ Refund
  BY <1>1, <1>5 DEF FindInMempool, FindDeposit, Refund
<1>6. CASE BroadcastRefund \/ WaitForPayment
  BY <1>1, <1>6 DEF BroadcastRefund, WaitForPayment
<1>7. CASE Stop \/ GiveUp \/ Recover
  BY <1>7 DEF Stop, GiveUp, Halt, Recover
<1>8. CASE Deposit \/ InBlock
  BY <1>8 DEF Deposit, InBlock
<1>9. CASE ProbeArrives \/ ServicePays \/ RefundConfirms
  BY <1>9 DEF ProbeArrives, ServicePays, RefundConfirms
<1>10. CASE UNCHANGED swapIn
  BY <1>10 DEF swapIn
<1> QED
  BY <1>2, <1>3, <1>4, <1>5, <1>6, <1>7, <1>8, <1>9, <1>10 DEF SwapInNext, SwapInTask

\* The amount that is funded is checked before
FundsTyped ==
  /\ FundsTypes /\ wish \in Wishes \cup {NoWish}
  /\ phase = "fund" => Pays \in Nat

LEMMA FundsTypesStart == ASSUME FundsInit \/ Unwished PROVE FundsTyped
<1> USE DEF FundsInit, Unwished, Emptied, NoFunding
<1>1. published \in BOOLEAN
  OBVIOUS
<1>2. coin \in [Coins -> {"absent", "free", "locked", "spent"}]
  OBVIOUS
<1>3. wish \in Wishes \cup {NoWish} /\ phase \in {"off", "start"}
  OBVIOUS
<1>4. funding.inputs = {} /\ funding.pays = 0
  OBVIOUS
<1> QED BY <1>1, <1>2, <1>3, <1>4 DEF FundsTyped, FundsTypes

LEMMA CoinSums == ASSUME NEW cs \in SUBSET Coins PROVE IsFiniteSet(cs) /\ SumOf(cs) \in Nat
<1>1. IsFiniteSet(cs)
  BY WishesAssumption, FS_Subset
<1>2. \A c \in cs : Value[c] \in Nat
  BY WishesAssumption
<1> QED BY <1>1, <1>2, SumIsNat DEF SumOf, SumOver

LEMMA FundsTypesStep ==
  ASSUME FundsInv, FundsTyped, [FundsNext]_fundsVars PROVE FundsTyped'
<1>0. /\ wish.amount \in Nat /\ wish.count \in Nat /\ wish.size \in Nat
      /\ wish.given \subseteq Coins
  BY WishesAssumption DEF FundsTyped, NoWish
<1> USE <1>0 DEF FundsTyped, FundsTypes, To, Done, SameCoins, Free
<1>1. CASE ReadCoins
  BY <1>1 DEF ReadCoins
<1>2. CASE PickCoins
  BY <1>2 DEF PickCoins, Selections
<1>3. CASE SetAmounts
  <2>1. SumOf(picked) \in Nat /\ ChainFee \in Nat /\ Dust \in Nat
    BY CoinSums, WishesAssumption
  <2>2. Pays \in Int
    BY <2>1 DEF Pays
  <2>3. Pays' = Pays
    BY <1>3 DEF SetAmounts, Pays
  <2>4. phase' = "fund" => Pays >= Dust
    BY <1>3, <2>1, <2>2 DEF SetAmounts
  <2>5. phase' = "fund" => Pays' \in Nat
    BY <2>1, <2>2, <2>3, <2>4
  <2> QED BY <1>3, <2>5 DEF SetAmounts
<1>4. CASE Fund
  BY <1>4 DEF Fund
<1>5. CASE Sign \/ Unlock
  BY <1>5 DEF Sign, Unlock, Unlocked
<1>6. CASE Publish
  BY <1>6 DEF Publish
<1>7. CASE Split
  <2>1. Outputs \in Int
    <3>1. Large \subseteq Coins
      BY DEF Large
    <3>2. Cardinality(Large) \in Nat
      BY <3>1, CoinSums, FS_CardinalityType
    <3> QED BY <3>2 DEF Outputs
  <2>2. Outputs > 0 => Outputs * wish.size \in Nat
    BY <2>1
  <2>3. UNCHANGED <<wish, read, picked>> /\ phase' = "ended" /\ result' \in {"success", "error", "crash"}
    BY <1>7 DEF Split
  <2>4. CASE UNCHANGED <<coin, published, funding>>
    BY <2>3, <2>4
  <2>5. CASE ~UNCHANGED <<coin, published, funding>>
    <3>1. Outputs > 0
      BY <1>7, <2>1, <2>5 DEF Split
    <3>2. PICK cs \in SUBSET (Free \ Pending) :
            /\ funding' = [inputs |-> cs, pays |-> Outputs * wish.size]
            /\ coin' = [c \in Coins |-> IF c \in cs THEN "spent" ELSE coin[c]]
            /\ published' = TRUE
      BY <1>7, <2>5 DEF Split
    <3>3. funding'.inputs \subseteq Coins /\ funding'.pays \in Nat
      BY <2>2, <3>1, <3>2
    <3> QED BY <2>3, <3>2, <3>3
  <2> QED BY <2>4, <2>5
<1>8. CASE FindKey
  BY <1>8 DEF FindKey
<1>9. CASE RefundTransit
  <2>1. wish.amount >= ChainFee => wish.amount - ChainFee \in Nat
    BY WishesAssumption
  <2> QED BY <1>9, <2>1 DEF RefundTransit, NoFunding
<1>10. CASE CoinMoves \/ CoinSpent
  <2>1. Pays' = Pays
    BY <1>10 DEF CoinMoves, CoinSpent, Pays
  <2> QED BY <1>10, <2>1 DEF CoinMoves, CoinSpent
<1>11. CASE UNCHANGED fundsVars
  <2>1. Pays' = Pays
    BY <1>11 DEF fundsVars, Pays
  <2> QED BY <1>11, <2>1 DEF fundsVars
<1> QED
  BY <1>1, <1>2, <1>3, <1>4, <1>5, <1>6, <1>7, <1>8, <1>9, <1>10, <1>11 DEF FundsNext
-----------------------------------------------------------------------------
(* All the commands                                                        *)

\* At most one of the two commands that send runs, and it keeps its invariant; the others
\* keep theirs when they do nothing, too
SendingInv ==
  /\ stage = "off" \/ step = "off"
  /\ stage # "off" => PayInv
  /\ step # "off" => RebalanceInv
SpendingInv == ShownInv /\ FundsInv
ManagingInv == PeeringInv /\ FilesInv /\ FeesInv
CommandsInv == SendingInv /\ SpendingInv /\ ManagingInv

LEMMA CommandsStart == ASSUME Init PROVE CommandsInv
<1>1. SendingInv
  <2>1. CASE PaymentsInit /\ Unplanned
    BY <2>1, PayInit DEF SendingInv, Unplanned
  <2>2. CASE Idle /\ RebalanceInit
    BY <2>2, RebalanceStarts DEF SendingInv, Idle
  <2>3. CASE NotSending
    BY <2>3 DEF SendingInv, NotSending, Idle, Unplanned
  <2> QED BY <2>1, <2>2, <2>3 DEF Init
<1>2. SpendingInv
  <2>1. SwapInStart(TRUE) \/ SwapInStart(FALSE)
    BY DEF Init, NotSpending, SwapInInit
  <2>2. FundsInit \/ Unwished
    BY DEF Init, NotSpending
  <2> QED BY <2>1, <2>2, ShownStart, FundsStart DEF SpendingInv
<1>3. ManagingInv
  <2>1. /\ PeeringInit \/ Unemployed
        /\ SavedNodesInit \/ NoFiles
        /\ FeesInit \/ NoFees
    BY DEF Init, NotManaging
  <2> QED BY <2>1, PeeringStarts, FilesInit, FeesStart DEF ManagingInv
<1> QED BY <1>1, <1>2, <1>3 DEF CommandsInv

\* A step of one command is a stutter of the others
LEMMA SendingStep ==
  ASSUME SendingInv, [Next]_vars PROVE SendingInv'
<1>1. CASE NextPayment
  <2>1. stage # "off" /\ PaymentsNext /\ UNCHANGED step
    BY <1>1 DEF NextPayment, rebalancing
  <2> QED BY <2>1, PayInvStep DEF SendingInv
<1>2. CASE NextRebalance
  <2>1. step # "off" /\ RebalanceNext /\ UNCHANGED stage
    BY <1>2 DEF NextRebalance, paying
  <2> QED BY <2>1, RebalanceInvStep DEF SendingInv
<1>3. CASE NotSent
  <2>1. UNCHANGED payVars /\ UNCHANGED rebalanceVars
    BY <1>3 DEF NotSent, probing, paying, rebalancing, payVars, rebalanceVars
  <2>2. UNCHANGED <<stage, step>>
    BY <1>3 DEF NotSent, paying, rebalancing
  <2> QED BY <2>1, <2>2, PayInvStep, RebalanceInvStep DEF SendingInv
<1>4. UNCHANGED vars => NotSent
  BY DEF vars, NotSent
<1> QED
  BY <1>1, <1>2, <1>3, <1>4 DEF Next, NextSwapIn, NextFunds, NextPeering, NextFile, NextFee

LEMMA SpendingStep ==
  ASSUME SpendingInv, [Next]_vars PROVE SpendingInv'
<1>1. [SwapInNext]_swapIn
  BY DEF Next, vars, others, NextPayment, NextRebalance, NextSwapIn, NextFunds, NextPeering,
         NextFile, NextFee
<1>2. [FundsNext]_fundsVars
  BY DEF Next, vars, others, NextPayment, NextRebalance, NextSwapIn, NextFunds, NextPeering,
         NextFile, NextFee
<1> QED BY <1>1, <1>2, ShownStep, FundsStep DEF SpendingInv

LEMMA ManagingStep ==
  ASSUME ManagingInv, [Next]_vars PROVE ManagingInv'
<1>1. [PeeringNext]_peeringVars
  BY DEF Next, vars, others, NextPayment, NextRebalance, NextSwapIn, NextFunds, NextPeering,
         NextFile, NextFee
<1>2. [SavedNodesNext]_fileVars
  BY DEF Next, vars, others, NextPayment, NextRebalance, NextSwapIn, NextFunds, NextPeering,
         NextFile, NextFee
<1>3. [FeesNext]_feeVars
  BY DEF Next, vars, others, NextPayment, NextRebalance, NextSwapIn, NextFunds, NextPeering,
         NextFile, NextFee
<1> QED BY <1>1, <1>2, <1>3, PeeringStep, FilesStep, FeesStepSafe DEF ManagingInv

THEOREM CommandsSafe == Spec => []CommandsInv
<1>1. Init => CommandsInv
  BY CommandsStart
<1>2. CommandsInv /\ [Next]_vars => CommandsInv'
  BY SendingStep, SpendingStep, ManagingStep DEF CommandsInv
<1> QED BY <1>1, <1>2, PTL DEF Spec

\* A payment of any command is the one ordered: at most one, of the amount asked for, with
\* no more fees than every limit allows, by no peer to avoid; and the user is told of a
\* success, or of no path, only when that is what happened to it
\* (probe_destination.js:473, push_payment.js)
THEOREM PaymentsAsOrdered == Spec => []PaidAsOrdered
<1>1. CommandsInv => PaidAsOrdered
  BY PayInvMeans DEF CommandsInv, SendingInv, PaidAsOrdered
<1> QED BY <1>1, CommandsSafe, PTL

\* Every payment of every try of a rebalance keeps the fee limits for what it moves, and
\* goes out by and comes in from the peers that the user allows (rebalance.js:744)
THEOREM RebalancesAsPlanned == Spec => []RebalancedAsPlanned
<1>1. CommandsInv => RebalancedAsPlanned
  BY RebalanceInvMeans DEF CommandsInv, SendingInv, RebalancedAsPlanned
<1> QED BY <1>1, CommandsSafe, PTL

\* Whoever has sent the deposit has the secret that recovers it, in whatever order the
\* tasks end and through every stop and recovery (swap_in.js:540)
THEOREM SecretShownFirst == Spec => []SecretBeforeDeposit
<1>1. CommandsInv => SecretBeforeDeposit
  BY DEF CommandsInv, SpendingInv, ShownInv
<1> QED BY <1>1, CommandsSafe, PTL

\* A fund that is published pays what was asked for with the coins that were named or read,
\* though the wallet changes after it was read (fund_transaction.js:261); a split makes one
\* output less than are missing, of confirmed coins (split_utxos.js:66); a recovery refunds
\* all but the fee.  A dry run publishes nothing and one that succeeds leaves no coin locked
\* (fund_transaction.js:305); an error may, and nothing is said of it
THEOREM FundsAsAsked == Spec => []FundedAsAsked
<1>1. CommandsInv => FundedAsAsked
  BY DEF CommandsInv, SpendingInv, FundsInv, FundedAsAsked
<1> QED BY <1>1, CommandsSafe, PTL

\* The peers that are removed, the channels that are opened and the fees that are set are
\* those asked for, though peers come and go, channels confirm at any time and updates
\* fail in between; what is not asked for does not get cheaper on the channels whose policy
\* was read (remove_peer.js, open_channel.js, adjust_fees.js:318)
THEOREM PeersDoneAsAsked == Spec => []PeersAsAsked
<1>1. CommandsInv => PeersAsAsked
  BY FeesInvMeans DEF CommandsInv, ManagingInv, PeeringInv, PeersAsAsked
<1> QED BY <1>1, CommandsSafe, PTL

\* Success of a command is true of the files, whatever commands before it left behind
\* when they failed, hung or were stopped (encrypt_saved_macaroons.js:70)
THEOREM SuccessIsTrue == Spec => []SavedAsAsked
<1>1. CommandsInv => SavedAsAsked
  BY DEF CommandsInv, ManagingInv, FilesInv, SavedAsAsked
<1> QED BY <1>1, CommandsSafe, PTL

-----------------------------------------------------------------------------
(* The types of all the commands                                           *)

\* Payments are of their types by their invariant, and idle otherwise
TypesInv ==
  /\ ProbingTyped /\ PaymentTypes /\ RebalanceTyped
  /\ SwapInTyped /\ FundsTyped
  /\ PeeringTyped /\ FileTypes /\ FeesTyped

LEMMA TypesStart == ASSUME Init PROVE TypesInv
<1>1. /\ ProbingInit
      /\ PaymentsInit \/ Idle
      /\ RebalanceInit \/ Unplanned
  BY DEF Init, NotSending, PaymentsInit, RebalanceInit
<1>2. ProbingTyped /\ RebalanceTyped
  BY <1>1, ProbingTypesStart, RebalanceTypesStart
<1>3. PaymentTypes
  <2>1. CASE PaymentsInit
    BY <2>1, PayInit DEF PayInv, SendInv
  <2>2. CASE Idle
    BY <2>2 DEF Idle, PaymentTypes, Unsent, Stages, Outcomes, NoPaths
  <2> QED BY <1>1, <2>1, <2>2
<1>4. SwapInTyped
  <2>1. SwapInStart(TRUE) \/ SwapInStart(FALSE)
    BY DEF Init, NotSpending, SwapInInit
  <2> QED BY <2>1, SwapInTypesStart
<1>5. FundsTyped
  <2>1. FundsInit \/ Unwished
    BY DEF Init, NotSpending
  <2> QED BY <2>1, FundsTypesStart
<1>6. PeeringTyped /\ FileTypes /\ FeesTyped
  <2>1. /\ PeeringInit \/ Unemployed
        /\ SavedNodesInit \/ NoFiles
        /\ FeesInit \/ NoFees
    BY DEF Init, NotManaging
  <2> QED BY <2>1, PeeringTypesStart, FileTypesStart, FeeTypesStart
<1> QED BY <1>2, <1>3, <1>4, <1>5, <1>6 DEF TypesInv

\* What is sent
LEMMA SentTypesStep ==
  ASSUME CommandsInv, CommandsInv', TypesInv, [Next]_vars
  PROVE  ProbingTyped' /\ PaymentTypes' /\ RebalanceTyped'
<1> USE DEF TypesInv
<1>1. CASE NextPayment
  <2>1. PaymentsNext /\ UNCHANGED rebalancing /\ stage # "off"
    BY <1>1 DEF NextPayment
  <2>2. ProbingTyped'
    BY <2>1, PaymentTypesStep
  <2>3. PaymentTypes'
    BY <2>1, PayInvStep DEF CommandsInv, SendingInv, PayInv, SendInv
  <2>4. RebalanceTyped'
    BY <2>1 DEF rebalancing, RebalanceTyped, RebalanceTypes
  <2> QED BY <2>2, <2>3, <2>4
<1>2. CASE NextRebalance
  <2>1. RebalanceNext /\ UNCHANGED paying
    BY <1>2 DEF NextRebalance
  <2>2. PaymentTypes'
    BY <2>1 DEF paying, PaymentTypes
  <2> QED BY <2>1, <2>2, RebalanceTypesStep
<1>3. CASE NotSent
  <2>1. UNCHANGED probing /\ UNCHANGED paying /\ UNCHANGED rebalancing
    BY <1>3 DEF NotSent
  <2>2. PaymentTypes' /\ RebalanceTyped'
    BY <2>1 DEF paying, PaymentTypes, rebalancing, RebalanceTyped, RebalanceTypes
  <2> QED BY <2>1, <2>2, SameSent
<1>4. UNCHANGED vars => NotSent
  BY DEF vars, NotSent
<1> QED
  BY <1>1, <1>2, <1>3, <1>4 DEF Next, NextSwapIn, NextFunds, NextPeering, NextFile, NextFee

LEMMA TypesStep ==
  ASSUME CommandsInv, CommandsInv', TypesInv, [Next]_vars PROVE TypesInv'
<1>1. [SwapInNext]_swapIn /\ [FundsNext]_fundsVars
  BY DEF Next, vars, others, NextPayment, NextRebalance, NextSwapIn, NextFunds, NextPeering,
         NextFile, NextFee
<1>2. [PeeringNext]_peeringVars /\ [SavedNodesNext]_fileVars /\ [FeesNext]_feeVars
  BY DEF Next, vars, others, NextPayment, NextRebalance, NextSwapIn, NextFunds, NextPeering,
         NextFile, NextFee
<1>3. FundsInv /\ FilesInv /\ FilesInv' /\ FeesInv
  BY DEF CommandsInv, SpendingInv, ManagingInv
<1>4. SwapInTyped'
  BY <1>1, SwapInFlagsStep, SwapInTasksStep, SwapInValuesStep DEF TypesInv, SwapInTyped
<1>5. FundsTyped'
  BY <1>1, <1>3, FundsTypesStep DEF TypesInv
<1>6. PeeringTyped' /\ FileTypes' /\ FeesTyped'
  BY <1>2, <1>3, PeeringTypesStep, FileTypesStep, FeeTypesStep DEF TypesInv
<1> QED BY <1>4, <1>5, <1>6, SentTypesStep DEF TypesInv

\* Every command keeps the state in its types, whichever runs: no channel has less than
\* nothing or more than its capacity though payments, refunds of payments and other traffic
\* meet in it (probe_destination.js:490), no tries go past their bound
\* (manage_rebalance.js:70), and every coin, file, policy and task is in one of its states
THEOREM CommandsTypeOK == Spec => []TypeOK
<1>1. Init => TypesInv
  BY TypesStart
<1>2. CommandsInv /\ CommandsInv' /\ TypesInv /\ [Next]_vars => TypesInv'
  BY TypesStep
<1>3. TypesInv => TypeOK
  BY ProbingTypesMean
  DEF TypesInv, TypeOK, RebalanceTyped, SwapInTyped, SwapInFlags, SwapInTasks, SwapInValues,
      SwapInTypes, FundsTyped, PeeringTyped, FeesTyped
<1> QED BY <1>1, <1>2, <1>3, CommandsSafe, PTL DEF Spec
=============================================================================
