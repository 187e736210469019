---------------------------- MODULE RoutingFees ----------------------------
(***************************************************************************)
(* `bos fees` (src/routing/adjust_fees.js): sets the fee rate, the CLTV    *)
(* delta and the inbound discount of all channels with the peers named.    *)
(* All channels of a peer get the same policy.  A channel that is opening  *)
(* refuses the update until it is confirmed: each channel is tried again   *)
(* every two minutes, at the same time as the others.  The base fee, which *)
(* is set to the highest of the peer's channels, is left out.              *)
(***************************************************************************)
EXTENDS Integers, FiniteSetsExt, Node

CONSTANTS
  FeeJobs,       \* what users ask for
  FeeStarts,     \* the channels at first: open, and the policy of each that has one
  Values,        \* the values of a rate, a CLTV delta or a discount
  FeeTries       \* tries to update a channel (360)

\* A value of -1 stands for one that is not known or not to be set
Unset == -1
NoSetting == [rate |-> Unset, cltv |-> Unset, discount |-> Unset]
Policies == [rate : Values, cltv : Values, discount : Values]
Settings == [rate : Values \cup {Unset}, cltv : Values \cup {Unset},
             discount : Values \cup {Unset}]

\* A policy that is known has all three values; a channel that is opening has none
ASSUME FeesAssumption ==
  /\ Values \subseteq Nat /\ IsFiniteSet(Values) /\ FeeTries \in Nat \ {0}
  /\ \A j \in FeeJobs : j.set \in Settings
  /\ \A s \in FeeStarts :
       /\ s.open \subseteq Channels /\ s.policies \in [Channels -> Settings]
       /\ \A c \in Channels :
            s.policies[c] # NoSetting => c \in s.open /\ s.policies[c] \in Policies

VARIABLES
  feeJob,        \* the options: to, and the values to set
  feeAt,         \* how far the command is
  confirmedChannels,  \* the channels that are open
  policies,      \* [Channels -> the policy of the channel]
  policiesRead,  \* the policies that were read
  feeLeft,       \* the channels to update
  feeTried,      \* [Channels -> the updates that failed]
  feeTold        \* what the user was told

feeVars == <<feeJob, feeAt, confirmedChannels, policies, policiesRead, feeLeft, feeTried, feeTold>>

NoFeeJob == [to |-> {}, set |-> NoSetting]
FeeTypes ==
  /\ feeAt \in {"off", "start", "update", "table", "ended"}
  /\ confirmedChannels \subseteq Channels /\ feeLeft \subseteq Channels
  /\ policies \in [Channels -> Settings] /\ policiesRead \in [Channels -> Settings]
  /\ feeTried \in [Channels -> 0 .. FeeTries] /\ feeTold \in {"none", "success", "error"}

FeesUnread ==
  /\ policiesRead = [c \in Channels |-> NoSetting] /\ feeLeft = {}
  /\ feeTried = [c \in Channels |-> 0] /\ feeTold = "none"
NoFees ==
  /\ feeJob = NoFeeJob /\ feeAt = "off" /\ confirmedChannels = {}
  /\ policies = [c \in Channels |-> NoSetting] /\ FeesUnread
FeesInit ==
  /\ feeJob \in FeeJobs /\ feeAt = "start" /\ FeesUnread
  /\ \E s \in FeeStarts : confirmedChannels = s.open /\ policies = s.policies

-----------------------------------------------------------------------------

\* Mutant of ToAdjust: the channels that are opening are left out
OpenOnly == {c \in confirmedChannels : Partner[c] \in feeJob.to}
ToAdjust == {c \in Channels : Partner[c] \in feeJob.to}

Siblings(c) == {d \in Channels : Partner[d] = Partner[c] /\ policiesRead[d] # NoSetting}

\* Mutant of Highest: what the channel has
ItsOwn(c) == policiesRead[c]
\* The highest rate and delta and the lowest discount of the channels with the peer
Highest(c) ==
  LET known == {policiesRead[d] : d \in Siblings(c)} IN
    [rate |-> Max({p.rate : p \in known}), cltv |-> Max({p.cltv : p \in known}),
     discount |-> Min({p.discount : p \in known})]

\* What is asked for and else the highest; when no policy is known, what is not asked for
\* is whatever the node makes of it
Targets(c) ==
  LET keep(asked, had) == IF asked # Unset THEN {asked}
                          ELSE IF Siblings(c) = {} THEN Values ELSE {had} IN
    [rate : keep(feeJob.set.rate, Highest(c).rate),
     cltv : keep(feeJob.set.cltv, Highest(c).cltv),
     discount : keep(feeJob.set.discount, Highest(c).discount)]

\* To set a value for all the peers is refused; a peer may not be found, or a formula
\* not be understood.  A channel that the graph does not know, or only without the policy
\* of the peer, is left out of the policies
ReadFees ==
  /\ feeAt = "start"
  /\ \/ feeAt' = "ended" /\ feeTold' = "error" /\ UNCHANGED <<policiesRead, feeLeft>>
     \/ /\ feeJob.set # NoSetting => feeJob.to # {}
        /\ \E known \in SUBSET Channels :
             policiesRead' = [c \in Channels |-> IF c \in known THEN policies[c] ELSE NoSetting]
        /\ UNCHANGED feeTold
        /\ IF feeJob.set = NoSetting THEN feeAt' = "table" /\ UNCHANGED feeLeft
           ELSE feeAt' = "update" /\ feeLeft' = ToAdjust
  /\ UNCHANGED <<feeJob, confirmedChannels, policies, feeTried>>

\* The policy may be set though the answer is an error
Applied(c) ==
  c \in confirmedChannels
    /\ \E p \in Targets(c) : policies' = [policies EXCEPT ![c] = p]

UpdateFee(c) ==
  /\ feeAt = "update" /\ c \in feeLeft
  /\ Applied(c) /\ feeLeft' = feeLeft \ {c}
  /\ UNCHANGED <<feeJob, feeAt, confirmedChannels, policiesRead, feeTried, feeTold>>

\* After the last try the error is told, while other channels are still tried
UpdateFails(c) ==
  /\ feeAt = "update" /\ c \in feeLeft
  /\ Applied(c) \/ UNCHANGED policies
  /\ feeTried' = [feeTried EXCEPT ![c] = @ + 1]
  /\ IF feeTried'[c] = FeeTries THEN feeLeft' = feeLeft \ {c} /\ feeTold' = "error"
     ELSE UNCHANGED <<feeLeft, feeTold>>
  /\ UNCHANGED <<feeJob, feeAt, confirmedChannels, policiesRead>>

UpdatesDone ==
  /\ feeAt = "update" /\ feeLeft = {}
  /\ feeAt' = IF feeTold = "error" THEN "ended" ELSE "table"
  /\ UNCHANGED <<feeJob, confirmedChannels, policies, policiesRead, feeLeft, feeTried, feeTold>>

\* The rates are read again to tell them
ReadRates ==
  /\ feeAt = "table" /\ feeAt' = "ended" /\ feeTold' \in {"success", "error"}
  /\ UNCHANGED <<feeJob, confirmedChannels, policies, policiesRead, feeLeft, feeTried>>

ChannelConfirms ==
  /\ feeAt \notin {"off", "ended"}
  /\ \E c \in Channels \ confirmedChannels, v \in Values :
       /\ confirmedChannels' = confirmedChannels \cup {c}
       /\ policies' = [policies EXCEPT ![c] = [rate |-> v, cltv |-> v, discount |-> v]]
  /\ UNCHANGED <<feeJob, feeAt, policiesRead, feeLeft, feeTried, feeTold>>

FeesStep ==
  \/ ReadFees \/ UpdatesDone \/ ReadRates
  \/ \E c \in Channels : UpdateFee(c) \/ UpdateFails(c)
FeesNext == FeesStep \/ ChannelConfirms

-----------------------------------------------------------------------------
(* Properties                                                              *)

Asked(p) ==
  /\ feeJob.set.rate # Unset => p.rate = feeJob.set.rate
  /\ feeJob.set.cltv # Unset => p.cltv = feeJob.set.cltv
  /\ feeJob.set.discount # Unset => p.discount = feeJob.set.discount
Had(c) == policiesRead[c] # NoSetting

\* Success means that every channel with the peers has what was asked for, the ones that
\* were opening too ("if channels pending, will wait for confirm to set", bos:769), and
\* that the channels of a peer agree when the policy of one of them was read.  What was not
\* asked for never gets cheaper or quicker on a channel than the policy that was read of it,
\* however far the updates come, and such a channel with another peer keeps its policy
\* (adjust_fees.js:318).  Of a channel whose policy was not read only the first is said
FeesAsAsked ==
  /\ feeTold = "success" /\ feeJob.set # NoSetting =>
       /\ \A c \in Channels : Partner[c] \in feeJob.to => Asked(policies[c])
       /\ \A c, d \in Channels :
            Partner[c] = Partner[d] /\ Partner[c] \in feeJob.to /\ Had(c)
              => policies[c] = policies[d]
  /\ \A c \in Channels : Had(c) =>
       /\ feeJob.set.rate = Unset => policies[c].rate >= policiesRead[c].rate
       /\ feeJob.set.cltv = Unset => policies[c].cltv >= policiesRead[c].cltv
       /\ feeJob.set.discount = Unset => policies[c].discount <= policiesRead[c].discount
       /\ Partner[c] \notin feeJob.to => policies[c] = policiesRead[c]

\* The command ends, whether the channels confirm in time or never
FeesEnd == feeAt = "start" ~> feeAt \in {"off", "ended"}
FeesFairness == WF_feeVars(FeesStep)
=============================================================================
