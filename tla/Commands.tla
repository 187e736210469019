------------------------------ MODULE Commands ------------------------------
(***************************************************************************)
(* The commands that a user runs, one at a time, on one node: each is a    *)
(* module, and this one puts them together.  A behaviour is one run of one *)
(* command with the node's network around it; src/commands holds what they *)
(* are made of.                                                            *)
(***************************************************************************)
EXTENDS Payments, Rebalance, SwapIn, Funds, Peering, SavedNodes, RoutingFees

others == <<swapIn, fundsVars, peeringVars, fileVars, feeVars>>
vars == <<probing, paying, rebalancing, others>>

NotSending == ProbingInit /\ Idle /\ Unplanned
NotSpending == SwapInStart(FALSE) /\ Unwished
NotManaging == Unemployed /\ NoFiles /\ NoFees

\* One command runs; the others do nothing
Init ==
  \/ PaymentsInit /\ Unplanned /\ NotSpending /\ NotManaging
  \/ Idle /\ RebalanceInit /\ NotSpending /\ NotManaging
  \/ NotSending /\ SwapInInit /\ Unwished /\ NotManaging
  \/ NotSending /\ SwapInStart(FALSE) /\ FundsInit /\ NotManaging
  \/ NotSending /\ NotSpending /\ PeeringInit /\ NoFiles /\ NoFees
  \/ NotSending /\ NotSpending /\ Unemployed /\ SavedNodesInit /\ NoFees
  \/ NotSending /\ NotSpending /\ Unemployed /\ NoFiles /\ FeesInit

\* Payments and rebalances share what is sent through the node
NextPayment == stage # "off" /\ PaymentsNext /\ UNCHANGED <<rebalancing, others>>
NextRebalance == step # "off" /\ RebalanceNext /\ UNCHANGED <<paying, others>>
NotSent == UNCHANGED <<probing, paying, rebalancing>>
NextSwapIn ==
  SwapInNext /\ NotSent /\ UNCHANGED <<fundsVars, peeringVars, fileVars, feeVars>>
NextFunds ==
  FundsNext /\ NotSent /\ UNCHANGED <<swapIn, peeringVars, fileVars, feeVars>>
NextPeering ==
  PeeringNext /\ NotSent /\ UNCHANGED <<swapIn, fundsVars, fileVars, feeVars>>
NextFile ==
  SavedNodesNext /\ NotSent /\ UNCHANGED <<swapIn, fundsVars, peeringVars, feeVars>>
NextFee ==
  FeesNext /\ NotSent /\ UNCHANGED <<swapIn, fundsVars, peeringVars, fileVars>>

Next ==
  \/ NextPayment \/ NextRebalance
  \/ NextSwapIn \/ NextFunds \/ NextPeering \/ NextFile \/ NextFee

Spec ==
  /\ Init /\ [][Next]_vars
  /\ PaymentsFairness /\ RebalanceFairness /\ SwapInFairness /\ FeesFairness

TypeOK ==
  /\ ProbingTypes /\ PaymentTypes /\ RebalanceTypes
  /\ SwapInTypes /\ FundsTypes /\ PeeringTypes
  /\ FileTypes /\ FeeTypes

\* What is done to peers and channels is what was asked: the peers that are removed,
\* the channels that are opened, and the fees that are set, though peers come and go
\* and updates fail in between; that a policy does not get cheaper is said of the channels
\* whose policy was read (remove_peer.js, open_channel.js, adjust_fees.js)
PeersAsAsked == RemovedAsAsked /\ OpenedAsAsked /\ FeesAsAsked

\* A command that sends or sets fees ends, as far as the node answers its calls
CommandEnds == PaymentEnds /\ RebalanceEnds /\ FeesEnd
=============================================================================
