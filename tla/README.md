# Formal models of Balance of Satoshis

`bos` is a command line program around LND nodes. Each command runs a graph of
asynchronous tasks (`asyncAuto`) that call the saved nodes, their peers over peer
messages and payments, the chain and a few services. Nothing coordinates the
commands with each other or with what happens at the nodes meanwhile; the only state
that a command keeps is in its graph, in a few files and, for some commands, in a
secret or a map that is lost or logged when it stops. What is hard in this code is
therefore not an algorithm. It is what happens to money and channels when one of
several calls fails, when a message or a payment is lost, late or repeated, when a
user stops the program between two steps, and when two tasks of one graph, or two
parties, act in an order nobody tried.

This directory holds TLA+ modules of the commands where that matters most, TLC
configurations that check them on small instances, and TLAPS proofs of the most
important properties for all values of the constants.

## 1. Inventory

`PROJECT.json` lists the same components with their sources and status.

| Component | State it keeps | Operations | Interacts with | What makes it correct |
|---|---|---|---|---|
| Multi-channel open (`peers/open_channels.js`) | the graph; pending channels at the nodes; locked inputs | check peers, propose batches, get funding, give it to the nodes, confirm, broadcast, cancel; detect an outside funding | several saved nodes, wallet, user, chain | all proposed or none funded; no broadcast without every commitment; failures undone |
| Balanced open (`services/*balanced*`) | two graphs; invoices; transit outputs; payments as memory of what was accepted | initiate, push, accept by message or payment, propose, broadcast transit, broadcast funding | key send, peer messages, hold invoice, both nodes, chain | commit before contributing; no crossed acceptance; each side ends |
| Transit recovery (`services/recover_transit_funds.js`) | none | build and publish a refund | chain | the refund spends the transit output only |
| LSPS1 (`lsp/*`) | the server's map of orders; hold invoices; listening subscriptions | info, create and get requests; wait for the held payment, open, settle or cancel | peer messages, hold invoice, node | status is true; payment taken only for a channel; orders end |
| Swap out (`swaps/swap_out.js`) | the graph; a logged recovery secret | quote, create, check, probe, pay twice, wait for the deposit, sweep on blocks, recover, dry run | swap service, payments, chain | nothing paid before it is checked and recoverable; secret kept until the deposit is confirmed |
| Swap in (`swaps/swap_in.js`) | the graph; a recovery blob | create, deposit, wait, refund after the timeout | swap service, chain | refund possible in every run that deposits |
| Rebalance (`swaps/rebalance.js`, `manage_rebalance.js`) | graph, retry deadline | find a route out and in, pay in a circle, retry | payments, fees, tags | no payment after the time is over; limits kept over retries |
| Peers (`network/remove_peer.js`, `open_channel.js`, `connect_to_peer.js`, `reconnect.js`) | retry memory of a run | select, close, connect, open, reconnect | channels | only selected channels closed, by force only if asked; one channel opened |
| Inbound rules (`peers/intercept_inbound_channels.js`, `detect_open_rule_violation.js`) | pool of close addresses | accept or reject an open request | requests in flight together | rules checked for each request; addresses used as configured |
| Forward limits (`peers/limit_forwarding.js`) | pending forwards | limit by rules | external enforcement | - |
| Payments and probes (`network/*`) | graph; ignore lists | probe, pay, multi-path, gift, transfer | payments | amounts and fees within the limits |
| Key send and paid services (`services/service_*`) | invoices as memory | receive, answer, refund | payments both ways | one answer for one request |
| Triggers (`triggers/*`) | triggers registered from invoices | create, cancel, list, subscribe | past and live invoices, graph | a created trigger fires unless canceled |
| Telegram (`telegram/*`) | bot, keys, subscriptions per node | start, restart on an error | external handlers | one bot at a time, restarted after failures |
| Saved nodes (`nodes/*`) | credential files | encrypt, decrypt, register, delete | gpg, files | no credential is lost by a partial failure; commands return |
| Tags (`nodes/adjust_tags.js`) | one file | add, remove, avoid, icon | other commands | no update is lost |
| Routing fees (`routing/adjust_fees.js`) | graph | compute and update, retry | channels | every channel updated or reported |
| Chain (`chain/*`) | locked inputs | fund, split, recover | wallet | locks released on an error |
| LNURL (`lnurl/*`) | none | auth, channel, pay, withdraw | HTTP | answers validated before payment |
| Wallet, balances, accounting, credentials, CLI, display | none | queries and reports, unlock | node | sums and ranges |

The behaviours that are hard, by line, are the `hazards` of `PROJECT.json`. Most are
partial failures, values that were read before something changed, and late or
repeated deliveries.

## 2. Plan

The order follows what can lose funds.

1. **Multi-channel open**: `AtomicFunding` (what it promises), `OpenChannels` (the
   program and its nodes), proofs. Done.
2. **Balanced open**: `JointFunding`, `BalancedOpen`, proofs. Done.
3. **LSPS1**: `EscrowedSale`, `Lsps1`, proofs. Done.
4. **Swap out**: `SwapOut`, with the graph of tasks as data, proofs. Done.
5. **Payments**: `Probing` (the call that finds a route and pays), `Payments`
   (`pay`, `send`, `lnurl pay`, `transfer`, `probe`), `Rebalance`. Done, with proofs.
6. **Coins and swaps in**: `SwapIn`, `Funds` (fund, split, transit recovery). Done,
   with proofs.
7. **Channels and files**: `Peering` (remove a peer, open to increase outbound),
   `RoutingFees` (`bos fees`), `SavedNodes`. Done, with proofs.
8. **Services that listen**: `InboundRules`, `Triggers`, `KeySend`, `TelegramBot`.
   Done, with proofs.
9. Open: the paid services and gifts, `multi_probe`, `reconnect`, connectivity
   triggers, two `tags` or `nodes` commands at once, LNURL withdrawals, the pure
   algorithms of the accounting reports; an abstract atomic swap that both swaps
   implement.

## 3. The modules

| Module | Role |
|---|---|
| `AtomicFunding` | promise of a funding of several channels with one transaction |
| `OpenChannels`, `MCOpenChannels`, `OpenChannelsProofs` | `bos open` |
| `JointFunding` | promise of a channel funded by several parties |
| `BalancedOpen`, `MCBalancedOpen`, `BalancedOpenProofs` | `bos open-balanced-channel` |
| `EscrowedSale` | promise of a sale through a held payment |
| `Lsps1`, `MCLsps1`, `Lsps1Proofs` | `bos offer-channel-open`, `bos get-inbound-channel` |
| `SwapOut`, `MCSwapOut`, `SwapOutProofs` | `bos increase-inbound-liquidity` |
| `Node` | the peers and channels that commands know of |
| `Probing` | the call that finds a route and pays it, shared by the next two |
| `Payments` | `bos pay`, `send`, `probe`, `transfer`, `lnurl pay` |
| `Rebalance` | `bos rebalance` |
| `SwapIn` | `bos swap-in` |
| `Funds` | `bos fund`, the split of coins, `bos recover-transit-funds` |
| `Peering` | `bos remove-peer`, `bos increase-outbound-liquidity` |
| `SavedNodes` | `bos nodes` |
| `RoutingFees` | `bos fees` |
| `Commands`, `MCCommands` | the modules from `Payments` on together, one command in each behaviour |
| `SendingProofs`, `CommandsProofs` | the invariants of what is sent; those of the others, and the theorems |
| `InboundRules` | `bos inbound-channel-rules` |
| `Triggers` | `bos triggers` |
| `KeySend` | the pings of `bos services` |
| `TelegramBot` | `bos telegram` |
| `Services`, `MCServices`, `ServicesProofs` | these four together, one service in each behaviour |
| `SetLemmas` | lemmas on the highest and lowest element of a set and on sums |

The three abstract modules are instantiated by the detailed ones (`Promise`,
`Joint(a)`, `Sale(o)`), and the detailed specifications are checked and proved to
implement them. The commands do not call each other: each module composes one
program with its node, peer, chain, service and user. `Payments` and `Rebalance`
extend `Probing`, the call that both make. `Commands` and `Services` extend all their
components, and so hold the variables of each; the initial state starts one of them,
and the others have nothing to do (`Idle`, `Unplanned`, `NoFiles`, and so on). A
step of `Next` is a step of one component that leaves the variables of the others.
This is how the program runs, each command a process of its own, and a component
that is started does all its steps, those of its environment included. `MCCommands`
and `MCServices` only give the constants values.

An operator that is commented as a *mutant* is not part of a model. It is a
plausible mistake in the code, kept next to the definition it would replace, and
shows for each property that the property depends on the code.

### OpenChannels

The main line of the `asyncAuto` graph is the variable `phase`; `detectFunding`, the
one task beside it, is `detect`. Calls that were started when another one failed
stay in flight (`funding[n] = "called"` after the phase moved to `"cancel"`), as
`asyncMap` does not stop them. `chan[c]` is the channel at its two ends, from the
proposal to the commitment.

`Connect`, `CheckAcceptance`, `ChooseSource`, `CheckBalance` are the checks;
`ProposeBatch` one `openChannels` call; `Proposed`, `CancelProposal`,
`ProposalsCanceled` the branch after it; `GetFunding`, `FundingPsbt`, `FundNode` the
funding; `PollFunding`, `DetectedFund` the parallel task; `GetChannelOutpoints`,
`ConfirmFails`, `Confirm`, `BroadcastChainTransaction` the retried confirmation and
broadcast; `CancelPending`, `CancelLocks` the handling of a funding error, as the
code really does it. `PeerSigns`, `SignatureArrives`, `ChannelLost`,
`PublishOutside` are the nodes and the outside signer.

Left out: amounts, addresses, PSBT contents, and the fee rates set after a
successful open.

### BalancedOpen

A request is one run of the initiator, an acceptance one run of the acceptor. Users
start and stop both programs at any step, so requests and acceptances of different
runs meet. `irun` and `arun` are the tasks the graphs are at. `pushes`/`received` is
the key send, `invoice`/`payment` the accept request and its payment, `asks`/`acks`
the peer message with its answer, each of which may be late or lost. `HearAccept` is
the message handler, which takes the acceptance, answers, and starts the cancelation
of the invoice beside it (`canceling`); `SeePaid` is the invoice subscription.
`GetBalancedOpens` decides what is `Offered` to the acceptor by the payments it
made. Keys, scripts and signatures are the pair of request and acceptance they
commit to.

### Lsps1

An order is the client's run that makes it, the `processOrder` call it starts and
the hold invoice between them. `srv[o]` is the step of `processOrder` and
`openSoldChannel`, `status[o]` the entry of the `orders` map, `cli[o]` the client.
Messages carry the id that `makeRequest` compares. `ServerStops` loses the map and
the answer of every call in flight, which may take effect at the node all the same
(`InvoiceAfter`); `StopListening` is a server whose message subscription ended.
A request that the node answers with an error after it took effect is part of
`OpenFails`. `SendInfo`, `SendOrder` and `ReceiveOrder` are the three handlers of a
request.

### SwapOut

The graph is data: `Needs[t]` names the tasks that task `t` of the source waits for,
`Complete` and `Fail` are a call back of a task, and `Launch` starts the tasks whose
needs are met. As in `asyncAuto` an error is returned at once and nothing starts
after it, while running tasks go on (`AttemptSweep` on every block, payments in
flight). `Stop` ends the program at any point, `Recover` starts it from the logged
secret, with the tasks that have nothing to do already over. Route finding, amounts
and fee limits are a call that completes or fails.

### Probing, Payments and Rebalance

A call is one `probeDestination`: `Prepare` reads the channels that may be used,
`RouteFound` and `FindMaximum` the route and the most that it carries, `PayRoute`
the payment. The traffic of the node changes the balances between any two of them
(`OtherTraffic`), a call may fail after its payment was sent (`PayFails`), and the
payment settles or fails whatever became of the call.

`Payments` is what the commands do around the call: the checks of the options, the
request that an LNURL service makes, tags and peers to avoid, the choice between one
path and several, and what the user is told. Where the code has different limits at
different places (by amount and by rate, in the probe and in the payment), so has
the module. How a payment over several paths is split is external: the probe finds
any parts and `PayParts` sends them.

`Rebalance` makes its own choice of two peers out of the balances read at the start
of a try, one call of `Probing` without a payment, and one payment by a route of its
own, for another amount and over balances that moved. `step` is the task the graph
is at, `try` the count of `manage_rebalance`; payments of earlier tries stay in
flight.

### SwapIn

The tasks of the graph are data as in `SwapOut`. The address and the secret are
shown by two tasks (`shown`), the height is read once in a run (`runHeight`), the
user deposits once an address is shown, and the service pays or does not. A run that
fails or is stopped may be recovered. The refund is broadcast by a run that starts
at the refund height or later.

### Funds

`coin` is the wallet with its locks, `read` and `picked` what the command took from
it. `bos fund` locks by the funding call, signs, and unlocks one by one in a dry
run; coins arrive and are spent by others meanwhile. The loop of
`split_utxos` makes one output less than are missing, and so does the model. An
error of the signature, of an unlocking or of the publication leaves coins locked, as
in the code, which unlocks in a dry run only.

### Peering, SavedNodes and RoutingFees

`Peering` reads the state of the channels and closes by what it read while peers go
offline (`Flap`). To open, it tries one peer after another; when
a connection has to be made first, nothing calls back and the command stays there
(`hung`).

`SavedNodes` runs commands one after another. Files are written side by side, each
write may fail or be torn, and the command may stop at any step. The run that
decrypts never calls back (`decrypt_saved_macaroons.js:98`), and only a stop ends
it.

`RoutingFees` reads the policies, gives the channels of a peer one policy, and
retries each channel for itself while channels confirm. Any policy may be missing from
what is read (`adjust_fees.js:223`, `:232`): the rates that are kept are those of the
policies that were read. The base fee is left out.

### InboundRules, Triggers, KeySend and TelegramBot

`InboundRules` answers requests side by side, with two reads for each, and takes the
next address out of the shared `pool` when a request is accepted. `Triggers` reads
past triggers page by page while new ones are announced and others are canceled;
every registration adds a watcher.

`KeySend` follows each invoice: it is open, then paid or canceled, and the service may
process it as a past one, as it is made and as it is settled, and again after a
restart (`Tasks`). `Taken` is what `key_send_request_arguments.js` lets through: a
ping only when it was paid less than an hour ago, but a simulated one, whose message
is the description of an invoice of the node, at any age and whether it was paid or
not. The lock of `respond_to_key_send_request.js` has an id that is never found, so
only the node's refusal to pay a request twice protects it.

`TelegramBot` has the run that ends on the first error, the polls and backups that
outlive their run, and the cursor of forwards that moves before they are told. A node
tells a run of a pending transaction as often as it likes and once of its confirmation:
a run passes over a pending one that it was told of (`NotSeen`), or that differs from
such a one in the locktime only (`NotAlike`), and never over a confirmed one. Then the
record is read (`RecordAnswers`), also after the run ended; without a record nothing
is told, and an error ends the run. Nodes tell every run of the trades that are open,
and a run passes over those made before it began (`Older`).

## 4. What the runs show

| Run | Instance | States | Shows |
|---|---|---|---|
| `open_channels` | two saved nodes, three channels to two outside peers | 165,283 | the safety of the open, `PromiseSpec`, `FundedCommandEnds` |
| `open_channels_linked` | the same, one saved node opens to the other | stops | finding 1 |
| `open_channels_cancel` | as the first | stops | finding 2 |
| `balanced_open` | two requests, two acceptances | 373,725 | the safety of both sides, `JointSpec`, both runs end |
| `balanced_open_offered` | the same | stops | finding 3 |
| `lsps1` | one order, five requests | 88,899 | the truth of the status, `SaleSpec`, `OrderEnds` |
| `lsps1_rejected` | one order, three requests | stops | finding 4 |
| `swap_out` | six heights, two confirmations | 741,788 | what is paid, published, canceled and recovered |
| `swap_out_late` | the same | stops | finding 5 |
| `commands` | one of seven commands, see the bounds | 188,185 | payments, rebalances, deposits, coins, closes, fees and files are as asked for; payments, rebalances and fee updates end |
| `remove_peer_unforced` | the same | stops | finding 6 |
| `services` | one of four services, see the bounds | 582,618 | requests get their addresses in turn, nothing that the bot or the triggers remember is told again, pongs are paid for |

Properties, by what they are about:

- *All or nothing* (`FundedOnlyWhenAllProposed`, `FailedProposalsCanceled`,
  `BroadcastSafe`, `SuccessIsComplete`, `PromiseSpec`): the batches, the parallel
  funding calls and the parallel detection never get ahead of one another.
- *Two parties* (`TransitAfterPending`, `NoCrossedAcceptance`, `AckMeansTaken`,
  `JointSpec`): no order of restarts, lost answers and late payments lets a side
  give its share without its commitment, or makes the sides disagree on the
  acceptance that was taken.
- *Sale* (`StatusIsTrue`, `BuyerSeesChannel`, `NeverToldLess`, `SaleSpec`): what the
  order says, what the buyer is told and what the node did.
- *Swap* (`CanceledNeverPaid`, `SecretAfterDeposit`, `SuccessMeansSwapped`,
  `PaysOnlyChecked`): the order of tasks that only the graph's needs enforce.
- *Ends* (`FundedCommandEnds`, `AcceptorRunEnds`, `AcceptedRunEnds`, `OrderEnds`,
  `RecoveryReturns`, `CommandEnds`): runs that must come back. `CommandEnds` is
  `PaymentEnds`, `RebalanceEnds` and `FeesEnd`.
- *Payments* (`PaidAsOrdered`, `RebalancedAsPlanned`): over every way to give
  amounts, limits, rates and peers, what is sent stays within what the user asked
  for, at most one payment of an order is sent, and a payment that the user is told
  of is there. A rebalance stays within both its limits although its route, its
  amount and the balances are not those that were probed.
- *Deposits and coins* (`SecretBeforeDeposit`, `DepositReturns`, `FundedAsAsked`):
  who deposits has the secret; a deposit ends paid or taken back, whatever stops the
  runs; what a fund, a split or a recovery publishes spends and pays what was asked
  for, the split with its one output less, and a dry run that succeeds leaves no coin
  locked. Nothing is claimed of the locks that an error leaves.
- *Channels and files* (`PeersAsAsked`, `SavedAsAsked`): only the channels and peers
  that were named or chosen are closed, opened or set, the channels of a peer get
  one policy as far as one was read, and a success that is told is true of the
  channels and of the files, whatever earlier commands left behind.
- *Services* (`AcceptedInTurn`, `ToldOnce`, `PongsPaidFor`, `CanceledForgotten`): a
  peer that is accepted by its age is old enough though it was read earlier, and
  addresses go round: after any number of requests there is a number of rounds such
  that each address was used as often as these rounds, or one more, have it, where a
  user may list an address twice; a channel is announced once; the bot tells of a
  forward, an update and a trade at most once in all its runs, of a pending
  transaction at most once in each run, and of its confirmation at most once; a ping
  has a pong only when it was paid, or simulated, and its pongs cost no more than the
  ping, or the invoice that simulates it, brings; and a trigger that was canceled is
  forgotten in the end.

`CHECK_DEADLOCK FALSE` is in every configuration, since a command ends and then
nothing more has to happen.

### Bounds

- `CheckTimes`, `PollTimes`, `SendTimes` stand for retry counts of 20 to 600. A
  retried step repeats the same code, so two tries show a first failure, a later
  success and the exhaustion. The proofs of safety hold for any count.
- Two saved nodes and three channels give batches of different sizes, a batch that
  fails beside one that succeeds, and a node that is asked while another has not
  answered.
- Two requests and two acceptances give an abandoned request with a late acceptance,
  a second acceptance of one request, and an acceptance of the older of two
  requests.
- Orders share only the server process, which each instance of an order sees stop,
  go deaf and start; one order with five requests covers the terms, the quote, the
  status and two later recoveries. The proofs are for any set of orders.
- `StartHeight = 1`, `Timeout = 5`, `MaxHeight = 6`, `Confs = 2`: the swap passes
  `checkSwap` with no block to spare, a deposit can confirm in time or late, and the
  refund is possible. `Buffer` is 36 in the code; 0 keeps the same decision with
  fewer heights, and the late start of a sweep does not depend on its size.
- `MCCommands`: two peers, the first with two channels, of capacity 6, so that a
  payment fits in one channel, needs two, or has no room; route fees 0 and 2 and
  amounts 1 and 3 are below, at and above the limits. `Orders`, `Plans`, `Wishes`,
  `Jobs`, `FileJobs` and `FeeJobs` are the options that take each branch; the job for
  several peers sets all three values, since what is not set may become anything when
  no policy was read. Two tries
  stand for 5 rebalances and for 360 fee updates, one payment of others per channel
  for the traffic. Heights 1 to 4 with the refund at 3 give a recovery before and
  after it; two faults give an error and a stop. Three coins are a confirmed, a
  pending and a late one; three file commands leave a torn file to the next one, and
  two keys and two nodes give files in different states.
- `MCServices`: three requests, a block more or less and six policies; two triggers
  with pages of one (100 in the code) and two nodes with two channels; two pings to
  one request, and one ping that is real, simulated or neither, over two runs; one
  node with two forwards, two trades, two transactions that are the same but for the
  locktime, two runs and three units of time. The four `Bots` each have a few kinds of
  events beside the restarts, as the kinds share nothing but the run: forwards;
  updates, trades and backups; transactions with their raw bytes; transactions
  without them, with outages.

### Fairness

Weak fairness is given to what the program does by itself once a request was
answered, and requests to a node are answered. What a user decides (`GetFunding`,
`Initiate`, `Accept`, quits, stops) is never fair. In `BalancedOpen` the network is
fair in that a message arrives or is lost and a payment ends, and a proposed channel
gets set up or fails: LND does both by its own timeouts. In `Lsps1` and `SwapOut` no
environment step is fair at all; the waits end by the timers and timeouts of the
code, which are part of the program's actions (`StopWaiting`, `Sweep`). In
`Payments` and `Rebalance` calls are answered and a payment in flight settles or
fails, as its time locks force it to. In `SwapIn` tasks return, blocks come, a
refund that was published confirms, and, for `DepositReturns` only, a user ends a
run that waits in vain and starts a recovery: without the last the deposit stays
where it is. `RoutingFees` has its own steps; `Triggers` the reads of pages and the
deliveries of its subscriptions. The other modules have no liveness property and no
fairness.

## 5. What is proved

For every value of the constants, from the named assumptions (`ChannelsAssumption`,
`NodesAssumption`, `TimesAssumption`, `BoundsAssumption`, `AsksAssumption`,
`HeightsAssumption`), which TLC evaluates on its instances too:

- `OpenChannelsProofs`: `TypeCorrect`, whose retry counters need the remark
  `RetriesLeft` that a task that retries has tries left. `AllOrNothing` and
  `FailedBatchCanceled` from `ProposalInv`: a known channel belongs to a proposed
  batch, and nothing is funded before the branch after the proposals.
  `SafeBroadcast`, `CompleteSuccess` and `Implements` from `BroadcastInv`: each
  answer holds only channels of the node that have their commitment, so a count that
  equals the number of channels means all of them (`CountOfOpening`, a cardinality
  argument). They assume `NoLinks`, that no opening node is the peer of another;
  finding 1 shows that they are false without it.
- `BalancedOpenProofs`: `TypeCorrect`, `TransitSafe`, `NoCrossed`, `AckTaken`,
  `Implements`. `TransitAfterPending` is not inductive: a program that reaches its
  broadcast must already hold its commitment (`Secured`), which rests on fresh
  acceptances (`FreshAccepts`), on requests that are known only after they were made
  (`KnownRequests`), on payments that carry an acceptance of their own request
  (`PayerAnswers`) and on acknowledgements of what was taken (`AcksTaken`). The
  conjunction `Inv` is checked step by step.
- `Lsps1Proofs`: `TypeCorrect`, `TrueStatus`, `Implements` from `OrderInv`: the
  invoice and the channel follow from the step `processOrder` is at. `BuyerSees` and
  `ToldForward` need the messages under way (`TellInv`): every answer has the number of
  a request that was made (`IdsFollow`); a reply is ahead of all that the client knew
  when it asked and behind the order in the map (`TellingsFollow`), so that one that
  comes late, or after another, takes nothing back; and the client asks for the order
  only after it is paid for (`BuyerFollows`). "Ahead" is an order on statuses that steps
  of the seller never go down in (`LaterOrder`, `StatusAtStep`).
- `SwapOutProofs`: `TypeCorrect`, `CanceledUnpaid`, `SecretKept`, `ChecksFirst`.
  `GraphStep` reduces every action to a call back of one task (`Returns`), the end
  of the sweep, a stop, a recovery or the environment. `Closed` says that a result
  is there only with all that its task waited for, so a payment that starts has
  every task that may cancel behind it (`PaidLast`), and a cancelation leaves no run
  that could pay (`CanceledStops`). `SuccessSwapped` from `ResultsTrue`: the
  sweep has a result only with its confirmations and the funding payment only when it
  settled, and a payment that has a result is not made again.
- `CommandsProofs`: the six invariants of the commands and their types, from
  `CommandsSafe`, which says `Spec => []CommandsInv`. `CommandsInv` is the conjunction
  of an invariant for each component. Each holds also when the component has nothing to do, and a step of
  another one is a stutter of it, so that the invariants are proved one by one
  (`SendingStep`, `SpendingStep`, `ManagingStep`). Only `Payments` and `Rebalance` share
  variables, those of `Probing`; of their two invariants (in `SendingProofs`) the one of
  the command that runs holds (`SendingInv`).
  - `PaymentsAsOrdered` from `PayInv`: what a command makes of its options is within
    the order (`SendInv`), a call that is allowed to pay carries the limits of the
    order and starts when nothing was sent before it (`CallInv`), so that the payments
    are those of one call or one set of parts (`PaymentsInv`), and success is told only
    of a payment that settled (`ToldInv`).
  - `RebalancesAsPlanned` from `RebalanceInv`: every payment of the earlier tries is as
    planned (`TriesInv`), the peers of this try may be used (`ChosenInv`), and the
    probe of it does not pay (`ProbeInv`).
  - `SecretShownFirst` from `ShownInv`: the tasks that show the address wait for the
    secret (`WaitNeeds`).
  - `FundsAsAsked` from `FundsInv`: what is prepared is within the wish (`Prepared`),
    what was funded is locked or published (`FundedInv`), and a dry run that tells
    success has unlocked every input (`LockedInv`). A split and a recovery publish in
    the step that makes their transaction. It is no theorem that an error leaves the
    wallet as it was: it does not.
  - `PeersDoneAsAsked` from `PeeringInv` and `FeesInv`: what is still to be closed is
    among what was named or chosen and checked (`Closing`), the peers that are tried
    are candidates, and what was set or is left to set is what the policies that were
    read and the options give. That all channels of a peer get the same, the highest
    of their rates that were read, rests on `MaxIsHighest` and `MinIsLowest`.
  - `SuccessIsTrue` from `FilesInv`: between the checks of a command and its success
    nothing but its own writes changes the files, and they all ended.
  - `CommandsTypeOK` from `TypesInv`, beside `CommandsInv`. `TypeOK` is not inductive: a
    call that was made with a negative amount, channels that are not the node's, or a
    plan that nobody made would break it a step later, so the arguments and channels of
    the call (`CallTyped`), the amounts of the payments (`Payment`), the plan, the wish
    and the job are part of it. A channel never has less than nothing because a payment
    leaves only by parts that the channels have (`SentTyped`), and what a rebalance
    looks for is not negative because it is a number only below what is wanted
    (`MissingTyped`, by `SumIsNat`); fees, files and coins also need that what is left
    to do is from the options (`FeesInv`, `FilesInv`, `FundsInv`).
- `ServicesProofs`: the four invariants of the services, from `ServicesSafe` in the
  same way.
  - `InboundInTurn` from `InboundInv`: the pool is the rest of the list, and the uses
    of an address are those of full rounds and of the part of the list that is gone
    (`TurnInv`); what was read of a peer is what its channel is, or that it has none
    yet, and no height that was read is above the chain (`ChecksInv`).
  - `ServicesTellOnce` from `TriggersInv` (the channels the listener knows are those it
    told of) and `BotInv`: the times that a loop asked for are before those that the
    loop of a later run asks for (`Apart`), so that a forward is covered by one run at
    most (`CoveredOnce`), and it was handed on once for each (`HandedInv`). A trade that
    was made since the run began, and that the run was not told of, was told of by none
    (`PostsInv`). What is read or told of a transaction is remembered (`Remembered`):
    by its run when it is pending, by the node when it is confirmed; so that no two of
    these are alike (`TxInv`). A pending transaction may be told again by the next run,
    and the theorem does not say otherwise.
  - `ServicesArePaid` from `KeySendInv`: a response is to a ping that is paid, or to a
    simulated one (`PaidTasks`); a request has one pong in flight or settled, which
    belongs to the ping that carries it and costs no more than what the ping, or the
    invoice that simulates it, brings. That somebody paid a simulated ping is no
    theorem, as the code does not ask for it.
  - `ServicesTypeOK` is a conjunct of the invariants.
- `SetLemmas`: the prover has no induction over sets as a rule that can be used here,
  but the proper subsets of a finite set are well-founded: of the subsets that fail a
  property there is a least one (`LeastSubset`), which is absurd. This gives the highest
  and the lowest element, and for a fold with `+` that a sum over a set is computed from
  the sum over the rest (`SumStep`) and is a natural number (`SumIsNat`).

The options of a command, the policies, the orders and the other inputs are constants;
what the code makes sure of before they are used is an assumption of the module that
declares them (`NodeAssumption`, `ProbingAssumption`, `OrdersAssumption`,
`PlansAssumption`, `WishesAssumption`, `JobsAssumption`, `FileJobsAssumption`,
`FeesAssumption`, `PoliciesAssumption`, `TriggersAssumption`, `DeliveriesAssumption`,
`TellsAssumption`, and the `HeightsAssumption` of each of the swaps). They are types and
finiteness, that numbers are not negative, and that what is named exists; nothing is
assumed of what the network does.

Only model-checked: the liveness properties (`FundedCommandEnds`, `AcceptorRunEnds`,
`AcceptedRunEnds`, `OrderEnds`, `RecoveryReturns`, `CommandEnds`, `DepositReturns`,
`CanceledForgotten`), which need fairness and `ENABLED`, and the six findings. Every
other property of a run is a theorem.
The invariants of the commands were checked with TLC before they were proved, except
`TriesInv`, which quantifies over all sets of payments and cannot be evaluated.

## 6. Findings

1. `open_channels.js:841`: the broadcast is decided by the number of listed
   channels. A channel between two of the opening nodes is listed by both, so the
   transaction may be published while another channel has no commitment.
2. `open_channels.js:902`: the inner `asyncEach` of `cancelPending` gets a function
   in place of its array, so that nothing is canceled after a funding error. Beside
   it `cancelLocks` (line 928) looks for the inputs on a reflected result and
   unlocks none; the model has this, no run is about it.
3. `get_balanced_opens.js:86`: a request accepted by peer message is offered again.
4. `process_order.js:446`: a rejected order leaves a task without a call back, and
   the call never returns.
5. `swap_out.js:1471`: the blocks left are measured from the start height, so the
   check before a sweep never fails for a late deposit or a late recovery.
6. `remove_peer.js:458`: without a named peer nothing checks that the channels can
   be closed cooperatively (line 376 does so only when the force option is given),
   and every inactive channel is closed by force, also without the option.

The models also hold what looks unintended but contradicts no promise: decryption
that never calls back (`decrypt_saved_macaroons.js:98`), a split with one output
less (`split_utxos.js:66`), the key send lock that is never found
(`respond_to_key_send_request.js:74`), a pong for a simulated ping whose invoice
nobody paid (`key_send_request_arguments.js:43`), coins that an error leaves locked
(`fund_transaction.js:292`), and a connection that a caller waits for without end.

## 7. What is not modelled, and hazards without a property

- *Not modelled*: forward limits (rules that are passed to an external function),
  tags (one read and one write of a file), wallet reports and unlock, balances and
  accounting (sums over queries), credentials and encryption (files and external
  tools), the command line and display. They keep no state that several steps share,
  except the tags: two commands that change them at once lose a change, which a
  model would only restate.
- *Parts of modelled components*: gifts and the probe of many nodes; the paid
  services and the advertisement; connectivity triggers, which are handled like
  channel triggers; the handlers of Telegram commands; `reconnect` and `get_peers`;
  charts and ignore lists; `recover_p2pk` and close reports; LNURL authentication,
  channel requests and withdrawals; two commands on the saved nodes at once.
- *Abstracted*: routes (the channels at both ends and a fee), keys, texts, PSBTs,
  formulas, and amounts where no property needs them.

The hazards of `PROJECT.json` without a property are the inputs that stay locked
after a failed open (`open_channels.js:928`), the lost change of tags
(`adjust_tags.js:187`), and five that the models have but whose absence the code does
not promise: the wait for an acceptance that only the user ends
(`initiate_balanced_channel.js:433`), a payment that is returned for a channel that was
opened (`open_sold_channel.js:105`), a payment that is held by an order that ended
(`process_order.js:483`), a first run of a swap that waits for a report of the service
(`swap_out.js:667`), and decryption that never calls back
(`decrypt_saved_macaroons.js:98`). Of the locks in `fund_transaction.js:305` only the
success of a dry run is covered. Smaller ones that are not listed there: an argument error
that calls back twice (`open_channels.js:207`), a transit output that only a logged
key can refund after a stop (`initiate_balanced_channel.js:260`), a server that goes
deaf without notice (`lsps1_server.js:109`), a client without a timeout
(`make_request.js:70`), errors that do not cancel a swap (`swap_out.js:821`), and a
past payment subscription that listens to no error (`swap_out.js:1590`).
