------------------------------- MODULE SwapIn -------------------------------
(***************************************************************************)
(* `bos swap-in`: an on-chain deposit to a service that pays a Lightning   *)
(* invoice of this node (src/swaps/swap_in.js, with the service token of   *)
(* get_paid_service.js).                                                   *)
(*                                                                         *)
(* The program is one asyncAuto graph: a task starts when the tasks it     *)
(* needs are done, an error ends the run for all that did not start, and   *)
(* the tasks that run go on.  The user sends the deposit to the address    *)
(* that is shown.  A run that was stopped or failed is followed by         *)
(* recoveries, with the secret that was shown with the address.            *)
(***************************************************************************)
EXTENDS Naturals

CONSTANTS
  FirstHeight,   \* the height when the swap starts
  LastHeight,    \* bound on the height
  RefundHeight,  \* the height from which the deposit may be taken back
  TokenFees,     \* what the service may ask for its token
  MaxTokenFee,   \* the most that is paid for it
  MaxFaults      \* bound on the errors of the node and of the service and on the stops

ASSUME HeightsAssumption ==
  FirstHeight \in Nat /\ MaxFaults \in Nat /\ TokenFees \subseteq Nat

VARIABLES
  recovering,    \* the run is a recovery
  open,          \* the program runs
  faults,        \* errors and stops so far
  finished,      \* tasks whose result the graph has
  back,          \* tasks that called back, done or not
  broke,         \* the graph returned an error
  spent,         \* what was paid for the service token
  shown,         \* the address was shown, and what with it: "no", "bare", "secret"
  invoice,       \* the invoice of the swap
  probeInvoice,  \* the invoice that the service probes
  readPaid,      \* the recovery read the invoice as paid
  paidSeen,      \* the payment was seen (isSuccessfulSwap)
  atHeight,      \* the current height
  runHeight,     \* the height that the run read when it started
  depositedAt,   \* the height of the deposit, 0 for none
  refundTx,      \* the refund transaction of this run exists
  broadcast,     \* a refund transaction was broadcast
  returned       \* the refund is in the chain

swapIn == <<recovering, open, faults, finished, back, broke, spent, shown, invoice, probeInvoice,
            readPaid, paidSeen, atHeight, runHeight, depositedAt, refundTx, broadcast, returned>>
inGraph == <<recovering, open, faults, runHeight>>
inChain == <<atHeight, depositedAt, broadcast, returned>>
inSwap == <<spent, shown, invoice, probeInvoice, readPaid, paidSeen, refundTx>>

InTasks == {"service", "limits", "quote", "invoice", "probe", "probed", "create", "swap",
            "recovery", "mempool", "deposit", "refund", "broadcast", "wait"}

\* Mutant of InNeeds: the address is shown without waiting for the recovery secret
SecretLater == [t \in InTasks |->
  CASE t = "service" -> {}
    [] t \in {"limits", "quote"} -> {"service"}
    [] t = "invoice" -> {"limits", "quote"}
    [] t = "probe" -> {"invoice"}
    [] t = "probed" -> {"probe"}
    [] t = "create" -> {"invoice", "probe", "quote", "service"}
    [] t = "swap" -> {"create"}
    [] t = "recovery" -> {"swap"}
    [] t \in {"mempool", "deposit"} -> {"invoice", "swap"}
    [] t = "refund" -> {"deposit", "swap"}
    [] t = "broadcast" -> {"mempool", "refund", "swap"}
    [] t = "wait" -> {"invoice", "swap"}]
InNeeds == [SecretLater EXCEPT !["wait"] = {"invoice", "recovery", "swap"}]

\* What a recovery has nothing to do for
Skipped == {"service", "limits", "quote", "probe", "probed", "create", "recovery", "wait"}

SwapInTypes ==
  /\ recovering \in BOOLEAN /\ open \in BOOLEAN /\ faults \in 0 .. MaxFaults /\ broke \in BOOLEAN
  /\ finished \subseteq back /\ back \subseteq InTasks
  /\ spent \in Nat /\ shown \in {"no", "bare", "secret"}
  /\ invoice \in {"none", "open", "paid"}
  /\ probeInvoice \in {"none", "open", "held", "canceled"}
  /\ readPaid \in BOOLEAN /\ paidSeen \in BOOLEAN /\ refundTx \in BOOLEAN
  /\ atHeight \in Nat /\ runHeight \in Nat /\ depositedAt \in 0 .. atHeight
  /\ broadcast \in BOOLEAN /\ returned \in BOOLEAN

SwapInStart(running) ==
  /\ recovering = FALSE /\ open = running /\ faults = 0 /\ finished = {} /\ back = {} /\ broke = FALSE
  /\ spent = 0 /\ shown = "no" /\ invoice = "none" /\ probeInvoice = "none"
  /\ readPaid = FALSE /\ paidSeen = FALSE
  /\ atHeight = FirstHeight /\ runHeight = FirstHeight /\ depositedAt = 0
  /\ refundTx = FALSE /\ broadcast = FALSE /\ returned = FALSE

SwapInInit == SwapInStart(TRUE)

-----------------------------------------------------------------------------
(* The graph                                                               *)

InReady(D, t) == InNeeds[t] \subseteq D
\* Only what waits goes on after an error
Waiting == {"wait", "probed", "deposit", "mempool"}
Runs(t) ==
  open /\ t \notin back /\ InReady(finished, t) /\ (broke => t \in Waiting)

\* A task that is done may start the one that shows the address: in a run that
\* returned an error nothing starts any more
Complete(t) ==
  /\ finished' = finished \cup {t} /\ back' = back \cup {t}
  /\ shown' = IF ~broke /\ ~recovering /\ shown = "no" /\ InReady(finished', "wait")
              THEN IF "recovery" \in finished' THEN "secret" ELSE "bare"
              ELSE shown
  /\ UNCHANGED <<broke, inGraph>>

Break(t) ==
  /\ back' = back \cup {t} /\ broke' = TRUE
  /\ UNCHANGED <<finished, shown, inGraph>>

\* An error of the node or of the service
Fault(t) ==
  /\ faults < MaxFaults /\ faults' = faults + 1
  /\ back' = back \cup {t} /\ broke' = TRUE
  /\ UNCHANGED <<finished, shown, recovering, open, runHeight>>

OtherTasks == <<spent, invoice, probeInvoice, readPaid, paidSeen, refundTx>>

\* The token of the service is paid for when the user gives none: not above the most
\* that is paid, and again in each new swap
PayForService ==
  /\ Runs("service")
  /\ \/ Complete("service") /\ UNCHANGED spent
     \/ \E fee \in TokenFees :
          IF fee > MaxTokenFee THEN Break("service") /\ UNCHANGED spent
          ELSE Complete("service") /\ spent' = spent + fee
     \/ Fault("service") /\ UNCHANGED spent
  /\ UNCHANGED <<invoice, probeInvoice, readPaid, paidSeen, refundTx, inChain>>

\* The terms, the quote, the swap and its recovery secret: read or computed
Compute ==
  /\ \E t \in {"limits", "quote", "create", "swap", "recovery"} :
       Runs(t) /\ (Complete(t) \/ Fault(t))
  /\ UNCHANGED <<OtherTasks, inChain>>

\* The invoice of the swap is made when the amount is within the limits; a recovery
\* reads it once
SwapInvoice ==
  /\ Runs("invoice")
  /\ \/ /\ Complete("invoice")
        /\ invoice' = IF recovering THEN invoice ELSE "open"
        /\ readPaid' = (recovering /\ invoice = "paid")
     \/ Fault("invoice") /\ UNCHANGED <<invoice, readPaid>>
  /\ UNCHANGED <<spent, probeInvoice, paidSeen, refundTx, inChain>>

ProbeInvoice ==
  /\ Runs("probe")
  /\ \/ Complete("probe") /\ probeInvoice' = "open"
     \/ Fault("probe") /\ UNCHANGED probeInvoice
  /\ UNCHANGED <<spent, invoice, readPaid, paidSeen, refundTx, inChain>>

\* The probe is canceled back when it is held; if it is canceled otherwise, at its
\* expiry too, the run ends, whatever was shown
WaitForProbe ==
  /\ Runs("probed")
  /\ \/ probeInvoice = "held" /\ Complete("probed") /\ probeInvoice' = "canceled"
     \/ probeInvoice = "canceled" /\ Break("probed") /\ UNCHANGED probeInvoice
  /\ UNCHANGED <<spent, invoice, readPaid, paidSeen, refundTx, inChain>>

\* Errors of the look at the mempool are not errors
FindInMempool ==
  /\ Runs("mempool") /\ Complete("mempool")
  /\ UNCHANGED <<OtherTasks, inChain>>

\* Nothing is looked for when the invoice was read as paid; the wait for a deposit
\* has an end
FindDeposit ==
  /\ Runs("deposit")
  /\ \/ (readPaid \/ depositedAt # 0) /\ Complete("deposit")
     \/ depositedAt = 0 /\ Break("deposit")
  /\ UNCHANGED <<OtherTasks, inChain>>

\* There is no refund without a deposit or when the payment was seen
Refund ==
  /\ Runs("refund") /\ Complete("refund")
  /\ refundTx' = (~readPaid /\ ~paidSeen)
  /\ UNCHANGED <<spent, invoice, probeInvoice, readPaid, paidSeen, inChain>>

\* Mutant of MayBroadcast: the height of the first run is used
HeightOfSwap == FirstHeight >= RefundHeight

\* No block is left until the refund: measured at the height read at the start
MayBroadcast == runHeight >= RefundHeight

BroadcastRefund ==
  /\ Runs("broadcast")
  /\ IF recovering /\ refundTx /\ MayBroadcast
     THEN \/ Complete("broadcast") /\ broadcast' = TRUE
          \/ returned /\ Break("broadcast") /\ UNCHANGED broadcast
     ELSE Complete("broadcast") /\ UNCHANGED broadcast
  /\ UNCHANGED <<OtherTasks, atHeight, depositedAt, returned>>

WaitForPayment ==
  /\ Runs("wait") /\ invoice = "paid" /\ Complete("wait") /\ paidSeen' = TRUE
  /\ UNCHANGED <<spent, invoice, probeInvoice, readPaid, refundTx, inChain>>

-----------------------------------------------------------------------------
(* The user                                                                *)

Halt ==
  /\ open /\ open' = FALSE
  /\ UNCHANGED <<recovering, runHeight, finished, back, broke, inSwap, inChain>>

\* The program is stopped or the machine fails at any step
Stop == faults < MaxFaults /\ faults' = faults + 1 /\ Halt

\* Once the deposit may be taken back the user does not wait for a swap any longer,
\* nor for a recovery that has nothing left to do
GiveUp ==
  /\ atHeight >= RefundHeight /\ (~recovering \/ broke \/ back = InTasks)
  /\ Halt /\ UNCHANGED faults

Recover ==
  /\ ~open /\ shown = "secret"
  /\ recovering' = TRUE /\ open' = TRUE /\ runHeight' = atHeight /\ UNCHANGED faults
  /\ finished' = Skipped /\ back' = Skipped /\ broke' = FALSE
  /\ readPaid' = FALSE /\ paidSeen' = FALSE /\ refundTx' = FALSE
  /\ UNCHANGED <<spent, shown, invoice, probeInvoice, inChain>>

Deposit ==
  /\ shown # "no" /\ depositedAt = 0 /\ atHeight < RefundHeight
  /\ depositedAt' = atHeight
  /\ UNCHANGED <<finished, back, broke, inGraph, inSwap, atHeight, broadcast, returned>>

-----------------------------------------------------------------------------
(* The service and the chain                                               *)

ProbeArrives ==
  /\ probeInvoice = "open" /\ probeInvoice' \in {"held", "canceled"}
  /\ UNCHANGED <<finished, back, broke, inGraph, inChain>>
  /\ UNCHANGED <<spent, shown, invoice, readPaid, paidSeen, refundTx>>

\* The service pays for a deposit while it may not be taken back
ServicePays ==
  /\ invoice = "open" /\ depositedAt # 0 /\ atHeight < RefundHeight /\ ~returned
  /\ invoice' = "paid"
  /\ UNCHANGED <<finished, back, broke, inGraph, inChain>>
  /\ UNCHANGED <<spent, shown, probeInvoice, readPaid, paidSeen, refundTx>>

InBlock ==
  /\ open \/ shown # "no"
  /\ atHeight < LastHeight /\ atHeight' = atHeight + 1
  /\ UNCHANGED <<finished, back, broke, inGraph, inSwap, depositedAt, broadcast, returned>>

\* The service takes a deposit that it paid for before the refund does
RefundConfirms ==
  /\ broadcast /\ invoice # "paid" /\ atHeight >= RefundHeight /\ ~returned
  /\ returned' = TRUE
  /\ UNCHANGED <<finished, back, broke, inGraph, inSwap, atHeight, depositedAt, broadcast>>

SwapInTask ==
  \/ PayForService \/ Compute \/ SwapInvoice \/ ProbeInvoice \/ WaitForProbe
  \/ FindInMempool \/ FindDeposit \/ Refund \/ BroadcastRefund \/ WaitForPayment

SwapInNext ==
  \/ SwapInTask \/ Stop \/ GiveUp \/ Recover \/ Deposit
  \/ ProbeArrives \/ ServicePays \/ InBlock \/ RefundConfirms

-----------------------------------------------------------------------------
(* Properties                                                              *)

\* Whoever has sent the deposit has been shown the secret that recovers it, in
\* whatever order the tasks end (swap_in.js:540)
SecretBeforeDeposit == depositedAt # 0 => shown = "secret"

\* A deposit is paid for over Lightning or comes back, when the user recovers it after
\* the refund height, though runs stop and fail at any step (swap_in.js:490)
DepositReturns == depositedAt # 0 ~> invoice = "paid" \/ returned

\* The tasks that run go on, blocks are found, and the user stops a run that is too
\* late and recovers until the deposit is back
SwapInFairness ==
  /\ WF_swapIn(SwapInTask) /\ WF_swapIn(InBlock) /\ WF_swapIn(GiveUp)
  /\ WF_swapIn(Recover) /\ WF_swapIn(RefundConfirms)
=============================================================================
