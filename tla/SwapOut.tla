------------------------------ MODULE SwapOut ------------------------------
(***************************************************************************)
(* `bos increase-inbound-liquidity`: off-chain funds are paid to a service *)
(* that deposits on-chain to an output that this node sweeps with a secret *)
(* (src/swaps/swap_out.js).                                                *)
(*                                                                         *)
(* The program is one asyncAuto graph.  A task starts when the tasks it    *)
(* needs are done; an error is returned at once and nothing starts after   *)
(* it, while the tasks that run go on.  The run may be stopped and started *)
(* again with the recovery secret that it logged: the tasks of a recovery  *)
(* that have nothing to do are done at once.                               *)
(*                                                                         *)
(* The service, the chain and the payments of the node are the             *)
(* environment.                                                            *)
(***************************************************************************)
EXTENDS Naturals, FiniteSets

CONSTANTS
  StartHeight,   \* the height when the swap was started
  MaxHeight,     \* bound on the height
  Timeout,       \* the height when the service may take its deposit back
  Confs,         \* the confirmations argument
  Buffer         \* the blocks a swap must have to spare (36)

ASSUME HeightsAssumption ==
  /\ StartHeight \in Nat \ {0} /\ MaxHeight \in Nat
  /\ Timeout \in Nat /\ Confs \in Nat \ {0} /\ Buffer \in Nat

VARIABLES
  mode,          \* real, dry or recovery
  multi,         \* whether several paths pay the funding (max_paths > 1)
  alive,         \* the program runs
  done,          \* tasks whose result the graph has
  over,          \* tasks that called back, done or not
  failed,        \* the graph returned an error
  logged,        \* the recovery secret was logged
  canceled,      \* the swap was canceled at the service
  sweeping,      \* blocks are listened to and the sweep is attempted on each
  fund,          \* the payment of the funding request
  exec,          \* the payment of the execution request
  created,       \* the service knows the swap
  height,        \* the current height
  depositAt,     \* the height that has the deposit, 0 for none
  refunded,      \* the service took the deposit back
  revealed,      \* a sweep was broadcast: the secret is public
  sweptAt        \* the height that has the sweep, 0 for none

graph == <<done, over, failed>>
payments == <<fund, exec>>
choices == <<mode, multi, alive>>
chain == <<created, height, depositAt, refunded, revealed, sweptAt>>
vars == <<mode, multi, alive, done, over, failed, logged, canceled, sweeping,
          fund, exec, created, height, depositAt, refunded, revealed, sweptAt>>

Tasks == {"quote", "create", "decodeExec", "decodeFund", "checkSwap", "amounts",
          "execRoute", "multiRoutes", "fundRoutes", "sweepFee", "multiPay",
          "payFund", "payExec", "deposit", "depositHeight", "sweep", "track",
          "fundPayment", "execPayment", "summary"}

Checked == {"amounts", "checkSwap"}

\* Mutants of Needs: a payment does not wait for the check of the swap; the sweep
\* does not wait for the deposit
Unchecked == [t \in Tasks |->
  CASE t = "quote" -> {}
    [] t = "create" -> {"quote"}
    [] t \in {"decodeExec", "decodeFund", "deposit"} -> {"create"}
    [] t = "checkSwap" -> {"create", "decodeExec"}
    [] t = "amounts" -> {"quote", "decodeExec", "decodeFund"}
    [] t = "execRoute" -> {"decodeExec", "decodeFund"}
    [] t \in {"multiRoutes", "track"} -> {"decodeFund"}
    [] t = "fundRoutes" -> {"decodeFund", "multiRoutes"}
    [] t = "sweepFee" -> {"quote", "execRoute", "multiRoutes", "fundRoutes"}
    [] t = "multiPay" -> {"multiRoutes", "sweepFee"}
    [] t = "payFund" -> {"execRoute", "fundRoutes", "sweepFee", "multiPay"}
    [] t = "payExec" -> {"execRoute", "fundRoutes", "sweepFee"}
    [] t = "depositHeight" -> {"deposit"}
    [] t = "sweep" -> {"deposit", "depositHeight", "sweepFee"}
    [] t = "fundPayment" -> {"decodeFund", "multiPay", "payFund", "sweep"}
    [] t = "execPayment" -> {"decodeExec", "payExec"}
    [] t = "summary" -> {"fundPayment", "execPayment", "sweep"}]
DepositUnseen == [Unchecked EXCEPT !["sweep"] = {"create", "sweepFee"}]

\* The tasks that a task names, without those that only read or format
Needs == [t \in Tasks |->
  Unchecked[t] \cup
    (IF t \in {"multiPay", "payFund", "payExec"} THEN Checked ELSE {})]

ProgramTypes ==
  /\ mode \in {"real", "dry", "recovery"} /\ multi \in BOOLEAN
  /\ alive \in BOOLEAN /\ failed \in BOOLEAN
  /\ done \subseteq over /\ over \subseteq Tasks
  /\ logged \in BOOLEAN /\ canceled \in BOOLEAN /\ sweeping \in BOOLEAN

EnvironmentTypes ==
  /\ fund \in {"none", "flight", "settled", "failed"}
  /\ exec \in {"none", "flight", "settled", "failed"}
  /\ created \in BOOLEAN /\ refunded \in BOOLEAN /\ revealed \in BOOLEAN
  /\ height \in Nat /\ depositAt \in 0 .. height /\ sweptAt \in 0 .. height

TypeOK == ProgramTypes /\ EnvironmentTypes

Init ==
  /\ mode \in {"real", "dry"} /\ multi \in BOOLEAN /\ alive = TRUE
  /\ done = {} /\ over = {} /\ failed = FALSE
  /\ logged = FALSE /\ canceled = FALSE /\ sweeping = FALSE
  /\ fund = "none" /\ exec = "none"
  /\ created = FALSE /\ height = StartHeight /\ depositAt = 0
  /\ refunded = FALSE /\ revealed = FALSE /\ sweptAt = 0

-----------------------------------------------------------------------------
(* The graph                                                               *)

Ready(D) == {t \in Tasks : Needs[t] \subseteq D}
Running(t) == alive /\ t \notin over /\ Needs[t] \subseteq done

\* The tasks that act as soon as they start: the payments, and the sweep, which
\* measures the blocks until the timeout from the start of the swap
Launch(D) ==
  LET new == Ready(D) \ Ready(done)
      payer == IF multi THEN "multiPay" ELSE "payFund"
  IN /\ fund' = IF mode # "recovery" /\ payer \in new THEN "flight" ELSE fund
     /\ exec' = IF mode = "real" /\ "payExec" \in new THEN "flight" ELSE exec
     /\ sweeping' = (sweeping \/ ("sweep" \in new /\ Timeout - StartHeight >= Confs))

\* Mutant of Complete: a task may call back again
CompleteAgain(t) ==
  /\ Running(t) /\ UNCHANGED <<over, failed>>
  /\ IF failed THEN UNCHANGED <<done, fund, exec, sweeping>>
               ELSE done' = done \cup {t} /\ Launch(done')

\* A task calls back.  After an error its result is not looked at
Complete(t) ==
  /\ Running(t) /\ over' = over \cup {t}
  /\ IF failed THEN UNCHANGED <<done, fund, exec, sweeping>>
               ELSE done' = done \cup {t} /\ Launch(done')
  /\ UNCHANGED failed

Fail(t) ==
  /\ Running(t) /\ over' = over \cup {t} /\ failed' = TRUE
  /\ UNCHANGED <<done, fund, exec, sweeping>>

\* cancelSwapOut is called and waited for, whatever it answers
CancelAndFail(t) == Fail(t) /\ canceled' = TRUE

-----------------------------------------------------------------------------
(* Setting the swap up                                                     *)

\* Limits, quote and fee checks; the decoded requests and their amounts
Request(t) ==
  /\ t \in {"quote", "decodeExec", "decodeFund", "amounts", "depositHeight"}
  /\ Complete(t) \/ (mode # "recovery" /\ Fail(t))
  /\ UNCHANGED <<choices, logged, canceled, chain>>

InitiateSwap ==
  /\ \/ Complete("create") /\ created' = TRUE
     \/ Fail("create") /\ created' \in {created, TRUE}
  /\ UNCHANGED <<choices, logged, canceled, height, depositAt, refunded, revealed,
                 sweptAt>>

\* checkSwapTiming: the deposit, the sweep and the buffer fit before the timeout
TimeEnough == StartHeight + Confs + Confs + Buffer <= Timeout

\* The recovery secret is logged before the timing is checked
CheckSwap ==
  /\ \/ /\ mode = "real" => TimeEnough
        /\ Complete("checkSwap") /\ logged' = (logged \/ mode = "real")
     \/ Fail("checkSwap") /\ logged' \in {logged, logged \/ mode = "real"}
  /\ UNCHANGED <<choices, canceled, chain>>

FindRouteForExecution ==
  /\ \/ Complete("execRoute") /\ UNCHANGED canceled
     \/ CancelAndFail("execRoute")
  /\ UNCHANGED <<choices, logged, chain>>

\* Probing several paths may fail without canceling the swap
GetFundingRoutes ==
  /\ \/ (Complete("multiRoutes") \/ (multi /\ Fail("multiRoutes")))
        /\ UNCHANGED canceled
     \/ multi /\ CancelAndFail("multiRoutes")
  /\ UNCHANGED <<choices, logged, chain>>

FindRoutesForFunding ==
  /\ \/ Complete("fundRoutes") /\ UNCHANGED canceled
     \/ ~multi /\ CancelAndFail("fundRoutes")
  /\ UNCHANGED <<choices, logged, chain>>

\* Mutant of GetMinSweepFee: a dry run cancels the swap and goes on
CancelDryRun ==
  /\ \/ Fail("sweepFee") /\ UNCHANGED canceled
     \/ Complete("sweepFee") /\ canceled' = (canceled \/ mode = "dry")
  /\ UNCHANGED <<choices, logged, chain>>

\* A fee that is too high ends the run; a dry run ends here in any case
GetMinSweepFee ==
  /\ \/ Fail("sweepFee") /\ UNCHANGED canceled
     \/ mode # "dry" /\ Complete("sweepFee") /\ UNCHANGED canceled
     \/ mode = "dry" /\ CancelAndFail("sweepFee")
  /\ UNCHANGED <<choices, logged, chain>>

-----------------------------------------------------------------------------
(* The payments                                                            *)

\* A payment task waits for its payment, or has none to make
PayToFund(t) ==
  /\ t = "multiPay" \/ t = "payFund"
  /\ IF mode = "recovery" \/ (t = "multiPay") # multi
       THEN Complete(t)
       ELSE \/ fund = "settled" /\ Complete(t)
            \/ fund = "failed" /\ Fail(t)
  /\ UNCHANGED <<choices, logged, canceled, chain>>

PayToExecute ==
  /\ \/ (mode # "real" \/ exec = "settled") /\ Complete("payExec")
     \/ mode = "real" /\ exec = "failed" /\ Fail("payExec")
  /\ UNCHANGED <<choices, logged, canceled, chain>>

-----------------------------------------------------------------------------
(* The deposit and the sweep                                               *)

HasConfs(at) == at # 0 /\ height + 1 >= at + Confs

\* The wait for the deposit ends with its confirmations, with an error or with a
\* deposit that is too small
FindDeposit ==
  /\ \/ HasConfs(depositAt) /\ ~refunded /\ Complete("deposit")
     \/ Fail("deposit")
  /\ UNCHANGED <<choices, logged, canceled, chain>>

\* On every block
AttemptSweep ==
  /\ alive /\ sweeping
  /\ revealed' = TRUE
  /\ UNCHANGED <<choices, graph, logged, canceled, sweeping, payments, created,
                 height, depositAt, refunded, sweptAt>>

\* Mutants of Sweep: a broadcast is enough; there is no end to the wait
SweepSent ==
  /\ Running("sweep") /\ over' = over \cup {"sweep"} /\ sweeping' = FALSE
  /\ \/ /\ sweeping /\ revealed
        /\ done' = IF failed THEN done ELSE done \cup {"sweep"}
        /\ UNCHANGED failed
     \/ failed' = TRUE /\ UNCHANGED done
  /\ UNCHANGED <<choices, logged, canceled, payments, chain>>
SweepWithoutTimeout ==
  /\ Running("sweep") /\ over' = over \cup {"sweep"} /\ sweeping' = FALSE
  /\ sweeping /\ HasConfs(sweptAt)
  /\ done' = IF failed THEN done ELSE done \cup {"sweep"}
  /\ UNCHANGED <<failed, choices, logged, canceled, payments, chain>>

\* The wait for the sweep ends with its confirmations or with its timeout, and no
\* block is listened to anymore
Sweep ==
  /\ Running("sweep") /\ over' = over \cup {"sweep"} /\ sweeping' = FALSE
  /\ \/ /\ sweeping /\ HasConfs(sweptAt)
        /\ done' = IF failed THEN done ELSE done \cup {"sweep"}
        /\ UNCHANGED failed
     \/ failed' = TRUE /\ UNCHANGED done
  /\ UNCHANGED <<choices, logged, canceled, payments, chain>>

-----------------------------------------------------------------------------
(* The end of the run                                                      *)

\* The service reports the claim, at a time of its own
TrackStatus ==
  /\ Complete("track")
  /\ UNCHANGED <<choices, logged, canceled, chain>>

\* The funding payment of this run or of the run that is recovered
GetFundingPayment ==
  /\ \/ fund = "settled" /\ Complete("fundPayment")
     \/ fund = "failed" /\ Fail("fundPayment")
  /\ UNCHANGED <<choices, logged, canceled, chain>>

GetExecutionPayment ==
  /\ Complete("execPayment") \/ Fail("execPayment")
  /\ UNCHANGED <<choices, logged, canceled, chain>>

Summary ==
  /\ Complete("summary")
  /\ UNCHANGED <<choices, logged, canceled, chain>>

\* The user stops the program, it crashes, or it exits with its error
Stop ==
  /\ alive /\ alive' = FALSE
  /\ done' = {} /\ over' = {} /\ failed' = FALSE /\ sweeping' = FALSE
  /\ UNCHANGED <<mode, multi, logged, canceled, payments, chain>>

\* The tasks before the sweep fee, the deposit height and the status have nothing
\* to do in a recovery
Skipped == {"quote", "create", "decodeExec", "decodeFund", "checkSwap", "amounts",
            "execRoute", "multiRoutes", "fundRoutes", "track"}

Recover ==
  /\ ~alive /\ logged
  /\ mode' = "recovery" /\ alive' = TRUE
  /\ done' = Skipped /\ over' = Skipped
  /\ UNCHANGED <<multi, failed, logged, canceled, sweeping, payments, chain>>

-----------------------------------------------------------------------------
(* The chain, the service and the node's payments, modelled from how the   *)
(* code uses them                                                          *)

program == <<choices, graph, logged, canceled, sweeping>>

NewBlock ==
  /\ height < MaxHeight /\ height' = height + 1
  /\ UNCHANGED <<program, payments, created, depositAt, refunded, revealed,
                 sweptAt>>

ServiceDeposits ==
  /\ created /\ depositAt = 0 /\ depositAt' = height
  /\ UNCHANGED <<program, payments, created, height, refunded, revealed, sweptAt>>

\* The deposit has one spend: the sweep or, after the timeout, the refund
SweepConfirms ==
  /\ revealed /\ ~refunded /\ sweptAt = 0 /\ depositAt # 0
  /\ sweptAt' = height
  /\ UNCHANGED <<program, payments, created, height, depositAt, refunded, revealed>>

ServiceRefunds ==
  /\ depositAt # 0 /\ ~refunded /\ sweptAt = 0 /\ height >= Timeout
  /\ refunded' = TRUE
  /\ UNCHANGED <<program, payments, created, height, depositAt, revealed, sweptAt>>

\* The service can take the funding payment only with the secret
FundingEnds ==
  /\ fund = "flight"
  /\ \/ revealed /\ fund' = "settled"
     \/ fund' = "failed"
  /\ UNCHANGED <<program, exec, chain>>

ExecutionEnds ==
  /\ exec = "flight" /\ exec' \in {"settled", "failed"}
  /\ UNCHANGED <<program, fund, chain>>

-----------------------------------------------------------------------------

SetUp ==
  \/ \E t \in Tasks : Request(t)
  \/ InitiateSwap \/ CheckSwap \/ FindRouteForExecution \/ GetFundingRoutes
  \/ FindRoutesForFunding \/ GetMinSweepFee

Paying == PayToExecute \/ \E t \in Tasks : PayToFund(t)

Ending == GetFundingPayment \/ GetExecutionPayment \/ Summary

\* The tasks that end by themselves: requests are answered, waits have a timeout
Program == SetUp \/ Paying \/ FindDeposit \/ Sweep \/ Ending

User == Stop \/ Recover

Environment ==
  \/ NewBlock \/ ServiceDeposits \/ SweepConfirms \/ ServiceRefunds
  \/ FundingEnds \/ ExecutionEnds

Next == Program \/ AttemptSweep \/ TrackStatus \/ User \/ Environment

Spec == Init /\ [][Next]_vars

FairSpec == Spec /\ WF_vars(Program)

-----------------------------------------------------------------------------
(* Properties                                                              *)

(* Any payment can be taken up by a later run, and is made once: its       *)
(* secret was logged, its amounts and timing were checked, and a recovery  *)
(* pays nothing again.                                                     *)
PaysOnlyChecked ==
  [][(fund = "none" /\ fund' # "none") \/ (exec = "none" /\ exec' # "none")
       => mode = "real" /\ logged' /\ Checked \subseteq done']_vars

(* A swap that the program canceled, a dry run's too, is never paid, and a *)
(* swap that was paid is never canceled.                                   *)
CanceledNeverPaid == canceled => fund = "none" /\ exec = "none"

(* The secret is public only after the deposit had its confirmations.      *)
SecretAfterDeposit == revealed => HasConfs(depositAt)

(* Success means the sweep has its confirmations and the service was paid. *)
SuccessMeansSwapped == done = Tasks => HasConfs(sweptAt) /\ fund = "settled"

(* A recovery whose funding payment has ended returns.                     *)
RecoveryReturns ==
  (mode = "recovery" /\ fund \in {"settled", "failed"})
    ~> (~alive \/ failed \/ done = Tasks)

(* "FailedToReceiveSwapFundingConfirmationInTime": the sweep is started    *)
(* only while enough blocks are left to confirm it.                        *)
SweepStartsInTime ==
  [][sweeping' /\ ~sweeping => height + Confs <= Timeout]_vars

=============================================================================
