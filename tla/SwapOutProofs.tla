--------------------------- MODULE SwapOutProofs ---------------------------
(***************************************************************************)
(* For all heights, timeouts and numbers of confirmations: type            *)
(* correctness of the swap out, that a canceled swap is not paid, that     *)
(* only checked swaps are paid, and that the secret is published after the *)
(* deposit has its confirmations.                                          *)
(***************************************************************************)
EXTENDS SwapOut, TLAPS

\* The actions, by what they do to the graph of tasks
USE DEF Program, SetUp, Paying, Ending, User, Environment, chain, choices, graph,
        payments, program, vars

-----------------------------------------------------------------------------
(* A step of the graph: a task calls back, the program stops or recovers,  *)
(* or the graph stays as it is                                             *)

\* The tasks that may cancel the swap
Cancelers == {"execRoute", "multiRoutes", "fundRoutes", "sweepFee"}

\* The call of task t comes back
Returns(t) ==
  /\ Complete(t) \/ Fail(t)
  /\ t = "checkSwap" /\ mode = "real" => Fail(t) \/ logged'
  /\ t = "sweepFee" /\ mode = "dry" => Fail(t)
  /\ t = "deposit" => Fail(t) \/ HasConfs(depositAt)
  /\ t # "sweep" /\ (t = "fundPayment" => Fail(t) \/ fund = "settled")
  /\ canceled' # canceled =>
       Fail(t) /\ t \in Cancelers /\ (t = "sweepFee" => mode = "dry")
  /\ created' \in {created, TRUE} /\ logged' \in {logged, TRUE}
  /\ canceled' \in {canceled, TRUE}
  /\ UNCHANGED <<choices, height, depositAt, refunded, revealed, sweptAt>>

SweepsEnd ==
  /\ Running("sweep") /\ over' = over \cup {"sweep"} /\ sweeping' = FALSE
  /\ \/ done' = done \cup {"sweep"} /\ HasConfs(sweptAt) /\ UNCHANGED failed
     \/ UNCHANGED <<done, failed>>
     \/ failed' = TRUE /\ UNCHANGED done
  /\ UNCHANGED <<choices, logged, canceled, payments, chain>>

LEMMA SweepStep == ASSUME Sweep PROVE SweepsEnd
BY DEF Sweep, SweepsEnd

LEMMA GraphStep ==
  ASSUME TypeOK, [Next]_vars
  PROVE  \/ \E t \in Tasks : Returns(t)
         \/ SweepsEnd
         \/ Stop
         \/ Recover
         \/ AttemptSweep
         \/ Environment
         \/ UNCHANGED vars
<1> USE DEF TypeOK, ProgramTypes, EnvironmentTypes, Cancelers, Returns, CancelAndFail
<1>1. CASE \E t \in Tasks : Request(t)
  BY <1>1 DEF Request
<1>2. CASE InitiateSwap \/ CheckSwap
  <2>1. CASE InitiateSwap
    <3>1. Returns("create")
      BY <2>1 DEF InitiateSwap
    <3> QED BY <3>1 DEF Tasks
  <2>2. CASE CheckSwap
    <3>1. (logged \/ mode = "real") \in {logged, TRUE}
      OBVIOUS
    <3>2. mode = "real" => (logged \/ mode = "real") = TRUE
      OBVIOUS
    <3>3. logged' \in {logged, TRUE}
      BY <2>2, <3>1, Zenon DEF CheckSwap
    <3>4. mode = "real" => Fail("checkSwap") \/ logged'
      BY <2>2, <3>2 DEF CheckSwap
    <3>5. Complete("checkSwap") \/ Fail("checkSwap")
      BY <2>2 DEF CheckSwap
    <3>6. Returns("checkSwap")
      BY <2>2, <3>3, <3>4, <3>5 DEF CheckSwap
    <3> QED BY <3>6 DEF Tasks
  <2> QED BY <1>2, <2>1, <2>2
<1>3. CASE FindRouteForExecution \/ GetFundingRoutes \/ FindRoutesForFunding
  <2>1. Returns("execRoute") \/ Returns("multiRoutes") \/ Returns("fundRoutes")
    BY <1>3 DEF FindRouteForExecution, GetFundingRoutes, FindRoutesForFunding
  <2> HIDE DEF Returns
  <2> QED BY <2>1 DEF Tasks
<1>4. CASE GetMinSweepFee
  <2>1. Returns("sweepFee")
    BY <1>4 DEF GetMinSweepFee
  <2> QED BY <2>1 DEF Tasks
<1>5. CASE FindDeposit
  <2>1. Returns("deposit")
    BY <1>5 DEF FindDeposit
  <2> QED BY <2>1 DEF Tasks
<1>6. CASE Paying
  <2>1. Returns("payExec") \/ Returns("payFund") \/ Returns("multiPay")
    BY <1>6 DEF PayToFund, PayToExecute
  <2> HIDE DEF Returns
  <2> QED BY <2>1 DEF Tasks
<1>7. CASE Ending \/ TrackStatus
  <2>1. \/ Returns("fundPayment") \/ Returns("execPayment") \/ Returns("summary")
        \/ Returns("track")
    BY <1>7 DEF GetFundingPayment, GetExecutionPayment, Summary, TrackStatus
  <2> HIDE DEF Returns
  <2> QED BY <2>1 DEF Tasks
<1>8. CASE Sweep
  BY <1>8, SweepStep
<1> HIDE DEF TypeOK, Returns
<1> QED BY <1>1, <1>2, <1>3, <1>4, <1>5, <1>6, <1>7, <1>8 DEF Next

-----------------------------------------------------------------------------
(* Types                                                                   *)

LEMMA CallTypes ==
  ASSUME TypeOK, NEW t \in Tasks, Complete(t) \/ Fail(t)
  PROVE  /\ done' \subseteq over' /\ over' \subseteq Tasks
         /\ failed' \in BOOLEAN /\ sweeping' \in BOOLEAN
         /\ fund' \in {"none", "flight", "settled", "failed"}
         /\ exec' \in {"none", "flight", "settled", "failed"}
<1>1. CASE Fail(t) \/ (Complete(t) /\ failed)
  BY <1>1 DEF Fail, Complete, TypeOK, ProgramTypes, EnvironmentTypes
<1>2. CASE Complete(t) /\ ~failed
  <2> USE DEF TypeOK, ProgramTypes, EnvironmentTypes
  <2>1. Launch(done') /\ done' = done \cup {t} /\ over' = over \cup {t}
    BY <1>2 DEF Complete
  <2>2. /\ sweeping' \in BOOLEAN
        /\ fund' \in {fund, "flight"} /\ exec' \in {exec, "flight"}
    BY <2>1 DEF Launch
  <2> QED BY <1>2, <2>1, <2>2 DEF Complete
<1> QED BY <1>1, <1>2

LEMMA TypeStep == TypeOK /\ [Next]_vars => TypeOK'
<1> SUFFICES ASSUME TypeOK, [Next]_vars PROVE TypeOK'
  OBVIOUS
<1>1. ASSUME NEW t \in Tasks, Returns(t) PROVE TypeOK'
  <2>1. ProgramTypes'
    BY <1>1, CallTypes DEF Returns, TypeOK, ProgramTypes
  <2>2. EnvironmentTypes'
    BY <1>1, CallTypes DEF Returns, TypeOK, EnvironmentTypes
  <2> QED BY <2>1, <2>2 DEF TypeOK
<1>2. CASE SweepsEnd \/ Stop \/ Recover
  <2>1. ProgramTypes'
    BY <1>2 DEF SweepsEnd, Stop, Recover, Skipped, Tasks, TypeOK, ProgramTypes
  <2>2. EnvironmentTypes'
    BY <1>2 DEF SweepsEnd, Stop, Recover, TypeOK, EnvironmentTypes
  <2> QED BY <2>1, <2>2 DEF TypeOK
<1>3. CASE Environment \/ AttemptSweep \/ UNCHANGED vars
  <2>1. ProgramTypes'
    BY <1>3 DEF NewBlock, ServiceDeposits, SweepConfirms, ServiceRefunds,
      FundingEnds, ExecutionEnds, AttemptSweep, TypeOK, ProgramTypes
  <2>2. EnvironmentTypes'
    <3> USE DEF TypeOK, EnvironmentTypes
    <3>1. CASE NewBlock \/ ServiceDeposits \/ SweepConfirms
      BY <3>1 DEF NewBlock, ServiceDeposits, SweepConfirms
    <3>2. CASE ServiceRefunds \/ AttemptSweep \/ UNCHANGED vars
      BY <3>2 DEF ServiceRefunds, AttemptSweep
    <3>3. CASE FundingEnds \/ ExecutionEnds
      BY <3>3 DEF FundingEnds, ExecutionEnds
    <3> QED BY <1>3, <3>1, <3>2, <3>3
  <2> QED BY <2>1, <2>2 DEF TypeOK
<1> QED BY <1>1, <1>2, <1>3, GraphStep

LEMMA TypeInit == Init => TypeOK
<1>1. Init => ProgramTypes
  BY DEF Init, ProgramTypes, Tasks
<1>2. Init => EnvironmentTypes
  <2>1. StartHeight \in Nat /\ 0 \in 0 .. StartHeight
    BY HeightsAssumption
  <2> QED BY <2>1 DEF Init, EnvironmentTypes
<1> QED BY <1>1, <1>2 DEF TypeOK

(* The swap out keeps its state within the types of TypeOK, whatever calls *)
(* fail and however often it is stopped and recovered.                     *)
THEOREM TypeCorrect == Spec => []TypeOK
BY TypeInit, TypeStep, PTL DEF Spec

-----------------------------------------------------------------------------
(* What the tasks wait for                                                 *)

LEMMA NeedsFacts ==
  /\ \A t \in {"multiPay", "payFund", "payExec"} :
       Checked \subseteq Needs[t] /\ "sweepFee" \in Needs[t]
  /\ {"execRoute", "fundRoutes"} \subseteq Needs["sweepFee"]
  /\ "multiRoutes" \in Needs["fundRoutes"]
  /\ "deposit" \in Needs["sweep"] /\ {"multiPay", "payFund"} \subseteq Needs["fundPayment"]
  /\ \A t \in Skipped : Needs[t] \subseteq Skipped
BY DEF Needs, Unchecked, Tasks, Checked, Skipped

-----------------------------------------------------------------------------
(* The invariant                                                           *)

\* A result is there only with all the results its task waited for
Closed == \A t \in done : Needs[t] \subseteq done

\* A dry run stops at the sweep fee, a real one logs the secret with the check
ModesKept ==
  /\ mode = "dry" => "sweepFee" \notin done
  /\ mode = "real" /\ "checkSwap" \in done => logged
  /\ mode = "recovery" /\ alive => Skipped \subseteq over

Paid == fund # "none" \/ exec # "none"

\* After a cancelation this run starts nothing; before a payment every task that
\* may cancel has ended
CanceledStops == canceled => failed \/ ~alive \/ mode = "recovery"
PaidLast == Paid => ~alive \/ mode = "recovery" \/ Cancelers \subseteq done

\* What may be published waits for the deposit
DepositConfirmed == "deposit" \in done \/ sweeping \/ revealed => HasConfs(depositAt)

\* What the results of the sweep and of the payment say is so
ResultsTrue ==
  /\ "sweep" \in done => HasConfs(sweptAt)
  /\ "fundPayment" \in done => fund = "settled"

Inv ==
  /\ TypeOK
  /\ Closed
  /\ ModesKept
  /\ CanceledStops
  /\ PaidLast
  /\ CanceledNeverPaid
  /\ DepositConfirmed
  /\ ResultsTrue

LEMMA InvInit == Init => Inv
<1>1. Init => Closed /\ ModesKept /\ CanceledStops /\ PaidLast /\ CanceledNeverPaid
  BY DEF Init, Closed, ModesKept, CanceledStops, PaidLast, Paid, CanceledNeverPaid
<1>2. Init => DepositConfirmed /\ ResultsTrue
  BY DEF Init, DepositConfirmed, ResultsTrue
<1> QED BY <1>1, <1>2, TypeInit DEF Inv

LEMMA ClosedStep == Inv /\ [Next]_vars => Closed'
<1> SUFFICES ASSUME Inv, [Next]_vars PROVE Closed'
  OBVIOUS
<1> USE DEF Inv, Closed
<1>1. ASSUME NEW t \in Tasks, Returns(t) PROVE Closed'
  BY <1>1 DEF Returns, Complete, Fail, Running
<1>2. CASE SweepsEnd
  BY <1>2 DEF SweepsEnd, Running
<1>3. CASE Stop \/ Recover
  BY <1>3, NeedsFacts DEF Stop, Recover
<1>4. CASE AttemptSweep \/ Environment \/ UNCHANGED vars
  BY <1>4 DEF AttemptSweep, NewBlock, ServiceDeposits, SweepConfirms,
    ServiceRefunds, FundingEnds, ExecutionEnds
<1> QED BY <1>1, <1>2, <1>3, <1>4, GraphStep

LEMMA ResultStep ==
  ASSUME NEW t, Returns(t)
  PROVE  /\ done' = done \/ (done' = done \cup {t} /\ ~Fail(t))
         /\ over' = over \cup {t}
         /\ alive' = alive /\ mode' = mode
         /\ failed => failed'
         /\ Fail(t) => failed'
         /\ logged => logged'
<1>1. alive' = alive /\ mode' = mode /\ (logged => logged')
  <2>1. logged' = logged \/ logged' = TRUE
    BY DEF Returns
  <2> QED BY <2>1 DEF Returns
<1>2. CASE Fail(t)
  BY <1>1, <1>2 DEF Fail
<1>3. CASE Complete(t) /\ ~Fail(t) /\ failed
  BY <1>1, <1>3 DEF Complete
<1>4. CASE Complete(t) /\ ~Fail(t) /\ ~failed
  BY <1>1, <1>4 DEF Complete
<1> QED BY <1>2, <1>3, <1>4 DEF Returns

LEMMA ModesStep == Inv /\ [Next]_vars => ModesKept'
<1> SUFFICES ASSUME Inv, [Next]_vars PROVE ModesKept'
  OBVIOUS
<1> USE DEF Inv, ModesKept
<1>1. ASSUME NEW t \in Tasks, Returns(t) PROVE ModesKept'
  <2>1. /\ t = "checkSwap" /\ mode = "real" => Fail(t) \/ logged'
        /\ t = "sweepFee" /\ mode = "dry" => Fail(t)
    BY <1>1 DEF Returns
  <2> QED BY <1>1, <2>1, ResultStep
<1>2. CASE SweepsEnd
  BY <1>2 DEF SweepsEnd
<1>3. CASE Stop \/ Recover
  BY <1>3 DEF Stop, Recover
<1>4. CASE AttemptSweep \/ Environment \/ UNCHANGED vars
  BY <1>4 DEF AttemptSweep, NewBlock, ServiceDeposits, SweepConfirms,
    ServiceRefunds, FundingEnds, ExecutionEnds
<1> QED BY <1>1, <1>2, <1>3, <1>4, GraphStep

\* A payment starts as a task comes back, when all it waits for is there
LEMMA PaymentStarts ==
  ASSUME Inv, Closed', ModesKept', [Next]_vars,
         (fund = "none" /\ fund' # "none") \/ (exec = "none" /\ exec' # "none")
  PROVE  /\ mode = "real" /\ mode' = "real" /\ alive /\ ~failed
         /\ Checked \cup Cancelers \subseteq done'
         /\ logged'
<1>1. PICK t \in Tasks : Returns(t)
  <2>1. ~SweepsEnd /\ ~Stop /\ ~Recover /\ ~AttemptSweep
    BY DEF SweepsEnd, Stop, Recover, AttemptSweep
  <2>2. ~Environment /\ ~UNCHANGED vars
    BY DEF NewBlock, ServiceDeposits, SweepConfirms, ServiceRefunds, FundingEnds,
      ExecutionEnds
  <2> QED BY <2>1, <2>2, GraphStep DEF Inv
<1>2. Launch(done') /\ alive /\ ~failed /\ mode' = mode
  BY <1>1 DEF Returns, Complete, Fail, Running
<1>3. PICK p \in {"multiPay", "payFund", "payExec"} :
        p \in Ready(done') /\ mode # "recovery"
  BY <1>2 DEF Launch
<1>4. Needs[p] \subseteq done'
  BY <1>3 DEF Ready
<1>5. Checked \cup Cancelers \subseteq done'
  BY <1>4, NeedsFacts DEF Inv, Closed, Cancelers
<1>6. mode = "real"
  BY <1>2, <1>3, <1>5 DEF Inv, ModesKept, Cancelers, TypeOK, ProgramTypes
<1> QED BY <1>2, <1>5, <1>6 DEF Inv, ModesKept, Checked

LEMMA CanceledStep ==
  Inv /\ Closed' /\ ModesKept' /\ [Next]_vars
    => CanceledStops' /\ PaidLast' /\ CanceledNeverPaid'
<1> SUFFICES ASSUME Inv, Closed', ModesKept', [Next]_vars
             PROVE  CanceledStops' /\ PaidLast' /\ CanceledNeverPaid'
  OBVIOUS
<1> USE DEF Paid, CanceledNeverPaid
<1>1. CanceledStops'
  <2> USE DEF Inv, CanceledStops
  <2>1. ASSUME NEW t \in Tasks, Returns(t) PROVE CanceledStops'
    <3>1. canceled' => canceled \/ Fail(t)
      BY <2>1 DEF Returns
    <3> QED BY <2>1, <3>1, ResultStep
  <2>2. CASE SweepsEnd \/ Stop \/ Recover
    BY <2>2 DEF SweepsEnd, Stop, Recover
  <2>3. CASE AttemptSweep \/ Environment \/ UNCHANGED vars
    BY <2>3 DEF AttemptSweep, NewBlock, ServiceDeposits, SweepConfirms,
      ServiceRefunds, FundingEnds, ExecutionEnds
  <2> QED BY <2>1, <2>2, <2>3, GraphStep
<1>2. Paid' => Paid \/ (fund = "none" /\ fund' # "none") \/ (exec = "none" /\ exec' # "none")
  OBVIOUS
<1>3. PaidLast'
  <2>1. CASE ~Paid /\ Paid'
    BY <2>1, <1>2, PaymentStarts DEF PaidLast
  <2>2. CASE Paid
    <3> USE DEF Inv, PaidLast
    <3>1. ASSUME NEW t \in Tasks, Returns(t) PROVE PaidLast'
      BY <2>2, <3>1, ResultStep DEF Returns
    <3>2. CASE SweepsEnd \/ Stop \/ Recover
      BY <2>2, <3>2 DEF SweepsEnd, Stop, Recover
    <3>3. CASE AttemptSweep \/ Environment \/ UNCHANGED vars
      BY <2>2, <3>3 DEF AttemptSweep, NewBlock, ServiceDeposits, SweepConfirms,
        ServiceRefunds, FundingEnds, ExecutionEnds
    <3> QED BY <3>1, <3>2, <3>3, GraphStep
  <2> QED BY <2>1, <2>2 DEF PaidLast
<1>4. CanceledNeverPaid'
  <2>1. CASE canceled' /\ ~canceled
    <3>1. PICK t \in Tasks : Returns(t)
      BY <2>1, GraphStep DEF Inv, SweepsEnd, Stop, Recover, AttemptSweep, NewBlock,
        ServiceDeposits, SweepConfirms, ServiceRefunds, FundingEnds, ExecutionEnds
    <3>2. Fail(t) /\ t \in Cancelers /\ (t = "sweepFee" => mode = "dry")
      BY <2>1, <3>1 DEF Returns
    <3>3. t \notin over /\ alive /\ UNCHANGED <<fund, exec>>
      BY <3>2 DEF Fail, Running
    <3>4. t \notin done
      BY <3>3 DEF Inv, TypeOK, ProgramTypes
    <3>5. mode # "recovery"
      BY <3>2, <3>3 DEF Inv, ModesKept, Cancelers, Skipped
    <3>6. ~Paid
      BY <3>2, <3>3, <3>4, <3>5 DEF Inv, PaidLast
    <3> QED BY <3>3, <3>6
  <2>2. CASE canceled
    <3>1. ~Paid
      BY <2>2 DEF Inv
    <3>2. ~(alive /\ ~failed /\ mode = "real")
      BY <2>2 DEF Inv, CanceledStops
    <3>3. ~Paid'
      BY <3>1, <3>2, <1>2, PaymentStarts
    <3> QED BY <3>3
  <2> QED BY <2>1, <2>2
<1> QED BY <1>1, <1>3, <1>4

\* A transaction that has its confirmations keeps them
LEMMA StaysConfirmed ==
  ASSUME Inv, [Next]_vars
  PROVE  /\ HasConfs(depositAt) => HasConfs(depositAt)'
         /\ HasConfs(sweptAt) => HasConfs(sweptAt)'
<1>1. /\ height \in Nat /\ depositAt \in Nat /\ sweptAt \in Nat /\ Confs \in Nat
  BY HeightsAssumption DEF Inv, TypeOK, EnvironmentTypes
<1>2. /\ height' = height \/ height' = height + 1
      /\ depositAt # 0 => depositAt' = depositAt
      /\ sweptAt # 0 => sweptAt' = sweptAt
  BY GraphStep DEF Inv, Returns, SweepsEnd, Stop, Recover, AttemptSweep, NewBlock,
    ServiceDeposits, SweepConfirms, ServiceRefunds, FundingEnds, ExecutionEnds
<1>3. ASSUME depositAt # 0, height + 1 >= depositAt + Confs
      PROVE  depositAt' # 0 /\ height' + 1 >= depositAt' + Confs
  BY <1>1, <1>2, <1>3
<1>4. ASSUME sweptAt # 0, height + 1 >= sweptAt + Confs
      PROVE  sweptAt' # 0 /\ height' + 1 >= sweptAt' + Confs
  BY <1>1, <1>2, <1>4
<1> QED BY <1>3, <1>4 DEF HasConfs

LEMMA DepositStep == Inv /\ [Next]_vars => DepositConfirmed'
<1> SUFFICES ASSUME Inv, [Next]_vars PROVE DepositConfirmed'
  OBVIOUS
<1> USE DEF Inv, DepositConfirmed
<1>1. HasConfs(depositAt) => HasConfs(depositAt)'
  BY StaysConfirmed
<1>2. ASSUME NEW t \in Tasks, Returns(t) PROVE DepositConfirmed'
  <2>1. revealed' = revealed
    BY <1>2 DEF Returns
  <2>2. "deposit" \in done' => HasConfs(depositAt)
    <3>1. t = "deposit" => Fail(t) \/ HasConfs(depositAt)
      BY <1>2 DEF Returns
    <3> QED BY <1>2, <3>1, ResultStep
  <2>3. sweeping' => sweeping \/ "deposit" \in done'
    <3>1. CASE UNCHANGED sweeping
      BY <3>1
    <3>2. CASE ~UNCHANGED sweeping
      <4>1. Launch(done')
        <5>1. Complete(t)
          BY <1>2, <3>2 DEF Returns, Fail
        <5> QED BY <3>2, <5>1 DEF Complete
      <4>2. sweeping' => sweeping \/ "sweep" \in Ready(done')
        BY <4>1 DEF Launch
      <4> QED BY <4>2, NeedsFacts DEF Ready
    <3> QED BY <3>1, <3>2
  <2> QED BY <1>1, <2>1, <2>2, <2>3
<1>3. CASE SweepsEnd
  BY <1>1, <1>3 DEF SweepsEnd
<1>4. CASE Stop \/ Recover
  BY <1>1, <1>4 DEF Stop, Recover, Skipped
<1>5. CASE AttemptSweep \/ Environment \/ UNCHANGED vars
  BY <1>1, <1>5 DEF AttemptSweep, NewBlock, ServiceDeposits, SweepConfirms,
    ServiceRefunds, FundingEnds, ExecutionEnds
<1> QED BY <1>2, <1>3, <1>4, <1>5, GraphStep

\* A payment that has a result is not made again: it needed all that the task that pays
\* waits for, so this task started before
LEMMA ResultsStep == Inv /\ [Next]_vars => ResultsTrue'
<1> SUFFICES ASSUME Inv, [Next]_vars PROVE ResultsTrue'
  OBVIOUS
<1>1. /\ HasConfs(sweptAt) => HasConfs(sweptAt)'
      /\ "sweep" \in done => HasConfs(sweptAt)
      /\ "fundPayment" \in done => fund = "settled"
  BY StaysConfirmed DEF Inv, ResultsTrue
<1>2. ASSUME NEW t \in Tasks, Returns(t) PROVE ResultsTrue'
  <2>1. "sweep" \in done' => "sweep" \in done
    <3>1. t # "sweep"
      BY <1>2 DEF Returns
    <3> QED BY <1>2, <3>1, ResultStep
  <2>2. "fundPayment" \in done' => fund = "settled"
    <3>1. t = "fundPayment" => Fail(t) \/ fund = "settled"
      BY <1>2 DEF Returns
    <3> QED BY <1>1, <1>2, <3>1, ResultStep
  <2>3. "fundPayment" \in done' => fund' = fund
    <3>1. CASE UNCHANGED fund
      BY <3>1
    <3>2. CASE ~UNCHANGED fund
      <4>1. Complete(t) /\ ~failed /\ done' = done \cup {t} /\ Launch(done')
        BY <1>2, <3>2 DEF Returns, Fail, Complete
      <4>2. CASE t = "fundPayment"
        <5>1. {"multiPay", "payFund"} \subseteq done
          BY <4>1, <4>2, NeedsFacts DEF Complete, Running
        <5>2. {"multiPay", "payFund"} \subseteq Ready(done)
          BY <5>1 DEF Inv, Closed, Ready, Tasks
        <5>3. fund' = fund
          BY <4>1, <5>2 DEF Launch
        <5> QED BY <5>3
      <4>3. CASE "fundPayment" \in done
        <5>1. {"multiPay", "payFund"} \subseteq done
          BY <4>3, NeedsFacts DEF Inv, Closed
        <5>2. {"multiPay", "payFund"} \subseteq Ready(done)
          BY <5>1 DEF Inv, Closed, Ready, Tasks
        <5>3. fund' = fund
          BY <4>1, <5>2 DEF Launch
        <5> QED BY <5>3
      <4> QED BY <4>1, <4>2, <4>3
    <3> QED BY <3>1, <3>2
  <2> QED BY <1>1, <2>1, <2>2, <2>3 DEF ResultsTrue
<1>3. CASE SweepsEnd
  BY <1>1, <1>3 DEF SweepsEnd, ResultsTrue
<1>4. CASE Stop \/ Recover
  BY <1>4 DEF Stop, Recover, Skipped, ResultsTrue
<1>5. CASE AttemptSweep \/ Environment \/ UNCHANGED vars
  BY <1>1, <1>5 DEF AttemptSweep, NewBlock, ServiceDeposits, SweepConfirms,
    ServiceRefunds, FundingEnds, ExecutionEnds, ResultsTrue
<1> QED BY <1>2, <1>3, <1>4, <1>5, GraphStep DEF Inv

LEMMA InvStep == Inv /\ [Next]_vars => Inv'
BY TypeStep, ClosedStep, ModesStep, CanceledStep, DepositStep, ResultsStep DEF Inv

-----------------------------------------------------------------------------

(* A swap that was canceled at the service is not paid, and a paid one is  *)
(* not canceled, although the graph goes on after errors and is recovered. *)
THEOREM CanceledUnpaid == Spec => []CanceledNeverPaid
<1>1. Inv => CanceledNeverPaid
  BY DEF Inv
<1> QED BY <1>1, InvInit, InvStep, PTL DEF Spec

(* No sweep reveals the secret before the deposit has its confirmations,   *)
(* in a first run or in a recovery.                                        *)
THEOREM SecretKept == Spec => []SecretAfterDeposit
<1>1. Inv => SecretAfterDeposit
  BY DEF Inv, DepositConfirmed, SecretAfterDeposit
<1> QED BY <1>1, InvInit, InvStep, PTL DEF Spec

(* A payment is started by a real run only, after its amounts and timing   *)
(* were checked and its secret was logged.                                 *)
THEOREM ChecksFirst == Spec => PaysOnlyChecked
<1>1. Inv /\ Inv' /\ [Next]_vars
        => [(fund = "none" /\ fund' # "none") \/ (exec = "none" /\ exec' # "none")
              => mode = "real" /\ logged' /\ Checked \subseteq done']_vars
  BY PaymentStarts DEF Inv
<1> QED BY <1>1, InvInit, InvStep, PTL DEF Spec, PaysOnlyChecked

(* Success is told of a swap whose sweep has its confirmations and whose   *)
(* funding payment settled, in a first run or in a recovery.               *)
THEOREM SuccessSwapped == Spec => []SuccessMeansSwapped
<1>1. Inv => SuccessMeansSwapped
  BY DEF Inv, ResultsTrue, SuccessMeansSwapped, Tasks
<1> QED BY <1>1, InvInit, InvStep, PTL DEF Spec
=============================================================================
