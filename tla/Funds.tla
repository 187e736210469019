-------------------------------- MODULE Funds --------------------------------
(***************************************************************************)
(* The commands that spend the coins of the wallet: `bos fund`             *)
(* (src/chain/fund_transaction.js), the split of coins                     *)
(* (src/chain/split_utxos.js) and the recovery of what was sent to a       *)
(* transit address (src/services/recover_transit_funds.js).                *)
(*                                                                         *)
(* The wallet of the node locks the coins of a transaction that it funds   *)
(* until they are spent or unlocked.  Coins arrive and leave while a       *)
(* command runs: what it read of the wallet is used all the same.          *)
(***************************************************************************)
EXTENDS Integers, FiniteSets, Functions

CONSTANTS
  Coins,         \* the coins that the wallet has or gets
  Value,         \* [Coins -> Nat]
  Pending,       \* coins that are not confirmed
  Late,          \* coins that are not there at first
  ChainFee,      \* the fee of a transaction
  Dust,          \* the least value of an output (293)
  MaxIndex,      \* transit keys tried in a recovery (20,000)
  Wishes         \* what users ask for

\* A recovery has no dry run
ASSUME WishesAssumption ==
  /\ IsFiniteSet(Coins) /\ Value \in [Coins -> Nat] /\ ChainFee \in Nat /\ Dust \in Nat
  /\ \A w \in Wishes :
       /\ w.name = "recover" => ~w.dry
       /\ w.amount \in Nat /\ w.count \in Nat /\ w.size \in Nat /\ w.given \subseteq Coins

VARIABLES
  wish,          \* the options of the command
  phase,         \* how far it is
  coin,          \* [Coins -> the state of the coin]
  read,          \* the coins read from the wallet
  picked,        \* the coins to spend, none for those the wallet selects
  funding,       \* the transaction that the wallet funded: inputs and what it pays
  published,     \* it may have reached the network
  result         \* what the user was told

fundsVars == <<wish, phase, coin, read, picked, funding, published, result>>

SumOf(cs) == FoldFunctionOnSet(+, 0, Value, cs)
NoFunding == [inputs |-> {}, pays |-> 0]

\* max: the amount is all that the coins allow; count, size: of a split; index: of
\* the transit key of a recovery, paysIt: the transaction given pays its address
NoWish == [name |-> "fund", amount |-> 0, max |-> FALSE, given |-> {}, select |-> FALSE,
           dry |-> FALSE, send |-> FALSE, count |-> 0, size |-> 0, confirmed |-> FALSE,
           index |-> 0, paysIt |-> TRUE]

FundsTypes ==
  /\ phase \in {"off", "start", "read", "picked", "fund", "sign", "signed", "unlocked",
                "found", "ended"}
  /\ coin \in [Coins -> {"absent", "free", "locked", "spent"}]
  /\ read \subseteq Coins /\ picked \subseteq Coins
  /\ funding.inputs \subseteq Coins /\ funding.pays \in Nat
  /\ published \in BOOLEAN /\ result \in {"none", "success", "error", "crash"}

Emptied ==
  /\ coin = [c \in Coins |-> IF c \in Late THEN "absent" ELSE "free"]
  /\ read = {} /\ picked = {} /\ funding = NoFunding /\ published = FALSE /\ result = "none"
Unwished == wish = NoWish /\ phase = "off" /\ Emptied
FundsInit == wish \in Wishes /\ phase = "start" /\ Emptied

Free == {c \in Coins : coin[c] = "free"}
Locked == {c \in Coins : coin[c] = "locked"}
To(p) == phase' = p /\ UNCHANGED result
Done(r) == phase' = "ended" /\ result' = r
SameCoins == UNCHANGED <<wish, coin, published>>

-----------------------------------------------------------------------------
(* bos fund                                                                *)

\* Options that contradict one another are refused before anything is read
FundRefused ==
  \/ wish.send /\ wish.dry
  \/ wish.given # {} /\ wish.select

ReadCoins ==
  /\ phase = "start" /\ wish.name \in {"fund", "split"}
  /\ \/ Done("error") /\ UNCHANGED read
     \/ IF FundRefused THEN Done("error") /\ UNCHANGED read
        ELSE To("read") /\ read' = Free
  /\ UNCHANGED <<picked, funding>> /\ SameCoins

\* Only confirmed coins are there to select from, and they must be enough
Selections ==
  {cs \in SUBSET (read \ Pending) : cs # {} /\ (wish.max \/ SumOf(cs) >= wish.amount)}

PickCoins ==
  /\ phase = "read" /\ wish.name = "fund"
  /\ IF ~wish.select THEN To("picked") /\ picked' = wish.given
     ELSE IF read \subseteq Pending THEN Done("error") /\ UNCHANGED picked
     ELSE \E cs \in Selections : To("picked") /\ picked' = cs
  /\ UNCHANGED <<read, funding>> /\ SameCoins

\* All the value of the coins, less the fee: they must be named and known
Pays == IF wish.max THEN SumOf(picked) - ChainFee ELSE wish.amount

SetAmounts ==
  /\ phase = "picked"
  /\ IF \/ wish.max /\ (picked = {} \/ ~(picked \subseteq read) \/ SumOf(picked) < ChainFee)
        \/ Pays < Dust
     THEN Done("error") ELSE To("fund")
  /\ UNCHANGED <<read, picked, funding>> /\ SameCoins

\* Mutant of MayFund: the wallet adds coins to those that are named
AddsCoins(cs) == picked \subseteq cs /\ cs \subseteq Free
\* The wallet spends the coins that are named, or selects confirmed ones
MayFund(cs) ==
  IF picked = {} THEN cs # {} /\ cs \subseteq Free \ Pending
  ELSE cs = picked /\ cs \subseteq Free

Fund ==
  /\ phase = "fund"
  /\ \/ /\ Done("error") /\ UNCHANGED <<funding, coin>>
     \/ \E cs \in SUBSET Free :
          /\ MayFund(cs) /\ SumOf(cs) >= Pays + ChainFee
          /\ funding' = [inputs |-> cs, pays |-> Pays]
          /\ coin' = [c \in Coins |-> IF c \in cs THEN "locked" ELSE coin[c]]
          /\ To("sign")
  /\ UNCHANGED <<wish, published, read, picked>>

\* An error here leaves the coins locked, in a dry run too
Sign ==
  /\ phase = "sign"
  /\ Done("error") \/ To("signed")
  /\ UNCHANGED <<read, picked, funding>> /\ SameCoins

\* Mutant of Unlocked: the coins of a dry run stay locked
StaysLocked(cs) == [c \in Coins |-> coin[c]]
Unlocked(cs) == [c \in Coins |-> IF c \in cs THEN "free" ELSE coin[c]]

\* A dry run unlocks every coin; some may fail
Unlock ==
  /\ phase = "signed"
  /\ IF wish.dry
     THEN \E cs \in SUBSET funding.inputs :
            /\ coin' = Unlocked(cs)
            /\ IF cs = funding.inputs THEN To("unlocked") ELSE Done("error")
     ELSE To("unlocked") /\ UNCHANGED coin
  /\ UNCHANGED <<wish, published, read, picked, funding>>

\* Every coin must be one that was read at the start: the wallet may have selected a
\* newer one.  A transaction that is sent may be taken though an error is the answer
Publish ==
  /\ phase = "unlocked"
  /\ IF ~(funding.inputs \subseteq read) THEN Done("error") /\ UNCHANGED <<coin, published>>
     ELSE IF ~wish.send THEN Done("success") /\ UNCHANGED <<coin, published>>
     ELSE \/ /\ coin' = [c \in Coins |-> IF c \in funding.inputs THEN "spent" ELSE coin[c]]
             /\ published' = TRUE /\ (Done("success") \/ Done("error"))
          \/ Done("error") /\ UNCHANGED <<coin, published>>
  /\ UNCHANGED <<wish, read, picked, funding>>

-----------------------------------------------------------------------------
(* The split                                                               *)

Large == {c \in read : Value[c] >= wish.size /\ (wish.confirmed => c \notin Pending)}
Enough == Cardinality(Large) > wish.count

\* One less than what is missing is made: none when one is missing, and when none is
\* missing the list of outputs has a length below zero, which stops the program
Outputs == IF Enough THEN 0 ELSE wish.count - Cardinality(Large) - 1

\* The wallet refuses to send to no address
Split ==
  /\ phase = "read" /\ wish.name = "split"
  /\ \/ Done("error") /\ UNCHANGED <<coin, published, funding>>
     \/ IF Outputs * wish.size > SumOf(read \ Pending)
        THEN Done("error") /\ UNCHANGED <<coin, published, funding>>
        ELSE IF wish.dry \/ Outputs <= 0
        THEN /\ Done(IF wish.dry THEN "success" ELSE IF Outputs = 0 THEN "error" ELSE "crash")
             /\ UNCHANGED <<coin, published, funding>>
        ELSE \E cs \in SUBSET (Free \ Pending) :
               /\ SumOf(cs) >= Outputs * wish.size + ChainFee
               /\ funding' = [inputs |-> cs, pays |-> Outputs * wish.size]
               /\ coin' = [c \in Coins |-> IF c \in cs THEN "spent" ELSE coin[c]]
               /\ published' = TRUE /\ (Done("success") \/ Done("error"))
  /\ UNCHANGED <<wish, read, picked>>

-----------------------------------------------------------------------------
(* The recovery of transit funds                                           *)

FindKey ==
  /\ phase = "start" /\ wish.name = "recover"
  /\ \/ Done("error")
     \/ wish.index < MaxIndex /\ wish.paysIt /\ To("found")
  /\ UNCHANGED <<read, picked, funding>> /\ SameCoins

\* All that was sent, less the fee, goes to a new address of the wallet: no transaction
\* pays less than nothing
RefundTransit ==
  /\ phase = "found"
  /\ \/ Done("error") /\ UNCHANGED <<funding, published>>
     \/ /\ wish.amount >= ChainFee
        /\ funding' = [NoFunding EXCEPT !.pays = wish.amount - ChainFee]
        /\ published' = TRUE /\ (Done("success") \/ Done("error"))
  /\ UNCHANGED <<wish, coin, read, picked>>

-----------------------------------------------------------------------------
(* The wallet: coins arrive, and others lock or spend them                 *)

CoinMoves ==
  /\ phase \in {"read", "picked", "fund", "sign", "signed"}
  /\ \E c \in Late : coin[c] = "absent" /\ coin' = [coin EXCEPT ![c] = "free"]
  /\ UNCHANGED <<wish, phase, read, picked, funding, published, result>>

CoinSpent ==
  /\ phase \in {"read", "picked", "fund"}
  /\ \E c \in Free : coin' = [coin EXCEPT ![c] = "spent"]
  /\ UNCHANGED <<wish, phase, read, picked, funding, published, result>>

FundsNext ==
  \/ ReadCoins \/ PickCoins \/ SetAmounts \/ Fund \/ Sign \/ Unlock \/ Publish
  \/ Split \/ FindKey \/ RefundTransit \/ CoinMoves \/ CoinSpent

-----------------------------------------------------------------------------
(* Properties                                                              *)

\* The transaction of a fund that is published pays the amount asked for, or all the
\* coins when it is "max", and spends the coins that the user named, or else coins that were
\* read, though coins arrive, are locked and are spent after that (fund_transaction.js:261).
\* The one of a split makes one output less than coins of the size are missing, of confirmed
\* coins (split_utxos.js:66), and the one of a recovery refunds all but the fee
PublishedAsAsked ==
  published =>
    /\ wish.name = "fund" =>
         /\ wish.given # {} => funding.inputs = wish.given
         /\ wish.max => funding.pays = SumOf(funding.inputs) - ChainFee
         /\ ~wish.max => funding.pays = wish.amount
         /\ funding.inputs \subseteq read
    /\ wish.name = "split" =>
         /\ funding.inputs \cap Pending = {}
         /\ \E made \in 1 .. wish.count :
              funding.pays = made * wish.size /\ made + Cardinality(Large) + 1 = wish.count
    /\ wish.name = "recover" => funding.pays + ChainFee = wish.amount

\* A dry run publishes nothing, and one that succeeds leaves no coin locked
\* (fund_transaction.js:305)
DryRunUnlocks ==
  wish.dry => ~published /\ (result = "success" => Locked = {})

\* What is published is what was asked for, and a dry run that succeeds leaves the coins as
\* they were.  Nothing is said of an error: one of the signature, the unlocking or the
\* publication leaves coins locked that are not spent, in a dry run too
FundedAsAsked == PublishedAsAsked /\ DryRunUnlocks
=============================================================================
