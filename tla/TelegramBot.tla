---------------------------- MODULE TelegramBot -----------------------------
(***************************************************************************)
(* `bos telegram`: the bot that tells its user what happens at the nodes   *)
(* (src/telegram/connect_to_telegram.js over run_telegram_bot.js and       *)
(* start_telegram_bot.js).                                                 *)
(*                                                                         *)
(* A run subscribes to the updates of every node and polls for forwards.   *)
(* The first error ends it; after a delay another run starts.  A poll that *)
(* waits for its answer outlives its run, and so do a backup that is to be *)
(* posted and the record of a transaction that is read.                    *)
(*                                                                         *)
(* To tell the user is to send a message: one that fails is not repeated.  *)
(***************************************************************************)
EXTENDS Naturals, FiniteSets, Functions

CONSTANTS
  Nodes,         \* the nodes of the bot
  Forwards,      \* forwards, each through one of the nodes
  Through,       \* [Forwards -> Nodes]
  Small,         \* forwards below the least that is told
  Updates,       \* other updates
  UpdateKind,    \* [Updates -> the kind]
  Trades,        \* trades with a price, which nodes tell every run of
  Txs,           \* transactions, each of the wallet of one of the nodes
  NoLocktimeId,  \* [Txs -> the id that it has at its node but for its locktime]
  Bots,          \* how bots are started: whether the user is known, and what happens
                 \* then (a bound: forwards, updates, trades, transactions,
                 \* which have their "raw" bytes or not, backups, outages of nodes)
  Runs,          \* bound on the runs
  LastTime       \* bound on the clock

ASSUME TellsAssumption ==
  /\ Runs \in Nat /\ LastTime \in Nat \ {0}
  /\ Through \in [Forwards -> Nodes] /\ Small \subseteq Forwards
  /\ Updates \cap Trades = {}

VARIABLES
  bot,           \* how the bot is started
  run,           \* the run, 0 before the first
  state,         \* how far the run is
  reachable,     \* nodes that answer
  online,        \* nodes that answered when the last run ended
  offline,       \* nodes that the user was told are offline, by the last run
  now,           \* the time
  forwardAt,     \* [Forwards -> when it was, 0 for not yet]
  poll,          \* [1 .. Runs -> [Nodes -> the loop that polls]]
  handed,        \* [Forwards -> how often it was handed on to be told]
  happened,      \* updates there were
  trades,        \* the trades there are
  earlier,       \* those that were made before the run began to serve trades
  begun,         \* those that the run was told of
  posted,        \* [Updates \cup Trades -> how often the user was told of it]
  mined,         \* transactions that nodes told to be confirmed
  heard,         \* [1 .. Runs -> the transactions that the run was told of]
  alike,         \* [1 .. Runs -> the ids without locktime of those told as pending]
  reading,       \* tellings of transactions whose record is read
  told,          \* [Tellings -> how often the user was told of it]
  backup,        \* the last backup of the node
  waiting,       \* [1 .. Runs -> the backup that is to be posted, 0 for none]
  copy           \* the backup that was posted last

chainTxs == <<mined, heard, alike, reading, told>>
dealt == <<trades, earlier, begun>>
telegram == <<bot, run, state, reachable, online, offline, now, forwardAt, poll, handed,
              happened, posted, backup, waiting, copy, dealt, chainTxs>>
telling == <<poll, handed, posted, waiting, copy, dealt, chainTxs>>
world == <<now, forwardAt, happened, backup>>

\* What a run tells of a transaction: that it is pending, or confirmed
Tellings == (1 .. Runs) \X Txs \X BOOLEAN

\* "start": the nodes are read; "ask": the user is asked for the connect code;
\* "up": the user is told of updates; "ended", "offline": a run is over
States == {"off", "between", "start", "ask", "up", "ended", "crashed"}
NoPoll == [at |-> "off", start |-> 0, after |-> 0, before |-> 0]

TxTypes ==
  /\ mined \subseteq Txs /\ heard \in [1 .. Runs -> SUBSET Txs] /\ DOMAIN alike = 1 .. Runs
  /\ reading \subseteq Tellings /\ told \in [Tellings -> Nat]

TelegramTypes ==
  /\ run \in 0 .. Runs /\ state \in States /\ now \in 1 .. LastTime
  /\ reachable \subseteq Nodes /\ online \subseteq Nodes /\ offline \subseteq Nodes
  /\ forwardAt \in [Forwards -> 0 .. LastTime] /\ handed \in [Forwards -> Nat]
  /\ \A r \in 1 .. Runs, n \in Nodes :
       /\ poll[r][n].at \in {"off", "poll", "asked", "wait"}
       /\ poll[r][n].after \in 0 .. LastTime
  /\ happened \subseteq Updates /\ posted \in [Updates \cup Trades -> Nat]
  /\ trades \subseteq Trades /\ earlier \subseteq Trades /\ begun \subseteq Trades
  /\ backup \in Nat /\ waiting \in [1 .. Runs -> Nat] /\ copy \in Nat
  /\ TxTypes

Silent ==
  /\ run = 0 /\ reachable = Nodes /\ online = Nodes /\ offline = {} /\ now = 1
  /\ forwardAt = [f \in Forwards |-> 0] /\ poll = [r \in 1 .. Runs |-> [n \in Nodes |-> NoPoll]]
  /\ handed = [f \in Forwards |-> 0] /\ happened = {}
  /\ posted = [u \in Updates \cup Trades |-> 0] /\ trades = {} /\ earlier = {} /\ begun = {}
  /\ mined = {} /\ heard = [r \in 1 .. Runs |-> {}] /\ alike = [r \in 1 .. Runs |-> {}]
  /\ reading = {} /\ told = [e \in Tellings |-> 0] /\ backup = 0
  /\ waiting = [r \in 1 .. Runs |-> 0] /\ copy = 0
NoBot == state = "off" /\ bot = [user |-> TRUE, happens |-> {}] /\ Silent
\* The nodes are all there when the bot is started
TelegramInit == state = "between" /\ bot \in Bots /\ Silent

Becomes(s) == state' = s

-----------------------------------------------------------------------------
(* The life of a run                                                       *)

\* The delay before a run is longer than a backup waits to be posted
StartRun ==
  /\ state = "between" /\ run < Runs /\ run' = run + 1
  /\ waiting = [r \in 1 .. Runs |-> 0]
  /\ \/ Becomes("start")
     \/ Becomes("crashed")      \* the credentials cannot be read: the command ends
  /\ UNCHANGED <<bot, reachable, online, offline>> /\ UNCHANGED telling /\ UNCHANGED world

\* The run polls and listens from now on
Listens ==
  /\ poll' = [poll EXCEPT ![run] = [n \in Nodes |->
               [NoPoll EXCEPT !.at = "poll", !.start = now, !.after = now]]]
  /\ earlier' = trades /\ begun' = {}

\* The handlers of commands are set up in the first run.  The user is asked for the
\* connect code in every run when it is not an argument
GetNodes ==
  /\ state = "start"
  /\ Becomes(IF reachable # Nodes THEN "ended" ELSE IF bot.user THEN "up" ELSE "ask")
  /\ IF state' = "up" THEN Listens ELSE UNCHANGED <<poll, earlier, begun>>
  /\ UNCHANGED <<bot, run, reachable, online, offline, handed, posted, waiting, copy, trades>>
  /\ UNCHANGED chainTxs /\ UNCHANGED world

AskUser ==
  /\ state = "ask" /\ Becomes("up") /\ Listens
  /\ UNCHANGED <<bot, run, reachable, online, offline, handed, posted, waiting, copy, trades>>
  /\ UNCHANGED chainTxs /\ UNCHANGED world

\* An error of a subscription, of the commands that are set, or of the message that
\* the nodes are online ends the run
RunFails ==
  /\ state \in {"start", "ask", "up"} /\ Becomes("ended")
  /\ UNCHANGED <<bot, run, reachable, online, offline>> /\ UNCHANGED telling /\ UNCHANGED world

\* Nodes that do not answer now and did when the last run ended are told to be
\* offline
PostOffline ==
  /\ state = "ended"
  /\ online' = reachable /\ offline' = online \ reachable
  /\ Becomes("between")
  /\ UNCHANGED <<bot, run, reachable>> /\ UNCHANGED telling /\ UNCHANGED world

Reachable ==
  /\ "outages" \in bot.happens /\ state \in {"start", "up", "ended", "between"}
  /\ \E n \in Nodes : reachable' \in {reachable \ {n}, reachable \cup {n}} \ {reachable}
  /\ UNCHANGED <<bot, run, state, online, offline>> /\ UNCHANGED telling /\ UNCHANGED world

-----------------------------------------------------------------------------
(* The poll for forwards                                                   *)

Life == <<bot, run, state, reachable, online, offline>>
NotPolling ==
  /\ UNCHANGED <<posted, waiting, copy>> /\ UNCHANGED dealt /\ UNCHANGED chainTxs
  /\ UNCHANGED world /\ UNCHANGED Life

\* A loop stops when its run is over; the forwards from its cursor until now are
\* asked for
AskForwards(r, n) ==
  /\ "forwards" \in bot.happens /\ poll[r][n].at = "poll"
  /\ poll' = [poll EXCEPT ![r][n] =
       IF r = run /\ state = "up" THEN [@ EXCEPT !.at = "asked", !.before = now]
       ELSE [@ EXCEPT !.at = "off"]]
  /\ UNCHANGED handed /\ NotPolling

Between(n, from, to) ==
  {f \in Forwards : Through[f] = n /\ forwardAt[f] # 0 /\ forwardAt[f] >= from /\ forwardAt[f] < to}

\* Mutant of Cursor: the time of the answer is where the next poll starts
AnswerTime(p) == now
Cursor(p) == p.before

\* Errors are ignored, and the same time is asked for again; the cursor moves on before
\* the forwards are told, and a message that fails is only logged
ForwardsAnswer(r, n) ==
  /\ poll[r][n].at = "asked"
  /\ \/ poll' = [poll EXCEPT ![r][n].at = "wait"] /\ UNCHANGED handed
     \/ LET p == poll[r][n]
            found == Between(n, p.after, p.before) \ Small IN
          /\ poll' = [poll EXCEPT ![r][n] = [p EXCEPT !.at = "wait", !.after = Cursor(p)]]
          /\ handed' = [f \in Forwards |-> IF f \in found THEN handed[f] + 1 ELSE handed[f]]
  /\ NotPolling

PollAgain(r, n) ==
  /\ poll[r][n].at = "wait" /\ poll' = [poll EXCEPT ![r][n].at = "poll"]
  /\ UNCHANGED handed /\ NotPolling

-----------------------------------------------------------------------------
(* The subscriptions                                                       *)

\* Mutant of Listening: the listeners of runs that are over are not removed
NeverRemoved == {r \in 1 .. run : poll[r] # [n \in Nodes |-> NoPoll]}
\* Only a run that is up listens: its end removes the listeners
Listening == IF state = "up" THEN {run} ELSE {}

\* Channels opened and closed, pending channels, invoices, payments and settled trades:
\* subscriptions tell of new ones only, each once.  Payments to the node itself are not
\* told
Told(u) == UpdateKind[u] # "rebalance"

Update ==
  /\ "updates" \in bot.happens /\ state \in {"up", "ended", "between"}
  /\ \E u \in Updates \ happened :
       /\ happened' = happened \cup {u}
       /\ posted' = [posted EXCEPT ![u] =
            IF Told(u) THEN @ + Cardinality(Listening) ELSE @]
  /\ UNCHANGED <<poll, handed, waiting, copy, now, forwardAt, backup>> /\ UNCHANGED dealt
  /\ UNCHANGED chainTxs /\ UNCHANGED Life

TradeMade ==
  /\ "trades" \in bot.happens
  /\ \E u \in Trades \ trades : trades' = trades \cup {u}
  /\ UNCHANGED <<poll, handed, posted, waiting, copy, earlier, begun>> /\ UNCHANGED chainTxs
  /\ UNCHANGED world /\ UNCHANGED Life

\* Mutant of Older: trades are told of by every run
NeverOlder(u) == FALSE
\* Every run is told of the trades that are open, and tells of those made since it began
Older(u) == u \in earlier

TradeStarts ==
  /\ Listening # {}
  /\ \E u \in trades \ begun :
       /\ begun' = begun \cup {u}
       /\ posted' = [posted EXCEPT ![u] = IF Older(u) THEN @ ELSE @ + 1]
  /\ UNCHANGED <<poll, handed, waiting, copy, trades, earlier>> /\ UNCHANGED chainTxs
  /\ UNCHANGED world /\ UNCHANGED Life

-----------------------------------------------------------------------------
(* The transactions of the nodes                                           *)

\* Mutant of NotSeen: every event of a transaction is told
AnyEvent(r, x, confirmed) == TRUE
\* A pending transaction is passed over when the run was told of it, a confirmed one never
NotSeen(r, x, confirmed) == confirmed \/ x \notin heard[r]

\* Without the raw bytes nothing is known but the id of the transaction
Lockless(x) == IF "raw" \in bot.happens THEN {NoLocktimeId[x]} ELSE {}

\* Mutant of NotAlike: only the id decides
AnyLocktime(r, x, confirmed) == TRUE
\* Nor is a pending one told when one was that is the same but for its locktime
NotAlike(r, x, confirmed) == confirmed \/ Lockless(x) \cap alike[r] = {}

\* A node tells of a pending transaction again and again, and once when it is confirmed
Transaction ==
  /\ "transactions" \in bot.happens
  /\ \E x \in Txs \ mined, confirmed \in BOOLEAN :
       LET hear == {r \in Listening : NotSeen(r, x, confirmed)} IN
         /\ mined' = IF confirmed THEN mined \cup {x} ELSE mined
         /\ heard' = [r \in 1 .. Runs |-> IF r \in hear THEN heard[r] \cup {x} ELSE heard[r]]
         /\ alike' = [r \in 1 .. Runs |-> IF r \in hear /\ ~confirmed
                                         THEN alike[r] \cup Lockless(x) ELSE alike[r]]
         /\ reading' = reading \cup
              {<<r, x, confirmed>> : r \in {q \in hear : NotAlike(q, x, confirmed)}}
  /\ UNCHANGED <<poll, handed, posted, waiting, copy, told>> /\ UNCHANGED dealt
  /\ UNCHANGED world /\ UNCHANGED Life

\* The handler goes on though its run is over.  A transaction that has no record is not
\* told of; a record that cannot be read, or a message that fails, ends the run
RecordAnswers ==
  /\ \E e \in reading :
       /\ reading' = reading \ {e}
       /\ \/ UNCHANGED <<told, state>>
          \/ told' = [told EXCEPT ![e] = @ + 1] /\ UNCHANGED state
          \/ /\ UNCHANGED told \/ told' = [told EXCEPT ![e] = @ + 1]
             /\ Becomes(IF e[1] = run /\ state = "up" THEN "ended" ELSE state)
  /\ UNCHANGED <<poll, handed, posted, waiting, copy, mined, heard, alike>> /\ UNCHANGED dealt
  /\ UNCHANGED world /\ UNCHANGED <<bot, run, reachable, online, offline>>

-----------------------------------------------------------------------------
(* The backups                                                             *)

\* A backup waits to be posted, and takes the place of one that waits.  What changes
\* between two runs is not posted
Backup ==
  /\ "backups" \in bot.happens /\ backup < 1 + Runs /\ backup' = backup + 1
  /\ waiting' = [r \in 1 .. Runs |-> IF r \in Listening THEN backup + 1 ELSE waiting[r]]
  /\ UNCHANGED <<poll, handed, posted, happened, copy, now, forwardAt>> /\ UNCHANGED dealt
  /\ UNCHANGED chainTxs /\ UNCHANGED Life

PostBackup ==
  /\ \E r \in 1 .. Runs :
       /\ waiting[r] # 0 /\ copy' = waiting[r]
       /\ waiting' = [waiting EXCEPT ![r] = 0]
  /\ UNCHANGED <<poll, handed, posted>> /\ UNCHANGED dealt /\ UNCHANGED chainTxs
  /\ UNCHANGED world /\ UNCHANGED Life

-----------------------------------------------------------------------------

\* The clock goes on, a forward happens
Tick ==
  /\ "forwards" \in bot.happens /\ now < LastTime /\ now' = now + 1
  /\ UNCHANGED <<forwardAt, happened, backup>> /\ UNCHANGED telling /\ UNCHANGED Life

Forward ==
  /\ "forwards" \in bot.happens
  /\ \E f \in Forwards : /\ forwardAt[f] = 0 /\ forwardAt' = [forwardAt EXCEPT ![f] = now]
  /\ UNCHANGED <<now, happened, backup>> /\ UNCHANGED telling /\ UNCHANGED Life

TelegramNext ==
  \/ StartRun \/ GetNodes \/ AskUser \/ RunFails \/ PostOffline \/ Reachable
  \/ \E r \in 1 .. Runs, n \in Nodes :
       AskForwards(r, n) \/ ForwardsAnswer(r, n) \/ PollAgain(r, n)
  \/ Update \/ TradeMade \/ TradeStarts \/ Transaction \/ RecordAnswers
  \/ Backup \/ PostBackup \/ Tick \/ Forward

-----------------------------------------------------------------------------
(* Properties                                                              *)

Covered(f) ==
  {r \in 1 .. Runs : LET p == poll[r][Through[f]] IN
     forwardAt[f] # 0 /\ forwardAt[f] >= p.start /\ forwardAt[f] < p.after}

\* A forward is handed on to be told once if a run polled for the time that it was in,
\* and else never, though polls fail, are answered late and outlive their run
\* (start_telegram_bot.js:941)
ForwardsHanded ==
  /\ \A f \in Forwards \ Small : handed[f] = Cardinality(Covered(f)) /\ handed[f] <= 1
  /\ \A f \in Small : handed[f] = 0

\* A transaction is told of once at most by a run as pending, though its node tells of it
\* again, and then no other that is the same but for its locktime; as confirmed it is told
\* of once at most by all the runs, though records are read in parallel and outlive their
\* run (start_telegram_bot.js:1205)
TransactionsTold ==
  /\ \A e \in Tellings : told[e] <= 1
  /\ \A d, e \in Tellings :
       /\ told[d] > 0 /\ told[e] > 0
       /\ \/ d[2] = e[2] /\ d[3] /\ e[3]
          \/ d[1] = e[1] /\ ~d[3] /\ ~e[3] /\ Lockless(d[2]) \cap Lockless(e[2]) # {}
       => d = e

\* Another update is told once at most, though the runs before it are over
\* (start_telegram_bot.js:1283), and so is a trade, though nodes tell every run of it
\* (start_telegram_bot.js:1156).  The backup that is posted is never an older one
ToldByBot ==
  /\ ForwardsHanded /\ TransactionsTold
  /\ \A u \in Updates \cup Trades : posted[u] <= 1
  /\ \A r \in 1 .. Runs : waiting[r] # 0 => waiting[r] > copy
=============================================================================
