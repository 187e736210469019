------------------------------ MODULE Triggers ------------------------------
(***************************************************************************)
(* `bos triggers`: triggers are invoices whose description says what to    *)
(* follow (src/triggers/manage_triggers.js, get_triggers.js).  A           *)
(* listener (subscribe_to_triggers.js) reads the past ones page by page,   *)
(* is told of new ones, watches each for its cancelation and tells of the  *)
(* new channels of the nodes that are followed.                            *)
(*                                                                         *)
(* What is read or told was true when the node answered: a trigger may be  *)
(* canceled before it is registered.                                       *)
(***************************************************************************)
EXTENDS Naturals, FiniteSets

CONSTANTS
  Lnds,          \* the nodes of the listener
  Indexes,       \* the triggers, 1 .. n in the order they are made
  Home,          \* [Indexes -> Lnds]: the node that has the invoice
  PageSize,      \* triggers in a page (100 at first)
  NewChannels,   \* channels of the node that every trigger follows
  OpenedAt,      \* [NewChannels -> the height of a channel]
  LowHeight, HighHeight

ASSUME TriggersAssumption ==
  /\ Indexes = 1 .. Cardinality(Indexes) /\ IsFiniteSet(Indexes)
  /\ PageSize \in Nat \ {0} /\ OpenedAt \in [NewChannels -> Nat]
  /\ LowHeight \in Nat \ {0} /\ HighHeight \in Nat /\ LowHeight <= HighHeight

VARIABLES
  following,     \* the listener runs
  invoices,      \* [Indexes -> "absent", "open" or "canceled"]
  height,        \* the height of the chain
  startHeight,   \* [Lnds -> the height that was read, 0 for not yet]
  token,         \* [Lnds -> the index to go on from, or "start" or "done"]
  page,          \* [Lnds -> the page that is read: "none", or the triggers in it]
  announced,     \* new invoices that the listener was not told of yet
  triggers,      \* the triggers that are registered
  watchers,      \* [Indexes -> the subscriptions to the invoice]
  channels,      \* the channels that were told of
  tellings       \* [NewChannels -> how often it was told of]

listener == <<startHeight, token, page, announced, triggers, watchers, channels, tellings>>
triggered == <<following, invoices, height, startHeight, token, page, announced,
               triggers, watchers, channels, tellings>>

NoPage == {0}
TriggersTypes ==
  /\ following \in {"off", "on", "failed"}
  /\ invoices \in [Indexes -> {"absent", "open", "canceled"}]
  /\ height \in LowHeight .. HighHeight
  /\ startHeight \in [Lnds -> (LowHeight .. HighHeight) \cup {0}]
  /\ triggers \subseteq Indexes /\ announced \subseteq Indexes
  /\ page \in [Lnds -> SUBSET (Indexes \cup {0})]
  /\ token \in [Lnds -> Nat]
  /\ channels \subseteq NewChannels
  /\ watchers \in [Indexes -> Nat] /\ tellings \in [NewChannels -> Nat]

Start == 1 + Cardinality(Indexes)   \* above every index
Done == 0

NothingHeard ==
  /\ height = LowHeight
  /\ startHeight = [l \in Lnds |-> 0] /\ token = [l \in Lnds |-> Start]
  /\ page = [l \in Lnds |-> NoPage] /\ announced = {} /\ triggers = {}
  /\ watchers = [i \in Indexes |-> 0] /\ channels = {}
  /\ tellings = [c \in NewChannels |-> 0]
NotFollowing == following = "off" /\ invoices = [i \in Indexes |-> "absent"] /\ NothingHeard

\* Some triggers are there when the listener starts
TriggersInit ==
  /\ following = "on" /\ NothingHeard
  /\ \E n \in 0 .. Cardinality(Indexes) :
       invoices \in [Indexes -> {"absent", "open", "canceled"}]
         /\ \A i \in Indexes : (invoices[i] = "absent") <=> (i > n)

On == following = "on"

-----------------------------------------------------------------------------
(* Other commands add and delete triggers                                  *)

\* The triggers that a command or a page lists
Open == {i \in Indexes : invoices[i] = "open"}

\* Triggers are made one after another; the listener is told some time later
CreateTrigger ==
  /\ On
  /\ \E i \in Indexes :
       /\ invoices[i] = "absent" /\ \A j \in Indexes : j < i => invoices[j] # "absent"
       /\ invoices' = [invoices EXCEPT ![i] = "open"]
       /\ announced' = announced \cup {i}
  /\ UNCHANGED <<following, height, startHeight, token, page, triggers, watchers,
                 channels, tellings>>

\* The user chooses from a list that was read before: the trigger may be gone by now
DeleteTrigger ==
  /\ On
  /\ \E i \in Indexes :
       /\ invoices[i] # "absent"
       /\ invoices' = [invoices EXCEPT ![i] = "canceled"]
  /\ UNCHANGED <<following, height>> /\ UNCHANGED listener

\* The node cancels an invoice that expires
TriggerExpires ==
  /\ On
  /\ \E i \in Open : invoices' = [invoices EXCEPT ![i] = "canceled"]
  /\ UNCHANGED <<following, height>> /\ UNCHANGED listener

-----------------------------------------------------------------------------
(* The listener registers the triggers                                     *)

\* Mutant of Watched: an invoice that is canceled already is not subscribed to
WatchedIfOpen(is) ==
  [i \in Indexes |-> IF i \in is \cap Open THEN watchers[i] + 1 ELSE watchers[i]]
Watched(is) == [i \in Indexes |-> IF i \in is THEN watchers[i] + 1 ELSE watchers[i]]

Register(is) == triggers' = triggers \cup is /\ watchers' = Watched(is)

\* The node answers with a page of the open invoices below the token, newest first
ReadPage(l) ==
  /\ On /\ token[l] # Done /\ page[l] = NoPage
  /\ LET older == {i \in Indexes : Home[i] = l /\ i < token[l]} \cap Open IN
       page' = [page EXCEPT ![l] =
                  {i \in older : Cardinality({j \in older : j > i}) < PageSize}]
  /\ UNCHANGED <<following, invoices, height, startHeight, token, announced, triggers,
                 watchers, channels, tellings>>

\* Its triggers are registered when the answer is there
PageDone(l) ==
  /\ On /\ page[l] # NoPage
  /\ Register(page[l])
  /\ page' = [page EXCEPT ![l] = NoPage]
  /\ token' = [token EXCEPT ![l] =
       IF Cardinality(page[l]) < PageSize THEN Done
       ELSE CHOOSE i \in page[l] : \A j \in page[l] : i <= j]
  /\ UNCHANGED <<following, invoices, height, startHeight, announced, channels, tellings>>

\* An invoice that the listener is told of may be in a page as well
InvoiceAdded ==
  /\ On
  /\ \E i \in announced : announced' = announced \ {i} /\ Register({i})
  /\ UNCHANGED <<following, invoices, height, startHeight, token, page, channels,
                 tellings>>

\* A subscription to an invoice tells its state first, then what becomes of it
InvoiceCanceled ==
  /\ On
  /\ \E i \in Indexes :
       /\ invoices[i] = "canceled" /\ watchers[i] > 0
       /\ watchers' = [watchers EXCEPT ![i] = @ - 1]
       /\ triggers' = triggers \ {i}
  /\ UNCHANGED <<following, invoices, height, startHeight, token, page, announced,
                 channels, tellings>>

-----------------------------------------------------------------------------
(* The listener tells                                                      *)

GetHeight(l) ==
  /\ On /\ startHeight[l] = 0 /\ startHeight' = [startHeight EXCEPT ![l] = height]
  /\ UNCHANGED <<following, invoices, height, token, page, announced, triggers,
                 watchers, channels, tellings>>

\* Mutant of Marked: the channel is marked only when one trigger matches
MarkedIfOne(c) ==
  IF Cardinality(triggers) = 1 THEN channels \cup {c} ELSE channels
Marked(c) == channels \cup {c}

\* Each node is told of the channel.  Before the height is known an update passes
ChannelUpdated(l, c) ==
  /\ On /\ OpenedAt[c] <= height
  /\ startHeight[l] # 0 /\ c \notin channels
  /\ triggers # {} /\ OpenedAt[c] >= startHeight[l]
  /\ channels' = Marked(c)
  /\ tellings' = [tellings EXCEPT ![c] = @ + 1]
  /\ UNCHANGED <<following, invoices, height, startHeight, token, page, announced,
                 triggers, watchers>>

\* An error of any subscription, of a page or of the height ends the command, and what
\* it had in memory is gone
Errored ==
  /\ On /\ following' = "failed"
  /\ startHeight' = [l \in Lnds |-> 0] /\ token' = [l \in Lnds |-> Start]
  /\ page' = [l \in Lnds |-> NoPage] /\ announced' = {} /\ triggers' = {}
  /\ watchers' = [i \in Indexes |-> 0] /\ channels' = {}
  /\ UNCHANGED <<invoices, height, tellings>>

Mined ==
  /\ On /\ height < HighHeight /\ height' = height + 1
  /\ UNCHANGED <<following, invoices>> /\ UNCHANGED listener

ListenerStep ==
  \/ \E l \in Lnds : ReadPage(l) \/ PageDone(l) \/ GetHeight(l)
  \/ InvoiceAdded \/ InvoiceCanceled

TriggersNext ==
  \/ ListenerStep
  \/ CreateTrigger \/ DeleteTrigger \/ TriggerExpires \/ Errored \/ Mined
  \/ \E l \in Lnds, c \in NewChannels : ChannelUpdated(l, c)

-----------------------------------------------------------------------------
(* Properties                                                              *)

\* A channel is told of once, though every node is told of it again and again and
\* several triggers may match it, and not when it is older than the command
AnnouncedOnce ==
  \A c \in NewChannels :
    tellings[c] <= 1 /\ (tellings[c] = 1 => OpenedAt[c] >= LowHeight)

\* A trigger that was canceled is forgotten for good, whether the cancelation comes
\* before or after the page or the update that it is registered by
\* (subscribe_to_triggers.js:206)
CanceledForgotten ==
  \A i \in Indexes :
    [](invoices[i] = "canceled" => <>[](i \notin triggers \/ following = "failed"))

TriggersFairness ==
  /\ \A l \in Lnds : WF_triggered(ReadPage(l)) /\ WF_triggered(PageDone(l))
  /\ WF_triggered(InvoiceAdded) /\ WF_triggered(InvoiceCanceled)
=============================================================================
