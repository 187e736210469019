------------------------------- MODULE Peering -------------------------------
(***************************************************************************)
(* The commands that close and open channels with peers: `bos remove-peer` *)
(* (src/network/remove_peer.js) and `bos increase-outbound-liquidity`      *)
(* (src/network/open_channel.js over src/peers/connect_to_peer.js).        *)
(*                                                                         *)
(* Both read the channels once and then close them, or try the peers, one  *)
(* after another.  Channels go offline and come back between.              *)
(***************************************************************************)
EXTENDS Naturals, FiniteSets, Node

CONSTANTS
  Self,          \* the node itself
  Jobs           \* what users ask for

\* Any node may be named, the node itself too
ASSUME JobsAssumption ==
  \A j \in Jobs : j.peer \in Peers \cup {Anyone, Self} /\ j.seeds \subseteq Peers \cup {Self}

VARIABLES
  job,           \* the options of the command
  act,           \* how far it is
  status,        \* [Channels -> the state of the channel]
  flapped,       \* a channel changed its state (the bound is one)
  readAs,        \* [Channels -> the state that was read]
  left,          \* the channels to close, or the peers to try, that are left
  trying,        \* the peer that is tried
  opened,        \* the peers that a channel was opened with
  reply          \* what the user was told

peeringVars == <<job, act, status, flapped, readAs, left, trying, opened, reply>>

\* peer: named or Anyone; points: channels named; select: chosen by the user;
\* seeds: peers to try when none is named; online: the named peer is connected
NoJob == [name |-> "remove", peer |-> Anyone, points |-> {}, select |-> FALSE, forced |-> FALSE,
          dry |-> FALSE, seeds |-> {}, online |-> FALSE]

States == {"active", "inactive", "pending", "closing", "forced"}
PeeringTypes ==
  /\ act \in {"off", "start", "choose", "close", "try", "open", "rate", "hung", "ended"}
  /\ status \in [Channels -> States] /\ readAs \in [Channels -> States]
  /\ left \subseteq Channels \cup Peers \cup {Self} /\ flapped \in BOOLEAN
  /\ trying \in Peers \cup {Anyone, Self} /\ opened \subseteq Peers /\ reply \in {"none", "success", "error"}

Clear ==
  /\ flapped = FALSE /\ left = {} /\ trying = Anyone /\ opened = {} /\ reply = "none"
  /\ readAs = [c \in Channels |-> "active"]
Unemployed ==
  job = NoJob /\ act = "off" /\ Clear /\ status = [c \in Channels |-> "active"]
PeeringInit ==
  /\ job \in Jobs /\ act = "start" /\ Clear
  /\ status \in [Channels -> {"active", "inactive", "pending"}]

Goes(s) == act' = s /\ UNCHANGED reply
Replies(r) == act' = "ended" /\ reply' = r
With(p) == {c \in Channels : Partner[c] = p}
Blocked(c) == readAs[c] # "active"

-----------------------------------------------------------------------------
(* bos remove-peer                                                         *)

\* The channels, the peers, and the fees, which may be too high.  Channels are named or
\* selected for a named peer only
ReadChannels ==
  /\ act = "start" /\ job.name = "remove"
  /\ \/ Replies("error") /\ UNCHANGED readAs
     \/ /\ job.peer = Anyone => job.points = {} /\ ~job.select
        /\ readAs' = status /\ Goes("choose")
  /\ UNCHANGED <<job, status, flapped, left, trying, opened>>

\* The user selects from the channels that can be closed
ToClose(p) ==
  IF job.select
  THEN {cs \in SUBSET {c \in With(p) : job.forced \/ ~Blocked(c)} : cs # {}}
  ELSE IF job.points # {} THEN {With(p) \cap job.points} ELSE {With(p)}

\* Mutant of Closable: the channels that are closed are not looked at again
AnyClosable(cs) == TRUE
\* Nothing is checked when no peer is named
Closable(cs) ==
  job.peer # Anyone /\ ~job.forced =>
    \A c \in cs \cup (job.points \cap With(job.peer)) : ~Blocked(c)

\* Any peer may come first in the list; with the force option one that has a channel
\* that cannot be closed cooperatively is passed over, unless it is named
MayRemove(p) ==
  IF job.peer # Anyone THEN p = job.peer
  ELSE job.forced => \A c \in With(p) : ~Blocked(c)

ChoosePeer ==
  /\ act = "choose"
  /\ \/ Replies("error") /\ UNCHANGED left
     \/ \E p \in Peers : \E cs \in ToClose(p) :
          /\ MayRemove(p)
          /\ IF cs = {} \/ ~Closable(cs) THEN Replies("error") /\ UNCHANGED left
             ELSE IF job.dry THEN Replies("success") /\ UNCHANGED left
             ELSE Goes("close") /\ left' = cs
  /\ UNCHANGED <<job, status, flapped, readAs, trying, opened>>

\* A channel that was read as inactive is closed by force.  A channel that cannot be
\* closed, or an answer that is lost, ends the run: the others stay open
CloseChannel ==
  /\ act = "close" /\ left # {}
  /\ \E c \in left :
       \/ /\ left' = left \ {c}
          /\ \/ readAs[c] = "inactive" /\ status' = [status EXCEPT ![c] = "forced"]
             \/ readAs[c] # "inactive" /\ status[c] = "active"
                  /\ status' = [status EXCEPT ![c] = "closing"]
          /\ Goes("close") \/ Replies("error")
       \/ Replies("error") /\ UNCHANGED <<left, status>>
  /\ UNCHANGED <<job, flapped, readAs, trying, opened>>

\* The pending transactions are read to tell the fees
ReadClosed ==
  /\ act = "close" /\ left = {}
  /\ Replies("success") \/ Replies("error")
  /\ UNCHANGED <<job, status, flapped, readAs, left, trying, opened>>

-----------------------------------------------------------------------------
(* bos increase-outbound-liquidity                                         *)

\* Mutant of Candidates: a peer that is named is one of several
AlsoNamed == job.seeds \cup ({job.peer} \ {Anyone})
Candidates == IF job.peer # Anyone THEN {job.peer} ELSE job.seeds

\* What the peers are scored by is read: the channels, open, pending and closed, the
\* forwards and the chain fees
ReadPeers ==
  /\ act = "start" /\ job.name = "open"
  /\ \/ Replies("error") /\ UNCHANGED left
     \/ /\ left' = Candidates
        /\ IF left' = {} THEN Replies("error") ELSE Goes("try")
  /\ UNCHANGED <<job, status, flapped, readAs, trying, opened>>

\* A peer is passed over when it is the node itself, or when it cannot be reached and
\* is not connected.  When a connection is made nothing is called back: the command
\* does not go on
TryPeer ==
  /\ act = "try"
  /\ IF left = {} THEN Replies("error") /\ UNCHANGED <<left, trying>>
     ELSE \E p \in left :
            /\ left' = left \ {p} /\ trying' = p
            /\ IF p = Self THEN Goes("try")
               ELSE \/ Goes("hung")
                    \/ IF ~job.online THEN Goes("try")
                       ELSE IF job.dry THEN Goes("rate") ELSE Goes("open")
  /\ UNCHANGED <<job, status, flapped, readAs, opened>>

\* With one candidate an error is the end
OnError ==
  /\ IF job.peer # Anyone THEN Replies("error") ELSE Goes("try")
  /\ UNCHANGED left

\* The channel may be open though an error is the answer; no funds are an error too
OpenChannel ==
  /\ act = "open"
  /\ \/ opened' = opened \cup {trying} /\ Goes("rate") /\ UNCHANGED left
     \/ opened' \in {opened, opened \cup {trying}} /\ OnError
     \/ Replies("error") /\ UNCHANGED <<opened, left>>
  /\ UNCHANGED <<job, status, flapped, readAs, trying>>

\* The fee rate is set when it is given
SetFeeRate ==
  /\ act = "rate"
  /\ Replies("success") \/ Replies("error")
  /\ UNCHANGED <<job, status, flapped, readAs, left, trying, opened>>

-----------------------------------------------------------------------------

Flap ==
  /\ ~flapped /\ flapped' = TRUE /\ act \in {"choose", "close"}
  /\ \E c \in Channels, s \in {"active", "inactive", "pending"} :
       /\ status[c] \in {"active", "inactive", "pending"} /\ s # status[c]
       /\ status' = [status EXCEPT ![c] = s]
  /\ UNCHANGED <<job, act, readAs, left, trying, opened, reply>>

PeeringNext ==
  \/ ReadChannels \/ ChoosePeer \/ CloseChannel \/ ReadClosed
  \/ ReadPeers \/ TryPeer \/ OpenChannel \/ SetFeeRate \/ Flap

-----------------------------------------------------------------------------
(* Properties                                                              *)

Ended == {c \in Channels : status[c] \in {"closing", "forced"}}
ByForce == {c \in Channels : status[c] = "forced"}

\* All the channels that are closed are with one peer, the named one if any, and are
\* among those that were named; when a peer is named, none is closed by force
\* without the option, though channels go offline after they were read; a dry run
\* closes none (remove_peer.js:289)
RemovedAsAsked ==
  /\ \A c, d \in Ended : Partner[c] = Partner[d]
  /\ job.dry => Ended = {}
  /\ job.peer # Anyone => Ended \subseteq With(job.peer)
  /\ job.points # {} /\ ~job.select => Ended \subseteq job.points
  /\ job.peer # Anyone /\ ~job.forced => ByForce = {}

\* A command to open a channel with a named peer opens one with this peer only,
\* whatever answers are lost; success means that there is one (open_channel.js:335)
OpenedAsAsked ==
  job.name = "open" =>
    /\ job.peer # Anyone => opened \subseteq {job.peer}
    /\ reply = "success" /\ ~job.dry => opened # {}
    /\ job.dry => opened = {}

\* "Force close channels if they cannot be coop closed" (bos:1838): without the option
\* no channel is closed by force
ForcedOnlyWhenAsked == ~job.forced => ByForce = {}
=============================================================================
