---------------------------- MODULE InboundRules ----------------------------
(***************************************************************************)
(* `bos inbound-channel-rules`: the node's own answer to peers that ask to *)
(* open channels (src/peers/intercept_inbound_channels.js over             *)
(* detect_open_rule_violation.js and open_request_violation.js).           *)
(*                                                                         *)
(* Requests are answered concurrently.  The height and what the graph says *)
(* of a peer are read for each, in either order, while blocks arrive and   *)
(* peers open other channels.  An accepted channel is given the next of    *)
(* the cooperative close addresses, which all requests share.              *)
(***************************************************************************)
EXTENDS Integers, Sequences, SequencesExt, FiniteSets

CONSTANTS
  Requests,      \* the requests to open a channel, one of each peer
  Ask,           \* [Requests -> what it asks for: the capacity and trusted funding]
  Policies,      \* what users configure: rules, peers to trust, and addresses in order
  FirstBlock, LastBlock, MinAge, MinCapacity

ASSUME PoliciesAssumption ==
  /\ IsFiniteSet(Requests)
  /\ FirstBlock \in Nat \ {0} /\ LastBlock \in Nat /\ FirstBlock <= LastBlock /\ MinAge \in Nat
  /\ \A p \in Policies : p.addresses \in Seq(STRING \ {"none"})

VARIABLES
  policy,        \* the options of the command
  listening,     \* the subscription to requests has not failed
  block,         \* the height of the chain
  since,         \* [Requests -> the height of the peer's channel, 0 for none]
  heightRead,    \* [Requests -> the height that was read, 0 for not yet]
  sinceRead,     \* [Requests -> the peer's channel that was read, -1 for not yet]
  answer,        \* [Requests -> the answer to the request]
  given,         \* [Requests -> the close address of the accepted channel]
  pool           \* the addresses left before the list starts again

inbound == <<policy, listening, block, since, heightRead, sinceRead, answer, given, pool>>

NoPolicy == [rules |-> {}, trust |-> {}, addresses |-> <<>>]
Blocks == FirstBlock .. LastBlock
Answers == {"none", "checking", "accepted", "untrusted", "violation", "failure"}
Addresses == ToSet(policy.addresses)

InboundTypes ==
  /\ listening \in BOOLEAN /\ block \in Blocks
  /\ since \in [Requests -> Blocks \cup {0}]
  /\ heightRead \in [Requests -> Blocks \cup {0}]
  /\ sinceRead \in [Requests -> Blocks \cup {-1, 0}]
  /\ answer \in [Requests -> Answers]
  /\ given \in [Requests -> Addresses \cup {"none"}]
  /\ ToSet(pool) \subseteq Addresses

Unasked ==
  /\ block = FirstBlock
  /\ since = [r \in Requests |-> 0]
  /\ heightRead = [r \in Requests |-> 0] /\ sinceRead = [r \in Requests |-> -1]
  /\ answer = [r \in Requests |-> "none"] /\ given = [r \in Requests |-> "none"]

NotIntercepting == policy = NoPolicy /\ listening = FALSE /\ pool = <<>> /\ Unasked

InboundInit ==
  policy \in Policies /\ listening = TRUE /\ pool = policy.addresses /\ Unasked

\* What was read for a request is gone when it is answered
Answered(r, a) ==
  /\ answer' = [answer EXCEPT ![r] = a]
  /\ heightRead' = [heightRead EXCEPT ![r] = 0]
  /\ sinceRead' = [sinceRead EXCEPT ![r] = -1]
World == UNCHANGED <<policy, block, since>>
NoneGiven == UNCHANGED <<given, pool>>

-----------------------------------------------------------------------------
(* A request                                                               *)

Untrusted(r) == Ask[r].trust /\ r \notin policy.trust

ChannelRequest(r) ==
  /\ listening /\ answer[r] = "none"
  /\ Answered(r, IF Untrusted(r) THEN "untrusted" ELSE "checking")
  /\ UNCHANGED listening /\ World /\ NoneGiven

\* The height and the channels are read in parallel; nothing of the peer is read
\* without rules, and a peer that the graph does not know has no channels
ReadHeight(r) ==
  /\ answer[r] = "checking" /\ heightRead[r] = 0
  /\ heightRead' = [heightRead EXCEPT ![r] = block]
  /\ UNCHANGED <<listening, sinceRead, answer>> /\ World /\ NoneGiven

ReadNode(r) ==
  /\ answer[r] = "checking" /\ sinceRead[r] = -1
  /\ sinceRead' = [sinceRead EXCEPT ![r] = IF policy.rules = {} THEN 0 ELSE since[r]]
  /\ UNCHANGED <<listening, heightRead, answer>> /\ World /\ NoneGiven

\* A read fails: the request is rejected without a reason
ReadFails(r) ==
  /\ answer[r] = "checking" /\ (heightRead[r] = 0 \/ sinceRead[r] = -1)
  /\ Answered(r, "failure")
  /\ UNCHANGED listening /\ World /\ NoneGiven

\* Mutant of AgeRead: the block that the channel is in counts
AgeWithFirst(r) == heightRead[r] - sinceRead[r] + 1

\* The age is negative when the channel is newer than the height that was read
AgeRead(r) == heightRead[r] - sinceRead[r]

\* A rule holds for what was read of the peer and for what it asks for
Obeys(r, rule) ==
  CASE rule = "age" -> sinceRead[r] # 0 /\ AgeRead(r) >= MinAge
    [] rule = "capacity" -> Ask[r].capacity >= MinCapacity

Checked(r) ==
  /\ answer[r] = "checking" /\ heightRead[r] # 0 /\ sinceRead[r] # -1
  /\ UNCHANGED listening /\ World

Violates(r) ==
  /\ Checked(r) /\ \E rule \in policy.rules : ~Obeys(r, rule)
  /\ Answered(r, "violation") /\ NoneGiven

Stocked == IF pool = <<>> THEN policy.addresses ELSE pool

\* Mutant of TakeAddress: the addresses are taken by the number of the request
ByRequest(r) ==
  LET asked == Cardinality({q \in Requests : answer[q] # "none"}) IN
    given' = [given EXCEPT ![r] =
      policy.addresses[1 + (asked % Len(policy.addresses))]] /\ UNCHANGED pool

\* Mutant of TakeAddress: the pool is filled after the address was taken
FilledLate(r) ==
  /\ given' = [given EXCEPT ![r] = IF pool = <<>> THEN "undefined" ELSE Head(pool)]
  /\ pool' = IF pool = <<>> THEN policy.addresses ELSE Tail(pool)

TakeAddress(r) ==
  given' = [given EXCEPT ![r] = Head(Stocked)] /\ pool' = Tail(Stocked)

\* The pool is filled again when it is empty, and gives its first address
Accept(r) ==
  /\ Checked(r) /\ \A rule \in policy.rules : Obeys(r, rule)
  /\ Answered(r, "accepted")
  /\ IF policy.addresses = <<>> THEN NoneGiven ELSE TakeAddress(r)

\* The command ends; requests that are checked are still answered
SubscriptionFails ==
  /\ listening /\ listening' = FALSE
  /\ UNCHANGED <<heightRead, sinceRead, answer>> /\ World /\ NoneGiven

-----------------------------------------------------------------------------
(* The chain and the peers, while a rule looks at them                     *)

Looked == listening /\ "age" \in policy.rules

Block ==
  /\ Looked /\ block < LastBlock /\ block' = block + 1
  /\ UNCHANGED <<policy, listening, since, heightRead, sinceRead, answer, given, pool>>

PeerOpens(r) ==
  /\ Looked /\ since[r] = 0 /\ since' = [since EXCEPT ![r] = block]
  /\ UNCHANGED <<policy, listening, block, heightRead, sinceRead, answer, given, pool>>

InboundNext ==
  \/ \E r \in Requests :
       \/ ChannelRequest(r) \/ ReadHeight(r) \/ ReadNode(r) \/ ReadFails(r)
       \/ Violates(r) \/ Accept(r) \/ PeerOpens(r)
  \/ SubscriptionFails \/ Block

-----------------------------------------------------------------------------
(* Properties                                                              *)

Uses(a) == Cardinality({r \in Requests : given[r] = a})
\* How often the user names an address
Listed(a) == Cardinality({i \in DOMAIN policy.addresses : policy.addresses[i] = a})

\* The close addresses are given in turn, one to each accepted channel, so that each is
\* used as often as the list was gone through, however the checks of requests overlap
\* and whichever of them are rejected (intercept_inbound_channels.js:182).  A peer that
\* is accepted by its age has a channel that is old enough, though its channel and the
\* height are read at two times, and only a trusted peer is accepted with trusted funding
AcceptedInTurn ==
  /\ \E rounds \in 0 .. Cardinality(Requests) : \A a \in Addresses :
       Uses(a) \in rounds * Listed(a) .. (rounds + 1) * Listed(a)
  /\ \A r \in Requests : answer[r] = "accepted" =>
       /\ given[r] # "none" <=> Addresses # {}
       /\ "age" \in policy.rules => since[r] # 0 /\ block - since[r] >= MinAge
       /\ Ask[r].trust => r \in policy.trust
  /\ \A r \in Requests : answer[r] # "accepted" => given[r] = "none"
=============================================================================
