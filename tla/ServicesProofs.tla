--------------------------- MODULE ServicesProofs ---------------------------
(***************************************************************************)
(* The theorems of the services, for any requests, addresses, triggers,    *)
(* payments, nodes and bounds: a part for each service with its invariant  *)
(* and the steps that keep it, then what holds of all of them.             *)
(***************************************************************************)
EXTENDS Services, SetLemmas, SequenceTheorems

-----------------------------------------------------------------------------
(* The inbound channel rules                                               *)

\* How often an address is among the first k of the list
Among(k, a) == Cardinality({i \in 1 .. k : policy.addresses[i] = a})
Taken0 == Len(policy.addresses) - Len(pool)

\* The pool is the rest of the list, and every address was given once for each time that
\* the list was gone through, and once more for each time it is in the part that is gone
TurnInv ==
  /\ pool \in Seq(STRING) /\ Len(pool) <= Len(policy.addresses)
  /\ \A i \in 1 .. Len(pool) : pool[i] = policy.addresses[Taken0 + i]
  /\ \E m \in Nat : \A a \in Addresses : Uses(a) = m * Listed(a) + Among(Taken0, a)

\* What was read for a request was true when it was read, and stays true enough
ChecksInv ==
  \A r \in Requests :
    /\ answer[r] # "accepted" => given[r] = "none"
    /\ answer[r] \in {"checking", "accepted"} => (Ask[r].trust => r \in policy.trust)
    /\ answer[r] = "checking" =>
         heightRead[r] <= block /\ (sinceRead[r] \notin {-1, 0} => sinceRead[r] = since[r])
    /\ answer[r] = "accepted" =>
         /\ given[r] # "none" <=> Addresses # {}
         /\ "age" \in policy.rules => since[r] # 0 /\ block - since[r] >= MinAge

InboundInv ==
  /\ policy \in Policies \cup {NoPolicy}
  /\ InboundTypes /\ TurnInv /\ ChecksInv

LEMMA AddressesType ==
  ASSUME policy \in Policies \cup {NoPolicy}
  PROVE  /\ policy.addresses \in Seq(STRING) /\ DOMAIN policy.addresses = 1 .. Len(policy.addresses)
         /\ Addresses \subseteq STRING /\ "none" \notin Addresses
         /\ Addresses = {} <=> policy.addresses = <<>>
<1> DEFINE names == STRING \ {"none"}
<1>1. policy.addresses \in Seq(names)
  <2>1. CASE policy \in Policies
    BY <2>1, PoliciesAssumption
  <2>2. CASE policy = NoPolicy
    <3>1. policy.addresses = <<>>
      BY <2>2 DEF NoPolicy
    <3> HIDE DEF names
    <3> QED BY <3>1
  <2> QED BY <2>1, <2>2
<1>2. /\ DOMAIN policy.addresses = 1 .. Len(policy.addresses) /\ Len(policy.addresses) \in Nat
      /\ \A i \in 1 .. Len(policy.addresses) : policy.addresses[i] \in names
      /\ policy.addresses = <<>> <=> Len(policy.addresses) = 0
  <2> HIDE DEF names
  <2> QED BY <1>1
<1>3. policy.addresses \in Seq(STRING)
  BY <1>1
<1>4. Addresses = {policy.addresses[i] : i \in 1 .. Len(policy.addresses)}
  BY <1>2 DEF Addresses, ToSet
<1>5. Addresses = {} <=> policy.addresses = <<>>
  <2>1. CASE Len(policy.addresses) = 0
    BY <1>2, <1>4, <2>1
  <2>2. CASE Len(policy.addresses) # 0
    <3>1. 1 \in 1 .. Len(policy.addresses)
      BY <1>2, <2>2
    <3> QED BY <1>2, <1>4, <2>2, <3>1
  <2> QED BY <2>1, <2>2
<1> QED BY <1>2, <1>3, <1>4, <1>5

\* Counting the first k addresses of the list
LEMMA AmongFirst ==
  ASSUME NEW a, NEW k \in Nat
  PROVE  /\ Among(0, a) = 0 /\ Among(k, a) \in Nat
         /\ Among(k + 1, a) = Among(k, a) + (IF policy.addresses[k + 1] = a THEN 1 ELSE 0)
<1> DEFINE first(j) == {i \in 1 .. j : policy.addresses[i] = a}
<1>1. Among(0, a) = 0
  <2>1. first(0) = {}
    OBVIOUS
  <2> QED BY <2>1, FS_EmptySet DEF Among
<1>2. IsFiniteSet(first(k)) /\ Among(k, a) \in Nat
  <2>1. IsFiniteSet(1 .. k) /\ first(k) \in SUBSET (1 .. k)
    BY FS_Interval
  <2>2. IsFiniteSet(first(k))
    BY <2>1, FS_Subset
  <2> QED BY <2>2, FS_CardinalityType DEF Among
<1>3. Among(k + 1, a) = Among(k, a) + (IF policy.addresses[k + 1] = a THEN 1 ELSE 0)
  <2>1. first(k + 1) = IF policy.addresses[k + 1] = a THEN first(k) \cup {k + 1} ELSE first(k)
    OBVIOUS
  <2>2. k + 1 \notin first(k)
    OBVIOUS
  <2>3. Cardinality(first(k) \cup {k + 1}) = Cardinality(first(k)) + 1
    <3> HIDE DEF first
    <3> QED BY <1>2, <2>2, FS_AddElement
  <2> HIDE DEF first
  <2>4. Cardinality(first(k + 1)) = Cardinality(first(k)) + (IF policy.addresses[k + 1] = a THEN 1 ELSE 0)
    <3>1. Cardinality(first(k)) \in Nat
      BY <1>2, FS_CardinalityType
    <3> QED BY <2>1, <2>3, <3>1
  <2> QED BY <2>4 DEF Among, first
<1> QED BY <1>1, <1>2, <1>3

\* All the list is as often as an address is listed, and a part of it is not more
LEMMA AmongAll ==
  ASSUME policy \in Policies \cup {NoPolicy}, NEW a
  PROVE  /\ Among(Len(policy.addresses), a) = Listed(a) /\ Listed(a) \in Nat
         /\ \A k \in 0 .. Len(policy.addresses) : Among(k, a) \in Nat /\ Among(k, a) <= Listed(a)
<1>1. Len(policy.addresses) \in Nat
  BY AddressesType
<1>2. Among(Len(policy.addresses), a) = Listed(a)
  BY AddressesType DEF Among, Listed
<1>3. ASSUME NEW k \in 0 .. Len(policy.addresses)
      PROVE  Among(k, a) \in Nat /\ Among(k, a) <= Listed(a)
  <2> DEFINE first == {i \in 1 .. k : policy.addresses[i] = a}
             all == {i \in 1 .. Len(policy.addresses) : policy.addresses[i] = a}
  <2>1. first \in SUBSET all /\ all \in SUBSET (1 .. Len(policy.addresses))
    BY <1>1, <1>3
  <2>2. IsFiniteSet(1 .. Len(policy.addresses))
    BY <1>1, FS_Interval
  <2>3. Among(k, a) = Cardinality(first) /\ Listed(a) = Cardinality(all)
    BY <1>2 DEF Among
  <2> HIDE DEF first, all
  <2>4. IsFiniteSet(all) /\ IsFiniteSet(first) /\ Cardinality(first) <= Cardinality(all)
    BY <2>1, <2>2, FS_Subset
  <2> QED BY <2>3, <2>4, FS_CardinalityType
<1> QED BY <1>1, <1>2, <1>3

\* One request more has an address
LEMMA UsedOnceMore ==
  ASSUME NEW r \in Requests, NEW a, given[r] # a, NEW b,
         given \in [Requests -> STRING \cup {"none"}], given' = [given EXCEPT ![r] = b]
  PROVE  Uses(a)' = Uses(a) + (IF a = b THEN 1 ELSE 0) /\ Uses(a) \in Nat
<1> DEFINE users == {q \in Requests : given[q] = a}
<1>1. IsFiniteSet(users) /\ r \notin users
  <2>1. users \in SUBSET Requests /\ IsFiniteSet(Requests)
    BY PoliciesAssumption
  <2> QED BY <2>1, FS_Subset
<1>2. {q \in Requests : given'[q] = a} = IF a = b THEN users \cup {r} ELSE users
  OBVIOUS
<1>3. Uses(a) = Cardinality(users) /\ Uses(a)' = Cardinality({q \in Requests : given'[q] = a})
  BY DEF Uses
<1> HIDE DEF users
<1>4. Cardinality(users \cup {r}) = Cardinality(users) + 1 /\ Cardinality(users) \in Nat
  BY <1>1, FS_AddElement, FS_CardinalityType
<1> QED BY <1>2, <1>3, <1>4

\* The step that gives an address
LEMMA TakeTurn ==
  ASSUME policy \in Policies \cup {NoPolicy}, UNCHANGED policy, TurnInv,
         NEW r \in Requests, given[r] = "none", given \in [Requests -> STRING \cup {"none"}],
         policy.addresses # <<>>, TakeAddress(r)
  PROVE  TurnInv' /\ given'[r] \in Addresses /\ ToSet(pool') \subseteq Addresses
<1> DEFINE list == policy.addresses
           size == Len(list)
           before == IF pool = <<>> THEN 0 ELSE Taken0
<1>1. /\ list \in Seq(STRING) /\ DOMAIN list = 1 .. size /\ size \in Nat \ {0}
      /\ "none" \notin Addresses /\ Addresses \subseteq STRING
  BY AddressesType
<1>2. /\ Stocked \in Seq(STRING) /\ before \in Nat /\ Len(Stocked) = size - before
      /\ before < size
      /\ \A i \in 1 .. Len(Stocked) : Stocked[i] = list[before + i]
  <2>1. CASE pool = <<>>
    BY <1>1, <2>1 DEF Stocked
  <2>2. CASE pool # <<>>
    BY <1>1, <2>2 DEF Stocked, TurnInv, Taken0
  <2> QED BY <2>1, <2>2
<1>3. PICK m \in Nat : \A a \in Addresses : Uses(a) = m * Listed(a) + Among(before, a)
  <2>1. PICK j \in Nat : \A a \in Addresses : Uses(a) = j * Listed(a) + Among(Taken0, a)
    BY DEF TurnInv
  <2>2. CASE pool # <<>>
    BY <2>1, <2>2
  <2>3. CASE pool = <<>>
    <3>1. Taken0 = size
      BY <1>1, <2>3 DEF Taken0
    <3>2. ASSUME NEW a \in Addresses PROVE Uses(a) = (j + 1) * Listed(a) + Among(before, a)
      <4>1. Uses(a) = j * Listed(a) + Listed(a) /\ Listed(a) \in Nat
        BY <2>1, <3>1, AmongAll
      <4>2. Among(before, a) = 0
        BY <2>3, AmongFirst
      <4> QED BY <4>1, <4>2
    <3> QED BY <3>2
  <2> QED BY <2>2, <2>3
<1> HIDE DEF before
<1>4. /\ given' = [given EXCEPT ![r] = list[before + 1]] /\ pool' = Tail(Stocked)
      /\ list[before + 1] \in Addresses
  <2>1. Stocked # <<>> /\ Head(Stocked) = list[before + 1]
    BY <1>1, <1>2
  <2>2. before + 1 \in DOMAIN list
    BY <1>1, <1>2
  <2> QED BY <2>1, <2>2 DEF TakeAddress, Addresses, ToSet
<1>5. /\ pool' \in Seq(STRING) /\ Len(pool') = size - (before + 1)
      /\ \A i \in 1 .. Len(pool') : pool'[i] = list[(before + 1) + i]
  <2>1. Stocked # <<>> /\ Len(Stocked) \in Nat
    BY <1>1, <1>2
  <2>2. /\ Tail(Stocked) \in Seq(STRING) /\ Len(Tail(Stocked)) = Len(Stocked) - 1
        /\ \A i \in 1 .. Len(Tail(Stocked)) : Tail(Stocked)[i] = Stocked[i + 1]
    BY <1>2, <2>1
  <2>3. ASSUME NEW i \in 1 .. Len(pool') PROVE pool'[i] = list[(before + 1) + i]
    <3>1. i + 1 \in 1 .. Len(Stocked) /\ pool'[i] = Stocked[i + 1]
      BY <1>4, <2>1, <2>2
    <3>2. before \in Int /\ i \in Int
      BY <1>2
    <3>3. before + (i + 1) = (before + 1) + i
      BY <3>2
    <3>4. Stocked[i + 1] = list[before + (i + 1)]
      BY <1>2, <3>1
    <3> QED BY <3>1, <3>3, <3>4
  <2> QED BY <1>1, <1>2, <1>4, <2>2, <2>3
<1>6. Taken0' = before + 1
  <2>1. Taken0' = size - Len(pool')
    BY DEF Taken0
  <2> HIDE DEF size
  <2> QED BY <1>1, <1>2, <1>5, <2>1
<1>7. ASSUME NEW a \in Addresses
      PROVE  Uses(a)' = m * Listed(a) + Among(before + 1, a)
  <2>1. Uses(a)' = Uses(a) + (IF a = list[before + 1] THEN 1 ELSE 0)
    BY <1>1, <1>4, UsedOnceMore
  <2>2. Among(before + 1, a) = Among(before, a) + (IF list[before + 1] = a THEN 1 ELSE 0)
    BY <1>2, AmongFirst
  <2>3. Among(before, a) \in Nat /\ Listed(a) \in Nat
    BY <1>2, AmongFirst, AmongAll
  <2>4. m * Listed(a) \in Nat
    BY <2>3
  <2> QED BY <1>3, <2>1, <2>2, <2>3, <2>4
<1>8. TurnInv'
  <2>1. \A a \in Addresses : (m * Listed(a) + Among(Taken0, a))' = m * Listed(a) + Among(before + 1, a)
    BY <1>6 DEF Listed, Among
  <2>2. Addresses' = Addresses
    BY DEF Addresses
  <2> QED BY <1>1, <1>2, <1>5, <1>6, <1>7, <2>1, <2>2 DEF TurnInv
<1>9. ToSet(pool') \subseteq Addresses
  <2>1. \A i \in 1 .. Len(pool') : (before + 1) + i \in 1 .. size
    BY <1>1, <1>2, <1>5
  <2>2. DOMAIN pool' = 1 .. Len(pool')
    BY <1>5
  <2> QED BY <1>1, <1>5, <2>1, <2>2 DEF ToSet, Addresses
<1> QED BY <1>1, <1>4, <1>8, <1>9
LEMMA NoTurn ==
  ASSUME TurnInv, UNCHANGED <<policy, given, pool>> PROVE TurnInv'
<1>1. \A a : UNCHANGED Uses(a) /\ UNCHANGED Listed(a)
  BY DEF Uses, Listed
<1>2. UNCHANGED <<Taken0, Addresses>> /\ \A k, a : UNCHANGED Among(k, a)
  BY DEF Taken0, Addresses, Among
<1>3. \A a : UNCHANGED Among(Taken0, a)
  BY DEF Taken0, Among
<1> QED BY <1>1, <1>2, <1>3 DEF TurnInv

LEMMA InboundStarts == ASSUME InboundInit \/ NotIntercepting PROVE InboundInv
<1>1. policy \in Policies \cup {NoPolicy} /\ pool = policy.addresses
  BY DEF InboundInit, NotIntercepting, NoPolicy
<1>2. pool \in Seq(STRING) /\ Len(pool) \in Nat /\ "none" \notin Addresses
  BY <1>1, AddressesType
<1>3. Taken0 = 0
  BY <1>1, <1>2 DEF Taken0
<1>4. given = [r \in Requests |-> "none"]
  BY DEF InboundInit, NotIntercepting, Unasked
<1>5. \A a \in Addresses : Uses(a) = 0
  <2>1. \A a \in Addresses : {r \in Requests : given[r] = a} = {}
    BY <1>2, <1>4
  <2> QED BY <2>1, FS_EmptySet DEF Uses
<1>6. TurnInv
  <2>1. \A a \in Addresses : Uses(a) = 0 * Listed(a) + Among(Taken0, a)
    BY <1>1, <1>3, <1>5, AmongFirst, AmongAll
  <2> QED BY <1>1, <1>2, <1>3, <2>1 DEF TurnInv
<1>7. InboundTypes
  <2>1. block \in Blocks
    BY PoliciesAssumption DEF InboundInit, NotIntercepting, Unasked, Blocks
  <2>2. ToSet(pool) \subseteq Addresses
    BY <1>1 DEF Addresses
  <2> QED
    BY <2>1, <2>2 DEF InboundInit, NotIntercepting, Unasked, InboundTypes, Answers
<1>8. ChecksInv
  BY DEF InboundInit, NotIntercepting, Unasked, ChecksInv
<1> QED BY <1>1, <1>6, <1>7, <1>8 DEF InboundInv

\* One step per action
LEMMA InboundStep ==
  ASSUME InboundInv, [InboundNext]_inbound PROVE InboundInv'
<1> USE DEF InboundInv
<1>1. /\ block \in Blocks /\ Blocks \subseteq Nat /\ 0 \notin Blocks /\ MinAge \in Nat
      /\ since \in [Requests -> Blocks \cup {0}]
      /\ heightRead \in [Requests -> Blocks \cup {0}]
      /\ sinceRead \in [Requests -> Blocks \cup {-1, 0}]
      /\ answer \in [Requests -> Answers] /\ given \in [Requests -> Addresses \cup {"none"}]
  BY PoliciesAssumption DEF InboundTypes, Blocks
<1>0. /\ block \in Int /\ \A r \in Requests : heightRead[r] \in Int /\ since[r] \in Int
      /\ Addresses \subseteq STRING
  <2>1. Blocks \cup {0} \subseteq Int
    BY <1>1
  <2>2. block \in Int
    BY <1>1, <2>1
  <2>3. \A r \in Requests : heightRead[r] \in Blocks \cup {0} /\ since[r] \in Blocks \cup {0}
    BY <1>1
  <2> QED BY <2>1, <2>2, <2>3, AddressesType
<1>2. ASSUME UNCHANGED <<policy, given, pool>>, InboundTypes', ChecksInv' PROVE InboundInv'
  BY <1>2, NoTurn
<1>3. UNCHANGED policy => UNCHANGED Addresses
  BY DEF Addresses
<1>4. ASSUME NEW r \in Requests, answer[r] # "accepted",
             NEW a \in {"checking", "untrusted", "violation", "failure"},
             a = "checking" => (Ask[r].trust => r \in policy.trust),
             Answered(r, a), World, NoneGiven, listening' \in BOOLEAN
      PROVE  InboundInv'
  <2>1. InboundTypes'
    BY <1>1, <1>3, <1>4 DEF InboundTypes, Answered, World, NoneGiven, Answers
  <2>2. ChecksInv'
    BY <1>1, <1>3, <1>4 DEF ChecksInv, Answered, World, NoneGiven
  <2> QED BY <1>2, <1>4, <2>1, <2>2 DEF World, NoneGiven
<1>5. ASSUME NEW r \in Requests, ChannelRequest(r) PROVE InboundInv'
  BY <1>4, <1>5 DEF ChannelRequest, Untrusted, InboundTypes
<1>6. ASSUME NEW r \in Requests, ReadHeight(r) PROVE InboundInv'
  <2>1. InboundTypes'
    BY <1>1, <1>3, <1>6 DEF ReadHeight, InboundTypes, World, NoneGiven
  <2>2. ChecksInv'
    BY <1>1, <1>3, <1>6 DEF ReadHeight, ChecksInv, World, NoneGiven
  <2> QED BY <1>2, <1>6, <2>1, <2>2 DEF ReadHeight, World, NoneGiven
<1>7. ASSUME NEW r \in Requests, ReadNode(r) PROVE InboundInv'
  <2>1. InboundTypes'
    BY <1>1, <1>3, <1>7 DEF ReadNode, InboundTypes, World, NoneGiven
  <2>2. ChecksInv'
    BY <1>1, <1>3, <1>7 DEF ReadNode, ChecksInv, World, NoneGiven
  <2> QED BY <1>2, <1>7, <2>1, <2>2 DEF ReadNode, World, NoneGiven
<1>8. ASSUME NEW r \in Requests, ReadFails(r) PROVE InboundInv'
  BY <1>4, <1>8 DEF ReadFails, InboundTypes
<1>9. ASSUME NEW r \in Requests, Violates(r) PROVE InboundInv'
  BY <1>4, <1>9 DEF Violates, Checked, InboundTypes
<1>10. ASSUME NEW r \in Requests, Accept(r) PROVE InboundInv'
  <2>1. /\ answer[r] = "checking" /\ given[r] = "none" /\ Answered(r, "accepted")
        /\ UNCHANGED <<listening, policy, block, since>>
    BY <1>10 DEF Accept, Checked, World, ChecksInv
  <2>2. /\ TurnInv' /\ given' \in [Requests -> Addresses \cup {"none"}]
        /\ ToSet(pool') \subseteq Addresses
        /\ given'[r] # "none" <=> Addresses # {}
        /\ \A q \in Requests \ {r} : given'[q] = given[q]
    <3>1. CASE policy.addresses = <<>>
      BY <1>1, <1>10, <2>1, <3>1, AddressesType, NoTurn DEF Accept, NoneGiven, InboundTypes
    <3>2. CASE policy.addresses # <<>>
      <4>0. TakeAddress(r)
        BY <1>10, <3>2 DEF Accept
      <4>1. given \in [Requests -> STRING \cup {"none"}]
        <5>1. Addresses \cup {"none"} \subseteq STRING \cup {"none"}
          BY <1>0
        <5> QED BY <1>1, <5>1
      <4>2. TurnInv' /\ given'[r] \in Addresses /\ ToSet(pool') \subseteq Addresses
        BY <2>1, <3>2, <4>0, <4>1, TakeTurn
      <4> QED BY <1>1, <3>2, <4>0, <4>2, AddressesType DEF TakeAddress
    <3> QED BY <3>1, <3>2
  <2>3. InboundTypes'
    BY <1>1, <1>3, <2>1, <2>2 DEF InboundTypes, Answered, Answers
  <2>4. "age" \in policy.rules => since[r] # 0 /\ block - since[r] >= MinAge
    <3>1. "age" \in policy.rules => sinceRead[r] # 0 /\ AgeRead(r) >= MinAge
      BY <1>10 DEF Accept, Obeys
    <3>2. sinceRead[r] # -1 /\ heightRead[r] <= block
      BY <1>10 DEF Accept, Checked, ChecksInv
    <3>3. sinceRead[r] # 0 => sinceRead[r] = since[r]
      BY <2>1, <3>2 DEF ChecksInv
    <3>5. "age" \in policy.rules => heightRead[r] - since[r] >= MinAge /\ since[r] # 0
      BY <3>1, <3>3 DEF AgeRead
    <3> QED BY <1>0, <1>1, <3>2, <3>5
  <2>5. ChecksInv'
    BY <1>1, <1>3, <2>1, <2>2, <2>4 DEF ChecksInv, Answered
  <2> QED BY <2>1, <2>2, <2>3, <2>5
<1>11. ASSUME NEW r \in Requests, PeerOpens(r) PROVE InboundInv'
  <2>1. /\ since[r] = 0 /\ since' = [since EXCEPT ![r] = block]
        /\ UNCHANGED <<policy, listening, block, heightRead, sinceRead, answer, given, pool>>
    BY <1>11 DEF PeerOpens
  <2>2. InboundTypes'
    BY <1>1, <1>3, <2>1 DEF InboundTypes
  <2>3. ChecksInv'
    BY <1>1, <1>3, <2>1 DEF ChecksInv
  <2> QED BY <1>2, <2>1, <2>2, <2>3
<1>12. CASE SubscriptionFails
  <2>1. InboundTypes' /\ ChecksInv'
    BY <1>3, <1>12 DEF SubscriptionFails, InboundTypes, ChecksInv, World, NoneGiven
  <2> QED BY <1>2, <1>12, <2>1 DEF SubscriptionFails, World, NoneGiven
<1>13. CASE Block
  <2>1. block' \in Blocks /\ block' > block
    BY <1>1, <1>13, PoliciesAssumption DEF Block, Blocks
  <2>2. /\ UNCHANGED <<policy, listening, since, heightRead, sinceRead, answer, given, pool>>
        /\ UNCHANGED Addresses
    BY <1>3, <1>13 DEF Block
  <2>3. InboundTypes'
    BY <2>1, <2>2 DEF InboundTypes
  <2>4. ChecksInv'
    <3>1. ASSUME NEW r \in Requests
          PROVE  /\ heightRead[r] <= block => heightRead[r] <= block'
                 /\ block - since[r] >= MinAge => block' - since[r] >= MinAge
      <4>1. heightRead[r] \in Int /\ since[r] \in Int /\ block \in Int /\ block' \in Int
        BY <1>0, <1>1, <2>1
      <4> QED BY <1>1, <2>1, <4>1
    <3> QED BY <2>2, <3>1 DEF ChecksInv
  <2> QED BY <1>2, <2>2, <2>3, <2>4
<1>14. CASE UNCHANGED inbound
  BY <1>2, <1>3, <1>14 DEF inbound, InboundTypes, ChecksInv
<1> QED
  BY <1>5, <1>6, <1>7, <1>8, <1>9, <1>10, <1>11, <1>12, <1>13, <1>14 DEF InboundNext

\* What the invariant means for the peers and for who owns the addresses
LEMMA InboundInvMeans == ASSUME InboundInv PROVE AcceptedInTurn
<1>1. PICK m \in Nat : \A a \in Addresses : Uses(a) = m * Listed(a) + Among(Taken0, a)
  BY DEF InboundInv, TurnInv
<1>2. Taken0 \in 0 .. Len(policy.addresses)
  <2>1. Len(policy.addresses) \in Nat /\ Len(pool) \in Nat /\ Len(pool) <= Len(policy.addresses)
    BY AddressesType DEF InboundInv, TurnInv
  <2> QED BY <2>1 DEF Taken0
<1>3. ASSUME NEW a \in Addresses PROVE Uses(a) \in m * Listed(a) .. (m + 1) * Listed(a)
  <2>1. Among(Taken0, a) \in Nat /\ Listed(a) \in Nat /\ Among(Taken0, a) <= Listed(a)
    BY <1>2, AmongAll DEF InboundInv
  <2>2. (m + 1) * Listed(a) = m * Listed(a) + Listed(a) /\ m * Listed(a) \in Nat
    BY <2>1
  <2> QED BY <1>1, <2>1, <2>2
<1>4. IsFiniteSet(Requests) /\ Cardinality(Requests) \in Nat
  BY PoliciesAssumption, FS_CardinalityType
<1>5. \E rounds \in 0 .. Cardinality(Requests) : \A a \in Addresses :
        Uses(a) \in rounds * Listed(a) .. (rounds + 1) * Listed(a)
  <2>1. CASE Addresses = {}
    BY <1>4, <2>1
  <2>2. ASSUME NEW a \in Addresses PROVE m <= Cardinality(Requests)
    <3>1. Uses(a) <= Cardinality(Requests) /\ Uses(a) \in Nat
      <4>1. {r \in Requests : given[r] = a} \in SUBSET Requests
        OBVIOUS
      <4> QED BY <1>4, <4>1, FS_Subset, FS_CardinalityType DEF Uses
    <3>2. Listed(a) >= 1 /\ Listed(a) \in Nat
      <4>1. PICK i \in 1 .. Len(policy.addresses) : policy.addresses[i] = a
        BY AddressesType DEF InboundInv, Addresses, ToSet
      <4>2. Len(policy.addresses) \in Nat
        BY AddressesType DEF InboundInv
      <4>3. Among(i, a) = Among(i - 1, a) + 1 /\ Among(i - 1, a) \in Nat
        <5>1. i - 1 \in Nat /\ (i - 1) + 1 = i
          BY <4>2
        <5> QED BY <4>1, <5>1, AmongFirst
      <4>4. i \in 0 .. Len(policy.addresses)
        BY <4>2
      <4>5. Among(i, a) <= Listed(a) /\ Listed(a) \in Nat
        BY <4>4, AmongAll DEF InboundInv
      <4> QED BY <4>3, <4>5
    <3>3. m * Listed(a) >= m
      BY <3>2
    <3>4. m * Listed(a) <= Uses(a) /\ m * Listed(a) \in Int
      BY <1>3, <3>2
    <3> QED BY <1>4, <3>1, <3>3, <3>4
  <2>3. CASE Addresses # {}
    <3>1. m \in 0 .. Cardinality(Requests)
      BY <1>4, <2>2, <2>3
    <3> QED BY <1>3, <3>1
  <2> QED BY <2>1, <2>3
<1>6. /\ \A r \in Requests : answer[r] = "accepted" =>
           /\ given[r] # "none" <=> Addresses # {}
           /\ "age" \in policy.rules => since[r] # 0 /\ block - since[r] >= MinAge
           /\ Ask[r].trust => r \in policy.trust
      /\ \A r \in Requests : answer[r] # "accepted" => given[r] = "none"
  BY DEF InboundInv, ChecksInv
<1> QED BY <1>5, <1>6 DEF AcceptedInTurn
-----------------------------------------------------------------------------
(* The triggers                                                            *)

\* While the listener runs, the channels it knows are those it told of
ToldInv ==
  /\ \A c \in NewChannels : tellings[c] <= 1 /\ (tellings[c] = 1 => OpenedAt[c] >= LowHeight)
  /\ following = "on" => \A c \in NewChannels : tellings[c] = IF c \in channels THEN 1 ELSE 0
TriggersInv ==
  /\ TriggersTypes /\ ToldInv
  /\ \A l \in Lnds : page[l] = NoPage \/ page[l] \subseteq Indexes

LEMMA TriggersStart == ASSUME TriggersInit \/ NotFollowing PROVE TriggersInv
<1>1. Start \in Nat /\ height \in LowHeight .. HighHeight
  BY TriggersAssumption, FS_CardinalityType DEF Start, TriggersInit, NotFollowing, NothingHeard
<1>2. invoices \in [Indexes -> {"absent", "open", "canceled"}]
  BY DEF TriggersInit, NotFollowing
<1>3. TriggersTypes
  BY <1>1, <1>2 DEF TriggersInit, NotFollowing, NothingHeard, TriggersTypes, NoPage
<1> QED BY <1>3 DEF TriggersInit, NotFollowing, NothingHeard, TriggersInv, ToldInv

LEMMA LeastIndex ==
  ASSUME NEW S \in SUBSET Nat, S # {}
  PROVE  (CHOOSE i \in S : \A j \in S : i <= j) \in S
<1>1. PICK i \in S : \A j \in S : ~(<<j, i>> \in OpToRel(<, Nat))
  BY NatLessThanWellFounded, WFMin
<1>2. ASSUME NEW j \in S PROVE i <= j
  <2>1. i \in Nat /\ j \in Nat /\ <<j, i>> \in Nat \X Nat
    OBVIOUS
  <2>2. ~(<<j, i>> \in {m \in Nat \X Nat : m[1] < m[2]})
    BY <1>1 DEF OpToRel
  <2>3. ~(j < i)
    BY <2>1, <2>2
  <2> QED BY <2>1, <2>3
<1> QED BY <1>2

LEMMA WatchedType ==
  ASSUME NEW S, watchers \in [Indexes -> Nat] PROVE Watched(S) \in [Indexes -> Nat]
BY DEF Watched

\* One step per action
LEMMA TriggersStep ==
  ASSUME TriggersInv, [TriggersNext]_triggered PROVE TriggersInv'
<1> USE DEF TriggersInv, TriggersTypes, On
<1>1. ASSUME NEW l \in Lnds, ReadPage(l) PROVE TriggersInv'
  <2>1. PICK S \in SUBSET Indexes : page' = [page EXCEPT ![l] = S]
    <3> DEFINE older == {i \in Indexes : Home[i] = l /\ i < token[l]} \cap Open
               S == {i \in older : Cardinality({j \in older : j > i}) < PageSize}
    <3>1. S \subseteq Indexes /\ page' = [page EXCEPT ![l] = S]
      BY <1>1 DEF ReadPage
    <3> QED BY <3>1
  <2>2. /\ page' \in [Lnds -> SUBSET (Indexes \cup {0})]
        /\ \A m \in Lnds : page'[m] = NoPage \/ page'[m] \subseteq Indexes
    BY <2>1
  <2> QED BY <1>1, <2>2 DEF ReadPage, ToldInv
<1>2. ASSUME NEW l \in Lnds, PageDone(l) PROVE TriggersInv'
  <2>1. page[l] \subseteq Indexes /\ IsFiniteSet(page[l])
    BY <1>2, TriggersAssumption, FS_Subset DEF PageDone
  <2>2. token' \in [Lnds -> Nat]
    <3>1. Indexes \subseteq Nat /\ PageSize > 0
      BY TriggersAssumption, FS_CardinalityType
    <3>2. CASE Cardinality(page[l]) < PageSize
      BY <1>2, <3>2 DEF PageDone, Done
    <3>3. CASE ~(Cardinality(page[l]) < PageSize)
      <4>1. page[l] # {}
        BY <3>1, <3>3, FS_EmptySet
      <4>2. (CHOOSE i \in page[l] : \A j \in page[l] : i <= j) \in Nat
        BY <2>1, <3>1, <4>1, LeastIndex
      <4> QED BY <1>2, <3>3, <4>2 DEF PageDone
    <3> QED BY <3>2, <3>3
  <2>3. /\ page' \in [Lnds -> SUBSET (Indexes \cup {0})]
        /\ \A m \in Lnds : page'[m] = NoPage \/ page'[m] \subseteq Indexes
    BY <1>2 DEF PageDone, NoPage
  <2>4. triggers' \subseteq Indexes /\ watchers' \in [Indexes -> Nat]
    BY <1>2, <2>1, WatchedType DEF PageDone, Register
  <2> QED BY <1>2, <2>2, <2>3, <2>4 DEF PageDone, ToldInv
<1>3. ASSUME NEW l \in Lnds, GetHeight(l) PROVE TriggersInv'
  BY <1>3 DEF GetHeight, ToldInv
<1>4. CASE InvoiceAdded
  <2>1. /\ triggers' \subseteq Indexes /\ watchers' \in [Indexes -> Nat]
        /\ announced' \subseteq Indexes
    BY <1>4, WatchedType DEF InvoiceAdded, Register
  <2> QED BY <1>4, <2>1 DEF InvoiceAdded, ToldInv
<1>5. CASE InvoiceCanceled
  <2>1. /\ triggers' \subseteq Indexes /\ watchers' \in [Indexes -> Nat]
    BY <1>5 DEF InvoiceCanceled
  <2> QED BY <1>5, <2>1 DEF InvoiceCanceled, ToldInv
<1>6. CASE CreateTrigger
  BY <1>6 DEF CreateTrigger, ToldInv
<1>7. CASE DeleteTrigger \/ TriggerExpires
  BY <1>7 DEF DeleteTrigger, TriggerExpires, Open, listener, ToldInv
<1>8. CASE Errored
  <2>1. Start \in Nat
    BY TriggersAssumption, FS_CardinalityType DEF Start
  <2> QED BY <1>8, <2>1 DEF Errored, ToldInv, NoPage
<1>9. CASE Mined
  BY <1>9, TriggersAssumption DEF Mined, listener, ToldInv
<1>10. ASSUME NEW l \in Lnds, NEW c \in NewChannels, ChannelUpdated(l, c) PROVE TriggersInv'
  <2>1. /\ following = "on" /\ c \notin channels /\ tellings[c] = 0 /\ OpenedAt[c] >= LowHeight
        /\ channels' = channels \cup {c} /\ tellings' = [tellings EXCEPT ![c] = 1]
    <3>1. startHeight[l] \in LowHeight .. HighHeight /\ OpenedAt[c] >= startHeight[l]
      BY <1>10 DEF ChannelUpdated
    <3>2. OpenedAt[c] \in Nat /\ LowHeight \in Nat
      BY TriggersAssumption
    <3>3. following = "on" /\ c \notin channels /\ tellings[c] = 0
      BY <1>10 DEF ChannelUpdated, ToldInv
    <3> QED BY <1>10, <3>1, <3>2, <3>3 DEF ChannelUpdated, Marked
  <2>2. ToldInv'
    BY <1>10, <2>1 DEF ChannelUpdated, ToldInv
  <2> QED BY <1>10, <2>1, <2>2 DEF ChannelUpdated
<1>11. CASE UNCHANGED triggered
  BY <1>11 DEF triggered, ToldInv
<1> QED
  BY <1>1, <1>2, <1>3, <1>4, <1>5, <1>6, <1>7, <1>8, <1>9, <1>10, <1>11
     DEF TriggersNext, ListenerStep

-----------------------------------------------------------------------------
(* Key send                                                                *)

\* What may be answered with a pong
Settled(p) == delivery[p].kind = "simulated" \/ invoice[p] = "paid"
\* A pong in flight or settled pays the request of a ping, with no more than it brought
PongRecord == [state : {"none", "flight", "settled", "failed"}, ping : Pings \cup {"none"},
               cost : Nat]
OfItsPing(q) ==
  pongs[q].state \in {"flight", "settled"} =>
    /\ pongs[q].ping \in Pings /\ delivery[pongs[q].ping].hash = q
    /\ pongs[q].cost <= delivery[pongs[q].ping].received /\ Settled(pongs[q].ping)
\* What is told of an invoice that was paid is true, and only such a one or a simulated
\* one is answered
PaidTasks ==
  /\ \A t \in live : t[2] = "paid" => invoice[t[1]] = "paid"
  /\ \A t \in Tasks : task[t] \notin {"none", "done"} => Settled(t[1])
KeySendInv ==
  /\ KeySendTypes /\ pongs \in [Hashes -> PongRecord]
  /\ delivery \in Deliveries \/ delivery = [p \in Pings |-> NoPing]
  /\ \A q \in Hashes : OfItsPing(q)
  /\ PaidTasks

LEMMA KeySendStart == ASSUME KeySendInit \/ NotServing PROVE KeySendInv
<1>1. Quiet /\ (delivery \in Deliveries \/ delivery = [p \in Pings |-> NoPing])
  BY DEF KeySendInit, NotServing
<1>2. KeySendTypes
  <2>1. 0 \in 0 .. Starts
    BY DeliveriesAssumption
  <2>2. \A q \in Hashes : pongs[q] = NoPong
    BY <1>1 DEF Quiet
  <2>3. task \in [Tasks -> Stages]
    BY <1>1 DEF Quiet, Stages
  <2> QED BY <1>1, <2>1, <2>2, <2>3 DEF Quiet, KeySendTypes, NoPong
<1>3. PaidTasks
  BY <1>1 DEF Quiet, PaidTasks
<1> QED BY <1>1, <1>2, <1>3 DEF Quiet, NoPong, PongRecord, OfItsPing, KeySendInv

\* What a ping may be
LEMMA DeliveryType ==
  ASSUME KeySendInv, NEW p \in Pings
  PROVE  delivery[p].received \in Nat /\ (delivery[p].request => delivery[p].hash \in Hashes)
BY DeliveriesAssumption DEF KeySendInv, NoPing

\* A step that makes no pong and no payment undone keeps those there are
LEMMA PongsKept ==
  ASSUME KeySendInv, UNCHANGED <<delivery, pongs>>,
         \A p \in Pings : invoice[p] = "paid" => invoice'[p] = "paid"
  PROVE  (\A q \in Hashes : OfItsPing(q)') /\ (\A p \in Pings : Settled(p) => Settled(p)')
<1>1. \A p \in Pings : Settled(p) => Settled(p)'
  BY DEF Settled
<1>2. ASSUME NEW q \in Hashes PROVE OfItsPing(q)'
  BY <1>1 DEF KeySendInv, OfItsPing
<1> QED BY <1>1, <1>2

\* A step of a response begins none
LEMMA TaskGoesOn ==
  ASSUME KeySendInv, NEW t \in Tasks, NEW e \in Stages, At(t, e), UNCHANGED <<delivery, invoice, live>>,
         task[t] \notin {"none", "done"} \/ e \in {"none", "done"} \/ Settled(t[1])
  PROVE  task' \in [Tasks -> Stages] /\ PaidTasks'
<1>1. task \in [Tasks -> Stages] /\ task' = [task EXCEPT ![t] = e]
  BY DEF KeySendInv, KeySendTypes, At
<1>2. \A p \in Pings : Settled(p)' = Settled(p)
  BY DEF Settled
<1>3. ASSUME NEW c \in Tasks, task'[c] \notin {"none", "done"} PROVE Settled(c[1])'
  <2>1. c[1] \in Pings
    BY DEF Tasks
  <2>2. task[c] \notin {"none", "done"} \/ Settled(c[1])
    BY <1>1, <1>3
  <2> QED BY <1>2, <2>1, <2>2 DEF KeySendInv, PaidTasks
<1> QED BY <1>1, <1>3 DEF KeySendInv, PaidTasks

\* One step per action that is not of a response, and one for each kind of those
LEMMA KeySendStep ==
  ASSUME KeySendInv, [KeySendNext]_keySend PROVE KeySendInv'
<1>0. /\ Starts \in Nat
      /\ \A t \in Tasks : t[1] \in Pings
  BY DeliveriesAssumption DEF Tasks
<1>1. CASE Serve
  <2>1. runs' \in 0 .. Starts /\ serving' \in 0 .. Starts
    <3>1. runs \in 0 .. Starts /\ runs < Starts /\ runs' = runs + 1 /\ serving' = runs + 1
      BY <1>1 DEF Serve, KeySendInv, KeySendTypes
    <3> QED BY <1>0, <3>1
  <2>2. PaidTasks'
    BY <1>1, <1>0 DEF Serve, KeySendInv, PaidTasks, Settled
  <2> QED BY <1>1, <2>1, <2>2, PongsKept DEF Serve, KeySendInv, KeySendTypes
<1>2. CASE StopServing
  <2>1. PaidTasks'
    BY <1>2 DEF StopServing, PaidTasks
  <2> QED BY <1>0, <1>2, <2>1, PongsKept DEF StopServing, KeySendInv, KeySendTypes, Stages
<1>3. CASE ProcessPast
  <2>1. task' \in [Tasks -> Stages]
    BY <1>3 DEF ProcessPast, Stages, KeySendInv, KeySendTypes
  <2>2. UNCHANGED <<delivery, serving, runs, invoice, old, live, locks, pongs>> /\ paged' = TRUE
    BY <1>3 DEF ProcessPast
  <2>3. ASSUME NEW t \in Tasks, task'[t] \notin {"none", "done"} PROVE Settled(t[1])'
    <3>1. task[t] \notin {"none", "done"} \/ Taken(t[1], invoice[t[1]])
      BY <1>3, <2>3 DEF ProcessPast
    <3> QED BY <2>2, <3>1 DEF KeySendInv, PaidTasks, Taken, Settled
  <2>4. PaidTasks'
    BY <2>2, <2>3 DEF KeySendInv, PaidTasks
  <2> QED BY <2>1, <2>2, <2>4, PongsKept DEF KeySendInv, KeySendTypes
<1>4. CASE ProcessNew
  <2>1. PICK t \in live : /\ live' = live \ {t}
                          /\ IF Taken(t[1], t[2]) THEN At(t, "lock") ELSE UNCHANGED task
    BY <1>4 DEF ProcessNew
  <2>2. UNCHANGED <<delivery, serving, runs, invoice, old, paged, locks, pongs>>
    BY <1>4 DEF ProcessNew
  <2>3. t \in Tasks /\ live' \subseteq Pings \X {"open", "paid"}
    BY <2>1 DEF KeySendInv, KeySendTypes, Tasks
  <2>4. task' \in [Tasks -> Stages]
    BY <2>1, <2>3 DEF At, Stages, KeySendInv, KeySendTypes
  <2>5. ASSUME NEW c \in Tasks, task'[c] \notin {"none", "done"} PROVE Settled(c[1])'
    <3>1. task[c] \notin {"none", "done"} \/ (c = t /\ Taken(t[1], t[2]))
      BY <2>1, <2>3, <2>5 DEF At, KeySendInv, KeySendTypes
    <3>2. Taken(t[1], t[2]) => Settled(t[1])
      BY <2>1 DEF Taken, Settled, KeySendInv, PaidTasks
    <3>3. Settled(c[1])
      BY <3>1, <3>2 DEF KeySendInv, PaidTasks
    <3> QED BY <2>2, <3>3 DEF Settled
  <2>6. PaidTasks'
    BY <2>1, <2>2, <2>5 DEF KeySendInv, PaidTasks
  <2> QED BY <2>2, <2>3, <2>4, <2>6, PongsKept DEF KeySendInv, KeySendTypes
<1>5. ASSUME NEW t \in Tasks, Lock(t) \/ GetStatus(t) \/ GetAlias(t) \/ PongAnswered(t)
      PROVE  KeySendInv'
  <2>1. /\ UNCHANGED <<delivery, serving, runs, invoice, old, live, paged, locks, pongs>>
        /\ task[t] \in {"lock", "status", "alias", "paying"}
        /\ \E e \in Stages : At(t, e)
    BY <1>5 DEF Lock, GetStatus, GetAlias, PongAnswered, TasksOnly, Stages
  <2>2. task' \in [Tasks -> Stages] /\ PaidTasks'
    BY <2>1, TaskGoesOn
  <2> QED BY <2>1, <2>2, PongsKept DEF KeySendInv, KeySendTypes
<1>6. ASSUME NEW t \in Tasks, SendPong(t) PROVE KeySendInv'
  <2>1. UNCHANGED <<delivery, serving, runs, invoice, old, live, paged, locks>> /\ task[t] = "pong"
    BY <1>6 DEF SendPong, TasksOnly
  <2>2. task' \in [Tasks -> Stages] /\ PaidTasks'
    <3>1. \E e \in Stages : At(t, e)
      BY <1>6 DEF SendPong, Stages
    <3> QED BY <2>1, <3>1, TaskGoesOn
  <2>3. CASE UNCHANGED pongs
    BY <2>1, <2>2, <2>3, PongsKept DEF KeySendInv, KeySendTypes
  <2>4. CASE pongs' # pongs
    <3>1. t[1] \in Pings /\ Settled(t[1]) /\ Settled(t[1])'
      BY <1>0, <2>1 DEF KeySendInv, PaidTasks, Settled
    <3>2. /\ delivery[t[1]].received \in Nat /\ delivery[t[1]].hash \in Hashes
          /\ Payable(delivery[t[1]])
      BY <1>6, <2>4, <3>1, DeliveryType DEF SendPong, Payable, Ping
    <3>3. PICK fee \in PongFees :
            /\ fee <= FeeBudget(Ping(t))
            /\ pongs' = [pongs EXCEPT ![Ping(t).hash] =
                 [state |-> "flight", ping |-> t[1], cost |-> PongTokens + fee]]
      BY <1>6, <2>4 DEF SendPong
    <3>4. PongTokens + fee \in Nat /\ PongTokens + fee <= delivery[t[1]].received
      <4>1. fee \in Nat /\ PongTokens \in Nat
        BY DeliveriesAssumption
      <4> QED BY <3>2, <3>3, <4>1 DEF FeeBudget, Ping
    <3>5. pongs' \in [Hashes -> PongRecord]
      BY <3>1, <3>2, <3>3, <3>4 DEF Ping, KeySendInv, PongRecord
    <3>6. ASSUME NEW q \in Hashes PROVE OfItsPing(q)'
      <4>1. CASE q = delivery[t[1]].hash
        <5>1. pongs'[q] = [state |-> "flight", ping |-> t[1], cost |-> PongTokens + fee]
          BY <3>3, <4>1 DEF Ping, KeySendInv
        <5> QED BY <2>1, <3>1, <3>2, <3>4, <4>1, <5>1 DEF OfItsPing
      <4>2. CASE q # delivery[t[1]].hash
        <5>1. pongs'[q] = pongs[q]
          BY <3>3, <4>2 DEF Ping, KeySendInv
        <5> QED BY <2>1, <5>1 DEF KeySendInv, OfItsPing, Settled
      <4> QED BY <4>1, <4>2
    <3>7. \A q \in Hashes : /\ pongs'[q].state \in {"none", "flight", "settled", "failed"}
                            /\ pongs'[q].cost \in Nat
      BY <3>5 DEF PongRecord
    <3> QED BY <2>1, <2>2, <3>5, <3>6, <3>7 DEF KeySendInv, KeySendTypes
  <2> QED BY <2>3, <2>4
<1>7. ASSUME NEW p \in Pings, NEW e \in {"open", "paid", "canceled"}, InvoiceIs(p, e),
             invoice[p] = "none" \/ (invoice[p] = "open" /\ e # "open")
      PROVE  KeySendInv'
  <2>1. /\ invoice' = [invoice EXCEPT ![p] = e]
        /\ live' = IF serving # 0 /\ e # "canceled" THEN live \cup {<<p, e>>} ELSE live
        /\ UNCHANGED <<delivery, serving, runs, old, paged, task, locks, pongs>>
    BY <1>7 DEF InvoiceIs
  <2>2. /\ invoice' \in [Pings -> {"none", "open", "paid", "canceled"}]
        /\ live' \subseteq Pings \X {"open", "paid"}
        /\ \A m \in Pings : invoice[m] = "paid" => invoice'[m] = "paid"
    BY <1>7, <2>1 DEF KeySendInv, KeySendTypes
  <2>3. PaidTasks'
    <3>1. ASSUME NEW t \in live', t[2] = "paid" PROVE invoice'[t[1]] = "paid"
      <4>1. CASE t \in live
        BY <2>2, <3>1, <4>1 DEF KeySendInv, KeySendTypes, PaidTasks
      <4>2. CASE t \notin live
        BY <2>1, <3>1, <4>2 DEF KeySendInv, KeySendTypes
      <4> QED BY <4>1, <4>2
    <3>2. ASSUME NEW t \in Tasks, task'[t] \notin {"none", "done"} PROVE Settled(t[1])'
      BY <1>0, <2>1, <2>2, <3>2, PongsKept DEF KeySendInv, PaidTasks
    <3> QED BY <3>1, <3>2 DEF PaidTasks
  <2> QED BY <2>1, <2>2, <2>3, PongsKept DEF KeySendInv, KeySendTypes
<1>8. CASE PingArrives \/ PingPaid \/ PingCanceled
  BY <1>7, <1>8 DEF PingArrives, PingPaid, PingCanceled
<1>9. CASE PingAges
  <2>1. old' \subseteq Pings /\ UNCHANGED <<delivery, serving, runs, invoice, live, paged, task, locks, pongs>>
    BY <1>9 DEF PingAges, KeySendInv, KeySendTypes
  <2>2. PaidTasks'
    BY <1>0, <2>1 DEF KeySendInv, PaidTasks, Settled
  <2> QED BY <2>1, <2>2, PongsKept DEF KeySendInv, KeySendTypes
<1>10. CASE PongEnds
  <2>1. PICK q \in Hashes, e \in {"settled", "failed"} :
          pongs[q].state = "flight" /\ pongs' = [pongs EXCEPT ![q].state = e]
    BY <1>10 DEF PongEnds
  <2>2. UNCHANGED <<delivery, serving, runs, invoice, old, live, paged, task, locks>>
    BY <1>10 DEF PongEnds
  <2>3. pongs' \in [Hashes -> PongRecord]
    BY <2>1 DEF KeySendInv, PongRecord
  <2>4. ASSUME NEW c \in Hashes PROVE OfItsPing(c)'
    <3>1. /\ pongs'[c].ping = pongs[c].ping /\ pongs'[c].cost = pongs[c].cost
          /\ pongs'[c].state \in {"flight", "settled"} => pongs[c].state \in {"flight", "settled"}
      BY <2>1 DEF KeySendInv, PongRecord
    <3> QED BY <2>2, <3>1 DEF KeySendInv, OfItsPing, Settled
  <2>5. PaidTasks'
    BY <1>0, <2>2 DEF KeySendInv, PaidTasks, Settled
  <2>6. \A c \in Hashes : /\ pongs'[c].state \in {"none", "flight", "settled", "failed"}
                          /\ pongs'[c].cost \in Nat
    BY <2>3 DEF PongRecord
  <2> QED BY <2>2, <2>3, <2>4, <2>5, <2>6 DEF KeySendInv, KeySendTypes
<1>11. CASE UNCHANGED keySend
  <2>1. PaidTasks'
    BY <1>0, <1>11 DEF keySend, KeySendInv, PaidTasks, Settled
  <2> QED BY <1>11, <2>1, PongsKept DEF keySend, KeySendInv, KeySendTypes
<1> QED
  BY <1>1, <1>2, <1>3, <1>4, <1>5, <1>6, <1>8, <1>9, <1>10, <1>11 DEF KeySendNext

\* The pongs of a ping are those of one request, and there is one at a time
LEMMA KeySendInvMeans == ASSUME KeySendInv PROVE PongsPaidFor
<1> DEFINE cost == [q \in Hashes |-> pongs[q].cost]
<1>1. SUFFICES ASSUME NEW p \in Pings
               PROVE  SumOver(cost, Costs(p)) <= delivery[p].received /\ (Costs(p) # {} => Settled(p))
  BY DEF PongsPaidFor, SumOver, Settled
<1>2. Costs(p) \subseteq {delivery[p].hash}
  BY DEF KeySendInv, OfItsPing, Costs
<1>3. delivery[p].received \in Nat
  BY DeliveryType
<1>4. ASSUME Costs(p) = {} PROVE SumOver(cost, Costs(p)) <= delivery[p].received
  <2>1. SumOver(cost, {}) = 0
    BY FS_EmptySet, SumStep
  <2> QED BY <1>3, <1>4, <2>1
<1>5. ASSUME Costs(p) # {} PROVE SumOver(cost, Costs(p)) <= delivery[p].received
  <2>1. Costs(p) = {delivery[p].hash} /\ delivery[p].hash \in Hashes
    BY <1>2, <1>5 DEF Costs
  <2>2. cost[delivery[p].hash] \in Nat /\ cost[delivery[p].hash] <= delivery[p].received
    BY <2>1 DEF KeySendInv, PongRecord, OfItsPing, Costs
  <2> HIDE DEF cost
  <2>3. SumOver(cost, {delivery[p].hash}) = cost[delivery[p].hash]
    BY <2>2, SumOfOne
  <2> QED BY <2>1, <2>2, <2>3
<1>6. Costs(p) # {} => Settled(p)
  BY DEF KeySendInv, OfItsPing, Costs
<1> QED BY <1>4, <1>5, <1>6

-----------------------------------------------------------------------------
(* The bot                                                                 *)

Polled(q, m) == poll[q][m].start # 0
Round(p) == p.after <= p.before /\ p.before <= now
\* A loop asks for times after those that it told of, up to now; there is none in a run
\* that did not begin
PollOk(q, m) ==
  /\ poll[q][m].start <= poll[q][m].after /\ poll[q][m].after <= now
  /\ poll[q][m].at = "asked" => Round(poll[q][m])
  /\ ~Polled(q, m) => poll[q][m].after = 0 /\ poll[q][m].at = "off"
  /\ q > run \/ (q = run /\ state \in {"start", "ask"}) => ~Polled(q, m)
\* What an earlier run asked for is before what a later one asks for
Apart(q, r, m) ==
  Polled(r, m) =>
    /\ poll[q][m].after <= poll[r][m].start
    /\ poll[q][m].at = "asked" => poll[q][m].before <= poll[r][m].start

PollRecord == [at : {"off", "poll", "asked", "wait"}, start : 0 .. LastTime,
               after : 0 .. LastTime, before : 0 .. LastTime]
PollsInv ==
  /\ poll \in [1 .. Runs -> [Nodes -> PollRecord]]
  /\ state \in {"start", "ask", "up"} => run # 0
  /\ \A q \in 1 .. Runs, m \in Nodes : PollOk(q, m)
  /\ \A q, r \in 1 .. Runs, m \in Nodes : q < r => Apart(q, r, m)
HandedInv ==
  /\ \A e \in Forwards \ Small : handed[e] = Cardinality(Covered(e))
  /\ \A e \in Small : handed[e] = 0
\* What the run tells of a trade that was made since it began was told by no other
PostsInv ==
  /\ \A e \in Updates : posted[e] <= 1 /\ (e \notin happened => posted[e] = 0)
  /\ \A e \in Trades : posted[e] <= 1 /\ (e \notin trades => posted[e] = 0)
  /\ state = "up" => \A e \in trades \ (earlier \cup begun) : posted[e] = 0
\* A telling of a transaction that was begun
Begun(e) == e \in reading \/ told[e] > 0
Alike(d, e) ==
  \/ d[2] = e[2] /\ d[3] /\ e[3]
  \/ d[1] = e[1] /\ ~d[3] /\ ~e[3] /\ Lockless(d[2]) \cap Lockless(e[2]) # {}
Remembered(e) ==
  IF e[3] THEN e[2] \in mined ELSE e[2] \in heard[e[1]] /\ Lockless(e[2]) \subseteq alike[e[1]]
TxInv ==
  /\ \A e \in Tellings : told[e] <= 1 /\ (e \in reading => told[e] = 0)
  /\ \A e \in Tellings : Begun(e) => Remembered(e)
  /\ \A d, e \in Tellings : Begun(d) /\ Begun(e) /\ Alike(d, e) => d = e
\* Only the last run has a backup that waits
CopyInv ==
  /\ copy <= backup
  /\ \A q \in 1 .. Runs : waiting[q] # 0 => q = run /\ waiting[q] > copy /\ waiting[q] <= backup
BotInv == TelegramTypes /\ PollsInv /\ HandedInv /\ PostsInv /\ CopyInv /\ TxInv

LEMMA RunsFinite ==
  /\ Runs \in Nat /\ LastTime \in Nat
  /\ \A S \in SUBSET (1 .. Runs) : IsFiniteSet(S) /\ Cardinality(S) \in Nat
<1>1. Runs \in Nat /\ LastTime \in Nat
  BY TellsAssumption
<1>2. IsFiniteSet(1 .. Runs)
  BY <1>1, FS_Interval
<1>3. ASSUME NEW S \in SUBSET (1 .. Runs) PROVE IsFiniteSet(S) /\ Cardinality(S) \in Nat
  BY <1>2, FS_Subset, FS_CardinalityType
<1> QED BY <1>1, <1>3

LEMMA BotStart == ASSUME TelegramInit \/ NoBot PROVE BotInv
<1>0. Runs \in Nat /\ LastTime \in Nat \ {0}
  BY TellsAssumption
<1>1. Silent /\ state \in {"off", "between"}
  BY DEF TelegramInit, NoBot, Becomes
<1>2. \A q \in 1 .. Runs, m \in Nodes : poll[q][m] = NoPoll
  BY <1>1 DEF Silent
<1>3. poll \in [1 .. Runs -> [Nodes -> PollRecord]]
  BY <1>0, <1>1 DEF Silent, NoPoll, PollRecord
<1>4. TelegramTypes
  BY <1>0, <1>1, <1>2 DEF Silent, NoPoll, TelegramTypes, TxTypes, States
<1>5. PollsInv
  BY <1>0, <1>1, <1>2, <1>3 DEF Silent, NoPoll, PollsInv, PollOk, Apart, Polled
<1>6. HandedInv
  <2>1. ASSUME NEW e \in Forwards PROVE Covered(e) = {} /\ handed[e] = 0
    BY <1>1 DEF Silent, Covered
  <2> QED BY <2>1, FS_EmptySet, TellsAssumption DEF HandedInv
<1>7. PostsInv
  BY <1>1 DEF Silent, PostsInv
<1>8. CopyInv
  BY <1>1 DEF Silent, CopyInv
<1>9. TxInv
  BY <1>1 DEF Silent, TxInv, Begun
<1> QED BY <1>4, <1>5, <1>6, <1>7, <1>8, <1>9 DEF BotInv

\* The times of a loop
LEMMA PollTypes ==
  ASSUME BotInv
  PROVE  /\ now \in Nat /\ now >= 1 /\ now <= LastTime /\ run \in Nat /\ backup \in Nat
         /\ \A q \in 1 .. Runs, m \in Nodes :
              /\ poll[q][m] \in PollRecord /\ poll[q][m].start \in Nat
              /\ poll[q][m].after \in Nat /\ poll[q][m].before \in Nat
         /\ \A e \in Forwards : forwardAt[e] \in Nat /\ Through[e] \in Nodes
<1>1. Runs \in Nat /\ LastTime \in Nat /\ Through \in [Forwards -> Nodes]
  BY TellsAssumption
<1>2. ASSUME NEW q \in 1 .. Runs, NEW m \in Nodes PROVE poll[q][m] \in PollRecord
  BY DEF BotInv, PollsInv
<1>3. ASSUME NEW q \in 1 .. Runs, NEW m \in Nodes
      PROVE  poll[q][m].start \in Nat /\ poll[q][m].after \in Nat /\ poll[q][m].before \in Nat
  BY <1>1, <1>2 DEF PollRecord
<1>4. now \in 1 .. LastTime /\ run \in 0 .. Runs /\ backup \in Nat
      /\ forwardAt \in [Forwards -> 0 .. LastTime]
  BY DEF BotInv, TelegramTypes
<1> QED BY <1>1, <1>2, <1>3, <1>4

\* The runs that polled for the time of a forward are one or none
LEMMA CoveredOnce ==
  ASSUME BotInv, NEW e \in Forwards PROVE Cardinality(Covered(e)) <= 1
<1>1. Covered(e) \in SUBSET (1 .. Runs)
  BY DEF Covered
<1>2. ASSUME NEW q \in Covered(e), NEW r \in Covered(e), q < r PROVE FALSE
  <2>1. q \in 1 .. Runs /\ r \in 1 .. Runs /\ Through[e] \in Nodes
    BY <1>1, PollTypes
  <2>2. /\ forwardAt[e] < poll[q][Through[e]].after
        /\ forwardAt[e] >= poll[r][Through[e]].start /\ forwardAt[e] < poll[r][Through[e]].after
    BY DEF Covered
  <2>3. Apart(q, r, Through[e]) /\ PollOk(r, Through[e])
    BY <1>2, <2>1 DEF BotInv, PollsInv
  <2>4. /\ forwardAt[e] \in Nat /\ poll[q][Through[e]].after \in Nat
        /\ poll[r][Through[e]].start \in Nat /\ poll[r][Through[e]].after \in Nat
    BY <2>1, PollTypes
  <2>5. Polled(r, Through[e])
    BY <2>2, <2>3, <2>4 DEF PollOk
  <2> QED BY <2>2, <2>3, <2>4, <2>5 DEF Apart
<1>3. CASE Covered(e) = {}
  BY <1>3, FS_EmptySet
<1>4. CASE Covered(e) # {}
  <2>1. PICK q \in Covered(e) : TRUE
    BY <1>4
  <2>2. Covered(e) = {q}
    <3>1. ASSUME NEW r \in Covered(e) PROVE r = q
      <4>1. q \in Int /\ r \in Int
        BY <1>1, <2>1
      <4>2. ~(q < r) /\ ~(r < q)
        BY <1>2, <2>1
      <4> QED BY <4>1, <4>2
    <3> QED BY <2>1, <3>1
  <2> QED BY <2>2, FS_Singleton
<1> QED BY <1>3, <1>4

LEMMA BotInvMeans == ASSUME BotInv PROVE ToldByBot
<1>1. ForwardsHanded
  BY CoveredOnce DEF BotInv, HandedInv, ForwardsHanded
<1>2. TransactionsTold
  BY DEF BotInv, TxInv, Begun, Alike, TransactionsTold
<1>3. /\ \A e \in Updates \cup Trades : posted[e] <= 1
      /\ \A q \in 1 .. Runs : waiting[q] # 0 => waiting[q] > copy
  BY DEF BotInv, PostsInv, CopyInv
<1> QED BY <1>1, <1>2, <1>3 DEF ToldByBot

\* The steps that have nothing to do with transactions
LEMMA TxKept ==
  ASSUME BotInv, UNCHANGED bot, UNCHANGED chainTxs PROVE TxTypes' /\ TxInv'
<1>1. UNCHANGED <<mined, heard, alike, reading, told>>
  BY DEF chainTxs
<1>2. TxTypes'
  BY <1>1 DEF BotInv, TelegramTypes, TxTypes
<1>3. TxInv'
  BY <1>1 DEF BotInv, TxInv, Begun, Alike, Remembered, Lockless
<1> QED BY <1>2, <1>3

\* The life of the runs: nothing is told and no loop is changed
LEMMA LifeStep ==
  ASSUME BotInv, UNCHANGED bot, UNCHANGED telling, UNCHANGED world, TelegramTypes',
         \/ /\ run' = run + 1 /\ run < Runs /\ waiting = [q \in 1 .. Runs |-> 0]
            /\ state' # "up"
         \/ run' = run /\ (state' \in {"start", "ask", "up"} => state' = state)
  PROVE  BotInv'
<1>1. /\ UNCHANGED <<poll, handed, posted, waiting, copy, now, forwardAt, happened, backup>>
      /\ UNCHANGED <<trades, earlier, begun>> /\ UNCHANGED chainTxs
  BY DEF telling, dealt, world
<1>2. run \in Nat
  BY PollTypes
<1>3. ASSUME NEW q \in 1 .. Runs, NEW m \in Nodes PROVE PollOk(q, m)'
  <2>1. PollOk(q, m) /\ q \in Int
    BY DEF BotInv, PollsInv
  <2>2. q > run' \/ (q = run' /\ state' \in {"start", "ask"}) =>
          q > run \/ (q = run /\ state \in {"start", "ask"})
    BY <1>2, <2>1
  <2>3. Polled(q, m)' = Polled(q, m) /\ Round(poll[q][m])' = Round(poll[q][m])
    BY <1>1 DEF Polled, Round
  <2> QED BY <1>1, <2>1, <2>2, <2>3 DEF PollOk
<1>4. PollsInv'
  <2>1. state' \in {"start", "ask", "up"} => run' # 0
    BY <1>2 DEF BotInv, PollsInv
  <2>2. \A q, r \in 1 .. Runs, m \in Nodes : q < r => Apart(q, r, m)'
    BY <1>1 DEF BotInv, PollsInv, Apart, Polled
  <2> QED BY <1>1, <1>3, <2>1, <2>2 DEF BotInv, PollsInv
<1>5. HandedInv' /\ PostsInv'
  <2>1. HandedInv'
    BY <1>1 DEF BotInv, HandedInv, Covered
  <2>2. state' = "up" => state = "up"
    OBVIOUS
  <2> QED BY <1>1, <2>1, <2>2 DEF BotInv, PostsInv
<1>6. CopyInv'
  BY <1>1, <1>2 DEF BotInv, CopyInv
<1> QED BY <1>1, <1>4, <1>5, <1>6, TxKept DEF BotInv

\* The loops of a run begin at the time that it is up
FirstPoll == [NoPoll EXCEPT !.at = "poll", !.start = now, !.after = now]
LEMMA PollsBegin ==
  ASSUME BotInv, state \in {"start", "ask"}, state' = "up",
         poll' = [poll EXCEPT ![run] = [m \in Nodes |-> FirstPoll]],
         earlier' = trades, begun' = {},
         UNCHANGED <<bot, run, reachable, online, offline, handed, posted, waiting, copy, trades>>,
         UNCHANGED chainTxs, UNCHANGED world
  PROVE  BotInv'
<1>1. UNCHANGED <<now, forwardAt, happened, backup>>
  BY DEF world
<1>2. run \in 1 .. Runs /\ now \in 1 .. LastTime
  BY RunsFinite DEF BotInv, PollsInv, TelegramTypes
<1>3. /\ FirstPoll = [at |-> "poll", start |-> now, after |-> now, before |-> 0]
      /\ FirstPoll \in PollRecord
  <2>1. now \in 0 .. LastTime /\ 0 \in 0 .. LastTime
    BY <1>2, RunsFinite
  <2>2. FirstPoll = [at |-> "poll", start |-> now, after |-> now, before |-> 0]
    <3>1. [NoPoll EXCEPT !.at = "poll"] = [at |-> "poll", start |-> 0, after |-> 0, before |-> 0]
      BY DEF NoPoll
    <3>2. [[at |-> "poll", start |-> 0, after |-> 0, before |-> 0] EXCEPT !.start = now]
            = [at |-> "poll", start |-> now, after |-> 0, before |-> 0]
      OBVIOUS
    <3>3. [[at |-> "poll", start |-> now, after |-> 0, before |-> 0] EXCEPT !.after = now]
            = [at |-> "poll", start |-> now, after |-> now, before |-> 0]
      OBVIOUS
    <3> QED BY <3>1, <3>2, <3>3 DEF FirstPoll
  <2> QED BY <2>1, <2>2 DEF PollRecord
<1>4. /\ \A m \in Nodes : poll'[run][m] = FirstPoll
      /\ \A q \in 1 .. Runs : q # run => poll'[q] = poll[q]
      /\ poll' \in [1 .. Runs -> [Nodes -> PollRecord]]
  BY <1>2, <1>3 DEF BotInv, PollsInv
<1>5. TelegramTypes'
  <2>1. ASSUME NEW q \in 1 .. Runs, NEW m \in Nodes
        PROVE  /\ poll'[q][m].at \in {"off", "poll", "asked", "wait"}
               /\ poll'[q][m].after \in 0 .. LastTime
    BY <1>4 DEF PollRecord
  <2> QED BY <1>1, <2>1, TxKept DEF BotInv, TelegramTypes, States
<1>6. ASSUME NEW q \in 1 .. Runs, NEW m \in Nodes PROVE PollOk(q, m)'
  <2>1. PollOk(q, m)
    BY DEF BotInv, PollsInv
  <2>2. CASE q = run
    BY <1>1, <1>2, <1>3, <1>4, <2>2 DEF PollOk, Polled, Round
  <2>3. CASE q # run
    BY <1>1, <1>4, <2>1, <2>3 DEF PollOk, Polled, Round
  <2> QED BY <2>2, <2>3
<1>7. ASSUME NEW q \in 1 .. Runs, NEW r \in 1 .. Runs, NEW m \in Nodes, q < r PROVE Apart(q, r, m)'
  <2>1. Apart(q, r, m) /\ PollOk(q, m) /\ PollOk(r, m)
    BY <1>7 DEF BotInv, PollsInv
  <2>2. CASE r = run
    <3>1. q # run /\ poll'[q][m] = poll[q][m] /\ poll'[r][m].start = now
      BY <1>3, <1>4, <1>7, <2>2
    <3> QED BY <2>1, <3>1 DEF Apart, PollOk, Round
  <2>3. CASE q = run
    <3>1. ~Polled(r, m) /\ poll'[r][m] = poll[r][m]
      BY <1>2, <1>4, <1>7, <2>1, <2>3 DEF PollOk
    <3> QED BY <3>1 DEF Apart, Polled
  <2>4. CASE q # run /\ r # run
    BY <1>4, <2>1, <2>4 DEF Apart, Polled
  <2> QED BY <2>2, <2>3, <2>4
<1>8. PollsInv'
  BY <1>2, <1>4, <1>6, <1>7 DEF PollsInv
<1>9. ASSUME NEW e \in Forwards PROVE Covered(e)' = Covered(e)
  <2>1. forwardAt[e] \in Nat /\ Through[e] \in Nodes
    BY PollTypes
  <2>2. ~Polled(run, Through[e]) /\ poll[run][Through[e]].after = 0
    BY <1>2, <2>1 DEF BotInv, PollsInv, PollOk
  <2>3. poll'[run][Through[e]].start = now /\ poll'[run][Through[e]].after = now /\ now \in Nat
    BY <1>2, <1>3, <1>4, <2>1
  <2> QED BY <1>1, <1>4, <2>1, <2>2, <2>3 DEF Covered
<1>10. HandedInv'
  BY <1>9, TellsAssumption DEF BotInv, HandedInv
<1>11. PostsInv' /\ CopyInv'
  BY <1>1 DEF BotInv, PostsInv, CopyInv
<1> QED BY <1>5, <1>8, <1>10, <1>11, TxKept DEF BotInv

\* A loop goes on: its times stay in order, and apart from those of other runs
LEMMA LoopStep ==
  ASSUME BotInv, NEW q \in 1 .. Runs, NEW m \in Nodes, NEW p \in PollRecord,
         poll' = [poll EXCEPT ![q][m] = p], NotPolling,
         Polled(q, m), p.start = poll[q][m].start, p.start <= p.after, p.after <= now,
         p.at = "asked" => Round(p),
         p.after # poll[q][m].after => poll[q][m].at = "asked" /\ p.after = poll[q][m].before,
         p.at = "asked" => q = run,
         handed' \in [Forwards -> Nat]
  PROVE  TelegramTypes' /\ PollsInv' /\ PostsInv' /\ CopyInv' /\ TxInv'
<1>1. /\ UNCHANGED <<now, forwardAt, happened, backup, posted, waiting, copy>>
      /\ UNCHANGED <<bot, run, state, reachable, online, offline, trades, earlier, begun>>
      /\ UNCHANGED chainTxs
  BY DEF world, dealt, NotPolling, Life
<1>2. /\ poll'[q][m] = p
      /\ \A r \in 1 .. Runs, o \in Nodes : r # q \/ o # m => poll'[r][o] = poll[r][o]
      /\ poll' \in [1 .. Runs -> [Nodes -> PollRecord]]
  BY DEF BotInv, PollsInv
<1>3. TelegramTypes'
  <2>1. ASSUME NEW r \in 1 .. Runs, NEW o \in Nodes
        PROVE  /\ poll'[r][o].at \in {"off", "poll", "asked", "wait"}
               /\ poll'[r][o].after \in 0 .. LastTime
    BY <1>2 DEF PollRecord
  <2> QED BY <1>1, <2>1, TxKept DEF BotInv, TelegramTypes
<1>4. ASSUME NEW r \in 1 .. Runs, NEW o \in Nodes PROVE PollOk(r, o)'
  <2>1. PollOk(r, o) /\ PollOk(q, m)
    BY DEF BotInv, PollsInv
  <2>2. CASE r = q /\ o = m
    BY <1>1, <1>2, <2>1, <2>2 DEF PollOk, Polled, Round
  <2>3. CASE r # q \/ o # m
    BY <1>1, <1>2, <2>1, <2>3 DEF PollOk, Polled, Round
  <2> QED BY <2>2, <2>3
<1>5. ASSUME NEW r \in 1 .. Runs, NEW s \in 1 .. Runs, NEW o \in Nodes, r < s PROVE Apart(r, s, o)'
  <2>1. Apart(r, s, o) /\ PollOk(s, o)
    BY <1>5 DEF BotInv, PollsInv
  <2>2. poll'[s][o].start = poll[s][o].start
    BY <1>2
  <2>3. CASE r = q /\ o = m
    <3>1. p.at = "asked" => ~Polled(s, o)
      <4>1. run \in Nat
        BY PollTypes
      <4> QED BY <1>5, <2>1, <2>3, <4>1 DEF PollOk
    <3> QED BY <1>2, <2>1, <2>2, <2>3, <3>1 DEF Apart, Polled
  <2>4. CASE r # q \/ o # m
    BY <1>2, <2>1, <2>2, <2>4 DEF Apart, Polled
  <2> QED BY <2>3, <2>4
<1>6. PollsInv'
  BY <1>1, <1>2, <1>4, <1>5 DEF BotInv, PollsInv
<1>7. PostsInv' /\ CopyInv'
  BY <1>1 DEF BotInv, PostsInv, CopyInv
<1> QED BY <1>1, <1>3, <1>6, <1>7, TxKept

\* What a loop covers is what it told of, unless its cursor moves
LEMMA SameHanded ==
  ASSUME BotInv, NEW q \in 1 .. Runs, NEW m \in Nodes, NEW p \in PollRecord,
         poll' = [poll EXCEPT ![q][m] = p], UNCHANGED <<handed, forwardAt>>,
         p.start = poll[q][m].start, p.after = poll[q][m].after
  PROVE  HandedInv' /\ handed' \in [Forwards -> Nat]
<1>1. \A r \in 1 .. Runs, o \in Nodes :
        poll'[r][o].start = poll[r][o].start /\ poll'[r][o].after = poll[r][o].after
  BY DEF BotInv, PollsInv
<1>2. ASSUME NEW e \in Forwards PROVE Covered(e)' = Covered(e)
  BY <1>1, PollTypes DEF Covered
<1> QED BY <1>2, TellsAssumption DEF BotInv, HandedInv, TelegramTypes

LEMMA LoopsStep ==
  ASSUME BotInv, NEW q \in 1 .. Runs, NEW m \in Nodes,
         AskForwards(q, m) \/ ForwardsAnswer(q, m) \/ PollAgain(q, m)
  PROVE  BotInv'
<1>1. /\ poll[q][m] \in PollRecord /\ PollOk(q, m) /\ poll[q][m].at # "off"
      /\ poll \in [1 .. Runs -> [Nodes -> PollRecord]]
  BY DEF BotInv, PollsInv, AskForwards, ForwardsAnswer, PollAgain
<1>2. Polled(q, m) /\ NotPolling
  BY <1>1 DEF PollOk, AskForwards, ForwardsAnswer, PollAgain
<1>3. /\ now \in Nat /\ now \in 0 .. LastTime
      /\ poll[q][m].start \in Nat /\ poll[q][m].after \in Nat /\ poll[q][m].before \in Nat
  BY PollTypes, RunsFinite
<1>4. UNCHANGED forwardAt
  BY <1>2 DEF NotPolling, world
\* The steps that leave the cursor alone
<1>5. ASSUME NEW p \in PollRecord, poll' = [poll EXCEPT ![q][m] = p], UNCHANGED handed,
             p.start = poll[q][m].start, p.after = poll[q][m].after,
             p.at = "asked" => q = run /\ p.before = now
      PROVE  BotInv'
  <2>1. HandedInv' /\ handed' \in [Forwards -> Nat]
    BY <1>4, <1>5, SameHanded
  <2>2. p.start <= p.after /\ p.after <= now /\ (p.at = "asked" => Round(p) /\ q = run)
    BY <1>1, <1>3, <1>5 DEF PollOk, Round
  <2>3. TelegramTypes' /\ PollsInv' /\ PostsInv' /\ CopyInv' /\ TxInv'
    BY <1>2, <1>5, <2>1, <2>2, LoopStep
  <2> QED BY <2>1, <2>3 DEF BotInv
<1>6. CASE AskForwards(q, m)
  <2>1. CASE q = run /\ state = "up"
    <3> DEFINE p == [poll[q][m] EXCEPT !.at = "asked", !.before = now]
    <3>1. p \in PollRecord
      BY <1>1, <1>3 DEF PollRecord
    <3>2. p.start = poll[q][m].start /\ p.after = poll[q][m].after /\ p.before = now
      BY <1>1 DEF PollRecord
    <3>3. poll' = [poll EXCEPT ![q][m] = p] /\ UNCHANGED handed
      BY <1>1, <1>6, <2>1 DEF AskForwards
    <3> HIDE DEF p
    <3> QED BY <1>5, <2>1, <3>1, <3>2, <3>3
  <2>2. CASE ~(q = run /\ state = "up")
    <3> DEFINE p == [poll[q][m] EXCEPT !.at = "off"]
    <3>1. p \in PollRecord
      BY <1>1 DEF PollRecord
    <3>2. p.start = poll[q][m].start /\ p.after = poll[q][m].after /\ p.at = "off"
      BY <1>1 DEF PollRecord
    <3>3. poll' = [poll EXCEPT ![q][m] = p] /\ UNCHANGED handed
      BY <1>1, <1>6, <2>2 DEF AskForwards
    <3> HIDE DEF p
    <3> QED BY <1>5, <3>1, <3>2, <3>3
  <2> QED BY <2>1, <2>2
<1>7. CASE PollAgain(q, m) \/ (ForwardsAnswer(q, m) /\ UNCHANGED handed /\ poll' = [poll EXCEPT ![q][m].at = "wait"])
  <2>1. PICK at \in {"poll", "wait"} : poll' = [poll EXCEPT ![q][m].at = at]
    BY <1>7 DEF PollAgain
  <2> DEFINE p == [poll[q][m] EXCEPT !.at = at]
  <2>2. p \in PollRecord
    BY <1>1 DEF PollRecord
  <2>3. p.start = poll[q][m].start /\ p.after = poll[q][m].after /\ p.at = at
    BY <1>1 DEF PollRecord
  <2>4. poll' = [poll EXCEPT ![q][m] = p] /\ UNCHANGED handed
    BY <1>1, <1>7, <2>1 DEF PollAgain
  <2> HIDE DEF p
  <2> QED BY <1>5, <2>2, <2>3, <2>4
\* The answer: what is found is told, and it was not covered before
<1>8. CASE /\ poll[q][m].at = "asked"
           /\ LET found == Between(m, poll[q][m].after, poll[q][m].before) \ Small IN
                /\ poll' = [poll EXCEPT ![q][m] =
                     [poll[q][m] EXCEPT !.at = "wait", !.after = Cursor(poll[q][m])]]
                /\ handed' = [f \in Forwards |-> IF f \in found THEN handed[f] + 1 ELSE handed[f]]
  <2> DEFINE p == [poll[q][m] EXCEPT !.at = "wait", !.after = poll[q][m].before]
  <2>1. /\ p.start = poll[q][m].start /\ p.after = poll[q][m].before /\ p.at = "wait"
        /\ p \in PollRecord
    BY <1>1 DEF PollRecord
  <2>2. poll' = [poll EXCEPT ![q][m] = p]
    BY <1>8 DEF Cursor
  <2>3. /\ p.start <= poll[q][m].after /\ poll[q][m].after <= p.after /\ p.after <= now
        /\ p.start \in Nat /\ p.after \in Nat
    BY <1>1, <1>3, <1>8, <2>1 DEF PollOk, Round
  <2>4. handed' \in [Forwards -> Nat]
    BY <1>8 DEF BotInv, TelegramTypes
  <2> HIDE DEF p
  <2>5. TelegramTypes' /\ PollsInv' /\ PostsInv' /\ CopyInv' /\ TxInv'
    <3>1. p.start <= p.after
      BY <1>3, <2>3
    <3> QED BY <1>2, <1>8, <2>1, <2>2, <2>3, <2>4, <3>1, LoopStep
  <2>6. ASSUME NEW e \in Forwards \ Small PROVE handed'[e] = Cardinality(Covered(e)')
    <3> DEFINE F == Between(m, poll[q][m].after, poll[q][m].before)
    <3>1. forwardAt[e] \in Nat /\ handed[e] = Cardinality(Covered(e)) /\ handed[e] \in Nat
      BY PollTypes DEF BotInv, HandedInv, TelegramTypes
    <3>2. /\ poll'[q][m] = p
          /\ \A r \in 1 .. Runs, o \in Nodes : r # q \/ o # m => poll'[r][o] = poll[r][o]
      BY <1>1, <2>2
    <3>3. handed'[e] = IF e \in F THEN handed[e] + 1 ELSE handed[e]
      BY <1>8
    <3>4. CASE e \in F
      <4>1. /\ Through[e] = m /\ forwardAt[e] # 0
            /\ forwardAt[e] >= poll[q][m].after /\ forwardAt[e] < poll[q][m].before
        BY <3>4 DEF Between
      <4>2. q \notin Covered(e)
        BY <1>3, <3>1, <4>1 DEF Covered
      <4>3. q \in Covered(e)'
        BY <1>3, <1>4, <2>1, <2>3, <3>1, <3>2, <4>1 DEF Covered
      <4>4. Covered(e)' = Covered(e) \cup {q}
        <5>1. \A r \in 1 .. Runs : r # q => (r \in Covered(e)' <=> r \in Covered(e))
          BY <1>4, <3>2, <4>1, PollTypes DEF Covered
        <5>2. Covered(e) \in SUBSET (1 .. Runs) /\ Covered(e)' \in SUBSET (1 .. Runs)
          BY DEF Covered
        <5> QED BY <4>3, <5>1, <5>2
      <4>5. Cardinality(Covered(e) \cup {q}) = Cardinality(Covered(e)) + 1
        <5>1. IsFiniteSet(Covered(e))
          BY RunsFinite DEF Covered
        <5> QED BY <4>2, <5>1, FS_AddElement
      <4> QED BY <3>1, <3>3, <3>4, <4>4, <4>5
    <3>5. CASE e \notin F
      <4>1. \A r \in 1 .. Runs : r \in Covered(e)' <=> r \in Covered(e)
        <5>1. ASSUME NEW r \in 1 .. Runs, r # q \/ Through[e] # m
              PROVE r \in Covered(e)' <=> r \in Covered(e)
          BY <1>4, <3>2, <5>1, PollTypes DEF Covered
        <5>2. ASSUME Through[e] = m PROVE q \in Covered(e)' <=> q \in Covered(e)
          <6>1. /\ q \in Covered(e)' <=> forwardAt[e] # 0 /\ forwardAt[e] >= p.start /\ forwardAt[e] < p.after
                /\ q \in Covered(e) <=> /\ forwardAt[e] # 0 /\ forwardAt[e] >= p.start
                                        /\ forwardAt[e] < poll[q][m].after
            BY <1>4, <2>1, <3>2, <5>2 DEF Covered
          <6>2. ~(forwardAt[e] # 0 /\ forwardAt[e] >= poll[q][m].after /\ forwardAt[e] < p.after)
            BY <2>1, <3>5, <5>2 DEF Between
          <6> QED BY <1>3, <2>3, <3>1, <6>1, <6>2
        <5> QED BY <5>1, <5>2
      <4>2. Covered(e)' = Covered(e)
        <5>1. Covered(e) \in SUBSET (1 .. Runs) /\ Covered(e)' \in SUBSET (1 .. Runs)
          BY DEF Covered
        <5> QED BY <4>1, <5>1
      <4> QED BY <3>1, <3>3, <3>5, <4>2
    <3> QED BY <3>4, <3>5
  <2>7. \A e \in Small : handed'[e] = 0
    BY <1>8, TellsAssumption DEF BotInv, HandedInv
  <2>8. HandedInv'
    BY <2>6, <2>7 DEF HandedInv
  <2> QED BY <2>5, <2>8 DEF BotInv
<1> QED BY <1>6, <1>7, <1>8 DEF ForwardsAnswer

\* The subscriptions and the world: the loops are not changed
LEMMA TellStep ==
  ASSUME BotInv, Update \/ TradeMade \/ TradeStarts \/ Backup \/ PostBackup PROVE BotInv'
<1>1. /\ UNCHANGED <<poll, handed, now, forwardAt>>
      /\ UNCHANGED <<bot, run, state, reachable, online, offline>> /\ UNCHANGED chainTxs
  BY DEF Update, TradeMade, TradeStarts, Backup, PostBackup, Life, world
<1>2. PollsInv' /\ HandedInv' /\ TxTypes' /\ TxInv'
  BY <1>1, TxKept DEF BotInv, PollsInv, PollOk, Polled, Round, Apart, HandedInv, Covered
<1>3. /\ run \in Nat /\ Runs \in Nat /\ backup \in Nat /\ copy \in Nat
      /\ \A e \in Updates \cup Trades : posted[e] \in Nat
      /\ Listening \subseteq 1 .. Runs /\ (Listening = {} \/ Listening = {run})
      /\ \A q \in 1 .. Runs : waiting[q] \in Nat
  BY RunsFinite DEF BotInv, PollsInv, TelegramTypes, Listening
<1>4. CASE Update
  <2>1. PICK e \in Updates \ happened :
          /\ happened' = happened \cup {e}
          /\ posted' = [posted EXCEPT ![e] =
               IF Told(e) THEN @ + Cardinality(Listening) ELSE @]
    BY <1>4 DEF Update
  <2>2. Cardinality(Listening) \in 0 .. 1
    <3>1. CASE Listening = {}
      BY <3>1, FS_EmptySet
    <3>2. CASE Listening = {run}
      <4>1. Cardinality({run}) = 1
        BY FS_Singleton
      <4> QED BY <3>2, <4>1
    <3> QED BY <1>3, <3>1, <3>2
  <2>3. posted[e] = 0
    BY DEF BotInv, PostsInv
  <2>4. posted' \in [Updates \cup Trades -> Nat] /\ posted'[e] \in 0 .. 1
    BY <2>1, <2>2, <2>3 DEF BotInv, TelegramTypes
  <2>5. UNCHANGED <<waiting, copy, backup, trades, earlier, begun>>
    BY <1>4 DEF Update, dealt
  <2>6. TelegramTypes' /\ CopyInv'
    BY <1>1, <1>2, <2>1, <2>4, <2>5 DEF BotInv, TelegramTypes, CopyInv
  <2>7. PostsInv'
    <3>1. \A c \in Updates \cup Trades : c # e => posted'[c] = posted[c]
      BY <2>1 DEF BotInv, TelegramTypes
    <3>2. \A c \in Updates : posted'[c] <= 1 /\ (c \notin happened' => posted'[c] = 0)
      BY <2>1, <2>4, <3>1 DEF BotInv, PostsInv
    <3>3. \A c \in Trades : posted'[c] = posted[c]
      BY <2>1, <3>1, TellsAssumption
    <3>4. \A c \in Trades : posted'[c] <= 1 /\ (c \notin trades => posted'[c] = 0)
      BY <3>3 DEF BotInv, PostsInv
    <3>5. state = "up" => \A c \in trades \ (earlier \cup begun) : posted'[c] = 0
      BY <3>3 DEF BotInv, TelegramTypes, PostsInv
    <3> QED BY <1>1, <2>5, <3>2, <3>4, <3>5 DEF PostsInv
  <2> QED BY <1>2, <2>6, <2>7 DEF BotInv
<1>5. CASE TradeMade
  <2>1. PICK u \in Trades \ trades : trades' = trades \cup {u}
    BY <1>5 DEF TradeMade
  <2>2. UNCHANGED <<posted, happened, waiting, copy, earlier, begun, backup>>
    BY <1>5 DEF TradeMade, world
  <2>3. TelegramTypes' /\ CopyInv'
    BY <1>1, <1>2, <2>1, <2>2 DEF BotInv, TelegramTypes, CopyInv
  <2>4. PostsInv'
    BY <1>1, <2>1, <2>2 DEF BotInv, PostsInv
  <2> QED BY <1>2, <2>3, <2>4 DEF BotInv
<1>8. CASE TradeStarts
  <2>1. PICK u \in trades \ begun :
          /\ begun' = begun \cup {u}
          /\ posted' = [posted EXCEPT ![u] = IF Older(u) THEN @ ELSE @ + 1]
    BY <1>8 DEF TradeStarts
  <2>2. UNCHANGED <<happened, waiting, copy, trades, earlier, backup>> /\ state = "up"
    BY <1>8 DEF TradeStarts, world, Listening
  <2>3. u \in Trades /\ posted[u] \in Nat /\ (~Older(u) => posted[u] = 0) /\ posted[u] <= 1
    BY <1>3, <2>1, <2>2 DEF BotInv, TelegramTypes, PostsInv, Older
  <2>4. /\ posted' \in [Updates \cup Trades -> Nat] /\ posted'[u] <= 1
        /\ \A e \in Updates \cup Trades : e # u => posted'[e] = posted[e]
    BY <2>1, <2>3 DEF BotInv, TelegramTypes
  <2>5. TelegramTypes' /\ CopyInv'
    BY <1>1, <1>2, <2>1, <2>2, <2>3, <2>4 DEF BotInv, TelegramTypes, CopyInv
  <2>6. PostsInv'
    <3>1. \A e \in Updates : posted'[e] = posted[e]
      BY <2>3, <2>4, TellsAssumption
    <3>2. \A e \in Trades : posted'[e] <= 1 /\ (e \notin trades => posted'[e] = 0)
      BY <2>1, <2>3, <2>4 DEF BotInv, PostsInv
    <3>3. \A e \in trades \ (earlier \cup begun') : posted'[e] = 0
      BY <2>1, <2>2, <2>4 DEF BotInv, TelegramTypes, PostsInv
    <3> QED BY <2>2, <3>1, <3>2, <3>3 DEF BotInv, PostsInv
  <2> QED BY <1>2, <2>5, <2>6 DEF BotInv
<1>6. CASE Backup
  <2>1. /\ backup' = backup + 1 /\ UNCHANGED <<posted, happened, copy, trades, earlier, begun>>
        /\ waiting' = [q \in 1 .. Runs |-> IF q \in Listening THEN backup + 1 ELSE waiting[q]]
    BY <1>6 DEF Backup, dealt
  <2>2. TelegramTypes'
    BY <1>1, <1>2, <1>3, <2>1 DEF BotInv, TelegramTypes
  <2>3. CopyInv'
    <3>1. copy <= backup /\ copy < backup + 1 /\ copy <= backup + 1
      BY <1>3 DEF BotInv, CopyInv
    <3>2. ASSUME NEW q \in 1 .. Runs, waiting'[q] # 0
          PROVE  q = run /\ waiting'[q] > copy /\ waiting'[q] <= backup + 1
      <4>1. CASE q \in Listening
        <5>1. waiting'[q] = backup + 1
          BY <2>1, <4>1
        <5>2. q = run
          BY <1>3, <4>1
        <5> QED BY <1>3, <3>1, <5>1, <5>2
      <4>2. CASE q \notin Listening
        <5>1. waiting'[q] = waiting[q] /\ waiting[q] \in Nat
          <6>1. waiting'[q] = waiting[q]
            BY <2>1, <4>2
          <6> QED BY <1>3, <6>1
        <5>2. q = run /\ waiting[q] > copy /\ waiting[q] <= backup
          BY <3>2, <5>1 DEF BotInv, CopyInv
        <5> QED BY <1>3, <5>1, <5>2
      <4> QED BY <4>1, <4>2
    <3> QED BY <1>1, <2>1, <3>1, <3>2 DEF CopyInv
  <2>4. PostsInv'
    BY <1>1, <2>1 DEF BotInv, PostsInv
  <2> QED BY <1>2, <2>2, <2>3, <2>4 DEF BotInv
<1>7. CASE PostBackup
  <2>1. PICK r \in 1 .. Runs :
          waiting[r] # 0 /\ copy' = waiting[r] /\ waiting' = [waiting EXCEPT ![r] = 0]
    BY <1>7 DEF PostBackup
  <2>2. UNCHANGED <<posted, happened, backup, trades, earlier, begun>>
    BY <1>7 DEF PostBackup, dealt, world
  <2>3. TelegramTypes'
    BY <1>1, <1>2, <1>3, <2>1, <2>2 DEF BotInv, TelegramTypes
  <2>4. CopyInv'
    BY <1>1, <2>1, <2>2 DEF BotInv, TelegramTypes, CopyInv
  <2>5. PostsInv'
    BY <1>1, <2>2 DEF BotInv, PostsInv
  <2> QED BY <1>2, <2>3, <2>4, <2>5 DEF BotInv
<1> QED BY <1>4, <1>5, <1>6, <1>7, <1>8

\* The transactions: what is told of is remembered, so that it is not told of again
LEMMA TransactionStep == ASSUME BotInv, Transaction PROVE BotInv'
<1>1. /\ UNCHANGED <<poll, handed, posted, waiting, copy, told, now, forwardAt, happened, backup>>
      /\ UNCHANGED <<trades, earlier, begun, bot, run, state, reachable, online, offline>>
  BY DEF Transaction, dealt, world, Life
<1>2. PICK x \in Txs \ mined, confirmed \in BOOLEAN :
        LET hear == {r \in Listening : NotSeen(r, x, confirmed)} IN
          /\ mined' = IF confirmed THEN mined \cup {x} ELSE mined
          /\ heard' = [r \in 1 .. Runs |-> IF r \in hear THEN heard[r] \cup {x} ELSE heard[r]]
          /\ alike' = [r \in 1 .. Runs |-> IF r \in hear /\ ~confirmed
                                          THEN alike[r] \cup Lockless(x) ELSE alike[r]]
          /\ reading' = reading \cup
               {<<r, x, confirmed>> : r \in {q \in hear : NotAlike(q, x, confirmed)}}
  BY DEF Transaction
<1> DEFINE hear == {r \in Listening : NotSeen(r, x, confirmed)}
           new == {<<r, x, confirmed>> : r \in {q \in hear : NotAlike(q, x, confirmed)}}
<1>3. /\ hear \subseteq 1 .. Runs /\ \A q, r \in hear : q = r
      /\ new \subseteq Tellings
  <2>1. Listening \subseteq 1 .. Runs /\ \A q, r \in Listening : q = r
    BY RunsFinite DEF BotInv, PollsInv, TelegramTypes, Listening
  <2>2. hear \subseteq Listening
    OBVIOUS
  <2>3. new \subseteq Tellings
    <3>1. \A r \in hear : <<r, x, confirmed>> \in Tellings
      BY <2>1, <2>2 DEF Tellings
    <3> QED BY <3>1
  <2> QED BY <2>1, <2>2, <2>3
<1>4. TxTypes /\ \A e \in Tellings : e[1] \in 1 .. Runs /\ e[2] \in Txs /\ e[3] \in BOOLEAN
  BY DEF BotInv, TelegramTypes, Tellings
<1>5. /\ mined \subseteq mined' /\ reading' = reading \cup new
      /\ \A r \in 1 .. Runs : heard[r] \subseteq heard'[r] /\ alike[r] \subseteq alike'[r]
      /\ \A y \in Txs : Lockless(y)' = Lockless(y)
  BY <1>1, <1>2 DEF Lockless
<1>6. TxTypes'
  <2>1. mined' \subseteq Txs /\ heard' \in [1 .. Runs -> SUBSET Txs] /\ DOMAIN alike' = 1 .. Runs
    BY <1>2, <1>4 DEF TxTypes
  <2>2. reading' \subseteq Tellings
    BY <1>3, <1>4, <1>5 DEF TxTypes
  <2> QED BY <1>1, <1>4, <2>1, <2>2 DEF TxTypes, Tellings
\* A telling that begins is of none that began before, and of no one like it
<1>7. ASSUME NEW e \in new
      PROVE  /\ e \in Tellings /\ ~Begun(e) /\ Remembered(e)'
             /\ \A d \in Tellings : Begun(d) => ~Alike(d, e) /\ ~Alike(e, d)
  <2>1. PICK r \in hear : e = <<r, x, confirmed>> /\ NotAlike(r, x, confirmed)
    OBVIOUS
  <2>2. /\ e[1] = r /\ e[2] = x /\ e[3] = confirmed /\ r \in 1 .. Runs /\ NotSeen(r, x, confirmed)
        /\ e \in Tellings
    BY <1>3, <2>1
  <2>3. CASE confirmed
    <3>1. \A d \in Tellings : Begun(d) /\ d[3] => d[2] # x
      BY <1>2 DEF BotInv, TxInv, Remembered
    <3>2. x \in mined'
      BY <1>2, <2>3
    <3> QED BY <2>2, <2>3, <3>1, <3>2 DEF Remembered, Alike
  <2>4. CASE ~confirmed
    <3>1. x \notin heard[r] /\ Lockless(x) \cap alike[r] = {}
      BY <2>1, <2>2, <2>4 DEF NotSeen, NotAlike
    <3>2. ASSUME NEW d \in Tellings, Begun(d), d[1] = r, ~d[3]
          PROVE  d[2] # x /\ Lockless(d[2]) \cap Lockless(x) = {}
      BY <3>1, <3>2 DEF BotInv, TxInv, Remembered
    <3>3. x \in heard'[r] /\ Lockless(x) \subseteq alike'[r]
      BY <1>2, <2>2, <2>4
    <3>4. Remembered(e)'
      BY <1>5, <2>2, <2>4, <3>3 DEF Remembered
    <3> QED BY <2>2, <2>4, <3>2, <3>4 DEF Alike
  <2> QED BY <2>3, <2>4
<1>8. \A d, e \in new : d = e
  BY <1>3
<1> HIDE DEF new
<1>9. \A e \in Tellings : /\ Begun(e)' <=> Begun(e) \/ e \in new
                          /\ Remembered(e) => Remembered(e)'
  BY <1>1, <1>4, <1>5 DEF Begun, Remembered
<1>10. \A d, e \in Tellings : Alike(d, e)' = Alike(d, e)
  BY <1>4, <1>5 DEF Alike
<1>11. TxInv'
  <2>1. \A e \in Tellings : told'[e] <= 1 /\ (e \in reading' => told'[e] = 0)
    <3>1. ASSUME NEW e \in new PROVE told[e] = 0
      BY <1>4, <1>7 DEF Begun, TxTypes
    <3> QED BY <1>1, <1>5, <3>1 DEF BotInv, TxInv
  <2>2. \A e \in Tellings : Begun(e)' => Remembered(e)'
    BY <1>7, <1>9 DEF BotInv, TxInv
  <2>3. ASSUME NEW d \in Tellings, NEW e \in Tellings, Begun(d)', Begun(e)', Alike(d, e)'
        PROVE  d = e
    BY <1>7, <1>8, <1>9, <1>10, <2>3 DEF BotInv, TxInv
  <2> QED BY <2>1, <2>2, <2>3 DEF TxInv, Tellings
<1>12. TelegramTypes'
  BY <1>1, <1>6 DEF BotInv, TelegramTypes
<1>13. PollsInv' /\ HandedInv' /\ PostsInv' /\ CopyInv'
  BY <1>1 DEF BotInv, PollsInv, PollOk, Polled, Round, Apart, HandedInv, Covered, PostsInv, CopyInv
<1> QED BY <1>11, <1>12, <1>13 DEF BotInv

LEMMA RecordStep == ASSUME BotInv, RecordAnswers PROVE BotInv'
<1>1. /\ UNCHANGED <<poll, handed, posted, waiting, copy, mined, heard, alike, now, forwardAt,
                     happened, backup, trades, earlier, begun, bot, run, reachable, online, offline>>
      /\ state' \in {state, "ended"}
  BY DEF RecordAnswers, Becomes, dealt, world
<1>2. PICK e \in reading : reading' = reading \ {e} /\ told' \in {told, [told EXCEPT ![e] = @ + 1]}
  BY DEF RecordAnswers
<1>3. TxTypes /\ e \in Tellings /\ told[e] = 0
  BY DEF BotInv, TelegramTypes, TxTypes, TxInv
<1>4. /\ told' \in [Tellings -> Nat] /\ told'[e] \in {0, 1}
      /\ \A d \in Tellings : d # e => told'[d] = told[d]
  BY <1>2, <1>3 DEF TxTypes
<1>5. TxTypes'
  BY <1>1, <1>2, <1>3, <1>4 DEF TxTypes, Tellings
<1>6. \A d \in Tellings : Begun(d)' => Begun(d)
  BY <1>2, <1>3, <1>4 DEF Begun
<1>7. TxInv'
  <2>1. \A d \in Tellings : told'[d] <= 1 /\ (d \in reading' => told'[d] = 0)
    BY <1>2, <1>4 DEF BotInv, TxInv
  <2>2. \A d \in Tellings : Begun(d)' => Remembered(d)'
    <3>1. \A d \in Tellings : Remembered(d)' = Remembered(d)
      BY <1>1 DEF Remembered, Lockless
    <3> QED BY <1>6, <3>1 DEF BotInv, TxInv
  <2>3. ASSUME NEW c \in Tellings, NEW d \in Tellings, Begun(c)', Begun(d)', Alike(c, d)'
        PROVE  c = d
    <3>1. Alike(c, d)
      BY <1>1, <2>3 DEF Alike, Lockless
    <3> QED BY <1>6, <2>3, <3>1 DEF BotInv, TxInv
  <2> QED BY <2>1, <2>2, <2>3 DEF TxInv, Tellings
<1>8. TelegramTypes'
  BY <1>1, <1>5 DEF BotInv, TelegramTypes, States
<1>9. PollsInv' /\ HandedInv' /\ PostsInv' /\ CopyInv'
  <2>1. state' \in {"start", "ask", "up"} => state' = state
    BY <1>1
  <2>2. \A q \in 1 .. Runs, m \in Nodes : PollOk(q, m)'
    BY <1>1, <2>1 DEF BotInv, PollsInv, PollOk, Polled, Round
  <2>3. PollsInv'
    BY <1>1, <2>1, <2>2 DEF BotInv, PollsInv, Apart, Polled
  <2>4. HandedInv' /\ PostsInv' /\ CopyInv'
    BY <1>1, <2>1 DEF BotInv, HandedInv, Covered, PostsInv, CopyInv
  <2> QED BY <2>3, <2>4
<1> QED BY <1>7, <1>8, <1>9 DEF BotInv

LEMMA WorldStep ==
  ASSUME BotInv, Tick \/ Forward PROVE BotInv'
<1>1. /\ UNCHANGED <<poll, handed, posted, waiting, copy, happened, backup>>
      /\ UNCHANGED <<bot, run, state, reachable, online, offline, trades, earlier, begun>>
      /\ UNCHANGED chainTxs
  BY DEF Tick, Forward, telling, dealt, Life
<1>2. PostsInv' /\ CopyInv' /\ TxTypes' /\ TxInv'
  BY <1>1, TxKept DEF BotInv, PostsInv, CopyInv
<1>3. CASE Tick
  <2>1. now' = now + 1 /\ now' \in 1 .. LastTime /\ UNCHANGED forwardAt
    BY <1>3, RunsFinite DEF Tick, BotInv, TelegramTypes
  <2>2. TelegramTypes'
    BY <1>1, <1>2, <2>1 DEF BotInv, TelegramTypes
  <2>3. ASSUME NEW q \in 1 .. Runs, NEW m \in Nodes PROVE PollOk(q, m)'
    BY <1>1, <2>1, PollTypes DEF BotInv, PollsInv, PollOk, Polled, Round
  <2>4. PollsInv'
    BY <1>1, <2>3 DEF BotInv, PollsInv, Apart, Polled
  <2>5. HandedInv'
    BY <1>1, <2>1 DEF BotInv, HandedInv, Covered
  <2> QED BY <1>2, <2>2, <2>4, <2>5 DEF BotInv
<1>4. CASE Forward
  <2>1. UNCHANGED now
    BY <1>4 DEF Forward
  <2>2. PICK f \in Forwards : forwardAt[f] = 0 /\ forwardAt' = [forwardAt EXCEPT ![f] = now]
    BY <1>4 DEF Forward
  <2>3. TelegramTypes'
    <3>1. forwardAt' \in [Forwards -> 0 .. LastTime]
      BY <2>2, PollTypes, RunsFinite DEF BotInv, TelegramTypes
    <3> QED BY <1>1, <1>2, <2>1, <3>1 DEF BotInv, TelegramTypes
  <2>4. PollsInv'
    BY <1>1, <2>1 DEF BotInv, PollsInv, PollOk, Polled, Round, Apart
  <2>5. ASSUME NEW e \in Forwards PROVE Covered(e)' = Covered(e)
    <3>1. CASE e = f
      <4>1. Covered(e) = {}
        BY <2>2, <3>1 DEF Covered
      <4>2. forwardAt'[e] = now /\ now \in Nat /\ Through[e] \in Nodes
        BY <2>2, <3>1, PollTypes DEF BotInv, TelegramTypes
      <4>3. \A q \in 1 .. Runs : ~(forwardAt'[e] < poll'[q][Through[e]].after)
        BY <1>1, <4>2, PollTypes DEF BotInv, PollsInv, PollOk
      <4> QED BY <4>1, <4>3 DEF Covered
    <3>2. CASE e # f
      BY <1>1, <2>2, <3>2 DEF Covered, BotInv, TelegramTypes
    <3> QED BY <3>1, <3>2
  <2>6. HandedInv'
    BY <1>1, <2>5, TellsAssumption DEF BotInv, HandedInv
  <2> QED BY <1>2, <2>3, <2>4, <2>6 DEF BotInv
<1> QED BY <1>3, <1>4

\* The user is asked for the connect code
LEMMA AskedStep ==
  ASSUME BotInv, state = "start", state' = "ask", TelegramTypes',
         UNCHANGED <<bot, run>>, UNCHANGED telling, UNCHANGED world
  PROVE  BotInv'
<1>1. /\ UNCHANGED <<poll, handed, posted, waiting, copy, now, forwardAt, happened, backup>>
      /\ UNCHANGED <<trades, earlier, begun>> /\ UNCHANGED chainTxs
  BY DEF telling, dealt, world
<1>2. PollsInv'
  BY <1>1 DEF BotInv, PollsInv, PollOk, Apart, Polled, Round
<1>3. HandedInv' /\ PostsInv' /\ CopyInv'
  BY <1>1 DEF BotInv, HandedInv, PostsInv, CopyInv, Covered
<1> QED BY <1>1, <1>2, <1>3, TxKept DEF BotInv

LEMMA BotStep ==
  ASSUME BotInv, [TelegramNext]_telegram PROVE BotInv'
<1>1. CASE StartRun
  <2>1. run' \in 0 .. Runs /\ run' = run + 1 /\ run < Runs /\ state' \in States
    <3>1. run \in 0 .. Runs /\ run < Runs /\ run' = run + 1
      BY <1>1 DEF StartRun, BotInv, TelegramTypes
    <3> QED BY <1>1, <3>1, RunsFinite DEF StartRun, Becomes, States
  <2>2. TelegramTypes'
    BY <1>1, <2>1, TxKept DEF StartRun, telling, dealt, world, BotInv, TelegramTypes
  <2> QED BY <1>1, <2>1, <2>2, LifeStep DEF StartRun, Becomes
<1>2. CASE GetNodes
  <2>1. CASE state' = "up"
    <3>1. /\ poll' = [poll EXCEPT ![run] = [m \in Nodes |-> FirstPoll]]
          /\ earlier' = trades /\ begun' = {}
      BY <1>2, <2>1 DEF GetNodes, Listens, FirstPoll
    <3> QED BY <1>2, <2>1, <3>1, PollsBegin DEF GetNodes
  <2>2. CASE state' # "up"
    <3>1. /\ state = "start" /\ state' \in {"ended", "ask"}
          /\ UNCHANGED <<bot, run, reachable, online, offline>>
          /\ UNCHANGED telling /\ UNCHANGED world
      BY <1>2, <2>2 DEF GetNodes, Becomes, telling, dealt
    <3>2. TelegramTypes'
      BY <3>1, TxKept DEF telling, dealt, world, BotInv, TelegramTypes, States
    <3>3. CASE state' = "ended"
      BY <3>1, <3>2, <3>3, LifeStep
    <3>4. CASE state' = "ask"
      BY <3>1, <3>2, <3>4, AskedStep
    <3> QED BY <3>1, <3>3, <3>4
  <2> QED BY <2>1, <2>2
<1>3. CASE AskUser
  <2>1. /\ poll' = [poll EXCEPT ![run] = [m \in Nodes |-> FirstPoll]] /\ state' = "up"
        /\ earlier' = trades /\ begun' = {}
    BY <1>3 DEF AskUser, Listens, FirstPoll, Becomes
  <2> QED BY <1>3, <2>1, PollsBegin DEF AskUser
<1>4. CASE RunFails \/ PostOffline \/ Reachable
  <2>1. /\ UNCHANGED <<bot, run>> /\ UNCHANGED telling /\ UNCHANGED world
        /\ state' \in {state, "ended", "between"}
    BY <1>4 DEF RunFails, PostOffline, Reachable, Becomes
  <2>2. TelegramTypes'
    <3>1. reachable' \subseteq Nodes /\ online' \subseteq Nodes /\ offline' \subseteq Nodes
      BY <1>4 DEF RunFails, PostOffline, Reachable, BotInv, TelegramTypes
    <3> QED BY <2>1, <3>1, TxKept DEF telling, dealt, world, BotInv, TelegramTypes, States
  <2> QED BY <2>1, <2>2, LifeStep
<1>5. ASSUME NEW r \in 1 .. Runs, NEW n \in Nodes,
             AskForwards(r, n) \/ ForwardsAnswer(r, n) \/ PollAgain(r, n)
      PROVE  BotInv'
  BY <1>5, LoopsStep
<1>6. CASE Update \/ TradeMade \/ TradeStarts \/ Backup \/ PostBackup
  BY <1>6, TellStep
<1>9. CASE Transaction \/ RecordAnswers
  BY <1>9, TransactionStep, RecordStep
<1>7. CASE Tick \/ Forward
  BY <1>7, WorldStep
<1>8. CASE UNCHANGED telegram
  <2>1. /\ UNCHANGED <<bot, run, state>> /\ UNCHANGED telling /\ UNCHANGED world
    BY <1>8 DEF telegram, telling, world
  <2>2. TelegramTypes'
    BY <1>8, <2>1, TxKept DEF telegram, telling, dealt, BotInv, TelegramTypes
  <2> QED BY <2>1, <2>2, LifeStep
<1> QED BY <1>1, <1>2, <1>3, <1>4, <1>5, <1>6, <1>7, <1>8, <1>9 DEF TelegramNext

-----------------------------------------------------------------------------
(* All the services                                                        *)

\* One service runs; a step of it is a stutter of the others, whose invariants hold when
\* they do nothing, too
ServicesInv == InboundInv /\ TriggersInv /\ KeySendInv /\ BotInv

LEMMA ServicesStart == ASSUME Init PROVE ServicesInv
<1>1. /\ InboundInit \/ NotIntercepting
      /\ TriggersInit \/ NotFollowing
      /\ KeySendInit \/ NotServing
      /\ TelegramInit \/ NoBot
  BY DEF Init
<1> QED BY <1>1, InboundStarts, TriggersStart, KeySendStart, BotStart DEF ServicesInv

LEMMA ServicesStep ==
  ASSUME ServicesInv, [Next]_vars PROVE ServicesInv'
<1>1. /\ [InboundNext]_inbound /\ [TriggersNext]_triggered
      /\ [KeySendNext]_keySend /\ [TelegramNext]_telegram
  BY DEF Next, vars, NextInbound, NextTrigger, NextKeySend, NextTelegram
<1> QED BY <1>1, InboundStep, TriggersStep, KeySendStep, BotStep DEF ServicesInv

THEOREM ServicesSafe == Spec => []ServicesInv
<1>1. Init => ServicesInv
  BY ServicesStart
<1>2. ServicesInv /\ [Next]_vars => ServicesInv'
  BY ServicesStep
<1> QED BY <1>1, <1>2, PTL DEF Spec

\* The types of the services, for any constants
THEOREM ServicesTypeOK == Spec => []TypeOK
<1>1. ServicesInv => TypeOK
  BY DEF ServicesInv, InboundInv, TriggersInv, KeySendInv, BotInv, TypeOK
<1> QED BY <1>1, ServicesSafe, PTL

\* The close addresses are given in turn to the peers that are accepted, each as often as
\* the list of them was gone through, and a peer is accepted only by rules that its
\* channels really keep, though checks overlap, blocks are mined and peers open channels
\* meanwhile (intercept_inbound_channels.js:182)
THEOREM InboundInTurn == Spec => []AcceptedInTurn
<1>1. ServicesInv => AcceptedInTurn
  BY InboundInvMeans DEF ServicesInv
<1> QED BY <1>1, ServicesSafe, PTL

\* What was told is not told again, for any number of runs: a new channel by the triggers;
\* by the bot a forward, an update and a trade in all its runs, a pending transaction, or one
\* that is the same but for its locktime, in each run, and a confirmation in all of them.
\* Answers are late and runs end and start again meanwhile, and a run that ended goes on
\* with the records that it reads (subscribe_to_triggers.js, start_telegram_bot.js:941, 1205)
THEOREM ServicesTellOnce == Spec => []ToldOnce
<1>1. TriggersInv => AnnouncedOnce
  BY DEF TriggersInv, ToldInv, AnnouncedOnce
<1>2. ServicesInv => ToldOnce
  BY <1>1, BotInvMeans DEF ServicesInv, ToldOnce
<1> QED BY <1>2, ServicesSafe, PTL

\* A pong is sent for a ping that was paid, and all of them cost no more than it paid,
\* though it is processed several times, again after restarts, and the lock of it is never
\* found (respond_to_key_send_request.js:74).  The pong of a simulated ping costs no more
\* than its invoice asks for, whether that was paid or not (key_send_request_arguments.js:43)
THEOREM ServicesArePaid == Spec => []PongsPaidFor
<1>1. ServicesInv => PongsPaidFor
  BY KeySendInvMeans DEF ServicesInv
<1> QED BY <1>1, ServicesSafe, PTL
=============================================================================
