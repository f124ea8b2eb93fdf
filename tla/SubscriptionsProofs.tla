------------------------ MODULE SubscriptionsProofs ------------------------
(***************************************************************************)
(* That the services that look tell each device what it asked for, whatever *)
(* the number of devices, links and characteristics and the size of a word. *)
(*                                                                         *)
(* The words of a control block stand for the configurations of one device *)
(* (Holds): the two bits of a characteristic are no other's, a link has a   *)
(* control block of its own, and what is stored is what the device had      *)
(* written.                                                                 *)
(***************************************************************************)
EXTENDS Subscriptions, FiniteSetTheorems, WellFoundedInduction, TLAPS

-----------------------------------------------------------------------------
(* Remainders, quotients and least elements *)

LEMMA Divided ==
  ASSUME NEW c \in Nat \ {0}, NEW a \in Int
  PROVE  a % c \in 0..(c - 1) /\ a \div c \in Int /\ a = c * (a \div c) + (a % c)
OBVIOUS

LEMMA Product ==
  ASSUME NEW c \in Nat \ {0}
  PROVE  /\ \A a, b \in Int : a <= b => c * a <= c * b
         /\ \A a \in Int, r \in 0..(c - 1) : c * a + r >= 0 => a >= 0
<1>1. ASSUME NEW a \in Int, NEW b \in Int, a <= b
      PROVE  c * a <= c * b
  <2> DEFINE e == b - a
  <2>1. e \in Nat /\ b = a + e
    BY <1>1
  <2> HIDE DEF e
  <2>2. c * e \in Nat /\ c * a \in Int
    BY <2>1
  <2>3. c * (a + e) = c * a + c * e
    BY <2>1
  <2> QED BY <2>1, <2>2, <2>3
<1>2. ASSUME NEW a \in Int, NEW r \in 0..(c - 1), c * a + r >= 0
      PROVE  a >= 0
  <2>1. a <= -1 => c * a <= c * (-1)
    BY <1>1
  <2> QED BY <1>2, <2>1
<1> QED
  BY <1>1, <1>2

LEMMA LeastOf ==
  ASSUME NEW S \in SUBSET Nat, S # {}
  PROVE  \E m \in S : \A n \in S : m <= n
<1> DEFINE R == OpToRel(<, Nat)
<1>1. IsWellFoundedOn(R, Nat)
  BY NatLessThanWellFounded
<1>2. \A m, n \in Nat : <<n, m>> \in R <=> n < m
  BY DEF OpToRel
<1> HIDE DEF R
<1>3. PICK m \in S : \A n \in S : ~(<<n, m>> \in R)
  BY <1>1, WFMin
<1>4. \A n \in S : ~(n < m)
  BY <1>2, <1>3, Zenon
<1> QED
  BY <1>4

LEMMA MinOf ==
  ASSUME NEW S \in SUBSET Nat, S # {}
  PROVE  Min(S) \in S /\ \A n \in S : Min(S) <= n
<1>1. \E m \in S : \A n \in S : m <= n
  BY LeastOf
<1> QED
  BY <1>1 DEF Min

LEMMA MinOfOne ==
  ASSUME NEW n \in Nat
  PROVE  Min({n}) = n
BY MinOf

-----------------------------------------------------------------------------
(* The bits of a characteristic *)

LEMMA MapFacts ==
  /\ Len(CccdMap) \in Nat /\ MapIndexes = 1..Len(CccdMap)
  /\ \A i \in MapIndexes : CccdMap[i].value \in Handles /\ CccdMap[i].descriptor \in Handles
<1> DEFINE S == [value: Handles, descriptor: Handles]
<1>1. CccdMap \in Seq(S)
  BY MapOfDatabase
<1> HIDE DEF S
<1>2. Len(CccdMap) \in Nat /\ DOMAIN CccdMap = 1..Len(CccdMap)
  BY <1>1
<1>3. \A i \in 1..Len(CccdMap) : CccdMap[i] \in S
  BY <1>1
<1>4. \A i \in 1..Len(CccdMap) : CccdMap[i].value \in Handles /\ CccdMap[i].descriptor \in Handles
  BY <1>3 DEF S
<1> QED
  BY <1>2, <1>4 DEF MapIndexes

LEMMA HalfWord == \E v \in Nat \ {0} : WordBits = 2 * v
<1>1. WordBits \in Nat \ {0} /\ WordBits % 2 = 0
  BY SubscriptionConstants
<1>2. WordBits = 2 * (WordBits \div 2) + (WordBits % 2) /\ WordBits \div 2 \in Int
  BY <1>1, Divided
<1> QED
  BY <1>1, <1>2

\* The two bits of a characteristic are in one of the words
LEMMA FieldType ==
  ASSUME NEW i \in MapIndexes
  PROVE  WordOf(i - 1) \in Words /\ OffsetOf(i - 1) \in Nat
<1> DEFINE a == (i - 1) * 2
           z == Len(CccdMap) * 2 + WordBits - 1
           q == a \div WordBits
           r == z \div WordBits
<1>1. i \in Nat /\ i >= 1 /\ i <= Len(CccdMap) /\ Len(CccdMap) \in Nat /\ WordBits \in Nat \ {0}
  BY MapFacts, SubscriptionConstants
<1>2. a \in Nat /\ z \in Nat /\ a + WordBits < z
  BY <1>1
<1> HIDE DEF a, z
<1>3. a % WordBits \in 0..(WordBits - 1) /\ q \in Int /\ a = WordBits * q + (a % WordBits)
  <2>1. \A x \in Int : /\ x % WordBits \in 0..(WordBits - 1) /\ x \div WordBits \in Int
                      /\ x = WordBits * (x \div WordBits) + (x % WordBits)
    BY <1>1, Divided
  <2> QED BY <1>2, <2>1
<1>4. z % WordBits \in 0..(WordBits - 1) /\ r \in Int /\ z = WordBits * r + (z % WordBits)
  BY <1>1, <1>2, Divided
<1> HIDE DEF q, r
<1>5. q >= 0
  BY <1>1, <1>2, <1>3, Product
<1>6. q + 1 <= r
  <2> SUFFICES ASSUME r <= q
               PROVE  FALSE
    BY <1>3, <1>4
  <2>1. WordBits * r <= WordBits * q
    BY <1>1, <1>3, <1>4, Product
  <2> QED BY <1>1, <1>2, <1>3, <1>4, <2>1
<1> QED
  BY <1>1, <1>3, <1>4, <1>5, <1>6 DEF WordOf, OffsetOf, Words, a, z, q, r

\* A bit belongs to one characteristic
LEMMA FieldsApart ==
  ASSUME NEW i \in MapIndexes, NEW j \in MapIndexes, NEW b \in {0, 1}, NEW c \in {0, 1},
         WordOf(i - 1) = WordOf(j - 1), OffsetOf(i - 1) + b = OffsetOf(j - 1) + c
  PROVE  i = j /\ b = c
<1> DEFINE q == ((i - 1) * 2) \div WordBits
           p == ((j - 1) * 2) \div WordBits
<1>1. i \in Nat /\ j \in Nat /\ WordBits \in Nat \ {0}
  BY MapFacts, SubscriptionConstants
<1>2. q \in Int /\ OffsetOf(i - 1) \in Int /\ (i - 1) * 2 = WordBits * q + OffsetOf(i - 1)
  BY <1>1, Divided DEF OffsetOf
<1>3. p \in Int /\ OffsetOf(j - 1) \in Int /\ (j - 1) * 2 = WordBits * p + OffsetOf(j - 1)
  BY <1>1, Divided DEF OffsetOf
<1>4. q = p
  BY <1>2, <1>3 DEF WordOf
<1>5. PICK v \in Nat : WordBits = 2 * v
  BY HalfWord
<1> HIDE DEF q, p
<1> DEFINE t == v * q
<1>6. t \in Int /\ WordBits * q = 2 * t
  BY <1>2, <1>5
<1> HIDE DEF t
<1> QED
  BY <1>1, <1>2, <1>3, <1>4, <1>6

LEMMA IndexFound ==
  ASSUME NEW i \in MapIndexes
  PROVE  /\ CccdIndex(CccdMap[i].value, "value") = i - 1
         /\ CccdIndex(CccdMap[i].descriptor, "descriptor") = i - 1
         /\ i - 1 # -1
<1>1. i \in Nat \ {0} /\ MapIndexes \subseteq Nat
  BY MapFacts
<1>2. {j \in MapIndexes : CccdMap[j].value = CccdMap[i].value} = {i}
  BY MapOfDatabase
<1>3. {j \in MapIndexes : CccdMap[j].descriptor = CccdMap[i].descriptor} = {i}
  BY MapOfDatabase
<1>4. Min({i}) = i
  BY <1>1, MinOfOne
<1>5. CccdIndex(CccdMap[i].value, "value") = i - 1
  BY <1>2, <1>4 DEF CccdIndex
<1>6. CccdIndex(CccdMap[i].descriptor, "descriptor") = i - 1
  BY <1>3, <1>4 DEF CccdIndex
<1> QED
  BY <1>1, <1>5, <1>6

-----------------------------------------------------------------------------
(* The words of a control block *)

WordSets == [Words -> SUBSET Nat]

\* The bits are those of the configurations of conf
Holds(bits, conf) ==
  /\ bits \in WordSets
  /\ \A i \in MapIndexes, b \in {0, 1} : OffsetOf(i - 1) + b \in bits[WordOf(i - 1)] <=> b \in conf[i]

LEMMA NothingHeld == Holds(NoBits, Silent)
BY FieldType DEF Holds, NoBits, Silent, WordSets

\* What is looked up is what is held
LEMMA GetHeld ==
  ASSUME NEW bits, NEW conf \in [MapIndexes -> Configurations], Holds(bits, conf),
         NEW i \in MapIndexes
  PROVE  /\ GetCccd(bits, CccdMap[i].value, "value") = conf[i]
         /\ GetCccd(bits, CccdMap[i].descriptor, "descriptor") = conf[i]
<1>1. {b \in {0, 1} : OffsetOf(i - 1) + b \in bits[WordOf(i - 1)]} = conf[i]
  BY DEF Holds, Configurations, Notification, Indication
<1> QED
  BY <1>1, IndexFound DEF GetCccd

\* A write changes what is held of the characteristic it names, and nothing else
LEMMA SetHeld ==
  ASSUME NEW bits, NEW conf \in [MapIndexes -> Configurations], Holds(bits, conf),
         NEW i \in MapIndexes, NEW value
  PROVE  Holds(SetCccd(bits, CccdMap[i].descriptor, value), [conf EXCEPT ![i] = value \cap {0, 1}])
<1> DEFINE w == WordOf(i - 1)
           o == OffsetOf(i - 1)
           set == {o + b : b \in value \cap {0, 1}}
           new == [bits EXCEPT ![w] = (@ \ {o, o + 1}) \cup set]
           then == [conf EXCEPT ![i] = value \cap {0, 1}]
<1>1. SetCccd(bits, CccdMap[i].descriptor, value) = new
  BY IndexFound DEF SetCccd
<1>2. w \in Words /\ o \in Nat /\ bits \in WordSets
  BY FieldType DEF Holds
<1>3. set \subseteq {o, o + 1} /\ set \subseteq Nat
  BY <1>2
<1>4. new \in WordSets
  <2> HIDE DEF w, set
  <2> QED BY <1>2, <1>3 DEF WordSets
<1>5. ASSUME NEW j \in MapIndexes, NEW c \in {0, 1}
      PROVE  OffsetOf(j - 1) + c \in new[WordOf(j - 1)] <=> c \in then[j]
  <2> DEFINE a == OffsetOf(j - 1) + c
  <2>1. WordOf(j - 1) \in Words /\ OffsetOf(j - 1) \in Nat
    BY FieldType
  <2>2. CASE j = i
    <3>1. new[w] = (bits[w] \ {o, o + 1}) \cup set
      BY <1>2 DEF WordSets
    <3>2. o + c \in {o, o + 1} /\ (o + c \in set <=> c \in value)
      BY <1>2
    <3> HIDE DEF new
    <3> QED BY <2>2, <3>1, <3>2
  <2>3. CASE j # i /\ WordOf(j - 1) = w
    <3>1. a # o + 0 /\ a # o + 1
      BY <2>3, FieldsApart
    <3>2. a \notin {o, o + 1}
      BY <1>2, <3>1
    <3>3. new[w] = (bits[w] \ {o, o + 1}) \cup set
      BY <1>2 DEF WordSets
    <3>4. a \in new[w] <=> a \in bits[w]
      <4> HIDE DEF new, set, a
      <4> QED BY <1>3, <3>2, <3>3
    <3> QED BY <2>3, <3>4 DEF Holds
  <2>4. CASE j # i /\ WordOf(j - 1) # w
    <3>1. new[WordOf(j - 1)] = bits[WordOf(j - 1)]
      BY <1>2, <2>1, <2>4 DEF WordSets
    <3> QED BY <2>4, <3>1 DEF Holds
  <2> QED BY <2>2, <2>3, <2>4
<1> QED
  BY <1>1, <1>4, <1>5 DEF Holds

-----------------------------------------------------------------------------
(* The inductive invariant *)

Ids == LinkIds \cup {NoLinkId}

SubTypes ==
  /\ slot \in [Slots -> [in_use: BOOLEAN, conn_id: Ids, cccd_bits: WordSets]]
  /\ bearer \in [Peers -> [conn_id: Ids, mtu: {n \in Nat : 3 <= n}]]
  /\ stored \in [Peers -> WordSets \cup {NoEntry}] /\ copied = stored
  /\ wrote \in [Peers -> [MapIndexes -> Configurations]]
  /\ keeps \in [Peers -> [MapIndexes -> Configurations]]

\* An open link has one control block, and a control block in use is of one
Links ==
  /\ \A p, q \in Peers :
       bearer[p].conn_id = bearer[q].conn_id /\ bearer[p].conn_id # NoLinkId => p = q
  /\ \A p \in Peers : bearer[p].conn_id # NoLinkId =>
       \E s \in Slots : slot[s].in_use /\ slot[s].conn_id = bearer[p].conn_id
  /\ \A s, t \in Slots :
       slot[s].in_use /\ slot[t].in_use /\ slot[s].conn_id = slot[t].conn_id => s = t
  /\ \A s \in Slots : slot[s].in_use =>
       \E p \in Peers : bearer[p].conn_id = slot[s].conn_id /\ bearer[p].conn_id # NoLinkId

\* What the next link of the device starts from
StoredBits(p) == IF stored[p] = NoEntry THEN NoBits ELSE stored[p]

\* A control block holds what its device wrote, a bond what it had written
Written ==
  /\ \A p \in Peers, s \in Slots : slot[s].in_use /\ slot[s].conn_id = bearer[p].conn_id =>
       Holds(slot[s].cccd_bits, wrote[p])
  /\ \A p \in Peers : Holds(StoredBits(p), keeps[p])
  /\ \A p \in Peers : bearer[p].conn_id = NoLinkId => wrote[p] = keeps[p]

SubInv == SubTypes /\ Links /\ Written

LEMMA SilentType == Silent \in [MapIndexes -> Configurations]
BY DEF Silent, Configurations

LEMMA NoBitsType == NoBits \in WordSets
BY DEF NoBits, WordSets

\* Without characteristics there is nothing to hold
LEMMA NoEntryHeld ==
  ASSUME NEW bits, NEW conf, Holds(bits, conf)
  PROVE  Holds(IF bits = NoEntry THEN NoBits ELSE bits, conf)
<1>1. CASE bits # NoEntry
  BY <1>1
<1>2. CASE bits = NoEntry
  <2>1. Words = {}
    BY <1>2 DEF Holds, WordSets, NoEntry
  <2>2. MapIndexes = {}
    BY <2>1, FieldType
  <2> QED BY <1>2, <2>2, NoBitsType DEF Holds
<1> QED
  BY <1>1, <1>2

LEMMA SlotFound ==
  ASSUME SubInv, NEW p \in Peers, bearer[p].conn_id # NoLinkId
  PROVE  \E s \in Slots :
           /\ SlotOf(bearer[p].conn_id) = {s}
           /\ slot[s].in_use /\ slot[s].conn_id = bearer[p].conn_id
           /\ Holds(slot[s].cccd_bits, wrote[p])
<1>1. PICK s \in Slots : slot[s].in_use /\ slot[s].conn_id = bearer[p].conn_id
  BY DEF SubInv, Links
<1>2. {t \in Slots : slot[t].in_use /\ slot[t].conn_id = bearer[p].conn_id} = {s}
  BY <1>1 DEF SubInv, Links
<1>3. s \in Nat
  BY SubscriptionConstants
<1>4. SlotOf(bearer[p].conn_id) = {s}
  BY <1>2, <1>3, MinOfOne DEF SlotOf
<1>5. Holds(slot[s].cccd_bits, wrote[p])
  BY <1>1 DEF SubInv, Written
<1> QED
  BY <1>1, <1>4, <1>5

LEMMA SubInit == SubscriptionInit => SubInv
<1> SUFFICES ASSUME SubscriptionInit
             PROVE  SubInv
  OBVIOUS
<1>1. \A s \in Slots : slot[s] = FreeSlot
  BY DEF SubscriptionInit
<1>2. \A p \in Peers : bearer[p] = Closed /\ stored[p] = NoEntry /\ wrote[p] = Silent /\ keeps[p] = Silent
  BY DEF SubscriptionInit
<1>3. FreeSlot \in [in_use: BOOLEAN, conn_id: Ids, cccd_bits: WordSets] /\ ~FreeSlot.in_use
  BY NoBitsType DEF FreeSlot, Ids
<1>4. Closed \in [conn_id: Ids, mtu: {n \in Nat : 3 <= n}] /\ Closed.conn_id = NoLinkId
  BY SubscriptionConstants, MapOfDatabase DEF Closed, Ids
<1>5. SubTypes
  BY <1>3, <1>4, SilentType DEF SubscriptionInit, SubTypes
<1>6. Links
  BY <1>1, <1>2, <1>3, <1>4 DEF Links
<1>7. Written
  BY <1>1, <1>2, <1>3, NothingHeld DEF Written, StoredBits
<1> QED
  BY <1>5, <1>6, <1>7 DEF SubInv

LEMMA ConnectsKeeps ==
  ASSUME SubInv, NEW p \in Peers, NEW c \in LinkIds, PeerConnects(p, c)
  PROVE  SubInv'
<1>1. PICK s \in Slots :
        /\ ~slot[s].in_use
        /\ slot' = [slot EXCEPT ![s] = [in_use |-> TRUE, conn_id |-> c, cccd_bits |-> StoredBits(p)]]
  BY DEF PeerConnects, StoredBits
<1>2. /\ bearer[p].conn_id = NoLinkId /\ \A q \in Peers : bearer[q].conn_id # c
      /\ bearer' = [bearer EXCEPT ![p].conn_id = c]
      /\ UNCHANGED <<stored, copied, wrote, keeps, writes>>
  BY DEF PeerConnects
<1>3. Holds(StoredBits(p), wrote[p]) /\ StoredBits(p) \in WordSets /\ c # NoLinkId
  BY <1>2, SubscriptionConstants DEF SubInv, Written, Holds
<1>4. /\ \A t \in Slots : slot'[t] = IF t # s THEN slot[t] ELSE
           [in_use |-> TRUE, conn_id |-> c, cccd_bits |-> StoredBits(p)]
      /\ \A q \in Peers : bearer'[q].conn_id = IF q = p THEN c ELSE bearer[q].conn_id
  BY <1>1, <1>2 DEF SubInv, SubTypes
<1>5. SubTypes'
  <2>1. slot' \in [Slots -> [in_use: BOOLEAN, conn_id: Ids, cccd_bits: WordSets]]
    <3> HIDE DEF StoredBits
    <3> QED BY <1>1, <1>3 DEF SubInv, SubTypes, Ids
  <2>2. bearer' \in [Peers -> [conn_id: Ids, mtu: {n \in Nat : 3 <= n}]]
    <3> DEFINE M == {n \in Nat : 3 <= n}
               B == [conn_id: Ids, mtu: M]
    <3>1. bearer \in [Peers -> B] /\ c \in Ids
      BY DEF SubInv, SubTypes, Ids
    <3> HIDE DEF M
    <3>2. [bearer[p] EXCEPT !.conn_id = c] \in B
      BY <3>1
    <3> HIDE DEF B
    <3>3. bearer' \in [Peers -> B]
      BY <1>2, <3>1, <3>2
    <3> QED BY <3>3 DEF B, M
  <2> QED BY <1>2, <2>1, <2>2 DEF SubInv, SubTypes
<1> HIDE DEF StoredBits
<1>6. Links'
  BY <1>1, <1>2, <1>3, <1>4 DEF SubInv, Links
<1>7. ASSUME NEW q \in Peers, NEW t \in Slots, slot'[t].in_use, slot'[t].conn_id = bearer'[q].conn_id
      PROVE  Holds(slot'[t].cccd_bits, wrote'[q])
  <2>1. CASE t = s
    <3>1. q = p
      BY <1>2, <1>4, <1>7, <2>1
    <3> QED BY <1>2, <1>3, <1>4, <2>1, <3>1
  <2>2. CASE t # s
    <3>1. slot[t].in_use /\ slot'[t] = slot[t]
      BY <1>4, <1>7, <2>2
    <3>2. q # p
      BY <1>2, <1>4, <1>7, <3>1 DEF SubInv, Links
    <3> QED BY <1>2, <1>4, <1>7, <3>1, <3>2 DEF SubInv, Written
  <2> QED BY <2>1, <2>2
<1>8. \A q \in Peers : Holds(StoredBits(q), keeps[q])'
  BY <1>2 DEF SubInv, Written, StoredBits
<1>9. \A q \in Peers : bearer'[q].conn_id = NoLinkId => wrote'[q] = keeps'[q]
  BY <1>2, <1>3, <1>4 DEF SubInv, Written
<1> QED
  BY <1>5, <1>6, <1>7, <1>8, <1>9 DEF SubInv, Written

LEMMA MtuKeeps ==
  ASSUME SubInv, NEW p \in Peers, NEW mtu \in Mtus, MtuRequest(p, mtu)
  PROVE  SubInv'
<1>1. Min({mtu, MaxPdu}) \in {n \in Nat : 3 <= n}
  <2>1. {mtu, MaxPdu} \subseteq Nat /\ 3 <= mtu /\ 3 <= MaxPdu
    BY SubscriptionConstants, MapOfDatabase
  <2>2. Min({mtu, MaxPdu}) \in {mtu, MaxPdu}
    BY <2>1, MinOf
  <2> QED BY <2>1, <2>2
<1>2. /\ bearer' = [bearer EXCEPT ![p].mtu = Min({mtu, MaxPdu})]
      /\ UNCHANGED <<slot, stored, copied, wrote, keeps, writes>>
  BY DEF MtuRequest
<1>3. \A q \in Peers : bearer'[q].conn_id = bearer[q].conn_id
  BY <1>2 DEF SubInv, SubTypes
<1>4. SubTypes'
  BY <1>1, <1>2 DEF SubInv, SubTypes
<1>5. Links' /\ Written'
  BY <1>2, <1>3 DEF SubInv, Links, Written, StoredBits
<1> QED
  BY <1>4, <1>5 DEF SubInv

LEMMA WriteKeeps ==
  ASSUME SubInv, NEW p \in Peers, NEW handle \in Handles, NEW value \in WrittenBits, NEW len,
         WriteDescriptor(p, handle, value, len)
  PROVE  SubInv'
<1>1. PICK s \in SlotOf(bearer[p].conn_id) :
        slot' = [slot EXCEPT ![s].cccd_bits = SetCccd(@, handle, value)]
  BY DEF WriteDescriptor
<1>2. PICK i \in MapIndexes : CccdMap[i].descriptor = handle
  BY DEF WriteDescriptor, WriteStatus, CccdIndex
<1>3. /\ s \in Slots /\ SlotOf(bearer[p].conn_id) = {s} /\ slot[s].in_use
      /\ slot[s].conn_id = bearer[p].conn_id /\ Holds(slot[s].cccd_bits, wrote[p])
      /\ bearer[p].conn_id # NoLinkId
  BY SlotFound DEF WriteDescriptor
<1> DEFINE bits == SetCccd(slot[s].cccd_bits, handle, value)
           conf == [wrote[p] EXCEPT ![i] = value \cap {0, 1}]
<1>4. wrote[p] \in [MapIndexes -> Configurations]
  BY DEF SubInv, SubTypes
<1>5. Holds(bits, conf) /\ bits \in WordSets
  <2>1. Holds(SetCccd(slot[s].cccd_bits, CccdMap[i].descriptor, value),
              [wrote[p] EXCEPT ![i] = value \cap {0, 1}])
    BY <1>3, <1>4, SetHeld
  <2>2. Holds(bits, conf)
    BY <1>2, <2>1
  <2> HIDE DEF bits, conf
  <2> QED BY <2>2 DEF Holds
<1>6. conf \in [MapIndexes -> Configurations]
  BY <1>4 DEF Configurations, Notification, Indication
<1>7. wrote' = [wrote EXCEPT ![p] = conf]
  <2>1. \A j \in MapIndexes : CccdMap[j].descriptor = handle <=> j = i
    BY <1>2, MapOfDatabase
  <2>2. [j \in MapIndexes |-> IF CccdMap[j].descriptor = handle THEN value \cap {0, 1} ELSE wrote[p][j]] = conf
    BY <1>4, <2>1
  <2>3. wrote' = [q \in Peers |-> IF q # p THEN wrote[q] ELSE conf]
    BY <2>2 DEF WriteDescriptor
  <2> HIDE DEF conf
  <2> QED BY <2>3 DEF SubInv, SubTypes
<1>8. UNCHANGED <<bearer, stored, copied, keeps>>
  BY DEF WriteDescriptor
<1> HIDE DEF conf, bits
<1>9. \A t \in Slots : /\ slot'[t].in_use = slot[t].in_use /\ slot'[t].conn_id = slot[t].conn_id
                       /\ slot'[t].cccd_bits = IF t = s THEN bits ELSE slot[t].cccd_bits
  BY <1>1, <1>3 DEF SubInv, SubTypes, bits
<1>10. SubTypes'
  <2>1. slot' = [slot EXCEPT ![s].cccd_bits = bits]
    BY <1>1 DEF bits
  <2> QED BY <1>3, <1>5, <1>6, <1>7, <1>8, <2>1 DEF SubInv, SubTypes
<1>11. Links'
  BY <1>8, <1>9 DEF SubInv, Links
<1>12. ASSUME NEW q \in Peers, NEW t \in Slots, slot'[t].in_use, slot'[t].conn_id = bearer'[q].conn_id
       PROVE  Holds(slot'[t].cccd_bits, wrote'[q])
  <2>1. slot[t].in_use /\ slot[t].conn_id = bearer[q].conn_id
    BY <1>8, <1>9, <1>12
  <2>2. q = p <=> t = s
    BY <1>3, <2>1 DEF SubInv, Links
  <2>3. wrote'[q] = IF q = p THEN conf ELSE wrote[q]
    BY <1>7 DEF SubInv, SubTypes
  <2> QED BY <1>5, <1>9, <2>1, <2>2, <2>3 DEF SubInv, Written
<1>13. \A q \in Peers : bearer'[q].conn_id = NoLinkId => wrote'[q] = keeps'[q]
  BY <1>3, <1>7, <1>8 DEF SubInv, SubTypes, Written
<1>14. \A q \in Peers : Holds(StoredBits(q), keeps[q])'
  BY <1>8 DEF SubInv, Written, StoredBits
<1> QED
  BY <1>10, <1>11, <1>12, <1>13, <1>14 DEF SubInv, Written

LEMMA PairsKeeps ==
  ASSUME SubInv, NEW p \in Peers, PeerPairs(p)
  PROVE  SubInv'
<1>1. /\ stored[p] = NoEntry /\ stored' = [stored EXCEPT ![p] = NoBits]
      /\ copied' = [copied EXCEPT ![p] = NoBits] /\ UNCHANGED <<slot, bearer, wrote, keeps, writes>>
  BY DEF PeerPairs
<1>2. SubTypes'
  BY <1>1, NoBitsType DEF SubInv, SubTypes
<1>3. \A q \in Peers : StoredBits(q)' = StoredBits(q)
  BY <1>1 DEF SubInv, SubTypes, StoredBits
<1>4. Links' /\ Written'
  BY <1>1, <1>3 DEF SubInv, Links, Written
<1> QED
  BY <1>2, <1>4 DEF SubInv

LEMMA DisconnectsKeeps ==
  ASSUME SubInv, NEW p \in Peers, PeerDisconnects(p)
  PROVE  SubInv'
<1>1. PICK s \in SlotOf(bearer[p].conn_id) :
        SaveBits(p, slot[s].cccd_bits) /\ slot' = [slot EXCEPT ![s] = FreeSlot]
  BY DEF PeerDisconnects
<1>2. /\ s \in Slots /\ slot[s].in_use /\ slot[s].conn_id = bearer[p].conn_id
      /\ Holds(slot[s].cccd_bits, wrote[p]) /\ bearer[p].conn_id # NoLinkId
  BY SlotFound DEF PeerDisconnects
<1> DEFINE conf == IF stored[p] = NoEntry THEN Silent ELSE wrote[p]
<1>3. /\ bearer' = [bearer EXCEPT ![p] = Closed]
      /\ wrote' = [wrote EXCEPT ![p] = conf] /\ keeps' = [keeps EXCEPT ![p] = wrote'[p]]
  BY DEF PeerDisconnects
<1>4. conf \in [MapIndexes -> Configurations]
  BY SilentType DEF SubInv, SubTypes
<1>5. /\ FreeSlot \in [in_use: BOOLEAN, conn_id: Ids, cccd_bits: WordSets] /\ ~FreeSlot.in_use
      /\ Closed \in [conn_id: Ids, mtu: {n \in Nat : 3 <= n}] /\ Closed.conn_id = NoLinkId
  BY NoBitsType, SubscriptionConstants, MapOfDatabase DEF FreeSlot, Closed, Ids
<1>6. /\ stored' \in [Peers -> WordSets \cup {NoEntry}] /\ copied' = stored'
      /\ \A q \in Peers \ {p} : stored'[q] = stored[q]
      /\ stored'[p] = IF stored[p] = NoEntry THEN NoEntry ELSE slot[s].cccd_bits
  BY <1>1, <1>2 DEF SaveBits, SubInv, SubTypes, Holds
<1> HIDE DEF conf, FreeSlot, Closed
<1>7. /\ \A q \in Peers \ {p} : wrote'[q] = wrote[q] /\ keeps'[q] = keeps[q] /\ bearer'[q] = bearer[q]
      /\ wrote'[p] = conf /\ keeps'[p] = conf /\ bearer'[p] = Closed
      /\ \A t \in Slots : slot'[t] = IF t = s THEN FreeSlot ELSE slot[t]
  BY <1>1, <1>3 DEF SubInv, SubTypes
<1>8. SubTypes'
  BY <1>1, <1>3, <1>4, <1>5, <1>6, <1>7 DEF SubInv, SubTypes
<1>9. Links'
  <2>1. \A t \in Slots \ {s} : slot[t].in_use => slot[t].conn_id # bearer[p].conn_id
    BY <1>2 DEF SubInv, Links
  <2> QED BY <1>2, <1>5, <1>7, <2>1 DEF SubInv, Links
<1>10. ASSUME NEW q \in Peers, NEW t \in Slots, slot'[t].in_use, slot'[t].conn_id = bearer'[q].conn_id
       PROVE  Holds(slot'[t].cccd_bits, wrote'[q])
  <2>1. t # s /\ slot'[t] = slot[t]
    BY <1>5, <1>7, <1>10
  <2>2. slot[t].conn_id # NoLinkId
    BY <1>10, <2>1 DEF SubInv, Links
  <2>3. q # p
    BY <1>5, <1>7, <1>10, <2>1, <2>2
  <2> QED BY <1>7, <1>10, <2>1, <2>3 DEF SubInv, Written
<1>11. \A q \in Peers : Holds(StoredBits(q), keeps[q])'
  <2>1. Holds(StoredBits(p)', keeps'[p])
    <3>1. CASE stored[p] = NoEntry
      BY <1>6, <1>7, <3>1, NothingHeld DEF StoredBits, conf
    <3>2. CASE stored[p] # NoEntry
      BY <1>2, <1>6, <1>7, <3>2, NoEntryHeld DEF StoredBits, conf
    <3> QED BY <3>1, <3>2
  <2>2. \A q \in Peers \ {p} : Holds(StoredBits(q)', keeps'[q])
    BY <1>6, <1>7 DEF SubInv, Written, StoredBits
  <2> QED BY <2>1, <2>2
<1>12. \A q \in Peers : bearer'[q].conn_id = NoLinkId => wrote'[q] = keeps'[q]
  BY <1>7 DEF SubInv, Written
<1> QED
  BY <1>8, <1>9, <1>10, <1>11, <1>12 DEF SubInv, Written

LEMMA SwitchedKeeps ==
  ASSUME SubInv, SwitchedOffAndOn
  PROVE  SubInv'
<1>1. /\ \A s \in Slots : slot'[s] = FreeSlot
      /\ \A p \in Peers : bearer'[p] = Closed
      /\ stored' = stored /\ copied' = copied /\ wrote' = keeps /\ keeps' = keeps
  BY DEF SwitchedOffAndOn, SubInv, SubTypes
<1>2. /\ FreeSlot \in [in_use: BOOLEAN, conn_id: Ids, cccd_bits: WordSets] /\ ~FreeSlot.in_use
      /\ Closed \in [conn_id: Ids, mtu: {n \in Nat : 3 <= n}] /\ Closed.conn_id = NoLinkId
  BY NoBitsType, SubscriptionConstants, MapOfDatabase DEF FreeSlot, Closed, Ids
<1> HIDE DEF FreeSlot, Closed
<1>3. SubTypes'
  BY <1>1, <1>2 DEF SwitchedOffAndOn, SubInv, SubTypes
<1>4. Links'
  BY <1>1, <1>2 DEF Links
<1>5. Written'
  BY <1>1, <1>2 DEF SubInv, Written, StoredBits
<1> QED
  BY <1>3, <1>4, <1>5 DEF SubInv

LEMMA SubStep == SubInv /\ [SubscriptionNext]_subscriptionVars => SubInv'
<1> SUFFICES ASSUME SubInv, [SubscriptionNext]_subscriptionVars
             PROVE  SubInv'
  OBVIOUS
<1>1. CASE UNCHANGED subscriptionVars
  BY <1>1 DEF subscriptionVars, SubInv, SubTypes, Links, Written, StoredBits
<1> QED
  BY <1>1, ConnectsKeeps, MtuKeeps, WriteKeeps, PairsKeeps, DisconnectsKeeps, SwitchedKeeps
     DEF SubscriptionNext

-----------------------------------------------------------------------------
(* As many elements of a set, in their order, as there is room for *)

UpTo(S, h) == {g \in S : g <= h}
FirstOf(S, n) == {h \in S : Cardinality(UpTo(S, h)) <= n}

LEMMA UpToMembers ==
  ASSUME NEW S \in SUBSET Nat
  PROVE  /\ \A h : UpTo(S, h) \in SUBSET S
         /\ \A g, h \in S : g \in UpTo(S, h) <=> ~(h < g)
         /\ \A g, h \in S : g < h => ~(h < g)
         /\ \A g, h \in S : g < h \/ g = h \/ h < g
<1>1. \A g \in S : g \in Nat
  OBVIOUS
<1>2. \A g, h \in S : g <= h <=> ~(h < g)
  BY <1>1
<1>3. \A g, h \in S : (g < h => ~(h < g)) /\ (g < h \/ g = h \/ h < g)
  BY <1>1
<1> QED
  BY <1>2, <1>3 DEF UpTo

LEMMA UpToGrows ==
  ASSUME NEW S \in SUBSET Nat, IsFiniteSet(S)
  PROVE  /\ \A h \in S : Cardinality(UpTo(S, h)) \in Nat /\ Cardinality(UpTo(S, h)) <= Cardinality(S)
         /\ \A g, h \in S : g < h => Cardinality(UpTo(S, g)) < Cardinality(UpTo(S, h))
<1>1. ASSUME NEW h \in S
      PROVE  /\ IsFiniteSet(UpTo(S, h)) /\ Cardinality(UpTo(S, h)) \in Nat
             /\ Cardinality(UpTo(S, h)) <= Cardinality(S)
  <2>1. UpTo(S, h) \in SUBSET S
    BY DEF UpTo
  <2> QED BY <2>1, FS_Subset, FS_CardinalityType
<1>2. ASSUME NEW g \in S, NEW h \in S, g < h
      PROVE  Cardinality(UpTo(S, g)) < Cardinality(UpTo(S, h))
  <2>1. h \in UpTo(S, h) /\ h \notin UpTo(S, g)
    BY <1>2, UpToMembers
  <2>2. \A x \in Nat : x <= g => x <= h
    BY <1>2
  <2>3. UpTo(S, g) \in SUBSET UpTo(S, h)
    BY <2>2 DEF UpTo
  <2>4. Cardinality(UpTo(S, g)) <= Cardinality(UpTo(S, h))
    BY <1>1, <2>3, FS_Subset
  <2>5. Cardinality(UpTo(S, h)) # Cardinality(UpTo(S, g))
    BY <1>1, <2>1, <2>3, FS_Subset
  <2> QED BY <1>1, <2>4, <2>5
<1> QED
  BY <1>1, <1>2

LEMMA GreatestOf ==
  ASSUME NEW S \in SUBSET Nat, IsFiniteSet(S), S # {}
  PROVE  \E m \in S : UpTo(S, m) = S
<1> DEFINE above(h) == Cardinality(S) - Cardinality(UpTo(S, h))
<1>1. Cardinality(S) \in Nat /\ \A h \in S : above(h) \in Nat
  BY FS_CardinalityType, UpToGrows
<1>2. {above(h) : h \in S} \in SUBSET Nat /\ {above(h) : h \in S} # {}
  BY <1>1
<1>3. PICK m \in S : \A h \in S : above(m) <= above(h)
  <2> HIDE DEF above
  <2>1. PICK a \in {above(h) : h \in S} : \A n \in {above(h) : h \in S} : a <= n
    BY <1>2, LeastOf
  <2> QED BY <2>1
<1>4. \A h \in S : ~(m < h)
  BY <1>1, <1>3, UpToGrows
<1> HIDE DEF above
<1>5. UpTo(S, m) \in SUBSET S
  BY UpToMembers
<1>6. \A h \in S : h \in UpTo(S, m)
  BY <1>4, UpToMembers
<1>7. UpTo(S, m) = S
  BY <1>5, <1>6
<1> QED
  BY <1>7

LEMMA FirstOfCount ==
  ASSUME NEW S \in SUBSET Nat, IsFiniteSet(S), NEW n \in Nat
  PROVE  /\ IsFiniteSet(FirstOf(S, n))
         /\ Cardinality(FirstOf(S, n)) = IF Cardinality(S) <= n THEN Cardinality(S) ELSE n
<1> DEFINE T == FirstOf(S, n)
<1>1. T \in SUBSET S /\ T \in SUBSET Nat
  BY DEF FirstOf
<1>2. /\ IsFiniteSet(T) /\ Cardinality(T) \in Nat /\ Cardinality(S) \in Nat
      /\ Cardinality(T) <= Cardinality(S)
  <2> HIDE DEF T
  <2> QED BY <1>1, FS_Subset, FS_CardinalityType
<1>3. \A g, h \in S : g < h /\ h \in T => g \in T
  BY UpToGrows DEF FirstOf
<1>4. Cardinality(T) <= n
  <2>1. CASE T = {}
    <3> HIDE DEF T
    <3> QED BY <2>1, FS_EmptySet
  <2>2. CASE T # {}
    <3>1. PICK m \in T : UpTo(T, m) = T
      <4> HIDE DEF T
      <4> QED BY <1>1, <1>2, <2>2, GreatestOf
    <3>2. UpTo(S, m) = T
      <4> HIDE DEF T
      <4>1. m \in S /\ m \in T /\ \A h \in T : ~(m < h)
        BY <1>1, <3>1, UpToMembers
      <4>2. \A h \in S : ~(m < h) <=> h \in T
        BY <1>3, <4>1, UpToMembers
      <4>3. UpTo(S, m) \in SUBSET S
        BY UpToMembers
      <4>4. \A h \in S : h \in UpTo(S, m) <=> h \in T
        BY <4>1, <4>2, UpToMembers
      <4> QED BY <1>1, <4>3, <4>4
    <3> QED BY <3>1, <3>2 DEF FirstOf
  <2> QED BY <2>1, <2>2
<1>5. ASSUME T # S
      PROVE  Cardinality(T) >= n /\ Cardinality(S) > n
  <2> HIDE DEF T
  <2>1. S \ T \in SUBSET Nat /\ S \ T # {}
    BY <1>1, <1>5
  <2>2. PICK m \in S \ T : \A h \in S \ T : m <= h
    BY <2>1, LeastOf
  <2>3. \A h \in S : h # m => (~(m < h) <=> h \in T)
    <3>1. \A h \in S \ T : ~(h < m)
      BY <2>1, <2>2
    <3> QED BY <1>3, <2>2, <3>1, UpToMembers
  <2>4. UpTo(S, m) = T \cup {m} /\ m \notin T
    <3>1. UpTo(S, m) \in SUBSET S
      BY UpToMembers
    <3>2. \A h \in S : h \in UpTo(S, m) <=> h \in T \cup {m}
      BY <2>2, <2>3, UpToMembers
    <3> QED BY <1>1, <2>2, <3>1, <3>2
  <2>5. Cardinality(UpTo(S, m)) = Cardinality(T) + 1
    BY <1>2, <2>4, FS_AddElement
  <2>6. Cardinality(UpTo(S, m)) > n
    BY <2>2, UpToGrows DEF T, FirstOf
  <2>7. Cardinality(UpTo(S, m)) <= Cardinality(S)
    BY <2>2, UpToGrows
  <2> QED BY <1>2, <2>5, <2>6, <2>7
<1> QED
  <2> HIDE DEF T
  <2>1. Cardinality(FirstOf(S, n)) = Cardinality(T) /\ IsFiniteSet(FirstOf(S, n))
    BY <1>2 DEF T
  <2> QED BY <1>2, <1>4, <1>5, <2>1

-----------------------------------------------------------------------------
(* The answers *)

LEMMA ReadHeld ==
  ASSUME NEW bits, NEW conf \in [MapIndexes -> Configurations], Holds(bits, conf),
         NEW i \in MapIndexes
  PROVE  ReadAttribute(bits, CccdMap[i].descriptor) = [status |-> "SUCCESS", len |-> 2, value |-> conf[i]]
BY GetHeld, IndexFound DEF ReadAttribute

\* The configurations from that of i on, as many as there is room for
LEMMA ListHeld ==
  ASSUME NEW bits, NEW conf \in [MapIndexes -> Configurations], Holds(bits, conf),
         NEW i \in MapIndexes, NEW len \in Nat
  PROVE  LET later == {j \in MapIndexes : CccdMap[j].descriptor >= CccdMap[i].descriptor}
             answer == ReadByType(bits, CccdMap[i].descriptor, "cccd", len)
         IN /\ answer.values \subseteq {<<CccdMap[j].descriptor, conf[j]>> : j \in later}
            /\ Cardinality(answer.values) = Min({Cardinality(later), len \div 4})
<1> DEFINE first == CccdMap[i].descriptor
           later == {j \in MapIndexes : CccdMap[j].descriptor >= first}
           typed == {h \in Handles : h >= first /\ Attributes[h].type = "cccd"}
           n == len \div 4
           read(h) == ReadAttribute(bits, h)
           upTo(h) == {g \in typed : g <= h}
           fits(h) == /\ read(h).len = read(Min(typed)).len
                      /\ Cardinality(upTo(h)) * (2 + read(h).len) <= len
           tried == {h \in typed : \A g \in upTo(h) \ {h} : fits(g)}
           listed == {h \in tried : fits(h)}
           pairs(S) == {<<h, read(h).value>> : h \in S}
           values == IF listed = {} THEN {} ELSE pairs(listed)
<1>1. typed = {CccdMap[j].descriptor : j \in later}
  <2>1. \A j \in MapIndexes : CccdMap[j].descriptor \in Handles
                               /\ Attributes[CccdMap[j].descriptor].type = "cccd"
    BY SubscriptionConstants
  <2>2. \A h \in Handles : Attributes[h].type = "cccd" => \E j \in MapIndexes : CccdMap[j].descriptor = h
    BY MapOfDatabase
  <2> QED BY <2>1, <2>2
<1>2. ExistsBijection(later, typed)
  <2> DEFINE f == [j \in later |-> CccdMap[j].descriptor]
  <2>1. f \in [later -> typed]
    BY <1>1
  <2>2. \A j, k \in later : f[j] = f[k] => j = k
    BY MapOfDatabase
  <2>3. \A h \in typed : \E j \in later : f[j] = h
    BY <1>1
  <2> HIDE DEF f, typed, later
  <2>4. f \in Bijection(later, typed)
    BY <2>1, <2>2, <2>3 DEF Bijection, Injection, Surjection, IsInjective
  <2> QED BY <2>4 DEF ExistsBijection
<1>3. IsFiniteSet(later)
  <2>1. IsFiniteSet(1..Len(CccdMap)) /\ later \in SUBSET (1..Len(CccdMap))
    BY MapFacts, FS_Interval
  <2> HIDE DEF later
  <2> QED BY <2>1, FS_Subset
<1>4. /\ IsFiniteSet(typed) /\ Cardinality(typed) = Cardinality(later) /\ Cardinality(later) \in Nat
      /\ typed \in SUBSET Nat /\ typed # {}
  <2>1. IsFiniteSet(typed) /\ Cardinality(typed) = Cardinality(later) /\ Cardinality(later) \in Nat
    <3> HIDE DEF typed, later
    <3> QED BY <1>2, <1>3, FS_Bijection, FS_CardinalityType
  <2>2. typed \in SUBSET Nat
    BY MapOfDatabase
  <2>3. first \in Nat
    BY SubscriptionConstants, MapOfDatabase
  <2>4. i \in later
    BY <2>3
  <2> QED BY <1>1, <2>1, <2>2, <2>4
<1>5. \A j \in later : read(CccdMap[j].descriptor) = [status |-> "SUCCESS", len |-> 2, value |-> conf[j]]
  BY ReadHeld
<1>6. /\ \A h \in typed : read(h).status = "SUCCESS" /\ read(h).len = 2
      /\ \A h \in typed : \E j \in later : h = CccdMap[j].descriptor /\ read(h).value = conf[j]
  <2> HIDE DEF read, later
  <2>1. \A h \in typed : \E j \in later : h = CccdMap[j].descriptor
    BY <1>1
  <2>2. \A j \in later : LET h == CccdMap[j].descriptor
                         IN read(h).status = "SUCCESS" /\ read(h).len = 2 /\ read(h).value = conf[j]
    <3> HIDE DEF later
    <3>1. ASSUME NEW j \in later
          PROVE  LET h == CccdMap[j].descriptor
                 IN read(h).status = "SUCCESS" /\ read(h).len = 2 /\ read(h).value = conf[j]
      <4>1. read(CccdMap[j].descriptor) = [status |-> "SUCCESS", len |-> 2, value |-> conf[j]]
        BY <1>5
      <4> QED BY <4>1
    <3> QED BY <3>1
  <2> HIDE DEF typed
  <2> QED BY <2>1, <2>2
<1>7. n \in Nat /\ \A k \in Nat : k * (2 + 2) <= len <=> k <= n
  OBVIOUS
<1>8. \A h \in typed : fits(h) <=> Cardinality(UpTo(typed, h)) <= n
  <2>1. Min(typed) \in typed
    BY <1>4, MinOf
  <2>2. \A h \in typed : upTo(h) = UpTo(typed, h) /\ Cardinality(UpTo(typed, h)) \in Nat
    BY <1>4, UpToGrows DEF UpTo
  <2> HIDE DEF typed, read, upTo, n
  <2> QED BY <1>6, <1>7, <2>1, <2>2
<1>9. listed = FirstOf(typed, n)
  <2>1. \A h \in typed : \A g \in upTo(h) \ {h} : g \in typed /\ g < h
    BY <1>4
  <2>2. \A h \in typed : \A g \in upTo(h) \ {h} : fits(h) => fits(g)
    <3>1. \A g, h \in typed : g < h => Cardinality(UpTo(typed, g)) < Cardinality(UpTo(typed, h))
      BY <1>4, UpToGrows
    <3>2. \A h \in typed : Cardinality(UpTo(typed, h)) \in Nat
      BY <1>4, UpToGrows
    <3> HIDE DEF typed, fits, upTo, n
    <3> QED BY <1>7, <1>8, <2>1, <3>1, <3>2
  <2> HIDE DEF typed, fits, upTo, n
  <2> QED BY <1>8, <2>2 DEF FirstOf
<1>10. listed \in SUBSET typed /\ IsFiniteSet(listed)
       /\ Cardinality(listed) = IF Cardinality(later) <= n THEN Cardinality(later) ELSE n
  <2> HIDE DEF typed, listed, n, later
  <2> QED BY <1>4, <1>7, <1>9, FirstOfCount DEF FirstOf
<1>11. ReadByType(bits, first, "cccd", len).values = values
  <2>1. ~ \E h \in tried : read(h).status # "SUCCESS"
    <3> HIDE DEF read
    <3> QED BY <1>6
  <2> QED BY <2>1 DEF ReadByType
<1>12. Cardinality(values) = Cardinality(listed)
  <2>1. values = pairs(listed)
    OBVIOUS
  <2>2. ExistsBijection(listed, pairs(listed))
    <3> HIDE DEF listed, read
    <3> DEFINE f == [h \in listed |-> <<h, read(h).value>>]
    <3>1. f \in [listed -> pairs(listed)] /\ \A g, h \in listed : f[g] = f[h] => g = h
      OBVIOUS
    <3>2. \A x \in pairs(listed) : \E h \in listed : f[h] = x
      OBVIOUS
    <3> HIDE DEF f, pairs
    <3>3. f \in Bijection(listed, pairs(listed))
      BY <3>1, <3>2 DEF Bijection, Injection, Surjection, IsInjective
    <3> QED BY <3>3 DEF ExistsBijection
  <2> HIDE DEF listed, pairs, values
  <2> QED BY <1>10, <2>1, <2>2, FS_Bijection
<1>13. values \subseteq {<<CccdMap[j].descriptor, conf[j]>> : j \in later}
  <2> HIDE DEF listed, read, later, typed
  <2> QED BY <1>6, <1>10
<1>14. Min({Cardinality(later), n}) = IF Cardinality(later) <= n THEN Cardinality(later) ELSE n
  <2> DEFINE S == {Cardinality(later), n}
  <2>1. S \in SUBSET Nat /\ S # {}
    BY <1>4, <1>7
  <2>2. Min(S) \in S /\ \A k \in S : Min(S) <= k
    <3> HIDE DEF S
    <3> QED BY <2>1, MinOf
  <2> HIDE DEF later, n
  <2> QED BY <1>4, <1>7, <2>2
<1> QED
  <2> HIDE DEF values, listed, n, later
  <2> QED BY <1>10, <1>11, <1>12, <1>13, <1>14 DEF later, n

LEMMA SubInvAnswers == SubInv => AnswersAsWritten
<1> SUFFICES ASSUME SubInv, NEW p \in Peers, bearer[p].conn_id # NoLinkId, NEW i \in MapIndexes
             PROVE  LET c == bearer[p].conn_id
                        mtu == bearer[p].mtu
                    IN /\ CccdMap[i].value \notin Unasked => \A len \in {0, mtu - 3} :
                            Message(c, mtu, CccdMap[i].value, len) =
                              IF wrote[p][i] = {} THEN "none"
                              ELSE IF Indication \in wrote[p][i] THEN "indication" ELSE "notification"
                       /\ Answer(c, [op |-> "READ", handle |-> CccdMap[i].descriptor]) =
                            [status |-> "SUCCESS", len |-> 2, value |-> wrote[p][i]]
                       /\ LET later == {j \in MapIndexes : CccdMap[j].descriptor >= CccdMap[i].descriptor}
                              answer == Answer(c, [op |-> "READ_BY_TYPE", handle |-> CccdMap[i].descriptor,
                                                   type |-> "cccd", len |-> mtu - 2])
                          IN /\ answer.values \subseteq {<<CccdMap[j].descriptor, wrote[p][j]>> : j \in later}
                             /\ Cardinality(answer.values) = Min({Cardinality(later), (mtu - 2) \div 4})
  BY DEF AnswersAsWritten
<1> DEFINE c == bearer[p].conn_id
           mtu == bearer[p].mtu
           conf == wrote[p]
<1>1. PICK s \in Slots : SlotOf(c) = {s} /\ Holds(slot[s].cccd_bits, conf)
  BY SlotFound
<1> DEFINE bits == slot[s].cccd_bits
<1>2. conf \in [MapIndexes -> Configurations] /\ mtu \in Nat /\ 3 <= mtu
  BY DEF SubInv, SubTypes
<1>3. SlotOf(c) # {} /\ Min(SlotOf(c)) = s
  BY <1>1, SubscriptionConstants, MinOfOne
<1> HIDE DEF c, mtu, conf, bits
<1>4. CccdValue(c, CccdMap[i].value) = conf[i]
  <2>1. GetCccd(bits, CccdMap[i].value, "value") = conf[i]
    BY <1>1, <1>2, GetHeld DEF bits
  <2> QED BY <1>1, <2>1 DEF CccdValue, bits
<1>5. ASSUME CccdMap[i].value \notin Unasked, NEW len \in {0, mtu - 3}
      PROVE  Message(c, mtu, CccdMap[i].value, len) =
               IF conf[i] = {} THEN "none"
               ELSE IF Indication \in conf[i] THEN "indication" ELSE "notification"
  <2>1. ~(len > mtu - 3)
    BY <1>2
  <2> QED BY <1>4, <1>5, <2>1 DEF Message
<1>6. Answer(c, [op |-> "READ", handle |-> CccdMap[i].descriptor]) =
        [status |-> "SUCCESS", len |-> 2, value |-> conf[i]]
  <2>1. Answer(c, [op |-> "READ", handle |-> CccdMap[i].descriptor]) = ReadAttribute(bits, CccdMap[i].descriptor)
    BY <1>3 DEF Answer, bits
  <2> QED BY <1>1, <1>2, <2>1, ReadHeld DEF bits
<1>7. Answer(c, [op |-> "READ_BY_TYPE", handle |-> CccdMap[i].descriptor, type |-> "cccd", len |-> mtu - 2]) =
        ReadByType(bits, CccdMap[i].descriptor, "cccd", mtu - 2)
  BY <1>3 DEF Answer, bits
<1>8. LET later == {j \in MapIndexes : CccdMap[j].descriptor >= CccdMap[i].descriptor}
          answer == ReadByType(bits, CccdMap[i].descriptor, "cccd", mtu - 2)
      IN /\ answer.values \subseteq {<<CccdMap[j].descriptor, conf[j]>> : j \in later}
         /\ Cardinality(answer.values) = Min({Cardinality(later), (mtu - 2) \div 4})
  <2>1. mtu - 2 \in Nat
    BY <1>2
  <2> QED BY <1>1, <1>2, <2>1, ListHeld DEF bits
<1> QED
  BY <1>5, <1>6, <1>7, <1>8 DEF c, mtu, conf

-----------------------------------------------------------------------------
(* The theorem *)

LEMMA SubscriptionsInductive == SubscriptionSpec => []SubInv
BY SubInit, SubStep, PTL DEF SubscriptionSpec

\* Every message a device is sent by a service that looks, which Hearing Access does not, and
\* every configuration it reads back, one by one or by type, follows what it wrote itself,
\* last, on this link or with its bond
\* (lehs_set_clcb_cccd, lehs_get_clcb_cccd, gatt_intf_send_notification, the read handlers)
THEOREM AnswersFollowWrites == SubscriptionSpec => []AnswersAsWritten
BY SubscriptionsInductive, SubInvAnswers, PTL
=============================================================================
