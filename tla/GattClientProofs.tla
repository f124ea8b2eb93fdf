-------------------------- MODULE GattClientProofs --------------------------
(***************************************************************************)
(* What is proved of the GATT client for all peers, lists of                *)
(* characteristics and numbers of links: the type invariant, and that the   *)
(* host of a link that got ready without a hindrance shows what the peer    *)
(* has (ReadyShowsPeer).                                                    *)
(*                                                                         *)
(* The second rests on LinkInv: on a link on which nothing went wrong the   *)
(* client is in one of four phases (Quiet, Discovering, Enabling, Reading), *)
(* and each says how the requests that have no answer yet match the handles *)
(* that were found, the operation list and what the host shows.             *)
(***************************************************************************)
EXTENDS GattClient, WellFoundedInduction, TLAPS

-----------------------------------------------------------------------------
(* Types *)

Requests ==
  [kind: {"discover"}, of: [state: DiscoveryStates, range: Services \cup {"none"}]]
    \cup [kind: {"write", "read"}, of: Chars]

Handles(d) == [value: SUBSET d.value, cccd: SUBSET d.cccd]

Contexts(d) ==
  [service: Services \cup {"none"}, state: DiscoveryStates, range: Services \cup {"none"},
   found: Handles(d)]

Counts == 0..(OpsSize - 1)

Operations ==
  {NoOp} \cup [list: {"enable"}, index: 0..Len(EnableList), ops: Counts]
         \cup [list: {"read"}, index: 0..Len(ReadList), ops: Counts]

Blocks(d) ==
  [in_use: BOOLEAN, encrypted: BOOLEAN, db_hash: BOOLEAN, peer_profiles: Handles(d),
   p_discovery_ctx: Contexts(d), p_op: Operations,
   enabled_notifications: BOOLEAN, read_characteristics: BOOLEAN,
   sent: Seq(Requests), congested: BOOLEAN, hindered: Nat,
   told: {"DISCONNECTED", "CONNECTED", "INITING", "READY"}]

Stored(d) == [db_hash: BOOLEAN, peer_profiles: Handles(d), hindered: BOOLEAN]

Peers == [value: [ShownChars -> Values], subscribed: SUBSET Chars]

Displays == [ShownChars -> Values \cup {NoValue}]

\* Type invariant, of the control blocks in full
TypeInv ==
  /\ command \subseteq Conns /\ timer \subseteq Conns
  /\ db \in [Conns -> Databases] /\ peer \in [Conns -> Peers] /\ shown \in [Conns -> Displays]
  /\ DOMAIN clcb = Conns /\ DOMAIN nvram = Conns
  /\ \A b \in Conns : /\ clcb[b] \in Blocks(db[b]) /\ nvram[b] \in Stored(db[b])
                      /\ clcb[b].hindered <= MaxHindered

-----------------------------------------------------------------------------
(* The least of a set *)

LEMMA Least ==
  ASSUME NEW S \in SUBSET Nat, S # {}
  PROVE  \E m \in S : \A n \in S : m <= n
<1> DEFINE R == OpToRel(<, Nat)
<1>1. IsWellFoundedOn(R, Nat)
  BY NatLessThanWellFounded
<1>2. \A m, n \in Nat : <<n, m>> \in R <=> n < m
  BY DEF OpToRel
<1> HIDE DEF R
<1>3. PICK m \in S : \A n \in S : ~(<<n, m>> \in R)
  BY <1>1, WFMin
<1>4. \A n \in S : ~(n < m)
  BY <1>2, <1>3, Zenon
<1> QED
  BY <1>4

\* NextAt is the first place behind index whose characteristic has a handle.
LEMMA NextPlace ==
  ASSUME NEW list \in Seq(Chars), NEW index \in 0..Len(list), NEW handles
  PROVE  LET i == NextAt(list, index, handles)
         IN /\ i \in (index + 1)..(Len(list) + 1)
            /\ i <= Len(list) => list[i] \in handles
            /\ \A j \in (index + 1)..(i - 1) : list[j] \notin handles
<1> DEFINE left == {i \in (index + 1)..Len(list) : list[i] \in handles}
<1>1. CASE left = {}
  BY <1>1 DEF NextAt
<1>2. CASE left # {}
  <2>1. left \subseteq Nat
    OBVIOUS
  <2>2. \E i \in left : \A j \in left : i <= j
    <3> HIDE DEF left
    <3> QED BY <1>2, <2>1, Least
  <2> DEFINE i == CHOOSE i \in left : \A j \in left : i <= j
  <2>3. i \in left /\ \A j \in left : i <= j
    <3> HIDE DEF left
    <3> QED BY <2>2
  <2>4. NextAt(list, index, handles) = i
    BY <1>2 DEF NextAt
  <2>5. \A j \in (index + 1)..(i - 1) : j \notin left
    <3> HIDE DEF i
    <3> QED BY <2>1, <2>3
  <2>6. \A j \in (index + 1)..(i - 1) : j \in (index + 1)..Len(list)
    <3> HIDE DEF i
    <3> QED BY <2>3
  <2> HIDE DEF i
  <2> QED
    BY <2>3, <2>4, <2>5, <2>6
<1> QED
  BY <1>1, <1>2

-----------------------------------------------------------------------------
(* The operators keep the type of a control block *)

LEMMA SendType ==
  ASSUME NEW d, NEW k \in Blocks(d), NEW kind, NEW what, [kind |-> kind, of |-> what] \in Requests
  PROVE  Send(k, kind, what) \in Blocks(d)
BY DEF Send, Blocks

LEMMA RefusedType ==
  ASSUME NEW d, NEW k \in Blocks(d)
  PROVE  Refused(k) \in Blocks(d)
<1>1. k.hindered + 1 \in Nat
  BY DEF Blocks
<1> QED
  BY <1>1 DEF Refused, Blocks

LEMMA ReadDoneType ==
  ASSUME NEW d, NEW k \in Blocks(d), NEW success \in BOOLEAN
  PROVE  ReadDone(k, success) \in Blocks(d)
BY DEF ReadDone, Blocks, Operations

LEMMA Remainder ==
  ASSUME NEW a \in Int, NEW c \in Nat \ {0}
  PROVE  a % c \in 0..(c - 1)
OBVIOUS

LEMMA CountType ==
  /\ \A n \in Counts : (n + 1) % OpsSize \in Counts /\ (n - 1) % OpsSize \in Counts
  /\ 0 \in Counts
<1>1. OpsSize \in Nat \ {0}
  BY GattClientConstants
<1>2. ASSUME NEW n \in Counts
      PROVE  n + 1 \in Int /\ n - 1 \in Int
  BY <1>1 DEF Counts
<1>3. 0 \in Counts
  BY <1>1 DEF Counts
<1> QED
  BY <1>1, <1>2, <1>3, Remainder DEF Counts

LEMMA Lists ==
  /\ Len(EnableList) \in Nat /\ \A i \in 1..Len(EnableList) : EnableList[i] \in Chars
  /\ Len(ReadList) \in Nat /\ \A i \in 1..Len(ReadList) : ReadList[i] \in Chars
BY GattClientConstants

\* The control block when its list goes on to the place i, and with n operations under way
To(k, i) == [k EXCEPT !.p_op.index = i]
At(k, i, n) == [k EXCEPT !.p_op.index = i, !.p_op.ops = n]

\* The list that p_op works off
ListOf(op) == IF op.list = "read" THEN ReadList ELSE EnableList

LEMMA OperationFields ==
  ASSUME NEW op \in Operations, op # NoOp
  PROVE  /\ op.list \in {"read", "enable"} /\ op.index \in 0..Len(ListOf(op)) /\ op.ops \in Counts
         /\ \A i \in 0..Len(ListOf(op)), n \in Counts :
              /\ [op EXCEPT !.index = i] \in Operations
              /\ [op EXCEPT !.index = i, !.ops = n] \in Operations
              /\ [op EXCEPT !.ops = n] \in Operations
BY DEF Operations, ListOf

LEMMA PlaceType ==
  ASSUME NEW d, NEW k \in Blocks(d), k.p_op # NoOp,
         NEW i \in 0..Len(ListOf(k.p_op)), NEW n \in Counts
  PROVE  To(k, i) \in Blocks(d) /\ At(k, i, n) \in Blocks(d)
<1>1. k.p_op \in Operations
  BY DEF Blocks
<1> QED
  BY <1>1, OperationFields DEF Blocks, To, At

\* r is k but for its list and its requests
Carried(r, k) ==
  /\ r.in_use = k.in_use /\ r.encrypted = k.encrypted /\ r.db_hash = k.db_hash
  /\ r.peer_profiles = k.peer_profiles /\ r.p_discovery_ctx = k.p_discovery_ctx
  /\ r.enabled_notifications = k.enabled_notifications
  /\ r.congested = k.congested /\ r.hindered = k.hindered /\ r.told = k.told

LEMMA ToFields ==
  ASSUME NEW d, NEW k \in Blocks(d), k.p_op # NoOp, NEW i
  PROVE  /\ Carried(To(k, i), k) /\ To(k, i).sent = k.sent
         /\ To(k, i).p_op.list = k.p_op.list
         /\ To(k, i).p_op.index = i /\ To(k, i).p_op.ops = k.p_op.ops
BY DEF Blocks, Operations, To, Carried

LEMMA AtFields ==
  ASSUME NEW d, NEW k \in Blocks(d), k.p_op # NoOp, NEW i, NEW n
  PROVE  /\ Carried(At(k, i, n), k) /\ At(k, i, n).sent = k.sent
         /\ At(k, i, n).p_op.list = k.p_op.list
         /\ At(k, i, n).p_op.index = i /\ At(k, i, n).p_op.ops = n
BY DEF Blocks, Operations, At, Carried

LEMMA SendFields ==
  ASSUME NEW d, NEW k \in Blocks(d), NEW kind, NEW what
  PROVE  /\ Carried(Send(k, kind, what), k) /\ Send(k, kind, what).p_op = k.p_op
         /\ Send(k, kind, what).sent = Append(k.sent, [kind |-> kind, of |-> what])
BY DEF Blocks, Send, Carried

LEMMA RefusedFields ==
  ASSUME NEW d, NEW k \in Blocks(d)
  PROVE  /\ Refused(k).hindered > 0 /\ Refused(k).hindered > k.hindered
         /\ Refused(k).p_op = k.p_op /\ Refused(k).in_use = k.in_use
<1>1. k.hindered + 1 > 0 /\ k.hindered + 1 > k.hindered
  BY DEF Blocks
<1> QED
  BY <1>1 DEF Blocks, Refused

LEMMA ReadDoneFields ==
  ASSUME NEW d, NEW k \in Blocks(d), NEW success \in BOOLEAN
  PROVE  LET r == ReadDone(k, success)
         IN /\ r.p_op = NoOp /\ r.told = "READY" /\ (success => r.db_hash)
            /\ r.in_use = k.in_use /\ r.encrypted = k.encrypted
            /\ r.peer_profiles = k.peer_profiles /\ r.p_discovery_ctx = k.p_discovery_ctx
            /\ r.enabled_notifications = k.enabled_notifications /\ r.sent = k.sent
            /\ r.congested = k.congested /\ r.hindered = k.hindered
BY DEF Blocks, ReadDone

\* Blocks with a given in_use that were hindered at least h times: no operator changes the
\* one or takes down the other.
Kept(d, u, h) == {k \in Blocks(d) : k.in_use = u /\ h <= k.hindered}

LEMMA BlocksKept ==
  ASSUME NEW d, NEW k \in Blocks(d)
  PROVE  k \in Kept(d, k.in_use, k.hindered) /\ k.hindered \in Nat
BY DEF Kept, Blocks

LEMMA SendKept ==
  ASSUME NEW d, NEW u, NEW h \in Nat, NEW k \in Kept(d, u, h), NEW kind, NEW what,
         [kind |-> kind, of |-> what] \in Requests
  PROVE  Send(k, kind, what) \in Kept(d, u, h)
BY SendType, SendFields DEF Kept, Carried

LEMMA RefusedKept ==
  ASSUME NEW d, NEW u, NEW h \in Nat, NEW k \in Kept(d, u, h)
  PROVE  Refused(k) \in Kept(d, u, h)
<1>1. Refused(k) \in Blocks(d) /\ Refused(k).hindered > k.hindered /\ Refused(k).in_use = k.in_use
  BY RefusedType, RefusedFields DEF Kept
<1>2. Refused(k).hindered \in Nat /\ k.hindered \in Nat
  BY <1>1 DEF Blocks, Kept
<1> QED
  BY <1>1, <1>2 DEF Kept

LEMMA ReadDoneKept ==
  ASSUME NEW d, NEW u, NEW h \in Nat, NEW k \in Kept(d, u, h), NEW success \in BOOLEAN
  PROVE  ReadDone(k, success) \in Kept(d, u, h)
BY ReadDoneType, ReadDoneFields DEF Kept

LEMMA PlaceKept ==
  ASSUME NEW d, NEW u, NEW h \in Nat, NEW k \in Kept(d, u, h), k.p_op # NoOp,
         NEW i \in 0..Len(ListOf(k.p_op)), NEW n \in Counts
  PROVE  To(k, i) \in Kept(d, u, h) /\ At(k, i, n) \in Kept(d, u, h)
<1>1. k \in Blocks(d)
  BY DEF Kept
<1>2. To(k, i) \in Blocks(d) /\ At(k, i, n) \in Blocks(d)
  BY <1>1, PlaceType
<1>3. Carried(To(k, i), k) /\ Carried(At(k, i, n), k)
  BY <1>1, ToFields, AtFields
<1> QED
  BY <1>2, <1>3 DEF Kept, Carried

\* The control block when n operations are under way
Counted(k, n) == [k EXCEPT !.p_op.ops = n]

LEMMA CountedFields ==
  ASSUME NEW d, NEW k \in Blocks(d), k.p_op # NoOp, NEW n \in Counts
  PROVE  /\ Counted(k, n) \in Blocks(d) /\ Carried(Counted(k, n), k) /\ Counted(k, n).sent = k.sent
         /\ Counted(k, n).p_op.list = k.p_op.list /\ Counted(k, n).p_op.index = k.p_op.index
         /\ Counted(k, n).p_op.ops = n
<1>1. k.p_op \in Operations
  BY DEF Blocks
<1>2. [k.p_op EXCEPT !.ops = n] \in Operations
  BY <1>1, OperationFields
<1>3. Counted(k, n) \in Blocks(d)
  BY <1>2 DEF Blocks, Counted
<1> QED
  BY <1>3 DEF Blocks, Operations, Counted, Carried

\* The three ways RunRead goes: the list is at its end, a send is accepted, one is refused.
LEMMA RunReadCases ==
  ASSUME NEW d, NEW k \in Blocks(d), NEW ok, k.p_op.list = "read"
  PROVE  LET i == NextAt(ReadList, k.p_op.index, k.peer_profiles.value)
         IN \E ran :
              /\ RunRead(k, ok) = IF Finished(ran.p_op, ReadList) THEN ReadDone(ran, TRUE) ELSE ran
              /\ \/ i > Len(ReadList) /\ ran = To(k, Len(ReadList))
                 \/ /\ i <= Len(ReadList)
                    /\ ran = Send(At(k, i, (k.p_op.ops + 1) % OpsSize), "read", ReadList[i])
                 \/ i <= Len(ReadList) /\ ran = Refused(At(k, i - 1, (k.p_op.ops - 1) % OpsSize))
<1> DEFINE i == NextAt(ReadList, k.p_op.index, k.peer_profiles.value)
           ran == IF i > Len(ReadList) THEN To(k, Len(ReadList))
                  ELSE IF "read" \in ok
                  THEN Send(At(k, i, (k.p_op.ops + 1) % OpsSize), "read", ReadList[i])
                  ELSE Refused(At(k, i - 1, (k.p_op.ops - 1) % OpsSize))
<1>1. k.p_op \in [list: {"read"}, index: 0..Len(ReadList), ops: Counts]
  BY DEF Blocks, Operations, NoOp
<1>2. i \in Nat /\ Len(ReadList) \in Nat
  BY <1>1, NextPlace, Lists, GattClientConstants
<1>3. RunRead(k, ok) = IF Finished(ran.p_op, ReadList) THEN ReadDone(ran, TRUE) ELSE ran
  BY DEF RunRead, To, At
<1>4. \/ i > Len(ReadList) /\ ran = To(k, Len(ReadList))
      \/ /\ i <= Len(ReadList)
         /\ ran = Send(At(k, i, (k.p_op.ops + 1) % OpsSize), "read", ReadList[i])
      \/ i <= Len(ReadList) /\ ran = Refused(At(k, i - 1, (k.p_op.ops - 1) % OpsSize))
  <2> HIDE DEF i
  <2> QED BY <1>2
<1> QED
  BY <1>3, <1>4

LEMMA RunReadKept ==
  ASSUME NEW d, NEW u, NEW h \in Nat, NEW k \in Kept(d, u, h), NEW ok, k.p_op.list = "read"
  PROVE  RunRead(k, ok) \in Kept(d, u, h)
<1> DEFINE i == NextAt(ReadList, k.p_op.index, k.peer_profiles.value)
           more == (k.p_op.ops + 1) % OpsSize
           fewer == (k.p_op.ops - 1) % OpsSize
<1>1. k.p_op \in [list: {"read"}, index: 0..Len(ReadList), ops: Counts]
  BY DEF Kept, Blocks, Operations, NoOp
<1>2. i \in (k.p_op.index + 1)..(Len(ReadList) + 1)
  BY <1>1, NextPlace, GattClientConstants
<1>3. more \in Counts /\ fewer \in Counts
  BY <1>1, CountType
<1> HIDE DEF i, more, fewer
<1>4. ASSUME NEW j \in 0..Len(ReadList), NEW n \in Counts
      PROVE  To(k, j) \in Kept(d, u, h) /\ At(k, j, n) \in Kept(d, u, h)
  <2>1. k.p_op # NoOp /\ ListOf(k.p_op) = ReadList
    BY <1>1 DEF NoOp, ListOf
  <2> QED BY <2>1, PlaceKept
<1>5. To(k, Len(ReadList)) \in Kept(d, u, h)
  BY <1>3, <1>4, Lists
<1>6. ASSUME i <= Len(ReadList)
      PROVE  /\ Send(At(k, i, more), "read", ReadList[i]) \in Kept(d, u, h)
             /\ Refused(At(k, i - 1, fewer)) \in Kept(d, u, h)
  <2>1. i \in 0..Len(ReadList) /\ i - 1 \in 0..Len(ReadList) /\ i \in 1..Len(ReadList)
    BY <1>1, <1>2, <1>6, Lists
  <2>2. [kind |-> "read", of |-> ReadList[i]] \in Requests
    BY <2>1, Lists DEF Requests
  <2> QED BY <1>3, <1>4, <2>1, <2>2, SendKept, RefusedKept
<1>7. PICK ran : /\ RunRead(k, ok) = IF Finished(ran.p_op, ReadList) THEN ReadDone(ran, TRUE) ELSE ran
                 /\ ran \in Kept(d, u, h)
  <2>1. PICK ran : /\ RunRead(k, ok) = IF Finished(ran.p_op, ReadList) THEN ReadDone(ran, TRUE) ELSE ran
                   /\ \/ i > Len(ReadList) /\ ran = To(k, Len(ReadList))
                      \/ i <= Len(ReadList) /\ ran = Send(At(k, i, more), "read", ReadList[i])
                      \/ i <= Len(ReadList) /\ ran = Refused(At(k, i - 1, fewer))
    BY RunReadCases DEF Kept, i, more, fewer
  <2> QED BY <1>5, <1>6, <2>1
<1> QED
  BY <1>7, ReadDoneKept

LEMMA StartReadKept ==
  ASSUME NEW d, NEW u, NEW h \in Nat, NEW k \in Kept(d, u, h), NEW ok
  PROVE  StartRead(k, ok) \in Kept(d, u, h)
<1> DEFINE started == [k EXCEPT !.p_op = NewOp("read")]
<1>1. started \in Kept(d, u, h) /\ started.p_op.list = "read"
  <2>1. NewOp("read") \in Operations /\ NewOp("read").list = "read"
    BY CountType, Lists DEF Operations, NewOp
  <2> QED BY <2>1 DEF Kept, Blocks
<1> HIDE DEF started
<1>2. RunRead(started, ok) \in Kept(d, u, h)
  BY <1>1, RunReadKept
<1> QED
  BY <1>2 DEF StartRead, started

LEMMA EnableDoneKept ==
  ASSUME NEW d, NEW u, NEW h \in Nat, NEW k \in Kept(d, u, h), NEW ok
  PROVE  EnableDone(k, ok) \in Kept(d, u, h)
<1> DEFINE done == [k EXCEPT !.p_op = NoOp, !.enabled_notifications = TRUE]
<1>1. done \in Kept(d, u, h)
  BY DEF Kept, Blocks, Operations
<1> HIDE DEF done
<1>2. StartRead(done, ok) \in Kept(d, u, h)
  BY <1>1, StartReadKept
<1> QED
  BY <1>2 DEF EnableDone, done

\* The three ways RunEnable goes: the list is at its end, a send is accepted, one is refused.
LEMMA RunEnableCases ==
  ASSUME NEW d, NEW k \in Blocks(d), NEW ok, k.p_op.list = "enable"
  PROVE  LET i == NextAt(EnableList, k.p_op.index, k.peer_profiles.cccd)
         IN \E ran :
              /\ RunEnable(k, ok) = IF Finished(ran.p_op, EnableList) THEN EnableDone(ran, ok) ELSE ran
              /\ \/ i > Len(EnableList) /\ ran = To(k, Len(EnableList))
                 \/ /\ i <= Len(EnableList)
                    /\ ran = Send(At(k, i, (k.p_op.ops + 1) % OpsSize), "write", EnableList[i])
                 \/ i <= Len(EnableList) /\ ran = Refused(To(k, i - 1))
<1> DEFINE i == NextAt(EnableList, k.p_op.index, k.peer_profiles.cccd)
           ran == IF i > Len(EnableList) THEN To(k, Len(EnableList))
                  ELSE IF "write" \in ok
                  THEN Send(At(k, i, (k.p_op.ops + 1) % OpsSize), "write", EnableList[i])
                  ELSE Refused(To(k, i - 1))
<1>1. k.p_op \in [list: {"enable"}, index: 0..Len(EnableList), ops: Counts]
  BY DEF Blocks, Operations, NoOp
<1>2. i \in Nat /\ Len(EnableList) \in Nat
  BY <1>1, NextPlace, Lists, GattClientConstants
<1>3. RunEnable(k, ok) = IF Finished(ran.p_op, EnableList) THEN EnableDone(ran, ok) ELSE ran
  BY DEF RunEnable, To, At
<1>4. \/ i > Len(EnableList) /\ ran = To(k, Len(EnableList))
      \/ /\ i <= Len(EnableList)
         /\ ran = Send(At(k, i, (k.p_op.ops + 1) % OpsSize), "write", EnableList[i])
      \/ i <= Len(EnableList) /\ ran = Refused(To(k, i - 1))
  <2> HIDE DEF i
  <2> QED BY <1>2
<1> QED
  BY <1>3, <1>4

LEMMA RunEnableKept ==
  ASSUME NEW d, NEW u, NEW h \in Nat, NEW k \in Kept(d, u, h), NEW ok, k.p_op.list = "enable"
  PROVE  RunEnable(k, ok) \in Kept(d, u, h)
<1> DEFINE i == NextAt(EnableList, k.p_op.index, k.peer_profiles.cccd)
           more == (k.p_op.ops + 1) % OpsSize
<1>1. k.p_op \in [list: {"enable"}, index: 0..Len(EnableList), ops: Counts]
  BY DEF Kept, Blocks, Operations, NoOp
<1>2. i \in (k.p_op.index + 1)..(Len(EnableList) + 1)
  BY <1>1, NextPlace, GattClientConstants
<1>3. more \in Counts
  BY <1>1, CountType
<1> HIDE DEF i, more
<1>4. ASSUME NEW j \in 0..Len(EnableList), NEW n \in Counts
      PROVE  To(k, j) \in Kept(d, u, h) /\ At(k, j, n) \in Kept(d, u, h)
  <2>1. k.p_op # NoOp /\ ListOf(k.p_op) = EnableList
    BY <1>1 DEF NoOp, ListOf
  <2> QED BY <2>1, PlaceKept
<1>5. To(k, Len(EnableList)) \in Kept(d, u, h)
  BY <1>3, <1>4, Lists
<1>6. ASSUME i <= Len(EnableList)
      PROVE  /\ Send(At(k, i, more), "write", EnableList[i]) \in Kept(d, u, h)
             /\ Refused(To(k, i - 1)) \in Kept(d, u, h)
  <2>1. i \in 0..Len(EnableList) /\ i - 1 \in 0..Len(EnableList) /\ i \in 1..Len(EnableList)
    BY <1>1, <1>2, <1>6, Lists
  <2>2. [kind |-> "write", of |-> EnableList[i]] \in Requests
    BY <2>1, Lists DEF Requests
  <2> QED BY <1>3, <1>4, <2>1, <2>2, SendKept, RefusedKept
<1>7. PICK ran : /\ RunEnable(k, ok) = IF Finished(ran.p_op, EnableList) THEN EnableDone(ran, ok) ELSE ran
                 /\ ran \in Kept(d, u, h)
  <2>1. PICK ran : /\ RunEnable(k, ok) = IF Finished(ran.p_op, EnableList) THEN EnableDone(ran, ok) ELSE ran
                   /\ \/ i > Len(EnableList) /\ ran = To(k, Len(EnableList))
                      \/ i <= Len(EnableList) /\ ran = Send(At(k, i, more), "write", EnableList[i])
                      \/ i <= Len(EnableList) /\ ran = Refused(To(k, i - 1))
    BY RunEnableCases DEF Kept, i, more
  <2> QED BY <1>5, <1>6, <2>1
<1> QED
  BY <1>7, EnableDoneKept

LEMMA StartEnableKept ==
  ASSUME NEW d, NEW u, NEW h \in Nat, NEW k \in Kept(d, u, h), NEW ok
  PROVE  StartEnable(k, ok) \in Kept(d, u, h)
<1> DEFINE started == [k EXCEPT !.p_op = NewOp("enable")]
<1>1. started \in Kept(d, u, h) /\ started.p_op.list = "enable"
  <2>1. NewOp("enable") \in Operations /\ NewOp("enable").list = "enable"
    BY CountType, Lists DEF Operations, NewOp
  <2> QED BY <2>1 DEF Kept, Blocks
<1> HIDE DEF started
<1>2. RunEnable(started, ok) \in Kept(d, u, h)
  BY <1>1, RunEnableKept
<1> QED
  BY <1>2 DEF StartEnable, started

LEMMA ExecuteKept ==
  ASSUME NEW d, NEW u, NEW h \in Nat, NEW k \in Kept(d, u, h), NEW ok, k.p_op # NoOp
  PROVE  Execute(k, ok) \in Kept(d, u, h)
<1>1. k.p_op.list \in {"read", "enable"}
  BY DEF Kept, Blocks, Operations
<1> QED
  BY <1>1, RunReadKept, RunEnableKept DEF Execute

LEMMA OperationCompleteKept ==
  ASSUME NEW d, NEW u, NEW h \in Nat, NEW k \in Kept(d, u, h), NEW list \in {"read", "enable"},
         NEW success \in BOOLEAN, NEW ok
  PROVE  OperationComplete(k, list, success, ok) \in Kept(d, u, h)
<1> DEFINE fewer == (k.p_op.ops - 1) % OpsSize
           counted == [k EXCEPT !.p_op.ops = fewer]
<1>1. CASE k.p_op.list # list
  BY <1>1 DEF OperationComplete
<1>2. CASE k.p_op.list = list
  <2>1. k.p_op # NoOp /\ k.p_op \in Operations
    BY <1>2 DEF Kept, Blocks, NoOp
  <2>2. fewer \in Counts
    BY <2>1, OperationFields, CountType
  <2> HIDE DEF fewer
  <2>3. counted \in Kept(d, u, h)
    <3>1. Counted(k, fewer) \in Kept(d, u, h)
      BY <2>1, <2>2, CountedFields DEF Kept, Carried
    <3> QED BY <3>1 DEF Counted
  <2>4. counted.p_op # NoOp
    BY <1>2, <2>1 DEF NoOp, Kept, Blocks
  <2> HIDE DEF counted
  <2> QED
    BY <1>2, <2>3, <2>4, ReadDoneKept, EnableDoneKept, ExecuteKept DEF OperationComplete, counted, fewer
<1> QED
  BY <1>1, <1>2

LEMMA StartServiceKept ==
  ASSUME NEW d, NEW u, NEW h \in Nat, NEW k \in Kept(d, u, h), NEW service \in Services, NEW ok
  PROVE  StartService(k, service, ok) \in Kept(d, u, h)
<1> DEFINE ctx == [NoCtx EXCEPT !.service = service, !.state = "SERVICE"]
           started == [k EXCEPT !.p_discovery_ctx = ctx]
<1>1. ctx \in Contexts(d)
  BY DEF Contexts, NoCtx, NoHandles, Handles, DiscoveryStates
<1>2. started \in Kept(d, u, h)
  <2> HIDE DEF ctx
  <2> QED BY <1>1 DEF Kept, Blocks
<1>3. [kind |-> "discover", of |-> [state |-> "SERVICE", range |-> service]] \in Requests
  BY DEF Requests, DiscoveryStates
<1>4. started.hindered + 1 \in Nat
  BY <1>2 DEF Kept, Blocks
<1>5. StartService(k, service, ok) = IF "discover" \in ok
        THEN Send(started, "discover", [state |-> "SERVICE", range |-> service])
        ELSE [started EXCEPT !.hindered = @ + 1]
  BY DEF StartService
<1> HIDE DEF started
<1>6. [started EXCEPT !.hindered = @ + 1] \in Kept(d, u, h)
  BY <1>2, <1>4 DEF Kept, Blocks
<1> QED
  BY <1>2, <1>3, <1>5, <1>6, SendKept

LEMMA CacheKept ==
  ASSUME NEW d, NEW u, NEW h \in Nat, NEW k \in Kept(d, u, h), NEW ctx \in Contexts(d)
  PROVE  Cache(k, ctx) \in Kept(d, u, h)
<1> DEFINE handles == [value |-> (k.peer_profiles.value \ CharsOf(ctx.service)) \cup ctx.found.value,
                       cccd |-> (k.peer_profiles.cccd \ CharsOf(ctx.service)) \cup ctx.found.cccd]
<1>1. handles \in Handles(d)
  BY DEF Kept, Blocks, Contexts, Handles
<1>2. NoCtx \in Contexts(d)
  BY DEF Contexts, NoCtx, NoHandles, Handles, DiscoveryStates
<1>3. Cache(k, ctx) = [k EXCEPT !.peer_profiles = handles, !.p_discovery_ctx = NoCtx]
  BY DEF Cache
<1> HIDE DEF handles
<1> QED
  BY <1>1, <1>2, <1>3 DEF Kept, Blocks

LEMMA ServiceDiscoveredKept ==
  ASSUME NEW d, NEW u, NEW h \in Nat, NEW k \in Kept(d, u, h), NEW ok
  PROVE  ServiceDiscovered(k, ok) \in Kept(d, u, h)
<1> DEFINE cached == Cache(k, k.p_discovery_ctx)
<1>1. cached \in Kept(d, u, h)
  <2>1. k.p_discovery_ctx \in Contexts(d)
    BY DEF Kept, Blocks
  <2> QED BY <2>1, CacheKept
<1>2. ServiceDiscovered(k, ok) =
        CASE k.p_discovery_ctx.service = "gmcs" -> StartService(cached, "gtbs", ok)
          [] k.p_discovery_ctx.service = "gtbs" -> StartService(cached, "tmap", ok)
          [] OTHER -> StartEnable([cached EXCEPT !.told = "INITING"], ok)
  BY DEF ServiceDiscovered, DiscoverCalls, DiscoverRoles
<1> HIDE DEF cached
<1>3. [cached EXCEPT !.told = "INITING"] \in Kept(d, u, h)
  BY <1>1 DEF Kept, Blocks
<1>4. StartEnable([cached EXCEPT !.told = "INITING"], ok) \in Kept(d, u, h)
  BY <1>3, StartEnableKept
<1>5. StartService(cached, "gtbs", ok) \in Kept(d, u, h) /\ StartService(cached, "tmap", ok) \in Kept(d, u, h)
  BY <1>1, StartServiceKept DEF Services
<1> QED
  BY <1>2, <1>4, <1>5

LEMMA ResultsType ==
  ASSUME NEW d, NEW ctx \in Contexts(d), NEW request \in [state: DiscoveryStates, range: Services \cup {"none"}]
  PROVE  Results(ctx, request, d) \in Contexts(d)
<1> DEFINE some == CharsOf(request.range) \cap CharsOf(ctx.service)
<1>1. [ctx EXCEPT !.range = request.range] \in Contexts(d)
  BY DEF Contexts
<1>2. [ctx EXCEPT !.found.value = @ \cup (d.value \cap some)] \in Contexts(d)
  <2> HIDE DEF some
  <2> QED BY DEF Contexts, Handles
<1>3. [ctx EXCEPT !.found.cccd = @ \cup (d.cccd \cap some \cap ctx.found.value)] \in Contexts(d)
  <2> HIDE DEF some
  <2> QED BY DEF Contexts, Handles
<1> QED
  BY <1>1, <1>2, <1>3 DEF Results

\* The request that follows
NextRequest(ctx) ==
  CASE ctx.state = "SERVICE" -> "CHARACTERISTICS"
    [] ctx.state = "CHARACTERISTICS" -> "DESCRIPTORS"
    [] OTHER -> "COMPLETE"

LEMMA NextDiscoveryCases ==
  ASSUME NEW k, NEW ok
  PROVE  LET ctx == k.p_discovery_ctx
             next == NextRequest(ctx)
         IN NextDiscovery(k, ok) =
              IF next = "COMPLETE" \/ ctx.range = "none" THEN ServiceDiscovered(k, ok)
              ELSE IF "discover" \in ok
              THEN Send([k EXCEPT !.p_discovery_ctx.state = next], "discover", [state |-> next, range |-> ctx.range])
              ELSE [ServiceDiscovered(k, ok) EXCEPT !.hindered = @ + 1]
BY DEF NextDiscovery, NextRequest

LEMMA NextDiscoveryKept ==
  ASSUME NEW d, NEW u, NEW h \in Nat, NEW k \in Kept(d, u, h), NEW ok
  PROVE  NextDiscovery(k, ok) \in Kept(d, u, h)
<1> DEFINE ctx == k.p_discovery_ctx
           next == NextRequest(ctx)
           done == ServiceDiscovered(k, ok)
<1>1. next \in DiscoveryStates /\ ctx \in Contexts(d)
  BY DEF NextRequest, DiscoveryStates, Kept, Blocks
<1>2. done \in Kept(d, u, h)
  BY ServiceDiscoveredKept
<1>3. NextDiscovery(k, ok) =
        IF next = "COMPLETE" \/ ctx.range = "none" THEN done
        ELSE IF "discover" \in ok
        THEN Send([k EXCEPT !.p_discovery_ctx.state = next], "discover", [state |-> next, range |-> ctx.range])
        ELSE [done EXCEPT !.hindered = @ + 1]
  BY NextDiscoveryCases
<1> HIDE DEF next, done
<1>4. [done EXCEPT !.hindered = @ + 1] \in Kept(d, u, h)
  <2>1. done.hindered + 1 \in Nat
    BY <1>2 DEF Kept, Blocks
  <2> QED BY <1>2, <2>1 DEF Kept, Blocks
<1>5. [k EXCEPT !.p_discovery_ctx.state = next] \in Kept(d, u, h)
  BY <1>1 DEF Kept, Blocks, Contexts
<1>6. [kind |-> "discover", of |-> [state |-> next, range |-> ctx.range]] \in Requests
  BY <1>1 DEF Requests, Contexts
<1> QED
  BY <1>2, <1>3, <1>4, <1>5, <1>6, SendKept

\* What the handlers make of a control block
LEMMA HandlersKept ==
  ASSUME NEW d, NEW k \in Blocks(d), NEW ok
  PROVE  /\ StartRead(k, ok) \in Kept(d, k.in_use, k.hindered) /\ DiscoverMedia(k, ok) \in Kept(d, k.in_use, k.hindered)
         /\ NextDiscovery(k, ok) \in Kept(d, k.in_use, k.hindered)
         /\ k.p_op # NoOp => Execute(k, ok) \in Kept(d, k.in_use, k.hindered)
         /\ \A list \in {"read", "enable"}, success \in BOOLEAN :
              OperationComplete(k, list, success, ok) \in Kept(d, k.in_use, k.hindered)
<1>1. k \in Kept(d, k.in_use, k.hindered) /\ k.hindered \in Nat
  BY BlocksKept
<1>2. DiscoverMedia(k, ok) \in Kept(d, k.in_use, k.hindered)
  BY <1>1, StartServiceKept DEF DiscoverMedia, Services
<1> QED
  BY <1>1, <1>2, StartReadKept, NextDiscoveryKept, ExecuteKept, OperationCompleteKept

LEMMA HandlersType ==
  ASSUME NEW d, NEW k \in Blocks(d), NEW ok
  PROVE  /\ StartRead(k, ok) \in Blocks(d) /\ DiscoverMedia(k, ok) \in Blocks(d)
         /\ NextDiscovery(k, ok) \in Blocks(d)
         /\ k.p_op # NoOp => Execute(k, ok) \in Blocks(d)
         /\ \A list \in {"read", "enable"}, success \in BOOLEAN :
              OperationComplete(k, list, success, ok) \in Blocks(d)
BY HandlersKept DEF Kept

-----------------------------------------------------------------------------
(* The type invariant *)

LEMMA FreeBlockType ==
  ASSUME NEW d
  PROVE  FreeBlock \in Blocks(d) /\ FreeBlock.hindered = 0
<1>1. NoHandles \in Handles(d)
  BY DEF NoHandles, Handles
<1>2. NoCtx \in Contexts(d)
  BY <1>1 DEF NoCtx, Contexts, DiscoveryStates
<1>3. NoOp \in Operations
  BY DEF Operations
<1>4. <<>> \in Seq(Requests)
  OBVIOUS
<1> QED
  BY <1>1, <1>2, <1>3, <1>4 DEF FreeBlock, Blocks

\* A step that changes one control block and keeps its type
LEMMA BlockStep ==
  ASSUME TypeInv, NEW b \in Conns, NEW k \in Blocks(db[b]),
         clcb' = [clcb EXCEPT ![b] = k], Bounded \/ k.hindered <= MaxHindered,
         UNCHANGED <<db, nvram>>, command' \subseteq Conns, timer' \subseteq Conns,
         peer' \in [Conns -> Peers], shown' \in [Conns -> Displays]
  PROVE  TypeInv'
<1>1. \A a \in Conns : clcb'[a] = IF a = b THEN k ELSE clcb[a]
  BY DEF TypeInv
<1>2. \A a \in Conns : clcb'[a].hindered <= MaxHindered
  BY <1>1 DEF TypeInv, Bounded
<1>3. \A a \in Conns : clcb'[a] \in Blocks(db[a])
  BY <1>1 DEF TypeInv
<1> QED
  BY <1>2, <1>3 DEF TypeInv

\* What an answer leaves in the control block
Answered(k, success) == [k EXCEPT !.sent = Tail(@), !.hindered = IF success THEN @ ELSE @ + 1]

LEMMA AnsweredType ==
  ASSUME NEW d, NEW k \in Blocks(d), k.sent # <<>>, NEW success \in BOOLEAN
  PROVE  Answered(k, success) \in Blocks(d) /\ Head(k.sent) \in Requests
<1>1. k.sent \in Seq(Requests) /\ k.hindered \in Nat
  BY DEF Blocks
<1>2. Tail(k.sent) \in Seq(Requests) /\ Head(k.sent) \in Requests
  BY <1>1
<1>3. (IF success THEN k.hindered ELSE k.hindered + 1) \in Nat
  BY <1>1
<1> QED
  BY <1>2, <1>3 DEF Answered, Blocks

LEMMA ShowsType ==
  ASSUME TypeInv, NEW b \in Conns, NEW c \in ShownChars, NEW v \in Values
  PROVE  ShowsNow(b, c, v) \in [Conns -> Displays]
<1>1. shown \in [Conns -> Displays]
  BY DEF TypeInv
<1>2. [shown EXCEPT ![b][c] = v] \in [Conns -> Displays]
  BY <1>1 DEF Displays
<1>3. ShowsNow(b, c, v) \in {shown, [shown EXCEPT ![b][c] = v]}
  BY Zenon DEF ShowsNow, ShowsMedia, ShowsCall
<1> QED
  BY <1>1, <1>2, <1>3

LEMMA TypeInit == GattInit => TypeInv
<1> SUFFICES ASSUME GattInit
             PROVE  TypeInv
  OBVIOUS
<1>1. \A b \in Conns : clcb[b] \in Blocks(db[b]) /\ clcb[b].hindered <= MaxHindered
  <2>1. \A b \in Conns : clcb[b] = FreeBlock
    BY DEF GattInit
  <2>2. 0 <= MaxHindered
    BY GattClientConstants
  <2> QED BY <2>1, <2>2, FreeBlockType
<1>2. \A b \in Conns : nvram[b] \in Stored(db[b])
  BY DEF GattInit, Stored, Handles, NoHandles
<1>3. shown \in [Conns -> Displays]
  BY DEF GattInit, Displays
<1>4. peer \in [Conns -> Peers]
  <2>1. [value: [ShownChars -> Values], subscribed: {{}}] \subseteq Peers
    BY DEF Peers
  <2> QED BY <2>1 DEF GattInit
<1> QED
  BY <1>1, <1>2, <1>3, <1>4 DEF GattInit, TypeInv

LEMMA ConnectType ==
  ASSUME TypeInv, NEW b \in Conns, Connect(b)
  PROVE  TypeInv'
<1> DEFINE k == [FreeBlock EXCEPT !.in_use = TRUE, !.db_hash = nvram[b].db_hash,
                   !.peer_profiles = nvram[b].peer_profiles, !.told = "CONNECTED"]
<1>1. nvram[b].db_hash \in BOOLEAN /\ nvram[b].peer_profiles \in Handles(db[b])
  BY DEF TypeInv, Stored
<1>2. FreeBlock \in Blocks(db[b]) /\ FreeBlock.hindered = 0
  BY FreeBlockType
<1>3. k \in Blocks(db[b]) /\ k.hindered = 0
  <2> HIDE DEF FreeBlock
  <2> QED BY <1>1, <1>2 DEF Blocks
<1>4. clcb' = [clcb EXCEPT ![b] = k] /\ UNCHANGED <<db, peer, nvram, command, timer, shown>>
  BY DEF Connect
<1> HIDE DEF k
<1> QED
  BY <1>3, <1>4, BlockStep, GattClientConstants DEF TypeInv

LEMMA EncryptedType ==
  ASSUME TypeInv, NEW b \in Conns, Encrypted(b)
  PROVE  TypeInv'
<1> DEFINE underWay == clcb[b].p_discovery_ctx # NoCtx \/ clcb[b].p_op # NoOp \/ clcb[b].sent # <<>>
           k == [clcb[b] EXCEPT !.encrypted = TRUE, !.hindered = IF underWay THEN @ + 1 ELSE @]
<1>1. PICK ok \in Accepted :
        clcb' = [clcb EXCEPT ![b] = IF k.db_hash THEN StartRead(k, ok) ELSE DiscoverMedia(k, ok)]
  BY DEF Encrypted
<1>2. clcb[b] \in Blocks(db[b])
  BY DEF TypeInv
<1>3. k \in Blocks(db[b])
  <2> HIDE DEF underWay
  <2>1. (IF underWay THEN clcb[b].hindered + 1 ELSE clcb[b].hindered) \in Nat
    BY <1>2 DEF Blocks
  <2> QED BY <1>2, <2>1 DEF Blocks
<1> HIDE DEF k
<1>4. (IF k.db_hash THEN StartRead(k, ok) ELSE DiscoverMedia(k, ok)) \in Blocks(db[b])
  BY <1>3, HandlersType
<1> QED
  BY <1>1, <1>4, BlockStep DEF TypeInv, Encrypted

LEMMA AnswerDiscoverType ==
  ASSUME TypeInv, NEW b \in Conns, NEW success \in BOOLEAN, AnswerDiscover(b, success)
  PROVE  TypeInv'
<1> DEFINE request == Head(clcb[b].sent).of
           k == Answered(clcb[b], success)
           known == [k EXCEPT !.p_discovery_ctx = Results(@, request, db[b])]
           ignored == k.p_discovery_ctx = NoCtx
<1>1. PICK ok \in Accepted :
        clcb' = [clcb EXCEPT ![b] = IF ignored \/ ~success THEN k ELSE NextDiscovery(known, ok)]
  BY DEF AnswerDiscover, Answered
<1>2. clcb[b] \in Blocks(db[b]) /\ clcb[b].sent # <<>> /\ Head(clcb[b].sent).kind = "discover"
  BY DEF TypeInv, AnswerDiscover
<1>3. k \in Blocks(db[b]) /\ Head(clcb[b].sent) \in Requests
  BY <1>2, AnsweredType
<1>4. request \in [state: DiscoveryStates, range: Services \cup {"none"}]
  BY <1>2, <1>3 DEF Requests
<1> HIDE DEF k, request
<1>5. known \in Blocks(db[b])
  <2>1. Results(k.p_discovery_ctx, request, db[b]) \in Contexts(db[b])
    BY <1>3, <1>4, ResultsType DEF Blocks
  <2> QED BY <1>3, <2>1 DEF Blocks
<1> HIDE DEF known
<1>6. (IF ignored \/ ~success THEN k ELSE NextDiscovery(known, ok)) \in Blocks(db[b])
  BY <1>3, <1>5, HandlersType
<1>7. timer' \subseteq Conns /\ Bounded /\ UNCHANGED <<db, peer, nvram, command, shown>>
  BY DEF AnswerDiscover, TypeInv
<1> QED
  BY <1>1, <1>6, <1>7, BlockStep DEF TypeInv

LEMMA AnswerWriteType ==
  ASSUME TypeInv, NEW b \in Conns, NEW success \in BOOLEAN, AnswerWrite(b, success)
  PROVE  TypeInv'
<1> DEFINE k == Answered(clcb[b], success)
<1>1. PICK ok \in Accepted : clcb' = [clcb EXCEPT ![b] = OperationComplete(k, "enable", success, ok)]
  BY DEF AnswerWrite, Answered
<1>2. clcb[b] \in Blocks(db[b]) /\ clcb[b].sent # <<>> /\ Head(clcb[b].sent).kind = "write"
  BY DEF TypeInv, AnswerWrite
<1>3. k \in Blocks(db[b]) /\ Head(clcb[b].sent) \in Requests
  BY <1>2, AnsweredType
<1>4. Head(clcb[b].sent).of \in Chars
  BY <1>2, <1>3 DEF Requests
<1> HIDE DEF k
<1>5. OperationComplete(k, "enable", success, ok) \in Blocks(db[b])
  BY <1>3, HandlersType
<1>6. peer' \in [Conns -> Peers]
  <2>1. peer[b].subscribed \cup {Head(clcb[b].sent).of} \in SUBSET Chars
    BY <1>4 DEF TypeInv, Peers
  <2> QED BY <2>1 DEF AnswerWrite, TypeInv, Peers
<1>7. Bounded /\ UNCHANGED <<db, nvram, command, timer, shown>>
  BY DEF AnswerWrite
<1> QED
  BY <1>1, <1>5, <1>6, <1>7, BlockStep DEF TypeInv

LEMMA AnswerReadType ==
  ASSUME TypeInv, NEW b \in Conns, NEW success \in BOOLEAN, AnswerRead(b, success)
  PROVE  TypeInv'
<1> DEFINE k == Answered(clcb[b], success)
           c == Head(clcb[b].sent).of
<1>1. PICK ok \in Accepted : clcb' = [clcb EXCEPT ![b] = OperationComplete(k, "read", success, ok)]
  BY DEF AnswerRead, Answered
<1>2. clcb[b] \in Blocks(db[b]) /\ clcb[b].sent # <<>>
  BY DEF TypeInv, AnswerRead
<1>3. k \in Blocks(db[b])
  BY <1>2, AnsweredType
<1> HIDE DEF k
<1>4. OperationComplete(k, "read", success, ok) \in Blocks(db[b])
  BY <1>3, HandlersType
<1>5. shown' \in [Conns -> Displays]
  <2>1. shown' = IF success /\ c \in ShownChars THEN ShowsNow(b, c, peer[b].value[c]) ELSE shown
    BY DEF AnswerRead
  <2>2. c \in ShownChars => peer[b].value[c] \in Values
    BY DEF TypeInv, Peers
  <2> HIDE DEF c
  <2> QED BY <2>1, <2>2, ShowsType DEF TypeInv
<1>6. Bounded /\ UNCHANGED <<db, peer, nvram, command, timer>>
  BY DEF AnswerRead
<1> QED
  BY <1>1, <1>4, <1>5, <1>6, BlockStep DEF TypeInv

LEMMA CommandDoneType ==
  ASSUME TypeInv, NEW b \in Conns, CommandDone(b)
  PROVE  TypeInv'
<1>1. PICK ok \in Accepted :
        clcb' = [clcb EXCEPT ![b] = IF clcb[b].in_use THEN OperationComplete(clcb[b], "enable", TRUE, ok)
                                    ELSE clcb[b]]
  BY DEF CommandDone
<1>2. clcb[b] \in Blocks(db[b])
  BY DEF TypeInv
<1>3. OperationComplete(clcb[b], "enable", TRUE, ok) \in Blocks(db[b])
  BY <1>2, HandlersType
<1>4. Bounded /\ command' \subseteq Conns /\ UNCHANGED <<db, peer, nvram, timer, shown>>
  BY DEF CommandDone, TypeInv
<1> QED
  BY <1>1, <1>2, <1>3, <1>4, BlockStep DEF TypeInv

\* The blocks that have a list, and the first of them, which a congestion event takes up
Busy == {a \in Conns : clcb[a].in_use /\ clcb[a].p_op # NoOp}
First == CHOOSE a \in Busy : \A other \in Busy : a <= other

LEMMA FirstIsBusy ==
  ASSUME Busy # {}
  PROVE  First \in Conns /\ clcb[First].p_op # NoOp
<1>1. Busy \in SUBSET Nat
  BY GattClientConstants DEF Busy
<1>2. \E a \in Busy : \A other \in Busy : a <= other
  BY <1>1, Least
<1>3. First \in Busy
  BY <1>2 DEF First
<1> QED
  BY <1>3 DEF Busy

LEMMA CongestionCases ==
  ASSUME TypeInv, NEW b \in Conns, NEW congested \in BOOLEAN, Congestion(b, congested)
  PROVE  LET heard == [clcb EXCEPT ![b].congested = congested]
         IN \/ clcb' = heard
            \/ /\ First \in Conns /\ clcb[First].p_op # NoOp
               /\ \E ok \in Accepted : clcb' = [heard EXCEPT ![First] = Execute(heard[First], ok)]
BY FirstIsBusy DEF Congestion, Busy, First

LEMMA CongestionType ==
  ASSUME TypeInv, NEW b \in Conns, NEW congested \in BOOLEAN, Congestion(b, congested)
  PROVE  TypeInv'
<1> DEFINE heard == [clcb EXCEPT ![b].congested = congested]
<1>1. /\ DOMAIN heard = Conns
      /\ \A a \in Conns : heard[a] \in Blocks(db[a]) /\ heard[a].p_op = clcb[a].p_op
  <2>1. \A a \in Conns : heard[a] = IF a = b THEN [clcb[b] EXCEPT !.congested = congested] ELSE clcb[a]
    BY DEF TypeInv
  <2>2. \A a \in Conns : clcb[a] \in Blocks(db[a])
    BY DEF TypeInv
  <2>3. DOMAIN heard = Conns
    BY DEF TypeInv
  <2> HIDE DEF heard
  <2> QED BY <2>1, <2>2, <2>3 DEF Blocks
<1>2. \/ clcb' = heard
      \/ /\ First \in Conns /\ clcb[First].p_op # NoOp
         /\ \E ok \in Accepted : clcb' = [heard EXCEPT ![First] = Execute(heard[First], ok)]
  BY CongestionCases
<1>3. Bounded /\ UNCHANGED <<db, peer, nvram, command, timer, shown>>
  BY DEF Congestion
<1> HIDE DEF heard
<1>4. DOMAIN clcb' = Conns /\ \A a \in Conns : clcb'[a] \in Blocks(db[a])
  <2>1. CASE clcb' = heard
    BY <1>1, <2>1
  <2>2. ASSUME First \in Conns, clcb[First].p_op # NoOp, NEW ok \in Accepted,
               clcb' = [heard EXCEPT ![First] = Execute(heard[First], ok)]
        PROVE  DOMAIN clcb' = Conns /\ \A a \in Conns : clcb'[a] \in Blocks(db[a])
    <3>1. Execute(heard[First], ok) \in Blocks(db[First])
      BY <1>1, <2>2, HandlersType
    <3> QED BY <1>1, <2>2, <3>1
  <2> QED BY <1>2, <2>1, <2>2
<1> QED
  BY <1>3, <1>4 DEF TypeInv, Bounded

LEMMA PeerChangesType ==
  ASSUME TypeInv, NEW b \in Conns, NEW c \in ShownChars \ NameChars, PeerChanges(b, c)
  PROVE  TypeInv'
<1>1. PICK v \in Values :
        /\ peer' = [peer EXCEPT ![b].value[c] = v]
        /\ shown' = shown \/ shown' = ShowsNow(b, c, v)
  BY DEF PeerChanges
<1>2. shown' \in [Conns -> Displays]
  BY <1>1, ShowsType DEF TypeInv
<1>3. peer' \in [Conns -> Peers]
  <2>1. [peer[b] EXCEPT !.value[c] = v] \in Peers
    BY DEF TypeInv, Peers
  <2>2. peer' = [peer EXCEPT ![b] = [peer[b] EXCEPT !.value[c] = v]]
    BY <1>1
  <2> QED BY <2>1, <2>2 DEF TypeInv
<1> QED
  BY <1>2, <1>3 DEF TypeInv, PeerChanges

LEMMA FreedType ==
  ASSUME TypeInv, NEW b \in Conns, NEW hindered \in BOOLEAN, Freed(b),
         nvram' = [nvram EXCEPT ![b] = [db_hash |-> clcb[b].db_hash,
                                        peer_profiles |-> clcb[b].peer_profiles, hindered |-> hindered]],
         UNCHANGED <<db, peer>>, timer' \subseteq Conns
  PROVE  TypeInv'
<1>1. [db_hash |-> clcb[b].db_hash, peer_profiles |-> clcb[b].peer_profiles, hindered |-> hindered]
        \in Stored(db[b])
  BY DEF TypeInv, Blocks, Stored
<1>2. FreeBlock \in Blocks(db[b]) /\ FreeBlock.hindered <= MaxHindered
  BY FreeBlockType, GattClientConstants
<1>3. \A a \in Conns : nvram'[a] \in Stored(db[a]) /\ clcb'[a] \in Blocks(db[a]) /\ clcb'[a].hindered <= MaxHindered
  <2>1. \A a \in Conns : clcb'[a] = IF a = b THEN FreeBlock ELSE clcb[a]
    BY DEF TypeInv, Freed
  <2> HIDE DEF FreeBlock
  <2> QED BY <1>1, <1>2, <2>1 DEF TypeInv
<1>4. DOMAIN clcb' = Conns /\ DOMAIN nvram' = Conns
  BY DEF Freed, TypeInv
<1>5. shown' \in [Conns -> Displays]
  BY DEF Freed, TypeInv, Displays
<1> QED
  BY <1>3, <1>4, <1>5 DEF Freed, TypeInv

LEMMA DisconnectType ==
  ASSUME TypeInv, NEW b \in Conns, Disconnect(b)
  PROVE  TypeInv'
<1> DEFINE hindered == \/ clcb[b].hindered > 0
                       \/ nvram[b].hindered /\ ~clcb[b].enabled_notifications
<1>1. hindered \in BOOLEAN
  OBVIOUS
<1>2. nvram' = [nvram EXCEPT ![b] = [db_hash |-> clcb[b].db_hash,
                                     peer_profiles |-> clcb[b].peer_profiles, hindered |-> hindered]]
  BY DEF Disconnect
<1> HIDE DEF hindered
<1> QED
  BY <1>1, <1>2, FreedType DEF Disconnect, TypeInv

LEMMA TimerFiresType ==
  ASSUME TypeInv, NEW b \in Conns, TimerFires(b)
  PROVE  TypeInv'
<1>1. timer' \subseteq Conns /\ UNCHANGED <<db, peer>>
  BY DEF TimerFires, TypeInv
<1>2. CASE UNCHANGED <<clcb, nvram, command, shown>>
  BY <1>1, <1>2 DEF TypeInv
<1>3. ASSUME NEW victim \in Conns, Freed(victim),
             nvram' = [nvram EXCEPT ![victim] = [db_hash |-> clcb[victim].db_hash,
                         peer_profiles |-> clcb[victim].peer_profiles, hindered |-> TRUE]]
      PROVE  TypeInv'
  BY <1>1, <1>3, FreedType
<1> QED
  BY <1>2, <1>3 DEF TimerFires

LEMMA PowerOffType ==
  ASSUME TypeInv, PowerOff
  PROVE  TypeInv'
<1>1. \A a \in Conns : clcb'[a] \in Blocks(db[a]) /\ clcb'[a].hindered <= MaxHindered
  BY FreeBlockType, GattClientConstants DEF PowerOff
<1>2. shown' \in [Conns -> Displays]
  BY DEF PowerOff, Displays
<1> QED
  BY <1>1, <1>2 DEF PowerOff, TypeInv

LEMMA TypeStep == TypeInv /\ [GattNext]_gattVars => TypeInv'
<1> SUFFICES ASSUME TypeInv, [GattNext]_gattVars
             PROVE  TypeInv'
  OBVIOUS
<1>1. CASE UNCHANGED gattVars
  BY <1>1 DEF gattVars, TypeInv
<1>2. ASSUME NEW b \in Conns, HostWrites(b)
      PROVE  TypeInv'
  BY <1>2 DEF HostWrites, TypeInv
<1>3. ASSUME NEW b \in Conns, Answer(b)
      PROVE  TypeInv'
  BY <1>3, AnswerDiscoverType, AnswerWriteType, AnswerReadType DEF Answer, Reply
<1>4. ASSUME NEW b \in Conns, NEW congested \in BOOLEAN, Congestion(b, congested)
      PROVE  TypeInv'
  BY <1>4, CongestionType
<1>5. ASSUME NEW b \in Conns, NEW c \in ShownChars \ NameChars, PeerChanges(b, c)
      PROVE  TypeInv'
  BY <1>5, PeerChangesType
<1> QED
  BY <1>1, <1>2, <1>3, <1>4, <1>5, ConnectType, EncryptedType, DisconnectType, TimerFiresType,
     CommandDoneType, PowerOffType
     DEF GattNext, MediaCommand, CallCommand

LEMMA TypeInvMeansTypeOK == TypeInv => TypeOK
<1> SUFFICES ASSUME TypeInv
             PROVE  TypeOK
  OBVIOUS
<1>1. ASSUME NEW b \in Conns
      PROVE  /\ peer[b].value \in [ShownChars -> Values] /\ peer[b].subscribed \subseteq Chars
             /\ {nvram[b].db_hash, nvram[b].hindered} \subseteq BOOLEAN
             /\ {clcb[b].peer_profiles.value, nvram[b].peer_profiles.value} \subseteq SUBSET db[b].value
             /\ {clcb[b].peer_profiles.cccd, nvram[b].peer_profiles.cccd} \subseteq SUBSET db[b].cccd
             /\ clcb[b].p_discovery_ctx.service \in Services \cup {"none"}
             /\ clcb[b].p_discovery_ctx.state \in DiscoveryStates
             /\ {clcb[b].in_use, clcb[b].encrypted, clcb[b].db_hash, clcb[b].enabled_notifications,
                 clcb[b].read_characteristics, clcb[b].congested} \subseteq BOOLEAN
             /\ clcb[b].hindered \in 0..MaxHindered
  <2>1. /\ clcb[b] \in Blocks(db[b]) /\ nvram[b] \in Stored(db[b])
        /\ clcb[b].hindered <= MaxHindered /\ peer[b] \in Peers
    BY DEF TypeInv
  <2> QED BY <2>1, GattClientConstants DEF Blocks, Stored, Peers, Handles, Contexts
<1>2. ASSUME NEW b \in Conns
      PROVE  clcb[b].p_op \in [list: {"none", "enable", "read"}, index: 0..(Len(EnableList) + Len(ReadList)),
                                ops: 0..(OpsSize - 1)]
  <2>1. clcb[b].p_op \in Operations
    BY DEF TypeInv, Blocks
  <2> QED BY <2>1, Lists, GattClientConstants DEF Operations, Counts, NoOp
<1> QED
  BY <1>1, <1>2 DEF TypeInv, TypeOK, Displays

\* Whatever the peers have and answer, and whatever is refused, a control block, the stored
\* data and the host hold what their fields are meant for: handles that the peer has, places
\* within a list and a count within its byte.
THEOREM ClientTypeCorrect == GattFairSpec => []TypeOK
<1>1. GattInit => TypeInv
  BY TypeInit
<1>2. TypeInv /\ [GattNext]_gattVars => TypeInv'
  BY TypeStep
<1>3. TypeInv => TypeOK
  BY TypeInvMeansTypeOK
<1> QED
  BY <1>1, <1>2, <1>3, PTL DEF GattFairSpec, GattSpec

-----------------------------------------------------------------------------
(* The inductive invariant, on the control block k, what is stored n, the database d and
   the values p of a peer, and what is shown of it, s *)

\* What the host is shown of a peer with the database d, and of that what follows changes
Shows(d) == (Listed(ReadList) \cap ShownChars \cap d.value) \ NameChars
Follows(d) == Shows(d) \cap Listed(EnableList) \cap d.cccd

IsSent(k, kind, c) == \E j \in DOMAIN k.sent : k.sent[j] = [kind |-> kind, of |-> c]

OnlyWrites(k) == \A j \in DOMAIN k.sent : k.sent[j].kind = "write"

Complete(handles, d) == d.value \subseteq handles.value /\ d.cccd \subseteq handles.cccd

KnowsOf(handles, service, d) ==
  /\ d.value \cap CharsOf(service) \subseteq handles.value
  /\ d.cccd \cap CharsOf(service) \subseteq handles.cccd

\* The phases of a link on which nothing went wrong.
Quiet(k) == k.p_discovery_ctx = NoCtx /\ k.p_op = NoOp /\ OnlyWrites(k)

Fresh(k) == ~k.db_hash /\ ~k.enabled_notifications /\ k.told # "READY"

Discovering(k, d) ==
  LET ctx == k.p_discovery_ctx
  IN /\ ctx.service \in Services /\ ctx.state \in DiscoveryStates \ {"COMPLETE"}
     /\ k.p_op = NoOp /\ Fresh(k)
     /\ k.sent = <<[kind |-> "discover", of |-> [state |-> ctx.state, range |-> ctx.service]]>>
     /\ ctx.range = IF ctx.state = "SERVICE" THEN "none" ELSE ctx.service
     /\ ctx.state = "DESCRIPTORS" => d.value \cap CharsOf(ctx.service) \subseteq ctx.found.value
     /\ ctx.service # "gmcs" => KnowsOf(k.peer_profiles, "gmcs", d)
     /\ ctx.service = "tmap" => KnowsOf(k.peer_profiles, "gtbs", d)

\* A characteristic whose notifications are enabled or are about to be
Asked(k, p, c) == c \in p.subscribed \/ IsSent(k, "write", c)

Enabling(k, d, p) ==
  /\ k.p_discovery_ctx = NoCtx /\ OnlyWrites(k) /\ Fresh(k)
  /\ k.p_op.list = "enable" /\ k.p_op.index <= Len(EnableList)
  /\ Complete(k.peer_profiles, d)
  /\ \A j \in 1..k.p_op.index : EnableList[j] \in d.cccd => Asked(k, p, EnableList[j])

\* The reads that are under way are the last requests, and ops_in_progress counts them.
Reading(k) ==
  /\ k.p_discovery_ctx = NoCtx
  /\ k.p_op.list = "read" /\ k.p_op.index <= Len(ReadList)
  /\ k.p_op.ops <= k.p_op.index /\ k.p_op.ops <= Len(k.sent)
  /\ \A j \in DOMAIN k.sent : k.sent[j].kind = IF j > Len(k.sent) - k.p_op.ops THEN "read" ELSE "write"
  /\ k.enabled_notifications \/ k.db_hash

\* The host shows a value of c, and the one of the peer if it follows changes.
Settled(d, p, s, c) ==
  /\ s[c] # NoValue
  /\ c \in Follows(d) => c \in p.subscribed /\ s[c] = p.value[c]

\* The handles were found on this link or on one that enabled all notifications.
Trusted(k, n) == k.enabled_notifications \/ (k.db_hash /\ ~n.hindered)

TrustKept(k, d, p, s) ==
  /\ Complete(k.peer_profiles, d)
  /\ \A c \in Follows(d) : Asked(k, p, c) /\ (k.db_hash => c \in p.subscribed)
  /\ k.p_op.list = "read" =>
       \A j \in 1..k.p_op.index :
         ReadList[j] \in Shows(d) => Settled(d, p, s, ReadList[j]) \/ IsSent(k, "read", ReadList[j])
  /\ k.told = "READY" => \A c \in Shows(d) : Settled(d, p, s, c)

Unhindered(k, d, p) ==
  /\ ~k.congested
  /\ Quiet(k) \/ Discovering(k, d) \/ Enabling(k, d, p) \/ Reading(k)
  /\ k.told = "READY" => k.db_hash
  /\ Quiet(k) /\ k.enabled_notifications => k.db_hash
  /\ ~k.encrypted => Quiet(k) /\ k.sent = <<>> /\ k.told # "READY" /\ ~k.enabled_notifications

StoredWell(n, d, p) ==
  n.db_hash /\ ~n.hindered => Complete(n.peer_profiles, d) /\ Follows(d) \subseteq p.subscribed

\* Of the block of a link on which nothing went wrong
Well(k, n, d, p, s) ==
  k.hindered = 0 => Unhindered(k, d, p) /\ (Trusted(k, n) => TrustKept(k, d, p, s))

LinkInv(k, n, d, p, s) ==
  /\ ~k.in_use => k = FreeBlock
  /\ Well(k, n, d, p, s)
  /\ StoredWell(n, d, p)

LinksInv == \A b \in Conns : LinkInv(clcb[b], nvram[b], db[b], peer[b], shown[b])
-----------------------------------------------------------------------------
(* Operation lists keep it *)

LEMMA ReadDoneKeeps ==
  ASSUME NEW d, NEW k \in Blocks(d), NEW n, NEW p, NEW s,
         Reading(k), Unhindered(k, d, p), Trusted(k, n) => TrustKept(k, d, p, s),
         Finished(k.p_op, ReadList)
  PROVE  Well(ReadDone(k, TRUE), n, d, p, s)
<1> DEFINE r == ReadDone(k, TRUE)
<1>1. /\ r.p_op = NoOp /\ r.told = "READY" /\ r.db_hash
      /\ r.encrypted = k.encrypted
      /\ r.peer_profiles = k.peer_profiles /\ r.p_discovery_ctx = k.p_discovery_ctx
      /\ r.enabled_notifications = k.enabled_notifications /\ r.sent = k.sent
      /\ r.congested = k.congested
  BY ReadDoneFields
<1> HIDE DEF r
<1>2. OnlyWrites(k) /\ k.p_op.index = Len(ReadList) /\ k.p_op.list = "read"
  BY DEF Reading, Finished, OnlyWrites, Blocks
<1>3. k.encrypted
  <2>1. ~Quiet(k)
    BY <1>2 DEF Quiet, NoOp
  <2> QED BY <2>1 DEF Unhindered
<1>4. Quiet(r)
  BY <1>1, <1>2 DEF Quiet, OnlyWrites, Reading
<1>5. Unhindered(r, d, p)
  BY <1>1, <1>3, <1>4 DEF Unhindered
<1>6. ASSUME Trusted(r, n)
      PROVE  TrustKept(r, d, p, s)
  <2>1. TrustKept(k, d, p, s)
    BY <1>1, <1>6 DEF Trusted, Reading
  <2>2. \A c : ~IsSent(k, "read", c)
    BY <1>2 DEF OnlyWrites, IsSent
  <2>3. \A c \in Shows(d) : Settled(d, p, s, c)
    BY <1>2, <2>1, <2>2, Lists DEF TrustKept, Shows, Listed
  <2>4. \A c \in Follows(d) : Asked(r, p, c) /\ c \in p.subscribed
    BY <2>3 DEF Follows, Settled, Asked
  <2>5. r.p_op.list # "read"
    BY <1>1 DEF NoOp
  <2> QED BY <1>1, <2>1, <2>3, <2>4, <2>5 DEF TrustKept
<1> QED
  BY <1>5, <1>6 DEF Well, r

LEMMA HinderedVanishes ==
  ASSUME NEW k, NEW n, NEW d, NEW p, NEW s, k.hindered # 0
  PROVE  Well(k, n, d, p, s)
BY DEF Well

\* A list of reads that went on to a place, with or without a request
LEMMA ReadGoesOn ==
  ASSUME NEW d \in Databases, NEW k \in Blocks(d), NEW r \in Blocks(d), NEW n, NEW p, NEW s,
         Reading(k), Unhindered(k, d, p), Trusted(k, n) => TrustKept(k, d, p, s),
         Carried(r, k), r.p_op.list = "read",
         r.p_op.index \in k.p_op.index..Len(ReadList),
         \A c : IsSent(k, "read", c) => IsSent(r, "read", c),
         \A c : IsSent(k, "write", c) => IsSent(r, "write", c),
         \A j \in (k.p_op.index + 1)..r.p_op.index :
           ReadList[j] \in k.peer_profiles.value => IsSent(r, "read", ReadList[j]),
         Reading(r)
  PROVE  Unhindered(r, d, p) /\ (Trusted(r, n) => TrustKept(r, d, p, s))
<1>1. ~Quiet(k) /\ ~Quiet(r)
  BY DEF Quiet, NoOp, Reading
<1>2. Unhindered(r, d, p)
  BY <1>1 DEF Carried, Unhindered
<1>3. ASSUME Trusted(r, n)
      PROVE  TrustKept(r, d, p, s)
  <2>1. TrustKept(k, d, p, s)
    BY <1>3 DEF Carried, Trusted
  <2>2. Complete(r.peer_profiles, d)
    BY <2>1 DEF TrustKept, Carried
  <2>3. \A c \in Follows(d) : Asked(r, p, c) /\ (r.db_hash => c \in p.subscribed)
    BY <2>1 DEF TrustKept, Carried, Asked
  <2>4. ASSUME NEW j \in 1..r.p_op.index, ReadList[j] \in Shows(d)
        PROVE  Settled(d, p, s, ReadList[j]) \/ IsSent(r, "read", ReadList[j])
    <3>1. j \in 1..k.p_op.index \/ j \in (k.p_op.index + 1)..r.p_op.index
      BY Lists DEF Blocks, Operations, NoOp, Reading
    <3>2. CASE j \in 1..k.p_op.index
      BY <2>1, <2>4, <3>2 DEF TrustKept, Reading
    <3>3. CASE j \in (k.p_op.index + 1)..r.p_op.index
      BY <2>1, <2>4, <3>3 DEF TrustKept, Complete, Shows
    <3> QED BY <3>1, <3>2, <3>3
  <2>5. r.told = "READY" => \A c \in Shows(d) : Settled(d, p, s, c)
    BY <2>1 DEF TrustKept, Carried
  <2> QED BY <2>2, <2>3, <2>4, <2>5 DEF TrustKept
<1> QED
  BY <1>2, <1>3

LEMMA AppendSent ==
  ASSUME NEW d, NEW k \in Blocks(d), NEW kind, NEW what, NEW r,
         r.sent = Append(k.sent, [kind |-> kind, of |-> what])
  PROVE  /\ IsSent(r, kind, what)
         /\ \A c : /\ IsSent(k, "read", c) => IsSent(r, "read", c)
                   /\ IsSent(k, "write", c) => IsSent(r, "write", c)
         /\ Len(r.sent) = Len(k.sent) + 1 /\ DOMAIN r.sent = 1..(Len(k.sent) + 1)
         /\ r.sent[Len(k.sent) + 1].kind = kind
         /\ \A j \in DOMAIN k.sent : r.sent[j] = k.sent[j]
<1>1. k.sent \in Seq(Requests)
  BY DEF Blocks
<1>2. /\ Len(r.sent) = Len(k.sent) + 1 /\ DOMAIN r.sent = 1..(Len(k.sent) + 1)
      /\ r.sent[Len(k.sent) + 1] = [kind |-> kind, of |-> what]
      /\ \A j \in DOMAIN k.sent : j \in DOMAIN r.sent /\ r.sent[j] = k.sent[j]
  BY <1>1
<1> QED
  BY <1>1, <1>2 DEF IsSent

LEMMA RunReadKeeps ==
  ASSUME NEW d \in Databases, NEW k \in Blocks(d), NEW n, NEW p, NEW s, NEW ok,
         Reading(k), Unhindered(k, d, p), Trusted(k, n) => TrustKept(k, d, p, s)
  PROVE  Well(RunRead(k, ok), n, d, p, s)
<1> DEFINE i == NextAt(ReadList, k.p_op.index, k.peer_profiles.value)
           more == (k.p_op.ops + 1) % OpsSize
           fewer == (k.p_op.ops - 1) % OpsSize
<1>1. /\ k.p_op.list = "read" /\ k.p_op # NoOp /\ k.p_op \in Operations
      /\ k.p_op.index \in 0..Len(ReadList) /\ k.p_op.ops \in Counts
      /\ ListOf(k.p_op) = ReadList
  BY DEF Reading, Blocks, Operations, NoOp, ListOf
<1>2. /\ i \in (k.p_op.index + 1)..(Len(ReadList) + 1)
      /\ i <= Len(ReadList) => ReadList[i] \in k.peer_profiles.value
      /\ \A j \in (k.p_op.index + 1)..(i - 1) : ReadList[j] \notin k.peer_profiles.value
  BY <1>1, NextPlace, GattClientConstants
<1>3. i <= Len(ReadList) => more = k.p_op.ops + 1
  <2>1. i <= Len(ReadList) => k.p_op.ops + 1 \in 0..(OpsSize - 1)
    <3>1. k.p_op.ops \in Nat /\ k.p_op.ops <= k.p_op.index /\ k.p_op.index + 1 <= i
      BY <1>1, <1>2, Lists, GattClientConstants DEF Reading, Counts
    <3>2. Len(ReadList) \in Nat /\ OpsSize \in Nat /\ Len(ReadList) < OpsSize
      BY FewReads, Lists, GattClientConstants
    <3>3. k.p_op.index \in Nat /\ i \in Nat
      BY <1>1, <1>2, <3>2
    <3> HIDE DEF i
    <3> QED BY <3>1, <3>2, <3>3
  <2>2. \A a \in 0..(OpsSize - 1) : a % OpsSize = a
    BY GattClientConstants
  <2> QED BY <2>1, <2>2
<1>4. more \in Counts /\ fewer \in Counts
  BY <1>1, CountType
<1>5. PICK ran :
        /\ RunRead(k, ok) = IF Finished(ran.p_op, ReadList) THEN ReadDone(ran, TRUE) ELSE ran
        /\ \/ i > Len(ReadList) /\ ran = To(k, Len(ReadList))
           \/ i <= Len(ReadList) /\ ran = Send(At(k, i, more), "read", ReadList[i])
           \/ i <= Len(ReadList) /\ ran = Refused(At(k, i - 1, fewer))
  BY <1>1, RunReadCases
<1> HIDE DEF i, more, fewer
<1>9. /\ \A j \in 0..Len(ReadList) : /\ To(k, j) \in Blocks(d) /\ At(k, j, more) \in Blocks(d)
                                      /\ At(k, j, fewer) \in Blocks(d)
      /\ Len(ReadList) \in 0..Len(ReadList)
  <2>1. ASSUME NEW j \in 0..Len(ReadList)
        PROVE  To(k, j) \in Blocks(d) /\ At(k, j, more) \in Blocks(d) /\ At(k, j, fewer) \in Blocks(d)
    BY <1>1, <1>4, PlaceType
  <2> QED BY <2>1, Lists
<1>6. CASE i > Len(ReadList) /\ ran = To(k, Len(ReadList))
  <2>1. /\ ran \in Blocks(d) /\ Carried(ran, k) /\ ran.sent = k.sent
        /\ ran.p_op.list = "read" /\ ran.p_op.index = Len(ReadList) /\ ran.p_op.ops = k.p_op.ops
    BY <1>1, <1>6, <1>9, ToFields
  <2>2. \A j \in (k.p_op.index + 1)..ran.p_op.index : ReadList[j] \notin k.peer_profiles.value
    BY <1>2, <1>6, <2>1, Lists
  <2>3. Reading(ran)
    BY <1>1, <2>1, Lists DEF Reading, Carried, Counts
  <2>4. Unhindered(ran, d, p) /\ (Trusted(ran, n) => TrustKept(ran, d, p, s))
    BY <1>1, <2>1, <2>2, <2>3, ReadGoesOn, Lists DEF IsSent
  <2> QED BY <1>5, <2>1, <2>3, <2>4, ReadDoneKeeps DEF Well
<1>7. CASE i <= Len(ReadList) /\ ran = Send(At(k, i, more), "read", ReadList[i])
  <2> DEFINE at == At(k, i, more)
  <2>1. /\ at \in Blocks(d) /\ Carried(at, k) /\ at.sent = k.sent
        /\ at.p_op.list = "read" /\ at.p_op.index = i /\ at.p_op.ops = k.p_op.ops + 1
    <3>1. i \in 0..Len(ReadList)
      BY <1>1, <1>2, <1>7, Lists
    <3> QED BY <1>1, <1>3, <1>7, <1>9, <3>1, AtFields
  <2> HIDE DEF at
  <2>2. [kind |-> "read", of |-> ReadList[i]] \in Requests
    BY <1>1, <1>2, <1>7, Lists DEF Requests
  <2>3. /\ ran \in Blocks(d) /\ Carried(ran, at) /\ ran.p_op = at.p_op
        /\ ran.sent = Append(at.sent, [kind |-> "read", of |-> ReadList[i]])
    BY <1>7, <2>1, <2>2, SendType, SendFields DEF at
  <2>4. Carried(ran, k) /\ ran.sent = Append(k.sent, [kind |-> "read", of |-> ReadList[i]])
    BY <2>1, <2>3 DEF Carried
  <2>5. /\ IsSent(ran, "read", ReadList[i])
        /\ \A c : /\ IsSent(k, "read", c) => IsSent(ran, "read", c)
                  /\ IsSent(k, "write", c) => IsSent(ran, "write", c)
        /\ Len(ran.sent) = Len(k.sent) + 1 /\ DOMAIN ran.sent = 1..(Len(k.sent) + 1)
        /\ ran.sent[Len(k.sent) + 1].kind = "read"
        /\ \A j \in DOMAIN k.sent : ran.sent[j] = k.sent[j]
    BY <2>4, AppendSent
  <2>6. /\ k.p_op.ops \in Nat /\ k.p_op.index \in Nat /\ i \in Nat /\ Len(k.sent) \in Nat
        /\ DOMAIN k.sent = 1..Len(k.sent)
    BY <1>1, <1>2, Lists, GattClientConstants DEF Counts, Blocks
  <2>7. Reading(ran)
    <3> DEFINE Right(j) ==
          ran.sent[j].kind = IF j > Len(ran.sent) - ran.p_op.ops THEN "read" ELSE "write"
    <3>1. \A j \in DOMAIN ran.sent : Right(j)
      <4>1. ASSUME NEW j \in 1..Len(k.sent)
            PROVE  Right(j)
        <5>1. Len(ran.sent) - ran.p_op.ops = Len(k.sent) - k.p_op.ops
          BY <2>1, <2>3, <2>5, <2>6
        <5>2. ran.sent[j] = k.sent[j]
          BY <2>5, <2>6
        <5>3. k.sent[j].kind = IF j > Len(k.sent) - k.p_op.ops THEN "read" ELSE "write"
          <6>1. j \in DOMAIN k.sent
            BY <2>6
          <6> QED BY <6>1 DEF Reading
        <5> QED BY <5>1, <5>2, <5>3
      <4>2. Right(Len(k.sent) + 1)
        <5>1. Len(k.sent) + 1 > Len(ran.sent) - ran.p_op.ops
          BY <2>1, <2>3, <2>5, <2>6
        <5> QED BY <2>5, <5>1
      <4>3. \A j \in DOMAIN ran.sent : j \in 1..Len(k.sent) \/ j = Len(k.sent) + 1
        BY <2>5, <2>6
      <4> HIDE DEF Right
      <4> QED BY <4>1, <4>2, <4>3
    <3>2. ran.p_op.ops <= ran.p_op.index /\ ran.p_op.index <= Len(ReadList)
      <4>1. k.p_op.ops <= k.p_op.index /\ k.p_op.index + 1 <= i /\ i <= Len(ReadList)
        BY <1>2, <1>7, <2>6, Lists DEF Reading
      <4>2. ran.p_op.ops = k.p_op.ops + 1 /\ ran.p_op.index = i
        BY <2>1, <2>3
      <4> QED BY <2>6, <4>1, <4>2
    <3>3. ran.p_op.ops <= Len(ran.sent) /\ ran.p_op.list = "read"
      BY <2>1, <2>3, <2>5, <2>6 DEF Reading
    <3>4. ran.p_discovery_ctx = NoCtx /\ (ran.enabled_notifications \/ ran.db_hash)
      BY <2>4 DEF Reading, Carried
    <3> QED BY <3>1, <3>2, <3>3, <3>4 DEF Reading
  <2>8. \A j \in (k.p_op.index + 1)..ran.p_op.index :
          ReadList[j] \in k.peer_profiles.value => IsSent(ran, "read", ReadList[j])
    BY <1>2, <2>1, <2>3, <2>5, <2>6
  <2>9. ran.p_op.index \in k.p_op.index..Len(ReadList)
    BY <1>2, <1>7, <2>1, <2>3, <2>6, Lists
  <2>10. Unhindered(ran, d, p) /\ (Trusted(ran, n) => TrustKept(ran, d, p, s))
    BY <2>1, <2>3, <2>4, <2>5, <2>7, <2>8, <2>9, ReadGoesOn
  <2>11. ~Finished(ran.p_op, ReadList)
    BY <2>1, <2>3, <2>6 DEF Finished
  <2> QED BY <1>5, <2>10, <2>11 DEF Well
<1>8. CASE i <= Len(ReadList) /\ ran = Refused(At(k, i - 1, fewer))
  <2>1. At(k, i - 1, fewer) \in Blocks(d)
    <3>1. i - 1 \in 0..Len(ReadList)
      BY <1>1, <1>2, <1>8, Lists
    <3> QED BY <1>9, <3>1
  <2>2. ran \in Blocks(d) /\ ran.hindered > 0
    BY <1>8, <2>1, RefusedType, RefusedFields
  <2>3. RunRead(k, ok).hindered # 0
    <3>1. ReadDone(ran, TRUE).hindered = ran.hindered
      BY <2>2 DEF ReadDone, Blocks
    <3>2. ran.hindered # 0
      BY <2>2 DEF Blocks
    <3> QED BY <1>5, <3>1, <3>2
  <2> QED BY <2>3, HinderedVanishes
<1> QED
  BY <1>5, <1>6, <1>7, <1>8

\* The handles that are known suffice, and all notifications the host is shown are enabled
\* or about to be.
Prepared(k, d, p) ==
  /\ k.p_discovery_ctx = NoCtx /\ OnlyWrites(k) /\ Complete(k.peer_profiles, d)
  /\ \A c \in Follows(d) : Asked(k, p, c) /\ (k.db_hash => c \in p.subscribed)

\* A list of reads starts well on a link whose notifications are enabled, and on one that
\* starts from what is stored.
LEMMA StartReadKeeps ==
  ASSUME NEW d \in Databases, NEW k \in Blocks(d), NEW n, NEW p, NEW s, NEW ok,
         k.p_discovery_ctx = NoCtx, OnlyWrites(k), k.encrypted, ~k.congested,
         k.enabled_notifications \/ k.db_hash,
         k.told = "READY" => k.db_hash,
         Trusted(k, n) => /\ Prepared(k, d, p)
                          /\ k.told = "READY" => \A c \in Shows(d) : Settled(d, p, s, c)
  PROVE  Well(StartRead(k, ok), n, d, p, s)
<1> DEFINE r == [k EXCEPT !.p_op = NewOp("read")]
<1>1. /\ r \in Blocks(d) /\ Carried(r, k) /\ r.sent = k.sent
      /\ r.p_op.list = "read" /\ r.p_op.index = 0 /\ r.p_op.ops = 0
  <2>1. NewOp("read") \in Operations /\ NewOp("read").list = "read"
    BY CountType, Lists DEF Operations, NewOp
  <2>2. NewOp("read").index = 0 /\ NewOp("read").ops = 0
    BY DEF NewOp
  <2> QED BY <2>1, <2>2 DEF Blocks, Carried
<1>2. StartRead(k, ok) = RunRead(r, ok)
  BY DEF StartRead
<1> HIDE DEF r
<1>3. Reading(r)
  <2>1. Len(r.sent) \in Nat /\ DOMAIN r.sent = 1..Len(r.sent)
    BY <1>1 DEF Blocks
  <2> QED BY <1>1, <2>1, Lists DEF Reading, Carried, OnlyWrites
<1>4. Unhindered(r, d, p)
  <2>1. ~Quiet(r)
    BY <1>1 DEF Quiet, NoOp
  <2> QED BY <1>1, <1>3, <2>1 DEF Unhindered, Carried
<1>5. ASSUME Trusted(r, n)
      PROVE  TrustKept(r, d, p, s)
  <2>1. Prepared(k, d, p) /\ (k.told = "READY" => \A c \in Shows(d) : Settled(d, p, s, c))
    BY <1>1, <1>5 DEF Trusted, Carried
  <2> QED BY <1>1, <2>1 DEF TrustKept, Prepared, Asked, IsSent, Carried
<1> QED
  BY <1>1, <1>2, <1>3, <1>4, <1>5, RunReadKeeps

LEMMA EnableDoneKeeps ==
  ASSUME NEW d \in Databases, NEW k \in Blocks(d), NEW n, NEW p, NEW s, NEW ok,
         k.encrypted, ~k.congested, ~k.db_hash, k.told # "READY", Prepared(k, d, p)
  PROVE  Well(EnableDone(k, ok), n, d, p, s)
<1> DEFINE r == [k EXCEPT !.p_op = NoOp, !.enabled_notifications = TRUE]
<1>1. /\ r \in Blocks(d) /\ r.sent = k.sent /\ r.enabled_notifications
      /\ r.encrypted = k.encrypted /\ r.congested = k.congested /\ r.db_hash = k.db_hash
      /\ r.told = k.told /\ r.p_discovery_ctx = k.p_discovery_ctx
      /\ r.peer_profiles = k.peer_profiles
  BY DEF Blocks, Operations
<1>2. EnableDone(k, ok) = StartRead(r, ok)
  BY DEF EnableDone
<1> HIDE DEF r
<1>3. Prepared(r, d, p) /\ OnlyWrites(r) /\ r.p_discovery_ctx = NoCtx
  BY <1>1 DEF Prepared, OnlyWrites, Asked, IsSent
<1> QED
  BY <1>1, <1>2, <1>3, StartReadKeeps

\* When the list is at its end, all notifications are enabled or about to be.
LEMMA EnabledIsPrepared ==
  ASSUME NEW d, NEW k, NEW p, Enabling(k, d, p), k.p_op.index = Len(EnableList)
  PROVE  Prepared(k, d, p)
BY Lists DEF Enabling, Prepared, Fresh, Follows, Listed

LEMMA RunEnableKeeps ==
  ASSUME NEW d \in Databases, NEW k \in Blocks(d), NEW n, NEW p, NEW s, NEW ok,
         Enabling(k, d, p), Unhindered(k, d, p)
  PROVE  Well(RunEnable(k, ok), n, d, p, s)
<1> DEFINE i == NextAt(EnableList, k.p_op.index, k.peer_profiles.cccd)
           more == (k.p_op.ops + 1) % OpsSize
<1>1. /\ k.p_op.list = "enable" /\ k.p_op # NoOp /\ k.p_op \in Operations
      /\ k.p_op.index \in 0..Len(EnableList) /\ k.p_op.ops \in Counts
      /\ ListOf(k.p_op) = EnableList /\ ~Quiet(k)
  BY DEF Enabling, Blocks, Operations, NoOp, ListOf, Quiet
<1>2. /\ i \in (k.p_op.index + 1)..(Len(EnableList) + 1)
      /\ i <= Len(EnableList) => EnableList[i] \in k.peer_profiles.cccd
      /\ \A j \in (k.p_op.index + 1)..(i - 1) : EnableList[j] \notin k.peer_profiles.cccd
  BY <1>1, NextPlace, GattClientConstants
<1>3. more \in Counts
  BY <1>1, CountType
<1>4. PICK ran :
        /\ RunEnable(k, ok) = IF Finished(ran.p_op, EnableList) THEN EnableDone(ran, ok) ELSE ran
        /\ \/ i > Len(EnableList) /\ ran = To(k, Len(EnableList))
           \/ i <= Len(EnableList) /\ ran = Send(At(k, i, more), "write", EnableList[i])
           \/ i <= Len(EnableList) /\ ran = Refused(To(k, i - 1))
  BY <1>1, RunEnableCases
<1> HIDE DEF i, more
<1>5. /\ \A j \in 0..Len(EnableList) : To(k, j) \in Blocks(d) /\ At(k, j, more) \in Blocks(d)
      /\ Len(EnableList) \in 0..Len(EnableList)
  <2>1. ASSUME NEW j \in 0..Len(EnableList)
        PROVE  To(k, j) \in Blocks(d) /\ At(k, j, more) \in Blocks(d)
    BY <1>1, <1>3, PlaceType
  <2> QED BY <2>1, Lists
<1>6. ASSUME ran \in Blocks(d), Carried(ran, k), OnlyWrites(ran),
             ran.p_op.list = "enable", ran.p_op.index \in k.p_op.index..Len(EnableList),
             \A c : IsSent(k, "write", c) => IsSent(ran, "write", c),
             \A j \in (k.p_op.index + 1)..ran.p_op.index :
               EnableList[j] \in k.peer_profiles.cccd => IsSent(ran, "write", EnableList[j])
      PROVE  Well(RunEnable(k, ok), n, d, p, s)
  <2>1. \A j \in 1..ran.p_op.index : EnableList[j] \in d.cccd => Asked(ran, p, EnableList[j])
    <3> SUFFICES ASSUME NEW j \in 1..ran.p_op.index, EnableList[j] \in d.cccd
                 PROVE  Asked(ran, p, EnableList[j])
      OBVIOUS
    <3>1. j \in 1..k.p_op.index \/ j \in (k.p_op.index + 1)..ran.p_op.index
      BY <1>1, <1>6, Lists
    <3>2. CASE j \in 1..k.p_op.index
      BY <1>6, <3>2 DEF Enabling, Asked
    <3>3. CASE j \in (k.p_op.index + 1)..ran.p_op.index
      BY <1>6, <3>3 DEF Enabling, Asked, Complete
    <3> QED BY <3>1, <3>2, <3>3
  <2>2. Enabling(ran, d, p)
    BY <1>1, <1>6, <2>1, Lists DEF Enabling, Carried, Fresh
  <2>3. ~Quiet(ran)
    BY <1>6 DEF Quiet, NoOp
  <2>4. ran.encrypted /\ ~ran.congested /\ ~ran.db_hash /\ ran.told # "READY"
    BY <1>1, <1>6 DEF Unhindered, Carried, Enabling, Fresh
  <2>5. CASE Finished(ran.p_op, EnableList)
    <3>1. Prepared(ran, d, p)
      BY <2>2, <2>5, EnabledIsPrepared DEF Finished
    <3> QED BY <1>4, <1>6, <2>4, <2>5, <3>1, EnableDoneKeeps
  <2>6. CASE ~Finished(ran.p_op, EnableList)
    <3>1. Unhindered(ran, d, p)
      BY <2>2, <2>3, <2>4 DEF Unhindered
    <3>2. ~Trusted(ran, n)
      BY <2>2 DEF Trusted, Enabling, Fresh
    <3> QED BY <1>4, <2>6, <3>1, <3>2 DEF Well
  <2> QED BY <2>5, <2>6
<1>7. CASE i > Len(EnableList) /\ ran = To(k, Len(EnableList))
  <2>1. /\ ran \in Blocks(d) /\ Carried(ran, k) /\ ran.sent = k.sent
        /\ ran.p_op.list = "enable" /\ ran.p_op.index = Len(EnableList)
    BY <1>1, <1>5, <1>7, ToFields
  <2>2. \A j \in (k.p_op.index + 1)..ran.p_op.index : EnableList[j] \notin k.peer_profiles.cccd
    BY <1>2, <1>7, <2>1, Lists
  <2>3. OnlyWrites(ran) /\ \A c : IsSent(k, "write", c) => IsSent(ran, "write", c)
    BY <2>1 DEF Enabling, OnlyWrites, IsSent
  <2>4. ran.p_op.index \in k.p_op.index..Len(EnableList)
    BY <1>1, <2>1, Lists
  <2> QED BY <1>6, <2>1, <2>2, <2>3, <2>4
<1>8. CASE i <= Len(EnableList) /\ ran = Send(At(k, i, more), "write", EnableList[i])
  <2> DEFINE at == At(k, i, more)
  <2>1. i \in 0..Len(EnableList) /\ i \in 1..Len(EnableList) /\ k.p_op.index \in Nat
    BY <1>1, <1>2, <1>8, Lists
  <2>2. /\ at \in Blocks(d) /\ Carried(at, k) /\ at.sent = k.sent
        /\ at.p_op.list = "enable" /\ at.p_op.index = i
    BY <1>1, <1>5, <2>1, AtFields
  <2> HIDE DEF at
  <2>3. [kind |-> "write", of |-> EnableList[i]] \in Requests
    BY <2>1, Lists DEF Requests
  <2>4. /\ ran \in Blocks(d) /\ Carried(ran, at) /\ ran.p_op = at.p_op
        /\ ran.sent = Append(at.sent, [kind |-> "write", of |-> EnableList[i]])
    BY <1>8, <2>2, <2>3, SendType, SendFields DEF at
  <2>5. Carried(ran, k) /\ ran.sent = Append(k.sent, [kind |-> "write", of |-> EnableList[i]])
    BY <2>2, <2>4 DEF Carried
  <2>6. /\ IsSent(ran, "write", EnableList[i])
        /\ \A c : IsSent(k, "write", c) => IsSent(ran, "write", c)
        /\ DOMAIN ran.sent = 1..(Len(k.sent) + 1)
        /\ ran.sent[Len(k.sent) + 1].kind = "write"
        /\ \A j \in DOMAIN k.sent : ran.sent[j] = k.sent[j]
    BY <2>5, AppendSent
  <2>7. OnlyWrites(ran)
    <3>1. Len(k.sent) \in Nat /\ DOMAIN k.sent = 1..Len(k.sent)
      BY DEF Blocks
    <3>2. \A j \in DOMAIN ran.sent : j \in DOMAIN k.sent \/ j = Len(k.sent) + 1
      BY <2>6, <3>1
    <3> QED BY <2>6, <3>2 DEF OnlyWrites, Enabling
  <2>8. \A j \in (k.p_op.index + 1)..ran.p_op.index :
          EnableList[j] \in k.peer_profiles.cccd => IsSent(ran, "write", EnableList[j])
    <3>1. \A j \in (k.p_op.index + 1)..i : j = i \/ j \in (k.p_op.index + 1)..(i - 1)
      BY <2>1
    <3> QED BY <1>2, <2>2, <2>4, <2>6, <3>1
  <2>9. ran.p_op.index \in k.p_op.index..Len(EnableList)
    BY <1>1, <1>2, <2>1, <2>2, <2>4, Lists
  <2> QED BY <1>6, <2>2, <2>4, <2>5, <2>6, <2>7, <2>8, <2>9
<1>9. CASE i <= Len(EnableList) /\ ran = Refused(To(k, i - 1))
  <2>1. To(k, i - 1) \in Blocks(d)
    <3>1. i - 1 \in 0..Len(EnableList)
      BY <1>1, <1>2, <1>9, Lists
    <3> QED BY <1>5, <3>1
  <2>2. /\ ran \in Blocks(d) /\ ran.hindered > 0 /\ ran.p_op.index = i - 1
    BY <1>1, <1>9, <2>1, RefusedType, RefusedFields, ToFields
  <2>3. ~Finished(ran.p_op, EnableList)
    BY <1>1, <1>2, <1>9, <2>2, Lists DEF Finished
  <2>4. RunEnable(k, ok).hindered # 0
    BY <1>4, <2>2, <2>3 DEF Blocks
  <2> QED BY <2>4, HinderedVanishes
<1> QED
  BY <1>4, <1>7, <1>8, <1>9

\* A list that is under way is one of the two phases.
LEMMA ListPhase ==
  ASSUME NEW d, NEW k, NEW p, Unhindered(k, d, p), k.p_op # NoOp
  PROVE  \/ Reading(k) /\ k.p_op.list = "read"
         \/ Enabling(k, d, p) /\ k.p_op.list = "enable"
BY DEF Unhindered, Quiet, Discovering, Reading, Enabling

LEMMA ExecuteKeeps ==
  ASSUME NEW d \in Databases, NEW k \in Blocks(d), NEW n, NEW p, NEW s, NEW ok,
         Unhindered(k, d, p), Trusted(k, n) => TrustKept(k, d, p, s), k.p_op # NoOp
  PROVE  Well(Execute(k, ok), n, d, p, s)
BY ListPhase, RunReadKeeps, RunEnableKeeps DEF Execute

\* An answer to a write, one of the host's too, is counted.
LEMMA WriteCompleteKeeps ==
  ASSUME NEW d \in Databases, NEW k \in Blocks(d), NEW n, NEW p, NEW s, NEW ok,
         Unhindered(k, d, p), Trusted(k, n) => TrustKept(k, d, p, s)
  PROVE  Well(OperationComplete(k, "enable", TRUE, ok), n, d, p, s)
<1> DEFINE fewer == (k.p_op.ops - 1) % OpsSize
           r == Counted(k, fewer)
<1>1. CASE k.p_op.list # "enable"
  BY <1>1 DEF OperationComplete, Well
<1>2. CASE k.p_op.list = "enable"
  <2>1. k.p_op # NoOp /\ Enabling(k, d, p) /\ ~Quiet(k)
    BY <1>2, ListPhase DEF NoOp, Quiet
  <2>2. fewer \in Counts
    <3>1. k.p_op \in Operations
      BY DEF Blocks
    <3> QED BY <2>1, <3>1, OperationFields, CountType
  <2>3. OperationComplete(k, "enable", TRUE, ok) =
          IF Finished(r.p_op, EnableList) THEN EnableDone(r, ok)
          ELSE IF r.p_op.index # Len(EnableList) THEN Execute(r, ok) ELSE r
    BY <1>2 DEF OperationComplete, Counted
  <2> HIDE DEF fewer
  <2>4. /\ r \in Blocks(d) /\ Carried(r, k) /\ r.sent = k.sent
        /\ r.p_op.list = k.p_op.list /\ r.p_op.index = k.p_op.index
    BY <2>1, <2>2, CountedFields
  <2> HIDE DEF r
  <2>5. Enabling(r, d, p)
    BY <2>1, <2>4 DEF Enabling, Carried, Fresh, OnlyWrites, Asked, IsSent
  <2>6. r.encrypted /\ ~r.congested /\ ~r.db_hash /\ r.told # "READY"
    BY <2>1, <2>4 DEF Unhindered, Carried, Enabling, Fresh
  <2>7. Unhindered(r, d, p) /\ ~Trusted(r, n) /\ r.p_op # NoOp
    <3>1. ~Quiet(r) /\ r.p_op # NoOp
      BY <1>2, <2>4 DEF Quiet, NoOp
    <3> QED BY <2>5, <2>6, <3>1 DEF Unhindered, Trusted, Enabling, Fresh
  <2>8. CASE Finished(r.p_op, EnableList)
    <3>1. Prepared(r, d, p)
      BY <2>5, <2>8, EnabledIsPrepared DEF Finished
    <3> QED BY <2>3, <2>4, <2>6, <2>8, <3>1, EnableDoneKeeps
  <2>9. CASE ~Finished(r.p_op, EnableList)
    BY <2>3, <2>4, <2>7, <2>9, ExecuteKeeps DEF Well
  <2> QED BY <2>8, <2>9
<1> QED
  BY <1>1, <1>2

\* An answer to a read, once it is counted, leaves the list well.
LEMMA ReadCompleteKeeps ==
  ASSUME NEW d \in Databases, NEW k \in Blocks(d), NEW n, NEW p, NEW s, NEW ok, NEW r,
         k.p_op.list = "read", r = Counted(k, (k.p_op.ops - 1) % OpsSize),
         Reading(r), Unhindered(r, d, p), Trusted(r, n) => TrustKept(r, d, p, s)
  PROVE  Well(OperationComplete(k, "read", TRUE, ok), n, d, p, s)
<1>1. k.p_op # NoOp
  BY DEF NoOp
<1>2. r \in Blocks(d)
  <2>1. k.p_op \in Operations
    BY DEF Blocks
  <2>2. (k.p_op.ops - 1) % OpsSize \in Counts
    BY <1>1, <2>1, OperationFields, CountType
  <2> QED BY <1>1, <2>2, CountedFields
<1>3. OperationComplete(k, "read", TRUE, ok) =
        IF Finished(r.p_op, ReadList) THEN ReadDone(r, TRUE)
        ELSE IF r.p_op.index # Len(ReadList) THEN Execute(r, ok) ELSE r
  BY DEF OperationComplete, Counted
<1>4. r.p_op # NoOp
  <2>1. r.p_op.list = "read"
    BY DEF Reading
  <2> QED BY <2>1 DEF NoOp
<1>5. Finished(r.p_op, ReadList) => Well(ReadDone(r, TRUE), n, d, p, s)
  BY <1>2, ReadDoneKeeps
<1>6. Well(Execute(r, ok), n, d, p, s) /\ Well(r, n, d, p, s)
  BY <1>2, <1>4, ExecuteKeeps DEF Well
<1> QED
  BY <1>3, <1>5, <1>6

-----------------------------------------------------------------------------
(* The discovery keeps it *)

\* What is known of the services before the one that is discovered
KnowsBefore(k, service, d) ==
  /\ service # "gmcs" => KnowsOf(k.peer_profiles, "gmcs", d)
  /\ service = "tmap" => KnowsOf(k.peer_profiles, "gtbs", d)

\* The client between two requests of the discovery
Between(k) ==
  k.encrypted /\ ~k.congested /\ Fresh(k) /\ k.p_op = NoOp /\ k.sent = <<>>

LEMMA StartServiceKeeps ==
  ASSUME NEW d \in Databases, NEW k \in Blocks(d), NEW n, NEW p, NEW s, NEW ok,
         NEW service \in Services, Between(k), KnowsBefore(k, service, d)
  PROVE  Well(StartService(k, service, ok), n, d, p, s)
<1> DEFINE ctx == [NoCtx EXCEPT !.service = service, !.state = "SERVICE"]
           started == [k EXCEPT !.p_discovery_ctx = ctx]
           request == [state |-> "SERVICE", range |-> service]
           r == Send(started, "discover", request)
<1>1. ctx.service = service /\ ctx.state = "SERVICE" /\ ctx.range = "none" /\ ctx \in Contexts(d)
  BY DEF Contexts, NoCtx, NoHandles, Handles, DiscoveryStates
<1> HIDE DEF ctx
<1>2. /\ started \in Blocks(d) /\ started.p_discovery_ctx = ctx /\ started.p_op = k.p_op
      /\ started.sent = k.sent /\ started.encrypted = k.encrypted /\ started.congested = k.congested
      /\ started.db_hash = k.db_hash /\ started.told = k.told
      /\ started.enabled_notifications = k.enabled_notifications
      /\ started.peer_profiles = k.peer_profiles
  BY <1>1 DEF Blocks
<1>3. StartService(k, service, ok) = IF "discover" \in ok THEN r ELSE [started EXCEPT !.hindered = @ + 1]
  BY DEF StartService, ctx
<1> HIDE DEF started
<1>4. CASE "discover" \in ok
  <2>1. Carried(r, started) /\ r.p_op = started.p_op
        /\ r.sent = Append(started.sent, [kind |-> "discover", of |-> request])
    BY <1>2, SendFields
  <2> HIDE DEF r, request
  <2>2. r.sent = <<[kind |-> "discover", of |-> request]>>
    BY <1>2, <2>1 DEF Between
  <2>3. Fresh(r) /\ r.encrypted /\ ~r.congested /\ r.p_op = NoOp /\ r.p_discovery_ctx = ctx
        /\ r.peer_profiles = k.peer_profiles
    BY <1>2, <2>1 DEF Between, Fresh, Carried
  <2>4. Discovering(r, d)
    BY <1>1, <2>2, <2>3 DEF Discovering, KnowsBefore, DiscoveryStates, request
  <2>5. Unhindered(r, d, p) /\ ~Trusted(r, n)
    BY <2>3, <2>4 DEF Unhindered, Trusted, Fresh
  <2> QED BY <1>3, <1>4, <2>5 DEF Well
<1>5. CASE "discover" \notin ok
  <2>1. [started EXCEPT !.hindered = @ + 1].hindered # 0
    BY <1>2 DEF Blocks
  <2> QED BY <1>3, <1>5, <2>1, HinderedVanishes
<1> QED
  BY <1>4, <1>5

\* After the last service is discovered, all handles are known.
LEMMA StartEnableKeeps ==
  ASSUME NEW d \in Databases, NEW k \in Blocks(d), NEW n, NEW p, NEW s, NEW ok,
         Between(k), k.p_discovery_ctx = NoCtx, Complete(k.peer_profiles, d)
  PROVE  Well(StartEnable(k, ok), n, d, p, s)
<1> DEFINE r == [k EXCEPT !.p_op = NewOp("enable")]
<1>1. /\ r \in Blocks(d) /\ Carried(r, k) /\ r.sent = k.sent
      /\ r.p_op.list = "enable" /\ r.p_op.index = 0
  <2>1. NewOp("enable") \in Operations /\ NewOp("enable").list = "enable" /\ NewOp("enable").index = 0
    BY CountType, Lists DEF Operations, NewOp
  <2> QED BY <2>1 DEF Blocks, Carried
<1>2. StartEnable(k, ok) = RunEnable(r, ok)
  BY DEF StartEnable
<1> HIDE DEF r
<1>3. Enabling(r, d, p)
  BY <1>1, Lists DEF Enabling, Carried, Between, Fresh, OnlyWrites
<1>4. Unhindered(r, d, p)
  <2>1. ~Quiet(r)
    BY <1>1 DEF Quiet, NoOp
  <2> QED BY <1>1, <1>3, <2>1 DEF Unhindered, Carried, Between, Fresh
<1> QED
  BY <1>1, <1>2, <1>3, <1>4, RunEnableKeeps

LEMMA ServiceDiscoveredKeeps ==
  ASSUME NEW d \in Databases, NEW k \in Blocks(d), NEW n, NEW p, NEW s, NEW ok,
         Between(k), k.p_discovery_ctx.service \in Services,
         KnowsBefore(k, k.p_discovery_ctx.service, d),
         KnowsOf(k.p_discovery_ctx.found, k.p_discovery_ctx.service, d)
  PROVE  Well(ServiceDiscovered(k, ok), n, d, p, s)
<1> DEFINE ctx == k.p_discovery_ctx
           cached == Cache(k, ctx)
           told == [cached EXCEPT !.told = "INITING"]
           handles == [value |-> (k.peer_profiles.value \ CharsOf(ctx.service)) \cup ctx.found.value,
                       cccd |-> (k.peer_profiles.cccd \ CharsOf(ctx.service)) \cup ctx.found.cccd]
<1>1. ctx \in Contexts(d)
  BY DEF Blocks
<1>2. cached \in Blocks(d)
  <2>1. k \in Kept(d, k.in_use, k.hindered) /\ k.hindered \in Nat
    BY BlocksKept
  <2> QED BY <1>1, <2>1, CacheKept DEF Kept
<1>3. /\ cached.p_discovery_ctx = NoCtx /\ cached.peer_profiles = handles
      /\ cached.p_op = k.p_op /\ cached.sent = k.sent /\ cached.encrypted = k.encrypted
      /\ cached.congested = k.congested /\ cached.db_hash = k.db_hash /\ cached.told = k.told
      /\ cached.enabled_notifications = k.enabled_notifications
  <2> HIDE DEF handles
  <2>1. cached = [k EXCEPT !.peer_profiles = handles, !.p_discovery_ctx = NoCtx]
    BY DEF Cache, handles
  <2> QED BY <2>1 DEF Blocks
<1>4. ServiceDiscovered(k, ok) =
        CASE ctx.service = "gmcs" -> StartService(cached, "gtbs", ok)
          [] ctx.service = "gtbs" -> StartService(cached, "tmap", ok)
          [] OTHER -> StartEnable(told, ok)
  BY DEF ServiceDiscovered, DiscoverCalls, DiscoverRoles
<1> HIDE DEF cached
<1>5. Between(cached)
  BY <1>3 DEF Between, Fresh
<1>6. /\ KnowsOf(handles, ctx.service, d)
      /\ \A service \in Services \ {ctx.service} :
           KnowsOf(k.peer_profiles, service, d) => KnowsOf(handles, service, d)
  BY OwnCharacteristics DEF KnowsOf, Services, CharsOf
<1> HIDE DEF handles
<1>7. CASE ctx.service = "gmcs"
  <2>1. KnowsBefore(cached, "gtbs", d)
    BY <1>3, <1>6, <1>7 DEF KnowsBefore
  <2> QED BY <1>2, <1>4, <1>5, <1>7, <2>1, StartServiceKeeps DEF Services
<1>8. CASE ctx.service = "gtbs"
  <2>1. KnowsBefore(cached, "tmap", d)
    BY <1>3, <1>6, <1>8 DEF KnowsBefore, Services
  <2> QED BY <1>2, <1>4, <1>5, <1>8, <2>1, StartServiceKeeps DEF Services
<1>9. CASE ctx.service = "tmap"
  <2>1. KnowsOf(handles, "gmcs", d) /\ KnowsOf(handles, "gtbs", d)
    BY <1>6, <1>9 DEF KnowsBefore, Services
  <2>2. d.value \subseteq MediaChars \cup CallChars /\ d.cccd \subseteq d.value
    BY GattClientConstants DEF Chars
  <2>3. Complete(handles, d)
    BY <2>1, <2>2 DEF Complete, KnowsOf, CharsOf
  <2>4. /\ told \in Blocks(d) /\ told.p_discovery_ctx = NoCtx /\ told.peer_profiles = handles
        /\ told.told = "INITING" /\ told.p_op = cached.p_op /\ told.sent = cached.sent
        /\ told.encrypted = cached.encrypted /\ told.congested = cached.congested
        /\ told.db_hash = cached.db_hash
        /\ told.enabled_notifications = cached.enabled_notifications
    BY <1>2, <1>3 DEF Blocks
  <2> HIDE DEF told
  <2>5. Between(told)
    BY <1>5, <2>4 DEF Between, Fresh
  <2> QED BY <1>4, <1>9, <2>3, <2>4, <2>5, StartEnableKeeps
<1> QED
  BY <1>7, <1>8, <1>9 DEF Services

\* What was found before the next request, when it has the range of its service or the peer
\* has not the service
Found(ctx, d) ==
  /\ ctx.service \in Services /\ ctx.state \in DiscoveryStates \ {"COMPLETE"}
  /\ \/ ctx.range = ctx.service
     \/ ctx.range = "none" /\ ctx.service \notin d.services
  /\ ctx.state # "SERVICE" => d.value \cap CharsOf(ctx.service) \subseteq ctx.found.value
  /\ ctx.state = "DESCRIPTORS" => d.cccd \cap CharsOf(ctx.service) \subseteq ctx.found.cccd

LEMMA NextDiscoveryKeeps ==
  ASSUME NEW d \in Databases, NEW k \in Blocks(d), NEW n, NEW p, NEW s, NEW ok,
         Between(k), Found(k.p_discovery_ctx, d), KnowsBefore(k, k.p_discovery_ctx.service, d)
  PROVE  Well(NextDiscovery(k, ok), n, d, p, s)
<1> DEFINE ctx == k.p_discovery_ctx
           next == NextRequest(ctx)
           request == [state |-> next, range |-> ctx.range]
           asks == [k EXCEPT !.p_discovery_ctx.state = next]
           r == Send(asks, "discover", request)
           done == ServiceDiscovered(k, ok)
<1>1. NextDiscovery(k, ok) =
        IF next = "COMPLETE" \/ ctx.range = "none" THEN done
        ELSE IF "discover" \in ok THEN r ELSE [done EXCEPT !.hindered = @ + 1]
  BY NextDiscoveryCases
<1>2. CASE next = "COMPLETE" \/ ctx.range = "none"
  <2>1. KnowsOf(ctx.found, ctx.service, d)
    <3>1. CASE next = "COMPLETE"
      BY <3>1 DEF Found, KnowsOf, NextRequest, DiscoveryStates
    <3>2. CASE ctx.range = "none"
      <4>1. ctx.service \notin d.services
        BY <3>2 DEF Found, Services
      <4>2. d.value \cap CharsOf(ctx.service) = {} /\ d.cccd \subseteq d.value
        BY <4>1, OwnCharacteristics, GattClientConstants DEF Found
      <4> QED BY <4>2 DEF KnowsOf
    <3> QED BY <1>2, <3>1, <3>2
  <2>2. ctx.service \in Services
    BY DEF Found
  <2> QED BY <1>1, <1>2, <2>1, <2>2, ServiceDiscoveredKeeps
<1>3. CASE next # "COMPLETE" /\ ctx.range # "none" /\ "discover" \notin ok
  <2>1. done \in Blocks(d)
    <3>1. k \in Kept(d, k.in_use, k.hindered) /\ k.hindered \in Nat
      BY BlocksKept
    <3> QED BY <3>1, ServiceDiscoveredKept DEF Kept
  <2> HIDE DEF done
  <2>2. [done EXCEPT !.hindered = @ + 1].hindered # 0
    BY <2>1 DEF Blocks
  <2> QED BY <1>1, <1>3, <2>2, HinderedVanishes
<1>4. CASE next # "COMPLETE" /\ ctx.range # "none" /\ "discover" \in ok
  <2>1. next \in DiscoveryStates \ {"COMPLETE", "SERVICE"} /\ ctx.range = ctx.service
        /\ (next = "DESCRIPTORS" => ctx.state = "CHARACTERISTICS")
    BY <1>4 DEF Found, NextRequest, DiscoveryStates
  <2> HIDE DEF next
  <2>2. /\ asks \in Blocks(d) /\ asks.p_discovery_ctx.service = ctx.service
        /\ asks.p_discovery_ctx.range = ctx.range /\ asks.p_discovery_ctx.found = ctx.found
        /\ asks.p_discovery_ctx.state = next /\ asks.p_op = k.p_op /\ asks.sent = k.sent
        /\ asks.encrypted = k.encrypted /\ asks.congested = k.congested /\ asks.db_hash = k.db_hash
        /\ asks.told = k.told /\ asks.enabled_notifications = k.enabled_notifications
        /\ asks.peer_profiles = k.peer_profiles
    BY <2>1 DEF Blocks, Contexts
  <2> HIDE DEF asks
  <2>3. Carried(r, asks) /\ r.p_op = asks.p_op
        /\ r.sent = Append(asks.sent, [kind |-> "discover", of |-> request])
    BY <2>2, SendFields
  <2> HIDE DEF r
  <2>4. r.sent = <<[kind |-> "discover", of |-> request]>>
    <3> HIDE DEF request
    <3> QED BY <2>2, <2>3 DEF Between
  <2>5. /\ Fresh(r) /\ r.encrypted /\ ~r.congested /\ r.p_op = NoOp
        /\ r.p_discovery_ctx = asks.p_discovery_ctx /\ r.peer_profiles = k.peer_profiles
    BY <2>2, <2>3 DEF Between, Fresh, Carried
  <2>6. Discovering(r, d)
    BY <2>1, <2>2, <2>4, <2>5 DEF Discovering, KnowsBefore, Found
  <2>7. Unhindered(r, d, p) /\ ~Trusted(r, n)
    BY <2>5, <2>6 DEF Unhindered, Trusted, Fresh
  <2> QED BY <1>1, <1>4, <2>7 DEF Well
<1> QED
  BY <1>2, <1>3, <1>4

-----------------------------------------------------------------------------
(* The steps keep it *)

LEMMA FreeBlockWell ==
  ASSUME NEW n, NEW d, NEW p, NEW s
  PROVE  Well(FreeBlock, n, d, p, s)
<1>1. Quiet(FreeBlock)
  BY DEF Quiet, FreeBlock, OnlyWrites
<1>2. ~Trusted(FreeBlock, n)
  BY DEF Trusted, FreeBlock
<1>3. Unhindered(FreeBlock, d, p)
  BY <1>1 DEF Unhindered, FreeBlock
<1> QED
  BY <1>2, <1>3 DEF Well

\* A step of one link
LEMMA LinkStep ==
  ASSUME TypeInv, LinksInv, NEW b \in Conns, NEW k,
         clcb' = [clcb EXCEPT ![b] = k], UNCHANGED <<db, nvram>>,
         \A a \in Conns \ {b} : peer'[a] = peer[a] /\ shown'[a] = shown[a],
         LinkInv(k, nvram[b], db[b], peer'[b], shown'[b])
  PROVE  LinksInv'
<1> SUFFICES ASSUME NEW a \in Conns
             PROVE  LinkInv(clcb[a], nvram[a], db[a], peer[a], shown[a])'
  BY DEF LinksInv
<1>1. clcb'[a] = IF a = b THEN k ELSE clcb[a]
  BY DEF TypeInv
<1>2. CASE a = b
  BY <1>1, <1>2
<1>3. CASE a # b
  <2>1. LinkInv(clcb[a], nvram[a], db[a], peer[a], shown[a])
    BY DEF LinksInv
  <2>2. clcb'[a] = clcb[a] /\ peer'[a] = peer[a] /\ shown'[a] = shown[a]
    BY <1>1, <1>3
  <2> QED BY <2>1, <2>2
<1> QED
  BY <1>2, <1>3

\* What is known of a link
LEMMA LinkFacts ==
  ASSUME TypeInv, LinksInv, NEW b \in Conns
  PROVE  /\ clcb[b] \in Blocks(db[b]) /\ db[b] \in Databases
         /\ nvram[b] \in Stored(db[b]) /\ peer[b] \in Peers /\ shown[b] \in Displays
         /\ ~clcb[b].in_use => clcb[b] = FreeBlock
         /\ Well(clcb[b], nvram[b], db[b], peer[b], shown[b])
         /\ StoredWell(nvram[b], db[b], peer[b])
BY DEF TypeInv, LinksInv, LinkInv

\* A block that came from another is as hindered and in use.
LEMMA KeptLink ==
  ASSUME NEW d, NEW k \in Blocks(d), NEW r \in Kept(d, k.in_use, k.hindered), k.in_use,
         NEW n, NEW p, NEW s, StoredWell(n, d, p),
         k.hindered = 0 => Well(r, n, d, p, s)
  PROVE  LinkInv(r, n, d, p, s)
<1>1. k.hindered # 0 => r.hindered # 0
  BY DEF Kept, Blocks
<1>2. r.in_use
  BY DEF Kept
<1> QED
  BY <1>1, <1>2 DEF LinkInv, Well

LEMMA ConnectKeeps ==
  ASSUME TypeInv, LinksInv, NEW b \in Conns, Connect(b)
  PROVE  LinksInv'
<1> DEFINE k == [FreeBlock EXCEPT !.in_use = TRUE, !.db_hash = nvram[b].db_hash,
                   !.peer_profiles = nvram[b].peer_profiles, !.told = "CONNECTED"]
           n == nvram[b]
<1>1. clcb' = [clcb EXCEPT ![b] = k] /\ UNCHANGED <<db, peer, nvram, command, timer, shown>>
  BY DEF Connect
<1>2. /\ k.in_use /\ k.db_hash = n.db_hash /\ k.peer_profiles = n.peer_profiles
      /\ k.told = "CONNECTED" /\ k.p_discovery_ctx = NoCtx /\ k.p_op = NoOp /\ k.sent = <<>>
      /\ ~k.enabled_notifications /\ ~k.encrypted /\ ~k.congested
  BY DEF FreeBlock
<1> HIDE DEF k
<1>3. Quiet(k)
  BY <1>2 DEF Quiet, OnlyWrites
<1>4. Unhindered(k, db[b], peer[b])
  BY <1>2, <1>3 DEF Unhindered
<1>5. ASSUME Trusted(k, n)
      PROVE  TrustKept(k, db[b], peer[b], shown[b])
  <2>1. Complete(n.peer_profiles, db[b]) /\ Follows(db[b]) \subseteq peer[b].subscribed
    BY <1>2, <1>5, LinkFacts DEF Trusted, StoredWell
  <2> QED BY <1>2, <2>1 DEF TrustKept, Asked, NoOp
<1>6. LinkInv(k, n, db[b], peer[b], shown[b])
  BY <1>2, <1>4, <1>5, LinkFacts DEF LinkInv, Well
<1> QED
  BY <1>1, <1>6, LinkStep

LEMMA EncryptedKeeps ==
  ASSUME TypeInv, LinksInv, NEW b \in Conns, Encrypted(b)
  PROVE  LinksInv'
<1> DEFINE c == clcb[b]
           underWay == c.p_discovery_ctx # NoCtx \/ c.p_op # NoOp \/ c.sent # <<>>
           k == [c EXCEPT !.encrypted = TRUE, !.hindered = IF underWay THEN @ + 1 ELSE @]
           n == nvram[b]
           d == db[b]
<1>1. PICK ok \in Accepted :
        clcb' = [clcb EXCEPT ![b] = IF k.db_hash THEN StartRead(k, ok) ELSE DiscoverMedia(k, ok)]
  BY DEF Encrypted
<1> DEFINE r == IF k.db_hash THEN StartRead(k, ok) ELSE DiscoverMedia(k, ok)
<1>2. c \in Blocks(d) /\ d \in Databases /\ c.in_use /\ Well(c, n, d, peer[b], shown[b])
      /\ StoredWell(n, d, peer[b])
  BY LinkFacts DEF Encrypted
<1>3. /\ k \in Blocks(d) /\ k.encrypted /\ k.in_use = c.in_use /\ k.db_hash = c.db_hash
      /\ k.peer_profiles = c.peer_profiles /\ k.p_discovery_ctx = c.p_discovery_ctx
      /\ k.p_op = c.p_op /\ k.enabled_notifications = c.enabled_notifications /\ k.sent = c.sent
      /\ k.congested = c.congested /\ k.told = c.told
      /\ k.hindered = 0 => ~underWay /\ c.hindered = 0
  <2>1. (IF underWay THEN c.hindered + 1 ELSE c.hindered) \in Nat
        /\ ((IF underWay THEN c.hindered + 1 ELSE c.hindered) = 0 => ~underWay /\ c.hindered = 0)
    BY <1>2 DEF Blocks
  <2> HIDE DEF underWay, c
  <2> QED BY <1>2, <2>1 DEF Blocks
<1> HIDE DEF k
<1>4. r \in Kept(d, k.in_use, k.hindered)
  BY <1>3, HandlersKept
<1>5. ASSUME k.hindered = 0
      PROVE  Well(r, n, d, peer[b], shown[b])
  <2>1. Unhindered(c, d, peer[b]) /\ (Trusted(c, n) => TrustKept(c, d, peer[b], shown[b]))
    BY <1>2, <1>3, <1>5 DEF Well
  <2>2. c.p_discovery_ctx = NoCtx /\ c.p_op = NoOp /\ c.sent = <<>>
    BY <1>3, <1>5
  <2>3. Quiet(c) /\ OnlyWrites(k)
    BY <1>3, <2>2 DEF Quiet, OnlyWrites
  <2>4. ~k.congested /\ (k.told = "READY" => k.db_hash) /\ (k.enabled_notifications => k.db_hash)
    BY <1>3, <2>1, <2>3 DEF Unhindered
  <2>5. CASE k.db_hash
    <3>1. Trusted(k, n) => /\ Prepared(k, d, peer[b])
                           /\ k.told = "READY" => \A e \in Shows(d) : Settled(d, peer[b], shown[b], e)
      BY <1>3, <2>1, <2>2, <2>3 DEF Trusted, TrustKept, Prepared, Asked, IsSent
    <3>2. Well(StartRead(k, ok), n, d, peer[b], shown[b])
      BY <1>2, <1>3, <2>2, <2>3, <2>4, <2>5, <3>1, StartReadKeeps
    <3> QED BY <2>5, <3>2
  <2>6. CASE ~k.db_hash
    <3>1. Between(k)
      BY <1>3, <2>2, <2>4, <2>6 DEF Between, Fresh
    <3>2. Well(StartService(k, "gmcs", ok), n, d, peer[b], shown[b])
      BY <1>2, <1>3, <3>1, StartServiceKeeps DEF Services, KnowsBefore
    <3> QED BY <2>6, <3>2 DEF DiscoverMedia
  <2> QED BY <2>5, <2>6
<1>6. LinkInv(r, n, d, peer[b], shown[b])
  <2> HIDE DEF r
  <2> QED BY <1>2, <1>3, <1>4, <1>5, KeptLink
<1>7. UNCHANGED <<db, peer, nvram, shown>>
  BY DEF Encrypted
<1> QED
  BY <1>1, <1>6, <1>7, LinkStep

LEMMA AnsweredFields ==
  ASSUME NEW d, NEW k \in Blocks(d), k.sent # <<>>, NEW success \in BOOLEAN
  PROVE  LET r == Answered(k, success)
         IN /\ r \in Kept(d, k.in_use, k.hindered)
            /\ success => Carried(r, k)
            /\ ~success => r.hindered # 0
            /\ r.sent = Tail(k.sent) /\ r.p_op = k.p_op /\ r.p_discovery_ctx = k.p_discovery_ctx
<1> DEFINE r == Answered(k, success)
<1>1. r \in Blocks(d)
  BY AnsweredType
<1>2. /\ r.hindered = (IF success THEN k.hindered ELSE k.hindered + 1)
      /\ r.in_use = k.in_use /\ r.encrypted = k.encrypted /\ r.db_hash = k.db_hash
      /\ r.peer_profiles = k.peer_profiles /\ r.p_discovery_ctx = k.p_discovery_ctx
      /\ r.enabled_notifications = k.enabled_notifications /\ r.congested = k.congested
      /\ r.told = k.told /\ r.sent = Tail(k.sent) /\ r.p_op = k.p_op
  BY DEF Blocks, Answered
<1>3. k.hindered \in Nat
  BY DEF Blocks
<1> HIDE DEF r
<1>4. k.hindered <= r.hindered /\ (~success => r.hindered # 0) /\ (success => r.hindered = k.hindered)
  BY <1>2, <1>3
<1>5. r \in Kept(d, k.in_use, k.hindered)
  BY <1>1, <1>2, <1>4 DEF Kept
<1>6. success => Carried(r, k)
  BY <1>2, <1>4 DEF Carried
<1> QED
  BY <1>2, <1>4, <1>5, <1>6 DEF r

\* A request that is sent belongs to a link in use.
LEMMA SentInUse ==
  ASSUME TypeInv, LinksInv, NEW b \in Conns,
         clcb[b].sent # <<>> \/ clcb[b].congested \/ clcb[b].p_op # NoOp
  PROVE  clcb[b].in_use
BY LinkFacts DEF FreeBlock

\* The requests without their first one
LEMMA TailSent ==
  ASSUME NEW d, NEW k \in Blocks(d), k.sent # <<>>
  PROVE  /\ Len(k.sent) \in Nat \ {0} /\ DOMAIN k.sent = 1..Len(k.sent)
         /\ Len(Tail(k.sent)) = Len(k.sent) - 1 /\ DOMAIN Tail(k.sent) = 1..(Len(k.sent) - 1)
         /\ k.sent[1] = Head(k.sent)
         /\ \A j \in 1..(Len(k.sent) - 1) : Tail(k.sent)[j] = k.sent[j + 1]
<1>1. k.sent \in Seq(Requests)
  BY DEF Blocks
<1> QED
  BY <1>1

LEMMA SentOrFirst ==
  ASSUME NEW d, NEW k \in Blocks(d), k.sent # <<>>, NEW r, r.sent = Tail(k.sent)
  PROVE  \A kind, c : IsSent(k, kind, c) => \/ IsSent(r, kind, c)
                                             \/ Head(k.sent) = [kind |-> kind, of |-> c]
<1> SUFFICES ASSUME NEW kind, NEW c, IsSent(k, kind, c)
             PROVE  IsSent(r, kind, c) \/ Head(k.sent) = [kind |-> kind, of |-> c]
  OBVIOUS
<1>1. PICK j \in DOMAIN k.sent : k.sent[j] = [kind |-> kind, of |-> c]
  BY DEF IsSent
<1>2. CASE j = 1
  BY <1>1, <1>2, TailSent
<1>3. CASE j # 1
  <2>1. j - 1 \in 1..(Len(k.sent) - 1) /\ (j - 1) + 1 = j
    BY <1>1, <1>3, TailSent
  <2>2. Tail(k.sent)[j - 1] = k.sent[j]
    BY <2>1, TailSent
  <2> QED BY <1>1, <2>1, <2>2, TailSent DEF IsSent
<1> QED
  BY <1>2, <1>3

\* A request other than the first is still sent when that was answered.
LEMMA SentBehind ==
  ASSUME NEW d, NEW k \in Blocks(d), k.sent # <<>>, NEW r, r.sent = Tail(k.sent),
         NEW kind, NEW c, IsSent(k, kind, c), Head(k.sent).kind # kind \/ Head(k.sent).of # c
  PROVE  IsSent(r, kind, c)
<1>1. Head(k.sent) # [kind |-> kind, of |-> c]
  OBVIOUS
<1> QED
  BY <1>1, SentOrFirst

\* What Results does of the answer to the request of the state the context is in
LEMMA ResultsFound ==
  ASSUME NEW d \in Databases, NEW ctx \in Contexts(d), NEW request,
         ctx.service \in Services, ctx.state \in DiscoveryStates \ {"COMPLETE"},
         request = [state |-> ctx.state, range |-> ctx.service],
         ctx.range = IF ctx.state = "SERVICE" THEN "none" ELSE ctx.service,
         ctx.state = "DESCRIPTORS" => d.value \cap CharsOf(ctx.service) \subseteq ctx.found.value
  PROVE  Found(Results(ctx, request, d), d) /\ Results(ctx, request, d).service = ctx.service
<1> DEFINE some == CharsOf(ctx.service)
<1>1. request.state = ctx.state /\ request.range = ctx.service
  OBVIOUS
<1>2. CASE ctx.state = "SERVICE" /\ ctx.service \in d.services
  <2> DEFINE r == [ctx EXCEPT !.range = ctx.service]
  <2>1. Results(ctx, request, d) = r
    BY <1>1, <1>2 DEF Results
  <2>2. r.range = ctx.service /\ r.service = ctx.service /\ r.state = ctx.state
    BY DEF Contexts
  <2> HIDE DEF r
  <2> QED BY <1>2, <2>1, <2>2 DEF Found
<1>3. CASE ctx.state = "SERVICE" /\ ctx.service \notin d.services
  <2>1. Results(ctx, request, d) = ctx
    BY <1>1, <1>3 DEF Results
  <2> QED BY <1>3, <2>1 DEF Found
<1>4. CASE ctx.state = "CHARACTERISTICS"
  <2> DEFINE r == [ctx EXCEPT !.found.value = @ \cup (d.value \cap (some \cap some))]
  <2>1. Results(ctx, request, d) = r
    BY <1>1, <1>4 DEF Results
  <2>2. /\ r.range = ctx.range /\ r.service = ctx.service /\ r.state = ctx.state
        /\ r.found.value = ctx.found.value \cup (d.value \cap (some \cap some))
    <3> HIDE DEF some
    <3> QED BY DEF Contexts, Handles
  <2> HIDE DEF r
  <2>3. d.value \cap some \subseteq r.found.value
    BY <2>2
  <2> QED BY <1>4, <2>1, <2>2, <2>3 DEF Found
<1>5. CASE ctx.state = "DESCRIPTORS"
  <2> DEFINE r == [ctx EXCEPT !.found.cccd = @ \cup (d.cccd \cap (some \cap some) \cap ctx.found.value)]
  <2>1. Results(ctx, request, d) = r
    BY <1>1, <1>5 DEF Results
  <2>2. /\ r.range = ctx.range /\ r.service = ctx.service /\ r.state = ctx.state
        /\ r.found.value = ctx.found.value
        /\ r.found.cccd = ctx.found.cccd \cup (d.cccd \cap (some \cap some) \cap ctx.found.value)
    <3> HIDE DEF some
    <3> QED BY DEF Contexts, Handles
  <2> HIDE DEF r
  <2>3. d.cccd \cap some \subseteq r.found.cccd
    BY <1>5, <2>2, GattClientConstants
  <2> QED BY <1>5, <2>1, <2>2, <2>3 DEF Found
<1> QED
  BY <1>2, <1>3, <1>4, <1>5 DEF DiscoveryStates

LEMMA AnswerDiscoverKeeps ==
  ASSUME TypeInv, LinksInv, NEW b \in Conns, NEW success \in BOOLEAN, AnswerDiscover(b, success)
  PROVE  LinksInv'
<1> DEFINE c == clcb[b]
           request == Head(c.sent).of
           k == Answered(c, success)
           d == db[b]
           ctx == Results(k.p_discovery_ctx, request, d)
           known == [k EXCEPT !.p_discovery_ctx = ctx]
           ignored == k.p_discovery_ctx = NoCtx
<1>1. PICK ok \in Accepted :
        clcb' = [clcb EXCEPT ![b] = IF ignored \/ ~success THEN k ELSE NextDiscovery(known, ok)]
  BY DEF AnswerDiscover, Answered
<1> DEFINE r == IF ignored \/ ~success THEN k ELSE NextDiscovery(known, ok)
<1>2. /\ c \in Blocks(d) /\ d \in Databases /\ c.in_use /\ Well(c, nvram[b], d, peer[b], shown[b])
      /\ StoredWell(nvram[b], d, peer[b]) /\ c.sent # <<>> /\ Head(c.sent).kind = "discover"
  BY LinkFacts, SentInUse DEF AnswerDiscover
<1>3. /\ k \in Kept(d, c.in_use, c.hindered) /\ (success => Carried(k, c)) /\ (~success => k.hindered # 0)
      /\ k.sent = Tail(c.sent) /\ k.p_op = c.p_op /\ k.p_discovery_ctx = c.p_discovery_ctx
  BY <1>2, AnsweredFields
<1>4. k \in Blocks(d) /\ c.hindered \in Nat /\ Head(c.sent) \in Requests
  BY <1>2, <1>3, AnsweredType DEF Kept, Blocks
<1>5. request \in [state: DiscoveryStates, range: Services \cup {"none"}]
  BY <1>2, <1>4 DEF Requests
<1>6. ctx \in Contexts(d)
  <2> HIDE DEF k, request
  <2> QED BY <1>4, <1>5, ResultsType DEF Blocks
<1> HIDE DEF k, ctx
<1>7. /\ known \in Kept(d, c.in_use, c.hindered)
      /\ known.p_discovery_ctx = ctx /\ known.sent = k.sent /\ known.p_op = k.p_op
      /\ known.encrypted = k.encrypted /\ known.congested = k.congested /\ known.db_hash = k.db_hash
      /\ known.told = k.told /\ known.enabled_notifications = k.enabled_notifications
      /\ known.peer_profiles = k.peer_profiles
  BY <1>3, <1>4, <1>6 DEF Kept, Blocks
<1> HIDE DEF known
<1>8. NextDiscovery(known, ok) \in Kept(d, c.in_use, c.hindered)
  BY <1>4, <1>7, NextDiscoveryKept
<1>9. r \in Kept(d, c.in_use, c.hindered)
  BY <1>3, <1>8
<1>10. ASSUME c.hindered = 0
       PROVE  Well(r, nvram[b], d, peer[b], shown[b])
  <2>1. CASE ~success
    BY <1>3, <2>1, HinderedVanishes
  <2>2. CASE success
    <3>1. Unhindered(c, d, peer[b])
      BY <1>2, <1>10 DEF Well
    <3>2. Discovering(c, d)
      <4>1. 1 \in DOMAIN c.sent /\ c.sent[1].kind = "discover"
        BY <1>2, TailSent
      <4> QED BY <3>1, <4>1 DEF Unhindered, Quiet, Enabling, Reading, OnlyWrites
    <3>3. c.p_discovery_ctx.service \in Services
      BY <3>2 DEF Discovering
    <3>4. ~ignored /\ c.p_discovery_ctx # NoCtx
      BY <1>3, <3>3 DEF NoCtx, Services
    <3>5. c.encrypted
      BY <3>1, <3>4 DEF Unhindered, Quiet
    <3>6. request = [state |-> c.p_discovery_ctx.state, range |-> c.p_discovery_ctx.service]
          /\ Tail(c.sent) = <<>>
      BY <3>2 DEF Discovering
    <3>7. Found(ctx, d) /\ ctx.service = c.p_discovery_ctx.service
      <4>1. c.p_discovery_ctx \in Contexts(d)
        BY <1>2 DEF Blocks
      <4> HIDE DEF request
      <4> QED BY <1>2, <1>3, <3>2, <3>6, <4>1, ResultsFound DEF Discovering, ctx
    <3>8. Between(known)
      BY <1>3, <1>7, <2>2, <3>1, <3>2, <3>5, <3>6 DEF Between, Carried, Discovering, Unhindered, Fresh
    <3>9. KnowsBefore(known, ctx.service, d)
      BY <1>3, <1>7, <2>2, <3>2, <3>7 DEF Carried, Discovering, KnowsBefore
    <3>10. known \in Blocks(d)
      BY <1>7 DEF Kept
    <3>11. Well(NextDiscovery(known, ok), nvram[b], d, peer[b], shown[b])
      BY <1>2, <1>7, <3>7, <3>8, <3>9, <3>10, NextDiscoveryKeeps
    <3> QED BY <2>2, <3>4, <3>11
  <2> QED BY <2>1, <2>2
<1>11. LinkInv(r, nvram[b], d, peer[b], shown[b])
  <2> HIDE DEF r
  <2> QED BY <1>2, <1>9, <1>10, KeptLink
<1>12. UNCHANGED <<db, peer, nvram, shown>>
  BY DEF AnswerDiscover
<1> QED
  BY <1>1, <1>11, <1>12, LinkStep

LEMMA AnswerWriteKeeps ==
  ASSUME TypeInv, LinksInv, NEW b \in Conns, NEW success \in BOOLEAN, AnswerWrite(b, success)
  PROVE  LinksInv'
<1> DEFINE c == clcb[b]
           k == Answered(c, success)
           d == db[b]
           n == nvram[b]
           p == peer[b]
           q == peer'[b]
           s == shown[b]
<1>1. PICK ok \in Accepted : clcb' = [clcb EXCEPT ![b] = OperationComplete(k, "enable", success, ok)]
  BY DEF AnswerWrite, Answered
<1> DEFINE r == OperationComplete(k, "enable", success, ok)
<1>2. /\ c \in Blocks(d) /\ d \in Databases /\ c.in_use /\ Well(c, n, d, p, s)
      /\ StoredWell(n, d, p) /\ c.sent # <<>> /\ Head(c.sent).kind = "write"
  BY LinkFacts, SentInUse DEF AnswerWrite
<1>3. /\ k \in Kept(d, c.in_use, c.hindered) /\ (success => Carried(k, c)) /\ (~success => k.hindered # 0)
      /\ k.sent = Tail(c.sent) /\ k.p_op = c.p_op /\ k.p_discovery_ctx = c.p_discovery_ctx
  BY <1>2, AnsweredFields
<1>4. k \in Blocks(d) /\ c.hindered \in Nat
  BY <1>2, <1>3 DEF Kept, Blocks
<1>5. /\ q.value = p.value /\ p.subscribed \subseteq q.subscribed
      /\ success => Head(c.sent).of \in q.subscribed
      /\ \A a \in Conns \ {b} : peer'[a] = peer[a]
  BY DEF AnswerWrite, TypeInv, Peers
<1>6. StoredWell(n, d, q)
  BY <1>2, <1>5 DEF StoredWell
<1> HIDE DEF k, q
<1>7. r \in Kept(d, c.in_use, c.hindered)
  BY <1>3, <1>4, OperationCompleteKept
<1>8. ASSUME c.hindered = 0, success
      PROVE  Well(r, n, d, q, s)
  <2>1. Unhindered(c, d, p) /\ (Trusted(c, n) => TrustKept(c, d, p, s))
    BY <1>2, <1>8 DEF Well
  <2>2. \A e : Asked(c, p, e) => Asked(k, q, e)
    <3> SUFFICES ASSUME NEW e, IsSent(c, "write", e), Head(c.sent).of # e
                 PROVE  IsSent(k, "write", e)
      BY <1>5, <1>8 DEF Asked
    <3> HIDE DEF c
    <3> QED BY <1>2, <1>3, SentBehind
  <2>3. \A e : IsSent(c, "read", e) => IsSent(k, "read", e)
    <3> SUFFICES ASSUME NEW e, IsSent(c, "read", e)
                 PROVE  IsSent(k, "read", e)
      OBVIOUS
    <3>1. Head(c.sent).kind # "read"
      BY <1>2
    <3> HIDE DEF c
    <3> QED BY <1>2, <1>3, <3>1, SentBehind
  <2>4. /\ Len(c.sent) \in Nat \ {0} /\ DOMAIN c.sent = 1..Len(c.sent)
        /\ Len(k.sent) = Len(c.sent) - 1 /\ DOMAIN k.sent = 1..(Len(c.sent) - 1)
        /\ c.sent[1].kind = "write" /\ \A j \in 1..(Len(c.sent) - 1) : k.sent[j] = c.sent[j + 1]
    BY <1>2, <1>3, TailSent
  <2>5. OnlyWrites(c) => OnlyWrites(k)
    <3>1. \A j \in DOMAIN k.sent : j + 1 \in DOMAIN c.sent /\ k.sent[j] = c.sent[j + 1]
      BY <2>4
    <3> QED BY <3>1 DEF OnlyWrites
  <2>6. Carried(k, c)
    BY <1>3, <1>8
  <2>7. Quiet(c) => Quiet(k)
    BY <1>3, <2>5 DEF Quiet
  <2>8. ~Discovering(c, d)
    BY <2>4 DEF Discovering
  <2>9. Enabling(c, d, p) => Enabling(k, d, q)
    BY <1>3, <2>2, <2>5, <2>6 DEF Enabling, Carried, Fresh
  <2>10. ASSUME Reading(c)
         PROVE  Reading(k)
    <3>1. c.p_op.ops \in Nat
      <4>1. c.p_op \in Operations
        BY <1>2 DEF Blocks
      <4>2. c.p_op # NoOp
        BY <2>10 DEF Reading, NoOp
      <4>3. c.p_op.ops \in Counts
        <5> HIDE DEF c
        <5> QED BY <4>1, <4>2, OperationFields
      <4> QED BY <4>3, GattClientConstants DEF Counts
    <3>2. c.p_op.ops < Len(c.sent)
      BY <2>4, <2>10, <3>1 DEF Reading
    <3>3. ASSUME NEW j \in 1..(Len(c.sent) - 1)
          PROVE  k.sent[j].kind = IF j > Len(k.sent) - k.p_op.ops THEN "read" ELSE "write"
      <4>1. c.sent[j + 1].kind = IF j + 1 > Len(c.sent) - c.p_op.ops THEN "read" ELSE "write"
        BY <2>4, <2>10 DEF Reading
      <4>2. j + 1 > Len(c.sent) - c.p_op.ops <=> j > Len(k.sent) - k.p_op.ops
        BY <1>3, <2>4, <3>1
      <4> QED BY <2>4, <4>1, <4>2
    <3>4. k.p_op.ops <= Len(k.sent)
      BY <1>3, <2>4, <3>1, <3>2
    <3> QED BY <1>3, <2>4, <2>6, <2>10, <3>3, <3>4 DEF Reading, Carried
  <2>11. Unhindered(k, d, q)
    <3>1. c.encrypted
      BY <1>2, <2>1 DEF Unhindered
    <3>2. Quiet(k) => Quiet(c) \/ ~c.enabled_notifications \/ c.db_hash
      BY <1>3, <2>1 DEF Unhindered, Quiet, Discovering, Enabling, Reading, Fresh, NoOp
    <3> QED BY <2>1, <2>6, <2>7, <2>8, <2>9, <2>10, <3>1, <3>2 DEF Unhindered, Carried
  <2>12. Trusted(k, n) => TrustKept(k, d, q, s)
    <3> SUFFICES ASSUME Trusted(k, n)
                 PROVE  TrustKept(k, d, q, s)
      OBVIOUS
    <3>1. TrustKept(c, d, p, s)
      BY <2>1, <2>6 DEF Trusted, Carried
    <3>2. \A e : Settled(d, p, s, e) => Settled(d, q, s, e)
      BY <1>5 DEF Settled
    <3> QED BY <1>3, <1>5, <2>2, <2>3, <2>6, <3>1, <3>2 DEF TrustKept, Carried
  <2> QED BY <1>2, <1>4, <1>8, <2>11, <2>12, WriteCompleteKeeps
<1>9. ASSUME ~success
      PROVE  Well(r, n, d, q, s)
  <2>1. k \in Kept(d, c.in_use, 1)
    BY <1>3, <1>4, <1>9 DEF Kept, Blocks
  <2>2. r \in Kept(d, c.in_use, 1)
    BY <2>1, OperationCompleteKept
  <2>3. r.hindered # 0
    BY <2>2 DEF Kept, Blocks
  <2> QED BY <2>3, HinderedVanishes
<1>10. LinkInv(r, n, d, q, s)
  <2> HIDE DEF r
  <2> QED BY <1>2, <1>6, <1>7, <1>8, <1>9, KeptLink
<1>11. UNCHANGED <<db, nvram, shown>>
  BY DEF AnswerWrite
<1> QED
  BY <1>1, <1>5, <1>10, <1>11, LinkStep DEF q

\* What the host shows after a value of the peer b
LEMMA ShownThen ==
  ASSUME TypeInv, NEW b \in Conns, NEW c \in ShownChars, NEW v \in Values
  PROVE  LET then == ShowsNow(b, c, v)
         IN /\ \A a \in Conns \ {b} : then[a] = shown[a]
            /\ \A e \in ShownChars \ NameChars : then[b][e] = IF e = c THEN v ELSE shown[b][e]
<1> DEFINE all == [shown EXCEPT ![b][c] = v]
<1>1. ShowsNow(b, c, v) \in {shown, all}
  BY Zenon DEF ShowsNow, ShowsMedia, ShowsCall
<1>2. c \notin NameChars => ShowsNow(b, c, v) = all
  BY Zenon DEF ShowsNow, ShowsMedia, ShowsCall
<1>3. /\ \A a \in Conns \ {b} : all[a] = shown[a]
      /\ \A e \in ShownChars : all[b][e] = IF e = c THEN v ELSE shown[b][e]
  BY DEF TypeInv, Displays
<1> HIDE DEF all
<1> QED
  BY <1>1, <1>2, <1>3

LEMMA AnswerReadKeeps ==
  ASSUME TypeInv, LinksInv, NEW b \in Conns, NEW success \in BOOLEAN, AnswerRead(b, success)
  PROVE  LinksInv'
<1> DEFINE c == clcb[b]
           x == Head(c.sent).of
           k == Answered(c, success)
           d == db[b]
           n == nvram[b]
           p == peer[b]
           s == shown[b]
           t == shown'[b]
<1>1. PICK ok \in Accepted : clcb' = [clcb EXCEPT ![b] = OperationComplete(k, "read", success, ok)]
  BY DEF AnswerRead, Answered
<1> DEFINE r == OperationComplete(k, "read", success, ok)
<1>2. /\ c \in Blocks(d) /\ d \in Databases /\ c.in_use /\ Well(c, n, d, p, s)
      /\ StoredWell(n, d, p) /\ c.sent # <<>> /\ Head(c.sent).kind = "read"
  BY LinkFacts, SentInUse DEF AnswerRead
<1>3. /\ k \in Kept(d, c.in_use, c.hindered) /\ (success => Carried(k, c)) /\ (~success => k.hindered # 0)
      /\ k.sent = Tail(c.sent) /\ k.p_op = c.p_op /\ k.p_discovery_ctx = c.p_discovery_ctx
  BY <1>2, AnsweredFields
<1>4. k \in Blocks(d) /\ c.hindered \in Nat
  BY <1>2, <1>3 DEF Kept, Blocks
<1>5. /\ \A a \in Conns \ {b} : shown'[a] = shown[a]
      /\ success => \A e \in ShownChars \ NameChars : t[e] = IF e = x THEN p.value[x] ELSE s[e]
  <2>1. x \in ShownChars => p.value[x] \in Values
    BY DEF TypeInv, Peers
  <2>2. CASE success /\ x \in ShownChars
    <3>1. shown' = ShowsNow(b, x, p.value[x])
      BY <2>2 DEF AnswerRead
    <3> HIDE DEF x
    <3> QED BY <2>1, <2>2, <3>1, ShownThen
  <2>3. CASE ~(success /\ x \in ShownChars)
    <3>1. shown' = shown
      BY <2>3 DEF AnswerRead
    <3> QED BY <2>3, <3>1
  <2> QED BY <2>2, <2>3
<1> HIDE DEF k, t
<1>6. r \in Kept(d, c.in_use, c.hindered)
  BY <1>3, <1>4, OperationCompleteKept
<1>7. ASSUME c.hindered = 0, success
      PROVE  Well(r, n, d, p, t)
  <2> DEFINE ops == c.p_op.ops
             m == Counted(k, (k.p_op.ops - 1) % OpsSize)
  <2>1. Unhindered(c, d, p) /\ (Trusted(c, n) => TrustKept(c, d, p, s)) /\ Carried(k, c)
    BY <1>2, <1>3, <1>7 DEF Well
  <2>2. /\ Len(c.sent) \in Nat \ {0} /\ DOMAIN c.sent = 1..Len(c.sent)
        /\ Len(k.sent) = Len(c.sent) - 1 /\ DOMAIN k.sent = 1..(Len(c.sent) - 1)
        /\ c.sent[1] = Head(c.sent)
        /\ c.sent[1].kind = "read" /\ \A j \in 1..(Len(c.sent) - 1) : k.sent[j] = c.sent[j + 1]
    BY <1>2, <1>3, TailSent
  <2>3. Reading(c)
    <3>1. 1 \in DOMAIN c.sent
      BY <2>2
    <3> QED BY <2>1, <2>2, <3>1 DEF Unhindered, Quiet, Enabling, Discovering, OnlyWrites
  <2>4. /\ c.p_op \in Operations /\ c.p_op # NoOp /\ c.p_op.index \in 0..Len(ReadList) /\ ops \in Counts
    <3>1. c.p_op \in Operations /\ c.p_op # NoOp /\ ListOf(c.p_op) = ReadList
      BY <1>2, <2>3 DEF Reading, Blocks, NoOp, ListOf
    <3> QED BY <3>1, OperationFields
  <2>5. ops \in Nat /\ ops = Len(c.sent) /\ ops # 0
    <3>1. ops \in Nat
      BY <2>4, GattClientConstants DEF Counts
    <3>2. 1 > Len(c.sent) - ops
      BY <2>2, <2>3 DEF Reading
    <3> QED BY <2>2, <2>3, <3>1, <3>2 DEF Reading
  <2>6. (k.p_op.ops - 1) % OpsSize = ops - 1
    <3>1. ops - 1 \in 0..(OpsSize - 1)
      BY <2>4, <2>5, GattClientConstants DEF Counts
    <3>2. \A a \in 0..(OpsSize - 1) : a % OpsSize = a
      BY GattClientConstants
    <3> QED BY <1>3, <3>1, <3>2
  <2>7. \A j \in DOMAIN c.sent : c.sent[j].kind = "read"
    BY <2>2, <2>3, <2>5 DEF Reading
  <2>8. /\ m \in Blocks(d) /\ Carried(m, k) /\ m.sent = k.sent /\ m.p_op.list = "read"
        /\ m.p_op.index = c.p_op.index /\ m.p_op.ops = ops - 1
    <3>1. ops - 1 \in Counts
      BY <2>4, <2>5, GattClientConstants DEF Counts
    <3>2. k.p_op.list = "read"
      BY <1>3, <2>3 DEF Reading
    <3> QED BY <1>3, <1>4, <2>4, <2>6, <3>1, <3>2, CountedFields
  <2> HIDE DEF m
  <2>9. Reading(m)
    <3>1. \A j \in DOMAIN m.sent : m.sent[j].kind = "read" /\ j > Len(m.sent) - m.p_op.ops
      <4>1. ASSUME NEW j \in 1..(Len(c.sent) - 1)
            PROVE  j + 1 \in DOMAIN c.sent /\ m.sent[j] = c.sent[j + 1]
                   /\ j > Len(m.sent) - m.p_op.ops
        <5>1. m.sent[j] = c.sent[j + 1]
          BY <2>2, <2>8
        <5>2. Len(m.sent) = Len(c.sent) - 1 /\ m.p_op.ops = Len(c.sent) - 1
          BY <2>2, <2>5, <2>8
        <5> HIDE DEF c, ops
        <5> QED BY <2>2, <5>1, <5>2
      <4>2. DOMAIN m.sent = 1..(Len(c.sent) - 1)
        <5> HIDE DEF c
        <5> QED BY <2>2, <2>8
      <4> SUFFICES ASSUME NEW j \in DOMAIN m.sent
                   PROVE  m.sent[j].kind = "read" /\ j > Len(m.sent) - m.p_op.ops
        OBVIOUS
      <4>3. j \in 1..(Len(c.sent) - 1)
        BY <4>2
      <4> HIDE DEF c, ops
      <4> QED BY <2>7, <4>1, <4>3
    <3>2. m.p_op.ops <= m.p_op.index /\ m.p_op.ops <= Len(m.sent)
      BY <2>2, <2>3, <2>4, <2>5, <2>8, Lists DEF Reading
    <3> QED BY <2>1, <2>3, <2>8, <3>1, <3>2 DEF Reading, Carried
  <2>10. Unhindered(m, d, p)
    <3>1. ~Quiet(m) /\ ~Quiet(c)
      BY <2>3, <2>9 DEF Quiet, NoOp, Reading
    <3> QED BY <2>1, <2>8, <2>9, <3>1 DEF Unhindered, Carried
  <2>11. ASSUME Trusted(m, n)
         PROVE  TrustKept(m, d, p, t)
    <3>1. TrustKept(c, d, p, s)
      BY <2>1, <2>8, <2>11 DEF Trusted, Carried
    <3>2. \A e : ~IsSent(c, "write", e)
      BY <2>7 DEF IsSent
    <3>3. \A e \in Follows(d) : e \in p.subscribed
      BY <3>1, <3>2 DEF TrustKept, Asked
    <3>4. Shows(d) \subseteq ShownChars \ NameChars
      BY DEF Shows
    <3>5. \A e \in Shows(d) : Settled(d, p, s, e) => Settled(d, p, t, e)
      <4>1. x \in ShownChars => p.value[x] \in Values
        BY DEF TypeInv, Peers
      <4> QED BY <1>5, <1>7, <3>4, <4>1, GattClientConstants DEF Settled
    <3>6. \A e \in Shows(d) : e = x => Settled(d, p, t, e)
      <4>1. x \in ShownChars => p.value[x] \in Values
        BY DEF TypeInv, Peers
      <4> QED BY <1>5, <1>7, <3>3, <3>4, <4>1, GattClientConstants DEF Settled
    <3>7. \A e : IsSent(c, "read", e) => IsSent(m, "read", e) \/ e = x
      <4>1. m.sent = Tail(c.sent)
        BY <1>3, <2>8
      <4> SUFFICES ASSUME NEW e, IsSent(c, "read", e), e # x
                   PROVE  IsSent(m, "read", e)
        OBVIOUS
      <4> HIDE DEF c
      <4> QED BY <1>2, <4>1, SentBehind
    <3>8. \A j \in 1..m.p_op.index :
            ReadList[j] \in Shows(d) => Settled(d, p, t, ReadList[j]) \/ IsSent(m, "read", ReadList[j])
      BY <2>3, <2>8, <3>1, <3>5, <3>6, <3>7 DEF TrustKept, Reading
    <3>9. m.told = "READY" => \A e \in Shows(d) : Settled(d, p, t, e)
      BY <2>1, <2>8, <3>1, <3>5 DEF TrustKept, Carried
    <3>10. Complete(m.peer_profiles, d)
      BY <2>1, <2>8, <3>1 DEF TrustKept, Carried
    <3> QED BY <3>3, <3>8, <3>9, <3>10 DEF TrustKept, Asked
  <2>12. k.p_op.list = "read"
    BY <1>3, <2>3 DEF Reading
  <2> QED BY <1>2, <1>4, <1>7, <2>9, <2>10, <2>11, <2>12, ReadCompleteKeeps DEF m
<1>8. ASSUME ~success
      PROVE  Well(r, n, d, p, t)
  <2>1. k \in Kept(d, c.in_use, 1)
    BY <1>3, <1>4, <1>8 DEF Kept, Blocks
  <2>2. r \in Kept(d, c.in_use, 1)
    BY <2>1, OperationCompleteKept
  <2>3. r.hindered # 0
    BY <2>2 DEF Kept, Blocks
  <2> QED BY <2>3, HinderedVanishes
<1>9. LinkInv(r, n, d, p, t)
  <2> HIDE DEF r
  <2> QED BY <1>2, <1>6, <1>7, <1>8, KeptLink
<1>10. UNCHANGED <<db, peer, nvram>>
  BY DEF AnswerRead
<1> QED
  BY <1>1, <1>5, <1>9, <1>10, LinkStep DEF t

LEMMA CommandDoneKeeps ==
  ASSUME TypeInv, LinksInv, NEW b \in Conns, CommandDone(b)
  PROVE  LinksInv'
<1> DEFINE c == clcb[b]
           n == nvram[b]
           d == db[b]
<1>1. PICK ok \in Accepted :
        clcb' = [clcb EXCEPT ![b] = IF c.in_use THEN OperationComplete(c, "enable", TRUE, ok) ELSE c]
  BY DEF CommandDone
<1> DEFINE r == OperationComplete(c, "enable", TRUE, ok)
<1>2. /\ c \in Blocks(d) /\ d \in Databases /\ Well(c, n, d, peer[b], shown[b])
      /\ StoredWell(n, d, peer[b]) /\ LinkInv(c, n, d, peer[b], shown[b])
  BY LinkFacts DEF LinksInv
<1>3. UNCHANGED <<db, peer, nvram, shown>>
  BY DEF CommandDone
<1> HIDE DEF c
<1>4. r \in Kept(d, c.in_use, c.hindered)
  BY <1>2, HandlersKept
<1>5. ASSUME c.hindered = 0
      PROVE  Well(r, n, d, peer[b], shown[b])
  <2>1. Unhindered(c, d, peer[b]) /\ (Trusted(c, n) => TrustKept(c, d, peer[b], shown[b]))
    BY <1>2, <1>5 DEF Well
  <2> QED BY <1>2, <2>1, WriteCompleteKeeps
<1>6. c.in_use => LinkInv(r, n, d, peer[b], shown[b])
  <2> HIDE DEF r
  <2> QED BY <1>2, <1>4, <1>5, KeptLink
<1>7. LinkInv(IF c.in_use THEN r ELSE c, n, d, peer[b], shown[b])
  BY <1>2, <1>6
<1> QED
  BY <1>1, <1>3, <1>7, LinkStep

LEMMA CongestionKeeps ==
  ASSUME TypeInv, LinksInv, NEW b \in Conns, NEW congested \in BOOLEAN, Congestion(b, congested)
  PROVE  LinksInv'
<1> DEFINE heard == [clcb EXCEPT ![b].congested = congested]
           c == clcb[b]
<1>1. c \in Blocks(db[b]) /\ c.in_use /\ c.hindered # 0 /\ c.congested /\ c.hindered \in Nat
  <2>1. c.congested /\ c \in Blocks(db[b]) /\ c.in_use /\ Well(c, nvram[b], db[b], peer[b], shown[b])
    BY LinkFacts, SentInUse DEF Congestion
  <2>2. c.hindered # 0
    BY <2>1 DEF Well, Unhindered
  <2> QED BY <2>1, <2>2 DEF Blocks
<1>2. /\ DOMAIN heard = Conns /\ \A a \in Conns \ {b} : heard[a] = clcb[a]
      /\ heard[b] \in Kept(db[b], TRUE, c.hindered) /\ heard[b].p_op = clcb[b].p_op
  <2>1. heard[b] = [c EXCEPT !.congested = congested]
    BY DEF TypeInv
  <2>2. DOMAIN heard = Conns /\ \A a \in Conns \ {b} : heard[a] = clcb[a]
    BY DEF TypeInv
  <2> HIDE DEF c, heard
  <2>3. heard[b] \in Blocks(db[b]) /\ heard[b].in_use /\ heard[b].hindered = c.hindered
    BY <1>1, <2>1 DEF Blocks
  <2>4. heard[b].p_op = c.p_op
    BY <1>1, <2>1 DEF Blocks
  <2> QED BY <1>1, <2>2, <2>3, <2>4 DEF Kept, c
<1>3. \/ clcb' = heard
      \/ /\ First \in Conns /\ clcb[First].p_op # NoOp
         /\ \E ok \in Accepted : clcb' = [heard EXCEPT ![First] = Execute(heard[First], ok)]
  BY CongestionCases
<1>4. UNCHANGED <<db, peer, nvram, shown>>
  BY DEF Congestion
<1> HIDE DEF heard, c
<1>5. ASSUME NEW k \in Kept(db[b], TRUE, c.hindered)
      PROVE  LinkInv(k, nvram[b], db[b], peer[b], shown[b])
  <2>1. k.hindered # 0 /\ k.in_use
    BY <1>1 DEF Kept, Blocks
  <2> QED BY <2>1, LinkFacts DEF LinkInv, Well
<1>6. \A a \in Conns : LinkInv(heard[a], nvram[a], db[a], peer[a], shown[a])
  BY <1>2, <1>5 DEF LinksInv
<1>7. CASE clcb' = heard
  BY <1>4, <1>6, <1>7 DEF LinksInv
<1>8. ASSUME First \in Conns, clcb[First].p_op # NoOp, NEW ok \in Accepted,
             clcb' = [heard EXCEPT ![First] = Execute(heard[First], ok)]
      PROVE  LinksInv'
  <2> DEFINE f == First
             r == Execute(heard[f], ok)
  <2>1. \A a \in Conns : clcb'[a] = IF a = f THEN r ELSE heard[a]
    BY <1>2, <1>8
  <2>2. CASE f = b
    <3>1. r \in Kept(db[b], TRUE, c.hindered)
      BY <1>1, <1>2, <1>8, <2>2, ExecuteKept
    <3>2. LinkInv(r, nvram[f], db[f], peer[f], shown[f])
      BY <1>5, <2>2, <3>1
    <3> HIDE DEF f, r
    <3> QED BY <1>4, <1>6, <2>1, <3>2 DEF LinksInv
  <2>3. CASE f # b
    <3> DEFINE k == clcb[f]
               d == db[f]
               n == nvram[f]
               p == peer[f]
               s == shown[f]
    <3>1. r = Execute(k, ok) /\ k.p_op # NoOp
      BY <1>2, <1>8, <2>3
    <3>2. /\ k \in Blocks(d) /\ d \in Databases /\ k.in_use
          /\ Well(k, n, d, p, s) /\ StoredWell(n, d, p)
      BY <1>8, LinkFacts, SentInUse
    <3> HIDE DEF f, r, k, d, n, p, s
    <3>3. r \in Kept(d, k.in_use, k.hindered)
      BY <3>1, <3>2, HandlersKept
    <3>4. ASSUME k.hindered = 0
          PROVE  Well(r, n, d, p, s)
      <4>1. Unhindered(k, d, p) /\ (Trusted(k, n) => TrustKept(k, d, p, s))
        BY <3>2, <3>4 DEF Well
      <4> QED BY <3>1, <3>2, <4>1, ExecuteKeeps
    <3>5. LinkInv(r, n, d, p, s)
      BY <3>2, <3>3, <3>4, KeptLink
    <3> QED BY <1>4, <1>6, <2>1, <3>5 DEF LinksInv, d, n, p, s
  <2> QED BY <2>2, <2>3
<1> QED
  BY <1>3, <1>7, <1>8

\* What is shown settles with a value that changes, when the client is told of it.
LEMMA PeerChangesKeeps ==
  ASSUME TypeInv, LinksInv, NEW b \in Conns, NEW x \in ShownChars \ NameChars, PeerChanges(b, x)
  PROVE  LinksInv'
<1> DEFINE k == clcb[b]
           d == db[b]
           n == nvram[b]
           p == peer[b]
           q == peer'[b]
           s == shown[b]
           t == shown'[b]
           informed == k.encrypted /\ x \in p.subscribed /\ x \in k.peer_profiles.value
<1>1. PICK v \in Values :
        /\ peer' = [peer EXCEPT ![b].value[x] = v]
        /\ shown' = IF informed THEN ShowsNow(b, x, v) ELSE shown
  BY DEF PeerChanges
<1>2. UNCHANGED <<db, clcb, nvram>>
  BY DEF PeerChanges
<1>3. /\ \A a \in Conns \ {b} : peer'[a] = peer[a]
      /\ q.subscribed = p.subscribed
      /\ \A e \in ShownChars : q.value[e] = IF e = x THEN v ELSE p.value[e]
  BY <1>1 DEF TypeInv, Peers
<1>4. /\ \A a \in Conns \ {b} : shown'[a] = shown[a]
      /\ \A e \in ShownChars \ NameChars : t[e] = IF e = x /\ informed THEN v ELSE s[e]
  <2>1. CASE informed
    BY <1>1, <2>1, ShownThen
  <2>2. CASE ~informed
    <3>1. shown' = shown
      BY <1>1, <2>2
    <3> HIDE DEF informed
    <3> QED BY <2>2, <3>1
  <2> QED BY <2>1, <2>2
<1>5. LinkInv(k, n, d, p, s)
  BY DEF LinksInv
<1> HIDE DEF k, d, n, p, q, s, t
<1>6. StoredWell(n, d, q)
  BY <1>3, <1>5 DEF LinkInv, StoredWell
<1>7. \A e : Asked(k, p, e) => Asked(k, q, e)
  BY <1>3 DEF Asked
<1>8. ASSUME k.hindered = 0
      PROVE  Unhindered(k, d, q)
  <2>1. Unhindered(k, d, p)
    BY <1>5, <1>8 DEF LinkInv, Well
  <2>2. Enabling(k, d, p) => Enabling(k, d, q)
    BY <1>7 DEF Enabling
  <2> QED BY <2>1, <2>2 DEF Unhindered
<1>9. ASSUME k.hindered = 0, Trusted(k, n)
      PROVE  TrustKept(k, d, q, t)
  <2>1. TrustKept(k, d, p, s) /\ Unhindered(k, d, p)
    BY <1>5, <1>9 DEF LinkInv, Well
  <2>2. Complete(k.peer_profiles, d) /\ \A e \in Follows(d) : Asked(k, q, e) /\ (k.db_hash => e \in q.subscribed)
    BY <1>3, <1>7, <2>1 DEF TrustKept
  <2>3. CASE ~k.encrypted
    <3>1. k.p_op.list # "read" /\ k.told # "READY"
      BY <2>1, <2>3 DEF Unhindered, Quiet, NoOp
    <3> QED BY <2>2, <3>1 DEF TrustKept
  <2>4. CASE k.encrypted
    <3>1. ASSUME NEW e \in Shows(d), Settled(d, p, s, e)
          PROVE  Settled(d, q, t, e)
      <4>1. e \in ShownChars \ NameChars /\ e \in d.value
        BY DEF Shows
      <4>2. e \in k.peer_profiles.value
        BY <2>2, <4>1 DEF Complete
      <4>3. v # NoValue
        BY GattClientConstants
      <4> QED BY <1>3, <1>4, <2>4, <3>1, <4>1, <4>2, <4>3 DEF Settled
    <3> QED BY <2>1, <2>2, <3>1 DEF TrustKept
  <2> QED BY <2>3, <2>4
<1>10. LinkInv(k, n, d, q, t)
  BY <1>5, <1>6, <1>8, <1>9 DEF LinkInv, Well
<1> QED
  BY <1>2, <1>3, <1>4, <1>10 DEF LinksInv, k, n, d, q, t

\* What is stored of a link when it ends is as good as what it knew.
LEMMA FreedKeeps ==
  ASSUME TypeInv, LinksInv, NEW b \in Conns, NEW hindered \in BOOLEAN, Freed(b),
         nvram' = [nvram EXCEPT ![b] = [db_hash |-> clcb[b].db_hash,
                                        peer_profiles |-> clcb[b].peer_profiles, hindered |-> hindered]],
         UNCHANGED <<db, peer>>,
         ~hindered => clcb[b].hindered = 0 /\ (~nvram[b].hindered \/ clcb[b].enabled_notifications)
  PROVE  LinksInv'
<1> DEFINE m == [db_hash |-> clcb[b].db_hash, peer_profiles |-> clcb[b].peer_profiles, hindered |-> hindered]
<1>1. StoredWell(m, db[b], peer[b])
  <2> SUFFICES ASSUME clcb[b].db_hash, ~hindered
               PROVE  /\ Complete(clcb[b].peer_profiles, db[b])
                      /\ Follows(db[b]) \subseteq peer[b].subscribed
    BY DEF StoredWell
  <2>1. Trusted(clcb[b], nvram[b])
    BY DEF Trusted
  <2>2. TrustKept(clcb[b], db[b], peer[b], shown[b])
    BY <2>1, LinkFacts DEF Well
  <2> QED BY <2>2 DEF TrustKept
<1>2. \A a \in Conns \ {b} : clcb'[a] = clcb[a] /\ nvram'[a] = nvram[a] /\ shown'[a] = shown[a]
  BY DEF Freed, TypeInv
<1>3. clcb'[b] = FreeBlock /\ nvram'[b] = m
  BY DEF Freed, TypeInv
<1> HIDE DEF m
<1>4. LinkInv(FreeBlock, m, db[b], peer[b], shown'[b])
  BY <1>1, FreeBlockWell DEF LinkInv
<1> QED
  BY <1>2, <1>3, <1>4 DEF LinksInv

LEMMA DisconnectKeeps ==
  ASSUME TypeInv, LinksInv, NEW b \in Conns, Disconnect(b)
  PROVE  LinksInv'
<1> DEFINE hindered == \/ clcb[b].hindered > 0
                       \/ nvram[b].hindered /\ ~clcb[b].enabled_notifications
<1>1. nvram' = [nvram EXCEPT ![b] = [db_hash |-> clcb[b].db_hash,
                                     peer_profiles |-> clcb[b].peer_profiles, hindered |-> hindered]]
  BY DEF Disconnect
<1>2. ~hindered => clcb[b].hindered = 0 /\ (~nvram[b].hindered \/ clcb[b].enabled_notifications)
  <2>1. clcb[b].hindered \in Nat
    BY LinkFacts DEF Blocks
  <2> QED BY <2>1
<1>3. hindered \in BOOLEAN /\ Freed(b) /\ UNCHANGED <<db, peer>>
  BY DEF Disconnect
<1> HIDE DEF hindered
<1> QED
  BY <1>1, <1>2, <1>3, FreedKeeps

LEMMA TimerFiresKeeps ==
  ASSUME TypeInv, LinksInv, NEW b \in Conns, TimerFires(b)
  PROVE  LinksInv'
<1>1. UNCHANGED <<db, peer>>
  BY DEF TimerFires
<1>2. CASE UNCHANGED <<clcb, nvram, command, shown>>
  BY <1>1, <1>2 DEF LinksInv
<1>3. ASSUME NEW victim \in Conns, Freed(victim),
             nvram' = [nvram EXCEPT ![victim] = [db_hash |-> clcb[victim].db_hash,
                         peer_profiles |-> clcb[victim].peer_profiles, hindered |-> TRUE]]
      PROVE  LinksInv'
  BY <1>1, <1>3, FreedKeeps
<1> QED
  BY <1>2, <1>3 DEF TimerFires

LEMMA PowerOffKeeps ==
  ASSUME TypeInv, LinksInv, PowerOff
  PROVE  LinksInv'
<1>1. \A a \in Conns : clcb'[a] = FreeBlock
  BY DEF PowerOff
<1>2. UNCHANGED <<db, peer, nvram>>
  BY DEF PowerOff
<1>3. \A a \in Conns : LinkInv(FreeBlock, nvram[a], db[a], peer[a], shown'[a])
  BY LinkFacts, FreeBlockWell DEF LinkInv
<1> QED
  BY <1>1, <1>2, <1>3 DEF LinksInv

LEMMA LinksInit == GattInit => LinksInv
<1> SUFFICES ASSUME GattInit, NEW b \in Conns
             PROVE  LinkInv(clcb[b], nvram[b], db[b], peer[b], shown[b])
  BY DEF LinksInv
<1>1. clcb[b] = FreeBlock /\ ~nvram[b].db_hash
  BY DEF GattInit
<1>2. StoredWell(nvram[b], db[b], peer[b])
  BY <1>1 DEF StoredWell
<1> QED
  BY <1>1, <1>2, FreeBlockWell DEF LinkInv

LEMMA LinksStep == TypeInv /\ LinksInv /\ [GattNext]_gattVars => LinksInv'
<1> SUFFICES ASSUME TypeInv, LinksInv, [GattNext]_gattVars
             PROVE  LinksInv'
  OBVIOUS
<1>1. CASE UNCHANGED gattVars
  BY <1>1 DEF gattVars, LinksInv
<1>2. ASSUME NEW b \in Conns, HostWrites(b)
      PROVE  LinksInv'
  BY <1>2 DEF HostWrites, LinksInv
<1>3. ASSUME NEW b \in Conns, Answer(b)
      PROVE  LinksInv'
  BY <1>3, AnswerDiscoverKeeps, AnswerWriteKeeps, AnswerReadKeeps DEF Answer, Reply
<1>4. ASSUME NEW b \in Conns, NEW congested \in BOOLEAN, Congestion(b, congested)
      PROVE  LinksInv'
  BY <1>4, CongestionKeeps
<1>5. ASSUME NEW b \in Conns, NEW c \in ShownChars \ NameChars, PeerChanges(b, c)
      PROVE  LinksInv'
  BY <1>5, PeerChangesKeeps
<1> QED
  BY <1>1, <1>2, <1>3, <1>4, <1>5, ConnectKeeps, EncryptedKeeps, DisconnectKeeps, TimerFiresKeeps,
     CommandDoneKeeps, PowerOffKeeps
     DEF GattNext, MediaCommand, CallCommand

LEMMA LinksInvShows == TypeInv /\ LinksInv => ReadyShowsPeer
<1> SUFFICES ASSUME TypeInv, LinksInv, NEW b \in Conns,
                    clcb[b].told = "READY", clcb[b].hindered = 0,
                    clcb[b].enabled_notifications \/ ~nvram[b].hindered,
                    NEW c \in (Listed(ReadList) \cap ShownChars \cap db[b].value) \ NameChars
             PROVE  /\ shown[b][c] # NoValue
                    /\ c \in Listed(EnableList) \cap db[b].cccd => shown[b][c] = peer[b].value[c]
  BY Zenon DEF ReadyShowsPeer
<1>1. Unhindered(clcb[b], db[b], peer[b])
      /\ (Trusted(clcb[b], nvram[b]) => TrustKept(clcb[b], db[b], peer[b], shown[b]))
  BY LinkFacts DEF Well
<1>2. Trusted(clcb[b], nvram[b])
  BY <1>1 DEF Unhindered, Trusted
<1>3. c \in Shows(db[b])
  BY DEF Shows
<1>4. Settled(db[b], peer[b], shown[b], c)
  BY <1>1, <1>2, <1>3 DEF TrustKept
<1> QED
  BY <1>3, <1>4 DEF Settled, Follows

\* Whatever the peers have, in which order they answer and change, and whatever links end
\* or are hindered: once the host was told that a client is ready, it is shown of its peer
\* what was to be read, and follows what was to be notified.
THEOREM ReadyClientShowsPeer == GattFairSpec => []ReadyShowsPeer
<1>1. GattInit => TypeInv /\ LinksInv
  BY TypeInit, LinksInit
<1>2. TypeInv /\ LinksInv /\ [GattNext]_gattVars => (TypeInv /\ LinksInv)'
  BY TypeStep, LinksStep
<1>3. TypeInv /\ LinksInv => ReadyShowsPeer
  BY LinksInvShows
<1> QED
  BY <1>1, <1>2, <1>3, PTL DEF GattFairSpec, GattSpec
=============================================================================
