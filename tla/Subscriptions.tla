--------------------------- MODULE Subscriptions ---------------------------
(***************************************************************************)
(* What a client asks the GATT server of the headset to tell it: the client *)
(* characteristic configurations of its link, two bits each, packed in the  *)
(* words of its control block, kept with its bond, and looked up for every  *)
(* message that gatt_intf_send_notification sends (lehs_gatt.c,             *)
(* lehs_nvram.c, gatt_interface.c).  What the Hearing Access service sends  *)
(* is indicated without a look at them (ga_lib_has.c).                      *)
(*                                                                         *)
(* A device keeps its address, and its bond: deletion is BondStore's.  The  *)
(* stack gives an open link an id of its own.                               *)
(***************************************************************************)
EXTENDS Integers, Sequences, FiniteSets, FiniteSetsExt

CONSTANTS
  Peers,      \* the devices
  Slots,      \* control blocks, 1..LEHS_MAX_CONNECTIONS
  LinkIds,    \* connection ids of the stack
  NoLinkId,   \* that of no link
  Attributes, \* the database by handle: [type, len], where a length of 0 cannot be read
  CccdMap,    \* lehs_cccd_map: sequence of [value, descriptor], handles
  Unasked,    \* values of the map that are indicated by ga_lib_has.c
  WrittenBits, \* what is written to descriptors, sets of bits; 2 is one of the reserved ones
  WordBits,   \* bits of a word of cccd_bits, 32
  DefaultMtu, \* of a bearer before an exchange
  MaxPdu,     \* ble_max_rx_pdu_size
  Mtus,       \* what peers ask for in an exchange
  MaxWrites   \* bound: writes of descriptors

Handles == DOMAIN Attributes
MapIndexes == DOMAIN CccdMap

ASSUME SubscriptionConstants ==
  /\ Slots \subseteq Nat /\ Slots = 1..Cardinality(Slots) /\ Slots # {} /\ NoLinkId \notin LinkIds
  /\ \A i \in MapIndexes : {CccdMap[i].value, CccdMap[i].descriptor} \subseteq Handles
  /\ \A i \in MapIndexes : Attributes[CccdMap[i].descriptor] = [type |-> "cccd", len |-> 2]
  /\ WrittenBits \subseteq SUBSET Nat /\ WordBits \in Nat \ {0} /\ WordBits % 2 = 0
  /\ {DefaultMtu, MaxPdu, MaxWrites} \cup Mtus \subseteq Nat

\* The characteristics of the map have handles of their own, and no other descriptor of the
\* database is one of a configuration; a bearer has room for the head of a notification
ASSUME MapOfDatabase ==
  /\ Handles \subseteq Nat /\ CccdMap \in Seq([value: Handles, descriptor: Handles])
  /\ \A i, j \in MapIndexes :
       CccdMap[i].value = CccdMap[j].value \/ CccdMap[i].descriptor = CccdMap[j].descriptor => i = j
  /\ \A h \in Handles : Attributes[h].type = "cccd" => \E i \in MapIndexes : CccdMap[i].descriptor = h
  /\ \A mtu \in {DefaultMtu, MaxPdu} \cup Mtus : 3 <= mtu

\* A configuration is the set of its bits
Notification == 0
Indication == 1
Configurations == SUBSET {Notification, Indication}

\* LEHS_MAX_DWORD_TO_STORE_CCCD: the words, each the set of the bits that are set
Words == 1..((Len(CccdMap) * 2 + WordBits - 1) \div WordBits)
NoBits == [w \in Words |-> {}]

NoEntry == <<>>   \* a device without a bond

VARIABLES
  slot,    \* [Slots -> [in_use, conn_id, cccd_bits]]: g_lehs_gatt_cb.clcb
  bearer,  \* [Peers -> [conn_id, mtu]]: the links of the stack
  stored,  \* [Peers -> words or NoEntry]: stored_cccd_bits of the bond
  copied,  \* [Peers -> words or NoEntry]: those of the record the host has
  wrote,   \* [Peers -> [MapIndexes -> Configurations]]: what the device has written ...
  keeps,   \* ... and had when its last link was closed
  writes   \* descriptors written

subscriptionVars == <<slot, bearer, stored, copied, wrote, keeps, writes>>

FreeSlot == [in_use |-> FALSE, conn_id |-> NoLinkId, cccd_bits |-> NoBits]
Closed == [conn_id |-> NoLinkId, mtu |-> DefaultMtu]
Silent == [i \in MapIndexes |-> {}]

-----------------------------------------------------------------------------
(* The bits *)

\* lehs_get_cccd_index: from 0, -1 when the handle is none of the map's
CccdIndex(handle, type) ==
  LET found == {i \in MapIndexes : CccdMap[i][type] = handle}
  IN IF found = {} THEN -1 ELSE Min(found) - 1

WordOf(index) == (index * 2) \div WordBits + 1
OffsetOf(index) == (index * 2) % WordBits

\* lehs_get_clcb_cccd
GetCccd(bits, handle, type) ==
  LET index == CccdIndex(handle, type)
  IN IF index = -1 THEN {}
     ELSE {b \in {0, 1} : OffsetOf(index) + b \in bits[WordOf(index)]}

\* Mutant: what the descriptor had before is not cleared
SetUncleared(bits, handle, value) ==
  LET index == CccdIndex(handle, "descriptor")
      set == {OffsetOf(index) + b : b \in value \cap {0, 1}}
  IN IF index = -1 THEN bits ELSE [bits EXCEPT ![WordOf(index)] = @ \cup set]

\* lehs_set_clcb_cccd
SetCccd(bits, handle, value) ==
  LET index == CccdIndex(handle, "descriptor")
      field == {OffsetOf(index), OffsetOf(index) + 1}
      set == {OffsetOf(index) + b : b \in value \cap {0, 1}}
  IN IF index = -1 THEN bits ELSE [bits EXCEPT ![WordOf(index)] = (@ \ field) \cup set]

-----------------------------------------------------------------------------
(* Requests, answered from the control block that has the id of the link *)

\* lehs_gatt_get_clcb_by_conn_id
SlotOf(conn_id) ==
  LET found == {s \in Slots : slot[s].in_use /\ slot[s].conn_id = conn_id}
  IN IF found = {} THEN {} ELSE {Min(found)}

\* app_handle_gatt_read_request: of other values the length only
ReadAttribute(bits, handle) ==
  IF CccdIndex(handle, "descriptor") # -1
  THEN [status |-> "SUCCESS", len |-> 2, value |-> GetCccd(bits, handle, "descriptor")]
  ELSE [status |-> IF Attributes[handle].len = 0 THEN "READ_NOT_PERMIT" ELSE "SUCCESS",
        len |-> Attributes[handle].len, value |-> {}]

\* app_handle_gatt_read_by_type_request: the values of a type one after the other, until one
\* does not fit or has another length; one that cannot be read refuses them all
ReadByType(bits, first, type, len_requested) ==
  LET typed == {h \in Handles : h >= first /\ Attributes[h].type = type}
      read(h) == ReadAttribute(bits, h)
      upTo(h) == {g \in typed : g <= h}
      fits(h) == /\ read(h).len = read(Min(typed)).len
                 /\ Cardinality(upTo(h)) * (2 + read(h).len) <= len_requested
      tried == {h \in typed : \A g \in upTo(h) \ {h} : fits(g)}
      listed == {h \in tried : fits(h)}
  IN IF \E h \in tried : read(h).status # "SUCCESS"
     THEN [status |-> "READ_NOT_PERMIT", values |-> {}]
     ELSE IF listed = {} THEN [status |-> "ATTRIBUTE_NOT_FOUND", values |-> {}]
     ELSE [status |-> "SUCCESS", values |-> {<<h, read(h).value>> : h \in listed}]

\* app_handle_gatt_attribute_request: reading.  A READ_BLOB is answered as a READ is,
\* from the first octet on, whatever its offset.
Answer(conn_id, request) ==
  IF SlotOf(conn_id) = {} THEN [status |-> "ERROR"]
  ELSE LET bits == slot[Min(SlotOf(conn_id))].cccd_bits
       IN IF request.op = "READ" THEN ReadAttribute(bits, request.handle)
          ELSE ReadByType(bits, request.handle, request.type, request.len)

\* lehs_handle_get_cccd_value_cb
CccdValue(conn_id, handle) ==
  UNION {GetCccd(slot[s].cccd_bits, handle, "value") : s \in SlotOf(conn_id)}

\* The message that is sent to tell len octets: gatt_intf_send_notification, and
\* ga_lib_has_notify_*, which cut the value to the bearer and indicate it
Message(conn_id, mtu, handle, len) ==
  LET value == CccdValue(conn_id, handle)
  IN IF handle \in Unasked THEN "indication"
     ELSE IF len > mtu - 3 THEN "refused"
     ELSE IF value = {} THEN "none"
     ELSE IF Indication \in value THEN "indication" ELSE "notification"

\* app_handle_gatt_write_request of a descriptor
WriteStatus(handle, len) ==
  IF CccdIndex(handle, "descriptor") = -1 THEN "INVALID_HANDLE"
  ELSE IF len # 2 THEN "INVALID_ATTR_LEN" ELSE "SUCCESS"

-----------------------------------------------------------------------------
\* The first free block, which lehs_gatt_alloc_cb clears.
\* lehs_read_device_from_nvram: the bits stored with the bond
PeerConnects(p, c) ==
  /\ bearer[p].conn_id = NoLinkId
  /\ \A q \in Peers : bearer[q].conn_id # c
  /\ \E s \in Slots :
       /\ ~slot[s].in_use /\ \A r \in Slots : r < s => slot[r].in_use
       /\ slot' = [slot EXCEPT ![s] =
            [in_use |-> TRUE, conn_id |-> c,
             cccd_bits |-> IF stored[p] = NoEntry THEN NoBits ELSE stored[p]]]
  /\ bearer' = [bearer EXCEPT ![p].conn_id = c]
  /\ UNCHANGED <<stored, copied, wrote, keeps, writes>>

\* GATT_REQ_MTU
MtuRequest(p, mtu) ==
  /\ bearer[p].conn_id # NoLinkId
  /\ SlotOf(bearer[p].conn_id) # {}
  /\ bearer' = [bearer EXCEPT ![p].mtu = Min({mtu, MaxPdu})]
  /\ UNCHANGED <<slot, stored, copied, wrote, keeps, writes>>

\* GATT_REQ_WRITE, GATT_CMD_WRITE of a descriptor, with a value of len octets
WriteDescriptor(p, handle, value, len) ==
  /\ bearer[p].conn_id # NoLinkId
  /\ writes < MaxWrites
  /\ WriteStatus(handle, len) = "SUCCESS"
  /\ \E s \in SlotOf(bearer[p].conn_id) :
       slot' = [slot EXCEPT ![s].cccd_bits = SetCccd(@, handle, value)]
  /\ wrote' = [i \in Peers |-> IF i # p THEN wrote[i]
                 ELSE [j \in MapIndexes |-> IF CccdMap[j].descriptor = handle
                                            THEN value \cap {0, 1} ELSE wrote[p][j]]]
  /\ writes' = writes + 1
  /\ UNCHANGED <<bearer, stored, copied, keeps>>

\* A pairing that completes on a link: an entry of its own, nothing stored in it yet, that
\* the host gets a copy of
PeerPairs(p) ==
  /\ bearer[p].conn_id # NoLinkId
  /\ stored[p] = NoEntry
  /\ stored' = [stored EXCEPT ![p] = NoBits]
  /\ copied' = [copied EXCEPT ![p] = NoBits]
  /\ UNCHANGED <<slot, bearer, wrote, keeps, writes>>

\* lehs_save_device_data_to_nvram: a device without an entry is forgotten
SaveBits(p, bits) ==
  IF stored[p] = NoEntry THEN UNCHANGED <<stored, copied>>
  ELSE stored' = [stored EXCEPT ![p] = bits] /\ copied' = [copied EXCEPT ![p] = bits]

PeerDisconnects(p) ==
  /\ bearer[p].conn_id # NoLinkId
  /\ \E s \in SlotOf(bearer[p].conn_id) :
       /\ SaveBits(p, slot[s].cccd_bits)
       /\ slot' = [slot EXCEPT ![s] = FreeSlot]
  /\ bearer' = [bearer EXCEPT ![p] = Closed]
  /\ wrote' = [wrote EXCEPT ![p] = IF stored[p] = NoEntry THEN Silent ELSE @]
  /\ keeps' = [keeps EXCEPT ![p] = wrote'[p]]
  /\ UNCHANGED writes

\* The headset is switched off and on: the links are cut, the host writes its copies back.
\* What was written on a link that is cut is lost.
SwitchedOffAndOn ==
  /\ slot' = [s \in Slots |-> FreeSlot]
  /\ bearer' = [p \in Peers |-> Closed]
  /\ stored' = copied
  /\ wrote' = keeps
  /\ UNCHANGED <<copied, keeps, writes>>

SubscriptionInit ==
  /\ slot = [s \in Slots |-> FreeSlot]
  /\ bearer = [p \in Peers |-> Closed]
  /\ stored = [p \in Peers |-> NoEntry] /\ copied = stored
  /\ wrote = [p \in Peers |-> Silent] /\ keeps = wrote
  /\ writes = 0

SubscriptionNext ==
  \/ \E p \in Peers, c \in LinkIds : PeerConnects(p, c)
  \/ \E p \in Peers, mtu \in Mtus : MtuRequest(p, mtu)
  \/ \E p \in Peers, h \in Handles, v \in WrittenBits, len \in {1, 2} : WriteDescriptor(p, h, v, len)
  \/ \E p \in Peers : PeerPairs(p)
  \/ \E p \in Peers : PeerDisconnects(p)
  \/ SwitchedOffAndOn

SubscriptionSpec == SubscriptionInit /\ [][SubscriptionNext]_subscriptionVars

-----------------------------------------------------------------------------
(* Properties *)

\* The messages and reads a device gets follow what it wrote itself, last, for that
\* characteristic, on this link or, once bonded, on an earlier one: it is told each value of
\* the services that look (all but Hearing Access) by indication or notification as it asked,
\* and never one it did not ask for; and it reads its own configurations back, of every
\* service, one by one and as many by type as an answer holds.
AnswersAsWritten ==
  \A p \in Peers : bearer[p].conn_id # NoLinkId =>
    LET c == bearer[p].conn_id
        mtu == bearer[p].mtu
    IN \A i \in MapIndexes :
         /\ CccdMap[i].value \notin Unasked => \A len \in {0, mtu - 3} :
              Message(c, mtu, CccdMap[i].value, len) =
                IF wrote[p][i] = {} THEN "none"
                ELSE IF Indication \in wrote[p][i] THEN "indication" ELSE "notification"
         /\ Answer(c, [op |-> "READ", handle |-> CccdMap[i].descriptor]) =
              [status |-> "SUCCESS", len |-> 2, value |-> wrote[p][i]]
         /\ LET later == {j \in MapIndexes : CccdMap[j].descriptor >= CccdMap[i].descriptor}
                answer == Answer(c, [op |-> "READ_BY_TYPE", handle |-> CccdMap[i].descriptor,
                                     type |-> "cccd", len |-> mtu - 2])
            IN /\ answer.values \subseteq {<<CccdMap[j].descriptor, wrote[p][j]>> : j \in later}
               /\ Cardinality(answer.values) = Min({Cardinality(later), (mtu - 2) \div 4})
=============================================================================
