----------------------------- MODULE BondStore -----------------------------
(***************************************************************************)
(* The bonds of the headset: the array of paired devices it keeps in RAM   *)
(* (lehs_nvram.c), the copy the host keeps by NVRAM id (lehs_rpc.c), and   *)
(* what a connection takes from and leaves in an entry (lehs_gatt.c,       *)
(* lehs_btmgr.c).  The array does not survive a restart: the host writes   *)
(* its copy back before it lets the headset advertise.                     *)
(***************************************************************************)
EXTENDS Naturals, FiniteSets

CONSTANTS
  Devices,     \* peer devices, each known by one identity address
  Keys,        \* link keys a pairing may produce
  Entries,     \* MAX_NUM_DEVICES_IN_NVRAM: size of the array
  ConnectionLimit, \* LEHS_MAX_CONNECTIONS
  NoDevice, NoKey, NoData

Ids == 1..Entries

ASSUME BondConstants ==
  /\ Entries \in Nat \ {0}
  /\ ConnectionLimit \in Nat \ {0}
  /\ NoDevice \notin Devices
  /\ NoKey \notin Keys
  /\ NoData \notin Devices

VARIABLES
  store,   \* [Ids -> Records]: local_nvram_key_store.paired_device_keys
  host,    \* [Ids -> Records]: what the host was last sent for an NVRAM id
  link,    \* [Devices -> Links]: the control blocks of connected devices
  overrun, \* link keys have at some time been written behind the end of the array
  bond     \* [Devices -> Keys or NoKey]: bonds completed and not deleted since

bondVars == <<store, host, link, overrun, bond>>

\* lehs_nvram_paired_device_key_t.  The data (database hash, handles of the peer,
\* CCCD bits) is told apart by the device it is about only.
Records == [dev: Devices \cup {NoDevice}, key: Keys \cup {NoKey}, data: Devices \cup {NoData}]

Empty == [dev |-> NoDevice, key |-> NoKey, data |-> NoData]

\* A connection: the same data in lehs_clcb_t, and how far a pairing has come
Links == [up: BOOLEAN, data: Devices \cup {NoData}, pairing: BOOLEAN, key: Keys \cup {NoKey}]

\* A new connection, with the data it starts from
Opened(data) == [up |-> TRUE, data |-> data, pairing |-> FALSE, key |-> NoKey]

Down == [up |-> FALSE, data |-> NoData, pairing |-> FALSE, key |-> NoKey]

\* lehs_nvram_get_paired_device_key_info: the first entry of the device, if any
Entry(d) == {i \in Ids : store[i].dev = d /\ \A j \in Ids : store[j].dev = d => i <= j}

\* lehs_nvram_allocate_paired_device_key_info: the first entry without a device
Free == {i \in Ids : store[i].dev = NoDevice /\ \A j \in Ids : store[j].dev = NoDevice => i <= j}

\* Mutant: the entry the device has is not looked up
PlaceAlwaysNew(d) == Free

\* lehs_nvram_write_keys: its own entry, else a free one, else none
Place(d) == IF Entry(d) # {} THEN Entry(d) ELSE Free

-----------------------------------------------------------------------------
\* lehs_gatt_handle_connection: the block takes over the data of the entry
Connect(d) ==
  /\ ~link[d].up
  /\ Cardinality({e \in Devices : link[e].up}) < ConnectionLimit
  /\ link' = [link EXCEPT ![d] =
                Opened(IF Entry(d) = {} THEN NoData ELSE store[CHOOSE i \in Entry(d) : TRUE].data)]
  /\ UNCHANGED <<store, host, overrun, bond>>

\* lehs_btm_handle_encryption_sts: discovery runs if no hash was stored; when it
\* ends the block has the hash and the handles of its own device.
Discover(d) ==
  /\ link[d].up
  /\ link[d].data = NoData
  /\ link' = [link EXCEPT ![d].data = d]
  /\ UNCHANGED <<store, host, overrun, bond>>

\* lehs_btm_handle_key_update_event.  Only the keys of the entry are written.
\* When no entry is free they land behind the array.
KeyUpdate(d, k) ==
  /\ link[d].up
  /\ link' = [link EXCEPT ![d].pairing = TRUE, ![d].key = k]
  /\ store' = [i \in Ids |-> IF i \in Place(d) THEN [store[i] EXCEPT !.dev = d, !.key = k]
                             ELSE store[i]]
  /\ overrun' = (overrun \/ Place(d) = {})
  /\ bond' = [bond EXCEPT ![d] = NoKey]
  /\ UNCHANGED host

\* Mutant: the record is sent with the address in place of the key
SendAddressForKey(ids) ==
  host' = [i \in Ids |-> IF i \in ids THEN [store[i] EXCEPT !.key = store[i].dev] ELSE host[i]]

\* lehs_rpc_send_link_keys
Send(ids) == host' = [i \in Ids |-> IF i \in ids THEN store[i] ELSE host[i]]

\* lehs_btm_handle_pairing_complete.  Without an entry what is sent is no record
\* of the store, under an id that is none of the host's.
PairingComplete(d) ==
  /\ link[d].pairing
  /\ link' = [link EXCEPT ![d].pairing = FALSE, ![d].key = NoKey]
  /\ bond' = [bond EXCEPT ![d] = link[d].key]
  /\ Send(Entry(d))
  /\ UNCHANGED <<store, overrun>>

\* lehs_gatt_handle_disconnection, lehs_save_device_data_to_nvram: an entry there
\* is gets the data of the block, and goes to the host.
Disconnect(d) ==
  /\ link[d].up
  /\ store' = [i \in Ids |-> IF i \in Entry(d) THEN [store[i] EXCEPT !.data = link[d].data]
                             ELSE store[i]]
  /\ host' = [i \in Ids |-> IF i \in Entry(d) THEN store'[i] ELSE host[i]]
  /\ link' = [link EXCEPT ![d] = Down]
  /\ UNCHANGED <<overrun, bond>>

\* lehs_nvram_delete_keys: the keys of the entry are cleared, the rest of it is
\* not; a disconnection is asked for.  The host drops its copy; the bond ends,
\* with a pairing that is under way.
DeleteKeys(i) ==
  /\ store' = [store EXCEPT ![i].dev = NoDevice, ![i].key = NoKey]
  /\ host' = [host EXCEPT ![i] = Empty]
  /\ bond' = [d \in Devices |-> IF store[i].dev = d THEN NoKey ELSE bond[d]]
  /\ link' = [d \in Devices |-> IF store[i].dev = d THEN [link[d] EXCEPT !.key = NoKey] ELSE link[d]]
  /\ UNCHANGED overrun

\* lehs_nvram_init, then lehs_nvram_write_data for every record of the host
Restart ==
  /\ store' = host
  /\ link' = [d \in Devices |-> Down]
  /\ UNCHANGED <<host, overrun, bond>>

BondInit ==
  /\ store = [i \in Ids |-> Empty]
  /\ host = [i \in Ids |-> Empty]
  /\ link = [d \in Devices |-> Down]
  /\ overrun = FALSE
  /\ bond = [d \in Devices |-> NoKey]

BondNext ==
  \/ \E d \in Devices : Connect(d)
  \/ \E d \in Devices : Discover(d)
  \/ \E d \in Devices, k \in Keys : KeyUpdate(d, k)
  \/ \E d \in Devices : PairingComplete(d)
  \/ \E d \in Devices : Disconnect(d)
  \/ \E i \in Ids : DeleteKeys(i)
  \/ Restart

BondSpec == BondInit /\ [][BondNext]_bondVars
-----------------------------------------------------------------------------
(* Properties *)

BondTypeOK ==
  /\ store \in [Ids -> Records]
  /\ host \in [Ids -> Records]
  /\ link \in [Devices -> Links]
  /\ overrun \in BOOLEAN
  /\ bond \in [Devices -> Keys \cup {NoKey}]

\* A device has at most one entry, in the headset and with the host, through
\* pairings, deletions and restarts: the keys found are the only ones.
OneEntryPerDevice ==
  \A i, j \in Ids : i # j =>
    /\ store[i].dev \in Devices => store[i].dev # store[j].dev
    /\ host[i].dev \in Devices => host[i].dev # host[j].dev

\* The key of every bond that is complete and not deleted is in the record the
\* host has for the device: switching the headset off at any moment loses no
\* bond, as long as no pairing has found the array full.
BondSurvivesRestart ==
  overrun \/ \A d \in Devices : bond[d] # NoKey =>
               \E i \in Ids : host[i].dev = d /\ host[i].key = bond[d]

\* A connection works with the database hash, the handles and the CCCD bits of
\* its own device, or has none yet: it never takes those of another device.
OwnData == \A d \in Devices : link[d].data \in {NoData, d}
=============================================================================
