# LE Audio headset: specification and proofs

TLA+ specifications of the LE Audio headset application (ThreadX, Infineon
btstack): the unicast server, the broadcast sink with its scan delegator, the GATT
client and server, the local services, the store of bonds, advertising and the
coordinated set lock.  `tlc` checks small instances, `tlapm` proves theorems for
every value of the constants.

The application is a set of callbacks.  The Bluetooth stack calls one, it runs to
its end, and only then the next one runs; there are no threads of its own.
Every handler is therefore one action.  What is hard is that the stack, the
controllers, the clients and the host decide *which* callback comes next: an
answer may be late, a loss may come before the command that expects it, a link
may go before its streams, and two peers drive the same state.

## 1. Inventory

| Component | State it keeps | Operations | Interacts with |
|---|---|---|---|
| Unicast server: `lehs_ascs.c`, `lehs_cis.c`, `lehs_offload.c`, `ga_lib_ascs.c`, `ga_lib_bap.c` | per client and ASE: state, CIG/CIS id, CIS handle, data path flag; one audio `stream_id` | control point writes (8 opcodes), CIS request / established / disconnected, data path set up | clients by writes and notifications, isochronous stack by commands and events, audio driver |
| Connection blocks: `lehs_gatt.c` 508-620, 802-864 | `clcb[2]`: client, ids, `gatt_state`, everything per client | allocate, look up, free | holds the state of unicast server, bond store, subscriptions and GATT client |
| Bond store: `lehs_nvram.c`, `lehs_btmgr.c` | an array of entries in RAM (keys, CCCD bits, database hash, handles); the host's copy is the persistent one | key update, pairing complete, save at disconnection, delete, restore after reset | host over RPC, connection blocks |
| Coordinated set: `lehs_csis.c`, `ga_lib_csis.c`, `ga_lib_csis_psri.c` | lock value, owner, timer; SIRK | write lock, time out, read SIRK | clients |
| Broadcast sink: `lehs_bis.c`, parsers in `le_audio_bap_broadcast.c`, `le_audio_pbp.c` | one BIG block with its BASE, the wanted source, "sync in progress", a queue of requests, the scan callback | scan, periodic sync, BASE, BIGInfo, BIG sync, end | controller, scan delegator, host, audio driver |
| Scan delegator: `lehs_bass.c`, `ga_lib_bass.c` | one receive state, the operation parsed last | add / modify / remove source, broadcast code, sync transfer | assistant (a client), broadcast sink |
| GATT client: `gatt_interface.c`, `lehs_gatt.c` 1859-2427 | discovery context, operation lists, progress bits | chain of three discoveries, enable notifications, read characteristics, time out | MCS and TBS servers of the peer, bond store (cached handles), host |
| GATT server dispatch: `lehs_gatt.c` 866-1842 | CCCD bits per client | reads, writes, read by type, MTU exchange, notifications | every service, bond store |
| Advertising: `lehs_gatt.c` 624-800, `lehs_bis.c` 281-294 | `adv_state`, swift pair option, data options | start, stop, next state | connections, host |
| Volume and microphone: `lehs_vcs.c`, `lehs_mics.c`, `ga_lib_vcs.c`, `ga_lib_vocs.c`, `ga_lib_mics.c`, `ga_lib_aics.c` | volume, mute, gain, change counters | control point writes, notifications | audio driver, host |
| Hearing access: `lehs_has.c`, `ga_lib_has.c` | presets, active preset | read records, select | clients |
| Capabilities: `lehs_pacs.c`, `ga_lib_pacs.c` | published records, locations | verify a codec configuration, write locations | unicast server, host |
| Media and call clients: `lehs_mcs.c`, `lehs_ccp.c`, `ga_lib_mcs.c`, `ga_lib_tbs.c` | what the host was shown of the peer's player and calls | read complete, notification, control point | GATT client, host |
| Host interface: `lehs_rpc.c`, `app_rpc.c`, `le_audio_rpc.c`, `rpc_*.c` | none but buffers | decode a command and call, encode an event | everything |
| Start up and driver: `lehs_main.c`, `*_rom.c` | configuration; volume, mute and gain of the driver | - | volume, microphone |

What makes each one correct:

* **Unicast server.**  An ASE streams only on its own CIS, with a data path that
  was set up; it waits in releasing only for something that will happen; the
  client knows the state of its ASEs whatever changed them; what clients see is
  the life cycle of an ASE; the one audio stream does not outlive its users; one
  client's CIS does not move another client's ASEs.  (Three of these have an
  exception in the code: section 3.)
* **Bond store.**  A bond survives a restart at any moment; a device has one
  entry; an entry holds the data of its own device.
* **Set lock.**  A granted lock is taken back some time: its timer runs; one
  client has it at a time (it is not so in the code: section 3).
* **Broadcast sink and scan delegator.**  One sync command at a time, and nobody
  who waits for one is forgotten; the BIG believes in no sync that is over and
  takes no other source's BASE; the assistant hears each change of its receive
  state, and "synchronized" only when it is true; a BASE and a command are
  understood as they were built, and the headset plays the channels of its
  locations.
* **GATT client.**  An encrypted link gets ready, and a headset that says so shows
  what the peer has, from the first discovery or from stored handles.
* **GATT server.**  A device is told what it subscribed to, on this link or as a
  bonded one on an earlier one, and reads its own descriptors back.
* **Advertising.**  The host is shown the state of the headset, and that is the
  one the controller is in, but for an end that is under way.
* **Volume, microphone, presets.**  A write with the current change counter comes
  from a client that knows what it changes; loudspeaker and host agree with the
  state; a microphone that is muted everywhere is silent, and one that is open
  everywhere is not; stepping through presets is reversible.
* **Capabilities.**  What is accepted for an ASE is published for its direction,
  and its contexts are those the client wrote.

The hazards behind these properties are listed, each at its line, under
"hazards" in `PROJECT.json`.

## 2. Modules

| Module | Models | Code |
|---|---|---|
| `AseTable` | ASE states, opcodes and the transition table; used by the next two | `ga_lib_bap.c` 732-841 |
| `AseLifecycle` | abstract: what a client may see of its ASEs, one visible transition after the other | (promise) |
| `UnicastServer` | unicast server and connection blocks; implements `AseLifecycle` | `lehs_ascs.c`, `lehs_cis.c`, `lehs_offload.c`, `lehs_gatt.c` |
| `BondStore` | bonds, pairing, the host's copy, restarts | `lehs_nvram.c`, `lehs_btmgr.c`, `lehs_rpc.c` |
| `SetLock` | the coordinated set lock | `lehs_csis.c` |
| `BroadcastSink` | broadcast sink, scan delegator and the host's broadcast commands | `lehs_bis.c`, `lehs_bass.c`, `lehs_rpc.c` |
| `CodecData` | codec configurations and metadata, in memory and as bytes; no state | `ga_lib_bap.c` 373-719 |
| `BroadcastBase` | building, announcing and reading the BASE, choice and channel of BISes; uses `CodecData` | `le_audio_bap_broadcast.c`, `lehs_bass.c`, `lehs_bis.c`, `lehs_offload.c` |
| `ScanCommands` | the scan control point from its bytes to the receive state; uses `CodecData` | `ga_lib_bass.c`, `lehs_bass.c` |
| `Capabilities` | published records, verification of configurations, contexts, locations; uses `CodecData` | `lehs_pacs.c`, `ga_lib_ascs.c` |
| `GattClient` | discoveries, operation lists, stored handles, the mirror of player and calls | `gatt_interface.c`, `lehs_gatt.c`, `lehs_mcs.c`, `lehs_ccp.c` |
| `Subscriptions` | CCCD bits, reads, notifications, their store | `lehs_gatt.c`, `gatt_interface.c`, `lehs_nvram.c` |
| `Advertising` | the advertising state machine | `lehs_gatt.c`, `lehs_bis.c`, `lehs_rpc.c` |
| `VolumeControl`, `Microphone` | volume and offset; microphone and its input; driver and host | `lehs_vcs.c`, `lehs_mics.c`, `ga_lib_*.c`, `lehs_gatt.c`, `lehs_audio_driver_rom.c` |
| `HearingAccess` | presets | `lehs_has.c`, `ga_lib_has.c` |
| `*Proofs` | theorems: `UnicastServerProofs` and `UnicastCisProofs` about `UnicastServer`; `LocalServicesProofs` about volume, microphone, presets, lock, bonds, advertising and `MCLocalServices`; `CodecProofs` about `CodecData` and `Capabilities`; `BroadcastDataProofs` about `BroadcastBase` and `ScanCommands`; `BroadcastSinkProofs`, `GattClientProofs` and `SubscriptionsProofs` about the module of their name | |
| `MC*` | instances for TLC | |

Every definition of these modules that stands for code is mapped to its lines in
`PROJECT.json`.  A definition marked "Mutant" is a plausible mistake in the
definition after it; `PROJECT.json` lists which property finds it.

### UnicastServer

`clcb`, `ase` and `audio` are the blocks, `local_ase_data` and the stream;
`told` is what each client was last notified of, `missed` (history) the ASEs one
of its writes moved without counting them since it connected; `cis` and `setups` are the
isochronous stack's CISes and pending data path requests (environment).  `out` in
`cis` is the net effect of the commands given: an output data path from that CIS.
A write is one action: `RejectWrite` when the validating pass fails - CONFIG_QOS
has stored parameters of earlier ASEs by then -, `ApplyWrite` for both passes and
the notifications, `ApplyStartReady` for Receiver Start Ready, whose data path
request may fail after the answer.  A write also gives a number of ASEs, which the
code does not compare with those that follow: all of them are moved, but only
that many are notified and settled (`Counts`, `Counted`).  `CisRequest` ... `DataPathSetup` are the
branches of `lehs_isoc_event_handler`; the lookups by CIS id and by handle are
modelled as the loops find them, a shadowed variable in
`lehs_get_ase_app_data_ptr_by_cis_conn_hdl` included.

Assumed of the environment: a CIS of a client has a handle of its own
(`HandlePool`); a central creates a CIS only while an ASE of its is enabling or
streaming without a data path (`CisOnlyForAse`); commands are carried out in
order; a data path request on a CIS that drops ends without success; a client
reconnects when its old CISes are gone; one write names an ASE once, and no more
ASEs than the headset has.
`CisDropsFirst` says whether a link is reported lost only after its CISes: FALSE
in the unidirectional runs and with two clients, TRUE in the bidirectional run, where
`AudioHasActiveUser` needs it (the stream of a link that goes first is never
closed: a hazard).  Codec parameters and metadata are a fault map: nothing wrong,
an error, or a QoS value that skips the ASE; what makes them wrong is the subject
of `Capabilities`.

### BondStore

`store` is the array, `host` the copy of the host, `link` what a connection and a
pairing under way keep, `bond` the key both sides agree on after pairing
(history), `overrun` whether keys were ever written behind the array (history;
the memory there is not modelled).  `Restart` empties `store` and restores the
host's entries before anybody connects, as `lehs_nvram_write_data` does.  Data in
an entry are told apart by the device they are of.  One identity address per
device; the host drops its copy when it asks for a deletion.

### SetLock

`granted` (history) is the set of clients that were answered SUCCESS to LOCKED
and have not given the lock back, lost it by the timer, or disconnected.
`WriteReserved` is the value 0, which passes every test and is notified to the
others.  `told` is what a client was notified of or read.  The code never sets the
value to LOCKED, so `lock` stays "unlocked", a read says so to everybody, and the
refusing branches are never taken in the runs; they are in the model because they
are in the code.  What follows is in section 3.

### BroadcastSink

A source stands for its broadcast id, address and SID.  `big` is the one BIG
block, `bass` the one receive state, `told` what its client was last notified
of, `want` the wanted source and BISes, `scan` the scan with the callback that
synchronizes, `progress` and `queue` the serialisation of sync commands.
`creating`, `pasync`, `past` and `iso` are the controller's (environment): the
sync commands it works on, its periodic syncs, sync transfer and BIG sync.
BISes are "none", "left" (those of the headset's location) and "any"
(0xFFFFFFFF, resolved when the BASE is known); which those are is
`BroadcastBase`, and how a command is read is `ScanCommands`.

Assumed: the sources have different SIDs (`Sid`; the comment at `lehs_bis.c:403`
relies on it); the controller never uses handle 0, and refuses a BIG sync without
a BIS, on a handle it does not have or beside another; a create sync for a source
it is synchronized to never succeeds, and one that succeeds is for the source it names
(the request asks for the list of periodic advertisers, `lehs_bis.c:474`, from which
the code takes every source off when its request ends, `lehs_bis.c:253`); a sync may fail at any moment, which covers
`rpc_cancel_pa_sync`, an action without a change of the program's state; the
result of every command is ignored, as in the code.  `overrun` (history) records
a write behind the array of BIGs; it lands in the broadcast code of
`broadcast_source`, which is left out with the other codes.  The connection of
the assistant matters only when it is lost (`AssistantLost`).

### CodecData, BroadcastBase, ScanCommands, Capabilities

`CodecData` holds the conversions of `ga_lib_bap.c`, byte by byte where lengths
matter: entries of length, type and value, a list of metadata that is read until
its length is used up, tables of frequencies and durations with their different
first indexes.  What reads behind the end of the data reads 0.  The list of
content control ids (`ga_lib_bap.c:642`) moves on one byte too far, as in the
code, so properties speak of metadata in which nothing stands behind it.

`BroadcastBase` builds a BASE as `le_audio_bap_build_base_data` does, announces it
in an advertisement, reads it with the count of bytes that are left, and takes BISes:
the indexes are or-ed into a field of bits (`lehs_bass.c:428`; `BitsOf` has the bits of
an index), which is then read as one bit for each BIS.  A refused BASE leaves what was there, since
the result is not looked at (`lehs_bis.c:133`).

`ScanCommands` has the length checks and the parser of the control point.
`op_data` is static in the code: subgroups a command does not have keep what an
earlier one left, and a command of another kind reads them out of the overlay of
a union, which is a choice (`Leftovers`).  A command cut below the length the
parser has checked, or longer, is refused.  The number of subgroups is stored as the
command has it, and their copy has room for `MaxSubgroups`; a receive state of more is built
from what lies behind the copy, a choice (`Behind`).  What `ADD_SOURCE` does after the
receive state is filled is `BroadcastSink`'s.

`Capabilities` keeps what was accepted for an ASE (history) and the contexts of
its metadata.  An index outside the tables becomes 0, which is not compared; the
number of channels is not compared; both are in the model, as in the code.

### VolumeControl, Microphone, HearingAccess

`view`, `missed`, `known`, `changes` and `heard` are what clients were told last
and how often the counter moved since (history).  A notification reaches a client
or not.  Every step of the volume notifies every connected client and steps the
counter once for each; with the microphone only the writer is notified.
`driver`, `prev`, `speaker` and `platform` are the driver's static variables and what
the platform plays: a microphone is muted by its volume, and at the start of a stream by its
gain; `shows` and `shown` what the host was told.  A gain is compared
and kept as a byte (`lehs_gatt.c:1517`), so that a negative one is never found
unchanged; the driver plays the byte.  The table of presets is `1..Presets`, all of them
available; `ReadActivePreset` answers from the copy made at start up, as the
code does (`lehs_gatt.c:1285`).

### GattClient

One action for each callback: `Encrypted` (start or restart from stored handles),
`AnswerDiscover`, `AnswerWrite`, `AnswerRead` for the answers of the peer in the
order of the requests, `TimerFires`, `Congestion`, `PeerChanges` (notification),
the writes of the host, `Disconnect` and `PowerOff`.  `clcb` is the block with the
discovery context and the operation list, `nvram` the stored record, `peer` the
peer (environment) and `shown` what the host shows.  A send may be refused and a
request may fail, `MaxHindered` times on a link; `hindered` (history) counts it,
since the code retries nothing.  Assumed: the peer of a block is fixed and its
database does not change; discovery in an empty range is refused by the
stack; a name of the peer keeps its value; the bearer delivers in order.  A player name
shorter than `NameLength` is never shown, since `lehs_mcs.c:66` takes the maximal length
for the least.

### Subscriptions

`slot` is the block with its words of CCCD bits, `stored` and `copied` those of
the bond and of the host's copy; `wrote` is what each device wrote last (history),
which a restart takes back to what was saved when its last link ended.  Reads, reads by type
and notifications are operators on the words (`Answer`, `Message`), with the MTU
of the bearer; a message goes out without a look at the result by the
services.  Hearing Access indicates without a look at the bits (`Unasked`;
`ga_lib_has.c:91`, 134, 162).  READ_BLOB is answered as READ, as in the code (`lehs_gatt.c:1793`).

### Advertising

`adv_state` and `do_swift_pair` are the program's, `on_air` and `refused` the
controller's, `ended` the events of ends of the set that are under way, `adv_shown`
what the host was told.  A connection ends the set, with the handle of the
connection in its event; handle 0 is taken for the end of its duration
(`lehs_bis.c:284`).

## 3. Runs

| Run | Instance and bounds | Question |
|---|---|---|
| `UnicastUnidirectional` | 1 client, sink and source on a CIS each, 2 handles, writes for up to 2 ASEs of which one may be unknown, with any count of them, one faulty parameter | type; streaming only on the own CIS; coupled ASEs have a QoS configuration; the client is told every change of the ASEs it counted; releasing waits for the own CIS; implements `AseLifecycle`; releases complete |
| `UnicastBidirectional` | sink and source on one CIS | the handle reaches both ASEs; the codec stops with its last user |
| `BroadcastShared` | 2 sources, one for the assistant and one for the host, 2 handles (symmetric), a queue of 2 | type; one command at a time; waiting is served; BASE, PA state and BIG state are true |
| `BroadcastTransfer` | 1 source, all ways to synchronize and all BISes | the assistant is told each change, and "synchronized" only when true |
| `GattClient` | 1 link, 4 characteristics of 2 services of 3 databases (no telephony, no notifications of calls), 1 hindrance, a byte of 4 values | a started link gets ready; ready shows the peer |
| `LocalServices` | every local service, see below | the 16 properties of volume, microphone, presets, capabilities, BASE, scan commands, subscriptions, bonds, advertising and lock |
| `ReleaseStuck` | as `UnicastUnidirectional` | violation, see below |
| `CrossedClients` | 2 clients with a sink each, the same CIG and CIS ids, handles of their own, writes for one ASE | violation |
| `InheritedData` | 3 devices, 2 entries, 2 keys (symmetric) | violation |
| `RetriedSyncLost` | 1 source | violation |
| `StalledRead` | as `GattClient` | violation |
| `SubgroupsMixed` | as `LocalServices` | violation |

`MCLocalServices` instantiates ten modules that share no variable, so their
composition has no step of one that another sees; `focus`, chosen in the initial
state, says which of them takes the steps.  Every behaviour of each module is
one of the instance, and the state spaces add up instead of multiplying.  Its
type invariant has the types of volume, microphone, presets, bonds and
advertising; the other five modules have none.  The
bounds: volume 0 to 2 and a counter of 3 values, so that saturation and a counter
gone round both occur; two blocks as in the code; two clients of the microphone, gains -1
and 0 with a byte and a counter of 2 values; 3 presets and an index byte of 6 values, where steps leave the table and the
byte; all indexes of frequencies and durations with frame sizes at both bounds;
BASEs of one and two subgroups with one and two BISes, locations, values and
metadata present or not; commands with 0 to 3 subgroups where 2 fit, cut,
longer and out of range, three in a row; three characteristics in words of two,
so that one word is full and one is not, two devices, two blocks, two writes;
two devices and two entries; three clients of the lock for two blocks; two
links and three pending events of advertising.

Why the bounds of the others are enough.  Unicast: an ASE interacts with another
one through a shared CIS, a shared handle, the one stream or a write that names
both: two ASEs and two CISes give each; a second client adds the lookups that go
across blocks.  Three devices on two entries (`InheritedData`) is the least that
brings an entry from one device to another.  Three lock clients give writer,
owner and a third.  Two sources are the owner of the BIG and an intruder; two periodic
handles let one be reused while another lives; one queued request is the first
that can be forgotten, the second the first that can be overtaken: with two, the sync of
a request that nobody waits for any more can be given the handle that the BIG of the
other source has kept (see below).  GATT
client: the lists of the instance have a characteristic of each service, one that
can be notified and is not read, and one the peer lacks; a block and its peer
share nothing with the next block but the congestion event, which only one link can
be affected by here (the code resumes the first busy block, whatever the link).

Violations are disagreements of the code with its own comments, recorded under
"findings":

* `ReleaseStuck`: an ASE whose kept CIS handle belongs to a CIS that is up again
  waits in releasing for a loss that is looked up by other ids.
* `CrossedClients`: two centrals that choose the same CIG and CIS ids have their CIS
  events handled for each other's ASEs.
* `InheritedData`: a deleted entry keeps hash, handles and CCCD bits for the next
  device.
* `RetriedSyncLost`: the success of a periodic sync that was retried after a time
  out is written behind the array of BIGs.
* `StalledRead`: a read that the stack refuses is taken off a count it was not
  added to; the list of reads never ends.
* `SubgroupsMixed`: the second subgroup of a command is read out of the metadata
  of the first.

Other things the code does that the models show, without a run of their own.  Each of the
named definitions is a property the code does not have; an instance of section 3 violates it.

* `ToldEveryAse` (`UnicastUnidirectional`): a write of two ASEs that says it has one
  (`lehs_ascs.c:206`) moves both, and notifies and settles the first only.  What a client is told
  and how an ASE leaves releasing are therefore stated of the ASEs that were counted (`missed`).
* `SinkHasOutput` (`UnicastUnidirectional`): the success of a data path request made before a
  DISABLE and handled after the next ENABLE makes a sink streaming whose path was removed
  (`lehs_cis.c:128`, though the comment at line 122 says that the data path is set up).
  `StreamingSinkOnItsCis` does not see it: it compares the flag and the CIS.
* `LockIsExclusive` (`LocalServices`): a second client is granted the lock while the first holds
  it, although the comment at `lehs_csis.c:130` says "assign exclusive access to client": no line
  sets the lock to LOCKED.  `LatestGrantIsTimed` is about the latest of them only.
* `OpenTogetherIsOpen` (`LocalServices` with `MaxGain = 1`, `InitialGain = 1`): a stream that
  starts while the microphone is muted sets its gain to 0 (`lehs_audio_driver_rom.c:67`), and
  opening the microphone restores its volume only (line 84).
* `TakesItsChannels` (`LocalServices` with `SourceBases <- FarBases`): a BIS index of 3 is or-ed as
  the bits of the BISes 1 and 2 (`lehs_bass.c:428`), where `ga_lib_bass.h:104` has one bit for
  each BIS.
* `SubgroupsArePossible` (`LocalServices`): the number of subgroups of an added source is stored
  without a limit (`lehs_bass.c:36`), and the receive state is built with what lies behind them.
* Presets are indicated without a look at the descriptors (`ga_lib_has.c:91`, 134, 162), so
  `AnswersAsWritten` speaks of the messages of the other services.
* `BaseNeverOfAnother` (`BroadcastShared`): a BIG that lost its sync keeps the handle
  (`lehs_bis.c:271`), the sync of another source that nobody waits for any more gets it, and its
  BASE becomes the BIG's.  A write behind the array of BIGs comes first in every such behaviour, so
  `BaseOfItsSource`, `BigStateIsTrue` and the part of `ReportedWhenSynced` about BISes speak of
  those without, `~overrun`.
* A pairing with a full array writes behind it (`lehs_nvram.c:100`) instead of replacing an entry
  that is not connected, as the comment at line 63 has it.
* A disconnection by time out while advertising is regular ends it, though the trace at
  `lehs_gatt.c:861` says that it restarts.

Deadlock is checked in all runs.

### Fairness

`ReleaseCompletes` assumes `FairSpec`: no CIS lasts for ever - the client drops it
once its ASEs are released, or the link supervision of the controller does.
`StartedBecomesReady` assumes `GattFairSpec`: a peer answers the oldest request of
each link; the stack times a transaction out otherwise.  Nothing is assumed of clients and of the
host.  The lock has no liveness property (a client may renew it again and again),
nor has the broadcast sink (a failed BIG sync is never tried again).

## 4. Proofs

| Theorem | For every | Argument |
|---|---|---|
| `UnicastServerProofs!TypeCorrect` | number of clients, blocks, ASEs, CISes and handles | `TypeOK` is inductive; one lemma per action |
| `UnicastServerProofs!CoupledHasQos` | same | inductive with `TypeOK`: an ASE becomes coupled by CONFIG_QOS, which stores the ids, and only a move to idle clears them |
| `UnicastServerProofs!StreamingHasDataPath` | same, if clients write Receiver Start Ready for sources only | inductive with `TypeOK`; a step is split by the one ASE it changes (`StepOfAse`) |
| `UnicastCisProofs!CisAssigned` | same; ids (`DistinctIds`) and handles of its own for each CIS, one ASE of a direction on it | inductive with `PlannedInv` (ASEs have only ids and handles their client may have): configuration, request and establishment each copy the handle when they find the other there |
| `UnicastCisProofs!ReleasingFindsItsCis` | same, and one ASE for each CIS, created only for an ASE that waits for it | `NamedInv` adds that an ASE that has the handle of a CIS has its ids |
| `UnicastCisProofs!StreamingOnItsCis` | same, and one plan for each client, Receiver Start Ready for sources, CISes gone before their link (or one client) | `StreamInv` adds that each data path request under way is of an ASE on that CIS |
| `UnicastCisProofs!ToldWhatIs` | one client | inductive with `BaseInv`: every action that moves an ASE notifies the one connection there is, or puts the ASE among those it missed |
| `UnicastCisProofs!ImplementsLifecycle` | one client | refinement of `AseLifecycle`: initial states map to initial states, and under `ToldInv` each action is a step of the abstract specification or stutters, one lemma per action; a client that wrote without counting is not connected any more there |
| `UnicastCisProofs!AudioOfActive` | one client, one CIS, one ASE of each direction, CISes gone before their link | `AudioInv` adds that data path requests under way are on a CIS that is up, and that the codec runs only for the ASEs of it |
| `LocalServicesProofs!OneEntry`, `BondsSurvive` | number of devices, keys, entries, connections | `BondInv` = type, host's ids are the store's, one entry per device, entries of a bonded device hold its key, the key of a pairing under way is stored |
| `LocalServicesProofs!GrantTimed` | number of connections | `LockInv` adds that the connections are among those there are: every grant starts the timer, and only its end or the owner takes it away |
| `BroadcastSinkProofs!TypeCorrect` | number of sources, handles, queued requests | `TInv` adds that a BIG or receive state in use has a source |
| `BroadcastSinkProofs!OneSync`, `WaitingServed` | same | `Serial` = the flag says whether the controller has a command, at most one command, a queued request and a waiting BIG have a request before them, a waiting BIG is in use; every step but a report of the wanted source and the sync events is `Quiet`: it changes no request and makes no BIG wait |
| `BroadcastSinkProofs!ToldState` | same | inductive with `TInv`: every action notifies what it leaves in the receive state |
| `BroadcastSinkProofs!BaseOwn`, `BigState` | same, with distinct SIDs, and without sync transfers or with one source | `Linked`, see below |
| `BroadcastSinkProofs!Reported` | same | a property of steps: under `Linked`, each of the three steps that make the receive state say synchronized has the event of that source in it |
| `BroadcastSinkProofs!PaState` | same, without sync transfers | inductive with `TInv`; it needs no `~overrun` |
| `LocalServicesProofs!VolumeTypeCorrect`, `InformedVolume` | number of blocks, size of volumes, counters, offsets | `VolumeInv` = type, and the counter a client was told and the steps it missed since add up to the current one as long as it has not gone round |
| `LocalServicesProofs!VolumeFollowed` | same | the driver's variables are the volume state (`SpeakerPlays`); an opcode changes nothing its event leaves out (`HostVolumeShown`) |
| `LocalServicesProofs!MicrophoneTypeCorrect`, `MutedTogether`, `InformedInput`, `HostMicrophoneShown` | number of clients, size of gains, counters, units | `MicrophoneInv` = type, the counter as for the volume, the driver's mute state is the one of MICS or the one of AICS, and while the driver is muted the platform has no volume |
| `LocalServicesProofs!HearingTypeCorrect`, `StepBack` | number of presets and size of an index that leaves room for one more and one less | the type says that a preset of the table is active |
| `GattClientProofs!ClientTypeCorrect` | number of links, peers' databases, lists of characteristics, values | `TypeInv` is inductive: no operator takes a control block out of its type (`HandlersType`), or makes it free or less hindered (`HandlersKept`) |
| `GattClientProofs!ReadyClientShowsPeer` | same, fewer reads in the list than the byte counts, disjoint services | `LinksInv`, see below |
| `SubscriptionsProofs!AnswersFollowWrites` | number of devices, blocks, links and characteristics, database, size of a word and of a bearer | `SubInv`, see below |
| `LocalServicesProofs!AdvertisingShown`, `SwiftPairAsked` | number of links and pending events | `AdvInv` = type and both properties: every move goes through `MoveToNext`, which tells the host where it leads; the swift pair states need the option, whose clearing stops them |
| `LocalServicesProofs!PartsComposed` | all constants of the ten parts | refinement: a step of the composition is a step of the part in focus and a stutter of every other (`PartSteps`) |
| `LocalServicesProofs!TypesCorrect` | same | the types of the parts, carried over by `PartsComposed` |
| `CodecProofs!ContextsHold` | set of metadata of contexts in any order and number, with at most one entry of another type behind them (`ContextsOnly`) | `ContextsInv` = an ASE streams for the contexts written last; below it, what `ReadMetadata` makes of what `Filled` built, see below |
| `CodecProofs!AcceptedHolds` | requests, allocations, published sizes | `AcceptedInv` adds that only requests are accepted; a frequency is found under one index, whose bit is the one checked |
| `BroadcastDataProofs!BaseHolds` | sources with any number of subgroups and BISes, whose metadata are contexts and at most one entry behind them and whose BASE fits the room (`AnnouncedWhole`) | `BaseInv` = what was read is the parse of what the source announces; the parse is the inverse of the building, see below |
| `BroadcastDataProofs!CommandsHold` | commands with any number of subgroups, in the form of the profile (`AsProfile`), for any remains of earlier ones | `ScanInv` = the operation has contexts in every subgroup, and the property; one lemma for each way through the parser (`ParsedIs`) and for what is answered (`ReceiveStateIs`), see below |

Why `BondInv` has to be stronger than the property: that a restart
loses no bond holds only because the host's copy mirrors the store and because
the record sent at pairing complete is the one the key update wrote, which needs
the lookup to find one entry.

The code of the unicast server looks ASEs and CISes up by CIG and CIS ids and by
handles and never compares the connection, so most of what it promises holds
because of what centrals and controllers do.  `UnicastCisProofs` states each such
condition as a definition over `HandlePool` and `QosPlans`, the CISes centrals
may create, and each theorem names the ones it needs:

* `DistinctIds`: two centrals use different CIG and CIS ids.  Each of them chooses its own,
  so this is a real condition: without it, the look ups of one find the ASEs of
  the other (`CrossedClients`).  With one central it is no condition.
* `HandlesPerCis`: a handle is not used for two CISes one
  after the other.  The controller gives each CIS that exists a handle of its own;
  that it also keeps them apart over time is a condition, since the code
  keeps handles of CISes that are gone.
* `OneAsePerDirection`: BAP allows no more on a CIS.  `OneAsePerCis`: without it a
  source's CIS also carries a sink, as in `UnicastBidirectional`.
* `OnePlan`: a central maps an ASE to the same CIS each time it configures it.
* `CisOnlyForAse`, `StartReadyIsForSources`, `CisDropsFirst`: assumptions on
  centrals that the runs make as well (section 2).
* `OneClient`: one central.  `ToldWhatIs` and the refinement need it, since the
  connection that is told of a data path event is looked up by another handle than the
  ASE (`lehs_cis.c:57`) and can be another's.
* `OneCis`: the central has one CIS.  All ASEs share the one `stream_id` of the codec,
  and the argument ties it to the one CIS that is up.

Each set of hypotheses holds in the run that checks the property.  Without
any: `BaseInv`, that CISes are of clients that may use them, a client has one
block and one CIS of given ids, and an unused block is idle and knows no CIS.

`Linked` of `BroadcastSink` says, as long as nothing was written behind the array,
that the sync with the handle of the BIG is of its source, or is none any more
(`HandleOfItsSource`), that the BIG sync of the controller is of the source whose SID
named it, and the two properties.  A BASE is taken by handle, a BIG event by SID, so
neither property is inductive without both.  The hypotheses are needed: SIDs are all
the events are told apart by; a transfer that comes late leaves a sync that no BIG waits
for, which the next BIG can find under its kept handle when there are two sources.
For `PaState` the hypothesis is stronger, as a transferred sync is stopped by the
receive state's handle while the BIG goes on saying synchronized.

`LinksInv` of `GattClient` speaks of links on which no send was refused, no request
failed and no start was repeated.  Such a link is in one of four phases: quiet, discovering a
service (with one request under way), enabling notifications, or reading, and the
phase says what the requests that have no answer yet are.  While it discovers, it knows the
handles of the services before; when it enables, all of them, and each
characteristic up to the place in the list is enabled or has its write under way; when it
reads, the reads are the last requests and `ops_in_progress` counts
them, and each characteristic up to the place is shown or has its read under way.  That writes of the
host are counted as those of the list (`lehs_gatt.c`) can end the enabling early;
the writes are still before the reads then, which is why what the list asked for is
done when the host is told.  A link that starts from stored handles knows what the one
before it knew, so the invariant also says that a stored record without a hindrance is
complete and its notifications are enabled (`StoredWell`).  `FewReads` is needed
because the count wraps; `OwnCharacteristics` because results are
merged service by service (the list of the code has four reads for a byte of counts, and each
characteristic is declared in one service).

`SubInv` of `Subscriptions` says that the words of a block *hold* the configurations its
device wrote (`Holds`: bit by bit, `SetHeld` for a write, `GetHeld` for a look up), that an
open link has one block, and that what is stored with the bond, or nothing, holds what the
device had when its last link was closed.  The bits of two characteristics are apart, in
words of any even size, because quotient and remainder determine the index
(`FieldsApart`).  How many configurations an answer lists is a count of the handles up
to each (`FirstOfCount`).  The condition is `MapOfDatabase`: the map of `lehs_gatt.c` names
a characteristic once, and the generated database has no configuration the map leaves out.

`BaseHolds`, `ContextsHold` and `CommandsHold` are about loops over bytes, which the
modules state as recursive functions and folds.  The library's induction theorems
cannot be used, as they take an operator; the proofs use a set instead
(`Inductive`: a set of numbers that has 0 and the successor of each of its members has all of
them), from which follows that a recursion has one solution (`Chains`, `ChainOnly`).
With it:

* a stream is the joint of its parts (`Joint`, `BuiltBaseIs`, `FlatIsJoint`), and each part *occurs*
  at the sum of the lengths before it (`OccursAt`, `PartsOccur`);
* the parsers of metadata and configuration, on the bytes of k entries, are behind the k-th entry
  after k rounds and stay at the end from then on; what they have read is what
  the last entry of each type says.  Conditions come from the parsers: they move by what an
  entry's type says and count by its length, so an entry of a type they do not know is
  only harmless as the last one (`ContextsFirst`), and a value out of the mask ends the reading;
* the BASE parser is at the k-th subgroup after k rounds and at its k-th BIS likewise, and the
  values a BIS inherits are those of its subgroup.  `AnnouncedWhole` is needed
  because the building leaves out what does not fit, without a trace in the counts;
* a command fits its opcode exactly when it has all its bytes (`LengthFitsIs`): when the
  stream is a byte short or a byte too long, the walk over the subgroups ends before or
  behind it, whatever their number (`FitIs`).  The parser reads the subgroups five bytes apart,
  which is where they are when only the last has metadata (`SimpleLengths`), so
  the property speaks of those; the run `SubgroupsMixed` shows the others.
* the receive state of a source of no more subgroups than there is room for is a joint
  again, and has the same form, as seen by `SubgroupsFit` (`ReceiveStateIs`).

`AsProfile` says what the proof needs of a command: contexts first, each named once, in the metadata;
an address and a broadcast id that are not both zero, as the receive state of such a
source is left empty (`ga_lib_bass.c`); and that a subgroup for which the parser has no room is not
for the BISes of another, as only those it has room for are compared.

Assumptions of the theorems are the named ASSUMEs of the modules
(`ConstantsAssumption`, `BondConstants`, `LockConstants`, `BroadcastConstants`,
`VolumeConstants`, `MicrophoneConstants`, `HearingAccessConstants`,
`GattClientConstants` with `FewReads` and `OwnCharacteristics`,
`SubscriptionConstants` with `MapOfDatabase`, `AdvertisingConstants`,
`CapabilitiesConstants`, `BroadcastBaseConstants`, `ScanConstants`), which TLC evaluates in every run.
The conditions of a theorem (`ContextsOnly`, `AnnouncedWhole`, `AsProfile`,
and those of the unicast server) hold of the instances the runs check.
The theorems are about the specification of each module, and `PartsComposed` carries those of
the services over to the composition the runs of `MCLocalServices` check.

Every invariant and action property of the passing runs has a theorem.  Model-checked only:
`ReleaseCompletes` and `StartedBecomesReady`, which are liveness under fairness
and out of the prover's reach.

`OneClient` and `OneCis` cannot be dropped where they are named.  With two clients, one of them in
the QoS configured state and without a CIS, that one is told *streaming* when the data path of
the other is set up: its ASE holds no handle, and the stack knows none for its ids either.  With two
CISes an ENABLE opens the codec again for one ASE while the data path
request of another, already released, is under way; its success starts the
codec, and the loss of that ASE's CIS does not stop it.

## 5. Not modelled

* **SIRK encryption and PSRI**: cryptography.
* **GMAP, TMAP, IAS**: constants without state (the discovery of the telephony
  role is part of `GattClient`).
* **RPC transport and encoding, start up**: I/O and configuration without
  decisions.
* **Memory**: operation lists and discovery contexts that are overwritten or whose
  timer outlives them are lost or harmless in `GattClient`; in the code they leak
  or are read after they were freed (`gatt_interface.c:176`).  Writes behind an
  array are recorded, not followed.
* **Names and descriptions** of presets, inputs and outputs, codec vendor data,
  broadcast codes, the ids of calls: data no property depends on.
* **Public broadcast announcements** and the list of discovered sources: sent to
  the host, not kept.
* The local identity key, I/O capabilities, updates of connection parameters.

## 6. Plan

Done: the modules of section 2, the runs of section 3 and the proofs of section 4.  Every
property of a passing run but the two of liveness is also a theorem.  A change of the code that
is worth modelling next is one that compares the connection where ASEs and data path
events are looked up: `OneClient` could then be dropped from `ToldWhatIs` and the refinement.
