--------------------------- MODULE BroadcastSink ---------------------------
(***************************************************************************)
(* The broadcast sink (lehs_bis.c) and the scan delegator that drives it   *)
(* for a broadcast assistant (lehs_bass.c): scanning for a source,         *)
(* synchronizing to its periodic advertising (PA), then to its BIG.  The   *)
(* headset holds one BIG and one receive state.  The host may drive the    *)
(* sink as well (lehs_rpc.c).                                              *)
(*                                                                         *)
(* A source is one broadcast id, address and advertising SID.  The         *)
(* controller, which carries out one command after the other and reports   *)
(* when it likes, is the environment.                                      *)
(***************************************************************************)
EXTENDS Naturals, Sequences

CONSTANTS
  Sources,      \* broadcast sources in range
  Sid,          \* [Sources -> Sids]: their advertising SIDs, which name their BIGs too
  Sids,
  Encrypted,    \* sources with an encrypted BIG
  Handles,      \* periodic sync handles of the controller
  NoSource,
  NoSync,       \* the handle 0xFF of a BIG that has none yet
  ZeroSync,     \* the handle 0 of a receive state without one
  AddedSources, \* sources an assistant may add
  HostSources,  \* sources the host may name in its commands
  Ways,         \* ways to synchronize to the PA an assistant asks for
  AskedBits,    \* BIS index bits an assistant asks for
  MaxQueue      \* bound: periodic sync requests queued

ASSUME BroadcastConstants ==
  /\ Sid \in [Sources -> Sids]
  /\ Encrypted \subseteq Sources
  /\ NoSource \notin Sources
  /\ {NoSync, ZeroSync} \cap Handles = {}
  /\ AddedSources \subseteq Sources
  /\ HostSources \subseteq Sources
  /\ Ways \subseteq {"no_sync", "past", "no_past"}
  /\ AskedBits \subseteq {"none", "left", "any"}
  /\ MaxQueue \in Nat

VARIABLES
  big,      \* broadcast_sink_cb[0]
  bass,     \* bass_data[0], the receive state
  told,     \* the fields of the receive state last notified to its client
  want,     \* broadcast_source: the source the host or a client wants
  scan,     \* scanning, with broadcast_sink_bis_ext_adv_scan_to_sync_cback registered
  progress, \* broadcast_sink_periodic_sync_in_progress
  queue,    \* broadcast_sink_pending_scan_q
  creating, \* sources of the create sync commands the controller works on
  pasync,   \* [Handles -> source]: the periodic syncs of the controller
  past,     \* the sync transfer a client has been asked for
  iso,      \* the BIG sync of the controller
  stream,   \* BIS data paths and audio stream are set up
  overrun   \* a sync handle has been written behind broadcast_sink_cb: there lies
            \* the broadcast code of broadcast_source, which the model leaves out

control == <<scan, progress, queue>>
controller == <<creating, pasync, iso>>
vars == <<big, bass, told, want, control, controller, past, stream, overrun>>

-----------------------------------------------------------------------------
(* Data *)

\* BIS index bits: none, those of the headset's location, 0xFFFFFFFF
Bits == {"none", "left", "any"}

\* lehs_broadcast_sink_cb_t.  src stands for base.broadcast_id, bd_addr,
\* adv_handle and big_handle; base for the source whose BASE was parsed.
Bigs == [used: BOOLEAN, src: Sources \cup {NoSource}, pending: BOOLEAN,
         handle: Handles \cup {NoSync}, state: {"idle", "pa", "pa_lost", "big"},
         base: Sources \cup {NoSource}, info: BOOLEAN, syncing: BOOLEAN]

FreeBig == [used |-> FALSE, src |-> NoSource, pending |-> FALSE, handle |-> NoSync,
            state |-> "idle", base |-> NoSource, info |-> FALSE, syncing |-> FALSE]

PaStates == {"not", "info", "sync", "failed"}
EncStates == {"not", "required", "decrypting"}

\* lehs_bass_data_t; req is bis_index_bits
Receives == [used: BOOLEAN, src: Sources \cup {NoSource}, pa: PaStates, bis: Bits, enc: EncStates,
             req: Bits, handle: Handles \cup {NoSync, ZeroSync}, waiting: BOOLEAN]

FreeReceive == [used |-> FALSE, src |-> NoSource, pa |-> "not", bis |-> "none", enc |-> "not",
                req |-> "none", handle |-> ZeroSync, waiting |-> FALSE]

\* What a notification of the receive state says
View(r) == [src |-> r.src, pa |-> r.pa, bis |-> r.bis, enc |-> r.enc]

Views == [src: Sources \cup {NoSource}, pa: PaStates, bis: Bits, enc: EncStates]

Wants == [src: Sources \cup {NoSource}, bits: Bits]

NoWant == [src |-> NoSource, bits |-> "none"]

BigSyncs == [st: {"none", "creating", "synced", "terminating"}, src: Sources \cup {NoSource},
             sid: Sids \cup {NoSource}]

NoBigSync == [st |-> "none", src |-> NoSource, sid |-> NoSource]

Transfers == [st: {"none", "asked", "enabled"}, src: Sources \cup {NoSource}]

NoTransfer == [st |-> "none", src |-> NoSource]

-----------------------------------------------------------------------------
(* Helpers *)

\* lehs_bis_get_big_by_broadcast_id
HasBig(s) == big.used /\ big.src = s

\* Mutant: the handle of the BIG is not compared
HasBigAnyHandle(sid) == big.used

\* lehs_bis_get_big_by_handle
HasBigHandle(sid) == big.used /\ Sid[big.src] = sid

\* Mutant: only a BIG a client has added is looked up
HasAddedBigSyncHandle(h) == big.used /\ bass.src = big.src /\ big.handle = h

\* lehs_bis_get_big_by_sync_handle
HasBigSyncHandle(h) == big.used /\ big.handle = h

\* lehs_bass_find_source_by_bda for the source of a BIG
ReceivesBig == bass.used /\ bass.src = big.src

\* Mutant: the handle of a new BIG is not set to 0xFF
AllocatedZeroed(s) ==
  IF big.used THEN big ELSE [FreeBig EXCEPT !.used = TRUE, !.src = s, !.handle = ZeroSync]

\* lehs_bis_alloc_big: the BIG there is, or a new one if the array has room
Allocated(s) == IF big.used THEN big ELSE [FreeBig EXCEPT !.used = TRUE, !.src = s]

\* wiced_ble_padv_terminate_sync, when the periodic syncs are p
Without(p, h) == [k \in Handles |-> IF k = h THEN NoSource ELSE p[k]]

\* lehs_sync_to_source.  Without a BIS of the BASE, on a handle without a sync
\* or beside another BIG the controller refuses; the result is only traced.
Accepts(b, bits, p) ==
  /\ iso.st = "none"
  /\ bits # "none"
  /\ b.base # NoSource
  /\ b.handle \in Handles
  /\ p[b.handle] # NoSource

SyncToSource(b, bits, p) ==
  /\ big' = [b EXCEPT !.syncing = TRUE]
  /\ iso' = IF Accepts(b, bits, p)
            THEN [st |-> "creating", src |-> p[b.handle], sid |-> Sid[b.src]]
            ELSE iso

\* 0xFFFFFFFF is resolved to the BISes of the BASE for the headset's location
Resolved(b, bits) ==
  IF bits # "any" THEN bits ELSE IF b.base = NoSource THEN "none" ELSE "left"

\* Mutant: the receive state changes without a notification
KeepQuiet(r) == bass' = r /\ UNCHANGED told

\* lehs_notify_recv_state_char, after the receive state became r
Notify(r) == bass' = r /\ told' = View(r)

\* lehs_bass_notify_pa_sync_state, lehs_bass_notify_big_sync_state
NotifyIfReceived(r) == IF ReceivesBig THEN Notify(r) ELSE UNCHANGED <<bass, told>>

\* The receive state once its BIG has ended
BisEnded == [bass EXCEPT !.bis = "none", !.enc = "not"]

\* Mutant: the request is not held back while another is under way
RequestAtOnce(s) ==
  /\ creating' = Append(creating, s)
  /\ progress' = TRUE
  /\ UNCHANGED queue

\* broadcast_sink_create_periodic_sync with a report: queued while a sync is
\* in progress, "since controller rejects more than one request at a time"
RequestSync(s) ==
  IF progress
  THEN queue' = Append(queue, s) /\ UNCHANGED <<progress, creating>>
  ELSE /\ creating' = Append(creating, s)
       /\ progress' = TRUE
       /\ UNCHANGED queue

\* lehs_sync_to_pa: scan for the source, unless its BIG b has a BASE already.
\* The BISes wanted are left as they are.
SyncToPa(s, b) ==
  /\ want' = [want EXCEPT !.src = s]
  /\ scan' = IF b.used /\ b.src = s /\ b.base # NoSource THEN scan ELSE TRUE

\* lehs_bass_synchronize_to_source for the receive state r and its BIG b
SynchronizeToSource(r, b, p) ==
  LET bits == Resolved(b, r.req) IN
  IF HasBig(r.src) THEN bass' = [r EXCEPT !.req = bits] /\ SyncToSource(b, bits, p)
                   ELSE bass' = r /\ UNCHANGED <<big, iso>>

\* lehs_bis_terminate_sync, when the periodic syncs are p
TerminateSync(s, p) ==
  IF ~HasBig(s) THEN pasync' = p /\ UNCHANGED <<big, iso, stream, want>>
  ELSE /\ stream' = FALSE
       /\ iso' = IF /\ big.state = "big" \/ big.syncing
                    /\ iso.st \in {"creating", "synced"}
                    /\ iso.sid = Sid[s]
                 THEN [iso EXCEPT !.st = "terminating"] ELSE iso
       /\ pasync' = IF big.state = "pa" THEN Without(p, big.handle) ELSE p
       /\ big' = IF big.state = "pa" \/ progress THEN FreeBig ELSE big
       /\ want' = NoWant

-----------------------------------------------------------------------------
(* Scanning and periodic advertising: lehs_ext_adv_cback and the callbacks it calls *)

\* broadcast_sink_bis_ext_adv_scan_to_sync_cback for a report of the wanted source
ScanReport(s) ==
  /\ scan
  /\ want.src = s
  /\ big.used => big.src = s /\ big.handle = NoSync /\ ~big.syncing
  /\ progress => Len(queue) < MaxQueue
  /\ big' = [Allocated(s) EXCEPT !.pending = TRUE]
  /\ RequestSync(s)
  /\ scan' = FALSE
  /\ UNCHANGED <<bass, told, want, pasync, iso, past, stream, overrun>>

\* Mutant: only timeouts are followed by a request
RetryOnly(s, timeout) == IF timeout THEN <<s>> ELSE <<>>

\* PERIODIC_ADV_SYNC_ESTABLISHED: the BIG that waits is told, then the next
\* request goes to the controller: the same one again after a timeout, else the
\* head of the queue.
NextRequests(s, timeout) ==
  IF timeout THEN <<s>> ELSE IF queue = <<>> THEN <<>> ELSE <<Head(queue)>>

SendNext(s, timeout) ==
  LET next == NextRequests(s, timeout) IN
  /\ creating' = Tail(creating) \o next
  /\ progress' = (next # <<>>)
  /\ queue' = IF timeout \/ queue = <<>> THEN queue ELSE Tail(queue)
  /\ scan' = (scan /\ next # <<>>)

\* Mutant: the SID of the event is not compared
WaitingAny(s) == big.used /\ big.pending

\* The BIG the event is for.  With none the pointer ends behind the array.
Waiting(s) == big.used /\ big.pending /\ Sid[big.src] = Sid[s]

PaSynced(h) ==
  LET s == Head(creating) IN
  /\ creating # <<>>
  /\ pasync[h] = NoSource
  /\ \A k \in Handles : pasync[k] # s
  /\ pasync' = [pasync EXCEPT ![h] = s]
  /\ IF Waiting(s)
     THEN /\ big' = [big EXCEPT !.pending = FALSE, !.handle = h, !.state = "pa"]
          /\ NotifyIfReceived([bass EXCEPT !.pa = "sync"])
          /\ UNCHANGED overrun
     ELSE overrun' = TRUE /\ UNCHANGED <<big, bass, told>>
  /\ SendNext(s, FALSE)
  /\ UNCHANGED <<want, iso, past, stream>>

\* An error status: a timeout, or cancelled by wiced_ble_padv_cancel_sync
PaSyncFailed(timeout) ==
  LET s == Head(creating) IN
  /\ creating # <<>>
  /\ IF Waiting(s)
     THEN /\ big' = [big EXCEPT !.pending = FALSE]
          /\ NotifyIfReceived([bass EXCEPT !.pa = "failed"])
     ELSE UNCHANGED <<big, bass, told>>
  /\ SendNext(s, timeout)
  /\ UNCHANGED <<want, pasync, iso, past, stream, overrun>>

\* priv_periodic_adv_data_report_handler for a basic announcement
PaReport(h) ==
  /\ pasync[h] # NoSource
  /\ HasBigSyncHandle(h)
  /\ big.base = NoSource
  /\ big' = [big EXCEPT !.base = pasync[h]]
  /\ UNCHANGED <<bass, told, want, control, controller, past, stream, overrun>>

\* lehs_bass_process_big_adv_report_and_sync: an encrypted BIG waits for its code
ProcessBigInfo(b, encrypted) ==
  IF ReceivesBig /\ ~encrypted
  THEN SynchronizeToSource(bass, b, pasync) /\ UNCHANGED told
  ELSE /\ big' = b
       /\ UNCHANGED iso
       /\ IF ReceivesBig /\ ~bass.waiting
          THEN Notify([bass EXCEPT !.waiting = TRUE, !.enc = "required"])
          ELSE UNCHANGED <<bass, told>>

\* priv_big_adv_report_handler: the BISes the host wants, of whichever source,
\* go before those the receive state asks for
BigInfoReport(h) ==
  LET b == [big EXCEPT !.info = TRUE] IN
  /\ pasync[h] # NoSource
  /\ HasBigSyncHandle(h)
  /\ big.base # NoSource
  /\ ~big.syncing
  /\ IF want.bits # "none"
     THEN SyncToSource(b, want.bits, pasync) /\ want' = NoWant /\ UNCHANGED <<bass, told>>
     ELSE ProcessBigInfo(b, pasync[h] \in Encrypted) /\ UNCHANGED want
  /\ UNCHANGED <<control, creating, pasync, past, stream, overrun>>

\* PERIODIC_ADV_SYNC_LOST: handle and BASE of the BIG stay
PaLost(h) ==
  /\ pasync[h] # NoSource
  /\ pasync' = Without(pasync, h)
  /\ IF HasBigSyncHandle(h)
     THEN /\ big' = [big EXCEPT !.state = "pa_lost"]
          /\ NotifyIfReceived([bass EXCEPT !.pa = "not"])
     ELSE UNCHANGED <<big, bass, told>>
  /\ UNCHANGED <<want, control, creating, iso, past, stream, overrun>>

-----------------------------------------------------------------------------
(* The BIG: lehs_bis_isoc_cb *)

BigSynced ==
  /\ iso.st = "creating"
  /\ iso' = [iso EXCEPT !.st = "synced"]
  /\ IF HasBigHandle(iso.sid)
     THEN /\ big' = [big EXCEPT !.state = "big", !.syncing = FALSE]
          /\ scan' = FALSE
          /\ pasync' = Without(pasync, big.handle)
          /\ stream' = TRUE
          /\ NotifyIfReceived([bass EXCEPT !.bis = bass.req, !.pa = "not", !.enc = "not"])
     ELSE UNCHANGED <<big, scan, pasync, stream, bass, told>>
  /\ UNCHANGED <<want, progress, queue, creating, past, overrun>>

\* An error status: the handler returns, big_sync_in_progress stays set
BigSyncFailed ==
  /\ iso.st = "creating"
  /\ iso' = NoBigSync
  /\ UNCHANGED <<big, bass, told, want, control, creating, pasync, past, stream, overrun>>

BigLost ==
  /\ iso.st = "synced"
  /\ iso' = NoBigSync
  /\ IF HasBigHandle(iso.sid)
     THEN stream' = FALSE /\ NotifyIfReceived(BisEnded) /\ big' = FreeBig
     ELSE UNCHANGED <<stream, bass, told, big>>
  /\ UNCHANGED <<want, control, creating, pasync, past, overrun>>

BigTerminated ==
  /\ iso.st = "terminating"
  /\ iso' = NoBigSync
  /\ IF HasBigHandle(iso.sid)
     THEN NotifyIfReceived(BisEnded) /\ big' = FreeBig
     ELSE UNCHANGED <<bass, told, big>>
  /\ UNCHANGED <<want, control, creating, pasync, past, stream, overrun>>

-----------------------------------------------------------------------------
(* The assistant: lehs_bass_handle_write_req_evt *)

\* lehs_bass_synchronize_to_pa after the receive state became r; the BIG is
\* allocated if there is room, whether or not it is.
SynchronizeToPa(how, r) ==
  LET b == Allocated(r.src) IN
  /\ big' = b
  /\ IF how = "no_past" THEN SyncToPa(r.src, b) ELSE UNCHANGED <<want, scan>>
  /\ past' = IF how = "past" THEN [st |-> "asked", src |-> r.src] ELSE past
  /\ bass' = IF how = "past" THEN [r EXCEPT !.pa = "info"] ELSE r

AddSource(s, how, bits) ==
  LET r == [FreeReceive EXCEPT !.used = TRUE, !.src = s, !.req = bits] IN
  /\ ~bass.used
  /\ told' = View(r)
  /\ SynchronizeToPa(how, r)
  /\ UNCHANGED <<progress, queue, controller, stream, overrun>>

\* lehs_handle_modify_source, in the order of its branches.  The first one stops
\* the periodic sync and goes on with the PA state it had read before.
StopsPa(how) == how = "no_sync" /\ bass.pa = "sync"

StartsPa(how) == bass.bis = "none" /\ how # "no_sync" /\ bass.pa = "not"

AfterPa(how) == IF StopsPa(how) THEN [bass EXCEPT !.pa = "not"] ELSE bass

PaAfter(how) == IF StopsPa(how) THEN Without(pasync, bass.handle) ELSE pasync

ModifyToPa(how, bits) ==
  /\ bass.used
  /\ StartsPa(how)
  /\ SynchronizeToPa(how, IF bits = "none" THEN bass ELSE [bass EXCEPT !.req = bits])
  /\ UNCHANGED <<told, progress, queue, controller, stream, overrun>>

\* BIS synchronized and others asked for: the BIG sync is terminated
ModifyStopsBis(how, bits) ==
  /\ bass.used
  /\ ~StartsPa(how)
  /\ bass.bis \notin {"none", bits}
  /\ bass' = AfterPa(how)
  /\ told' = IF StopsPa(how) \/ bits = "any" THEN View(AfterPa(how)) ELSE told
  /\ TerminateSync(bass.src, PaAfter(how))
  /\ UNCHANGED <<control, creating, past, overrun>>

ModifyStartsBis(how, bits) ==
  /\ bass.used
  /\ bass.bis = "none"
  /\ bits # "none"
  /\ bass.pa = "sync"
  /\ SynchronizeToSource([AfterPa(how) EXCEPT !.req = bits], big, PaAfter(how))
  /\ told' = IF StopsPa(how) THEN View(AfterPa(how)) ELSE told
  /\ pasync' = PaAfter(how)
  /\ UNCHANGED <<want, control, creating, past, stream, overrun>>

\* The BISes asked for are those there are: the state is notified
ModifyKeepsBis(how, bits) ==
  /\ bass.used
  /\ ~StartsPa(how)
  /\ bass.bis = bits
  /\ Notify(AfterPa(how))
  /\ pasync' = PaAfter(how)
  /\ UNCHANGED <<big, want, control, creating, iso, past, stream, overrun>>

\* Refused while the receive state says it is synchronized
RemoveSource ==
  /\ bass.used
  /\ bass.pa # "sync"
  /\ bass.bis = "none"
  /\ big' = IF HasBig(bass.src) THEN FreeBig ELSE big
  /\ Notify(FreeReceive)
  /\ UNCHANGED <<want, control, controller, past, stream, overrun>>

SetBroadcastCode ==
  LET r == [bass EXCEPT !.waiting = FALSE, !.enc = "decrypting"] IN
  /\ bass.used
  /\ told' = View(r)
  /\ SynchronizeToSource(r, big, pasync)
  /\ UNCHANGED <<want, control, creating, pasync, past, stream, overrun>>

\* lehs_bass_handle_pa_sync_transfer_param_evt: the client may transfer its sync
TransferParam ==
  /\ past.st = "asked"
  /\ past' = [past EXCEPT !.st = "enabled"]
  /\ IF bass.used /\ bass.pa = "info" THEN Notify(bass) ELSE UNCHANGED <<bass, told>>
  /\ UNCHANGED <<big, want, control, controller, stream, overrun>>

\* The controller refused the parameters
TransferRefused ==
  /\ past.st = "asked"
  /\ past' = NoTransfer
  /\ UNCHANGED <<big, bass, told, want, control, controller, stream, overrun>>

\* Mutant: the status of the transfer is not looked at
HandleTransferAnyway(h, pa) ==
  IF bass.used /\ bass.pa = "info" /\ Sid[bass.src] = Sid[past.src]
  THEN Notify([bass EXCEPT !.handle = h, !.pa = "sync"]) /\ UNCHANGED big
  ELSE UNCHANGED <<big, bass, told>>

\* lehs_bass_handle_periodic_sync_transfer_evt: the BIG takes the handle over,
\* its sync state stays as it is
HandleTransfer(h, pa) ==
  IF bass.used /\ bass.pa = "info" /\ Sid[bass.src] = Sid[past.src]
  THEN /\ Notify([bass EXCEPT !.handle = h, !.pa = pa])
       /\ big' = IF HasBig(bass.src) THEN [big EXCEPT !.handle = h] ELSE big
  ELSE UNCHANGED <<big, bass, told>>

TransferReceived(h) ==
  /\ past.st = "enabled"
  /\ pasync[h] = NoSource
  /\ \A k \in Handles : pasync[k] # past.src
  /\ past' = NoTransfer
  /\ pasync' = [pasync EXCEPT ![h] = past.src]
  /\ HandleTransfer(h, "sync")
  /\ UNCHANGED <<want, control, creating, iso, stream, overrun>>

TransferFailed ==
  /\ past.st = "enabled"
  /\ past' = NoTransfer
  /\ HandleTransfer(NoSync, "failed")
  /\ UNCHANGED <<want, control, controller, stream, overrun>>

\* lehs_bass_handle_acl_disconnection: the BIG is not looked at, and there is
\* nobody left to notify
AssistantLost ==
  /\ bass.used
  /\ bass' = FreeReceive
  /\ told' = View(FreeReceive)
  /\ past' = NoTransfer
  /\ UNCHANGED <<big, want, control, controller, stream, overrun>>

-----------------------------------------------------------------------------
(* Commands of the host: lehs_rpc.c *)

\* rpc_get_bis_info
HostGetInfo(s) ==
  /\ SyncToPa(s, big)
  /\ UNCHANGED <<big, bass, told, progress, queue, controller, past, stream, overrun>>

\* lehs_bis_sync_to_source
HostListen(s, bits) ==
  /\ IF ~HasBig(s)
     THEN want' = [src |-> s, bits |-> bits] /\ scan' = TRUE /\ UNCHANGED <<big, iso>>
     ELSE /\ UNCHANGED scan
          /\ IF big.info /\ big.base # NoSource
             THEN SyncToSource(big, bits, pasync) /\ want' = NoWant
             ELSE want' = [src |-> s, bits |-> bits] /\ UNCHANGED <<big, iso>>
  /\ UNCHANGED <<bass, told, progress, queue, creating, pasync, past, stream, overrun>>

\* rpc_handle_sync_to_broadcast_source, not to listen
HostStop(s) ==
  /\ HasBig(s)
  /\ TerminateSync(s, pasync)
  /\ UNCHANGED <<bass, told, control, creating, past, overrun>>

\* rpc_terminate_pa_sync
HostTerminatePa(s) ==
  /\ HasBig(s)
  /\ pasync' = IF big.state = "pa" THEN Without(pasync, big.handle) ELSE pasync
  /\ big' = FreeBig
  /\ UNCHANGED <<bass, told, want, control, creating, iso, past, stream, overrun>>

\* lehs_bis_discover_sources: another callback, or no scan at all
HostDiscover ==
  /\ HostSources # {}
  /\ scan
  /\ scan' = FALSE
  /\ UNCHANGED <<big, bass, told, want, progress, queue, controller, past, stream, overrun>>

-----------------------------------------------------------------------------
Init ==
  /\ big = FreeBig
  /\ bass = FreeReceive
  /\ told = View(FreeReceive)
  /\ want = NoWant
  /\ scan = FALSE
  /\ progress = FALSE
  /\ queue = <<>>
  /\ creating = <<>>
  /\ pasync = [h \in Handles |-> NoSource]
  /\ past = NoTransfer
  /\ iso = NoBigSync
  /\ stream = FALSE
  /\ overrun = FALSE

Periodic ==
  \/ \E s \in Sources : ScanReport(s)
  \/ \E h \in Handles : PaSynced(h)
  \/ \E timeout \in BOOLEAN : PaSyncFailed(timeout)
  \/ \E h \in Handles : PaReport(h) \/ BigInfoReport(h) \/ PaLost(h)

Isochronous == BigSynced \/ BigSyncFailed \/ BigLost \/ BigTerminated

Modify(how, bits) ==
  \/ ModifyToPa(how, bits)
  \/ ModifyStopsBis(how, bits)
  \/ ModifyStartsBis(how, bits)
  \/ ModifyKeepsBis(how, bits)

Assistant ==
  \/ \E s \in AddedSources, how \in Ways, bits \in AskedBits : AddSource(s, how, bits)
  \/ \E how \in Ways, bits \in AskedBits : Modify(how, bits)
  \/ RemoveSource
  \/ SetBroadcastCode
  \/ TransferParam
  \/ TransferRefused
  \/ \E h \in Handles : TransferReceived(h)
  \/ TransferFailed
  \/ AssistantLost

Host ==
  \/ \E s \in HostSources : HostGetInfo(s) \/ HostStop(s) \/ HostTerminatePa(s)
  \/ \E s \in HostSources, bits \in Bits \ {"none"} : HostListen(s, bits)
  \/ HostDiscover

Next == Periodic \/ Isochronous \/ Assistant \/ Host

Spec == Init /\ [][Next]_vars
-----------------------------------------------------------------------------
(* Properties *)

\* Every variable keeps its type
TypeOK ==
  /\ big \in Bigs
  /\ bass \in Receives
  /\ told \in Views
  /\ want \in Wants
  /\ scan \in BOOLEAN
  /\ progress \in BOOLEAN
  /\ queue \in Seq(Sources)
  /\ creating \in Seq(Sources)
  /\ pasync \in [Handles -> Sources \cup {NoSource}]
  /\ past \in Transfers
  /\ iso \in BigSyncs
  /\ stream \in BOOLEAN
  /\ overrun \in BOOLEAN

\* The controller works on one create sync command at most: it would refuse
\* another.  Retries, queued requests, cancellations and commands of the host
\* meanwhile must not get around broadcast_sink_periodic_sync_in_progress.
OneSyncAtATime == Len(creating) <= 1

\* The sources whose periodic sync is asked for or waits its turn
Requested == {creating[i] : i \in DOMAIN creating} \cup {queue[i] : i \in DOMAIN queue}

\* Nobody waits in vain: a queued request has a command before it whose event
\* sends it, and a BIG that waits for its sync has its request there.
WaitingIsServed ==
  /\ queue # <<>> => creating # <<>>
  /\ big.pending => big.src \in Requested

\* A BIG never takes the BASE of another source's advertising for its own, by a
\* handle kept too long or an event of a sync nobody waits for any more.
BaseNeverOfAnother == big.base \in {NoSource, big.src}

\* It does not as long as every periodic sync that was established has found the
\* BIG that waits for it (SyncFindsItsBig).
BaseOfItsSource == ~overrun => BaseNeverOfAnother

\* The sync state of the BIG says PA synchronized only while the controller is
\* synchronized to its source on its handle: lehs_bis_terminate_sync and
\* rpc_terminate_pa_sync decide by it what they end.
PaStateIsTrue == big.state = "pa" => big.handle \in Handles /\ pasync[big.handle] = big.src

\* The sync state of the BIG says BIG synchronized only while the controller is,
\* to the BIG of its source, and is not asked to end it without the stream; with
\* the BASE of another source it may be that one's BIG.
BigStateIsTrue ==
  ~overrun /\ big.state = "big" =>
    /\ iso.st \in {"synced", "terminating"}
    /\ iso.src = big.src
    /\ iso.st = "synced" => stream

\* The client knows the receive state it reads as it is, whoever changed it; only
\* SyncInfo Request is told when the parameters for the transfer are set.
ToldReceiveState == bass.used /\ bass.pa # "info" => told = View(bass)

\* The receive state says synchronized to the PA, or to a BIS, only from a moment
\* on at which the controller is synchronized to that of its source; a BIS, as long
\* as every periodic sync has found its BIG.
ReportedWhenSynced ==
  [][/\ bass.pa # "sync" /\ bass'.pa = "sync" => \E h \in Handles : pasync'[h] = bass'.src
     /\ ~overrun /\ bass.bis = "none" /\ bass'.bis # "none" =>
          iso'.st = "synced" /\ iso'.src = bass'.src]_vars

\* A periodic sync that is established finds the BIG that waits for it: nothing
\* is written outside the control blocks of the LEHS_MAX_BIG BIGs.
SyncFindsItsBig == ~overrun
=============================================================================
