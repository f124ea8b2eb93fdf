----------------------------- MODULE GattClient -----------------------------
(***************************************************************************)
(* The headset as a GATT client: on an encrypted link it discovers the      *)
(* media, telephony and role services of its peer one after the other,      *)
(* enables notifications, reads the first values and tells its host that it *)
(* is ready (lehs_btmgr.c, lehs_gatt.c, gatt_interface.c); from then on the *)
(* host shows what the peer notifies (lehs_mcs.c, lehs_ccp.c).  A link on   *)
(* which this was done before starts from the stored handles.               *)
(*                                                                         *)
(* The bearer delivers in order, so that an answer or notification is sent  *)
(* and handled in one step.  The stack may refuse to send anything.         *)
(***************************************************************************)
EXTENDS Integers, Sequences, FiniteSets

CONSTANTS
  Conns,       \* control blocks, 1..LEHS_MAX_CONNECTIONS; the peer of each is fixed
  MediaChars,  \* characteristics of the peer's generic media control service
  CallChars,   \* and of its generic telephone bearer service
  EnableList,  \* sequence of the characteristics lehs_enable_app_notifications lists
  ReadList,    \* sequence of those lehs_read_remote_characteristics lists
  ShownChars,  \* those whose values are told to the host
  NameChars,   \* those with a name, whose values are lengths
  NameLength,  \* MAX_MEDIA_PLAYER_NAME_LEN
  Values,      \* values of a characteristic
  Databases,   \* databases of the peers: [services, value, cccd], the services and the
               \*   characteristics that have each handle
  OpsSize,     \* number of values of ops_in_progress, 2^8
  MaxHindered, \* bound: failed sends and requests, and repeated starts, of one link
  MaxSent,     \* bound: no start is repeated when more requests than this are unanswered
  NoValue      \* what the host shows before it is told a value

Chars == MediaChars \cup CallChars

ASSUME GattClientConstants ==
  /\ Conns \subseteq Nat /\ Conns # {}
  /\ EnableList \in Seq(Chars) /\ ReadList \in Seq(Chars)
  /\ NameChars \subseteq MediaChars /\ ShownChars \subseteq Chars /\ NameLength \in Nat
  /\ \A d \in Databases : d.cccd \subseteq d.value /\ d.value \subseteq Chars
  /\ OpsSize \in Nat \ {0, 1} /\ {MaxSent, MaxHindered} \subseteq Nat /\ NoValue \notin Values

\* ops_in_progress can count the reads of the list
ASSUME FewReads == Len(ReadList) < OpsSize

NoHandles == [value |-> {}, cccd |-> {}]

\* The services in the order they are discovered; of the last no handle is used here
Services == {"gmcs", "gtbs", "tmap"}

\* The characteristics the discovery looks for: mcs_characteristic_info, tbs_characteristic_info
CharsOf(service) ==
  CASE service = "gmcs" -> MediaChars [] service = "gtbs" -> CallChars [] OTHER -> {}

\* A characteristic belongs to one service, and a peer has it with its service
ASSUME OwnCharacteristics ==
  /\ MediaChars \cap CallChars = {}
  /\ \A d \in Databases, service \in Services :
       service \notin d.services => d.value \cap CharsOf(service) = {}

\* service_discovery_state_t: the request that is under way
DiscoveryStates == {"SERVICE", "CHARACTERISTICS", "DESCRIPTORS", "COMPLETE"}

\* range is the service whose handles the context has
NoCtx == [service |-> "none", state |-> "COMPLETE", range |-> "none", found |-> NoHandles]
NoOp == [list |-> "none", index |-> 0, ops |-> 0]

\* What the stack can refuse to send in a handler
Sends == {"discover", "write", "read"}

VARIABLES
  db,      \* [Conns -> Databases]: the database of the peer
  peer,    \* [Conns -> [value, subscribed]]: its values of ShownChars, the notifications enabled
  clcb,    \* [Conns -> [in_use, encrypted, db_hash, peer_profiles, p_discovery_ctx, p_op,
           \*   enabled_notifications, read_characteristics, sent, congested, hindered, told]]
  nvram,   \* [Conns -> [db_hash, peer_profiles, hindered]]: what is stored for the peer
  command, \* SUBSET Conns: a write of the host's is under way
  timer,   \* SUBSET Conns: discovery_cmpl_timer runs
  shown    \* [Conns -> [ShownChars -> Values or NoValue]]: what the host shows

gattVars == <<db, peer, clcb, nvram, command, timer, shown>>

\* A control block that is not in use.  Not of the code are sent, the requests that have no
\* answer yet; congested, a send was refused and no congestion event has come; hindered,
\* how often a send was refused, a request answered with an error or a start repeated on
\* this link (in nvram, whether on the one whose results are stored); and told, what the
\* host was told.
FreeBlock ==
  [in_use |-> FALSE, encrypted |-> FALSE, db_hash |-> FALSE, peer_profiles |-> NoHandles,
   p_discovery_ctx |-> NoCtx, p_op |-> NoOp,
   enabled_notifications |-> FALSE, read_characteristics |-> FALSE,
   sent |-> <<>>, congested |-> FALSE, hindered |-> 0, told |-> "DISCONNECTED"]

-----------------------------------------------------------------------------
(* Operation lists: operators on the control block k; ok are the sends accepted.  A  *)
(* send that is refused waits for the congestion event, one that is not for its answer. *)

Send(k, kind, what) == [k EXCEPT !.sent = Append(@, [kind |-> kind, of |-> what])]

Refused(k) == [k EXCEPT !.congested = TRUE, !.hindered = @ + 1]

Finished(op, list) == op.ops = 0 /\ op.index = Len(list)

\* Place of the next characteristic of the list with a handle, behind its end when none has
NextAt(list, index, handles) ==
  LET left == {i \in (index + 1)..Len(list) : list[i] \in handles}
  IN IF left = {} THEN Len(list) + 1 ELSE CHOOSE i \in left : \A j \in left : i <= j

\* on_read_remote_cmpl: the host is told that the client is ready, whatever was read
ReadDone(k, success) ==
  [k EXCEPT !.p_op = NoOp, !.read_characteristics = TRUE, !.told = "READY",
            !.db_hash = @ \/ success]

\* Mutant: the count is a signed one
ReadSigned(k, ok) ==
  LET i == NextAt(ReadList, k.p_op.index, k.peer_profiles.value)
      ran == IF i > Len(ReadList) THEN [k EXCEPT !.p_op.index = Len(ReadList)]
             ELSE IF "read" \in ok
             THEN Send([k EXCEPT !.p_op.index = i, !.p_op.ops = @ + 1], "read", ReadList[i])
             ELSE Refused([k EXCEPT !.p_op.index = i - 1, !.p_op.ops = @ - 1])
  IN IF Finished(ran.p_op, ReadList) THEN ReadDone(ran, TRUE) ELSE ran

\* gatt_intf_internal_read_char_list: the count is taken down for a read that was
\* never counted when it is refused
RunRead(k, ok) ==
  LET i == NextAt(ReadList, k.p_op.index, k.peer_profiles.value)
      ran == IF i > Len(ReadList) THEN [k EXCEPT !.p_op.index = Len(ReadList)]
             ELSE IF "read" \in ok
             THEN Send([k EXCEPT !.p_op.index = i, !.p_op.ops = (@ + 1) % OpsSize], "read", ReadList[i])
             ELSE Refused([k EXCEPT !.p_op.index = i - 1, !.p_op.ops = (@ - 1) % OpsSize])
  IN IF Finished(ran.p_op, ReadList) THEN ReadDone(ran, TRUE) ELSE ran

\* gatt_intf_alloc_operation_list
NewOp(list) == [list |-> list, index |-> 0, ops |-> 0]

\* lehs_read_remote_characteristics
StartRead(k, ok) == RunRead([k EXCEPT !.p_op = NewOp("read")], ok)

\* on_enable_notification_cmpl
EnableDone(k, ok) == StartRead([k EXCEPT !.p_op = NoOp, !.enabled_notifications = TRUE], ok)

\* gatt_intf_internal_enable_notification: a write is gatt_intf_enable_notifications
RunEnable(k, ok) ==
  LET i == NextAt(EnableList, k.p_op.index, k.peer_profiles.cccd)
      ran == IF i > Len(EnableList) THEN [k EXCEPT !.p_op.index = Len(EnableList)]
             ELSE IF "write" \in ok
             THEN Send([k EXCEPT !.p_op.index = i, !.p_op.ops = (@ + 1) % OpsSize], "write", EnableList[i])
             ELSE Refused([k EXCEPT !.p_op.index = i - 1])
  IN IF Finished(ran.p_op, EnableList) THEN EnableDone(ran, ok) ELSE ran

\* lehs_enable_app_notifications
StartEnable(k, ok) == RunEnable([k EXCEPT !.p_op = NewOp("enable")], ok)

\* gatt_intf_execute_handle_operations
Execute(k, ok) == IF k.p_op.list = "read" THEN RunRead(k, ok) ELSE RunEnable(k, ok)

\* Mutant: an answer is not counted
AnswerUncounted(k, list, success, ok) ==
  IF k.p_op.list = list /\ k.p_op.index # Len(IF list = "read" THEN ReadList ELSE EnableList)
  THEN Execute(k, ok) ELSE k

\* gatt_intf_handle_gatt_operation_complete: any read counts for a list of reads, and any
\* write, one of the host's too, for the list that enables notifications
OperationComplete(k, list, success, ok) ==
  LET counted == [k EXCEPT !.p_op.ops = (@ - 1) % OpsSize]
      all == IF list = "read" THEN ReadList ELSE EnableList
  IN IF k.p_op.list # list THEN k
     ELSE IF Finished(counted.p_op, all)
     THEN IF list = "read" THEN ReadDone(counted, success) ELSE EnableDone(counted, ok)
     ELSE IF counted.p_op.index # Len(all) THEN Execute(counted, ok) ELSE counted

-----------------------------------------------------------------------------
(* Discovery of one service after the other *)

\* gatt_intf_start_service_discovery: a request that is refused is not missed
StartService(k, service, ok) ==
  LET started == [k EXCEPT !.p_discovery_ctx = [NoCtx EXCEPT !.service = service, !.state = "SERVICE"]]
  IN IF "discover" \in ok THEN Send(started, "discover", [state |-> "SERVICE", range |-> service])
     ELSE [started EXCEPT !.hindered = @ + 1]

\* ga_lib_gmcs_discover_service, ga_lib_gtbs_discover_service, ga_lib_tmap_discover_service
DiscoverMedia(k, ok) == StartService(k, "gmcs", ok)
DiscoverCalls(k, ok) == StartService(k, "gtbs", ok)
DiscoverRoles(k, ok) == StartService(k, "tmap", ok)

\* Mutant: the handles of every service are replaced by those of the last
ReplaceAll(k, ctx) == [k EXCEPT !.peer_profiles = ctx.found, !.p_discovery_ctx = NoCtx]

\* lehs_cache_discovery_results_and_cleanup
Cache(k, ctx) ==
  [k EXCEPT
    !.peer_profiles = [value |-> (@.value \ CharsOf(ctx.service)) \cup ctx.found.value,
                       cccd |-> (@.cccd \ CharsOf(ctx.service)) \cup ctx.found.cccd],
    !.p_discovery_ctx = NoCtx]

\* on_mcs_discovery_complete, on_tbs_discovery_complete, on_tmap_discovery_complete
ServiceDiscovered(k, ok) ==
  LET cached == Cache(k, k.p_discovery_ctx)
  IN CASE k.p_discovery_ctx.service = "gmcs" -> DiscoverCalls(cached, ok)
       [] k.p_discovery_ctx.service = "gtbs" -> DiscoverRoles(cached, ok)
       [] OTHER -> StartEnable([cached EXCEPT !.told = "INITING"], ok)

\* gatt_intf_on_service_discovery_result: what the peer answers to a request goes to the
\* context there is, by the type of the request
Results(ctx, request, d) ==
  LET found == CharsOf(request.range) \cap CharsOf(ctx.service)
  IN CASE request.state = "SERVICE" /\ request.range \in d.services -> [ctx EXCEPT !.range = request.range]
       [] request.state = "CHARACTERISTICS" -> [ctx EXCEPT !.found.value = @ \cup (d.value \cap found)]
       [] request.state = "DESCRIPTORS" ->
            [ctx EXCEPT !.found.cccd = @ \cup (d.cccd \cap found \cap ctx.found.value)]
       [] OTHER -> ctx

\* gatt_intf_internal_send_next_service_discovery_cmd: a request that is refused, as the
\* stack refuses one for the empty range of a service the peer has not, ends the discovery
\* of the service with success and with what was found by then
NextDiscovery(k, ok) ==
  LET ctx == k.p_discovery_ctx
      next == CASE ctx.state = "SERVICE" -> "CHARACTERISTICS"
                [] ctx.state = "CHARACTERISTICS" -> "DESCRIPTORS"
                [] OTHER -> "COMPLETE"
  IN IF next = "COMPLETE" \/ ctx.range = "none" THEN ServiceDiscovered(k, ok)
     ELSE IF "discover" \in ok
     THEN Send([k EXCEPT !.p_discovery_ctx.state = next], "discover", [state |-> next, range |-> ctx.range])
     ELSE [ServiceDiscovered(k, ok) EXCEPT !.hindered = @ + 1]

-----------------------------------------------------------------------------
(* Events of the stack and calls of the host for the control block b *)

\* The kinds of sends the stack accepts in a handler
Accepted == {Sends \ refused : refused \in SUBSET Sends}

Bounded == \A b \in Conns : clcb'[b].hindered <= MaxHindered

\* lehs_gmcs_app_handle_read_complete: the host is told the value v that was read or notified;
\* the code takes NameLength for the least a name can have
ShowsMedia(b, c, v) ==
  IF c \in NameChars => v >= NameLength
  THEN [shown EXCEPT ![b][c] = v] ELSE shown

\* lehs_gtbs_app_handle_read_complete
ShowsCall(b, c, v) == [shown EXCEPT ![b][c] = v]

\* What the host shows of the peer b then
ShowsNow(b, c, v) == IF c \in MediaChars THEN ShowsMedia(b, c, v) ELSE ShowsCall(b, c, v)

\* lehs_gatt_handle_connection: the block is filled with what is stored
Connect(b) ==
  /\ ~clcb[b].in_use
  /\ clcb' = [clcb EXCEPT ![b] = [FreeBlock EXCEPT
                !.in_use = TRUE, !.db_hash = nvram[b].db_hash,
                !.peer_profiles = nvram[b].peer_profiles, !.told = "CONNECTED"]]
  /\ UNCHANGED <<db, peer, nvram, command, timer, shown>>

\* lehs_btm_handle_encryption_sts: a discovery or a list that is under way is forgotten
Encrypted(b) ==
  /\ clcb[b].in_use /\ Len(clcb[b].sent) <= MaxSent
  /\ \E ok \in Accepted :
       LET underWay == clcb[b].p_discovery_ctx # NoCtx \/ clcb[b].p_op # NoOp \/ clcb[b].sent # <<>>
           k == [clcb[b] EXCEPT !.encrypted = TRUE, !.hindered = IF underWay THEN @ + 1 ELSE @]
       IN clcb' = [clcb EXCEPT ![b] = IF k.db_hash THEN StartRead(k, ok) ELSE DiscoverMedia(k, ok)]
  /\ Bounded
  /\ UNCHANGED <<db, peer, nvram, command, timer, shown>>

\* GATT_DISCOVERY_RESULT_EVT and GATT_DISCOVERY_CPLT_EVT: an error leaves the context and
\* starts the timer that disconnects
AnswerDiscover(b, success) ==
  /\ clcb[b].sent # <<>> /\ Head(clcb[b].sent).kind = "discover"
  /\ LET request == Head(clcb[b].sent).of
         k == [clcb[b] EXCEPT !.sent = Tail(@), !.hindered = IF success THEN @ ELSE @ + 1]
         known == [k EXCEPT !.p_discovery_ctx = Results(@, request, db[b])]
         ignored == k.p_discovery_ctx = NoCtx
     IN /\ \E ok \in Accepted :
             clcb' = [clcb EXCEPT ![b] =
                        IF ignored \/ ~success THEN k ELSE NextDiscovery(known, ok)]
        /\ timer' = IF ignored \/ success THEN timer ELSE timer \cup {b}
  /\ Bounded
  /\ UNCHANGED <<db, peer, nvram, command, shown>>

\* GATT_OPERATION_CPLT_EVT for a write that enables notifications
AnswerWrite(b, success) ==
  /\ clcb[b].sent # <<>> /\ Head(clcb[b].sent).kind = "write"
  /\ peer' = IF success THEN [peer EXCEPT ![b].subscribed = @ \cup {Head(clcb[b].sent).of}] ELSE peer
  /\ LET k == [clcb[b] EXCEPT !.sent = Tail(@), !.hindered = IF success THEN @ ELSE @ + 1]
     IN \E ok \in Accepted :
          clcb' = [clcb EXCEPT ![b] = OperationComplete(k, "enable", success, ok)]
  /\ Bounded
  /\ UNCHANGED <<db, nvram, command, timer, shown>>

\* GATT_OPERATION_CPLT_EVT for a read
AnswerRead(b, success) ==
  /\ clcb[b].sent # <<>> /\ Head(clcb[b].sent).kind = "read"
  /\ LET c == Head(clcb[b].sent).of
         k == [clcb[b] EXCEPT !.sent = Tail(@), !.hindered = IF success THEN @ ELSE @ + 1]
     IN /\ shown' = IF success /\ c \in ShownChars THEN ShowsNow(b, c, peer[b].value[c]) ELSE shown
        /\ \E ok \in Accepted :
             clcb' = [clcb EXCEPT ![b] = OperationComplete(k, "read", success, ok)]
  /\ Bounded
  /\ UNCHANGED <<db, peer, nvram, command, timer>>

\* ga_lib_mcs_write_control_media and its like: a write without a response
HostWrites(b) ==
  /\ clcb[b].in_use /\ b \notin command
  /\ command' = command \cup {b}
  /\ UNCHANGED <<db, peer, clcb, nvram, timer, shown>>

\* lehs_mcs_play_pause
MediaCommand(b) == HostWrites(b)

\* lehs_rpc_call_control_point_action
CallCommand(b) == HostWrites(b)

\* GATT_OPERATION_CPLT_EVT for it
CommandDone(b) ==
  /\ b \in command
  /\ command' = command \ {b}
  /\ \E ok \in Accepted :
       clcb' = [clcb EXCEPT ![b] = IF clcb[b].in_use THEN OperationComplete(@, "enable", TRUE, ok) ELSE @]
  /\ Bounded
  /\ UNCHANGED <<db, peer, nvram, timer, shown>>

\* GATT_CONGESTION_EVT of the link b, which begins to be congested or no longer is: the
\* list of the first block that has one goes on, whatever the link
Congestion(b, congested) ==
  /\ clcb[b].congested
  /\ LET busy == {a \in Conns : clcb[a].in_use /\ clcb[a].p_op # NoOp}
         first == CHOOSE a \in busy : \A other \in busy : a <= other
         heard == [clcb EXCEPT ![b].congested = congested]
     IN IF busy = {} THEN clcb' = heard
        ELSE \E ok \in Accepted : clcb' = [heard EXCEPT ![first] = Execute(@, ok)]
  /\ Bounded
  /\ UNCHANGED <<db, peer, nvram, command, timer, shown>>

\* app_handle_notification_evt: a value of the peer changes and, when enabled, it is notified.
\* Names, which are not enabled, keep their value.
PeerChanges(b, c) ==
  /\ \E v \in Values \ {peer[b].value[c]} :
       /\ peer' = [peer EXCEPT ![b].value[c] = v]
       /\ shown' = IF /\ clcb[b].encrypted /\ c \in peer[b].subscribed
                      /\ c \in clcb[b].peer_profiles.value
                   THEN ShowsNow(b, c, v) ELSE shown
  /\ UNCHANGED <<db, clcb, nvram, command, timer>>

\* The link of b ends: lehs_gatt_free_cb
Freed(b) ==
  /\ clcb' = [clcb EXCEPT ![b] = FreeBlock]
  /\ command' = command \ {b}
  /\ shown' = [shown EXCEPT ![b] = [c \in ShownChars |-> NoValue]]

\* lehs_gatt_handle_disconnection: what was found is stored
Disconnect(b) ==
  /\ clcb[b].in_use
  /\ nvram' = [nvram EXCEPT ![b] = [db_hash |-> clcb[b].db_hash,
                                    peer_profiles |-> clcb[b].peer_profiles,
                                    hindered |-> \/ clcb[b].hindered > 0
                                                 \/ nvram[b].hindered /\ ~clcb[b].enabled_notifications]]
  /\ Freed(b)
  /\ UNCHANGED <<db, peer, timer>>

\* gatt_interface_discovery_timout_cback: it reads the connection through a pointer into an
\* event that is gone, so that the link of any block, or of none, is disconnected
TimerFires(b) ==
  /\ b \in timer
  /\ timer' = timer \ {b}
  /\ \/ /\ \E victim \in Conns : clcb[victim].in_use /\
             /\ nvram' = [nvram EXCEPT ![victim] = [db_hash |-> clcb[victim].db_hash,
                            peer_profiles |-> clcb[victim].peer_profiles, hindered |-> TRUE]]
             /\ Freed(victim)
     \/ UNCHANGED <<clcb, nvram, command, shown>>
  /\ UNCHANGED <<db, peer>>

\* The headset restarts: nothing is stored
PowerOff ==
  /\ clcb' = [b \in Conns |-> FreeBlock]
  /\ command' = {} /\ timer' = {}
  /\ shown' = [b \in Conns |-> [c \in ShownChars |-> NoValue]]
  /\ UNCHANGED <<db, peer, nvram>>

-----------------------------------------------------------------------------
GattInit ==
  /\ db \in [Conns -> Databases]
  /\ peer \in [Conns -> [value: [ShownChars -> Values], subscribed: {{}}]]
  /\ clcb = [b \in Conns |-> FreeBlock]
  /\ nvram = [b \in Conns |-> [db_hash |-> FALSE, peer_profiles |-> NoHandles, hindered |-> FALSE]]
  /\ command = {} /\ timer = {}
  /\ shown = [b \in Conns |-> [c \in ShownChars |-> NoValue]]

Reply(b, success) == AnswerDiscover(b, success) \/ AnswerWrite(b, success) \/ AnswerRead(b, success)

Answer(b) == Reply(b, TRUE) \/ Reply(b, FALSE)

GattNext ==
  \/ \E b \in Conns :
       \/ Connect(b) \/ Encrypted(b) \/ Disconnect(b) \/ TimerFires(b)
       \/ Answer(b) \/ MediaCommand(b) \/ CallCommand(b) \/ CommandDone(b)
       \/ \E congested \in BOOLEAN : Congestion(b, congested)
       \/ \E c \in ShownChars \ NameChars : PeerChanges(b, c)
  \/ PowerOff

GattSpec == GattInit /\ [][GattNext]_gattVars

\* A request is answered, with an error when the bearer times out.  Nothing is assumed of
\* the host, of the peer's own steps, nor of what the stack accepts.
GattFairSpec == GattSpec /\ \A b \in Conns : WF_gattVars(Answer(b))

-----------------------------------------------------------------------------
(* Properties *)

\* Type invariant of the GATT client: what a control block, the stored data and the host
\* can hold; ops_in_progress stays in its byte.
TypeOK ==
  /\ command \subseteq Conns /\ timer \subseteq Conns
  /\ db \in [Conns -> Databases]
  /\ shown \in [Conns -> [ShownChars -> Values \cup {NoValue}]]
  /\ \A b \in Conns :
       /\ peer[b].value \in [ShownChars -> Values] /\ peer[b].subscribed \subseteq Chars
       /\ {nvram[b].db_hash, nvram[b].hindered} \subseteq BOOLEAN
       /\ {clcb[b].peer_profiles.value, nvram[b].peer_profiles.value} \subseteq SUBSET db[b].value
       /\ {clcb[b].peer_profiles.cccd, nvram[b].peer_profiles.cccd} \subseteq SUBSET db[b].cccd
       /\ clcb[b].p_discovery_ctx.service \in Services \cup {"none"}
       /\ clcb[b].p_discovery_ctx.state \in DiscoveryStates
       /\ clcb[b].p_op \in [list: {"none", "enable", "read"}, index: 0..(Len(EnableList) + Len(ReadList)),
                            ops: 0..(OpsSize - 1)]
       /\ {clcb[b].in_use, clcb[b].encrypted, clcb[b].db_hash, clcb[b].enabled_notifications,
           clcb[b].read_characteristics, clcb[b].congested} \subseteq BOOLEAN
       /\ clcb[b].hindered \in 0..MaxHindered

Listed(list) == {list[i] : i \in 1..Len(list)}

\* When the host was told that the client is ready, it shows a value of each
\* characteristic of the peer that is read at the start, and the value the peer has now
\* of each whose notifications were enabled: on a link, and on the one whose discovery
\* was stored, on which no send was refused, no request failed and no start was repeated.
\* A peer whose names are shorter than NameLength is never shown with them.
\* (lehs_enable_app_notifications, lehs_read_remote_characteristics, on_read_remote_cmpl)
ReadyShowsPeer ==
  \A b \in Conns :
    /\ clcb[b].told = "READY" /\ clcb[b].hindered = 0
    /\ clcb[b].enabled_notifications \/ ~nvram[b].hindered
    => \A c \in (Listed(ReadList) \cap ShownChars \cap db[b].value) \ NameChars :
         /\ shown[b][c] # NoValue
         /\ c \in Listed(EnableList) \cap db[b].cccd => shown[b][c] = peer[b].value[c]

\* A client on an encrypted link gets ready, whatever services the peer has and however
\* the host's own writes come between the list's (their answers are counted too), unless
\* a send is refused, a request fails, the start is repeated or the link ends.
\* (lehs_btm_handle_encryption_sts to on_read_remote_cmpl)
StartedBecomesReady ==
  \A b \in Conns :
    clcb[b].encrypted ~> \/ clcb[b].told = "READY"
                         \/ clcb[b].hindered > 0 \/ ~clcb[b].in_use

\* A list of reads that is not finished waits for an answer, or for the congestion event
\* after which "continue after congestion" (lehs_gatt.c:2076) takes it up.
ReadListWaits ==
  \A b \in Conns : clcb[b].p_op.list = "read" => clcb[b].sent # <<>> \/ clcb[b].congested
=============================================================================
