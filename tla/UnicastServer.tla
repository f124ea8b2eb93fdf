--------------------------- MODULE UnicastServer ---------------------------
(***************************************************************************)
(* The unicast server of the headset: the ASEs each connected client sees, *)
(* the control point writes that drive them (lehs_ascs.c), the CIS and     *)
(* data path events of the isochronous stack (lehs_cis.c), the one audio   *)
(* stream of the codec (lehs_offload.c) and the connection control blocks  *)
(* that hold it all (lehs_gatt.c).                                         *)
(*                                                                         *)
(* Every callback of the stack runs to completion, so each handler is one  *)
(* step.  The central, its controller and the isochronous stack are the    *)
(* environment: they decide when a handler runs and with what arguments.   *)
(***************************************************************************)
EXTENDS Naturals, Sequences, AseTable

CONSTANTS
  Clients,        \* centrals that may connect
  MaxConnections, \* LEHS_MAX_CONNECTIONS: size of the array of control blocks
  SinkAses,       \* ids of the sink ASEs, the same for every client
  SourceAses,     \* ids of the source ASEs
  CisIds,         \* <<CIG id, CIS id>> pairs a central may choose
  Handles,        \* CIS connection handles of the local controller
  NoClient, NoCis, NoHandle,
  HandlePool,     \* [Clients -> [CisIds -> SUBSET Handles]]: handles the controller may give a CIS
  QosPlans,       \* [Clients -> SUBSET [Ases -> CisIds]]: CISes a client may map its ASEs to
  FaultMaps,      \* which parameters of a write the server finds wrong, per ASE
  WriteLists,     \* lists of ASE ids a client may name in one write
  ClientOps,      \* [Ases -> SUBSET Opcodes]: operations clients write for an ASE
  CisOnlyForAse,  \* TRUE: a client creates a CIS only while an ASE of its waits for it
  CisDropsFirst   \* TRUE: the CISes of a link are reported lost before the link is

Slots == 1..MaxConnections

Ases == SinkAses \cup SourceAses

\* Faults of the parameters of one ASE: "reject" ends the validation with an
\* error, "skip" (a QoS value out of range) only leaves that ASE out.
Faults == {"none", "reject", "skip"}

\* What lehs_isoc_dhm_setup_cis_stream comes to: refused before it opens the
\* audio stream, failed when it asks for the ISO data path, or accepted.
SetupResults == {"refused", "failed", "ok"}

AudioStates == {"closed", "open", "running"}

ASSUME ConstantsAssumption ==
  /\ MaxConnections \in Nat \ {0}
  /\ SinkAses \subseteq Nat
  /\ SourceAses \subseteq Nat
  /\ SinkAses \cap SourceAses = {}
  /\ NoClient \notin Clients
  /\ NoCis \notin CisIds
  /\ NoHandle \notin Handles
  /\ HandlePool \in [Clients -> [CisIds -> SUBSET Handles]]
  /\ QosPlans \in [Clients -> SUBSET [Ases -> CisIds]]
  /\ FaultMaps \subseteq [Ases -> Faults]
  /\ WriteLists \subseteq Seq(Nat)
  /\ ClientOps \in [Ases -> SUBSET Opcodes]
  /\ CisOnlyForAse \in BOOLEAN
  /\ CisDropsFirst \in BOOLEAN

VARIABLES
  clcb,   \* [Slots -> Clients]: the client a control block is in use for
  ase,    \* [Slots -> [Ases -> AseData]]: local_ase_data
  told,   \* [Slots -> [Ases -> AseStates]]: the last state notified to that client
  cis,    \* [Handles -> CisData]: the CISes the isochronous stack knows
  setups, \* ISO data paths requested and not yet reported set up
  audio,  \* the audio manager stream that the global stream_id names
  missed  \* [Slots -> SUBSET Ases], history: ASEs a write of this connection was
          \* applied to without counting them

vars == <<clcb, ase, told, cis, setups, audio, missed>>

-----------------------------------------------------------------------------
(* Data *)

\* lehs_ase_data_t: ASE state, CIG and CIS id, CIS connection handle and the
\* data_path_established flag
AseData == [state: AseStates, id: CisIds \cup {NoCis}, handle: Handles \cup {NoHandle},
            path: BOOLEAN]

BlankAse == [state |-> "idle", id |-> NoCis, handle |-> NoHandle, path |-> FALSE]

\* A CIS of the stack.  out: the controller has, once the commands given so far
\* are carried out, an ISO data path from this CIS to the headset's codec.
CisData == [client: Clients \cup {NoClient}, id: CisIds \cup {NoCis}, up: BOOLEAN, out: BOOLEAN]

FreeCis == [client |-> NoClient, id |-> NoCis, up |-> FALSE, out |-> FALSE]

\* The application context and handle passed with a data path request
Setups == [slot: Slots, ase: Ases, handle: Handles]

-----------------------------------------------------------------------------
(* Lookups *)

\* wiced_ble_isoc_is_cis_connected_with_conn_hdl
IsCisConnected(h) == h \in Handles /\ cis[h].up

UpHandles == {h \in Handles : IsCisConnected(h)}

CisOf(c, id) == {h \in Handles : cis[h].client = c /\ cis[h].id = id}

\* wiced_ble_isoc_get_cis_conn_handle
CisHandle(c, id) == IF CisOf(c, id) = {} THEN NoHandle ELSE CHOOSE h \in CisOf(c, id) : TRUE

\* The output data paths after some are requested and then some removed
WithOutput(requested, removed) ==
  [h \in Handles |-> [cis[h] EXCEPT !.out = h \notin removed /\ (h \in requested \/ @)]]

\* lehs_gatt_get_clcb, lehs_gatt_get_clcb_by_conn_id
Clcb(c) == {s \in Slots : clcb[s] = c}

Connected(c) == Clcb(c) # {}

\* The order in which the lookups walk the control blocks and their ASEs
NotAfter(p, q) == p[1] < q[1] \/ (p[1] = q[1] /\ p[2] <= q[2])

FirstOf(places) == {p \in places : \A q \in places : NotAfter(p, q)}

\* The ASE an event about a CIS is taken to be for: the first one of that
\* direction, of any client, that is QoS configured with these ids.
lehs_find_ase_with_cis_id(id, dir) ==
  FirstOf({p \in Slots \X dir : /\ ase[p[1]][p[2]].state \in AtLeastQos
                                /\ ase[p[1]][p[2]].id = id})

\* The connection a data path event is taken to be for.  The handle passed in
\* is shadowed by a local of the loop, so any ASE that holds the handle the
\* stack knows for its own ids is a match.
lehs_get_ase_app_data_ptr_by_cis_conn_hdl ==
  FirstOf({p \in Slots \X Ases :
             /\ ase[p[1]][p[2]].state \in AtLeastQos
             /\ ase[p[1]][p[2]].handle = CisHandle(clcb[p[1]], ase[p[1]][p[2]].id)})

-----------------------------------------------------------------------------
(* Control point writes: lehs_ascs_handle_write_req_evt *)

\* A write names a list of ids; the loop of lehs_ascs_check_write_req ends at
\* the first id no ASE has, without an error.
Reached(ids, i) == \A j \in 1..i : ids[j] \in Ases

Named(ids) == {ids[i] : i \in {j \in DOMAIN ids : Reached(ids, j)}}

\* The number of ASEs a write gives (num_ases) is not compared with the ASEs that
\* follow, but what comes after the second pass is done for the first n of them only.
\* A number of 0 or above LEHS_ASE_INDEX_MAX is refused and changes nothing; one above
\* the length of the list does what the length does.
Counts(ids) == DOMAIN ids

Counted(ids, n) == {ids[i] : i \in {j \in DOMAIN ids : Reached(ids, j) /\ j <= n}}

\* Mutant: the transition table is not consulted
RefusesParameters(s, op, fault, a) == op \in Parameterised /\ fault[a] = "reject"

\* The write is refused for this ASE: invalid transition, or bad parameters
Refuses(s, op, fault, a) ==
  \/ ase[s][a].state \notin AcceptedIn(op)
  \/ op \in Parameterised /\ fault[a] = "reject"

Rejected(s, op, ids, fault) == \E a \in Named(ids) : Refuses(s, op, fault, a)

\* The ASEs the validation has gone past when it stops
Validated(s, op, ids, fault) ==
  {ids[i] : i \in {j \in DOMAIN ids : /\ Reached(ids, j)
                                      /\ \A k \in 1..j : ~Refuses(s, op, fault, ids[k])}}

\* Mutant: no look up of a CIS that is there already
WithQosIds(s, r, id) == [r EXCEPT !.id = id]

\* CONFIG_QOS stores the parameters and looks up the CIS already while validating
WithQos(s, r, id) == [r EXCEPT !.id = id, !.handle = CisHandle(clcb[s], id)]

\* Mutants: only disabling is cut short; the opcode RELEASED is taken for a state
SettledDisabling(r) ==
  IF ~IsCisConnected(r.handle) /\ r.state = "disabling" THEN [r EXCEPT !.state = "qos"] ELSE r

SettledReleased(r) ==
  IF ~IsCisConnected(r.handle) /\ r.state = "releasing" THEN [r EXCEPT !.state = "released"] ELSE r

\* After the ASEs are notified, those without a CIS do not wait for it to drop
Settled(r) ==
  IF IsCisConnected(r.handle) THEN r
  ELSE CASE r.state = "releasing" -> [r EXCEPT !.state = "idle"]
         [] r.state = "disabling" -> [r EXCEPT !.state = "qos"]
         [] OTHER -> r

\* One ASE of an accepted write, after both passes
Applied(s, op, r, a, fault, plan) ==
  IF op = "config_qos" /\ fault[a] = "skip" THEN r
  ELSE LET q == IF op = "config_qos" THEN WithQos(s, r, plan[a]) ELSE r
       IN  [q EXCEPT !.state = NextState(a \in SinkAses, r.state, op)]

\* Mutant: the ASEs are notified before the operation is applied
NotifyBefore(s, counted) ==
  told' = [told EXCEPT ![s] = [a \in Ases |-> IF a \in counted THEN ase[s][a].state ELSE told[s][a]]]

\* Every ASE the write reached and counted is notified
NotifyCounted(s, counted) ==
  told' = [told EXCEPT ![s] = [a \in Ases |-> IF a \in counted THEN ase'[s][a].state ELSE told[s][a]]]

\* The others are not, and not settled either
MissUncounted(s, ids, n) ==
  missed' = [missed EXCEPT ![s] = @ \cup (Named(ids) \ Counted(ids, n))]

\* The parameters a write of op carries
FaultsOf(op) == IF op \in Parameterised THEN FaultMaps ELSE {[a \in Ases |-> "none"]}

PlansOf(c, op) == IF op = "config_qos" THEN QosPlans[c] ELSE {[a \in Ases |-> NoCis]}

\* A client writes op for these ids
Writes(s, op, ids) ==
  /\ clcb[s] \in Clients
  /\ \A a \in Named(ids) : op \in ClientOps[a]

\* The validation pass ends in an error: nothing is applied, but the ASEs it
\* went past keep what CONFIG_QOS stored for them.
RejectWrite(s, op, ids, fault, plan) ==
  /\ Writes(s, op, ids)
  /\ Rejected(s, op, ids, fault)
  /\ ase' = [ase EXCEPT ![s] = [a \in Ases |->
               IF /\ op = "config_qos"
                  /\ a \in Validated(s, op, ids, fault)
                  /\ fault[a] = "none"
               THEN WithQos(s, ase[s][a], plan[a])
               ELSE ase[s][a]]]
  /\ UNCHANGED <<clcb, told, cis, setups, audio, missed>>

\* Every other operation than RECEIVER_START_READY.  DISABLE and RELEASE free the
\* stream (lehs_isoc_dhm_free_cis_stream): the audio stream, whichever ASE it was
\* opened for, and the output path of the CIS, whatever the direction of the ASE.
ApplyWrite(s, op, ids, n, fault, plan) ==
  /\ op # "receiver_start_ready"
  /\ Writes(s, op, ids)
  /\ ~Rejected(s, op, ids, fault)
  /\ ase' = [ase EXCEPT ![s] = [a \in Ases |->
               IF a \in Counted(ids, n) THEN Settled(Applied(s, op, ase[s][a], a, fault, plan))
               ELSE IF a \in Named(ids) THEN Applied(s, op, ase[s][a], a, fault, plan)
               ELSE ase[s][a]]]
  /\ NotifyCounted(s, Counted(ids, n))
  /\ MissUncounted(s, ids, n)
  /\ IF op \in {"disable", "release"} /\ Named(ids) # {}
     THEN /\ audio' = "closed"
          /\ cis' = WithOutput({}, {ase[s][a].handle : a \in Named(ids)})
     ELSE UNCHANGED <<audio, cis>>
  /\ UNCHANGED <<clcb, setups>>

\* RECEIVER_START_READY asks for the data path of each ASE in turn.  A request
\* that fails ends the second pass: the response has been sent by then.
Started(ids, res) ==
  {ids[i] : i \in {j \in DOMAIN ids : Reached(ids, j) /\ \A k \in 1..j : res[ids[k]] = "ok"}}

Tried(ids, res) ==
  {ids[i] : i \in {j \in DOMAIN ids : Reached(ids, j) /\ \A k \in 1..(j - 1) : res[ids[k]] = "ok"}}

ApplyStartReady(s, ids, n, res) ==
  /\ Writes(s, "receiver_start_ready", ids)
  /\ \A a \in Named(ids) : ase[s][a].state \in AcceptedIn("receiver_start_ready")
  /\ ase' = [ase EXCEPT ![s] = [a \in Ases |->
               IF a \in Started(ids, res) THEN [ase[s][a] EXCEPT !.state = "streaming"]
                                          ELSE ase[s][a]]]
  /\ NotifyCounted(s, Counted(ids, n))
  /\ MissUncounted(s, ids, n)
  /\ setups' = setups \cup {[slot |-> s, ase |-> a, handle |-> ase[s][a].handle] :
                              a \in {b \in Started(ids, res) : IsCisConnected(ase[s][b].handle)}}
  /\ cis' = WithOutput({ase[s][a].handle : a \in Started(ids, res) \cap SinkAses} \cap UpHandles, {})
  /\ audio' = IF \E a \in Tried(ids, res) : res[a] # "refused" THEN "open" ELSE audio
  /\ UNCHANGED clcb

-----------------------------------------------------------------------------
(* CIS events: lehs_isoc_event_handler *)

\* The records of the ASEs at the given places become f of what they were
Update(places, f(_)) ==
  [s \in Slots |-> [a \in Ases |-> IF <<s, a>> \in places THEN f(ase[s][a]) ELSE ase[s][a]]]

\* An ASE of the client is coupled to the CIS and has no data path yet
Awaited(c, id) ==
  \E s \in Clcb(c), a \in Ases : /\ ase[s][a].state \in {"enabling", "streaming"}
                               /\ ase[s][a].id = id
                               /\ ~ase[s][a].path

\* CIS_REQUEST: the handle goes to the sink ASE only; the CIS is always accepted
CisRequest(c, id, h) ==
  LET WithHandle(r) == [r EXCEPT !.handle = h] IN
  /\ Connected(c)
  /\ CisOf(c, id) = {}
  /\ CisOnlyForAse => Awaited(c, id)
  /\ h \in HandlePool[c][id]
  /\ cis[h] = FreeCis
  /\ cis' = [cis EXCEPT ![h] = [FreeCis EXCEPT !.client = c, !.id = id]]
  /\ ase' = Update(lehs_find_ase_with_cis_id(id, SinkAses), WithHandle)
  /\ UNCHANGED <<clcb, told, setups, audio, missed>>

\* CIS_ESTABLISHED with an error status: the stack drops the CIS, the handler returns
CisFailed(h) ==
  /\ cis[h].client \in Clients
  /\ ~cis[h].up
  /\ cis' = [cis EXCEPT ![h] = FreeCis]
  /\ UNCHANGED <<clcb, ase, told, setups, audio, missed>>

\* Those of the places whose ASE asks for its data path when the CIS comes up
AwaitingCis(sinks, sources) ==
  {p \in sinks : ase[p[1]][p[2]].state = "enabling"} \cup
  {p \in sources : ase[p[1]][p[2]].state = "streaming"}

CisEstablished(h, res) ==
  LET sinks   == lehs_find_ase_with_cis_id(cis[h].id, SinkAses)
      sources == lehs_find_ase_with_cis_id(cis[h].id, SourceAses)
      asking  == AwaitingCis(sinks, sources)
      WithHandle(r) == [r EXCEPT !.handle = h]
  IN
  /\ cis[h].client \in Clients
  /\ Connected(cis[h].client)
  /\ ~cis[h].up
  /\ cis' = [cis EXCEPT ![h].up = TRUE, ![h].out = \E p \in asking \cap sinks : res[p[2]] = "ok"]
  /\ ase' = Update(sinks \cup sources, WithHandle)
  /\ setups' = setups \cup {[slot |-> p[1], ase |-> p[2], handle |-> h] :
                               p \in {q \in asking : res[q[2]] = "ok"}}
  /\ audio' = IF \E p \in asking : res[p[2]] # "refused" THEN "open" ELSE audio
  /\ UNCHANGED <<clcb, told, missed>>

\* Mutant: an ASE in releasing is left there
DroppedKeepsReleasing(r) ==
  [r EXCEPT !.path = FALSE, !.state = IF @ = "disabling" THEN "qos" ELSE @]

\* lehs_cis_handle_disconnection for one ASE
Dropped(r) ==
  CASE r.state = "releasing" -> [r EXCEPT !.path = FALSE, !.state = "idle", !.id = NoCis]
    [] r.state = "disabling" -> [r EXCEPT !.path = FALSE, !.state = "qos"]
    [] OTHER -> [r EXCEPT !.path = FALSE]

\* Mutants: a streaming sink is left streaming, or loses its QoS configuration
DroppedSinkKeepsState(r) == Dropped(r)

DroppedSinkForgetsQos(r) ==
  IF r.state = "streaming" THEN [r EXCEPT !.path = FALSE, !.state = "qos", !.id = NoCis]
                           ELSE Dropped(r)

DroppedSink(r) ==
  IF r.state = "streaming" THEN [r EXCEPT !.path = FALSE, !.state = "qos"] ELSE Dropped(r)

DroppedSource(r) ==
  IF r.state = "streaming" THEN [r EXCEPT !.path = FALSE, !.state = "disabling"] ELSE Dropped(r)

\* Mutant: the stream is not closed with the CIS
AudioKeptAfterLoss(found) == audio

\* lehs_isoc_dhm_free_cis_stream for each ASE that is found
AudioAfterLoss(found) == IF found # {} THEN "closed" ELSE audio

\* CIS_DISCONNECTED: both ASEs that are found for the ids; the client of each is
\* notified (an ASE in enabling is left as it is, and not notified).  A data
\* path request on the CIS ends without success.
CisDisconnected(h) ==
  LET sinks   == lehs_find_ase_with_cis_id(cis[h].id, SinkAses)
      sources == lehs_find_ase_with_cis_id(cis[h].id, SourceAses)
  IN
  /\ cis[h].up
  /\ cis' = [cis EXCEPT ![h] = FreeCis]
  /\ ase' = [s \in Slots |-> [a \in Ases |->
               IF <<s, a>> \in sinks THEN DroppedSink(ase[s][a])
               ELSE IF <<s, a>> \in sources THEN DroppedSource(ase[s][a])
               ELSE ase[s][a]]]
  /\ told' = [s \in Slots |-> [a \in Ases |->
               IF <<s, a>> \in sinks \cup sources /\ ase[s][a].state # "enabling"
               THEN ase'[s][a].state ELSE told[s][a]]]
  /\ setups' = {p \in setups : p.handle # h}
  /\ audio' = AudioAfterLoss(sinks \cup sources)
  /\ UNCHANGED <<clcb, missed>>

\* DATA_PATH_SETUP with an error status
DataPathFailed(p) ==
  /\ p \in setups
  /\ setups' = setups \ {p}
  /\ cis' = WithOutput({}, IF p.ase \in SinkAses THEN {p.handle} ELSE {})
  /\ UNCHANGED <<clcb, ase, told, audio, missed>>

\* lehs_cis_handle_data_path_setup for the ASE of the event
WithPath(a, r) ==
  [r EXCEPT !.path = TRUE,
            !.state = IF a \in SinkAses /\ r.state = "enabling" THEN "streaming" ELSE @]

\* DATA_PATH_SETUP: the ASE comes with the event, the connection to notify is
\* looked up.  Starting a stream that has been closed fails and is only traced.
DataPathSetup(p) ==
  LET found   == lehs_get_ase_app_data_ptr_by_cis_conn_hdl
      streams == p.ase \in SinkAses /\ ase[p.slot][p.ase].state = "enabling"
  IN
  /\ p \in setups
  /\ setups' = setups \ {p}
  /\ IF ~IsCisConnected(p.handle) \/ found = {}
     THEN UNCHANGED <<ase, told, audio>>
     ELSE /\ ase' = [ase EXCEPT ![p.slot][p.ase] = WithPath(p.ase, @)]
          /\ told' = [s \in Slots |-> [a \in Ases |->
                       IF streams /\ a = p.ase /\ (\E q \in found : q[1] = s)
                       THEN "streaming" ELSE told[s][a]]]
          /\ audio' = IF audio = "closed" THEN "closed" ELSE "running"
  /\ UNCHANGED <<clcb, cis, missed>>

-----------------------------------------------------------------------------
(* Connections: lehs_gatt_handle_connection, lehs_gatt_handle_disconnection *)

Reset(f, s, v) == [f EXCEPT ![s] = [a \in Ases |-> v]]

\* The first control block that is not in use; its ASEs are initialised
GattConnected(c, s) ==
  /\ ~Connected(c)
  /\ \A h \in Handles : cis[h].client # c
  /\ clcb[s] = NoClient
  /\ \A t \in Slots : clcb[t] = NoClient => s <= t
  /\ clcb' = [clcb EXCEPT ![s] = c]
  /\ ase' = Reset(ase, s, BlankAse)
  /\ told' = Reset(told, s, "idle")
  /\ missed' = [missed EXCEPT ![s] = {}]
  /\ UNCHANGED <<cis, setups, audio>>

\* The control block is cleared, ASEs included; the CISes are not looked at
GattDisconnected(s) ==
  /\ clcb[s] \in Clients
  /\ CisDropsFirst => \A h \in Handles : cis[h].client # clcb[s]
  /\ clcb' = [clcb EXCEPT ![s] = NoClient]
  /\ ase' = Reset(ase, s, BlankAse)
  /\ told' = Reset(told, s, "idle")
  /\ missed' = [missed EXCEPT ![s] = {}]
  /\ UNCHANGED <<cis, setups, audio>>

-----------------------------------------------------------------------------
Init ==
  /\ clcb = [s \in Slots |-> NoClient]
  /\ ase = [s \in Slots |-> [a \in Ases |-> BlankAse]]
  /\ told = [s \in Slots |-> [a \in Ases |-> "idle"]]
  /\ cis = [h \in Handles |-> FreeCis]
  /\ setups = {}
  /\ audio = "closed"
  /\ missed = [s \in Slots |-> {}]

ControlPointWrite(s) ==
  \E ids \in WriteLists :
    \/ \E op \in Opcodes : \E fault \in FaultsOf(op), plan \in PlansOf(clcb[s], op) :
         \/ RejectWrite(s, op, ids, fault, plan)
         \/ \E n \in Counts(ids) : ApplyWrite(s, op, ids, n, fault, plan)
    \/ \E res \in [Named(ids) -> SetupResults], n \in Counts(ids) : ApplyStartReady(s, ids, n, res)

Link ==
  \/ \E c \in Clients, s \in Slots : GattConnected(c, s)
  \/ \E s \in Slots : GattDisconnected(s)

Iso ==
  \/ \E c \in Clients, id \in CisIds, h \in Handles : CisRequest(c, id, h)
  \/ \E h \in Handles : CisFailed(h)
  \/ \E h \in Handles, res \in [Ases -> SetupResults] : CisEstablished(h, res)
  \/ \E h \in Handles : CisDisconnected(h)
  \/ \E p \in setups : DataPathFailed(p)
  \/ \E p \in setups : DataPathSetup(p)

Next ==
  \/ Link
  \/ Iso
  \/ \E s \in Slots : clcb[s] \in Clients /\ ControlPointWrite(s)

Spec == Init /\ [][Next]_vars

\* No CIS lasts for ever: the client drops it when it has released its ASEs, or
\* the link supervision of the controller does.
FairSpec == Spec /\ \A h \in Handles : WF_vars(CisDisconnected(h))
-----------------------------------------------------------------------------
(* Properties *)

\* Every variable keeps its type; the counters of the code are abstracted away.
TypeOK ==
  /\ clcb \in [Slots -> Clients \cup {NoClient}]
  /\ ase \in [Slots -> [Ases -> AseData]]
  /\ told \in [Slots -> [Ases -> AseStates]]
  /\ cis \in [Handles -> CisData]
  /\ setups \subseteq Setups
  /\ audio \in AudioStates
  /\ missed \in [Slots -> SUBSET Ases]

\* The CIS an ASE holds the handle of is up, is of the same client and is the
\* one its QoS configuration names.
OwnCis(s, a) ==
  LET h == ase[s][a].handle IN
  IsCisConnected(h) /\ cis[h].client = clcb[s] /\ cis[h].id = ase[s][a].id

\* A sink in streaming has had a data path reported set up, and the CIS of its own
\* QoS configuration is up: no loss of a CIS or reconfiguration leaves it streaming
\* without its CIS.  (Whether the controller still has the path is SinkHasOutput.)
StreamingSinkOnItsCis ==
  \A s \in Slots, a \in SinkAses :
    ase[s][a].state = "streaming" => ase[s][a].path /\ OwnCis(s, a)

\* What lehs_cis_handle_data_path_setup notes when it sets data_path_established and
\* makes a sink streaming, "data path is setup successfully": the controller has an
\* output path from the CIS to the codec.  It is not so after a late event (README).
SinkHasOutput ==
  \A s \in Slots, a \in SinkAses :
    ase[s][a].state = "streaming" /\ OwnCis(s, a) => cis[ase[s][a].handle].out

\* The part of StreamingSinkOnItsCis that holds for every numbering of CISes and
\* handles, and with any number of clients: a sink streams only after an event that
\* reports a data path, and no longer than its own CIS is reported to be there.
StreamingSinkHasDataPath ==
  \A s \in Slots, a \in SinkAses : ase[s][a].state = "streaming" => ase[s][a].path

\* From QoS configured up to releasing an ASE has a QoS configuration, so that a
\* CIS event finds it by its ids, whatever order codec and QoS configurations,
\* releases and CIS losses came in.
CoupledAseHasQos ==
  \A s \in Slots, a \in Ases :
    ase[s][a].state \in AtLeastQos \ {"releasing"} => ase[s][a].id \in CisIds

\* A connected client has been notified of the current state of each of its
\* ASEs, also when a CIS or a data path event changed it behind its back.  Only an
\* ASE that one of its writes did not count may have moved without its knowing.
ToldCurrentState ==
  \A s \in Slots : clcb[s] \in Clients =>
    \A a \in Ases \ missed[s] : told[s][a] = ase[s][a].state

\* The same of every ASE: "sends a GATT notification to inform the client of changes
\* to an ASE characteristic".  It is not so after a write that counts too few (README).
ToldEveryAse ==
  \A s \in Slots : clcb[s] \in Clients => \A a \in Ases : told[s][a] = ase[s][a].state

\* An ASE waits in releasing only for the loss of a CIS that is up and that
\* lehs_cis_handle_disconnection will find the ASE by; one that the write did not
\* count is not settled, and may wait for nothing.
ReleasingWaitsForItsCis ==
  \A s \in Slots : \A a \in Ases \ missed[s] : ase[s][a].state = "releasing" => OwnCis(s, a)

\* The handle of a CIS that is up has been assigned to each ASE, sink or source,
\* that its client has configured for that CIS, whichever of the two came first.
\* (One that was released uncounted before it was QoS configured waits in releasing
\* without ever having looked up its CIS.)
UpCisIsAssigned ==
  \A s \in Slots, h \in UpHandles, a \in Ases :
    /\ clcb[s] = cis[h].client
    /\ ase[s][a].state \in AtLeastQos
    /\ ase[s][a].state = "releasing" => a \notin missed[s]
    /\ ase[s][a].id = cis[h].id
    => ase[s][a].handle = h

\* The codec does not run on when nobody is about to stream or streaming.
AudioHasActiveUser ==
  audio = "running" =>
    \E s \in Slots, a \in Ases : ase[s][a].state \in {"enabling", "streaming", "disabling"}

\* A step that changes a CIS and ASEs changes ASEs of the client of that CIS: a
\* CIS event is not taken for one about another client's stream.  It is not so of
\* clients that choose the same CIG and CIS ids: lehs_find_ase_with_cis_id compares no
\* connection.
CisEventStaysWithItsClient ==
  [][\A h \in Handles, s \in Slots :
       cis'[h] # cis[h] /\ ase'[s] # ase[s] => clcb[s] \in {cis[h].client, cis'[h].client}]_vars

\* What each client is told of its ASEs follows the life cycle of an ASE, for as
\* long as its writes count the ASEs they are about.
Session(c) == IF Connected(c) THEN CHOOSE s \in Clcb(c) : TRUE ELSE 0

Counting(c) == Connected(c) /\ missed[Session(c)] = {}

Lifecycle == INSTANCE AseLifecycle WITH
  connected <- {c \in Clients : Counting(c)},
  view <- [c \in Clients |-> IF Counting(c) THEN told[Session(c)] ELSE [a \in Ases |-> "idle"]]

FollowsLifecycle == Lifecycle!Spec

\* A released ASE that the write counted leaves releasing: the loss of the CIS it
\* waits for, or a disconnection, ends the wait.
ReleaseCompletes ==
  \A s \in Slots, a \in Ases :
    ase[s][a].state = "releasing" /\ a \notin missed[s] ~> ase[s][a].state # "releasing"
=============================================================================
