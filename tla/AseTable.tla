------------------------------ MODULE AseTable ------------------------------
(***************************************************************************)
(* The server side state machine of an Audio Stream Endpoint (ASE): its    *)
(* states, the opcodes a client writes to the ASE control point, and the   *)
(* table ga_lib_bap_is_state_transition_valid looks them up in.            *)
(***************************************************************************)

\* GA_LIB_ASCS_STATE_IDLE .. GA_LIB_ASCS_STATE_RELEASING
AseStates == {"idle", "codec", "qos", "enabling", "streaming", "disabling", "releasing"}

\* The states whose value is GA_LIB_ASCS_STATE_QOS_CONFIGURED or above
AtLeastQos == {"qos", "enabling", "streaming", "disabling", "releasing"}

\* GA_LIB_ASCS_OPCODE_CONFIG_CODEC .. GA_LIB_ASCS_OPCODE_RELEASE; "other" stands
\* for every value without an entry in the table (RELEASED, 0, unassigned ones).
Opcodes == {"config_codec", "config_qos", "enable", "receiver_start_ready", "disable",
            "receiver_stop_ready", "update_metadata", "release", "other"}

\* The opcodes that carry parameters for each ASE of the write
Parameterised == {"config_codec", "config_qos", "enable", "update_metadata"}

\* The column of an opcode: the states whose entry is not GA_LIB_ASCS_STATE_MAX
AcceptedIn(op) ==
  CASE op = "config_codec"         -> {"idle", "codec", "qos"}
    [] op = "config_qos"           -> {"codec", "qos"}
    [] op = "enable"               -> {"qos"}
    [] op = "receiver_start_ready" -> {"enabling"}
    [] op = "disable"              -> {"enabling", "streaming"}
    [] op = "receiver_stop_ready"  -> {"disabling"}
    [] op = "update_metadata"      -> {"enabling", "streaming"}
    [] op = "release"              -> AseStates \ {"idle"}
    [] OTHER                       -> {}

\* The entry itself. There is no disabling state for a sink ASE: DISABLE takes
\* it to QoS configured.
NextState(sink, st, op) ==
  CASE op = "config_codec"         -> "codec"
    [] op = "config_qos"           -> "qos"
    [] op = "enable"               -> "enabling"
    [] op = "receiver_start_ready" -> "streaming"
    [] op = "disable"              -> IF sink THEN "qos" ELSE "disabling"
    [] op = "receiver_stop_ready"  -> "qos"
    [] op = "release"              -> "releasing"
    [] OTHER                       -> st
=============================================================================
