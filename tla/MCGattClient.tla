---------------------------- MODULE MCGattClient ----------------------------
(***************************************************************************)
(* Instance of GattClient for TLC: one link, to a peer with or without a    *)
(* call service, and with or without notifications of the call states.      *)
(***************************************************************************)
EXTENDS GattClient

MCMediaChars == {"player_name", "track_title"}
MCCallChars == {"provider_name", "call_state"}
MCChars == MCMediaChars \cup MCCallChars

\* The host is told player names and call states
MCShownChars == {"player_name", "call_state"}

\* The order of lehs_enable_app_notifications and of lehs_read_remote_characteristics
MCEnableList == <<"track_title", "call_state">>
MCReadList == <<"player_name", "provider_name", "call_state">>

MCDatabases ==
  {[services |-> Services, value |-> MCChars, cccd |-> {"track_title", "call_state"}],
   [services |-> Services, value |-> MCChars, cccd |-> {"track_title"}],
   [services |-> {"gmcs"}, value |-> MCMediaChars, cccd |-> {"track_title"}]}
=============================================================================
