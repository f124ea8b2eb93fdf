---------------------------- MODULE Advertising ----------------------------
(***************************************************************************)
(* The advertising of the headset (lehs_gatt.c): a state machine that the   *)
(* host, the end of the advertising set and a lost connection all move on,  *)
(* each from the state it finds.  The end of the set is an event: between   *)
(* the end and its handling the others may have moved.                      *)
(***************************************************************************)
EXTENDS Naturals, Sequences

CONSTANTS
  MaxLinks,   \* LEHS_MAX_CONNECTIONS
  MaxEvents   \* bound on the advertising events that are under way

ASSUME AdvertisingConstants == {MaxLinks, MaxEvents} \subseteq Nat \ {0}

AdvStates == {"IDLE", "SWIFT_PAIR_HIGH_DUTY_CYCLE", "SWIFT_PAIR_LOW_DUTY_CYCLE", "REGULAR_ADV", "MAX"}

VARIABLES
  adv_state,      \* g_lehs_gatt_cb.adv_state
  do_swift_pair,  \* g_lehs_gatt_cb.do_swift_pair
  on_air,         \* the controller has the set enabled
  refused,        \* it refused to enable it, which the code does not look at
  ended,          \* events of ends of the set: the handle of the new connection, 0 for none
  links,          \* number of connections
  adv_shown       \* the state the host was told last

advVars == <<adv_state, do_swift_pair, on_air, refused, ended, links, adv_shown>>

\* swift_pair_next_state and regular_adv_next_state, by the state that is left
SwiftPairNext(s) ==
  CASE s = "IDLE" -> "SWIFT_PAIR_HIGH_DUTY_CYCLE"
    [] s = "SWIFT_PAIR_HIGH_DUTY_CYCLE" -> "SWIFT_PAIR_LOW_DUTY_CYCLE"
    [] s = "SWIFT_PAIR_LOW_DUTY_CYCLE" -> "REGULAR_ADV"
    [] OTHER -> "IDLE"

RegularNext(s) == IF s = "IDLE" THEN "REGULAR_ADV" ELSE "IDLE"

\* Mutant: the set is stopped and the host is not told
StopUntold ==
  /\ on_air' = FALSE
  /\ refused' = FALSE
  /\ UNCHANGED adv_shown

\* lehs_gatt_start_stop_adv(0, ADV_STATE_IDLE)
StopAdv ==
  /\ on_air' = FALSE
  /\ refused' = FALSE
  /\ adv_shown' = "IDLE"

\* lehs_gatt_start_stop_adv(1, next): a set that is enabled stays so when the
\* controller refuses to enable it anew
StartAdv(next) ==
  /\ \E ok \in BOOLEAN :
       /\ on_air' = (on_air \/ ok)
       /\ refused' = ~ok
  /\ adv_shown' = next

\* lehs_move_to_next_adv_state
MoveToNext(current, swift) ==
  LET next == IF swift THEN SwiftPairNext(current) ELSE RegularNext(current)
  IN /\ adv_state' = next
     /\ IF next # "IDLE" THEN StartAdv(next) ELSE StopAdv

-----------------------------------------------------------------------------
\* rpc_handle_adv: a start finds the state as it is, and so moves an advertising
\* headset to the next one
HostAdv(adv, swift) ==
  /\ do_swift_pair' = swift
  /\ MoveToNext(IF adv THEN adv_state ELSE "MAX", swift)
  /\ UNCHANGED <<ended, links>>

\* The duration of the set is over (controller)
DurationOver ==
  /\ on_air /\ Len(ended) < MaxEvents
  /\ on_air' = FALSE
  /\ ended' = Append(ended, 0)
  /\ UNCHANGED <<adv_state, do_swift_pair, refused, links, adv_shown>>

\* A client connects, which ends the set; the handle of the connection may be 0
Connected(handle) ==
  /\ on_air /\ links < MaxLinks /\ Len(ended) < MaxEvents
  /\ on_air' = FALSE
  /\ ended' = Append(ended, handle)
  /\ links' = links + 1
  /\ UNCHANGED <<adv_state, do_swift_pair, refused, adv_shown>>

\* WICED_BLE_ADV_SET_TERMINATED_EVENT
SetTerminated ==
  /\ ended # <<>>
  /\ ended' = Tail(ended)
  /\ IF Head(ended) # 0 THEN adv_state' = "IDLE" /\ StopAdv
     ELSE MoveToNext(adv_state, do_swift_pair)
  /\ UNCHANGED <<do_swift_pair, links>>

\* lehs_gatt_handle_disconnection: only a supervision timeout moves the state
Disconnected(timeout) ==
  /\ links > 0
  /\ links' = links - 1
  /\ IF timeout THEN MoveToNext(adv_state, do_swift_pair)
     ELSE UNCHANGED <<adv_state, on_air, refused, adv_shown>>
  /\ UNCHANGED <<do_swift_pair, ended>>

\* lehs_main
AdvInit ==
  /\ adv_state = "IDLE"
  /\ do_swift_pair = FALSE
  /\ on_air = FALSE /\ refused = FALSE
  /\ ended = <<>>
  /\ links = 0
  /\ adv_shown = "IDLE"

AdvNext ==
  \/ \E adv, swift \in BOOLEAN : HostAdv(adv, swift)
  \/ DurationOver
  \/ \E handle \in 0..1 : Connected(handle)
  \/ SetTerminated
  \/ \E timeout \in BOOLEAN : Disconnected(timeout)

AdvSpec == AdvInit /\ [][AdvNext]_advVars
-----------------------------------------------------------------------------
(* Properties *)

AdvTypeOK ==
  /\ adv_state \in AdvStates \ {"MAX"}
  /\ do_swift_pair \in BOOLEAN
  /\ on_air \in BOOLEAN /\ refused \in BOOLEAN
  /\ ended \in Seq({0, 1}) /\ Len(ended) <= MaxEvents
  /\ links \in 0..MaxLinks
  /\ adv_shown \in AdvStates \ {"MAX"}

\* However the host, ends of the set and lost connections interleave, the host shows
\* the state of the headset; a headset it shows idle is not on air, and one it shows
\* advertising is, unless the controller refused or the event of the end is under way.
AdvertisingIsShown ==
  /\ adv_shown = adv_state
  /\ on_air => adv_shown # "IDLE"
  /\ adv_shown # "IDLE" => on_air \/ refused \/ ended # <<>>

\* The headset invites to swift pair only while the host has it enabled: it turns it
\* off in any state, and no later end of a set or disconnection brings it back.
SwiftPairIsAsked ==
  adv_state \in {"SWIFT_PAIR_HIGH_DUTY_CYCLE", "SWIFT_PAIR_LOW_DUTY_CYCLE"} => do_swift_pair
=============================================================================
