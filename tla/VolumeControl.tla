--------------------------- MODULE VolumeControl ---------------------------
(***************************************************************************)
(* The volume of the headset: the volume control service the clients write *)
(* and are notified of (lehs_vcs.c, ga_lib_vcs.c), the offset of one output *)
(* (the VOCS cases of lehs_gatt.c), the commands of the host (lehs_rpc.c)   *)
(* and the loudspeaker behind them (lehs_audio_driver_rom.c).               *)
(*                                                                         *)
(* A write names the change counter its writer believes in.  A client acts *)
(* on what it was told last, which may be old: a notification reaches it    *)
(* only if it asked for notifications and a buffer was free.                *)
(***************************************************************************)
EXTENDS Integers, FiniteSets

CONSTANTS
  Blocks,        \* control blocks, one for each connection there can be
  MaxVolume,     \* GA_LIB_VCS_MAXIMUM_VOLUME
  StepSize,      \* VCS_STEP_SIZE
  DefaultVolume, \* DEFAULT_VOL
  CounterSize,   \* number of values of a change counter, 2^8
  PlatformStep,  \* volume steps in one step of the platform, 25
  MaxOffset,     \* VOLUME_OFFSET_MAX_VALUE, and the negative of the minimum
  OffsetSize,    \* number of values of a 16 bit offset
  NoView         \* what a client knows that was told nothing yet

ASSUME VolumeConstants ==
  /\ Blocks \subseteq Nat /\ IsFiniteSet(Blocks)
  /\ {MaxVolume, DefaultVolume, MaxOffset} \subseteq Nat
  /\ DefaultVolume <= MaxVolume
  /\ {StepSize, CounterSize, PlatformStep, OffsetSize} \subseteq Nat \ {0}

Volumes == 0..MaxVolume
Counters == 0..(CounterSize - 1)

\* ga_lib_vcs_volume_state_t
VolumeStates == [volume_setting: Volumes, mute_state: BOOLEAN, change_counter: Counters]

VARIABLES
  in_use,   \* SUBSET Blocks: control blocks with a connection
  vcs,      \* VolumeStates: local_service_data.vcs.state
  view,     \* [Blocks -> VolumeStates or NoView]: the state a client was told last
  missed,   \* [Blocks -> 0..CounterSize]: steps of the counter since then
  vocs,     \* [volume_offset, change_counter]: local_service_data.vocs
  prev,     \* [volume, mute]: prev_volume, prev_vol_mute of the driver
  speaker,  \* the volume the platform plays at
  shows     \* [volume, mute]: what the host shows, NoView before it was told

volumeVars == <<in_use, vcs, view, missed, vocs, prev, speaker, shows>>

\* VOLUME_CONTROL_OPCODE_*, told apart by what they do to the volume and to mute
VolumeOpcodes ==
  [volume: {"down", "up"}, mute: {"keep", "clear"}]
  \cup {[volume |-> "absolute", mute |-> "keep"],
        [volume |-> "keep", mute |-> "clear"],
        [volume |-> "keep", mute |-> "set"]}

Lowered == IF vcs.volume_setting > StepSize THEN vcs.volume_setting - StepSize ELSE 0

\* Mutant: the sum is not limited to the maximum
RaisedFreely == vcs.volume_setting + StepSize

Raised == IF vcs.volume_setting + StepSize < MaxVolume THEN vcs.volume_setting + StepSize ELSE MaxVolume

\* ga_lib_vcs_check_volume_state_validity: the volume and mute state an opcode asks for
Requested(op, vol) ==
  [vcs EXCEPT !.volume_setting = CASE op.volume = "down" -> Lowered
                                   [] op.volume = "up" -> Raised
                                   [] op.volume = "absolute" -> vol
                                   [] op.volume = "keep" -> @,
              !.mute_state = CASE op.mute = "clear" -> FALSE
                               [] op.mute = "set" -> TRUE
                               [] op.mute = "keep" -> @]

\* lehs_audio_driver_rom.c: the volume is mapped to the steps of the platform
Played(volume, mute) == IF mute THEN 0 ELSE volume \div PlatformStep

\* The volume is a parameter of one opcode only
VolumesOf(op) == IF op.volume = "absolute" THEN Volumes ELSE {0}

-----------------------------------------------------------------------------
\* Blocks are taken from the lowest on, and told in that order
Order(told) == [b \in told |-> Cardinality({c \in told : c <= b})]

\* Mutant: the counter is stepped only for clients that are told
CountTold(told) == Cardinality(told)

\* lehs_vcs_notify_volume_state steps the counter for every block in use
Steps(told) == Cardinality(in_use)

\* lehs_vcs_notify_volume_state: every client in turn; those of told get it
Notify(state, told) ==
  LET n == Steps(told)
      After(k) == [state EXCEPT !.change_counter = (@ + k) % CounterSize]
      place == Order(in_use)
  IN /\ vcs' = After(n)
     /\ view' = [b \in Blocks |-> IF b \in told THEN After(place[b]) ELSE view[b]]
     /\ missed' = [b \in Blocks |->
          LET since == IF b \in told THEN n - place[b]
                       ELSE IF view[b] = NoView THEN 0 ELSE missed[b] + n
          IN IF since < CounterSize THEN since ELSE CounterSize]

\* Mutant: the host is told one of volume and mute, the volume when both changed
TellOne(op, state) ==
  shows' = IF op.volume = "keep" THEN [shows EXCEPT !.mute = state.mute_state]
          ELSE [shows EXCEPT !.volume = state.volume_setting]

\* audio_driver_set_volume, then audio_driver_set_mute_state
Drive(state) ==
  /\ prev' = [volume |-> state.volume_setting, mute |-> state.mute_state]
  /\ speaker' = Played(state.volume_setting, state.mute_state)

\* le_audio_rpc_send_vcs_state_update: the event has what the opcode is about, the
\* volume, the mute state or both
TellHost(op, state) ==
  shows' = [volume |-> IF op.volume = "keep" THEN shows.volume ELSE state.volume_setting,
           mute |-> IF op.mute = "keep" THEN shows.mute ELSE state.mute_state]

\* lehs_vcs_set_volume: nothing happens unless the volume or mute state changes
SetVolume(op, vol, told) ==
  /\ Requested(op, vol) # vcs
  /\ Notify(Requested(op, vol), told)
  /\ Drive(Requested(op, vol))
  /\ TellHost(op, Requested(op, vol))
  /\ UNCHANGED <<in_use, vocs>>

\* lehs_handle_vcs_cp_write.  The volume flag is set from the start on: the
\* step that would set it and notify of it is never taken.
WriteVolume(b, op, vol, told) ==
  /\ b \in in_use
  /\ view[b] # NoView
  /\ view[b].change_counter = vcs.change_counter
  /\ SetVolume(op, vol, told)

\* rpc_handle_set_vol: the host names no counter
HostVolume(op, vol, told) == SetVolume(op, vol, told)

\* app_handle_gatt_read_request, HDLC_VCS_VOLUME_STATE_VALUE
ReadVolume(b) ==
  /\ b \in in_use
  /\ view' = [view EXCEPT ![b] = vcs]
  /\ missed' = [missed EXCEPT ![b] = 0]
  /\ UNCHANGED <<in_use, vcs, vocs, prev, speaker, shows>>

\* app_handle_gatt_write_request, HDLC_VOCS_VOLUME_OFFSET_CONTROL_POINT_VALUE:
\* the two bytes of the offset are taken as unsigned.
WriteOffset(b, counter, offset) ==
  /\ b \in in_use
  /\ counter = vocs.change_counter
  /\ offset % OffsetSize <= MaxOffset
  /\ offset % OffsetSize # vocs.volume_offset
  /\ vocs' = [volume_offset |-> offset % OffsetSize,
              change_counter |-> (vocs.change_counter + 1) % CounterSize]
  /\ UNCHANGED <<in_use, vcs, view, missed, prev, speaker, shows>>

\* audio_driver_init_vol, when a stream starts
StartPlayback ==
  /\ speaker' = Played(prev.volume, prev.mute)
  /\ UNCHANGED <<in_use, vcs, view, missed, vocs, prev, shows>>

\* lehs_gatt_alloc_cb: the first block that is free; its client knows nothing
OpenBlock(b) ==
  /\ b \notin in_use
  /\ \A c \in Blocks : c < b => c \in in_use
  /\ in_use' = in_use \cup {b}
  /\ view' = [view EXCEPT ![b] = NoView]
  /\ missed' = [missed EXCEPT ![b] = 0]
  /\ UNCHANGED <<vcs, vocs, prev, speaker, shows>>

CloseBlock(b) ==
  /\ b \in in_use
  /\ in_use' = in_use \ {b}
  /\ view' = [view EXCEPT ![b] = NoView]
  /\ missed' = [missed EXCEPT ![b] = 0]
  /\ UNCHANGED <<vcs, vocs, prev, speaker, shows>>

\* lehs_vcs_initialize_data: the driver is told; host and clients are not
VolumeInit ==
  /\ in_use = {}
  /\ vcs = [volume_setting |-> DefaultVolume, mute_state |-> FALSE, change_counter |-> 0]
  /\ view = [b \in Blocks |-> NoView]
  /\ missed = [b \in Blocks |-> 0]
  /\ vocs = [volume_offset |-> 0, change_counter |-> 0]
  /\ prev = [volume |-> DefaultVolume, mute |-> FALSE]
  /\ speaker = Played(DefaultVolume, FALSE)
  /\ shows = [volume |-> NoView, mute |-> NoView]

VolumeNext ==
  \/ \E op \in VolumeOpcodes, told \in SUBSET in_use :
       \E vol \in VolumesOf(op) :
         \/ \E b \in Blocks : WriteVolume(b, op, vol, told)
         \/ HostVolume(op, vol, told)
  \/ \E b \in Blocks : ReadVolume(b)
  \/ \E b \in Blocks, n \in Counters, offset \in -MaxOffset..MaxOffset :
       WriteOffset(b, n, offset)
  \/ StartPlayback
  \/ \E b \in Blocks : OpenBlock(b)
  \/ \E b \in Blocks : CloseBlock(b)

VolumeSpec == VolumeInit /\ [][VolumeNext]_volumeVars
-----------------------------------------------------------------------------
(* Properties *)

VolumeTypeOK ==
  /\ in_use \in SUBSET Blocks
  /\ vcs \in VolumeStates
  /\ view \in [Blocks -> VolumeStates \cup {NoView}]
  /\ missed \in [Blocks -> 0..CounterSize]
  /\ vocs \in [volume_offset: 0..MaxOffset, change_counter: Counters]
  /\ prev \in [volume: Volumes, mute: BOOLEAN]
  /\ speaker \in 0..(MaxVolume \div PlatformStep)
  /\ shows \in [volume: Volumes \cup {NoView}, mute: BOOLEAN \cup {NoView}]

\* A client whose counter is the one of the headset knows the volume and the mute
\* state its write will change, whoever changed them in between and whatever
\* notification was lost, unless the counter has gone round since.
InformedVolumeWrite ==
  \A b \in in_use :
    /\ view[b] # NoView
    /\ view[b].change_counter = vcs.change_counter
    /\ missed[b] < CounterSize
    => view[b] = vcs

\* The loudspeaker plays what the volume state says, whichever of clients, host
\* and streams acted last.
SpeakerPlaysState == speaker = Played(vcs.volume_setting, vcs.mute_state)

\* The host, told the volume or the mute state or both, each time only what the
\* opcode was about, never shows a value that has changed behind its back.
HostShowsVolume ==
  /\ shows.volume # NoView => shows.volume = vcs.volume_setting
  /\ shows.mute # NoView => shows.mute = vcs.mute_state

\* The volume is one: what is played and what the host shows follow the state that
\* clients read, whoever changed it.
SpeakerAndHostFollow == SpeakerPlaysState /\ HostShowsVolume
=============================================================================
