----------------------------- MODULE Microphone -----------------------------
(***************************************************************************)
(* The microphone: its mute state (MICS, lehs_mics.c), the state of its     *)
(* audio input (AICS: gain, mute, gain mode, the cases of lehs_gatt.c and   *)
(* ga_lib_aics.c), the commands of the host (lehs_rpc.c) and the driver     *)
(* (lehs_audio_driver_rom.c).  MICS and AICS keep a mute state each, and    *)
(* drive the one of the driver.                                             *)
(***************************************************************************)
EXTENDS Integers

CONSTANTS
  Clients,        \* clients of the service
  MaxGain,        \* max_gain_setting; min_gain_setting is -MaxGain - 1
  GainUnits,      \* gain_setting_units, the step of the host's commands
  InitialGain,    \* DEFAULT_MIC_GAIN of lehs.h
  DriverGain,     \* DEFAULT_MIC_GAIN of lehs_audio_driver_rom.c
  CounterValues,  \* number of values of a change counter, 2^8
  GainStep,       \* gain in one step of the platform, 25
  Untold          \* what a client or the host knows that was told nothing

ASSUME MicrophoneConstants ==
  /\ {MaxGain, DriverGain} \subseteq Nat
  /\ {GainUnits, CounterValues, GainStep} \subseteq Nat \ {0}
  /\ InitialGain \in -(MaxGain + 1)..MaxGain
  /\ DriverGain <= 2 * MaxGain + 1

Gains == -(MaxGain + 1)..MaxGain

\* GA_LIB_AICS_UNMUTE, GA_LIB_AICS_MUTE, GA_LIB_AICS_MUTE_DISABLED
Unmuted == 0
Muted == 1
MuteDisabled == 2
MuteStates == {Unmuted, Muted, MuteDisabled}

\* ga_lib_aics_input_state_t; the headset starts in manual mode
InputStates == [gain_setting: Gains, mute_mode: MuteStates,
                gain_mode: {"manual", "auto"}, change_counter: 0..(CounterValues - 1)]

VARIABLES
  mics,      \* MuteStates: local_service_data.mics.mute_state
  input,     \* InputStates: local_service_data.mics_aics[0].input_state
  known,     \* [Clients -> InputStates or Untold]: the input state a client was told last
  changes,   \* [Clients -> 0..CounterValues]: changes of the input state since then
  driver,    \* [gain, mute]: prev_mic_gain, prev_mic_mute
  platform,  \* [volume, gain]: the two settings of the device PLAY_RECORD
  shown      \* [mute, input]: what the host shows of MICS and AICS

microphoneVars == <<mics, input, known, changes, driver, platform, shown>>

\* The quotient of C, towards 0
Platform(gain) == IF gain < 0 THEN -((-gain) \div GainStep) ELSE gain \div GainStep

\* prev_mic_gain is a uint8_t
InByte(gain) == gain % (2 * MaxGain + 2)

-----------------------------------------------------------------------------
\* audio_driver_set_mic_mute_state: mutes with the volume, not with the gain
DriveMute(mute) ==
  /\ driver' = [driver EXCEPT !.mute = mute]
  /\ platform' = [platform EXCEPT !.volume = IF mute # Unmuted THEN 0 ELSE Platform(driver.gain)]

\* audio_driver_set_mic_gain: whether muted or not
DriveGain(gain) ==
  /\ driver' = [driver EXCEPT !.gain = InByte(gain)]
  /\ platform' = [platform EXCEPT !.gain = Platform(gain)]

\* Mutant: the volume is set up with the gain, and not muted
StartAtGain ==
  /\ platform' = [volume |-> Platform(driver.gain),
                  gain |-> IF driver.mute # Unmuted THEN 0 ELSE Platform(driver.gain)]
  /\ UNCHANGED <<mics, input, known, changes, driver, shown>>

\* audio_driver_init_vol, when a stream starts: mutes with the gain, not with the volume
StartRecording ==
  /\ platform' = [platform EXCEPT !.gain = IF driver.mute # Unmuted THEN 0 ELSE Platform(driver.gain)]
  /\ UNCHANGED <<mics, input, known, changes, driver, shown>>

\* Mutant: the counter is not stepped when the client that writes is told the new state
StepIfUntold(c, sent, state) ==
  IF sent THEN state ELSE [state EXCEPT !.change_counter = (@ + 1) % CounterValues]

\* ga_lib_aics_notify_input_state: the counter is stepped, sent or not
StepCounter(c, sent, state) == [state EXCEPT !.change_counter = (@ + 1) % CounterValues]

\* Only the client c is notified, and only if it subscribed and a buffer was free
NotifyInput(c, sent, state) ==
  /\ input' = StepCounter(c, sent, state)
  /\ known' = IF sent THEN [known EXCEPT ![c] = StepCounter(c, sent, state)] ELSE known
  /\ changes' = [d \in Clients |->
       IF sent /\ d = c THEN 0
       ELSE IF known[d] = Untold \/ changes[d] = CounterValues THEN changes[d]
       ELSE changes[d] + 1]

\* le_audio_rpc_send_mics_aics_input_state: the counter is not told
Shown(state) == [gain |-> state.gain_setting, mute |-> state.mute_mode, mode |-> state.gain_mode]

\* Mutant: the input state is told to the host after a write for the gain only
TellGain(state) == shown' = [shown EXCEPT !.input = [Shown(input) EXCEPT !.gain = state.gain_setting]]

TellInput(state) == shown' = [shown EXCEPT !.input = Shown(state)]

\* The write of MUTE_STATE by a client, any value, and lehs_mics_mute; whatever it was before
SetMicsMute(mute) ==
  /\ mics' = mute
  /\ DriveMute(mute)
  /\ shown' = [shown EXCEPT !.mute = mute]
  /\ UNCHANGED <<input, known, changes>>

-----------------------------------------------------------------------------
\* The write of the AICS control point: what every opcode asks for
Informed(c) == known[c] # Untold /\ known[c].change_counter = input.change_counter

WriteGain(c, gain, sent) ==
  /\ Informed(c)
  /\ input.gain_mode = "manual"
  \* a gain below 0 is compared as a byte, and never found to be the same
  /\ gain # input.gain_setting \/ gain < 0
  /\ DriveGain(gain)
  /\ NotifyInput(c, sent, [input EXCEPT !.gain_setting = gain])
  /\ TellInput([input EXCEPT !.gain_setting = gain])
  /\ UNCHANGED mics

WriteMute(c, mute, sent) ==
  /\ Informed(c)
  /\ mute # MuteDisabled
  /\ input.mute_mode \notin {MuteDisabled, mute}
  /\ DriveMute(mute)
  /\ NotifyInput(c, sent, [input EXCEPT !.mute_mode = mute])
  /\ TellInput([input EXCEPT !.mute_mode = mute])
  /\ UNCHANGED mics

\* Once automatic, the mode is not changed any more
WriteGainMode(c, mode, sent) ==
  /\ Informed(c)
  /\ input.gain_mode = "manual"
  /\ NotifyInput(c, sent, [input EXCEPT !.gain_mode = mode])
  /\ TellInput([input EXCEPT !.gain_mode = mode])
  /\ UNCHANGED <<mics, driver, platform>>

\* lehs_mics_aics_mute: the host names a client but no counter
HostMute(c, mute, sent) ==
  /\ mute # input.mute_mode
  /\ DriveMute(mute)
  /\ NotifyInput(c, sent, [input EXCEPT !.mute_mode = mute])
  /\ TellInput([input EXCEPT !.mute_mode = mute])
  /\ UNCHANGED mics

Limited(gain) ==
  CASE gain > MaxGain -> MaxGain
    [] gain < -(MaxGain + 1) -> -(MaxGain + 1)
    [] gain \in Gains -> gain

\* lehs_mics_aics_set_gain: a gain, or one step up or down; whatever the mode is
HostGain(c, asked, sent) ==
  LET gain == Limited(asked)
  IN /\ gain # input.gain_setting
     /\ DriveGain(gain)
     /\ NotifyInput(c, sent, [input EXCEPT !.gain_setting = gain])
     /\ TellInput([input EXCEPT !.gain_setting = gain])
     /\ UNCHANGED mics

HostGains == Gains \cup {input.gain_setting + GainUnits, input.gain_setting - GainUnits}

\* app_handle_gatt_read_request, HDLC_MICS_AICS_INPUT_STATE_VALUE
ReadInput(c) ==
  /\ known' = [known EXCEPT ![c] = input]
  /\ changes' = [changes EXCEPT ![c] = 0]
  /\ UNCHANGED <<mics, input, driver, platform, shown>>

\* GET_VERSION: the host, started anew, is told everything there is
TellAll ==
  /\ shown' = [mute |-> mics, input |-> Shown(input)]
  /\ UNCHANGED <<mics, input, known, changes, driver, platform>>

\* lehs_mics_initialize_data; the driver is told nothing and keeps its own gain
MicrophoneInit ==
  /\ mics = Unmuted
  /\ input = [gain_setting |-> InitialGain, mute_mode |-> Unmuted,
              gain_mode |-> "manual", change_counter |-> 0]
  /\ known = [c \in Clients |-> Untold]
  /\ changes = [c \in Clients |-> 0]
  /\ driver = [gain |-> DriverGain, mute |-> Unmuted]
  /\ platform = [volume |-> 0, gain |-> 0]
  /\ shown = [mute |-> Untold, input |-> Untold]

MicrophoneNext ==
  \/ \E mute \in MuteStates : SetMicsMute(mute)
  \/ \E c \in Clients, sent \in BOOLEAN :
       \/ \E gain \in Gains : WriteGain(c, gain, sent)
       \/ \E mute \in MuteStates : WriteMute(c, mute, sent)
       \/ \E mode \in {"manual", "auto"} : WriteGainMode(c, mode, sent)
       \/ \E mute \in MuteStates : HostMute(c, mute, sent)
       \/ \E gain \in HostGains : HostGain(c, gain, sent)
  \/ \E c \in Clients : ReadInput(c)
  \/ StartRecording
  \/ TellAll

MicrophoneSpec == MicrophoneInit /\ [][MicrophoneNext]_microphoneVars
-----------------------------------------------------------------------------
(* Properties *)

MicrophoneTypeOK ==
  /\ mics \in MuteStates
  /\ input \in InputStates
  /\ known \in [Clients -> InputStates \cup {Untold}]
  /\ changes \in [Clients -> 0..CounterValues]
  /\ driver \in [gain: 0..(2 * MaxGain + 1), mute: MuteStates]
  /\ platform \in [volume: Nat, gain: Int]
  /\ shown.mute \in MuteStates \cup {Untold}

\* A microphone that MICS and AICS both call muted is silent in the platform: no
\* order of client writes, host commands, gains set while it is muted and starts
\* of streams gives it a volume.
MutedTogetherIsSilent == mics # Unmuted /\ input.mute_mode # Unmuted => platform.volume = 0

\* A microphone that MICS and AICS both call open has the gain the driver was set
\* to last.  (A gain below 0 is kept as a byte, and left out.)  It is not so when a stream
\* started while it was muted (README).
OpenTogetherIsOpen ==
  mics = Unmuted /\ input.mute_mode = Unmuted /\ driver.gain <= MaxGain
    => platform.gain = Platform(driver.gain)

\* A client whose counter is the one of the input knows the gain, mute state and
\* mode its next write is judged by, although only the client that writes is
\* notified, unless the counter has gone round since.
InformedInputWrite ==
  \A c \in Clients : Informed(c) /\ changes[c] < CounterValues => known[c] = input

\* What the host shows of the microphone is so, whether it changed it itself, a
\* client did, or the command had no effect.
HostShowsMicrophone ==
  /\ shown.mute # Untold => shown.mute = mics
  /\ shown.input # Untold => shown.input = Shown(input)
=============================================================================
