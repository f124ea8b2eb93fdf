-------------------------- MODULE MCLocalServices --------------------------
(***************************************************************************)
(* The services, bonds and advertising of the headset, in one instance.     *)
(* Their modules share no variable: the interleavings of two of them show   *)
(* nothing that each alone does not.  One of them is in focus, chosen in    *)
(* the initial state, and takes the steps; their state spaces add and do    *)
(* not multiply.                                                            *)
(***************************************************************************)
EXTENDS VolumeControl, Microphone, HearingAccess, Capabilities, BroadcastBase, ScanCommands,
        Subscriptions, BondStore, Advertising, SetLock

-----------------------------------------------------------------------------
(* Capabilities: every frequency index with one duration, every duration index with   *)
(* one frequency, and the bounds of the frame size with and without a location        *)

Asked(f, d, o, a) == [frequency |-> f, duration |-> d, octets |-> o, allocation |-> a, blocks |-> 0]

MCRequests ==
  {Asked(f, 2, 40, {1}) : f \in 0..14}
  \cup {Asked(5, d, 100, {1}) : d \in 0..4}
  \cup {Asked(5, 2, o, a) : o \in {0, 25, 26, 100, 101}, a \in {{}, {1}, {1, 2}}}

LtvOf(t, v) == [type |-> t, value |-> v]

MCMetadatas ==
  {<<LtvOf(2, Two(514))>>,
   <<LtvOf(1, Two(4)), LtvOf(2, Two(2))>>,
   <<LtvOf(2, Two(513)), LtvOf(1, Two(3)), LtvOf(5, <<1, 2>>)>>}

-----------------------------------------------------------------------------
(* Bases: one or two subgroups of one or two BISes, with values of their own or not,  *)
(* with other metadata behind the contexts or not                                     *)

Csc(f, d, a, o) ==
  [sampling_frequency_hz |-> f, frame_duration_us |-> d, audio_channel_allocation |-> a,
   octets_per_codec_frame |-> o, lc3_blocks_per_sdu |-> 0]

Bis(i, c) == [bis_idx |-> i, bis_csc |-> c]

BisLists ==
  {<<Bis(1, Csc(0, 0, x, 0))>> : x \in {0, 2}}
  \cup {<<Bis(1, Csc(0, 0, x, 0)), Bis(2, Csc(f, 0, y, 0))>> : x \in 0..3, y \in {0, 2}, f \in {0, 24000}}

Contexts == {[preferred_audio_ctx |-> p, streaming_audio_ctx |-> 4] : p \in {0, 515}}

More == {<<>>, <<LtvOf(3, <<7, 7>>)>>, <<LtvOf(5, <<1>>)>>}

First(b) ==
  {[csc |-> Csc(48000, 7500, a, 120), metadata |-> m, more |-> more, bis_config |-> b] :
     a \in {0, 3}, m \in Contexts, more \in More}

Second ==
  [csc |-> Csc(16000, 10000, 1, 40), metadata |-> NoMetadata, more |-> <<>>,
   bis_config |-> <<Bis(3, NoConfig), Bis(4, Csc(0, 7500, 2, 0))>>]

MCBases ==
  LET groups == UNION {First(b) : b \in BisLists}
  IN {<<g>> : g \in {h \in groups : h.more = <<>>}} \cup {<<g, Second>> : g \in groups}

\* Sources whose first subgroup has the BISes 3 and 4, one for each side
FarBases ==
  {<<[csc |-> Csc(48000, 7500, 0, 120), metadata |-> NoMetadata, more |-> <<>>,
      bis_config |-> <<Bis(3, Csc(0, 0, a, 0)), Bis(4, Csc(0, 0, 3 - a, 0))>>]>> : a \in {1, 2}}

AnyBase == CHOOSE bases \in SourceBases : TRUE

-----------------------------------------------------------------------------
(* Commands of the scan control point: with no, one, two and too many subgroups, of   *)
(* the same BISes or not, with contexts or not, cut, too long, and out of range       *)

Scan(o, f, g) ==
  [opcode |-> o, form |-> f, from |-> <<1, 9, 9, 9, 9, 9, 9>>, adv_sid |-> 15,
   broadcast_id |-> <<1, 2, 3>>, pa |-> 2, source_id |-> 0, groups |-> g]

Takes(b, m) == [bis |-> <<b, 0, 0, 0>>, metadata |-> m]

Said == <<LtvOf(1, Two(4)), LtvOf(2, Two(2))>>

GroupLists ==
  {<<>>, <<Takes(0, Said)>>, <<Takes(3, <<>>), Takes(2, Said)>>, <<Takes(3, Said), Takes(2, <<>>)>>,
   <<Takes(3, <<>>), Takes(3, <<>>)>>, <<Takes(1, <<>>), Takes(2, <<>>), Takes(3, <<>>)>>}

MCScanWrites ==
  {Scan(o, "whole", g) : o \in {AddSourceOp, ModifySourceOp}, g \in GroupLists}
  \cup {Scan(o, f, <<Takes(1, Said)>>) : o \in 0..6, f \in {"whole", "longer"}}
  \cup {Scan(o, "cut", <<Takes(1, Said)>>) : o \in 2..5}
  \cup {[Scan(AddSourceOp, "whole", <<>>) EXCEPT !.adv_sid = 16],
        [Scan(AddSourceOp, "whole", <<>>) EXCEPT !.from[1] = 2]}
  \cup {[Scan(o, "whole", <<>>) EXCEPT !.pa = 3] : o \in {AddSourceOp, ModifySourceOp}}
  \cup {[Scan(o, "whole", <<>>) EXCEPT !.source_id = 1] : o \in 3..5}

MCLeftovers == {[i \in GroupIndexes |-> Group(<<9, 9, 9, 9>>, NoMetadata)]}

MCBehind == {<<>>, <<9, 9, 9, 9, 0>>}

-----------------------------------------------------------------------------
(* Subscriptions: three characteristics with a descriptor, two of one type with       *)
(* values of different lengths, and one that cannot be read                           *)

Attribute(t, l) == [type |-> t, len |-> l]

MCAttributes ==
  <<Attribute("state", 2), Attribute("cccd", 2), Attribute("ase", 1), Attribute("cccd", 2),
    Attribute("ase", 2), Attribute("cccd", 2), Attribute("point", 0)>>

MCCccdMap == [i \in 1..3 |-> [value |-> 2 * i - 1, descriptor |-> 2 * i]]

-----------------------------------------------------------------------------
VARIABLE focus

Parts ==
  {"volume", "microphone", "hearing", "capabilities", "base", "scan", "subscriptions", "bonds",
   "advertising", "lock"}

Init ==
  /\ focus \in Parts
  /\ VolumeInit /\ MicrophoneInit /\ HearingInit
  /\ CapabilitiesInit /\ (focus # "capabilities" => locations = [type \in AseTypes |-> {1}])
  /\ BaseInit /\ (focus # "base" => source = AnyBase /\ location = 1)
  /\ ScanInit /\ SubscriptionInit /\ BondInit /\ AdvInit /\ LockInit

\* The variables of the parts that are not in focus
Others(part) ==
  /\ part # "volume" => UNCHANGED volumeVars
  /\ part # "microphone" => UNCHANGED microphoneVars
  /\ part # "hearing" => UNCHANGED hearingVars
  /\ part # "capabilities" => UNCHANGED capabilitiesVars
  /\ part # "base" => UNCHANGED baseVars
  /\ part # "scan" => UNCHANGED scanVars
  /\ part # "subscriptions" => UNCHANGED subscriptionVars
  /\ part # "bonds" => UNCHANGED bondVars
  /\ part # "advertising" => UNCHANGED advVars
  /\ part # "lock" => UNCHANGED lockVars

Next ==
  /\ UNCHANGED focus
  /\ \/ focus = "volume" /\ VolumeNext /\ Others("volume")
     \/ focus = "microphone" /\ MicrophoneNext /\ Others("microphone")
     \/ focus = "hearing" /\ HearingNext /\ Others("hearing")
     \/ focus = "capabilities" /\ CapabilitiesNext /\ Others("capabilities")
     \/ focus = "base" /\ BaseNext /\ Others("base")
     \/ focus = "scan" /\ ScanNext /\ Others("scan")
     \/ focus = "subscriptions" /\ SubscriptionNext /\ Others("subscriptions")
     \/ focus = "bonds" /\ BondNext /\ Others("bonds")
     \/ focus = "advertising" /\ AdvNext /\ Others("advertising")
     \/ focus = "lock" /\ LockNext /\ Others("lock")

Spec ==
  Init /\ [][Next]_<<focus, volumeVars, microphoneVars, hearingVars, capabilitiesVars, baseVars,
                    scanVars, subscriptionVars, bondVars, advVars, lockVars>>

\* The volume, the microphone, the presets, the bonds and the advertising keep their
\* state, counters and indexes in the range of its type, and tell their clients values of
\* that range only.  (The other five parts have properties of their values instead.)
TypeOK == VolumeTypeOK /\ MicrophoneTypeOK /\ HearingTypeOK /\ BondTypeOK /\ AdvTypeOK
=============================================================================
