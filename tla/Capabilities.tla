---------------------------- MODULE Capabilities ----------------------------
(***************************************************************************)
(* What the headset offers its clients (lehs_pacs.c): codec capabilities,   *)
(* audio locations and contexts, the decision on the configuration a client *)
(* writes for an ASE, and the metadata the client enables the ASE with.     *)
(* A client writes indexes, the headset compares frequencies, durations and *)
(* the bits of the capabilities.                                            *)
(***************************************************************************)
EXTENDS CodecData, FiniteSets

CONSTANTS
  OctetsMin,      \* 0x1A
  OctetsMax,      \* MAX_SUPPORTED_OCTETS_PER_CODEC_FRAME
  Requests,       \* the codec configurations clients write: an index of a frequency, one of
                  \* a duration + 1, 0 for no entry; octets, allocation and blocks
  Allocations,    \* sets of locations they write, {} for no entry
  Metadatas       \* metadata they enable with: sequences of [type, value]

ASSUME CapabilitiesConstants ==
  /\ {OctetsMin, OctetsMax} \subseteq Nat
  /\ OctetsMin <= OctetsMax
  /\ Requests \subseteq [frequency: 0..255, duration: 0..255, octets: Nat,
                        allocation: Allocations, blocks: 0..255]

AseTypes == {"sink", "source"}

\* Bits of the supported frequencies and durations in the published records
PublishedFrequencies == [sink |-> {0, 2, 4, 5, 6, 7}, source |-> {0, 2, 4, 5, 7}]
PublishedDurations == {0, 1}

VARIABLES
  locations,  \* [AseTypes -> set of locations]: snk_audio_location, src_audio_location
  accepted,   \* [type, request] of the codec configuration that was just accepted, else <<>>
  streaming,  \* [AseTypes -> metadata]: p_ase->metadata
  written     \* [AseTypes -> sequence of entries]: the metadata a client wrote last

capabilitiesVars == <<locations, accepted, streaming, written>>

\* ga_lib_ascs_parse_codec_config: an index that is in no table gives 0, as no entry does
Configuration(r) ==
  [sampling_frequency_hz |-> FrequencyFromIndex(r.frequency),
   frame_duration_us |-> IF r.duration = 0 THEN 0 ELSE DurationFromIndex(r.duration - 1),
   octets_per_codec_frame |-> r.octets,
   audio_channel_allocation |-> r.allocation,
   lc3_blocks_per_sdu |-> r.blocks]

-----------------------------------------------------------------------------
\* Mutant: the bit of a frequency is taken for its index
BitIsIndex(type, hz) == FrequencyIndex(hz) \in PublishedFrequencies[type]

\* lehs_pacs_compare_codec_param, one parameter each; one that is 0 is not compared
FrequencyPublished(type, hz) == (FrequencyIndex(hz) - 1) \in PublishedFrequencies[type]

DurationPublished(us) == DurationIndex(us) \in PublishedDurations

OctetsPublished(octets) == octets \in OctetsMin..OctetsMax

\* No record has a number of frames per SDU, so blocks and channels exclude nothing
Compared(type, cc) ==
  /\ cc.octets_per_codec_frame # 0 => OctetsPublished(cc.octets_per_codec_frame)
  /\ cc.sampling_frequency_hz # 0 => FrequencyPublished(type, cc.sampling_frequency_hz)
  /\ cc.frame_duration_us # 0 => DurationPublished(cc.frame_duration_us)

\* lehs_pacs_verify_audio_location: one location in common is enough
LocationOffered(type, asked) ==
  asked # {} /\ locations[type] # {} => asked \cap locations[type] # {}

\* lehs_pacs_verify_snk_codec_config, lehs_pacs_verify_src_codec_config
ConfigCodec(type, r) ==
  /\ Compared(type, Configuration(r))
  /\ LocationOffered(type, r.allocation)
  /\ accepted' = <<[type |-> type, request |-> r]>>
  /\ UNCHANGED <<locations, streaming, written>>

\* The metadata of an ENABLE or UPDATE_METADATA is read into the ASE, and stays there
\* when the write is refused because of its contexts
Written(entries) == Tail(Filled(entries, 255))

ReadIntoAse(type, entries) ==
  ReadMetadata(Written(entries), 1, Len(Written(entries)), streaming[type])

EnableAse(type, entries) ==
  /\ streaming' = [streaming EXCEPT ![type] = ReadIntoAse(type, entries)]
  /\ written' = [written EXCEPT ![type] = entries]
  /\ accepted' = <<>>
  /\ UNCHANGED locations

\* The write of AUDIO_LOCATIONS by a client
WriteLocations(type, locs) ==
  /\ locations' = [locations EXCEPT ![type] = locs]
  /\ accepted' = <<>>
  /\ UNCHANGED <<streaming, written>>

\* lehs_set_audio_location, by the host with the parameters of the coordinated set
SetAudioLocation(locs) ==
  /\ locations' = [type \in AseTypes |-> locs]
  /\ accepted' = <<>>
  /\ UNCHANGED <<streaming, written>>

CapabilitiesInit ==
  /\ locations \in {[type \in AseTypes |-> locs] : locs \in Allocations \ {{}}}
  /\ accepted = <<>>
  /\ streaming = [type \in AseTypes |-> NoMetadata]
  /\ written = [type \in AseTypes |-> <<>>]

CapabilitiesNext ==
  \/ \E type \in AseTypes :
       \/ \E r \in Requests : ConfigCodec(type, r)
       \/ \E entries \in Metadatas : EnableAse(type, entries)
       \/ \E locs \in Allocations : WriteLocations(type, locs)
  \/ \E locs \in Allocations : SetAudioLocation(locs)

CapabilitiesSpec == CapabilitiesInit /\ [][CapabilitiesNext]_capabilitiesVars
-----------------------------------------------------------------------------
(* Properties *)

\* A frequency, duration and frame size of the tables the headset accepts for an ASE
\* are among those its published record has for that direction: the conversions from
\* index to frequency and back to a bit agree, which the direction that has one
\* frequency less shows.  (An index outside of the tables becomes 0 and is accepted.)
AcceptedIsPublished ==
  \A a \in Range(accepted) :
    /\ a.request.frequency \in DOMAIN Frequencies =>
         Frequencies[a.request.frequency] \in {8000, 16000, 24000, 32000, 48000}
                                              \cup (IF a.type = "sink" THEN {44100} ELSE {})
    /\ a.request.octets # 0 => a.request.octets \in OctetsMin..OctetsMax

\* The value of the last entry of a type, in a sequence where no CCID list and no
\* unknown type is followed by anything
LastOf(entries, type, old) ==
  LET at == {i \in DOMAIN entries : entries[i].type = type}
  IN IF at = {} THEN old ELSE LET i == CHOOSE k \in at : \A m \in at : m <= k
                              IN TwoAt(entries[i].value, 1)

\* After an ENABLE or UPDATE_METADATA the ASE streams for the contexts the client wrote,
\* whatever order the entries have, and a context the write does not name is the one
\* of before.
ContextsAsWritten ==
  [][\A type \in AseTypes :
       /\ streaming'[type].preferred_audio_ctx
            = LastOf(written'[type], 1, streaming[type].preferred_audio_ctx)
       /\ streaming'[type].streaming_audio_ctx
            = LastOf(written'[type], 2, streaming[type].streaming_audio_ctx)]_capabilitiesVars
=============================================================================
