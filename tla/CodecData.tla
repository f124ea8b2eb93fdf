----------------------------- MODULE CodecData -----------------------------
(***************************************************************************)
(* Codec configurations and metadata as they are on the air and in memory   *)
(* (ga_lib_bap.c).  On the air they are streams of bytes, one entry after   *)
(* the other, each with its length, its type and its value.  A value of 0   *)
(* in memory says that there is no entry.                                   *)
(***************************************************************************)
EXTENDS Integers, Sequences, SequencesExt

\* samp_freq_index
Frequencies == <<8000, 11025, 16000, 22050, 24000, 32000, 44100, 48000,
                 88200, 96000, 176400, 192000, 384000>>

\* BAP_FRAME_DURATION_7_5, BAP_FRAME_DURATION_10: the place in the sequence less 1
Durations == <<7500, 10000>>

\* ga_lib_bap_get_sampling_freq_index
FrequencyIndex(hz) ==
  IF hz \in Range(Frequencies) THEN CHOOSE i \in DOMAIN Frequencies : Frequencies[i] = hz ELSE 0

\* ga_lib_bap_get_sampling_freq_from_index
FrequencyFromIndex(i) == IF i \in DOMAIN Frequencies THEN Frequencies[i] ELSE 0

\* ga_lib_bap_get_frame_duration_index
DurationIndex(us) ==
  IF us \in Range(Durations) THEN CHOOSE i \in 0..1 : Durations[i + 1] = us ELSE 255

\* ga_lib_bap_get_frame_duration_from_index
DurationFromIndex(i) == IF i + 1 \in DOMAIN Durations THEN Durations[i + 1] ELSE 0

Two(v) == <<v % 256, v \div 256>>
Four(v) == Two(v) \o <<0, 0>>

\* The byte at place i; behind the end of the stream there may be anything
At(s, i) == IF i \in DOMAIN s THEN s[i] ELSE 0
TwoAt(s, i) == At(s, i) + 256 * At(s, i + 1)

-----------------------------------------------------------------------------
\* ga_lib_bap_update_ltv: an entry, or nothing if there is no room for it
Ltv(room, entry) ==
  IF room < 2 + Len(entry.value) THEN <<>>
  ELSE <<Len(entry.value) + 1, entry.type>> \o entry.value

\* The entries that fit, behind the byte that has their length
Filled(entries, room) ==
  LET body[k \in 0..Len(entries)] ==
        IF k = 0 THEN <<>>
        ELSE LET before == body[k - 1]
             IN before \o Ltv(room - 1 - Len(before), entries[k])
  IN <<Len(body[Len(entries)])>> \o body[Len(entries)]

\* ga_lib_ascs_csc_t
NoConfig == [sampling_frequency_hz |-> 0, frame_duration_us |-> 0,
             audio_channel_allocation |-> 0, octets_per_codec_frame |-> 0,
             lc3_blocks_per_sdu |-> 0]

\* The entries of a configuration
ConfigEntries(csc) ==
  LET of(v, type, value) == IF v = 0 THEN <<>> ELSE <<[type |-> type, value |-> value]>>
  IN of(csc.sampling_frequency_hz, 1, <<FrequencyIndex(csc.sampling_frequency_hz)>>)
     \o of(csc.frame_duration_us, 2, <<DurationIndex(csc.frame_duration_us)>>)
     \o of(csc.audio_channel_allocation, 3, Four(csc.audio_channel_allocation))
     \o of(csc.octets_per_codec_frame, 4, Two(csc.octets_per_codec_frame))
     \o of(csc.lc3_blocks_per_sdu, 5, <<csc.lc3_blocks_per_sdu>>)

FillConfig(csc, room) == Filled(ConfigEntries(csc), room)

\* The configuration with the entry of type at place i of the stream read
WithEntry(csc, s, i) ==
  CASE s[i] = 1 -> [csc EXCEPT !.sampling_frequency_hz = FrequencyFromIndex(At(s, i + 1))]
    [] s[i] = 2 -> [csc EXCEPT !.frame_duration_us = DurationFromIndex(At(s, i + 1))]
    [] s[i] = 3 -> [csc EXCEPT !.audio_channel_allocation = TwoAt(s, i + 1)]
    [] s[i] = 4 -> [csc EXCEPT !.octets_per_codec_frame = TwoAt(s, i + 1)]
    [] s[i] = 5 -> [csc EXCEPT !.lc3_blocks_per_sdu = At(s, i + 1)]

\* A frequency or duration that is not in its table ends the reading
NotInTable(csc, type) ==
  \/ type = 1 /\ csc.sampling_frequency_hz = 0
  \/ type = 2 /\ csc.frame_duration_us = 0

\* Bytes of an entry by its type: its length, its type and its value
EntrySize == <<3, 3, 6, 4, 3>>

\* The place, the bytes that are left and what was read, behind the next entry; a reading
\* that has ended stays where it is.  The place goes by the type of the entry, the bytes
\* that are left by its length.
ConfigRound(s, r) ==
  LET new == WithEntry(r.read, s, r.i + 1)
  IN IF r.left <= 0 \/ At(s, r.i + 1) \notin 1..5 THEN r
     ELSE IF NotInTable(new, At(s, r.i + 1)) THEN [i |-> r.i, left |-> 0, read |-> new]
     ELSE [i |-> r.i + EntrySize[At(s, r.i + 1)], left |-> r.left - At(s, r.i) - 1, read |-> new]

\* ga_lib_bap_parse_csc from place i on, with left bytes to go; what was read before
\* an error is kept, and so is every field without an entry.  A round takes a byte at least.
ReadConfig(s, i, left, csc) ==
  LET after[k \in 0..left] ==
        IF k = 0 THEN [i |-> i, left |-> left, read |-> csc] ELSE ConfigRound(s, after[k - 1])
  IN after[left].read

-----------------------------------------------------------------------------
\* ga_lib_ascs_metadata_t, of it what is read
NoMetadata == [preferred_audio_ctx |-> 0, streaming_audio_ctx |-> 0]

\* Metadata types: preferred 1 and streaming 2 audio contexts, program info 3, CCID list 5
MetadataEntries(m) ==
  LET of(v, type) == IF v = 0 THEN <<>> ELSE <<[type |-> type, value |-> Two(v)]>>
  IN of(m.preferred_audio_ctx, 1) \o of(m.streaming_audio_ctx, 2)

\* ga_lib_bap_fill_metadata; more is what the source adds: program info and the like
FillMetadata(m, more, room) == Filled(MetadataEntries(m) \o more, room)

ValidContext(v) == v < 4096

\* Mutant: the two contexts are taken for one another
ContextsSwapped(m, s, i) ==
  CASE s[i] = 1 -> [m EXCEPT !.streaming_audio_ctx = TwoAt(s, i + 1)]
    [] s[i] = 2 -> [m EXCEPT !.preferred_audio_ctx = TwoAt(s, i + 1)]

WithContext(m, s, i) ==
  CASE s[i] = 1 -> [m EXCEPT !.preferred_audio_ctx = TwoAt(s, i + 1)]
    [] s[i] = 2 -> [m EXCEPT !.streaming_audio_ctx = TwoAt(s, i + 1)]

\* A context outside the mask is stored, and ends the reading as any other type does.
\* Behind a CCID list it goes on one byte too late: the length that is skipped counts the
\* type, which was read before.
MetadataRound(s, r) ==
  LET length == At(s, r.i)
      type == At(s, r.i + 1)
      new == WithContext(r.read, s, r.i + 1)
  IN IF r.left = 0 \/ length > r.left \/ type \notin {1, 2, 5} THEN r
     ELSE IF type = 5 THEN [i |-> r.i + 2 + length, left |-> r.left - length - 1, read |-> r.read]
     ELSE IF ValidContext(TwoAt(s, r.i + 2))
          THEN [i |-> r.i + 4, left |-> r.left - length - 1, read |-> new]
     ELSE [i |-> r.i, left |-> 0, read |-> new]

\* ga_lib_bap_get_metadata from place i on, with left bytes to go
ReadMetadata(s, i, left, m) ==
  LET after[k \in 0..left] ==
        IF k = 0 THEN [i |-> i, left |-> left, read |-> m] ELSE MetadataRound(s, after[k - 1])
  IN after[left].read
=============================================================================
