--------------------------- MODULE BroadcastBase ---------------------------
(***************************************************************************)
(* What a broadcast source says of its streams in the BASE of its periodic  *)
(* advertising (le_audio_bap_broadcast.c), how the headset reads it, and    *)
(* which of the streams it takes: the selection by audio location           *)
(* (lehs_bass.c, lehs_bis.c) and the channel of each (lehs_offload.c).      *)
(***************************************************************************)
EXTENDS CodecData

CONSTANTS
  SubgroupsMax,  \* BROADCAST_MAX_SUB_GROUP
  BisesMax,      \* BROADCAST_MAX_BIS_PER_SUB_GROUP
  BaseMax,       \* MAX_SUPPORTED_BASE_SIZE
  SourceBases,   \* the BASEs sources announce, as they hold them
  SinkLocations  \* audio locations of the headset

ASSUME BroadcastBaseConstants ==
  /\ SubgroupsMax \in Nat
  /\ BisesMax \in Nat
  /\ BaseMax \in 0..255
  /\ \A base \in SourceBases :
       /\ Len(base) <= SubgroupsMax
       /\ \A i \in DOMAIN base : Len(base[i].bis_config) <= BisesMax

VARIABLES
  source,    \* the BASE of the source: a sequence of subgroups, [csc, metadata, more, bis_config]
  base,      \* the base of the BIG: [sub_group_cnt, sub_group], each [csc, metadata, bis_config]
  location,  \* snk_audio_location, a number of bits
  synced     \* bis_idx_list: the set of the BISes that the BIG sync is created for

baseVars == <<source, base, location, synced>>

\* Bitwise and of two locations that have the bits of front left, 1, and right, 2, only
Overlap(a, b) == (a % 2 = 1 /\ b % 2 = 1) \/ (a >= 2 /\ b >= 2)

-----------------------------------------------------------------------------
\* le_audio_bap_build_base_data: the BISes, the subgroups and the whole, each behind s
AddBis(s, bis) == s \o <<bis.bis_idx>> \o FillConfig(bis.bis_csc, BaseMax - Len(s) - 1)

AddBises(s, bises) ==
  LET after[k \in 0..Len(bises)] == IF k = 0 THEN s ELSE AddBis(after[k - 1], bises[k])
  IN after[Len(bises)]

AddSubgroup(s, g) ==
  LET head == s \o <<Len(g.bis_config), 6, 0, 0, 0, 0>>   \* bis_cnt, the codec id of LC3
      withConfig == head \o FillConfig(g.csc, BaseMax - Len(head))
      withMetadata == withConfig \o FillMetadata(g.metadata, g.more, BaseMax - Len(withConfig))
  IN AddBises(withMetadata, g.bis_config)

\* Length, service data and UUID, presentation delay, and the subgroups
BaseHead(groups) == <<0, 22, 81, 24, 64, 156, 0, Len(groups)>>

BuiltBase(groups) ==
  LET after[k \in 0..Len(groups)] ==
        IF k = 0 THEN BaseHead(groups) ELSE AddSubgroup(after[k - 1], groups[k])
  IN after[Len(groups)]

\* le_audio_bap_broadcast_is_basic_announcement: the data behind length and type
Announced(groups) == SubSeq(BuiltBase(groups), 3, Len(BuiltBase(groups)))

-----------------------------------------------------------------------------
\* Mutant: a BIS starts from nothing
BisFromNothing(csc) == NoConfig

\* A BIS has the configuration of its subgroup where it names none
BisStartsFrom(csc) == csc

\* Reading has come to place i of s, with left bytes to go as it counts, and found items.
\* The next BIS is read from there.
ReadBis(s, acc, csc) ==
  LET length == At(s, acc.i + 1)
  IN IF acc.left < 2 \/ acc.left - 2 < length THEN [acc EXCEPT !.ok = FALSE]
     ELSE [i |-> acc.i + 2 + length, left |-> acc.left - 2 - length, ok |-> TRUE,
           items |-> Append(acc.items, [bis_idx |-> At(s, acc.i),
                       bis_csc |-> ReadConfig(s, acc.i + 2, length, BisStartsFrom(csc))])]

ReadBises(s, start, csc, n) ==
  LET after[k \in 0..n] ==
        IF k = 0 THEN start
        ELSE LET acc == after[k - 1] IN IF acc.ok THEN ReadBis(s, acc, csc) ELSE acc
  IN after[n]

\* The next subgroup: 8 bytes at least, with the lengths of configuration and metadata
ReadSubgroup(s, acc) ==
  LET cscLength == At(s, acc.i + 6)
      csc == ReadConfig(s, acc.i + 7, cscLength, NoConfig)
      j == acc.i + 7 + cscLength
      left == acc.left - 8 - cscLength
      metadataLength == At(s, j)
      metadata == ReadMetadata(s, j + 1, metadataLength, NoMetadata)
      start == [i |-> j + 1 + metadataLength, left |-> left - metadataLength, ok |-> TRUE, items |-> <<>>]
      end == ReadBises(s, start, csc, At(s, acc.i))
      group == [csc |-> csc, metadata |-> metadata, bis_config |-> end.items]
  IN IF left < 0 \/ left < metadataLength THEN [acc EXCEPT !.ok = FALSE]
     ELSE [end EXCEPT !.items = Append(acc.items, group)]

\* le_audio_bap_broadcast_parse_base_info into the base of a BIG that was cleared.  The
\* UUID is not counted off, so that 2 bytes are left behind the last BIS.
ParsedBase(s) ==
  LET start == [i |-> 7, left |-> Len(s) - 4, ok |-> TRUE, items |-> <<>>]
      after[k \in 0..At(s, 6)] ==
        IF k = 0 THEN start
        ELSE LET acc == after[k - 1] IN IF acc.ok /\ acc.left >= 8 THEN ReadSubgroup(s, acc) ELSE acc
  IN [sub_group_cnt |-> At(s, 6), sub_group |-> after[At(s, 6)].items]

\* The base of a BIG that was allocated and has read no report
NoBase == [sub_group_cnt |-> 0, sub_group |-> <<>>]

\* priv_periodic_adv_data_report_handler, the first report with a BASE: b_base_updated
ReadBase ==
  /\ base = NoBase
  /\ Len(BuiltBase(source)) <= BaseMax
  /\ base' = ParsedBase(Announced(source))
  /\ UNCHANGED <<source, location, synced>>

\* A mask is the set of its bits, from bit 0 on; that of a BIS index, which is a byte
BitsOf(idx) == {b \in 0..7 : (idx \div 2^b) % 2 = 1}

\* lehs_bass_synchronize_to_source with no preference: the BIS indexes are or-ed
Preferred(bises, loc) ==
  UNION {BitsOf(bises[i].bis_idx) :
           i \in {j \in DOMAIN bises : Overlap(bises[j].bis_csc.audio_channel_allocation, loc)}}

\* lehs_sync_to_source: those of the first subgroup whose bit is set, bit 0 for index 1
Listed(bises, bits) == {b \in Range(bises) : b.bis_idx - 1 \in bits}

SyncToBises ==
  /\ base.sub_group # <<>>
  /\ synced = {}
  /\ LET bises == base.sub_group[1].bis_config
     IN synced' = Listed(bises, Preferred(bises, location))
  /\ UNCHANGED <<source, base, location>>

\* get_stream_audio_location: the channel a BIS is played on
Channel(idx) ==
  LET own == {b \in Range(base.sub_group[1].bis_config) :
                b.bis_idx = idx /\ b.bis_csc.audio_channel_allocation # 0}
  IN IF own = {} THEN base.sub_group[1].csc.audio_channel_allocation
     ELSE (CHOOSE b \in own : TRUE).bis_csc.audio_channel_allocation

\* broadcast_sink_clear_big_data: the BIG is taken for another source
TakeSource(new) ==
  /\ base # NoBase
  /\ source' = new
  /\ base' = NoBase
  /\ synced' = {}
  /\ UNCHANGED location

BaseInit ==
  /\ source \in SourceBases
  /\ base = NoBase
  /\ location \in SinkLocations
  /\ synced = {}

BaseNext ==
  \/ ReadBase
  \/ SyncToBises
  \/ \E new \in SourceBases : TakeSource(new)

BaseSpec == BaseInit /\ [][BaseNext]_baseVars
-----------------------------------------------------------------------------
(* Properties *)

\* What a BIS of a source is configured as: its own values, else those of its subgroup
Merged(csc, own) ==
  [f \in DOMAIN csc |-> IF own[f] = 0 THEN csc[f] ELSE own[f]]

\* The headset reads from the bytes of a BASE what the source put there: every
\* subgroup and BIS, in order, none cut off by the count of the bytes that are left,
\* a BIS with the values of its subgroup where it has none of its own, and the
\* contexts whatever metadata stands behind them.
ReadsWhatIsAnnounced ==
  base # NoBase =>
    /\ base.sub_group_cnt = Len(source)
    /\ base.sub_group = [i \in DOMAIN source |->
         [csc |-> source[i].csc,
          metadata |-> source[i].metadata,
          bis_config |-> [k \in DOMAIN source[i].bis_config |->
             LET bis == source[i].bis_config[k]
             IN [bis_idx |-> bis.bis_idx, bis_csc |-> Merged(source[i].csc, bis.bis_csc)]]]]

\* Left to itself the headset takes of the first subgroup exactly the BISes that
\* have audio for one of its locations, whatever their indexes are, since each has
\* its bit, and plays each on that channel.  It is not so of indexes from 3 on (README).
TakesItsChannels ==
  synced # {} =>
    LET bises == source[1].bis_config
        allocation(b) == Merged(source[1].csc, b.bis_csc).audio_channel_allocation
    IN /\ {s.bis_idx : s \in synced}
          = {b.bis_idx : b \in {c \in Range(bises) : Overlap(allocation(c), location)}}
       /\ \A b \in Range(bises) : Channel(b.bis_idx) = allocation(b)
=============================================================================
