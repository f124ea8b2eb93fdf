------------------------ MODULE BroadcastDataProofs ------------------------
(***************************************************************************)
(* What the headset reads from a BASE is what its source put there, for all *)
(* BASEs that fit the room for one, and a command of the scan control point *)
(* is understood as it was written, for all commands as clients have them:  *)
(* the stream is taken apart as it was put together, and every place the    *)
(* reading comes to is where the next part of it begins.                    *)
(***************************************************************************)
EXTENDS BroadcastBase, ScanCommands, CodecProofs

-----------------------------------------------------------------------------
(* Codec configurations *)

U8 == 0..(16 * 16 - 1)

\* Configurations as sources have them, 0 for a field without an entry
Configs ==
  [sampling_frequency_hz: {0} \cup Range(Frequencies), frame_duration_us: {0} \cup Range(Durations),
   audio_channel_allocation: U16, octets_per_codec_frame: U16, lc3_blocks_per_sdu: U8]

Conf(hz, us, locs, octets, blocks) ==
  [sampling_frequency_hz |-> hz, frame_duration_us |-> us, audio_channel_allocation |-> locs,
   octets_per_codec_frame |-> octets, lc3_blocks_per_sdu |-> blocks]

\* The field an entry of a type is about, and the value of such an entry
Field(csc, type) ==
  CASE type = 1 -> csc.sampling_frequency_hz
    [] type = 2 -> csc.frame_duration_us
    [] type = 3 -> csc.audio_channel_allocation
    [] type = 4 -> csc.octets_per_codec_frame
    [] type = 5 -> csc.lc3_blocks_per_sdu

ValueOf(csc, type) ==
  CASE type = 1 -> <<FrequencyIndex(csc.sampling_frequency_hz)>>
    [] type = 2 -> <<DurationIndex(csc.frame_duration_us)>>
    [] type = 3 -> Four(csc.audio_channel_allocation)
    [] type = 4 -> Two(csc.octets_per_codec_frame)
    [] type = 5 -> <<csc.lc3_blocks_per_sdu>>

LEMMA FrequencyBack ==
  ASSUME NEW hz \in Range(Frequencies)
  PROVE  FrequencyIndex(hz) \in Nat /\ FrequencyFromIndex(FrequencyIndex(hz)) = hz /\ hz # 0
<1>1. PICK i \in DOMAIN Frequencies : hz = Frequencies[i]
  BY DEF Range
<1>2. FrequencyIndex(hz) = i /\ hz # 0 /\ i \in Nat
  BY <1>1, FrequencyIndexIs, FrequenciesAre
<1> QED
  BY <1>1, <1>2 DEF FrequencyFromIndex

LEMMA DurationBack ==
  ASSUME NEW us \in Range(Durations)
  PROVE  DurationIndex(us) \in Nat /\ DurationFromIndex(DurationIndex(us)) = us /\ us # 0
<1>1. DOMAIN Durations = {1, 2} /\ Durations[1] = 7500 /\ Durations[2] = 10000
  BY DEF Durations
<1>2. \E i \in 0..1 : Durations[i + 1] = us
  <2>1. us = Durations[0 + 1] \/ us = Durations[1 + 1]
    BY <1>1 DEF Range
  <2> QED BY <2>1
<1> DEFINE i == CHOOSE j \in 0..1 : Durations[j + 1] = us
<1>3. i \in 0..1 /\ Durations[i + 1] = us
  BY <1>2, Zenon
<1>4. DurationIndex(us) = i
  <2> HIDE DEF i
  <2> QED BY Zenon DEF DurationIndex, i
<1> HIDE DEF i
<1>5. i \in Nat /\ i + 1 \in DOMAIN Durations
  BY <1>1, <1>3
<1>6. us # 0
  BY <1>1, <1>3
<1> QED
  BY <1>3, <1>4, <1>5, <1>6 DEF DurationFromIndex

\* The bytes of a field, and what they are read as
LEMMA ConfigsAre ==
  ASSUME NEW csc \in Configs
  PROVE  /\ csc.sampling_frequency_hz \in {0} \cup Range(Frequencies)
         /\ csc.frame_duration_us \in {0} \cup Range(Durations)
         /\ csc.audio_channel_allocation \in Nat /\ csc.octets_per_codec_frame \in Nat
         /\ csc.lc3_blocks_per_sdu \in Nat
         /\ csc = Conf(csc.sampling_frequency_hz, csc.frame_duration_us, csc.audio_channel_allocation,
                       csc.octets_per_codec_frame, csc.lc3_blocks_per_sdu)
<1>1. ASSUME NEW v \in U16
      PROVE  v \in Nat
  BY ContextIsNat
<1>4. ASSUME NEW v \in U8
      PROVE  v \in Nat
  BY DEF U8
<1>2. /\ csc.sampling_frequency_hz \in {0} \cup Range(Frequencies)
      /\ csc.frame_duration_us \in {0} \cup Range(Durations)
      /\ csc.audio_channel_allocation \in U16 /\ csc.octets_per_codec_frame \in U16
      /\ csc.lc3_blocks_per_sdu \in U8
  BY DEF Configs
<1>3. csc = Conf(csc.sampling_frequency_hz, csc.frame_duration_us, csc.audio_channel_allocation,
                 csc.octets_per_codec_frame, csc.lc3_blocks_per_sdu)
  BY DEF Configs, Conf
<1> QED
  BY <1>1, <1>2, <1>3, <1>4, Zenon

LEMMA BytesOf ==
  ASSUME NEW v \in Nat
  PROVE  /\ <<v>> \in Bytes /\ Len(<<v>>) = 1 /\ <<v>>[1] = v
         /\ Two(v) \in Bytes /\ Len(Two(v)) = 2 /\ Two(v)[1] + 256 * Two(v)[2] = v
         /\ Four(v) \in Bytes /\ Len(Four(v)) = 4 /\ Four(v)[1] + 256 * Four(v)[2] = v
<1>1. v % 256 \in Nat /\ v \div 256 \in Nat /\ v = (v % 256) + 256 * (v \div 256)
  OBVIOUS
<1>2. Two(v) \in Bytes /\ Len(Two(v)) = 2 /\ Two(v)[1] = v % 256 /\ Two(v)[2] = v \div 256
  BY <1>1 DEF Two, Bytes
<1> DEFINE zeroes == <<0, 0>>
           two == Two(v)
           four == Four(v)
<1>3. zeroes \in Bytes /\ Len(zeroes) = 2
  BY DEF Bytes
<1>4. four = two \o zeroes /\ two \in Bytes /\ Len(two) = 2
  BY <1>2 DEF Four
<1> HIDE DEF zeroes, two, four
<1>5. /\ four \in Bytes /\ Len(four) = Len(two) + Len(zeroes)
      /\ \A j \in 1..Len(two) : four[j] = two[j]
  <2>1. /\ two \o zeroes \in Bytes /\ Len(two \o zeroes) = Len(two) + Len(zeroes)
        /\ \A j \in 1..Len(two) : (two \o zeroes)[j] = two[j]
    BY <1>3, <1>4, Joined, Zenon
  <2> QED BY <1>4, <2>1
<1>6. four[1] = two[1] /\ four[2] = two[2] /\ Len(four) = 4 /\ four \in Bytes
  <2>1. 1 \in 1..Len(two) /\ 2 \in 1..Len(two)
    BY <1>4
  <2> QED BY <1>3, <1>4, <1>5, <2>1
<1>7. <<v>> \in Bytes /\ Len(<<v>>) = 1 /\ <<v>>[1] = v
  BY DEF Bytes
<1> QED
  BY <1>1, <1>2, <1>6, <1>7 DEF two, four

\* The bytes of a field, and what they are read as
LEMMA ValueIs ==
  ASSUME NEW csc \in Configs, NEW type \in 1..5, Field(csc, type) # 0
  PROVE  /\ ValueOf(csc, type) \in Bytes
         /\ Len(ValueOf(csc, type)) + 2 = EntrySize[type] /\ EntrySize[type] \in 3..6
         /\ type = 1 => FrequencyFromIndex(ValueOf(csc, type)[1]) = csc.sampling_frequency_hz
         /\ type = 2 => DurationFromIndex(ValueOf(csc, type)[1]) = csc.frame_duration_us
         /\ type = 3 => ValueOf(csc, type)[1] + 256 * ValueOf(csc, type)[2] = csc.audio_channel_allocation
         /\ type = 4 => ValueOf(csc, type)[1] + 256 * ValueOf(csc, type)[2] = csc.octets_per_codec_frame
         /\ type = 5 => ValueOf(csc, type)[1] = csc.lc3_blocks_per_sdu
<1>1. /\ csc.sampling_frequency_hz \in {0} \cup Range(Frequencies)
      /\ csc.frame_duration_us \in {0} \cup Range(Durations)
      /\ csc.audio_channel_allocation \in Nat /\ csc.octets_per_codec_frame \in Nat
      /\ csc.lc3_blocks_per_sdu \in Nat
  BY ConfigsAre
<1>2. EntrySize[1] = 3 /\ EntrySize[2] = 3 /\ EntrySize[3] = 6 /\ EntrySize[4] = 4 /\ EntrySize[5] = 3
  BY DEF EntrySize
<1> DEFINE val == ValueOf(csc, type)
<1>4. CASE type = 1
  <2> DEFINE hz == csc.sampling_frequency_hz
             index == FrequencyIndex(hz)
  <2>1. hz \in Range(Frequencies)
    BY <1>1, <1>4 DEF Field
  <2>2. val = <<index>>
    BY <1>4 DEF ValueOf
  <2> HIDE DEF val
  <2>3. index \in Nat /\ FrequencyFromIndex(index) = hz
    BY <2>1, FrequencyBack
  <2> HIDE DEF index
  <2>4. val \in Bytes /\ Len(val) = 1 /\ val[1] = index
    BY <2>2, <2>3, BytesOf, Zenon
  <2>5. /\ val \in Bytes /\ Len(val) + 2 = EntrySize[type] /\ EntrySize[type] \in 3..6
        /\ FrequencyFromIndex(val[1]) = hz
    BY <1>2, <1>4, <2>3, <2>4
  <2> QED BY <1>4, <2>5 DEF val
<1>5. CASE type = 2
  <2> DEFINE us == csc.frame_duration_us
             index == DurationIndex(us)
  <2>1. us \in Range(Durations)
    BY <1>1, <1>5 DEF Field
  <2>2. val = <<index>>
    BY <1>5 DEF ValueOf
  <2> HIDE DEF val
  <2>3. index \in Nat /\ DurationFromIndex(index) = us
    BY <2>1, DurationBack
  <2> HIDE DEF index
  <2>4. val \in Bytes /\ Len(val) = 1 /\ val[1] = index
    BY <2>2, <2>3, BytesOf, Zenon
  <2>5. /\ val \in Bytes /\ Len(val) + 2 = EntrySize[type] /\ EntrySize[type] \in 3..6
        /\ DurationFromIndex(val[1]) = us
    BY <1>2, <1>5, <2>3, <2>4
  <2> QED BY <1>5, <2>5 DEF val
<1>6. CASE type = 3
  <2> DEFINE v == csc.audio_channel_allocation
  <2>1. val = Four(v)
    BY <1>6 DEF ValueOf
  <2> HIDE DEF val
  <2>2. val \in Bytes /\ Len(val) = 4 /\ val[1] + 256 * val[2] = v
    BY <1>1, <2>1, BytesOf, Zenon
  <2>3. val \in Bytes /\ Len(val) + 2 = EntrySize[type] /\ EntrySize[type] \in 3..6
    BY <1>2, <1>6, <2>2
  <2> QED BY <1>6, <2>2, <2>3 DEF val
<1>7. CASE type = 4
  <2> DEFINE v == csc.octets_per_codec_frame
  <2>1. val = Two(v)
    BY <1>7 DEF ValueOf
  <2> HIDE DEF val
  <2>2. val \in Bytes /\ Len(val) = 2 /\ val[1] + 256 * val[2] = v
    BY <1>1, <2>1, BytesOf, Zenon
  <2>3. val \in Bytes /\ Len(val) + 2 = EntrySize[type] /\ EntrySize[type] \in 3..6
    BY <1>2, <1>7, <2>2
  <2> QED BY <1>7, <2>2, <2>3 DEF val
<1>8. CASE type = 5
  <2> DEFINE v == csc.lc3_blocks_per_sdu
  <2>1. val = <<v>>
    BY <1>8 DEF ValueOf
  <2> HIDE DEF val
  <2>2. val \in Bytes /\ Len(val) = 1 /\ val[1] = v
    BY <1>1, <2>1, BytesOf, Zenon
  <2>3. val \in Bytes /\ Len(val) + 2 = EntrySize[type] /\ EntrySize[type] \in 3..6
    BY <1>2, <1>8, <2>2
  <2> QED BY <1>8, <2>2, <2>3 DEF val
<1> HIDE DEF val
<1> QED
  BY <1>4, <1>5, <1>6, <1>7, <1>8

LEMMA RangeJoined ==
  ASSUME NEW S, NEW a \in Seq(S), NEW b \in Seq(S)
  PROVE  /\ a \o b \in Seq(S) /\ Len(a \o b) = Len(a) + Len(b)
         /\ \A x : x \in Range(a \o b) <=> x \in Range(a) \/ x \in Range(b)
<1>1. /\ a \o b \in Seq(S) /\ Len(a \o b) = Len(a) + Len(b)
      /\ DOMAIN a = 1..Len(a) /\ DOMAIN b = 1..Len(b) /\ DOMAIN (a \o b) = 1..(Len(a) + Len(b))
      /\ Len(a) \in Nat /\ Len(b) \in Nat
      /\ \A j \in 1..Len(a) : (a \o b)[j] = a[j]
      /\ \A j \in 1..Len(b) : (a \o b)[Len(a) + j] = b[j]
  OBVIOUS
<1>2. ASSUME NEW x \in Range(a \o b)
      PROVE  x \in Range(a) \/ x \in Range(b)
  <2>1. PICK j \in 1..(Len(a) + Len(b)) : x = (a \o b)[j]
    BY <1>1 DEF Range
  <2>2. CASE j <= Len(a)
    BY <1>1, <2>1, <2>2 DEF Range
  <2>3. CASE j > Len(a)
    <3>1. j - Len(a) \in 1..Len(b) /\ Len(a) + (j - Len(a)) = j
      BY <1>1, <2>3
    <3>2. x = b[j - Len(a)]
      BY <1>1, <2>1, <3>1
    <3> QED BY <1>1, <3>1, <3>2 DEF Range
  <2> QED BY <1>1, <2>2, <2>3
<1>3. ASSUME NEW x \in Range(a)
      PROVE  x \in Range(a \o b)
  <2>1. PICK j \in 1..Len(a) : x = a[j]
    BY <1>1 DEF Range
  <2>2. j \in 1..(Len(a) + Len(b)) /\ x = (a \o b)[j]
    BY <1>1, <2>1
  <2> QED BY <1>1, <2>2 DEF Range
<1>4. ASSUME NEW x \in Range(b)
      PROVE  x \in Range(a \o b)
  <2>1. PICK j \in 1..Len(b) : x = b[j]
    BY <1>1 DEF Range
  <2>2. Len(a) + j \in 1..(Len(a) + Len(b)) /\ x = (a \o b)[Len(a) + j]
    BY <1>1, <2>1
  <2> QED BY <1>1, <2>2 DEF Range
<1> QED
  BY <1>1, <1>2, <1>3, <1>4

\* The entry of a field, if it has one
One(csc, type) ==
  IF Field(csc, type) = 0 THEN <<>> ELSE <<[type |-> type, value |-> ValueOf(csc, type)]>>

LEMMA OneIs ==
  ASSUME NEW csc \in Configs, NEW type \in 1..5
  PROVE  /\ One(csc, type) \in Seq(Entries) /\ Len(One(csc, type)) \in 0..1
         /\ \A e : e \in Range(One(csc, type)) <=>
                     Field(csc, type) # 0 /\ e = [type |-> type, value |-> ValueOf(csc, type)]
<1>1. CASE Field(csc, type) = 0
  <2>1. One(csc, type) = <<>>
    BY <1>1 DEF One
  <2>2. <<>> \in Seq(Entries) /\ Len(<<>>) \in 0..1 /\ Range(<<>>) = {}
    BY DEF Range
  <2> QED BY <1>1, <2>1, <2>2
<1>2. CASE Field(csc, type) # 0
  <2> DEFINE entry == [type |-> type, value |-> ValueOf(csc, type)]
  <2>1. One(csc, type) = <<entry>>
    BY <1>2 DEF One
  <2>2. ValueOf(csc, type) \in Bytes /\ type \in Nat
    BY <1>2, ValueIs
  <2>3. entry \in Entries
    BY <2>2 DEF Entries
  <2> HIDE DEF entry
  <2>4. <<entry>> \in Seq(Entries) /\ Len(<<entry>>) \in 0..1
    BY <2>3
  <2>5. Range(<<entry>>) = {entry}
    BY DEF Range
  <2>6. One(csc, type) \in Seq(Entries) /\ Len(One(csc, type)) \in 0..1 /\ Range(One(csc, type)) = {entry}
    BY <2>1, <2>4, <2>5
  <2> QED BY <1>2, <2>6 DEF entry
<1> QED
  BY <1>1, <1>2

\* A configuration has an entry for each of its fields that is not 0
LEMMA ConfigEntriesAre ==
  ASSUME NEW csc \in Configs
  PROVE  /\ ConfigEntries(csc) \in Seq(Entries) /\ Len(ConfigEntries(csc)) \in 0..5
         /\ \A k \in 1..Len(ConfigEntries(csc)) :
              \E type \in 1..5 :
                Field(csc, type) # 0 /\ ConfigEntries(csc)[k] = [type |-> type, value |-> ValueOf(csc, type)]
         /\ \A type \in 1..5 : Field(csc, type) # 0 =>
              \E k \in 1..Len(ConfigEntries(csc)) : ConfigEntries(csc)[k].type = type
<1> DEFINE one(type) == One(csc, type)
           two == one(1) \o one(2)
           three == two \o one(3)
           four == three \o one(4)
           five == four \o one(5)
           entry(type) == [type |-> type, value |-> ValueOf(csc, type)]
           in(e, type) == Field(csc, type) # 0 /\ e = entry(type)
<1>1. ConfigEntries(csc) = five
  BY DEF ConfigEntries, One, Field, ValueOf
<1>2. \A type \in 1..5 : one(type) \in Seq(Entries) /\ Len(one(type)) \in 0..1
                         /\ \A e : e \in Range(one(type)) <=> in(e, type)
  BY OneIs
<1>3. 1 \in 1..5 /\ 2 \in 1..5 /\ 3 \in 1..5 /\ 4 \in 1..5 /\ 5 \in 1..5
  OBVIOUS
<1> HIDE DEF one, in
<1>4. /\ two \in Seq(Entries) /\ Len(two) = Len(one(1)) + Len(one(2))
      /\ \A e : e \in Range(two) <=> e \in Range(one(1)) \/ e \in Range(one(2))
  BY <1>2, <1>3, RangeJoined, Zenon
<1> HIDE DEF two
<1>5. /\ three \in Seq(Entries) /\ Len(three) = Len(two) + Len(one(3))
      /\ \A e : e \in Range(three) <=> e \in Range(two) \/ e \in Range(one(3))
  <2>1. two \in Seq(Entries) /\ one(3) \in Seq(Entries)
    BY <1>2, <1>3, <1>4, Zenon
  <2> QED BY <2>1, RangeJoined, ZenonT(30)
<1> HIDE DEF three
<1>6. /\ four \in Seq(Entries) /\ Len(four) = Len(three) + Len(one(4))
      /\ \A e : e \in Range(four) <=> e \in Range(three) \/ e \in Range(one(4))
  <2>1. three \in Seq(Entries) /\ one(4) \in Seq(Entries)
    BY <1>2, <1>3, <1>5, Zenon
  <2> QED BY <2>1, RangeJoined, ZenonT(30)
<1> HIDE DEF four
<1>7. /\ five \in Seq(Entries) /\ Len(five) = Len(four) + Len(one(5))
      /\ \A e : e \in Range(five) <=> e \in Range(four) \/ e \in Range(one(5))
  <2>1. four \in Seq(Entries) /\ one(5) \in Seq(Entries)
    BY <1>2, <1>3, <1>6, Zenon
  <2> QED BY <2>1, RangeJoined, ZenonT(30)
<1> HIDE DEF five
<1>8. Len(five) \in 0..5
  <2> DEFINE l1 == Len(one(1))
             l2 == Len(one(2))
             l3 == Len(one(3))
             l4 == Len(one(4))
             l5 == Len(one(5))
             l == Len(five)
  <2>1. l1 \in 0..1 /\ l2 \in 0..1 /\ l3 \in 0..1 /\ l4 \in 0..1 /\ l5 \in 0..1
    BY <1>2, <1>3, Zenon
  <2>2. l = (((l1 + l2) + l3) + l4) + l5
    BY <1>4, <1>5, <1>6, <1>7, Zenon
  <2> HIDE DEF l1, l2, l3, l4, l5, l
  <2>3. l \in 0..5
    BY <2>1, <2>2
  <2> QED BY <2>3 DEF l
<1>9. \A e : e \in Range(five) <=> \E type \in 1..5 : in(e, type)
  <2>1. \A type \in 1..5 : type = 1 \/ type = 2 \/ type = 3 \/ type = 4 \/ type = 5
    OBVIOUS
  <2>2. \A e : e \in Range(five) <=> in(e, 1) \/ in(e, 2) \/ in(e, 3) \/ in(e, 4) \/ in(e, 5)
    BY <1>2, <1>3, <1>4, <1>5, <1>6, <1>7, Zenon
  <2> QED BY <1>3, <2>1, <2>2, Zenon
<1>10. DOMAIN five = 1..Len(five)
  BY <1>7
<1>11. ASSUME NEW k \in 1..Len(five)
       PROVE  \E type \in 1..5 : Field(csc, type) # 0 /\ five[k] = entry(type)
  <2>1. five[k] \in Range(five)
    BY <1>10 DEF Range
  <2> QED BY <1>9, <2>1, Zenon DEF in
<1>12. ASSUME NEW type \in 1..5, Field(csc, type) # 0
       PROVE  \E k \in 1..Len(five) : five[k].type = type
  <2>1. entry(type) \in Range(five)
    BY <1>9, <1>12, Zenon DEF in
  <2>2. PICK k \in 1..Len(five) : five[k] = entry(type)
    BY <1>10, <2>1 DEF Range
  <2>3. five[k].type = type
    BY <2>2
  <2> QED BY <2>3
<1> QED
  BY <1>1, <1>7, <1>8, <1>11, <1>12

\* A configuration with the field of a type taken from another
WithField(c, csc, type) ==
  Conf(IF type = 1 THEN csc.sampling_frequency_hz ELSE c.sampling_frequency_hz,
       IF type = 2 THEN csc.frame_duration_us ELSE c.frame_duration_us,
       IF type = 3 THEN csc.audio_channel_allocation ELSE c.audio_channel_allocation,
       IF type = 4 THEN csc.octets_per_codec_frame ELSE c.octets_per_codec_frame,
       IF type = 5 THEN csc.lc3_blocks_per_sdu ELSE c.lc3_blocks_per_sdu)

\* The stream s has the entry of a field at place i
HasEntry(s, i, csc, type) ==
  /\ At(s, i) = Len(ValueOf(csc, type)) + 1 /\ At(s, i + 1) = type
  /\ \A j \in 1..Len(ValueOf(csc, type)) : At(s, i + 1 + j) = ValueOf(csc, type)[j]

LEMMA EntryReads ==
  ASSUME NEW csc \in Configs, NEW type \in 1..5, Field(csc, type) # 0, NEW c \in Configs,
         NEW s, NEW i \in Nat, HasEntry(s, i, csc, type)
  PROVE  WithEntry(c, s, i + 1) = WithField(c, csc, type)
<1> DEFINE val == ValueOf(csc, type)
<1>1. s[i + 1] = type
  <2>1. At(s, i + 1) = type /\ type # 0
    BY DEF HasEntry
  <2> QED BY <2>1 DEF At
<1>2. Len(val) + 2 = EntrySize[type] /\ val \in Bytes
  BY ValueIs
<1>3. Len(val) \in Nat /\ Len(val) >= 1 /\ (type \in {3, 4} => Len(val) >= 2)
  <2> DEFINE length == Len(val)
  <2> HIDE DEF val
  <2>1. length \in Nat
    BY <1>2 DEF Bytes
  <2>2. length + 2 = EntrySize[type]
    BY <1>2
  <2>3. type = 1 \/ type = 2 \/ type = 3 \/ type = 4 \/ type = 5
    OBVIOUS
  <2>4. EntrySize[1] = 3 /\ EntrySize[2] = 3 /\ EntrySize[3] = 6 /\ EntrySize[4] = 4 /\ EntrySize[5] = 3
    BY DEF EntrySize
  <2> HIDE DEF length
  <2>5. length >= 1 /\ (type \in {3, 4} => length >= 2)
    BY <2>1, <2>2, <2>3, <2>4
  <2> QED BY <2>1, <2>5 DEF length
<1>4. At(s, (i + 1) + 1) = val[1]
  <2>1. 1 \in 1..Len(val)
    BY <1>3
  <2> QED BY <2>1, Zenon DEF HasEntry
<1>5. type \in {3, 4} => TwoAt(s, (i + 1) + 1) = val[1] + 256 * val[2]
  <2> SUFFICES ASSUME type \in {3, 4}
               PROVE  TwoAt(s, (i + 1) + 1) = val[1] + 256 * val[2]
    OBVIOUS
  <2>1. 2 \in 1..Len(val)
    BY <1>3
  <2>2. At(s, i + 1 + 2) = val[2]
    BY <2>1, Zenon DEF HasEntry
  <2>3. ((i + 1) + 1) + 1 = i + 1 + 2
    OBVIOUS
  <2> QED BY <1>4, <2>2, <2>3, Zenon DEF TwoAt
<1>6. c = Conf(c.sampling_frequency_hz, c.frame_duration_us, c.audio_channel_allocation,
               c.octets_per_codec_frame, c.lc3_blocks_per_sdu)
  BY ConfigsAre
<1>7. /\ type = 1 => FrequencyFromIndex(val[1]) = csc.sampling_frequency_hz
      /\ type = 2 => DurationFromIndex(val[1]) = csc.frame_duration_us
      /\ type = 3 => val[1] + 256 * val[2] = csc.audio_channel_allocation
      /\ type = 4 => val[1] + 256 * val[2] = csc.octets_per_codec_frame
      /\ type = 5 => val[1] = csc.lc3_blocks_per_sdu
  BY ValueIs
<1> HIDE DEF val
<1> DEFINE new == WithEntry(c, s, i + 1)
<1>8. CASE type = 1
  <2>1. new = [c EXCEPT !.sampling_frequency_hz = csc.sampling_frequency_hz]
    BY <1>1, <1>4, <1>7, <1>8 DEF WithEntry
  <2> HIDE DEF new
  <2>2. new = WithField(c, csc, type)
    BY <1>6, <1>8, <2>1 DEF WithField, Conf
  <2> QED BY <2>2 DEF new
<1>9. CASE type = 2
  <2>1. new = [c EXCEPT !.frame_duration_us = csc.frame_duration_us]
    BY <1>1, <1>4, <1>7, <1>9 DEF WithEntry
  <2> HIDE DEF new
  <2>2. new = WithField(c, csc, type)
    BY <1>6, <1>9, <2>1 DEF WithField, Conf
  <2> QED BY <2>2 DEF new
<1>10. CASE type = 3
  <2>1. new = [c EXCEPT !.audio_channel_allocation = csc.audio_channel_allocation]
    BY <1>1, <1>5, <1>7, <1>10 DEF WithEntry
  <2> HIDE DEF new
  <2>2. new = WithField(c, csc, type)
    BY <1>6, <1>10, <2>1 DEF WithField, Conf
  <2> QED BY <2>2 DEF new
<1>11. CASE type = 4
  <2>1. new = [c EXCEPT !.octets_per_codec_frame = csc.octets_per_codec_frame]
    BY <1>1, <1>5, <1>7, <1>11 DEF WithEntry
  <2> HIDE DEF new
  <2>2. new = WithField(c, csc, type)
    BY <1>6, <1>11, <2>1 DEF WithField, Conf
  <2> QED BY <2>2 DEF new
<1>12. CASE type = 5
  <2>1. new = [c EXCEPT !.lc3_blocks_per_sdu = csc.lc3_blocks_per_sdu]
    BY <1>1, <1>4, <1>7, <1>12 DEF WithEntry
  <2> HIDE DEF new
  <2>2. new = WithField(c, csc, type)
    BY <1>6, <1>12, <2>1 DEF WithField, Conf
  <2> QED BY <2>2 DEF new
<1> QED
  BY <1>8, <1>9, <1>10, <1>11, <1>12

LEMMA WithFieldIs ==
  ASSUME NEW csc \in Configs, NEW type \in 1..5, NEW c \in Configs
  PROVE  /\ WithField(c, csc, type) \in Configs
         /\ Field(WithField(c, csc, type), type) = Field(csc, type)
         /\ \A t \in 1..5 : t # type => Field(WithField(c, csc, type), t) = Field(c, t)
<1>1. /\ csc.sampling_frequency_hz \in {0} \cup Range(Frequencies)
      /\ csc.frame_duration_us \in {0} \cup Range(Durations)
      /\ csc.audio_channel_allocation \in U16 /\ csc.octets_per_codec_frame \in U16
      /\ csc.lc3_blocks_per_sdu \in U8
  BY DEF Configs
<1>2. /\ c.sampling_frequency_hz \in {0} \cup Range(Frequencies)
      /\ c.frame_duration_us \in {0} \cup Range(Durations)
      /\ c.audio_channel_allocation \in U16 /\ c.octets_per_codec_frame \in U16
      /\ c.lc3_blocks_per_sdu \in U8
  BY DEF Configs
<1>3. WithField(c, csc, type) \in Configs
  BY <1>1, <1>2 DEF WithField, Conf, Configs
<1>4. type = 1 \/ type = 2 \/ type = 3 \/ type = 4 \/ type = 5
  OBVIOUS
<1>5. Field(WithField(c, csc, type), type) = Field(csc, type)
  BY <1>4 DEF Field, WithField, Conf
<1>6. ASSUME NEW t \in 1..5, t # type
      PROVE  Field(WithField(c, csc, type), t) = Field(c, t)
  <2>1. t = 1 \/ t = 2 \/ t = 3 \/ t = 4 \/ t = 5
    OBVIOUS
  <2> QED BY <1>6, <2>1 DEF Field, WithField, Conf
<1> QED
  BY <1>3, <1>5, <1>6

\* Configurations whose fields are the same are the same
LEMMA SameFields ==
  ASSUME NEW a \in Configs, NEW b \in Configs, \A type \in 1..5 : Field(a, type) = Field(b, type)
  PROVE  a = b
<1>1. 1 \in 1..5 /\ 2 \in 1..5 /\ 3 \in 1..5 /\ 4 \in 1..5 /\ 5 \in 1..5
  OBVIOUS
<1>2. /\ a.sampling_frequency_hz = b.sampling_frequency_hz /\ a.frame_duration_us = b.frame_duration_us
      /\ a.audio_channel_allocation = b.audio_channel_allocation
      /\ a.octets_per_codec_frame = b.octets_per_codec_frame
      /\ a.lc3_blocks_per_sdu = b.lc3_blocks_per_sdu
  <2>1. Field(a, 1) = Field(b, 1) /\ Field(a, 2) = Field(b, 2) /\ Field(a, 3) = Field(b, 3)
        /\ Field(a, 4) = Field(b, 4) /\ Field(a, 5) = Field(b, 5)
    BY <1>1, Zenon
  <2> QED BY <2>1 DEF Field
<1>3. /\ a = Conf(a.sampling_frequency_hz, a.frame_duration_us, a.audio_channel_allocation,
                  a.octets_per_codec_frame, a.lc3_blocks_per_sdu)
      /\ b = Conf(b.sampling_frequency_hz, b.frame_duration_us, b.audio_channel_allocation,
                  b.octets_per_codec_frame, b.lc3_blocks_per_sdu)
  BY ConfigsAre
<1> QED
  BY <1>2, <1>3, Zenon

\* A round of the reading takes an entry
LEMMA ConfigRoundReads ==
  ASSUME NEW csc \in Configs, NEW type \in 1..5, Field(csc, type) # 0,
         NEW s, NEW r, r.i \in Nat, r.left \in Nat \ {0}, r.read \in Configs, HasEntry(s, r.i, csc, type)
  PROVE  ConfigRound(s, r) = [i |-> r.i + EntrySize[type], left |-> r.left - EntrySize[type],
                              read |-> WithField(r.read, csc, type)]
<1> DEFINE new == WithEntry(r.read, s, r.i + 1)
           size == EntrySize[type]
<1>1. new = WithField(r.read, csc, type)
  BY EntryReads
<1>2. At(s, r.i + 1) = type /\ At(s, r.i) = Len(ValueOf(csc, type)) + 1
  BY DEF HasEntry
<1>3. Len(ValueOf(csc, type)) + 2 = size /\ size \in Nat
  <2>1. Len(ValueOf(csc, type)) + 2 = size /\ size \in 3..6
    BY ValueIs
  <2> QED BY <2>1
<1>4. At(s, r.i) = size - 1
  <2> DEFINE length == Len(ValueOf(csc, type))
  <2>1. length \in Nat
    BY ValueIs DEF Bytes
  <2> HIDE DEF length, size
  <2>2. length + 2 = size /\ At(s, r.i) = length + 1
    BY <1>2, <1>3 DEF length
  <2> QED BY <2>1, <2>2
<1> HIDE DEF new
<1>5. ~NotInTable(new, type)
  <2>1. Field(new, type) # 0
    BY <1>1, WithFieldIs
  <2> QED BY <2>1 DEF NotInTable, Field
<1>6. ConfigRound(s, r) =
        IF r.left <= 0 \/ At(s, r.i + 1) \notin 1..5 THEN r
        ELSE IF NotInTable(new, At(s, r.i + 1)) THEN [i |-> r.i, left |-> 0, read |-> new]
        ELSE [i |-> r.i + EntrySize[At(s, r.i + 1)], left |-> r.left - At(s, r.i) - 1, read |-> new]
  BY Zenon DEF ConfigRound, new
<1>7. ~(r.left <= 0)
  OBVIOUS
<1>8. ConfigRound(s, r) = [i |-> r.i + size, left |-> r.left - At(s, r.i) - 1, read |-> new]
  BY <1>2, <1>5, <1>6, <1>7, Zenon
<1>9. r.left - At(s, r.i) - 1 = r.left - size
  <2> HIDE DEF size
  <2> QED BY <1>3, <1>4
<1> QED
  BY <1>1, <1>8, <1>9, Zenon

LEMMA EndsExist ==
  ASSUME NEW entries \in Seq(Entries)
  PROVE  \E size : Ends(size, entries)
<1> DEFINE n == Len(entries)
           step == [k \in 1..n |-> [x \in Nat |-> x + 2 + Len(entries[k].value)]]
<1>1. n \in Nat /\ \A k \in 1..n : Len(entries[k].value) \in Nat
  BY DEF Entries, Bytes
<1> HIDE DEF n
<1>2. step \in [1..n -> [Nat -> Nat]]
  <2>1. ASSUME NEW k \in 1..n, NEW x \in Nat
        PROVE  x + 2 + Len(entries[k].value) \in Nat
    <3> DEFINE length == Len(entries[k].value)
    <3>1. length \in Nat
      BY <1>1
    <3> HIDE DEF length
    <3>2. x + 2 + length \in Nat
      BY <3>1
    <3> QED BY <3>2 DEF length
  <2> QED BY <2>1
<1>3. PICK size : Chain(size, n, Nat, 0, step)
  <2> HIDE DEF step
  <2> QED BY <1>1, <1>2, Chains
<1>4. size \in [0..n -> Nat] /\ size[0] = 0
  BY <1>3 DEF Chain
<1>5. ASSUME NEW k \in 1..n
      PROVE  size[k] = size[k - 1] + 2 + Len(entries[k].value)
  <2>1. size[k] = step[k][size[k - 1]]
    <3> HIDE DEF step
    <3> QED BY <1>3 DEF Chain
  <2>2. size[k - 1] \in Nat
    BY <1>1, <1>4
  <2> QED BY <2>1, <2>2
<1> QED
  BY <1>4, <1>5 DEF Ends, n

\* F takes the rounds of the reading
ConfigRounds(F, S, s, i, left, c) ==
  /\ left \in Nat /\ F \in [0..left -> S]
  /\ F[0] = [i |-> i, left |-> left, read |-> c]
  /\ \A k \in 1..left : F[k] = ConfigRound(s, F[k - 1])

\* It has what is read
LEMMA ReadConfigBy ==
  ASSUME NEW s, NEW i, NEW left, NEW c, NEW S, NEW F, ConfigRounds(F, S, s, i, left, c)
  PROVE  ReadConfig(s, i, left, c) = F[left].read
<1> USE DEF ConfigRounds
<1> DEFINE start == [i |-> i, left |-> left, read |-> c]
           step == [k \in 1..left |-> [r \in S |-> ConfigRound(s, r)]]
           Eq(g) == g = [k \in 0..left |-> IF k = 0 THEN start ELSE ConfigRound(s, g[k - 1])]
           after == CHOOSE g : Eq(g)
<1> HIDE DEF start
<1>1. \A k \in 1..left : k - 1 \in 0..left /\ F[k - 1] \in S
  OBVIOUS
<1>2. Chain(F, left, S, start, step)
  <2>2. F[0] = start
    BY DEF start
  <2>3. \A k \in 1..left : F[k] = step[k][F[k - 1]]
    BY <1>1
  <2> QED BY <2>2, <2>3 DEF Chain
<1>3. Eq(F)
  <2>1. \A k \in 0..left : k = 0 \/ k \in 1..left
    OBVIOUS
  <2>2. F[0] = start
    BY DEF start
  <2>3. F = [k \in 0..left |-> F[k]]
    OBVIOUS
  <2> QED BY <2>1, <2>2, <2>3
<1>4. Eq(after)
  <2> HIDE DEF Eq
  <2> QED BY <1>3, Zenon
<1>5. /\ after = [k \in 0..left |-> IF k = 0 THEN start ELSE ConfigRound(s, after[k - 1])]
      /\ ReadConfig(s, i, left, c) = after[left].read
  BY <1>4, Zenon DEF ReadConfig, start
<1> HIDE DEF after
<1>6. after[0] = start /\ \A k \in 1..left : after[k] = ConfigRound(s, after[k - 1])
  BY <1>5
<1>7. \A k \in 1..left : after[k - 1] \in S => after[k] = step[k][after[k - 1]]
  BY <1>6
<1>8. \A k \in 0..left : after[k] = F[k]
  <2> HIDE DEF step
  <2> QED BY <1>2, <1>6, <1>7, ChainOnly
<1>9. after[left] = F[left]
  BY <1>8
<1> QED
  BY <1>5, <1>9

\* The entries of a configuration: how many, their types and where each ends
ConfigShape(csc, n, type, size) ==
  /\ n \in 0..5 /\ n = Len(ConfigEntries(csc)) /\ type \in [1..n -> 1..5]
  /\ Ends(size, ConfigEntries(csc))
  /\ \A k \in 1..n :
       /\ Field(csc, type[k]) # 0
       /\ ConfigEntries(csc)[k] = [type |-> type[k], value |-> ValueOf(csc, type[k])]
       /\ size[k] = size[k - 1] + EntrySize[type[k]]
  /\ \A t \in 1..5 : Field(csc, t) # 0 => \E k \in 1..n : type[k] = t
  /\ size \in [0..n -> Nat] /\ size[0] = 0
  /\ \A k \in 0..n : k <= size[k] /\ size[k] <= 6 * k /\ size[k] <= size[n]

LEMMA ConfigShapeIs ==
  ASSUME NEW csc \in Configs
  PROVE  \E n, type, size : ConfigShape(csc, n, type, size)
<1> DEFINE entries == ConfigEntries(csc)
<1>1. /\ entries \in Seq(Entries) /\ Len(entries) \in 0..5
      /\ \A k \in 1..Len(entries) :
           \E t \in 1..5 : Field(csc, t) # 0 /\ entries[k] = [type |-> t, value |-> ValueOf(csc, t)]
      /\ \A t \in 1..5 : Field(csc, t) # 0 => \E k \in 1..Len(entries) : entries[k].type = t
  BY ConfigEntriesAre
<1> HIDE DEF entries
<1>2. PICK n \in 0..5 : n = Len(entries)
  BY <1>1
<1> DEFINE type == [k \in 1..n |-> entries[k].type]
<1>3. ASSUME NEW k \in 1..n
      PROVE  /\ entries[k].type \in 1..5 /\ Field(csc, entries[k].type) # 0
             /\ entries[k] = [type |-> entries[k].type, value |-> ValueOf(csc, entries[k].type)]
  <2>1. PICK t \in 1..5 : Field(csc, t) # 0 /\ entries[k] = [type |-> t, value |-> ValueOf(csc, t)]
    BY <1>1, <1>2
  <2>2. entries[k].type = t
    BY <2>1
  <2> QED BY <2>1, <2>2, Zenon
<1>4. PICK size : Ends(size, entries)
  BY <1>1, EndsExist
<1>5. size \in [0..n -> Nat] /\ size[0] = 0
      /\ \A k \in 1..n : size[k] = size[k - 1] + 2 + Len(entries[k].value)
  BY <1>2, <1>4, Zenon DEF Ends
<1>6. ASSUME NEW k \in 1..n
      PROVE  size[k] = size[k - 1] + EntrySize[entries[k].type] /\ EntrySize[entries[k].type] \in 3..6
  <2> DEFINE t == entries[k].type
             length == Len(ValueOf(csc, t))
  <2> HIDE DEF t
  <2>1. t \in 1..5 /\ Field(csc, t) # 0 /\ entries[k] = [type |-> t, value |-> ValueOf(csc, t)]
    BY <1>3 DEF t
  <2>2. length + 2 = EntrySize[t] /\ EntrySize[t] \in 3..6 /\ ValueOf(csc, t) \in Bytes
    BY <2>1, ValueIs
  <2>3. length \in Nat
    BY <2>2 DEF Bytes
  <2>4. entries[k].value = ValueOf(csc, t)
    BY <2>1
  <2>5. size[k] = size[k - 1] + 2 + length
    BY <1>5, <2>4, Zenon
  <2>6. size[k - 1] \in Nat
    BY <1>5
  <2> HIDE DEF length
  <2>7. size[k] = size[k - 1] + EntrySize[t]
    BY <2>2, <2>3, <2>5, <2>6
  <2> QED BY <2>2, <2>7 DEF t
<1> DEFINE H == {k \in Nat : k > n \/ (k <= size[k] /\ size[k] <= 6 * k)}
<1>7. 0 \in H
  <2>1. size[0] = 0
    BY <1>5
  <2>2. 0 <= size[0] /\ size[0] <= 6 * 0
    BY <2>1
  <2> QED BY <2>2
<1>8. ASSUME NEW k \in Nat, k \in H
      PROVE  k + 1 \in H
  <2>1. CASE k + 1 > n
    BY <2>1
  <2>2. CASE k + 1 <= n
    <3>1. k + 1 \in 1..n /\ (k + 1) - 1 = k /\ k \in 0..n /\ ~(k > n)
      BY <2>2
    <3>2. k <= size[k] /\ size[k] <= 6 * k /\ size[k] \in Nat
      BY <1>5, <1>8, <3>1
    <3> DEFINE more == EntrySize[entries[k + 1].type]
    <3>3. size[k + 1] = size[k] + more /\ more \in 3..6
      BY <1>6, <3>1
    <3> HIDE DEF more
    <3>4. k + 1 <= size[k + 1] /\ size[k + 1] <= 6 * (k + 1)
      BY <3>2, <3>3
    <3> QED BY <3>4
  <2> QED BY <2>1, <2>2
<1>9. \A k \in Nat : k \in H
  <2> HIDE DEF H
  <2> QED BY <1>7, <1>8, Inductive
<1>10. \A k \in 0..n : size[k] <= size[n]
  <2>1. n \in 0..n
    OBVIOUS
  <2> QED BY <1>1, <1>2, <1>4, <2>1, EndsGrow
<1>11. \A k \in 0..n : k <= size[k] /\ size[k] <= 6 * k
  BY <1>9
<1>12. type \in [1..n -> 1..5] /\ \A k \in 1..n : type[k] = entries[k].type
  BY <1>3
<1> HIDE DEF type
<1>13. ASSUME NEW t \in 1..5, Field(csc, t) # 0
       PROVE  \E k \in 1..n : type[k] = t
  BY <1>1, <1>2, <1>12, <1>13, ZenonT(60)
<1>14. ConfigShape(csc, n, type, size)
  <2>1. ASSUME NEW k \in 1..n
        PROVE  /\ Field(csc, type[k]) # 0
               /\ ConfigEntries(csc)[k] = [type |-> type[k], value |-> ValueOf(csc, type[k])]
               /\ size[k] = size[k - 1] + EntrySize[type[k]]
    BY <1>3, <1>6, <1>12, Zenon DEF entries
  <2> QED BY <1>2, <1>4, <1>5, <1>10, <1>11, <1>12, <1>13, <2>1, Zenon DEF ConfigShape, entries
<1> QED
  BY <1>14, Zenon

LEMMA ConfigFilled ==
  ASSUME NEW csc \in Configs, NEW n, NEW type, NEW size, ConfigShape(csc, n, type, size)
  PROVE  LET f == FillConfig(csc, 255)
         IN /\ f \in Bytes /\ Len(f) = 1 + size[n] /\ f[1] = size[n]
            /\ \A k \in 1..n :
                 /\ f[size[k - 1] + 2] = Len(ValueOf(csc, type[k])) + 1
                 /\ f[size[k - 1] + 3] = type[k]
                 /\ \A j \in 1..Len(ValueOf(csc, type[k])) : f[size[k - 1] + 3 + j] = ValueOf(csc, type[k])[j]
<1> DEFINE entries == ConfigEntries(csc)
           room == 255
           f == Filled(entries, room)
<1>1. entries \in Seq(Entries) /\ Ends(size, entries) /\ n = Len(entries) /\ n \in 0..5
  BY ConfigEntriesAre, Zenon DEF ConfigShape
<1>2. size[n] \in Nat /\ size[n] <= 6 * n
  <2>1. size \in [0..n -> Nat] /\ \A k \in 0..n : size[k] <= 6 * k
    BY Zenon DEF ConfigShape
  <2>2. n \in 0..n
    BY <1>1
  <2> QED BY <2>1, <2>2
<1>3. room \in Int /\ size[n] <= room - 1
  <2> DEFINE total == size[n]
  <2>1. total \in Nat /\ total <= 6 * n /\ n \in 0..5
    BY <1>1, <1>2
  <2> HIDE DEF total
  <2>2. total <= room - 1
    BY <2>1
  <2> QED BY <2>2 DEF total
<1>4. ASSUME NEW k \in 1..n
      PROVE  entries[k].type = type[k] /\ entries[k].value = ValueOf(csc, type[k])
  <2>1. entries[k] = [type |-> type[k], value |-> ValueOf(csc, type[k])]
    BY Zenon DEF ConfigShape
  <2> QED BY <2>1
<1>5. FillConfig(csc, 255) = f
  BY DEF FillConfig
<1> HIDE DEF room, entries
<1>7. size[Len(entries)] <= room - 1
  BY <1>1, <1>3, Zenon
<1>8. /\ f \in Bytes /\ Len(f) = 1 + size[Len(entries)] /\ f[1] = size[Len(entries)]
      /\ \A k \in 1..Len(entries) :
           /\ f[size[k - 1] + 2] = Len(entries[k].value) + 1
           /\ f[size[k - 1] + 3] = entries[k].type
           /\ \A j \in 1..Len(entries[k].value) : f[size[k - 1] + 3 + j] = entries[k].value[j]
  BY <1>1, <1>3, <1>7, FilledHolds
<1>6. /\ f \in Bytes /\ Len(f) = 1 + size[n] /\ f[1] = size[n]
      /\ \A k \in 1..n :
           /\ f[size[k - 1] + 2] = Len(entries[k].value) + 1
           /\ f[size[k - 1] + 3] = entries[k].type
           /\ \A j \in 1..Len(entries[k].value) : f[size[k - 1] + 3 + j] = entries[k].value[j]
  BY <1>1, <1>8, Zenon
<1> HIDE DEF f
<1>9. /\ f \in Bytes /\ Len(f) = 1 + size[n] /\ f[1] = size[n]
      /\ \A k \in 1..n :
           /\ f[size[k - 1] + 2] = Len(ValueOf(csc, type[k])) + 1
           /\ f[size[k - 1] + 3] = type[k]
           /\ \A j \in 1..Len(ValueOf(csc, type[k])) : f[size[k - 1] + 3 + j] = ValueOf(csc, type[k])[j]
  BY <1>4, <1>6, Zenon
<1> QED
  BY <1>5, <1>9

LEMMA ConfigStands ==
  ASSUME NEW csc \in Configs, NEW n, NEW type, NEW size, ConfigShape(csc, n, type, size),
         NEW s, NEW p \in Nat, Occurs(s, p, FillConfig(csc, 255))
  PROVE  \A k \in 1..n : HasEntry(s, p + size[k - 1], csc, type[k])
<1> DEFINE f == FillConfig(csc, 255)
<1>1. /\ f \in Bytes /\ Len(f) = 1 + size[n]
      /\ \A k \in 1..n :
           /\ f[size[k - 1] + 2] = Len(ValueOf(csc, type[k])) + 1
           /\ f[size[k - 1] + 3] = type[k]
           /\ \A j \in 1..Len(ValueOf(csc, type[k])) : f[size[k - 1] + 3 + j] = ValueOf(csc, type[k])[j]
  BY ConfigFilled
<1>2. Occurs(s, p, f)
  OBVIOUS
<1> HIDE DEF f
<1>3. /\ n \in 0..5 /\ size \in [0..n -> Nat] /\ type \in [1..n -> 1..5]
      /\ \A k \in 0..n : size[k] <= size[n]
      /\ \A k \in 1..n : Field(csc, type[k]) # 0 /\ size[k] = size[k - 1] + EntrySize[type[k]]
  BY Zenon DEF ConfigShape
<1> DEFINE total == size[n]
<1>4. total \in Nat
  BY <1>3
<1>5. \A i \in 1..total : At(s, p + i - 1) = f[i + 1]
  <2>1. Len(f) - 1 = total
    <3> HIDE DEF total
    <3>1. Len(f) = 1 + total
      BY <1>1 DEF total
    <3> QED BY <1>4, <3>1
  <2> QED BY <1>2, <2>1, Zenon DEF Occurs
<1>6. ASSUME NEW k \in 1..n
      PROVE  HasEntry(s, p + size[k - 1], csc, type[k])
  <2> DEFINE val == ValueOf(csc, type[k])
             length == Len(val)
             at == size[k - 1]
             t == type[k]
  <2>1. t \in 1..5 /\ Field(csc, t) # 0
    BY <1>3
  <2>2. val \in Bytes /\ length + 2 = EntrySize[t]
    BY <2>1, ValueIs, SMTT(30)
  <2>3. length \in Nat
    BY <2>2 DEF Bytes
  <2>4. at \in Nat /\ size[k] \in Nat /\ size[k] <= total /\ size[k] = at + EntrySize[t]
    <3>1. k - 1 \in 0..n /\ k \in 0..n
      BY <1>3
    <3> QED BY <1>3, <3>1
  <2>5. /\ f[at + 2] = length + 1 /\ f[at + 3] = t
        /\ \A j \in 1..length : f[at + 3 + j] = val[j]
    BY <1>1, Zenon
  <2> DEFINE end == size[k]
  <2> HIDE DEF total, length, at, val, t, end
  <2>6. end \in Nat /\ end <= total /\ end = at + length + 2
    <3>1. end = at + EntrySize[t] /\ end <= total /\ end \in Nat
      BY <2>4 DEF end, at
    <3> QED BY <2>2, <2>3, <2>4, <3>1
  <2>7. At(s, p + at) = length + 1 /\ At(s, p + at + 1) = t
    <3>1. at + 1 \in 1..total /\ p + (at + 1) - 1 = p + at /\ (at + 1) + 1 = at + 2
          /\ at + 2 \in 1..total /\ p + (at + 2) - 1 = p + at + 1 /\ (at + 2) + 1 = at + 3
      BY <1>4, <2>3, <2>4, <2>6
    <3> QED BY <1>5, <2>5, <3>1
  <2>8. ASSUME NEW j \in 1..length
        PROVE  At(s, p + at + 1 + j) = val[j]
    <3>1. at + 2 + j \in 1..total /\ p + (at + 2 + j) - 1 = p + at + 1 + j /\ (at + 2 + j) + 1 = at + 3 + j
      BY <1>4, <2>3, <2>4, <2>6
    <3>2. At(s, p + at + 1 + j) = f[at + 3 + j]
      BY <1>5, <3>1
    <3> QED BY <2>5, <3>2, Zenon
  <2> QED BY <2>7, <2>8, Zenon DEF HasEntry, length, at, val, t
<1> QED
  BY <1>6

\* What the fields of a configuration are where it names them, else those of another
Over(a, csc) ==
  Conf(IF csc.sampling_frequency_hz = 0 THEN a.sampling_frequency_hz ELSE csc.sampling_frequency_hz,
       IF csc.frame_duration_us = 0 THEN a.frame_duration_us ELSE csc.frame_duration_us,
       IF csc.audio_channel_allocation = 0 THEN a.audio_channel_allocation ELSE csc.audio_channel_allocation,
       IF csc.octets_per_codec_frame = 0 THEN a.octets_per_codec_frame ELSE csc.octets_per_codec_frame,
       IF csc.lc3_blocks_per_sdu = 0 THEN a.lc3_blocks_per_sdu ELSE csc.lc3_blocks_per_sdu)

LEMMA OverIs ==
  ASSUME NEW a \in Configs, NEW csc \in Configs
  PROVE  /\ Over(a, csc) \in Configs
         /\ \A t \in 1..5 : Field(Over(a, csc), t) = IF Field(csc, t) = 0 THEN Field(a, t) ELSE Field(csc, t)
<1>1. /\ csc.sampling_frequency_hz \in {0} \cup Range(Frequencies)
      /\ csc.frame_duration_us \in {0} \cup Range(Durations)
      /\ csc.audio_channel_allocation \in U16 /\ csc.octets_per_codec_frame \in U16
      /\ csc.lc3_blocks_per_sdu \in U8
  BY DEF Configs
<1>2. /\ a.sampling_frequency_hz \in {0} \cup Range(Frequencies)
      /\ a.frame_duration_us \in {0} \cup Range(Durations)
      /\ a.audio_channel_allocation \in U16 /\ a.octets_per_codec_frame \in U16
      /\ a.lc3_blocks_per_sdu \in U8
  BY DEF Configs
<1>3. Over(a, csc) \in Configs
  BY <1>1, <1>2 DEF Over, Conf, Configs
<1>4. ASSUME NEW t \in 1..5
      PROVE  Field(Over(a, csc), t) = IF Field(csc, t) = 0 THEN Field(a, t) ELSE Field(csc, t)
  <2>1. t = 1 \/ t = 2 \/ t = 3 \/ t = 4 \/ t = 5
    OBVIOUS
  <2> QED BY <2>1 DEF Field, Over, Conf
<1> QED
  BY <1>3, <1>4

LEMMA OverNothing ==
  ASSUME NEW csc \in Configs
  PROVE  Over(NoConfig, csc) = csc
<1>1. csc = Conf(csc.sampling_frequency_hz, csc.frame_duration_us, csc.audio_channel_allocation,
                 csc.octets_per_codec_frame, csc.lc3_blocks_per_sdu)
  BY ConfigsAre
<1>2. Over(NoConfig, csc) = Conf(csc.sampling_frequency_hz, csc.frame_duration_us, csc.audio_channel_allocation,
                                 csc.octets_per_codec_frame, csc.lc3_blocks_per_sdu)
  BY DEF Over, NoConfig
<1> QED
  BY <1>1, <1>2

LEMMA OverIsMerged ==
  ASSUME NEW a \in Configs, NEW csc \in Configs
  PROVE  Merged(a, csc) = Over(a, csc)
<1>1. /\ a = Conf(a.sampling_frequency_hz, a.frame_duration_us, a.audio_channel_allocation,
                  a.octets_per_codec_frame, a.lc3_blocks_per_sdu)
  BY ConfigsAre
<1>2. DOMAIN a = {"sampling_frequency_hz", "frame_duration_us", "audio_channel_allocation",
                  "octets_per_codec_frame", "lc3_blocks_per_sdu"}
  BY <1>1 DEF Conf
<1> QED
  BY <1>2 DEF Merged, Over, Conf

\* Reading a configuration from where it stands in a stream
LEMMA ConfigReads ==
  ASSUME NEW csc \in Configs, NEW c \in Configs, NEW s, NEW p \in Nat,
         Occurs(s, p, FillConfig(csc, 255))
  PROVE  ReadConfig(s, p, Len(FillConfig(csc, 255)) - 1, c) = Over(c, csc)
<1>1. PICK n, type, size : ConfigShape(csc, n, type, size)
  BY ConfigShapeIs, Zenon
<1>2. /\ n \in 0..5 /\ size \in [0..n -> Nat] /\ size[0] = 0 /\ type \in [1..n -> 1..5]
      /\ \A k \in 0..n : k <= size[k] /\ size[k] <= size[n]
      /\ \A k \in 1..n : Field(csc, type[k]) # 0 /\ size[k] = size[k - 1] + EntrySize[type[k]]
      /\ \A t \in 1..5 : Field(csc, t) # 0 => \E k \in 1..n : type[k] = t
  BY <1>1, Zenon DEF ConfigShape
<1>3. \A k \in 1..n : HasEntry(s, p + size[k - 1], csc, type[k])
  BY <1>1, ConfigStands
<1> DEFINE total == size[n]
<1>4. total \in Nat /\ n <= total /\ n \in Nat
  BY <1>2
<1>5. Len(FillConfig(csc, 255)) - 1 = total
  <2>1. Len(FillConfig(csc, 255)) = 1 + total
    BY <1>1, ConfigFilled
  <2> HIDE DEF total
  <2> QED BY <1>4, <2>1
<1> DEFINE step == [k \in 1..n |-> [x \in Configs |-> WithField(x, csc, type[k])]]
<1>6. step \in [1..n -> [Configs -> Configs]]
  <2>1. ASSUME NEW k \in 1..n, NEW x \in Configs
        PROVE  WithField(x, csc, type[k]) \in Configs
    <3>1. type[k] \in 1..5
      BY <1>2
    <3> QED BY <3>1, WithFieldIs
  <2> QED BY <2>1
<1>7. PICK g : Chain(g, n, Configs, c, step)
  <2> HIDE DEF step
  <2> QED BY <1>4, <1>6, Chains
<1>8. g \in [0..n -> Configs] /\ g[0] = c /\ \A k \in 1..n : g[k] = WithField(g[k - 1], csc, type[k])
  <2>1. g \in [0..n -> Configs] /\ g[0] = c /\ \A k \in 1..n : g[k] = step[k][g[k - 1]]
    <3> HIDE DEF step
    <3> QED BY <1>7 DEF Chain
  <2>2. \A k \in 1..n : k - 1 \in 0..n
    BY <1>4
  <2>3. \A k \in 1..n : g[k - 1] \in Configs
    BY <2>1, <2>2
  <2> QED BY <2>1, <2>3
<1> DEFINE of(k) == IF k <= n THEN k ELSE n
           F == [k \in 0..total |-> [i |-> p + size[of(k)], left |-> total - size[of(k)], read |-> g[of(k)]]]
           S == [i: Nat, left: Int, read: Configs]
<1>9. F \in [0..total -> S]
  <2>1. ASSUME NEW k \in 0..total
        PROVE  of(k) \in 0..n
    BY <1>4
  <2> HIDE DEF of
  <2>2. ASSUME NEW k \in 0..total
        PROVE  [i |-> p + size[of(k)], left |-> total - size[of(k)], read |-> g[of(k)]] \in S
    <3>1. of(k) \in 0..n
      BY <2>1
    <3>2. size[of(k)] \in Nat /\ g[of(k)] \in Configs
      BY <1>2, <1>8, <3>1
    <3>3. p + size[of(k)] \in Nat /\ total - size[of(k)] \in Int
      BY <1>4, <3>2
    <3> QED BY <3>2, <3>3
  <2> QED BY <2>2
<1>10. F[0] = [i |-> p, left |-> total, read |-> c]
  <2>1. of(0) = 0 /\ 0 \in 0..total
    BY <1>4
  <2>2. p + size[0] = p /\ total - size[0] = total
    BY <1>2, <1>4
  <2> HIDE DEF of
  <2> QED BY <1>8, <2>1, <2>2
<1>11. ASSUME NEW k \in 1..total
       PROVE  F[k] = ConfigRound(s, F[k - 1])
  <2>1. k \in 0..total /\ k - 1 \in 0..total
    BY <1>4
  <2>2. CASE k <= n
    <3> DEFINE at == size[k - 1]
               t == type[k]
               old == [i |-> p + at, left |-> total - at, read |-> g[k - 1]]
    <3>1. k \in 1..n /\ k - 1 \in 0..n /\ k \in 0..n
      BY <1>4, <2>2
    <3>2. of(k) = k /\ of(k - 1) = k - 1
      BY <1>4, <2>2
    <3>3. at \in Nat /\ size[k] \in Nat /\ size[k] = at + EntrySize[t] /\ size[k] <= total /\ t \in 1..5
          /\ Field(csc, t) # 0 /\ g[k - 1] \in Configs
      BY <1>2, <1>8, <3>1
    <3>4. EntrySize[t] \in 3..6
      BY <3>3, ValueIs
    <3>5. F[k - 1] = old
      <4> HIDE DEF of
      <4> QED BY <2>1, <3>2
    <3>6. F[k] = [i |-> p + size[k], left |-> total - size[k], read |-> g[k]]
      <4> HIDE DEF of
      <4> QED BY <2>1, <3>2
    <3> DEFINE more == EntrySize[t]
               to == size[k]
    <3>7. p + size[k] = (p + at) + EntrySize[t] /\ total - size[k] = (total - at) - EntrySize[t]
          /\ p + at \in Nat /\ total - at \in Nat \ {0}
      <4>1. to = at + more /\ to <= total /\ to \in Nat /\ at \in Nat /\ more \in 3..6
        BY <3>3, <3>4
      <4> HIDE DEF more, to, total, at
      <4>2. p + to = (p + at) + more /\ total - to = (total - at) - more
            /\ p + at \in Nat /\ total - at \in Nat \ {0}
        BY <1>4, <4>1
      <4> QED BY <4>2 DEF more, to
    <3>8. HasEntry(s, old.i, csc, t)
      BY <1>3, <3>1
    <3>9. old.i \in Nat /\ old.left \in Nat \ {0} /\ old.read \in Configs
      BY <3>3, <3>7
    <3>10. old.i = p + at /\ old.left = total - at /\ old.read = g[k - 1]
      OBVIOUS
    <3> HIDE DEF old
    <3>11. ConfigRound(s, old) = [i |-> old.i + EntrySize[t], left |-> old.left - EntrySize[t],
                                  read |-> WithField(old.read, csc, t)]
      BY <3>3, <3>8, <3>9, ConfigRoundReads
    <3>12. g[k] = WithField(g[k - 1], csc, t)
      BY <1>8, <3>1
    <3> HIDE DEF F, t, at, total
    <3> QED BY <3>5, <3>6, <3>7, <3>10, <3>11, <3>12, Zenon
  <2>3. CASE k > n
    <3> DEFINE last == [i |-> p + size[n], left |-> total - size[n], read |-> g[n]]
    <3>1. of(k) = n /\ of(k - 1) = n
      BY <1>4, <2>3
    <3>2. F[k] = last /\ F[k - 1] = last
      <4> HIDE DEF of
      <4> QED BY <2>1, <3>1
    <3>3. last.left = 0
      BY <1>4
    <3> HIDE DEF last
    <3>4. last.left <= 0
      BY <3>3
    <3>5. ConfigRound(s, last) = last
      BY <3>4, Zenon DEF ConfigRound
    <3> HIDE DEF F
    <3> QED BY <3>2, <3>5, Zenon
  <2> QED BY <1>4, <2>2, <2>3
<1>12. ReadConfig(s, p, total, c) = g[n]
  <2>1. F[total].read = g[n]
    <3>1. of(total) = n /\ total \in 0..total
      BY <1>4
    <3> HIDE DEF of
    <3> QED BY <3>1
  <2> HIDE DEF F, S, total
  <2>2. ReadConfig(s, p, total, c) = F[total].read
    <3>1. ConfigRounds(F, S, s, p, total, c)
      BY <1>4, <1>9, <1>10, <1>11, Zenon DEF ConfigRounds
    <3> QED BY <3>1, ReadConfigBy
  <2> QED BY <2>1, <2>2
\* After k entries the fields of those are taken
<1> DEFINE Has(k, t) == \E j \in 1..k : type[j] = t
           Fields(k) == \A t \in 1..5 : Field(g[k], t) = IF Has(k, t) THEN Field(csc, t) ELSE Field(c, t)
           H == {k \in Nat : k > n \/ Fields(k)}
<1>13. 0 \in H
  BY <1>8
<1>14. ASSUME NEW k \in Nat, k \in H
       PROVE  k + 1 \in H
  <2>1. CASE k + 1 > n
    BY <2>1
  <2>2. CASE k + 1 <= n
    <3>1. k + 1 \in 1..n /\ (k + 1) - 1 = k /\ k \in 0..n /\ ~(k > n)
      BY <1>4, <2>2
    <3> DEFINE u == type[k + 1]
    <3>2. g[k + 1] = WithField(g[k], csc, u) /\ g[k] \in Configs /\ u \in 1..5
      BY <1>2, <1>8, <3>1
    <3>3. Field(g[k + 1], u) = Field(csc, u) /\ \A t \in 1..5 : t # u => Field(g[k + 1], t) = Field(g[k], t)
      BY <3>2, WithFieldIs
    <3>4. \A t : Has(k + 1, t) <=> Has(k, t) \/ t = u
      <4>1. \A j \in 1..(k + 1) : j \in 1..k \/ j = k + 1
        OBVIOUS
      <4>2. \A j \in 1..k : j \in 1..(k + 1)
        OBVIOUS
      <4>3. k + 1 \in 1..(k + 1)
        OBVIOUS
      <4> QED BY <4>1, <4>2, <4>3, Zenon
    <3>5. Fields(k)
      BY <1>14, <3>1
    <3> HIDE DEF Has, u
    <3>6. Fields(k + 1)
      BY <3>3, <3>4, <3>5, Zenon
    <3> HIDE DEF Fields
    <3> QED BY <3>6
  <2> QED BY <1>4, <2>1, <2>2
<1>15. Fields(n)
  <2>1. n \in H
    <3> HIDE DEF H
    <3> QED BY <1>4, <1>13, <1>14, Inductive
  <2> HIDE DEF Fields
  <2> QED BY <1>4, <2>1
<1>16. \A t \in 1..5 : Field(g[n], t) = Field(Over(c, csc), t)
  <2> SUFFICES ASSUME NEW t \in 1..5
               PROVE  Field(g[n], t) = Field(Over(c, csc), t)
    OBVIOUS
  <2>1. Field(Over(c, csc), t) = IF Field(csc, t) = 0 THEN Field(c, t) ELSE Field(csc, t)
    BY OverIs
  <2>2. Has(n, t) <=> Field(csc, t) # 0
    BY <1>2, Zenon
  <2>3. Field(g[n], t) = IF Has(n, t) THEN Field(csc, t) ELSE Field(c, t)
    BY <1>15
  <2> HIDE DEF Has
  <2> QED BY <2>1, <2>2, <2>3
<1>17. g[n] = Over(c, csc)
  <2>1. g[n] \in Configs
    BY <1>4, <1>8
  <2>2. Over(c, csc) \in Configs
    BY OverIs
  <2> QED BY <1>16, <2>1, <2>2, SameFields
<1> QED
  BY <1>5, <1>12, <1>17, Zenon

-----------------------------------------------------------------------------
(* Streams that are put together *)

\* Where all entries fit they are the same bytes, however much room there is
LEMMA FilledSame ==
  ASSUME NEW entries \in Seq(Entries), NEW size, Ends(size, entries), NEW a \in Int, NEW b \in Int,
         size[Len(entries)] <= a - 1, size[Len(entries)] <= b - 1
  PROVE  Filled(entries, a) = Filled(entries, b)
<1> DEFINE n == Len(entries)
<1>1. n \in Nat /\ \A k \in 1..n : entries[k] \in Entries /\ Len(entries[k].value) \in Nat
  <2>1. n \in Nat /\ \A k \in 1..n : entries[k] \in Entries
    OBVIOUS
  <2>2. \A e \in Entries : Len(e.value) \in Nat
    BY DEF Entries, Bytes
  <2> QED BY <2>1, <2>2, Zenon
<1>2. PICK f \in [0..n -> Bytes] :
        /\ Filled(entries, a) = <<Len(f[n])>> \o f[n] /\ f[0] = <<>>
        /\ \A k \in 1..n : f[k] = f[k - 1] \o Ltv(a - 1 - Len(f[k - 1]), entries[k])
  BY FilledIs
<1>3. PICK g \in [0..n -> Bytes] :
        /\ Filled(entries, b) = <<Len(g[n])>> \o g[n] /\ g[0] = <<>>
        /\ \A k \in 1..n : g[k] = g[k - 1] \o Ltv(b - 1 - Len(g[k - 1]), entries[k])
  BY FilledIs
<1>4. size[n] <= a - 1 /\ size[n] <= b - 1 /\ size \in [0..n -> Nat] /\ size[0] = 0
      /\ \A k \in 1..n : size[k] = size[k - 1] + 2 + Len(entries[k].value)
  BY DEF Ends
<1>5. \A k \in 0..n : size[k] <= size[n]
  <2>1. n \in 0..n
    BY <1>1
  <2> QED BY <2>1, EndsGrow
<1> HIDE DEF n
<1> DEFINE H == {k \in Nat : k > n \/ (f[k] = g[k] /\ Len(f[k]) = size[k])}
<1>6. 0 \in H
  BY <1>2, <1>3, <1>4
<1>7. ASSUME NEW k \in Nat, k \in H
      PROVE  k + 1 \in H
  <2>1. CASE k + 1 > n
    BY <2>1
  <2>2. CASE k + 1 <= n
    <3>1. k + 1 \in 1..n /\ (k + 1) - 1 = k /\ k \in 0..n /\ k + 1 \in 0..n /\ ~(k > n)
      BY <1>1, <2>2
    <3> DEFINE e == entries[k + 1]
               length == Len(e.value)
               at == size[k]
               to == size[k + 1]
               total == size[n]
    <3>2. f[k] = g[k] /\ Len(f[k]) = at /\ f[k] \in Bytes
      BY <1>2, <1>7, <3>1
    <3>3. e \in Entries /\ length \in Nat
      BY <1>1, <3>1
    <3>4. at \in Nat /\ to \in Nat /\ to = at + 2 + length /\ to <= total /\ total \in Nat
      <4>1. n \in 0..n
        BY <1>1
      <4> QED BY <1>4, <1>5, <3>1, <4>1
    <3>5. a - 1 - at \in Int /\ b - 1 - at \in Int /\ a - 1 - at >= 2 + length /\ b - 1 - at >= 2 + length
      <4>1. total <= a - 1 /\ total <= b - 1
        BY <1>4
      <4> HIDE DEF at, to, total, length
      <4> QED BY <3>3, <3>4, <4>1
    <3> HIDE DEF e
    <3>6. /\ Ltv(a - 1 - at, e) = <<Len(e.value) + 1, e.type>> \o e.value
          /\ Ltv(b - 1 - at, e) = <<Len(e.value) + 1, e.type>> \o e.value
          /\ Len(Ltv(a - 1 - at, e)) = 2 + Len(e.value) /\ Ltv(a - 1 - at, e) \in Bytes
      BY <3>3, <3>5, LtvIs, Zenon
    <3>7. f[k + 1] = f[k] \o Ltv(a - 1 - at, e) /\ g[k + 1] = f[k] \o Ltv(b - 1 - at, e)
      BY <1>2, <1>3, <3>1, <3>2, Zenon DEF e
    <3> DEFINE new == Ltv(a - 1 - at, e)
    <3>8. f[k + 1] = g[k + 1]
      BY <3>6, <3>7, Zenon
    <3>9. Len(f[k + 1]) = to
      <4> HIDE DEF new
      <4>1. f[k + 1] = f[k] \o new /\ new \in Bytes /\ Len(new) = 2 + length
        BY <3>6, <3>7 DEF new
      <4>2. Len(f[k] \o new) = Len(f[k]) + Len(new)
        BY <3>2, <4>1, Joined
      <4>3. Len(f[k + 1]) = at + (2 + length)
        BY <3>2, <4>1, <4>2, Zenon
      <4> HIDE DEF at, to, length
      <4>4. at + (2 + length) = to
        BY <3>3, <3>4
      <4> QED BY <4>3, <4>4 DEF to
    <3> QED BY <3>8, <3>9
  <2> QED BY <1>1, <2>1, <2>2
<1>8. f[n] = g[n]
  <2>1. n \in H
    <3> HIDE DEF H
    <3> QED BY <1>1, <1>6, <1>7, Inductive
  <2> QED BY <1>1, <2>1
<1> QED
  BY <1>2, <1>3, <1>8, Zenon

\* A stream has the bytes of another from a place on
OccursAt(s, p, t) == \A i \in 1..Len(t) : At(s, p + i - 1) = t[i]

LEMMA PartsOccur ==
  ASSUME NEW a \in Bytes, NEW b \in Bytes, NEW s, NEW p \in Nat, OccursAt(s, p, a \o b)
  PROVE  OccursAt(s, p, a) /\ OccursAt(s, p + Len(a), b)
<1> DEFINE m == Len(a)
           n == Len(b)
           t == a \o b
<1>1. /\ m \in Nat /\ n \in Nat /\ Len(t) = m + n
      /\ \A j \in 1..m : t[j] = a[j]
      /\ \A j \in 1..n : t[m + j] = b[j]
  BY Joined
<1>2. \A i \in 1..Len(t) : At(s, p + i - 1) = t[i]
  BY Zenon DEF OccursAt
<1> HIDE DEF m, n, t
<1>3. ASSUME NEW i \in 1..m
      PROVE  At(s, p + i - 1) = a[i]
  <2>1. i \in 1..Len(t)
    BY <1>1
  <2> QED BY <1>1, <1>2, <2>1
<1>4. ASSUME NEW i \in 1..n
      PROVE  At(s, (p + m) + i - 1) = b[i]
  <2>1. m + i \in 1..Len(t) /\ p + (m + i) - 1 = (p + m) + i - 1
    BY <1>1
  <2>2. At(s, p + (m + i) - 1) = t[m + i]
    BY <1>2, <2>1
  <2> QED BY <1>1, <2>1, <2>2
<1> QED
  BY <1>3, <1>4, Zenon DEF OccursAt, m, n

\* Where an entry list stands, its length does, and behind that the entries
LEMMA LengthOccurs ==
  ASSUME NEW f \in Bytes, Len(f) >= 1, NEW s, NEW p \in Nat, OccursAt(s, p, f)
  PROVE  At(s, p) = f[1] /\ Occurs(s, p + 1, f)
<1> DEFINE n == Len(f)
<1>1. n \in Nat /\ n >= 1
  BY DEF Bytes
<1>2. \A i \in 1..n : At(s, p + i - 1) = f[i]
  BY Zenon DEF OccursAt
<1> HIDE DEF n
<1>3. At(s, p) = f[1]
  <2>1. 1 \in 1..n /\ p + 1 - 1 = p
    BY <1>1
  <2> QED BY <1>2, <2>1
<1>4. ASSUME NEW i \in 1..(n - 1)
      PROVE  At(s, (p + 1) + i - 1) = f[i + 1]
  <2>1. i + 1 \in 1..n /\ p + (i + 1) - 1 = (p + 1) + i - 1
    BY <1>1
  <2> QED BY <1>2, <2>1
<1> QED
  BY <1>3, <1>4, Zenon DEF Occurs, n

\* One part behind the other
Joint(parts) ==
  LET after[k \in 0..Len(parts)] == IF k = 0 THEN <<>> ELSE after[k - 1] \o parts[k]
  IN after[Len(parts)]

\* What parts are joined to, one by one
Joins(joined, parts) ==
  /\ joined \in [0..Len(parts) -> Bytes] /\ joined[0] = <<>>
  /\ \A k \in 1..Len(parts) : joined[k] = joined[k - 1] \o parts[k]
  /\ Joint(parts) = joined[Len(parts)]

LEMMA JointIs ==
  ASSUME NEW parts \in Seq(Bytes)
  PROVE  \E joined : Joins(joined, parts)
<1> DEFINE n == Len(parts)
           step == [k \in 1..n |-> [x \in Bytes |-> x \o parts[k]]]
           Eq(g) == g = [k \in 0..n |-> IF k = 0 THEN <<>> ELSE g[k - 1] \o parts[k]]
           after == CHOOSE g : Eq(g)
<1>1. n \in Nat /\ (\A k \in 1..n : parts[k] \in Bytes) /\ <<>> \in Bytes
  BY DEF Bytes
<1> HIDE DEF n
<1>2. step \in [1..n -> [Bytes -> Bytes]]
  BY <1>1, Joined
<1>3. PICK f : Chain(f, n, Bytes, <<>>, step)
  <2> HIDE DEF step
  <2> QED BY <1>1, <1>2, Chains
<1>4. f \in [0..n -> Bytes] /\ f[0] = <<>> /\ \A k \in 1..n : k - 1 \in 0..n /\ f[k] = f[k - 1] \o parts[k]
  <2>1. f \in [0..n -> Bytes] /\ f[0] = <<>> /\ \A k \in 1..n : f[k] = step[k][f[k - 1]]
    <3> HIDE DEF step
    <3> QED BY <1>3 DEF Chain
  <2>2. \A k \in 1..n : k - 1 \in 0..n
    BY <1>1
  <2>3. \A k \in 1..n : f[k - 1] \in Bytes
    BY <2>1, <2>2
  <2> QED BY <2>1, <2>2, <2>3
<1>5. Eq(f)
  <2>1. \A k \in 0..n : k = 0 \/ k \in 1..n
    BY <1>1
  <2>2. f = [k \in 0..n |-> f[k]]
    BY <1>4
  <2> QED BY <1>4, <2>1, <2>2
<1>6. Eq(after)
  <2> HIDE DEF Eq
  <2> QED BY <1>5, Zenon
<1>7. /\ after = [k \in 0..n |-> IF k = 0 THEN <<>> ELSE after[k - 1] \o parts[k]]
      /\ Joint(parts) = after[n]
  BY <1>6, Zenon DEF Joint, n
<1> HIDE DEF after
<1>8. after[0] = <<>> /\ \A k \in 1..n : after[k] = after[k - 1] \o parts[k]
  BY <1>1, <1>7
<1>9. \A k \in 1..n : after[k - 1] \in Bytes => after[k] = step[k][after[k - 1]]
  BY <1>8
<1>10. \A k \in 0..n : after[k] = f[k]
  <2> HIDE DEF step
  <2> QED BY <1>1, <1>3, <1>8, <1>9, ChainOnly
<1>11. Joint(parts) = f[n]
  BY <1>1, <1>7, <1>10
<1>12. Joins(f, parts)
  BY <1>4, <1>11, Zenon DEF Joins, n
<1> QED
  BY <1>12, Zenon

\* The bytes before and with each part
Lengths(parts, n, joined, len) ==
  /\ n \in Nat /\ n = Len(parts) /\ Joins(joined, parts)
  /\ len \in [0..n -> Nat] /\ len[0] = 0
  /\ \A k \in 0..n : joined[k] \in Bytes /\ len[k] = Len(joined[k]) /\ len[k] <= len[n]
  /\ \A k \in 1..n : len[k] = len[k - 1] + Len(parts[k]) /\ parts[k] \in Bytes /\ Len(parts[k]) \in Nat
  /\ Joint(parts) = joined[n] /\ Joint(parts) \in Bytes /\ Len(Joint(parts)) = len[n]

LEMMA LengthsAre ==
  ASSUME NEW parts \in Seq(Bytes)
  PROVE  \E n, joined, len : Lengths(parts, n, joined, len)
<1>1. PICK joined : Joins(joined, parts)
  BY JointIs
<1>2. PICK n \in Nat : n = Len(parts) /\ \A k \in 1..n : parts[k] \in Bytes
  OBVIOUS
<1>3. /\ joined \in [0..n -> Bytes] /\ joined[0] = <<>>
      /\ \A k \in 1..n : joined[k] = joined[k - 1] \o parts[k]
      /\ Joint(parts) = joined[n]
  BY <1>1, <1>2, Zenon DEF Joins
<1> DEFINE len == [k \in 0..n |-> Len(joined[k])]
<1>4. ASSUME NEW k \in 0..n
      PROVE  joined[k] \in Bytes /\ Len(joined[k]) \in Nat
  <2>1. joined[k] \in Bytes
    BY <1>3
  <2> QED BY <2>1 DEF Bytes
<1>5. len \in [0..n -> Nat] /\ \A k \in 0..n : len[k] = Len(joined[k])
  BY <1>4
<1>6. len[0] = 0
  <2>1. len[0] = Len(joined[0])
    BY <1>5
  <2> QED BY <1>3, <2>1
<1> HIDE DEF len
<1>7. ASSUME NEW k \in 1..n
      PROVE  len[k] = len[k - 1] + Len(parts[k]) /\ parts[k] \in Bytes /\ Len(parts[k]) \in Nat
  <2>1. k - 1 \in 0..n /\ k \in 0..n
    OBVIOUS
  <2>2. joined[k] = joined[k - 1] \o parts[k] /\ joined[k - 1] \in Bytes /\ parts[k] \in Bytes
    BY <1>2, <1>3, <2>1
  <2>3. Len(joined[k]) = Len(joined[k - 1]) + Len(parts[k]) /\ Len(parts[k]) \in Nat
    <3>1. /\ Len(joined[k - 1] \o parts[k]) = Len(joined[k - 1]) + Len(parts[k])
          /\ Len(parts[k]) \in Nat
      BY <2>2, Joined, Zenon
    <3> QED BY <2>2, <3>1, Zenon
  <2> QED BY <1>5, <2>1, <2>2, <2>3, Zenon
<1> DEFINE H == {j \in Nat : j > n \/ len[n - j] <= len[n]}
<1>8. 0 \in H
  <2>1. n - 0 = n /\ n \in 0..n
    OBVIOUS
  <2>2. len[n] \in Nat
    BY <1>5, <2>1
  <2> QED BY <2>1, <2>2
<1>9. ASSUME NEW j \in Nat, j \in H
      PROVE  j + 1 \in H
  <2>1. CASE j + 1 > n
    BY <2>1
  <2>2. CASE j + 1 <= n
    <3>1. n - j \in 1..n /\ (n - j) - 1 = n - (j + 1) /\ n - (j + 1) \in 0..n /\ ~(j > n) /\ n \in 0..n
          /\ n - j \in 0..n
      BY <2>2
    <3> DEFINE more == Len(parts[n - j])
               a == len[n - (j + 1)]
               b == len[n - j]
               c == len[n]
    <3>2. b = a + more /\ more \in Nat
      BY <1>7, <3>1
    <3>3. a \in Nat /\ b \in Nat /\ c \in Nat /\ b <= c
      BY <1>5, <1>9, <3>1
    <3> HIDE DEF a, b, c, more
    <3>4. a <= c
      BY <3>2, <3>3
    <3> QED BY <3>4 DEF a, c
  <2> QED BY <2>1, <2>2
<1>10. \A j \in Nat : j \in H
  <2> HIDE DEF H
  <2> QED BY <1>8, <1>9, Inductive
<1>11. ASSUME NEW k \in 0..n
       PROVE  len[k] <= len[n]
  <2>1. n - k \in Nat /\ ~(n - k > n) /\ n - (n - k) = k
    OBVIOUS
  <2> QED BY <1>10, <2>1
<1>12. Joint(parts) \in Bytes /\ Len(Joint(parts)) = len[n]
  <2>1. n \in 0..n
    OBVIOUS
  <2> QED BY <1>3, <1>4, <1>5, <2>1
<1>13. Lengths(parts, n, joined, len)
  BY <1>1, <1>2, <1>3, <1>4, <1>5, <1>6, <1>7, <1>11, <1>12, Zenon DEF Lengths
<1> QED
  BY <1>13, Zenon

\* Where the whole stands, each part does
LEMMA JointOccurs ==
  ASSUME NEW parts \in Seq(Bytes), NEW n, NEW joined, NEW len, Lengths(parts, n, joined, len),
         NEW s, NEW p \in Nat, OccursAt(s, p, Joint(parts))
  PROVE  \A k \in 1..n : OccursAt(s, p + len[k - 1], parts[k])
<1>1. /\ n \in Nat /\ Joint(parts) = joined[n]
      /\ \A k \in 0..n : joined[k] \in Bytes /\ len[k] = Len(joined[k])
      /\ \A k \in 1..n : parts[k] \in Bytes
      /\ \A k \in 1..n : joined[k] = joined[k - 1] \o parts[k]
  BY Zenon DEF Lengths, Joins
<1>2. ASSUME NEW k \in 1..n, OccursAt(s, p, joined[k])
      PROVE  OccursAt(s, p, joined[k - 1]) /\ OccursAt(s, p + len[k - 1], parts[k])
  <2>1. k - 1 \in 0..n
    BY <1>1
  <2>2. joined[k - 1] \in Bytes /\ parts[k] \in Bytes /\ OccursAt(s, p, joined[k - 1] \o parts[k])
        /\ len[k - 1] = Len(joined[k - 1])
    BY <1>1, <1>2, <2>1
  <2> QED BY <2>2, PartsOccur
<1> DEFINE H == {j \in Nat : j > n \/ OccursAt(s, p, joined[n - j])}
<1>3. 0 \in H
  <2>1. n - 0 = n
    BY <1>1
  <2> QED BY <1>1, <2>1
<1>4. ASSUME NEW j \in Nat, j \in H
      PROVE  j + 1 \in H
  <2>1. CASE j + 1 > n
    BY <2>1
  <2>2. CASE j + 1 <= n
    <3>1. n - j \in 1..n /\ (n - j) - 1 = n - (j + 1) /\ ~(j > n)
      BY <1>1, <2>2
    <3>2. OccursAt(s, p, joined[n - j])
      BY <1>4, <3>1
    <3>3. OccursAt(s, p, joined[n - (j + 1)])
      BY <1>2, <3>1, <3>2
    <3> QED BY <3>3
  <2> QED BY <1>1, <2>1, <2>2
<1>5. \A j \in Nat : j \in H
  <2> HIDE DEF H
  <2> QED BY <1>3, <1>4, Inductive
<1>6. ASSUME NEW k \in 1..n
      PROVE  OccursAt(s, p + len[k - 1], parts[k])
  <2>1. n - k \in Nat /\ ~(n - k > n) /\ n - (n - k) = k
    BY <1>1
  <2>2. OccursAt(s, p, joined[k])
    BY <1>5, <2>1
  <2> QED BY <1>2, <2>2
<1> QED
  BY <1>6

-----------------------------------------------------------------------------
(* What a source announces *)

Bises == [bis_idx: Nat, bis_csc: Configs]
Groups == [csc: Configs, metadata: Contexts, more: Seq(Entries), bis_config: Seq(Bises)]

\* A BIS, a subgroup and a BASE with all their entries, whatever the room for them
WholeBis(bis) == <<bis.bis_idx>> \o FillConfig(bis.bis_csc, 255)

BisParts(bises) == [k \in 1..Len(bises) |-> WholeBis(bises[k])]

GroupHead(g) ==
  (<<Len(g.bis_config), 6, 0, 0, 0, 0>> \o FillConfig(g.csc, 255)) \o FillMetadata(g.metadata, g.more, 255)

WholeGroup(g) == GroupHead(g) \o Joint(BisParts(g.bis_config))

GroupParts(groups) == [k \in 1..Len(groups) |-> WholeGroup(groups[k])]

Whole(groups) == BaseHead(groups) \o Joint(GroupParts(groups))

\* BASEs as sources have them: contexts first in the metadata, at most one more entry behind
\* them, and in all no more than there is room for
Announceable(groups) ==
  /\ groups \in Seq(Groups)
  /\ \A k \in DOMAIN groups :
       /\ ContextsFirst(MetadataEntries(groups[k].metadata) \o groups[k].more)
       /\ \A e \in Range(groups[k].more) : e.type \notin {1, 2}
  /\ Len(Whole(groups)) <= BaseMax

LEMMA ConfigSame ==
  ASSUME NEW csc \in Configs
  PROVE  /\ FillConfig(csc, 255) \in Bytes /\ Len(FillConfig(csc, 255)) \in 1..31
         /\ FillConfig(csc, 255)[1] = Len(FillConfig(csc, 255)) - 1
         /\ \A room \in Int : Len(FillConfig(csc, 255)) <= room => FillConfig(csc, room) = FillConfig(csc, 255)
<1>1. PICK n, type, size : ConfigShape(csc, n, type, size)
  BY ConfigShapeIs, Zenon
<1> DEFINE entries == ConfigEntries(csc)
           total == size[Len(entries)]
           large == 255
           f == FillConfig(csc, 255)
<1>2. entries \in Seq(Entries) /\ Ends(size, entries) /\ n = Len(entries) /\ n \in 0..5
  BY <1>1, ConfigEntriesAre, Zenon DEF ConfigShape
<1>3. total \in Nat /\ total <= 30
  <2>1. size \in [0..n -> Nat] /\ \A k \in 0..n : size[k] <= 6 * k
    BY <1>1, Zenon DEF ConfigShape
  <2>2. n \in 0..n
    BY <1>2
  <2>3. size[n] \in Nat /\ size[n] <= 6 * n
    BY <2>1, <2>2
  <2>4. total = size[n]
    BY <1>2, Zenon
  <2> HIDE DEF total
  <2>5. total \in Nat /\ total <= 6 * n /\ n \in 0..5
    BY <1>2, <2>3, <2>4, Zenon
  <2> QED BY <2>5
<1>4. f \in Bytes /\ Len(f) = 1 + total /\ f[1] = total
  <2>1. f \in Bytes /\ Len(f) = 1 + size[n] /\ f[1] = size[n]
    BY <1>1, ConfigFilled
  <2> HIDE DEF f
  <2> QED BY <1>2, <2>1, Zenon
<1>5. f = Filled(entries, large)
  BY DEF FillConfig
<1> HIDE DEF f, large, total, entries
<1>6. Len(f) \in 1..31 /\ f[1] = Len(f) - 1
  BY <1>3, <1>4
<1>7. ASSUME NEW room \in Int, Len(f) <= room
      PROVE  FillConfig(csc, room) = f
  <2>1. total <= room - 1 /\ total <= large - 1 /\ large \in Int
    BY <1>3, <1>4, <1>7 DEF large
  <2>2. Filled(entries, room) = Filled(entries, large)
    BY <1>2, <2>1, FilledSame DEF total
  <2>3. FillConfig(csc, room) = Filled(entries, room)
    BY DEF FillConfig, entries
  <2> QED BY <1>5, <2>2, <2>3
<1> QED
  BY <1>4, <1>6, <1>7 DEF f

LEMMA MetadataSame ==
  ASSUME NEW entries, ContextsFirst(entries)
  PROVE  /\ Filled(entries, 255) \in Bytes /\ Len(Filled(entries, 255)) \in 1..255
         /\ Filled(entries, 255)[1] = Len(Filled(entries, 255)) - 1
         /\ \A room \in Int : Len(Filled(entries, 255)) <= room => Filled(entries, room) = Filled(entries, 255)
<1>1. PICK n, len, total : Shape(entries, n, len, total)
  BY ShapeIs, Zenon
<1>2. entries \in Seq(Entries) /\ n = Len(entries) /\ total \in Nat /\ total <= 254
  BY <1>1, Zenon DEF ContextsFirst, Shape
<1>3. PICK size : Ends(size, entries) /\ size[n] = total
  BY <1>1, ContextsEnd
<1> DEFINE large == 255
           f == Filled(entries, large)
<1>4. f \in Bytes /\ Len(f) = 1 + total /\ f[1] = total
  BY <1>1, FilledEntries
<1>5. total <= large - 1 /\ large \in Int
  BY <1>2
<1>6. f \in Bytes /\ Len(f) \in 1..255 /\ f[1] = Len(f) - 1
  <2> HIDE DEF f
  <2> QED BY <1>2, <1>4
<1> HIDE DEF large
<1>7. ASSUME NEW room \in Int, Len(f) <= room
      PROVE  Filled(entries, room) = f
  <2>1. total <= room - 1
    <3> HIDE DEF f
    <3> QED BY <1>2, <1>4, <1>7
  <2>2. size[Len(entries)] <= room - 1 /\ size[Len(entries)] <= large - 1
    BY <1>2, <1>3, <1>5, <2>1, Zenon
  <2> QED BY <1>2, <1>3, <1>5, <2>2, FilledSame
<1> QED
  BY <1>6, <1>7 DEF large

\* The last entry of a type is the one there is
LEMMA LatestExists ==
  ASSUME NEW entries, NEW n \in Nat, DOMAIN entries = 1..n, NEW type, NEW old
  PROVE  \E v : Latest(entries, n, type, old, v) /\ LastOf(entries, type, old) = v
<1> DEFINE H == {k \in Nat : \E v : Latest(entries, k, type, old, v)}
<1>1. 0 \in H
  <2>1. Latest(entries, 0, type, old, old)
    BY DEF Latest
  <2> QED BY <2>1
<1>2. ASSUME NEW k \in Nat, k \in H
      PROVE  k + 1 \in H
  <2>1. PICK v : Latest(entries, k, type, old, v)
    BY <1>2
  <2> DEFINE w == IF entries[k + 1].type = type THEN TwoAt(entries[k + 1].value, 1) ELSE v
  <2>2. Latest(entries, k + 1, type, old, w)
    BY <2>1, LatestGrows
  <2> HIDE DEF w
  <2> QED BY <2>2
<1>3. n \in H
  <2> HIDE DEF H
  <2> QED BY <1>1, <1>2, Inductive
<1>4. PICK v : Latest(entries, n, type, old, v)
  BY <1>3
<1>5. n \in 0..n /\ \A j \in 1..n : ~(j > n)
  OBVIOUS
<1>6. LastOf(entries, type, old) = v
  BY <1>4, <1>5, LatestIsLast
<1> QED
  BY <1>4, <1>6

LEMMA ContextsBack ==
  ASSUME NEW m \in Contexts, NEW more \in Seq(Entries), \A e \in Range(more) : e.type \notin {1, 2}
  PROVE  /\ LastOf(MetadataEntries(m) \o more, 1, 0) = m.preferred_audio_ctx
         /\ LastOf(MetadataEntries(m) \o more, 2, 0) = m.streaming_audio_ctx
<1> DEFINE v(t) == IF t = 1 THEN m.preferred_audio_ctx ELSE m.streaming_audio_ctx
           entry(t) == [type |-> t, value |-> Two(v(t))]
           one(t) == IF v(t) = 0 THEN <<>> ELSE <<entry(t)>>
           both == one(1) \o one(2)
           all == both \o more
<1>1. MetadataEntries(m) = both
  BY DEF MetadataEntries
<1>2. v(1) \in Nat /\ v(2) \in Nat
  BY DEF Contexts
<1>3. ASSUME NEW t \in {1, 2}
      PROVE  one(t) \in Seq(Entries) /\ \A e : e \in Range(one(t)) <=> v(t) # 0 /\ e = entry(t)
  <2>1. v(t) \in Nat /\ t \in Nat
    BY <1>2
  <2> HIDE DEF v
  <2>2. CASE v(t) = 0
    <3>1. one(t) = <<>> /\ Range(<<>>) = {}
      BY <2>2 DEF Range
    <3> HIDE DEF one
    <3> QED BY <2>2, <3>1
  <2>3. CASE v(t) # 0
    <3>1. Two(v(t)) \in Bytes
      BY <2>1, TwoIs
    <3>2. entry(t) \in Entries
      BY <2>1, <3>1 DEF Entries
    <3>3. one(t) = <<entry(t)>>
      BY <2>3
    <3> HIDE DEF one, entry
    <3>4. one(t) \in Seq(Entries) /\ Range(one(t)) = {entry(t)}
      BY <3>2, <3>3 DEF Range
    <3> QED BY <2>3, <3>4
  <2> QED BY <2>2, <2>3
<1> HIDE DEF one
<1>4. one(1) \in Seq(Entries) /\ one(2) \in Seq(Entries)
  BY <1>3
<1>5. /\ both \in Seq(Entries)
      /\ \A e : e \in Range(both) <=> e \in Range(one(1)) \/ e \in Range(one(2))
  BY <1>4, RangeJoined, Zenon
<1> HIDE DEF both
<1>6. /\ all \in Seq(Entries)
      /\ \A e : e \in Range(all) <=> e \in Range(both) \/ e \in Range(more)
  BY <1>5, RangeJoined, Zenon
<1> HIDE DEF all
<1>7. PICK n \in Nat : DOMAIN all = 1..n
  BY <1>6
<1>8. ASSUME NEW t \in {1, 2}
      PROVE  LastOf(all, t, 0) = v(t)
  <2>1. PICK w : Latest(all, n, t, 0, w) /\ LastOf(all, t, 0) = w
    BY <1>7, LatestExists
  <2>2. ASSUME NEW e \in Range(all), e.type = t
        PROVE  e = entry(t)
    <3>1. e \notin Range(more)
      BY <2>2
    <3>2. e \in Range(one(1)) \/ e \in Range(one(2))
      BY <1>5, <1>6, <3>1, Zenon
    <3>3. e = entry(1) \/ e = entry(2)
      BY <1>3, <3>2
    <3>4. entry(1).type = 1 /\ entry(2).type = 2
      OBVIOUS
    <3> HIDE DEF entry
    <3> QED BY <2>2, <3>3, <3>4
  <2>3. v(t) # 0 => entry(t) \in Range(all)
    <3>1. v(t) # 0 => entry(t) \in Range(one(t))
      <4> HIDE DEF v, entry
      <4> QED BY <1>3, Zenon
    <3>2. Range(one(t)) \subseteq Range(all)
      <4> HIDE DEF v, entry
      <4> QED BY <1>5, <1>6
    <3> HIDE DEF v, entry
    <3> QED BY <3>1, <3>2
  <2>4. v(t) \in Nat
    BY <1>2
  <2>5. TwoAt(entry(t).value, 1) = v(t) /\ entry(t).type = t
    <3>1. entry(t).value = Two(v(t)) /\ entry(t).type = t
      OBVIOUS
    <3> HIDE DEF v, entry
    <3> QED BY <2>4, <3>1, TwoIs
  <2> HIDE DEF v, entry
  <2>6. CASE w = 0 /\ \A j \in 1..n : all[j].type # t
    <3>1. ASSUME v(t) # 0
          PROVE  FALSE
      <4>1. PICK j \in 1..n : all[j] = entry(t)
        BY <1>7, <2>3, <3>1 DEF Range
      <4>2. all[j].type = t
        BY <2>5, <4>1
      <4> QED BY <2>6, <4>2
    <3> QED BY <2>1, <2>6, <3>1
  <2>7. CASE \E j \in 1..n : all[j].type = t /\ w = TwoAt(all[j].value, 1)
    <3>1. PICK j \in 1..n : all[j].type = t /\ w = TwoAt(all[j].value, 1)
      BY <2>7
    <3>2. all[j] \in Range(all)
      BY <1>7 DEF Range
    <3>3. all[j] = entry(t)
      BY <2>2, <3>1, <3>2
    <3> QED BY <2>1, <2>5, <3>1, <3>3
  <2> QED BY <2>1, <2>6, <2>7, Zenon DEF Latest
<1>9. LastOf(all, 1, 0) = v(1) /\ LastOf(all, 2, 0) = v(2)
  BY <1>8
<1>10. all = MetadataEntries(m) \o more
  BY <1>1 DEF all
<1> QED
  BY <1>9, <1>10

\* Reading the metadata of a subgroup from where it stands in a stream
LEMMA MetadataReads ==
  ASSUME NEW m \in Contexts, NEW more \in Seq(Entries), \A e \in Range(more) : e.type \notin {1, 2},
         ContextsFirst(MetadataEntries(m) \o more), NEW s \in Bytes, NEW p \in Nat,
         Occurs(s, p, FillMetadata(m, more, 255))
  PROVE  ReadMetadata(s, p, Len(FillMetadata(m, more, 255)) - 1, NoMetadata) = m
<1> DEFINE entries == MetadataEntries(m) \o more
           read == ReadMetadata(s, p, Len(Filled(entries, 255)) - 1, NoMetadata)
<1>1. FillMetadata(m, more, 255) = Filled(entries, 255)
  BY DEF FillMetadata
<1>2. NoMetadata \in Contexts /\ NoMetadata.preferred_audio_ctx = 0 /\ NoMetadata.streaming_audio_ctx = 0
  BY DEF NoMetadata, Contexts
<1>3. LastOf(entries, 1, 0) = m.preferred_audio_ctx /\ LastOf(entries, 2, 0) = m.streaming_audio_ctx
  BY ContextsBack
<1>4. Occurs(s, p, Filled(entries, 255)) /\ ContextsFirst(entries)
  BY <1>1
<1> HIDE DEF entries
<1>5. /\ read \in Contexts
      /\ read.preferred_audio_ctx = LastOf(entries, 1, NoMetadata.preferred_audio_ctx)
      /\ read.streaming_audio_ctx = LastOf(entries, 2, NoMetadata.streaming_audio_ctx)
  BY <1>2, <1>4, ContextsReadAt
<1> HIDE DEF read
<1>6. read.preferred_audio_ctx = m.preferred_audio_ctx /\ read.streaming_audio_ctx = m.streaming_audio_ctx
  BY <1>2, <1>3, <1>5, Zenon
<1>7. read = m
  BY <1>5, <1>6 DEF Contexts
<1> QED
  BY <1>1, <1>7, Zenon DEF read

-----------------------------------------------------------------------------
(* The recursive functions, each with the chain of its steps *)

\* F puts the BISes behind s one by one
AddsBises(F, S, s, bises) ==
  /\ Len(bises) \in Nat /\ F \in [0..Len(bises) -> S]
  /\ F[0] = s
  /\ \A k \in 1..Len(bises) : F[k] = AddBis(F[k - 1], bises[k])

LEMMA AddBisesBy ==
  ASSUME NEW s, NEW bises, NEW S, NEW F, AddsBises(F, S, s, bises)
  PROVE  AddBises(s, bises) = F[Len(bises)]
<1> DEFINE n == Len(bises)
           start == s
           step == [k \in 1..n |-> [r \in S |-> AddBis(r, bises[k])]]
           Eq(g) == g = [k \in 0..n |-> IF k = 0 THEN start ELSE AddBis(g[k - 1], bises[k])]
           after == CHOOSE g : Eq(g)
<1>1. n \in Nat /\ F \in [0..n -> S] /\ F[0] = start /\ \A k \in 1..n : F[k] = AddBis(F[k - 1], bises[k])
  BY Zenon DEF AddsBises
<1>2. Chain(F, n, S, start, step)
  <2> HIDE DEF start, n
  <2>1. \A k \in 1..n : k - 1 \in 0..n
    BY <1>1
  <2>2. \A k \in 1..n : F[k] = step[k][F[k - 1]]
    BY <1>1, <2>1
  <2> HIDE DEF step
  <2> QED BY <1>1, <2>2, Zenon DEF Chain
<1>3. Eq(F)
  <2> HIDE DEF start, n
  <2>1. \A k \in 0..n : k = 0 \/ k \in 1..n
    BY <1>1
  <2>2. F = [k \in 0..n |-> F[k]]
    BY <1>1
  <2> QED BY <1>1, <2>1, <2>2
<1>4. Eq(after)
  <2> HIDE DEF Eq
  <2> QED BY <1>3, Zenon
<1>5. /\ after = [k \in 0..n |-> IF k = 0 THEN start ELSE AddBis(after[k - 1], bises[k])]
      /\ AddBises(s, bises) = after[n]
  BY <1>4, Zenon DEF AddBises
<1> HIDE DEF after, start, n
<1>6. after[0] = start /\ \A k \in 1..n : after[k] = AddBis(after[k - 1], bises[k])
  BY <1>1, <1>5
<1>7. \A k \in 1..n : after[k - 1] \in S => after[k] = step[k][after[k - 1]]
  BY <1>6
<1>8. \A k \in 0..n : after[k] = F[k]
  <2> HIDE DEF step
  <2> QED BY <1>1, <1>2, <1>6, <1>7, ChainOnly
<1>9. after[n] = F[n]
  BY <1>1, <1>8
<1> QED
  BY <1>5, <1>9 DEF n

\* F puts the subgroups behind the head one by one
AddsSubgroups(F, S, groups) ==
  /\ Len(groups) \in Nat /\ F \in [0..Len(groups) -> S]
  /\ F[0] = BaseHead(groups)
  /\ \A k \in 1..Len(groups) : F[k] = AddSubgroup(F[k - 1], groups[k])

LEMMA BuiltBaseBy ==
  ASSUME NEW groups, NEW S, NEW F, AddsSubgroups(F, S, groups)
  PROVE  BuiltBase(groups) = F[Len(groups)]
<1> DEFINE n == Len(groups)
           start == BaseHead(groups)
           step == [k \in 1..n |-> [r \in S |-> AddSubgroup(r, groups[k])]]
           Eq(g) == g = [k \in 0..n |-> IF k = 0 THEN start ELSE AddSubgroup(g[k - 1], groups[k])]
           after == CHOOSE g : Eq(g)
<1>1. n \in Nat /\ F \in [0..n -> S] /\ F[0] = start /\ \A k \in 1..n : F[k] = AddSubgroup(F[k - 1], groups[k])
  BY Zenon DEF AddsSubgroups
<1>2. Chain(F, n, S, start, step)
  <2> HIDE DEF start, n
  <2>1. \A k \in 1..n : k - 1 \in 0..n
    BY <1>1
  <2>2. \A k \in 1..n : F[k] = step[k][F[k - 1]]
    BY <1>1, <2>1
  <2> HIDE DEF step
  <2> QED BY <1>1, <2>2, Zenon DEF Chain
<1>3. Eq(F)
  <2> HIDE DEF start, n
  <2>1. \A k \in 0..n : k = 0 \/ k \in 1..n
    BY <1>1
  <2>2. F = [k \in 0..n |-> F[k]]
    BY <1>1
  <2> QED BY <1>1, <2>1, <2>2
<1>4. Eq(after)
  <2> HIDE DEF Eq
  <2> QED BY <1>3, Zenon
<1>5. /\ after = [k \in 0..n |-> IF k = 0 THEN start ELSE AddSubgroup(after[k - 1], groups[k])]
      /\ BuiltBase(groups) = after[n]
  BY <1>4, Zenon DEF BuiltBase
<1> HIDE DEF after, start, n
<1>6. after[0] = start /\ \A k \in 1..n : after[k] = AddSubgroup(after[k - 1], groups[k])
  BY <1>1, <1>5
<1>7. \A k \in 1..n : after[k - 1] \in S => after[k] = step[k][after[k - 1]]
  BY <1>6
<1>8. \A k \in 0..n : after[k] = F[k]
  <2> HIDE DEF step
  <2> QED BY <1>1, <1>2, <1>6, <1>7, ChainOnly
<1>9. after[n] = F[n]
  BY <1>1, <1>8
<1> QED
  BY <1>5, <1>9 DEF n

\* F reads the BISes one by one
ReadsBises(F, S, s, start, csc, count) ==
  /\ count \in Nat /\ F \in [0..count -> S]
  /\ F[0] = start
  /\ \A k \in 1..count : F[k] = (IF F[k - 1].ok THEN ReadBis(s, F[k - 1], csc) ELSE F[k - 1])

LEMMA ReadBisesBy ==
  ASSUME NEW s, NEW start, NEW csc, NEW count, NEW S, NEW F, ReadsBises(F, S, s, start, csc, count)
  PROVE  ReadBises(s, start, csc, count) = F[count]
<1> DEFINE n == count
           step == [k \in 1..n |-> [r \in S |-> (IF r.ok THEN ReadBis(s, r, csc) ELSE r)]]
           Eq(g) == g = [k \in 0..n |-> IF k = 0 THEN start ELSE (IF g[k - 1].ok THEN ReadBis(s, g[k - 1], csc) ELSE g[k - 1])]
           after == CHOOSE g : Eq(g)
<1>1. n \in Nat /\ F \in [0..n -> S] /\ F[0] = start /\ \A k \in 1..n : F[k] = (IF F[k - 1].ok THEN ReadBis(s, F[k - 1], csc) ELSE F[k - 1])
  BY Zenon DEF ReadsBises
<1>2. Chain(F, n, S, start, step)
  <2> HIDE DEF n
  <2>1. \A k \in 1..n : k - 1 \in 0..n
    BY <1>1
  <2>2. \A k \in 1..n : F[k] = step[k][F[k - 1]]
    BY <1>1, <2>1
  <2> HIDE DEF step
  <2> QED BY <1>1, <2>2, Zenon DEF Chain
<1>3. Eq(F)
  <2> HIDE DEF n
  <2>1. \A k \in 0..n : k = 0 \/ k \in 1..n
    BY <1>1
  <2>2. F = [k \in 0..n |-> F[k]]
    BY <1>1
  <2> QED BY <1>1, <2>1, <2>2
<1>4. Eq(after)
  <2> HIDE DEF Eq
  <2> QED BY <1>3, Zenon
<1>5. /\ after = [k \in 0..n |-> IF k = 0 THEN start ELSE (IF after[k - 1].ok THEN ReadBis(s, after[k - 1], csc) ELSE after[k - 1])]
      /\ ReadBises(s, start, csc, count) = after[n]
  BY <1>4, Zenon DEF ReadBises
<1> HIDE DEF after, n
<1>6. after[0] = start /\ \A k \in 1..n : after[k] = (IF after[k - 1].ok THEN ReadBis(s, after[k - 1], csc) ELSE after[k - 1])
  BY <1>1, <1>5
<1>7. \A k \in 1..n : after[k - 1] \in S => after[k] = step[k][after[k - 1]]
  BY <1>6
<1>8. \A k \in 0..n : after[k] = F[k]
  <2> HIDE DEF step
  <2> QED BY <1>1, <1>2, <1>6, <1>7, ChainOnly
<1>9. after[n] = F[n]
  BY <1>1, <1>8
<1> QED
  BY <1>5, <1>9 DEF n

\* F reads the subgroups one by one
ReadsSubgroups(F, S, s) ==
  /\ At(s, 6) \in Nat /\ F \in [0..At(s, 6) -> S]
  /\ F[0] = [i |-> 7, left |-> Len(s) - 4, ok |-> TRUE, items |-> <<>>]
  /\ \A k \in 1..At(s, 6) : F[k] = (IF F[k - 1].ok /\ F[k - 1].left >= 8 THEN ReadSubgroup(s, F[k - 1]) ELSE F[k - 1])

LEMMA ParsedBaseBy ==
  ASSUME NEW s, NEW S, NEW F, ReadsSubgroups(F, S, s)
  PROVE  ParsedBase(s) = [sub_group_cnt |-> At(s, 6), sub_group |-> F[At(s, 6)].items]
<1> DEFINE n == At(s, 6)
           start == [i |-> 7, left |-> Len(s) - 4, ok |-> TRUE, items |-> <<>>]
           step == [k \in 1..n |-> [r \in S |-> (IF r.ok /\ r.left >= 8 THEN ReadSubgroup(s, r) ELSE r)]]
           Eq(g) == g = [k \in 0..n |-> IF k = 0 THEN start ELSE (IF g[k - 1].ok /\ g[k - 1].left >= 8 THEN ReadSubgroup(s, g[k - 1]) ELSE g[k - 1])]
           after == CHOOSE g : Eq(g)
<1>1. n \in Nat /\ F \in [0..n -> S] /\ F[0] = start /\ \A k \in 1..n : F[k] = (IF F[k - 1].ok /\ F[k - 1].left >= 8 THEN ReadSubgroup(s, F[k - 1]) ELSE F[k - 1])
  BY Zenon DEF ReadsSubgroups
<1>2. Chain(F, n, S, start, step)
  <2> HIDE DEF start, n
  <2>1. \A k \in 1..n : k - 1 \in 0..n
    BY <1>1
  <2>2. \A k \in 1..n : F[k] = step[k][F[k - 1]]
    BY <1>1, <2>1
  <2> HIDE DEF step
  <2> QED BY <1>1, <2>2, Zenon DEF Chain
<1>3. Eq(F)
  <2> HIDE DEF start, n
  <2>1. \A k \in 0..n : k = 0 \/ k \in 1..n
    BY <1>1
  <2>2. F = [k \in 0..n |-> F[k]]
    BY <1>1
  <2> QED BY <1>1, <2>1, <2>2
<1>4. Eq(after)
  <2> HIDE DEF Eq
  <2> QED BY <1>3, Zenon
<1>5. /\ after = [k \in 0..n |-> IF k = 0 THEN start ELSE (IF after[k - 1].ok /\ after[k - 1].left >= 8 THEN ReadSubgroup(s, after[k - 1]) ELSE after[k - 1])]
      /\ ParsedBase(s) = [sub_group_cnt |-> n, sub_group |-> after[n].items]
  BY <1>4, Zenon DEF ParsedBase
<1> HIDE DEF after, start, n
<1>6. after[0] = start /\ \A k \in 1..n : after[k] = (IF after[k - 1].ok /\ after[k - 1].left >= 8 THEN ReadSubgroup(s, after[k - 1]) ELSE after[k - 1])
  BY <1>1, <1>5
<1>7. \A k \in 1..n : after[k - 1] \in S => after[k] = step[k][after[k - 1]]
  BY <1>6
<1>8. \A k \in 0..n : after[k] = F[k]
  <2> HIDE DEF step
  <2> QED BY <1>1, <1>2, <1>6, <1>7, ChainOnly
<1>9. after[n] = F[n]
  BY <1>1, <1>8
<1> QED
  BY <1>5, <1>9 DEF n

-----------------------------------------------------------------------------
(* What is built is the whole, where there is room for it *)

LEMMA Regrouped ==
  ASSUME NEW a \in Bytes, NEW b \in Bytes, NEW c \in Bytes
  PROVE  (a \o b) \o c = a \o (b \o c)
BY ConcatAssociative DEF Bytes

LEMMA WholeBisIs ==
  ASSUME NEW bis \in Bises
  PROVE  /\ WholeBis(bis) \in Bytes /\ WholeBis(bis)[1] = bis.bis_idx
         /\ Len(WholeBis(bis)) = 1 + Len(FillConfig(bis.bis_csc, 255))
         /\ <<bis.bis_idx>> \in Bytes /\ Len(<<bis.bis_idx>>) = 1
         /\ FillConfig(bis.bis_csc, 255) \in Bytes /\ Len(FillConfig(bis.bis_csc, 255)) \in 1..31
<1> DEFINE f == FillConfig(bis.bis_csc, 255)
           index == <<bis.bis_idx>>
<1>1. bis.bis_idx \in Nat /\ bis.bis_csc \in Configs
  BY DEF Bises
<1>2. f \in Bytes /\ Len(f) \in 1..31
  BY <1>1, ConfigSame
<1>3. index \in Bytes /\ Len(index) = 1 /\ index[1] = bis.bis_idx
  BY <1>1 DEF Bytes
<1>4. WholeBis(bis) = index \o f
  BY DEF WholeBis
<1> HIDE DEF index, f
<1>5. /\ index \o f \in Bytes /\ Len(index \o f) = Len(index) + Len(f)
      /\ \A j \in 1..Len(index) : (index \o f)[j] = index[j]
  BY <1>2, <1>3, Joined
<1>6. 1 \in 1..Len(index)
  BY <1>3
<1> QED
  BY <1>2, <1>3, <1>4, <1>5, <1>6 DEF f, index

LEMMA AddBisIs ==
  ASSUME NEW bis \in Bises, NEW x \in Bytes, Len(x) + Len(WholeBis(bis)) <= BaseMax
  PROVE  AddBis(x, bis) = x \o WholeBis(bis)
<1> DEFINE f == FillConfig(bis.bis_csc, 255)
           index == <<bis.bis_idx>>
           room == BaseMax - Len(x) - 1
<1>1. /\ bis.bis_csc \in Configs /\ f \in Bytes /\ index \in Bytes /\ Len(f) \in Nat /\ Len(x) \in Nat
      /\ BaseMax \in Int /\ Len(WholeBis(bis)) = 1 + Len(f)
  <2>1. bis.bis_csc \in Configs /\ BaseMax \in Int
    BY BroadcastBaseConstants DEF Bises
  <2>2. f \in Bytes /\ index \in Bytes /\ Len(WholeBis(bis)) = 1 + Len(f)
    BY WholeBisIs
  <2> HIDE DEF f
  <2> QED BY <2>1, <2>2 DEF Bytes
<1>2. AddBis(x, bis) = (x \o index) \o FillConfig(bis.bis_csc, room)
  BY DEF AddBis
<1>3. WholeBis(bis) = index \o f
  BY DEF WholeBis
<1>4. room \in Int /\ Len(f) <= room
  <2> HIDE DEF f
  <2> QED BY <1>1
<1>5. FillConfig(bis.bis_csc, room) = f
  <2> HIDE DEF room
  <2> QED BY <1>1, <1>4, ConfigSame
<1> HIDE DEF f, index, room
<1> QED
  BY <1>1, <1>2, <1>3, <1>5, Regrouped

LEMMA BisPartsAre ==
  ASSUME NEW bises \in Seq(Bises)
  PROVE  /\ BisParts(bises) \in Seq(Bytes) /\ Len(BisParts(bises)) = Len(bises)
         /\ \A k \in 1..Len(bises) : BisParts(bises)[k] = WholeBis(bises[k]) /\ bises[k] \in Bises
<1> DEFINE n == Len(bises)
<1>1. n \in Nat /\ \A k \in 1..n : bises[k] \in Bises
  OBVIOUS
<1>2. \A k \in 1..n : WholeBis(bises[k]) \in Bytes
  BY <1>1, WholeBisIs
<1>3. BisParts(bises) = [k \in 1..n |-> WholeBis(bises[k])]
  BY DEF BisParts
<1> HIDE DEF n
<1> QED
  BY <1>1, <1>2, <1>3 DEF n

LEMMA AddBisesIs ==
  ASSUME NEW bises \in Seq(Bises), NEW x \in Bytes, Len(x) + Len(Joint(BisParts(bises))) <= BaseMax
  PROVE  AddBises(x, bises) = x \o Joint(BisParts(bises))
<1> DEFINE parts == BisParts(bises)
<1>1. /\ parts \in Seq(Bytes) /\ Len(parts) = Len(bises)
      /\ \A k \in 1..Len(bises) : parts[k] = WholeBis(bises[k]) /\ bises[k] \in Bises
  BY BisPartsAre
<1> HIDE DEF parts
<1>2. PICK n, joined, len : Lengths(parts, n, joined, len)
  BY <1>1, LengthsAre
<1>3. /\ n \in Nat /\ n = Len(bises) /\ joined[0] = <<>>
      /\ len \in [0..n -> Nat] /\ len[0] = 0
      /\ \A k \in 0..n : joined[k] \in Bytes /\ len[k] = Len(joined[k]) /\ len[k] <= len[n]
      /\ \A k \in 1..n : len[k] = len[k - 1] + Len(parts[k]) /\ parts[k] \in Bytes /\ Len(parts[k]) \in Nat
      /\ \A k \in 1..n : joined[k] = joined[k - 1] \o parts[k]
      /\ Joint(parts) = joined[n] /\ Len(Joint(parts)) = len[n]
  BY <1>1, <1>2, Zenon DEF Lengths, Joins
<1>4. Len(x) \in Nat /\ BaseMax \in Int /\ Len(x) + len[n] <= BaseMax
  <2>1. Len(x) + Len(Joint(parts)) <= BaseMax
    BY DEF parts
  <2> QED BY <1>3, <2>1, BroadcastBaseConstants DEF Bytes
<1> DEFINE F == [k \in 0..n |-> x \o joined[k]]
<1>5. F \in [0..n -> Bytes]
  <2>1. \A k \in 0..n : x \o joined[k] \in Bytes
    BY <1>3, Joined
  <2> QED BY <2>1
<1>6. F[0] = x
  <2>1. F[0] = x \o <<>>
    <3>1. joined[0] = <<>> /\ 0 \in 0..n
      BY <1>3
    <3> QED BY <3>1
  <2> QED BY <2>1, ConcatEmptySeq DEF Bytes
<1>7. ASSUME NEW k \in 1..n
      PROVE  F[k] = AddBis(F[k - 1], bises[k])
  <2>1. k - 1 \in 0..n /\ k \in 0..n
    BY <1>3
  <2>2. F[k] = x \o joined[k] /\ F[k - 1] = x \o joined[k - 1]
    BY <2>1
  <2> HIDE DEF F
  <2> DEFINE before == joined[k - 1]
             part == parts[k]
             a == len[k - 1]
             b == len[k]
             c == Len(part)
             total == len[n]
             front == Len(x)
  <2>3. before \in Bytes /\ part \in Bytes /\ joined[k] = before \o part
    BY <1>3, <2>1
  <2>4. Len(x \o before) = front + a /\ x \o before \in Bytes
    <3>1. Len(before) = a
      BY <1>3, <2>1
    <3> HIDE DEF before, a
    <3> QED BY <2>3, <3>1, Joined
  <2>5. a \in Nat /\ b \in Nat /\ c \in Nat /\ total \in Nat /\ b = a + c /\ b <= total
        /\ front + total <= BaseMax /\ front \in Nat
    <3>1. n \in 0..n
      BY <1>3
    <3> QED BY <1>3, <1>4, <2>1, <3>1
  <2>6. part = WholeBis(bises[k]) /\ bises[k] \in Bises
    BY <1>1, <1>3
  <2>7. Len(x \o before) + Len(part) <= BaseMax
    <3>1. (front + a) + c <= BaseMax
      <4> HIDE DEF a, b, c, total, front
      <4> QED BY <1>4, <2>5
    <3> QED BY <2>4, <3>1, Zenon
  <2> HIDE DEF before, part, a, b, c, total, front
  <2>8. AddBis(x \o before, bises[k]) = (x \o before) \o part
    BY <2>4, <2>6, <2>7, AddBisIs
  <2>9. (x \o before) \o part = x \o (before \o part)
    BY <2>3, Regrouped
  <2> QED BY <2>2, <2>3, <2>8, <2>9, Zenon DEF before
<1>8. F[n] = x \o Joint(parts)
  BY <1>3
<1> HIDE DEF F
<1>9. AddsBises(F, Bytes, x, bises)
  BY <1>3, <1>5, <1>6, <1>7, Zenon DEF AddsBises
<1>10. AddBises(x, bises) = F[Len(bises)]
  BY <1>9, AddBisesBy
<1> QED
  BY <1>3, <1>8, <1>10 DEF parts

\* A subgroup as sources have it
ProperGroup(g) ==
  /\ g \in Groups
  /\ ContextsFirst(MetadataEntries(g.metadata) \o g.more)
  /\ \A e \in Range(g.more) : e.type \notin {1, 2}

\* The codec id of a subgroup, behind the number of its BISes
CodecIdOf(g) == <<Len(g.bis_config), 6, 0, 0, 0, 0>>

\* The bytes of a subgroup: codec id, configuration, metadata and BISes, with their lengths
WholeOf(g, c, f, m, j) ==
  /\ c \in Bytes /\ f \in Bytes /\ m \in Bytes /\ j \in Bytes
  /\ c \o f \in Bytes /\ (c \o f) \o m \in Bytes /\ WholeGroup(g) \in Bytes
  /\ WholeGroup(g) = ((c \o f) \o m) \o j
  /\ Len(c) = 6 /\ Len(f) \in 1..31 /\ Len(m) \in 1..255 /\ Len(j) \in Nat
  /\ f[1] = Len(f) - 1 /\ m[1] = Len(m) - 1
  /\ c[1] = Len(g.bis_config)
  /\ Len(c \o f) = 6 + Len(f) /\ Len((c \o f) \o m) = 6 + Len(f) + Len(m)
  /\ Len(WholeGroup(g)) = 6 + Len(f) + Len(m) + Len(j)
  /\ g.csc \in Configs /\ g.metadata \in Contexts /\ g.more \in Seq(Entries)
  /\ g.bis_config \in Seq(Bises)

LEMMA WholeGroupIs ==
  ASSUME NEW g, ProperGroup(g)
  PROVE  WholeOf(g, CodecIdOf(g), FillConfig(g.csc, 255), FillMetadata(g.metadata, g.more, 255),
                 Joint(BisParts(g.bis_config)))
<1> DEFINE c == CodecIdOf(g)
           f == FillConfig(g.csc, 255)
           m == FillMetadata(g.metadata, g.more, 255)
           j == Joint(BisParts(g.bis_config))
           cf == c \o f
           cfm == cf \o m
           whole == cfm \o j
<1>1. g.csc \in Configs /\ g.metadata \in Contexts /\ g.more \in Seq(Entries) /\ g.bis_config \in Seq(Bises)
  BY DEF ProperGroup, Groups
<1>2. c \in Bytes /\ Len(c) = 6 /\ c[1] = Len(g.bis_config)
  BY <1>1 DEF CodecIdOf, Bytes
<1>3. f \in Bytes /\ Len(f) \in 1..31 /\ f[1] = Len(f) - 1
  BY <1>1, ConfigSame
<1>4. m \in Bytes /\ Len(m) \in 1..255 /\ m[1] = Len(m) - 1
  <2> DEFINE entries == MetadataEntries(g.metadata) \o g.more
  <2>1. ContextsFirst(entries)
    BY DEF ProperGroup
  <2>2. m = Filled(entries, 255)
    BY DEF FillMetadata
  <2> HIDE DEF entries, m
  <2> QED BY <2>1, <2>2, MetadataSame
<1>5. j \in Bytes /\ Len(j) \in Nat
  <2>1. BisParts(g.bis_config) \in Seq(Bytes)
    BY <1>1, BisPartsAre
  <2>2. PICK n, joined, len : Lengths(BisParts(g.bis_config), n, joined, len)
    BY <2>1, LengthsAre
  <2>3. j \in Bytes
    BY <2>2, Zenon DEF Lengths
  <2> HIDE DEF j
  <2> QED BY <2>3 DEF Bytes
<1>6. WholeGroup(g) = whole
  BY DEF WholeGroup, GroupHead, CodecIdOf
<1> HIDE DEF c, f, m, j
<1>7. cf \in Bytes /\ Len(cf) = 6 + Len(f)
  <2>1. cf \in Bytes /\ Len(cf) = Len(c) + Len(f)
    BY <1>2, <1>3, Joined, Zenon
  <2> QED BY <1>2, <2>1, Zenon
<1> HIDE DEF cf
<1>8. cfm \in Bytes /\ Len(cfm) = 6 + Len(f) + Len(m)
  <2>1. cfm \in Bytes /\ Len(cfm) = Len(cf) + Len(m)
    BY <1>4, <1>7, Joined
  <2> QED BY <1>7, <2>1, Zenon
<1> HIDE DEF cfm
<1>9. whole \in Bytes /\ Len(whole) = 6 + Len(f) + Len(m) + Len(j)
  <2>1. whole \in Bytes /\ Len(whole) = Len(cfm) + Len(j)
    BY <1>5, <1>8, Joined
  <2> QED BY <1>8, <2>1, Zenon
<1>10. whole = ((c \o f) \o m) \o j /\ cf = c \o f /\ cfm = (c \o f) \o m
  BY DEF cf, cfm
<1> HIDE DEF whole
<1>11. WholeOf(g, c, f, m, j)
  BY <1>1, <1>2, <1>3, <1>4, <1>5, <1>6, <1>7, <1>8, <1>9, <1>10, ZenonT(60) DEF WholeOf
<1> QED
  BY <1>11, Zenon DEF c, f, m, j

LEMMA AddSubgroupIs ==
  ASSUME NEW g, ProperGroup(g), NEW x \in Bytes, Len(x) + Len(WholeGroup(g)) <= BaseMax
  PROVE  AddSubgroup(x, g) = x \o WholeGroup(g)
<1> DEFINE c == CodecIdOf(g)
           f == FillConfig(g.csc, 255)
           m == FillMetadata(g.metadata, g.more, 255)
           j == Joint(BisParts(g.bis_config))
           cf == c \o f
           cfm == cf \o m
           head == x \o c
           withConfig == head \o FillConfig(g.csc, BaseMax - Len(head))
           withMetadata == withConfig \o FillMetadata(g.metadata, g.more, BaseMax - Len(withConfig))
           xl == Len(x)
           fl == Len(f)
           ml == Len(m)
           jl == Len(j)
<1>1. AddSubgroup(x, g) = AddBises(withMetadata, g.bis_config)
  BY Zenon DEF AddSubgroup, CodecIdOf
<1>2. /\ c \in Bytes /\ f \in Bytes /\ m \in Bytes /\ j \in Bytes /\ cf \in Bytes /\ cfm \in Bytes
      /\ WholeGroup(g) = cfm \o j /\ Len(c) = 6
      /\ fl \in 1..31 /\ ml \in 1..255 /\ jl \in Nat /\ Len(cf) = 6 + fl /\ Len(cfm) = 6 + fl + ml
      /\ Len(WholeGroup(g)) = 6 + fl + ml + jl
      /\ g.csc \in Configs /\ g.bis_config \in Seq(Bises)
  <2>1. WholeOf(g, c, f, m, j)
    BY WholeGroupIs, Zenon
  <2> HIDE DEF c, f, m, j
  <2> QED BY <2>1, ZenonT(30) DEF WholeOf
<1>3. xl \in Nat /\ BaseMax \in Int
  BY BroadcastBaseConstants DEF Bytes
<1>4. xl + (6 + fl + ml + jl) <= BaseMax
  BY <1>2, Zenon
<1> HIDE DEF c, f, m, j, head, withConfig, withMetadata
<1>5. head \in Bytes /\ Len(head) = xl + 6
  <2>1. x \o c \in Bytes /\ Len(x \o c) = xl + Len(c)
    BY <1>2, Joined, Zenon
  <2> QED BY <1>2, <2>1 DEF head
<1> HIDE DEF xl, fl, ml, jl
<1>6. FillConfig(g.csc, BaseMax - Len(head)) = f
  <2>1. BaseMax - Len(head) \in Int /\ fl <= BaseMax - Len(head)
    BY <1>2, <1>3, <1>4, <1>5
  <2> QED BY <1>2, <2>1, ConfigSame DEF f, fl
<1>7. withConfig = x \o cf
  <2>1. withConfig = (x \o c) \o f
    BY <1>6, Zenon DEF withConfig, head
  <2> QED BY <1>2, <2>1, Regrouped
<1>8. withConfig \in Bytes /\ Len(withConfig) = xl + (6 + fl)
  <2>1. x \o cf \in Bytes /\ Len(x \o cf) = Len(x) + Len(cf)
    BY <1>2, Joined, Zenon
  <2> QED BY <1>2, <1>7, <2>1, Zenon DEF xl
<1> HIDE DEF cf
<1>9. FillMetadata(g.metadata, g.more, BaseMax - Len(withConfig)) = m
  <2> DEFINE entries == MetadataEntries(g.metadata) \o g.more
             room == BaseMax - Len(withConfig)
  <2>1. ContextsFirst(entries)
    BY DEF ProperGroup
  <2>2. m = Filled(entries, 255) /\ FillMetadata(g.metadata, g.more, room) = Filled(entries, room)
    BY Zenon DEF FillMetadata, m
  <2>3. room \in Int /\ ml <= room
    BY <1>2, <1>3, <1>4, <1>8
  <2> HIDE DEF entries, room
  <2>4. Len(Filled(entries, 255)) <= room
    BY <2>2, <2>3 DEF ml
  <2>5. Filled(entries, room) = Filled(entries, 255)
    BY <2>1, <2>3, <2>4, MetadataSame
  <2> QED BY <2>2, <2>5 DEF room
<1>10. withMetadata = x \o cfm
  <2>1. withMetadata = (x \o cf) \o m
    BY <1>7, <1>9, Zenon DEF withMetadata
  <2> QED BY <1>2, <2>1, Regrouped
<1> HIDE DEF cfm
<1>11. withMetadata \in Bytes /\ Len(withMetadata) = xl + (6 + fl + ml)
  <2>1. x \o cfm \in Bytes /\ Len(x \o cfm) = Len(x) + Len(cfm)
    BY <1>2, Joined, Zenon
  <2> QED BY <1>2, <1>10, <2>1, Zenon DEF xl
<1>12. Len(withMetadata) + jl <= BaseMax
  BY <1>2, <1>3, <1>4, <1>11
<1>13. AddBises(withMetadata, g.bis_config) = withMetadata \o j
  BY <1>2, <1>11, <1>12, AddBisesIs DEF j, jl
<1>14. (x \o cfm) \o j = x \o (cfm \o j)
  BY <1>2, Regrouped
<1> QED
  BY <1>1, <1>2, <1>10, <1>13, <1>14, Zenon

LEMMA GroupPartsAre ==
  ASSUME NEW groups, Announceable(groups)
  PROVE  /\ GroupParts(groups) \in Seq(Bytes) /\ Len(GroupParts(groups)) = Len(groups) /\ Len(groups) \in Nat
         /\ \A k \in 1..Len(groups) : GroupParts(groups)[k] = WholeGroup(groups[k]) /\ ProperGroup(groups[k])
<1>1. groups \in Seq(Groups)
  BY DEF Announceable
<1> DEFINE n == Len(groups)
<1>2. n \in Nat /\ DOMAIN groups = 1..n /\ \A k \in 1..n : groups[k] \in Groups
  BY <1>1
<1>3. \A k \in 1..n : ProperGroup(groups[k])
  BY <1>2, Zenon DEF Announceable, ProperGroup
<1>4. \A k \in 1..n : WholeGroup(groups[k]) \in Bytes
  BY <1>3, WholeGroupIs, ZenonT(60) DEF WholeOf
<1>5. GroupParts(groups) = [k \in 1..n |-> WholeGroup(groups[k])]
  BY DEF GroupParts
<1> HIDE DEF n
<1>6. GroupParts(groups) \in Seq(Bytes) /\ Len(GroupParts(groups)) = n
      /\ \A k \in 1..n : GroupParts(groups)[k] = WholeGroup(groups[k])
  BY <1>2, <1>4, <1>5
<1> QED
  BY <1>2, <1>3, <1>6 DEF n

LEMMA BuiltBaseIs ==
  ASSUME NEW groups, Announceable(groups)
  PROVE  BuiltBase(groups) = Whole(groups)
<1> DEFINE parts == GroupParts(groups)
           x == BaseHead(groups)
<1>1. /\ parts \in Seq(Bytes) /\ Len(parts) = Len(groups) /\ Len(groups) \in Nat
      /\ \A k \in 1..Len(groups) : parts[k] = WholeGroup(groups[k]) /\ ProperGroup(groups[k])
  BY GroupPartsAre
<1>2. x \in Bytes /\ Len(x) = 8
  BY <1>1 DEF BaseHead, Bytes
<1>3. Whole(groups) = x \o Joint(parts) /\ Len(Whole(groups)) <= BaseMax
  BY DEF Whole, Announceable
<1> HIDE DEF parts, x
<1>4. PICK n, joined, len : Lengths(parts, n, joined, len)
  BY <1>1, LengthsAre
<1>5. /\ n \in Nat /\ n = Len(groups) /\ joined[0] = <<>>
      /\ len \in [0..n -> Nat] /\ len[0] = 0
      /\ \A k \in 0..n : joined[k] \in Bytes /\ len[k] = Len(joined[k]) /\ len[k] <= len[n]
      /\ \A k \in 1..n : len[k] = len[k - 1] + Len(parts[k]) /\ parts[k] \in Bytes /\ Len(parts[k]) \in Nat
      /\ \A k \in 1..n : joined[k] = joined[k - 1] \o parts[k]
      /\ Joint(parts) = joined[n] /\ Len(Joint(parts)) = len[n] /\ Joint(parts) \in Bytes
  BY <1>1, <1>4, Zenon DEF Lengths, Joins
<1>6. Len(x) \in Nat /\ BaseMax \in Int /\ Len(x) + len[n] <= BaseMax
  <2>1. Len(x \o Joint(parts)) = Len(x) + Len(Joint(parts))
    BY <1>2, <1>5, Joined
  <2>2. Len(x) + len[n] <= BaseMax
    BY <1>3, <1>5, <2>1, Zenon
  <2>3. Len(x) \in Nat /\ BaseMax \in Int
    BY <1>2, BroadcastBaseConstants
  <2> QED BY <2>2, <2>3
<1> DEFINE F == [k \in 0..n |-> x \o joined[k]]
<1>7. F \in [0..n -> Bytes]
  <2>1. \A k \in 0..n : x \o joined[k] \in Bytes
    BY <1>2, <1>5, Joined
  <2> QED BY <2>1
<1>8. F[0] = x
  <2>1. F[0] = x \o <<>>
    <3>1. joined[0] = <<>> /\ 0 \in 0..n
      BY <1>5
    <3> QED BY <3>1
  <2> QED BY <1>2, <2>1, ConcatEmptySeq DEF Bytes
<1>9. ASSUME NEW k \in 1..n
      PROVE  F[k] = AddSubgroup(F[k - 1], groups[k])
  <2>1. k - 1 \in 0..n /\ k \in 0..n
    BY <1>5
  <2>2. F[k] = x \o joined[k] /\ F[k - 1] = x \o joined[k - 1]
    BY <2>1
  <2> HIDE DEF F
  <2> DEFINE before == joined[k - 1]
             part == parts[k]
             a == len[k - 1]
             b == len[k]
             c == Len(part)
             total == len[n]
             front == Len(x)
  <2>3. before \in Bytes /\ part \in Bytes /\ joined[k] = before \o part
    BY <1>5, <2>1
  <2>4. Len(x \o before) = front + a /\ x \o before \in Bytes
    <3>1. Len(before) = a
      BY <1>5, <2>1
    <3> HIDE DEF before, a
    <3> QED BY <1>2, <2>3, <3>1, Joined
  <2>5. a \in Nat /\ b \in Nat /\ c \in Nat /\ total \in Nat /\ b = a + c /\ b <= total
        /\ front + total <= BaseMax /\ front \in Nat
    <3>1. n \in 0..n
      BY <1>5
    <3> QED BY <1>5, <1>6, <2>1, <3>1
  <2>6. part = WholeGroup(groups[k]) /\ ProperGroup(groups[k])
    BY <1>1, <1>5
  <2>7. Len(x \o before) + Len(part) <= BaseMax
    <3>1. (front + a) + c <= BaseMax
      <4> HIDE DEF a, b, c, total, front
      <4> QED BY <1>6, <2>5
    <3> QED BY <2>4, <3>1, Zenon
  <2> HIDE DEF before, part, a, b, c, total, front
  <2>8. AddSubgroup(x \o before, groups[k]) = (x \o before) \o part
    BY <2>4, <2>6, <2>7, AddSubgroupIs
  <2>9. (x \o before) \o part = x \o (before \o part)
    BY <1>2, <2>3, Regrouped
  <2> QED BY <2>2, <2>3, <2>8, <2>9, Zenon DEF before
<1>10. F[n] = x \o Joint(parts)
  BY <1>5
<1> HIDE DEF F
<1>11. AddsSubgroups(F, Bytes, groups)
  BY <1>5, <1>7, <1>8, <1>9, Zenon DEF AddsSubgroups, x
<1>12. BuiltBase(groups) = F[Len(groups)]
  BY <1>11, BuiltBaseBy
<1> QED
  BY <1>3, <1>5, <1>10, <1>12

-----------------------------------------------------------------------------
(* What is read is what was built *)

\* What the headset has of a BIS and of a subgroup
BisRead(bis, csc) == [bis_idx |-> bis.bis_idx, bis_csc |-> Merged(csc, bis.bis_csc)]

GroupRead(g) ==
  [csc |-> g.csc, metadata |-> g.metadata,
   bis_config |-> [k \in 1..Len(g.bis_config) |-> BisRead(g.bis_config[k], g.csc)]]

LEMMA AppendNext ==
  ASSUME NEW n \in Nat, NEW f, NEW k \in 1..n, DOMAIN f = 1..n
  PROVE  Append([j \in 1..(k - 1) |-> f[j]], f[k]) = [j \in 1..k |-> f[j]]
<1> DEFINE S == {f[j] : j \in 1..n}
           a == [j \in 1..(k - 1) |-> f[j]]
           b == [j \in 1..k |-> f[j]]
<1>1. k - 1 \in Nat /\ k \in Nat /\ (k - 1) + 1 = k
  OBVIOUS
<1>2. a \in Seq(S) /\ Len(a) = k - 1 /\ f[k] \in S
  OBVIOUS
<1>3. Append(a, f[k]) \in Seq(S) /\ Len(Append(a, f[k])) = k /\ Append(a, f[k])[k] = f[k]
      /\ \A j \in 1..(k - 1) : Append(a, f[k])[j] = a[j]
  <2> HIDE DEF a, S
  <2> QED BY <1>1, <1>2
<1>4. \A j \in 1..k : Append(a, f[k])[j] = f[j]
  <2>1. \A j \in 1..k : j = k \/ j \in 1..(k - 1)
    OBVIOUS
  <2>2. \A j \in 1..(k - 1) : a[j] = f[j]
    OBVIOUS
  <2> HIDE DEF a, S
  <2> QED BY <1>3, <2>1, <2>2
<1>5. b \in Seq(S) /\ Len(b) = k /\ \A j \in 1..k : b[j] = f[j]
  OBVIOUS
<1> HIDE DEF a, b, S
<1>6. Append(a, f[k]) = b
  BY <1>3, <1>4, <1>5, SeqEqual
<1> QED
  BY <1>6 DEF a, b

LEMMA BisReads ==
  ASSUME NEW bis \in Bises, NEW csc \in Configs, NEW s, NEW i \in Nat, NEW left \in Nat, NEW items,
         OccursAt(s, i, WholeBis(bis)), left >= Len(WholeBis(bis))
  PROVE  ReadBis(s, [i |-> i, left |-> left, ok |-> TRUE, items |-> items], csc)
           = [i |-> i + Len(WholeBis(bis)), left |-> left - Len(WholeBis(bis)), ok |-> TRUE,
              items |-> Append(items, BisRead(bis, csc))]
<1> DEFINE f == FillConfig(bis.bis_csc, 255)
           index == <<bis.bis_idx>>
           fl == Len(f)
           whole == Len(WholeBis(bis))
           length == At(s, i + 1)
           acc == [i |-> i, left |-> left, ok |-> TRUE, items |-> items]
<1>1. /\ f \in Bytes /\ fl \in 1..31 /\ index \in Bytes /\ Len(index) = 1 /\ index[1] = bis.bis_idx
      /\ whole = 1 + fl /\ WholeBis(bis) = index \o f
  BY WholeBisIs DEF WholeBis
<1>2. bis.bis_csc \in Configs
  BY DEF Bises
<1>3. f[1] = fl - 1
  BY <1>2, ConfigSame
<1> HIDE DEF f, index
<1>4. OccursAt(s, i, index) /\ OccursAt(s, i + 1, f)
  <2>1. OccursAt(s, i, index) /\ OccursAt(s, i + Len(index), f)
    BY <1>1, PartsOccur
  <2> QED BY <1>1, <2>1, Zenon
<1>5. At(s, i) = bis.bis_idx
  <2>1. At(s, i) = index[1]
    BY <1>1, <1>4, LengthOccurs
  <2> QED BY <1>1, <2>1
<1>6. length = fl - 1 /\ Occurs(s, i + 2, f)
  <2>1. At(s, i + 1) = f[1] /\ Occurs(s, (i + 1) + 1, f)
    <3>1. i + 1 \in Nat /\ fl >= 1
      <4>1. fl \in 1..31
        BY <1>1
      <4> HIDE DEF fl
      <4> QED BY <4>1
    <3> QED BY <1>1, <1>4, <3>1, LengthOccurs
  <2>2. (i + 1) + 1 = i + 2
    OBVIOUS
  <2> QED BY <1>3, <2>1, <2>2, Zenon
<1>7. ReadConfig(s, i + 2, length, csc) = Merged(csc, bis.bis_csc)
  <2>1. i + 2 \in Nat
    OBVIOUS
  <2>2. ReadConfig(s, i + 2, fl - 1, csc) = Over(csc, bis.bis_csc)
    BY <1>2, <1>6, <2>1, ConfigReads DEF f
  <2>3. Merged(csc, bis.bis_csc) = Over(csc, bis.bis_csc)
    BY <1>2, OverIsMerged
  <2> QED BY <1>6, <2>2, <2>3, Zenon
<1>8. acc.i = i /\ acc.left = left /\ acc.ok = TRUE /\ acc.items = items
  OBVIOUS
<1> HIDE DEF acc
<1>9. ReadBis(s, acc, csc) =
        IF left < 2 \/ left - 2 < length THEN [acc EXCEPT !.ok = FALSE]
        ELSE [i |-> i + 2 + length, left |-> left - 2 - length, ok |-> TRUE,
              items |-> Append(items, [bis_idx |-> At(s, i), bis_csc |-> ReadConfig(s, i + 2, length, csc)])]
  BY <1>8, Zenon DEF ReadBis, BisStartsFrom
<1> HIDE DEF fl, whole, length
<1>10. ~(left < 2 \/ left - 2 < length) /\ i + 2 + length = i + whole /\ left - 2 - length = left - whole
  <2>1. left >= whole
    BY DEF whole
  <2> QED BY <1>1, <1>6, <2>1
<1>11. [bis_idx |-> At(s, i), bis_csc |-> ReadConfig(s, i + 2, length, csc)] = BisRead(bis, csc)
  BY <1>5, <1>7 DEF BisRead
<1> QED
  BY <1>9, <1>10, <1>11, Zenon DEF acc, whole

LEMMA BisesRead ==
  ASSUME NEW bises \in Seq(Bises), NEW csc \in Configs, NEW s, NEW p \in Nat, NEW more \in Nat,
         OccursAt(s, p, Joint(BisParts(bises)))
  PROVE  LET j == Len(Joint(BisParts(bises)))
         IN ReadBises(s, [i |-> p, left |-> j + more, ok |-> TRUE, items |-> <<>>], csc, Len(bises))
              = [i |-> p + j, left |-> more, ok |-> TRUE,
                 items |-> [k \in 1..Len(bises) |-> BisRead(bises[k], csc)]]
<1> DEFINE parts == BisParts(bises)
           jl == Len(Joint(parts))
           start == [i |-> p, left |-> jl + more, ok |-> TRUE, items |-> <<>>]
<1>1. /\ parts \in Seq(Bytes) /\ Len(parts) = Len(bises)
      /\ \A k \in 1..Len(bises) : parts[k] = WholeBis(bises[k]) /\ bises[k] \in Bises
  BY BisPartsAre
<1>2. OccursAt(s, p, Joint(parts))
  OBVIOUS
<1> HIDE DEF parts
<1>3. PICK n, joined, len : Lengths(parts, n, joined, len)
  BY <1>1, LengthsAre
<1>4. /\ n \in Nat /\ n = Len(bises)
      /\ len \in [0..n -> Nat] /\ len[0] = 0
      /\ \A k \in 0..n : len[k] <= len[n]
      /\ \A k \in 1..n : len[k] = len[k - 1] + Len(parts[k]) /\ Len(parts[k]) \in Nat
      /\ jl = len[n]
  BY <1>1, <1>3, Zenon DEF Lengths
<1>5. \A k \in 1..n : OccursAt(s, p + len[k - 1], parts[k])
  BY <1>1, <1>2, <1>3, JointOccurs
<1> DEFINE total == len[n]
           found == [k \in 1..n |-> BisRead(bises[k], csc)]
           upTo(k) == [j \in 1..k |-> found[j]]
           F == [k \in 0..n |-> [i |-> p + len[k], left |-> total - len[k] + more, ok |-> TRUE,
                                 items |-> upTo(k)]]
           S == {F[k] : k \in 0..n}
<1>6. F \in [0..n -> S]
  <2> HIDE DEF upTo
  <2> QED OBVIOUS
<1>7. total \in Nat
  BY <1>4
<1>8. F[0] = start
  <2>1. upTo(0) = <<>>
    OBVIOUS
  <2>2. p + len[0] = p /\ total - len[0] + more = jl + more /\ 0 \in 0..n
    <3>1. len[0] = 0 /\ total = jl /\ 0 \in 0..n
      BY <1>4
    <3> HIDE DEF total, jl
    <3> QED BY <1>7, <3>1
  <2> HIDE DEF upTo, total, jl
  <2>3. F[0] = [i |-> p + len[0], left |-> total - len[0] + more, ok |-> TRUE, items |-> upTo(0)]
    BY <2>2
  <2> HIDE DEF F
  <2> QED BY <2>1, <2>2, <2>3
<1>9. ASSUME NEW k \in 1..n
      PROVE  F[k] = IF F[k - 1].ok THEN ReadBis(s, F[k - 1], csc) ELSE F[k - 1]
  <2>1. k - 1 \in 0..n /\ k \in 0..n
    BY <1>4
  <2> DEFINE at == len[k - 1]
             to == len[k]
             size == Len(parts[k])
             old == [i |-> p + at, left |-> total - at + more, ok |-> TRUE, items |-> upTo(k - 1)]
  <2>2. at \in Nat /\ to \in Nat /\ to = at + size /\ to <= total /\ size \in Nat
    BY <1>4, <2>1
  <2>3. F[k - 1] = old
    <3> HIDE DEF upTo, total
    <3> QED BY <2>1
  <2>4. F[k] = [i |-> p + to, left |-> total - to + more, ok |-> TRUE, items |-> upTo(k)]
    <3> HIDE DEF upTo, total
    <3> QED BY <2>1
  <2> HIDE DEF F, S
  <2>5. Append(upTo(k - 1), found[k]) = upTo(k)
    <3>1. DOMAIN found = 1..n
      OBVIOUS
    <3> HIDE DEF found
    <3> QED BY <1>4, <3>1, AppendNext
  <2>6. found[k] = BisRead(bises[k], csc)
    OBVIOUS
  <2> HIDE DEF upTo, found
  <2>7. bises[k] \in Bises /\ parts[k] = WholeBis(bises[k]) /\ OccursAt(s, p + at, WholeBis(bises[k]))
    BY <1>1, <1>4, <1>5
  <2>8. size = Len(WholeBis(bises[k]))
    BY <2>7
  <2> HIDE DEF at, to, size, total
  <2>9. p + at \in Nat /\ total - at + more \in Nat /\ total - at + more >= size
        /\ (p + at) + size = p + to /\ (total - at + more) - size = total - to + more
    BY <1>7, <2>2
  <2>10. ReadBis(s, old, csc) = [i |-> (p + at) + size, left |-> (total - at + more) - size, ok |-> TRUE,
                                 items |-> Append(upTo(k - 1), BisRead(bises[k], csc))]
    BY <2>7, <2>8, <2>9, BisReads
  <2>11. old.ok = TRUE
    OBVIOUS
  <2> HIDE DEF old
  <2>12. ReadBis(s, old, csc) = F[k]
    BY <2>4, <2>5, <2>6, <2>9, <2>10, Zenon
  <2> QED BY <2>3, <2>11, <2>12
<1>10. F[n] = [i |-> p + jl, left |-> more, ok |-> TRUE, items |-> [k \in 1..Len(bises) |-> BisRead(bises[k], csc)]]
  <2>1. n \in 0..n /\ total - len[n] + more = more /\ len[n] = jl
    <3>1. n \in 0..n /\ len[n] = jl /\ total - total + more = more
      <4>1. n \in 0..n /\ len[n] = jl
        BY <1>4
      <4> HIDE DEF total
      <4> QED BY <1>7, <4>1
    <3> QED BY <3>1
  <2>2. upTo(n) = [k \in 1..Len(bises) |-> BisRead(bises[k], csc)]
    <3>1. upTo(n) = [k \in 1..n |-> BisRead(bises[k], csc)]
      OBVIOUS
    <3> HIDE DEF upTo, found
    <3> QED BY <1>4, <3>1
  <2> HIDE DEF upTo, total, jl
  <2>3. F[n] = [i |-> p + len[n], left |-> total - len[n] + more, ok |-> TRUE, items |-> upTo(n)]
    BY <2>1
  <2> HIDE DEF F
  <2> QED BY <2>1, <2>2, <2>3, Zenon
<1> HIDE DEF F, S, start
<1>11. ReadsBises(F, S, s, start, csc, n)
  BY <1>4, <1>6, <1>8, <1>9, Zenon DEF ReadsBises
<1>12. ReadBises(s, start, csc, n) = F[n]
  BY <1>11, ReadBisesBy
<1> HIDE DEF jl
<1> QED
  BY <1>4, <1>10, <1>12, Zenon DEF start, jl, parts

LEMMA WithItems ==
  ASSUME NEW i, NEW left, NEW items, NEW other
  PROVE  [[i |-> i, left |-> left, ok |-> TRUE, items |-> items] EXCEPT !.items = other]
           = [i |-> i, left |-> left, ok |-> TRUE, items |-> other]
<1> DEFINE r == [i |-> i, left |-> left, ok |-> TRUE, items |-> items]
           new == [r EXCEPT !.items = other]
<1>1. DOMAIN r = {"i", "left", "ok", "items"} /\ DOMAIN new = {"i", "left", "ok", "items"}
  OBVIOUS
<1>2. new.i = i /\ new.left = left /\ new.ok = TRUE /\ new.items = other
  OBVIOUS
<1>3. new = [i |-> new.i, left |-> new.left, ok |-> new.ok, items |-> new.items]
  <2> HIDE DEF r
  <2> QED BY <1>1
<1> QED
  BY <1>2, <1>3

LEMMA NothingIsConfig ==
  NoConfig \in Configs
BY DEF NoConfig, Configs, U16, U8

LEMMA GroupReads ==
  ASSUME NEW g, ProperGroup(g), NEW s \in Bytes, NEW i \in Nat, NEW left \in Nat, NEW items,
         OccursAt(s, i, WholeGroup(g)), left >= Len(WholeGroup(g)) + 2
  PROVE  ReadSubgroup(s, [i |-> i, left |-> left, ok |-> TRUE, items |-> items])
           = [i |-> i + Len(WholeGroup(g)), left |-> left - Len(WholeGroup(g)), ok |-> TRUE,
              items |-> Append(items, GroupRead(g))]
<1> DEFINE c == CodecIdOf(g)
           f == FillConfig(g.csc, 255)
           m == FillMetadata(g.metadata, g.more, 255)
           jt == Joint(BisParts(g.bis_config))
           fl == Len(f)
           ml == Len(m)
           jl == Len(jt)
           whole == Len(WholeGroup(g))
           acc == [i |-> i, left |-> left, ok |-> TRUE, items |-> items]
<1>1. /\ c \in Bytes /\ f \in Bytes /\ m \in Bytes /\ jt \in Bytes
      /\ c \o f \in Bytes /\ (c \o f) \o m \in Bytes
      /\ WholeGroup(g) = ((c \o f) \o m) \o jt
      /\ Len(c) = 6 /\ fl \in 1..31 /\ ml \in 1..255 /\ jl \in Nat
      /\ f[1] = fl - 1 /\ m[1] = ml - 1 /\ c[1] = Len(g.bis_config)
      /\ Len(c \o f) = 6 + fl /\ Len((c \o f) \o m) = 6 + fl + ml
      /\ whole = 6 + fl + ml + jl
      /\ g.csc \in Configs /\ g.metadata \in Contexts /\ g.more \in Seq(Entries)
      /\ g.bis_config \in Seq(Bises)
  <2>1. WholeOf(g, c, f, m, jt)
    BY WholeGroupIs, Zenon
  <2> HIDE DEF c, f, m, jt
  <2> QED BY <2>1, ZenonT(30) DEF WholeOf
<1>0. fl \in 1..31 /\ ml \in 1..255 /\ jl \in Nat
  BY <1>1, Zenon
<1>2. left >= whole + 2
  OBVIOUS
<1>3. OccursAt(s, i, ((c \o f) \o m) \o jt)
  BY <1>1, Zenon
<1> HIDE DEF c, f, m, jt, whole
<1>4. OccursAt(s, i, (c \o f) \o m) /\ OccursAt(s, i + (6 + fl + ml), jt)
  <2>1. OccursAt(s, i, (c \o f) \o m) /\ OccursAt(s, i + Len((c \o f) \o m), jt)
    BY <1>1, <1>3, PartsOccur
  <2> QED BY <1>1, <2>1, Zenon
<1>5. OccursAt(s, i, c \o f) /\ OccursAt(s, i + (6 + fl), m)
  <2>1. OccursAt(s, i, c \o f) /\ OccursAt(s, i + Len(c \o f), m)
    BY <1>1, <1>4, PartsOccur
  <2> QED BY <1>1, <2>1, Zenon
<1>6. OccursAt(s, i, c) /\ OccursAt(s, i + 6, f)
  <2>1. OccursAt(s, i, c) /\ OccursAt(s, i + Len(c), f)
    BY <1>1, <1>5, PartsOccur
  <2> QED BY <1>1, <2>1, Zenon
<1>7. At(s, i) = Len(g.bis_config)
  <2>1. At(s, i) = c[1]
    <3>1. c \in Bytes /\ Len(c) = 6 /\ OccursAt(s, i, c)
      BY <1>1, <1>6, Zenon
    <3>2. Len(c) >= 1
      BY <3>1
    <3> QED BY <3>1, <3>2, LengthOccurs, Zenon
  <2> QED BY <1>1, <2>1
<1>8. At(s, i + 6) = fl - 1 /\ Occurs(s, i + 7, f)
  <2>1. fl >= 1 /\ i + 6 \in Nat /\ (i + 6) + 1 = i + 7
    <3> HIDE DEF fl
    <3> QED BY <1>0, SMTT(30)
  <2>2. At(s, i + 6) = f[1] /\ Occurs(s, (i + 6) + 1, f)
    BY <1>1, <1>6, <2>1, LengthOccurs
  <2> QED BY <1>1, <2>1, <2>2, Zenon
<1>9. At(s, i + (6 + fl)) = ml - 1 /\ Occurs(s, i + (6 + fl) + 1, m)
  <2>1. ml >= 1 /\ i + (6 + fl) \in Nat
    <3> HIDE DEF fl, ml
    <3> QED BY <1>0
  <2>2. At(s, i + (6 + fl)) = m[1] /\ Occurs(s, i + (6 + fl) + 1, m)
    BY <1>1, <1>5, <2>1, LengthOccurs
  <2> QED BY <1>1, <2>2, Zenon
<1>10. ReadConfig(s, i + 7, fl - 1, NoConfig) = g.csc
  <2>1. i + 7 \in Nat
    OBVIOUS
  <2>2. ReadConfig(s, i + 7, fl - 1, NoConfig) = Over(NoConfig, g.csc)
    <3>1. g.csc \in Configs /\ Occurs(s, i + 7, f)
      BY <1>1, <1>8, Zenon
    <3> QED BY <2>1, <3>1, ConfigReads, NothingIsConfig, ZenonT(30) DEF f, fl
  <2> QED BY <1>1, <2>2, OverNothing
<1>11. ReadMetadata(s, i + (6 + fl) + 1, ml - 1, NoMetadata) = g.metadata
  <2>1. i + (6 + fl) + 1 \in Nat
    <3> HIDE DEF fl
    <3> QED BY <1>0, SMTT(30)
  <2>2. ContextsFirst(MetadataEntries(g.metadata) \o g.more) /\ \A e \in Range(g.more) : e.type \notin {1, 2}
    BY DEF ProperGroup
  <2>3. Occurs(s, i + (6 + fl) + 1, FillMetadata(g.metadata, g.more, 255))
    BY <1>9 DEF m
  <2> DEFINE at == i + (6 + fl) + 1
             contexts == g.metadata
             others == g.more
  <2>4. at \in Nat /\ contexts \in Contexts /\ others \in Seq(Entries)
    BY <1>1, <2>1, Zenon
  <2>5. /\ ContextsFirst(MetadataEntries(contexts) \o others) /\ \A e \in Range(others) : e.type \notin {1, 2}
        /\ Occurs(s, at, FillMetadata(contexts, others, 255))
    BY <2>2, <2>3, Zenon
  <2> HIDE DEF at, contexts, others
  <2>6. ReadMetadata(s, at, Len(FillMetadata(contexts, others, 255)) - 1, NoMetadata) = contexts
    BY <2>4, <2>5, MetadataReads
  <2> QED BY <2>6 DEF m, ml, at, contexts, others
<1> DEFINE more == left - whole
           place == i + (6 + fl + ml)
           bises == [k \in 1..Len(g.bis_config) |-> BisRead(g.bis_config[k], g.csc)]
           start == [i |-> place, left |-> jl + more, ok |-> TRUE, items |-> <<>>]
           end == [i |-> place + jl, left |-> more, ok |-> TRUE, items |-> bises]
<1> HIDE DEF fl, ml, jl
<1>12. more \in Nat /\ place \in Nat /\ place + jl = i + whole
  BY <1>1, <1>2
<1>13. ReadBises(s, start, g.csc, Len(g.bis_config)) = end
  <2>1. OccursAt(s, place, Joint(BisParts(g.bis_config)))
    BY <1>4 DEF jt
  <2> HIDE DEF more, place
  <2> DEFINE list == g.bis_config
             config == g.csc
  <2>2. /\ place \in Nat /\ more \in Nat /\ list \in Seq(Bises) /\ config \in Configs
        /\ OccursAt(s, place, Joint(BisParts(list)))
    BY <1>1, <1>12, <2>1, Zenon
  <2> HIDE DEF list, config
  <2>3. ReadBises(s, [i |-> place, left |-> Len(Joint(BisParts(list))) + more, ok |-> TRUE, items |-> <<>>],
                  config, Len(list))
          = [i |-> place + Len(Joint(BisParts(list))), left |-> more, ok |-> TRUE,
             items |-> [k \in 1..Len(list) |-> BisRead(list[k], config)]]
    BY <2>2, BisesRead
  <2> QED BY <2>3, Zenon DEF jl, jt, list, config
<1> DEFINE jj == i + (6 + fl)
           rest == left - 8 - (fl - 1)
<1>14. /\ acc.i + 7 = i + 7 /\ acc.i + 6 = i + 6
       /\ acc.i + 7 + (fl - 1) = jj
       /\ jj + 1 + (ml - 1) = place /\ rest - (ml - 1) = jl + more
       /\ acc.left - 8 - (fl - 1) = rest
       /\ ~(rest < 0 \/ rest < ml - 1)
  BY <1>1, <1>2
<1>15. acc.i = i /\ acc.items = items
  OBVIOUS
<1> HIDE DEF acc, jj, rest, place, more, start
<1>16. ReadSubgroup(s, acc) =
         IF rest < 0 \/ rest < ml - 1 THEN [acc EXCEPT !.ok = FALSE]
         ELSE [end EXCEPT !.items =
                 Append(items, [csc |-> g.csc, metadata |-> g.metadata, bis_config |-> end.items])]
  <2>1. At(s, acc.i + 6) = fl - 1
    BY <1>8, <1>14, Zenon
  <2>2. ReadConfig(s, acc.i + 7, At(s, acc.i + 6), NoConfig) = g.csc
    BY <1>10, <1>14, <2>1, Zenon
  <2>3. acc.i + 7 + At(s, acc.i + 6) = jj /\ acc.left - 8 - At(s, acc.i + 6) = rest
    BY <1>14, <2>1, Zenon
  <2>4. At(s, jj) = ml - 1 /\ ReadMetadata(s, jj + 1, At(s, jj), NoMetadata) = g.metadata
    BY <1>9, <1>11, Zenon DEF jj
  <2>5. [i |-> jj + 1 + At(s, jj), left |-> rest - At(s, jj), ok |-> TRUE, items |-> <<>>] = start
    BY <1>14, <2>4, Zenon DEF start
  <2>6. ReadBises(s, start, g.csc, At(s, acc.i)) = end
    BY <1>7, <1>13, <1>15, Zenon
  <2> HIDE DEF end
  <2> QED BY <1>15, <2>2, <2>3, <2>4, <2>5, <2>6, Zenon DEF ReadSubgroup
<1>17. GroupRead(g) = [csc |-> g.csc, metadata |-> g.metadata, bis_config |-> end.items]
  BY DEF GroupRead
<1> DEFINE items2 == Append(items, GroupRead(g))
<1>18. ReadSubgroup(s, acc) = [end EXCEPT !.items = items2]
  BY <1>14, <1>16, <1>17, Zenon
<1> HIDE DEF items2
<1>19. [end EXCEPT !.items = items2] = [i |-> place + jl, left |-> more, ok |-> TRUE, items |-> items2]
  <2> HIDE DEF bises
  <2> QED BY WithItems
<1> HIDE DEF end
<1> QED
  BY <1>12, <1>18, <1>19, Zenon DEF acc, more, whole, items2

\* The stream the headset reads, where the subgroups stand in it
LEMMA AnnouncedIs ==
  ASSUME NEW groups, Announceable(groups)
  PROVE  LET s == Announced(groups)
             j == Joint(GroupParts(groups))
         IN /\ s \in Bytes /\ Len(s) = 6 + Len(j) /\ Len(j) \in Nat
            /\ At(s, 6) = Len(groups) /\ OccursAt(s, 7, j)
<1> DEFINE x == BaseHead(groups)
           j == Joint(GroupParts(groups))
           b == x \o j
           s == SubSeq(b, 3, Len(b))
           jl == Len(j)
<1>1. x \in Bytes /\ Len(x) = 8 /\ x[8] = Len(groups)
  BY GroupPartsAre DEF BaseHead, Bytes
<1>2. j \in Bytes /\ jl \in Nat
  <2>1. GroupParts(groups) \in Seq(Bytes)
    BY GroupPartsAre
  <2>2. PICK n, joined, len : Lengths(GroupParts(groups), n, joined, len)
    BY <2>1, LengthsAre
  <2>3. j \in Bytes
    BY <2>2, Zenon DEF Lengths
  <2> HIDE DEF j
  <2> QED BY <2>3 DEF Bytes
<1>3. Announced(groups) = s
  BY BuiltBaseIs, Zenon DEF Announced, Whole
<1> HIDE DEF x, j, b
<1>4. /\ b \in Bytes /\ Len(b) = 8 + jl
      /\ b[8] = Len(groups) /\ \A i \in 1..jl : b[8 + i] = j[i]
  <2>1. /\ x \o j \in Bytes /\ Len(x \o j) = Len(x) + Len(j)
        /\ \A i \in 1..Len(x) : (x \o j)[i] = x[i]
        /\ \A i \in 1..Len(j) : (x \o j)[Len(x) + i] = j[i]
    BY <1>1, <1>2, Joined
  <2> QED BY <1>1, <2>1 DEF b
<1> HIDE DEF jl
<1>5. s \in Bytes /\ Len(s) = 6 + jl /\ \A i \in 1..(6 + jl) : s[i] = b[i + 2]
  <2>1. b \in Seq(Nat)
    BY <1>4 DEF Bytes
  <2>2. /\ 3 \in 1..(Len(b) + 1) /\ Len(b) \in 2..Len(b)
        /\ Len(b) - 3 + 1 = 6 + jl /\ 3 <= Len(b)
    BY <1>2, <1>4
  <2>3. s \in Seq(Nat) /\ Len(s) = 6 + jl /\ \A i \in 1..(6 + jl) : s[i] = b[3 + i - 1]
    BY <1>2, <1>4, <2>1, <2>2, SubSeqProperties
  <2>4. \A i \in 1..(6 + jl) : 3 + i - 1 = i + 2
    BY <1>2
  <2> HIDE DEF s
  <2> QED BY <2>3, <2>4 DEF Bytes
<1> HIDE DEF s
<1>6. DOMAIN s = 1..(6 + jl)
  BY <1>5 DEF Bytes
<1>7. At(s, 6) = Len(groups)
  <2>1. 6 \in 1..(6 + jl) /\ 6 + 2 = 8
    BY <1>2
  <2> QED BY <1>4, <1>5, <1>6, <2>1 DEF At
<1>8. ASSUME NEW i \in 1..jl
      PROVE  At(s, 7 + i - 1) = j[i]
  <2>1. 7 + i - 1 \in 1..(6 + jl) /\ (7 + i - 1) + 2 = 8 + i
    BY <1>2
  <2>2. At(s, 7 + i - 1) = s[7 + i - 1]
    BY <1>6, <2>1 DEF At
  <2> QED BY <1>4, <1>5, <2>1, <2>2
<1>9. OccursAt(s, 7, j)
  BY <1>8, Zenon DEF OccursAt, jl
<1> QED
  BY <1>2, <1>3, <1>5, <1>7, <1>9, Zenon DEF jl, j

LEMMA BaseParsed ==
  ASSUME NEW groups, Announceable(groups)
  PROVE  ParsedBase(Announced(groups))
           = [sub_group_cnt |-> Len(groups),
              sub_group |-> [k \in 1..Len(groups) |-> GroupRead(groups[k])]]
<1> DEFINE parts == GroupParts(groups)
           jt == Joint(parts)
           jl == Len(jt)
           s == Announced(groups)
<1>1. /\ parts \in Seq(Bytes) /\ Len(parts) = Len(groups) /\ Len(groups) \in Nat
      /\ \A k \in 1..Len(groups) : parts[k] = WholeGroup(groups[k]) /\ ProperGroup(groups[k])
  BY GroupPartsAre
<1>2. s \in Bytes /\ Len(s) = 6 + jl /\ jl \in Nat /\ At(s, 6) = Len(groups) /\ OccursAt(s, 7, jt)
  BY AnnouncedIs
<1> HIDE DEF parts, s
<1>3. PICK n, joined, len : Lengths(parts, n, joined, len)
  BY <1>1, LengthsAre
<1>4. /\ n \in Nat /\ n = Len(groups)
      /\ len \in [0..n -> Nat] /\ len[0] = 0
      /\ \A k \in 0..n : len[k] <= len[n]
      /\ \A k \in 1..n : len[k] = len[k - 1] + Len(parts[k]) /\ Len(parts[k]) \in Nat
      /\ jl = len[n]
  BY <1>1, <1>3, Zenon DEF Lengths
<1>5. \A k \in 1..n : OccursAt(s, 7 + len[k - 1], parts[k])
  <2>1. 7 \in Nat
    OBVIOUS
  <2> QED BY <1>1, <1>2, <1>3, <2>1, JointOccurs
<1> DEFINE total == len[n]
           found == [k \in 1..n |-> GroupRead(groups[k])]
           upTo(k) == [j \in 1..k |-> found[j]]
           F == [k \in 0..n |-> [i |-> 7 + len[k], left |-> total - len[k] + 2, ok |-> TRUE,
                                 items |-> upTo(k)]]
           S == {F[k] : k \in 0..n}
           start == [i |-> 7, left |-> Len(s) - 4, ok |-> TRUE, items |-> <<>>]
<1>6. F \in [0..n -> S]
  <2> HIDE DEF upTo
  <2> QED OBVIOUS
<1>7. total \in Nat
  BY <1>4
<1>8. F[0] = start
  <2>1. upTo(0) = <<>>
    OBVIOUS
  <2>2. 7 + len[0] = 7 /\ total - len[0] + 2 = Len(s) - 4 /\ 0 \in 0..n
    <3>1. len[0] = 0 /\ total = jl /\ 0 \in 0..n
      BY <1>4
    <3> HIDE DEF total, jl
    <3> QED BY <1>2, <1>7, <3>1
  <2> HIDE DEF upTo, total, jl
  <2>3. F[0] = [i |-> 7 + len[0], left |-> total - len[0] + 2, ok |-> TRUE, items |-> upTo(0)]
    BY <2>2
  <2> HIDE DEF F
  <2> QED BY <2>1, <2>2, <2>3
<1>9. ASSUME NEW k \in 1..n
      PROVE  F[k] = IF F[k - 1].ok /\ F[k - 1].left >= 8 THEN ReadSubgroup(s, F[k - 1]) ELSE F[k - 1]
  <2>1. k - 1 \in 0..n /\ k \in 0..n
    BY <1>4
  <2> DEFINE at == len[k - 1]
             to == len[k]
             size == Len(parts[k])
             old == [i |-> 7 + at, left |-> total - at + 2, ok |-> TRUE, items |-> upTo(k - 1)]
             g == groups[k]
  <2>2. at \in Nat /\ to \in Nat /\ to = at + size /\ to <= total /\ size \in Nat
    BY <1>4, <2>1
  <2>3. F[k - 1] = old
    <3> HIDE DEF upTo, total
    <3> QED BY <2>1
  <2>4. F[k] = [i |-> 7 + to, left |-> total - to + 2, ok |-> TRUE, items |-> upTo(k)]
    <3> HIDE DEF upTo, total
    <3> QED BY <2>1
  <2> HIDE DEF F, S
  <2>5. Append(upTo(k - 1), found[k]) = upTo(k)
    <3>1. DOMAIN found = 1..n
      OBVIOUS
    <3> HIDE DEF found
    <3> QED BY <1>4, <3>1, AppendNext
  <2>6. found[k] = GroupRead(g)
    OBVIOUS
  <2> HIDE DEF upTo, found
  <2>7. ProperGroup(g) /\ parts[k] = WholeGroup(g) /\ OccursAt(s, 7 + at, WholeGroup(g))
    BY <1>1, <1>4, <1>5
  <2>8. size = Len(WholeGroup(g))
    BY <2>7
  <2> HIDE DEF g
  <2>9. size >= 8
    <3> DEFINE fl == Len(FillConfig(g.csc, 255))
               ml == Len(FillMetadata(g.metadata, g.more, 255))
               bl == Len(Joint(BisParts(g.bis_config)))
    <3>1. fl \in 1..31 /\ ml \in 1..255 /\ bl \in Nat /\ Len(WholeGroup(g)) = 6 + fl + ml + bl
      <4> DEFINE c == CodecIdOf(g)
                 f == FillConfig(g.csc, 255)
                 m == FillMetadata(g.metadata, g.more, 255)
                 j == Joint(BisParts(g.bis_config))
      <4>1. WholeOf(g, c, f, m, j)
        BY <2>7, WholeGroupIs, Zenon
      <4> HIDE DEF c, f, m, j
      <4>2. Len(f) \in 1..31 /\ Len(m) \in 1..255 /\ Len(j) \in Nat
            /\ Len(WholeGroup(g)) = 6 + Len(f) + Len(m) + Len(j)
        BY <4>1, Zenon DEF WholeOf
      <4> QED BY <4>2, Zenon DEF f, m, j
    <3>2. size = 6 + fl + ml + bl
      BY <2>8, <3>1, Zenon
    <3> HIDE DEF fl, ml, bl, size
    <3> QED BY <3>1, <3>2
  <2> HIDE DEF at, to, size, total
  <2>10. 7 + at \in Nat /\ total - at + 2 \in Nat /\ total - at + 2 >= size + 2 /\ total - at + 2 >= 8
        /\ (7 + at) + size = 7 + to /\ (total - at + 2) - size = total - to + 2
    BY <1>7, <2>2, <2>9
  <2>11. ReadSubgroup(s, old) = [i |-> (7 + at) + size, left |-> (total - at + 2) - size, ok |-> TRUE,
                                 items |-> Append(upTo(k - 1), GroupRead(g))]
    BY <1>2, <2>7, <2>8, <2>10, GroupReads, SMTT(30)
  <2>12. old.ok = TRUE /\ old.left >= 8
    BY <2>10
  <2> HIDE DEF old
  <2>13. ReadSubgroup(s, old) = F[k]
    BY <2>4, <2>5, <2>6, <2>10, <2>11, Zenon
  <2> QED BY <2>3, <2>12, <2>13
<1>10. F[n].items = [k \in 1..Len(groups) |-> GroupRead(groups[k])]
  <2>1. n \in 0..n
    BY <1>4
  <2>2. upTo(n) = [k \in 1..Len(groups) |-> GroupRead(groups[k])]
    <3>1. upTo(n) = [k \in 1..n |-> GroupRead(groups[k])]
      OBVIOUS
    <3> HIDE DEF upTo, found
    <3> QED BY <1>4, <3>1
  <2> HIDE DEF upTo, total
  <2>3. F[n].items = upTo(n)
    BY <2>1
  <2> QED BY <2>2, <2>3
<1> HIDE DEF F, S
<1>11. ReadsSubgroups(F, S, s)
  <2>1. At(s, 6) = n
    BY <1>2, <1>4
  <2> QED BY <1>4, <1>6, <1>8, <1>9, <2>1, Zenon DEF ReadsSubgroups, start
<1>12. ParsedBase(s) = [sub_group_cnt |-> n, sub_group |-> F[n].items]
  <2>1. At(s, 6) = n
    BY <1>2, <1>4
  <2>2. ParsedBase(s) = [sub_group_cnt |-> At(s, 6), sub_group |-> F[At(s, 6)].items]
    BY <1>11, ParsedBaseBy
  <2> QED BY <2>1, <2>2
<1> QED
  BY <1>4, <1>10, <1>12 DEF s

-----------------------------------------------------------------------------
(* The headset and its source *)

\* Every source has a BASE that can be announced as a whole
AnnouncedWhole == \A groups \in SourceBases : Announceable(groups)

\* What was read is what this source announces
BaseInv ==
  /\ source \in SourceBases
  /\ base = NoBase \/ base = ParsedBase(Announced(source))

LEMMA BaseInvKept ==
  BaseSpec => []BaseInv
<1>1. BaseInit => BaseInv
  BY DEF BaseInit, BaseInv
<1>2. BaseInv /\ [BaseNext]_baseVars => BaseInv'
  <2> SUFFICES ASSUME BaseInv, [BaseNext]_baseVars
               PROVE  BaseInv'
    OBVIOUS
  <2>1. CASE ReadBase
    <3>1. base' = ParsedBase(Announced(source)) /\ UNCHANGED source
      BY <2>1, Zenon DEF ReadBase
    <3> QED BY <3>1, Zenon DEF BaseInv
  <2>2. CASE SyncToBises
    BY <2>2, Zenon DEF SyncToBises, BaseInv
  <2>3. ASSUME NEW new \in SourceBases, TakeSource(new)
        PROVE  BaseInv'
    BY <2>3, Zenon DEF TakeSource, BaseInv
  <2>4. CASE UNCHANGED baseVars
    BY <2>4, Zenon DEF baseVars, BaseInv
  <2> QED BY <2>1, <2>2, <2>3, <2>4, Zenon DEF BaseNext
<1> QED
  BY <1>1, <1>2, PTL DEF BaseSpec

LEMMA ReadIs ==
  ASSUME AnnouncedWhole, BaseInv, base # NoBase
  PROVE  /\ base.sub_group_cnt = Len(source) /\ Len(source) \in Nat /\ DOMAIN source = 1..Len(source)
         /\ base.sub_group = [k \in 1..Len(source) |-> GroupRead(source[k])]
         /\ \A k \in 1..Len(source) : ProperGroup(source[k])
<1>1. Announceable(source) /\ base = ParsedBase(Announced(source))
  BY Zenon DEF AnnouncedWhole, BaseInv
<1>2. base = [sub_group_cnt |-> Len(source), sub_group |-> [k \in 1..Len(source) |-> GroupRead(source[k])]]
  BY <1>1, BaseParsed
<1>3. base.sub_group_cnt = Len(source) /\ base.sub_group = [k \in 1..Len(source) |-> GroupRead(source[k])]
  BY <1>2
<1>4. Len(source) \in Nat /\ \A k \in 1..Len(source) : ProperGroup(source[k])
  BY <1>1, GroupPartsAre
<1>5. DOMAIN source = 1..Len(source)
  BY <1>1 DEF Announceable
<1> QED
  BY <1>3, <1>4, <1>5

\* The headset reads from the bytes of a BASE what its source put there, whatever BASEs
\* sources have, as long as they can be announced as a whole (le_audio_bap_build_base_data
\* and le_audio_bap_broadcast_parse_base_info in le_audio_bap_broadcast.c).
THEOREM BaseHolds == AnnouncedWhole => (BaseSpec => []ReadsWhatIsAnnounced)
<1> SUFFICES ASSUME AnnouncedWhole
             PROVE  BaseSpec => []ReadsWhatIsAnnounced
  OBVIOUS
<1>1. BaseInv => ReadsWhatIsAnnounced
  <2> SUFFICES ASSUME BaseInv, base # NoBase
               PROVE  /\ base.sub_group_cnt = Len(source)
                      /\ base.sub_group = [i \in DOMAIN source |->
                           [csc |-> source[i].csc,
                            metadata |-> source[i].metadata,
                            bis_config |-> [k \in DOMAIN source[i].bis_config |->
                               [bis_idx |-> source[i].bis_config[k].bis_idx,
                                bis_csc |-> Merged(source[i].csc, source[i].bis_config[k].bis_csc)]]]]
    BY Zenon DEF ReadsWhatIsAnnounced
  <2>1. /\ base.sub_group_cnt = Len(source) /\ Len(source) \in Nat /\ DOMAIN source = 1..Len(source)
        /\ base.sub_group = [k \in 1..Len(source) |-> GroupRead(source[k])]
        /\ \A k \in 1..Len(source) : ProperGroup(source[k])
    BY ReadIs
  <2>2. ASSUME NEW k \in 1..Len(source)
        PROVE  DOMAIN source[k].bis_config = 1..Len(source[k].bis_config)
    <3>1. source[k].bis_config \in Seq(Bises)
      BY <2>1, WholeGroupIs, ZenonT(60) DEF WholeOf
    <3> QED BY <3>1
  <2>3. ASSUME NEW i \in 1..Len(source)
        PROVE  GroupRead(source[i]) =
                 [csc |-> source[i].csc,
                  metadata |-> source[i].metadata,
                  bis_config |-> [k \in DOMAIN source[i].bis_config |->
                     [bis_idx |-> source[i].bis_config[k].bis_idx,
                      bis_csc |-> Merged(source[i].csc, source[i].bis_config[k].bis_csc)]]]
    BY <2>2 DEF GroupRead, BisRead
  <2> QED BY <2>1, <2>3
<1>2. BaseSpec => []BaseInv
  BY BaseInvKept
<1> QED
  BY <1>1, <1>2, PTL

-----------------------------------------------------------------------------
(* Joints, of the subgroups of a command and of a receive state *)

LEMMA FlatIsJoint ==
  ASSUME NEW parts \in Seq(Bytes)
  PROVE  FlattenSeq(parts) = Joint(parts)
<1> DEFINE n == Len(parts)
<1>1. n \in Nat /\ \A k \in 1..n : parts[k] \in Bytes
  OBVIOUS
<1>2. PICK joined : Joins(joined, parts)
  BY JointIs
<1>3. /\ joined \in [0..n -> Bytes] /\ joined[0] = <<>>
      /\ \A k \in 1..n : joined[k] = joined[k - 1] \o parts[k]
      /\ Joint(parts) = joined[n]
  BY <1>2, Zenon DEF Joins
<1>4. CASE n = 0
  <2>1. parts = <<>>
    BY <1>4
  <2>2. FlattenSeq(parts) = parts
    BY <1>4, Zenon DEF FlattenSeq
  <2>3. Joint(parts) = joined[0] /\ joined[0] = <<>>
    BY <1>3, <1>4
  <2> QED BY <2>1, <2>2, <2>3
<1>5. CASE n # 0
  <2> DEFINE Eq(g) == g = [i \in 1..n |-> IF i = 1 THEN parts[i] ELSE g[i - 1] \o parts[i]]
             flatten == CHOOSE g : Eq(g)
             F == [i \in 1..n |-> joined[i]]
             step == [k \in 1..n |-> [x \in Bytes |-> x \o parts[k]]]
             G == [k \in 0..n |-> IF k = 0 THEN <<>> ELSE flatten[k]]
  <2>1. n >= 1
    <3> HIDE DEF n
    <3> QED BY <1>1, <1>5
  <2>2. joined[1] = parts[1]
    <3>1. 1 \in 1..n /\ joined[1] = joined[1 - 1] \o parts[1] /\ 1 - 1 = 0
      <4>1. 1 \in 1..n
        <5> HIDE DEF n
        <5> QED BY <1>1, <2>1
      <4> QED BY <1>3, <4>1
    <3>2. joined[1] = <<>> \o parts[1]
      BY <1>3, <3>1, Zenon
    <3>3. parts[1] \in Bytes
      BY <1>1, <3>1
    <3> QED BY <3>2, <3>3, ConcatEmptySeq DEF Bytes
  <2>3. Eq(F)
    <3> HIDE DEF n
    <3>1. \A i \in 1..n : i = 1 \/ (i # 1 /\ i - 1 \in 1..n)
      BY <1>1
    <3> QED BY <1>3, <2>2, <3>1
  <2>4. Eq(flatten)
    <3> HIDE DEF Eq
    <3> QED BY <2>3, Zenon
  <2>5. flatten = [i \in 1..n |-> IF i = 1 THEN parts[i] ELSE flatten[i - 1] \o parts[i]]
        /\ FlattenSeq(parts) = flatten[n]
    BY <1>5, <2>4, Zenon DEF FlattenSeq
  <2> HIDE DEF flatten, n
  <2>6. Chain(joined, n, Bytes, <<>>, step)
    <3>1. \A k \in 1..n : joined[k] = step[k][joined[k - 1]]
      <4>1. \A k \in 1..n : k - 1 \in 0..n
        BY <1>1
      <4> QED BY <1>3, <4>1
    <3> HIDE DEF step
    <3> QED BY <1>3, <3>1, Zenon DEF Chain
  <2>7. \A k \in 1..n : G[k - 1] \in Bytes => G[k] = step[k][G[k - 1]]
    <3> SUFFICES ASSUME NEW k \in 1..n, G[k - 1] \in Bytes
                 PROVE  G[k] = G[k - 1] \o parts[k]
      <4>1. \A k \in 1..n : \A x \in Bytes : step[k][x] = x \o parts[k]
        OBVIOUS
      <4> HIDE DEF step, G
      <4> QED BY <4>1
    <3>1. G[k] = flatten[k] /\ flatten[k] = IF k = 1 THEN parts[k] ELSE flatten[k - 1] \o parts[k]
      <4>1. G[k] = flatten[k]
        BY <1>1
      <4>2. [i \in 1..n |-> IF i = 1 THEN parts[i] ELSE flatten[i - 1] \o parts[i]][k]
            = IF k = 1 THEN parts[k] ELSE flatten[k - 1] \o parts[k]
        OBVIOUS
      <4> HIDE DEF G
      <4> QED BY <2>5, <4>1, <4>2, Zenon
    <3>2. CASE k = 1
      <4>1. G[k - 1] = <<>> /\ parts[k] \in Bytes
        BY <1>1, <3>2
      <4> QED BY <3>1, <3>2, <4>1, ConcatEmptySeq DEF Bytes
    <3>3. CASE k # 1
      <4>1. G[k - 1] = flatten[k - 1]
        BY <1>1, <3>3
      <4> QED BY <3>1, <3>3, <4>1
    <3> QED BY <3>2, <3>3
  <2>8. G[0] = <<>>
    BY <1>1
  <2>9. G[n] = flatten[n] /\ n \in 0..n
    BY <1>1, <1>5
  <2> HIDE DEF G, step
  <2>10. \A k \in 0..n : G[k] = joined[k]
    BY <1>1, <2>6, <2>7, <2>8, ChainOnly
  <2> QED BY <1>3, <2>5, <2>9, <2>10
<1> QED
  BY <1>4, <1>5

-----------------------------------------------------------------------------
(* The subgroups take all that is left *)

\* F comes to where the subgroups begin, one after the other
FitsBy(F, d, p) ==
  /\ At(d, p) \in Nat /\ F \in [0..At(d, p) -> Int]
  /\ F[0] = p + 1
  /\ \A k \in 1..At(d, p) :
       F[k] = (IF F[k - 1] + 4 > Len(d) THEN Len(d) + 2 ELSE F[k - 1] + 5 + At(d, F[k - 1] + 4))

LEMMA SubgroupsFitBy ==
  ASSUME NEW d, NEW p \in Nat, NEW F, FitsBy(F, d, p)
  PROVE  SubgroupsFit(d, p) <=> F[At(d, p)] = Len(d) + 1
<1> DEFINE n == At(d, p)
           start == p + 1
           step == [k \in 1..n |-> [r \in Int |->
                      (IF r + 4 > Len(d) THEN Len(d) + 2 ELSE r + 5 + At(d, r + 4))]]
           Eq(g) == g = [k \in 0..n |-> IF k = 0 THEN start
                           ELSE IF g[k - 1] + 4 > Len(d) THEN Len(d) + 2
                           ELSE g[k - 1] + 5 + At(d, g[k - 1] + 4)]
           after == CHOOSE g : Eq(g)
<1>1. /\ n \in Nat /\ F \in [0..n -> Int] /\ F[0] = start
      /\ \A k \in 1..n :
           F[k] = (IF F[k - 1] + 4 > Len(d) THEN Len(d) + 2 ELSE F[k - 1] + 5 + At(d, F[k - 1] + 4))
  BY Zenon DEF FitsBy
<1>2. Chain(F, n, Int, start, step)
  <2> HIDE DEF start, n
  <2>1. \A k \in 1..n : k - 1 \in 0..n
    BY <1>1
  <2>2. \A k \in 1..n : F[k] = step[k][F[k - 1]]
    BY <1>1, <2>1
  <2> HIDE DEF step
  <2> QED BY <1>1, <2>2, Zenon DEF Chain
<1>3. Eq(F)
  <2> HIDE DEF start, n
  <2>1. \A k \in 0..n : k = 0 \/ k \in 1..n
    BY <1>1
  <2>2. F = [k \in 0..n |-> F[k]]
    BY <1>1
  <2> QED BY <1>1, <2>1, <2>2
<1>4. Eq(after)
  <2> HIDE DEF Eq
  <2> QED BY <1>3, Zenon
<1>5. /\ after = [k \in 0..n |-> IF k = 0 THEN start
                     ELSE IF after[k - 1] + 4 > Len(d) THEN Len(d) + 2
                     ELSE after[k - 1] + 5 + At(d, after[k - 1] + 4)]
      /\ SubgroupsFit(d, p) <=> after[n] = Len(d) + 1
  BY <1>4, Zenon DEF SubgroupsFit
<1> HIDE DEF after, start, n
<1>6. /\ after[0] = start
      /\ \A k \in 1..n : after[k] = (IF after[k - 1] + 4 > Len(d) THEN Len(d) + 2
                                     ELSE after[k - 1] + 5 + At(d, after[k - 1] + 4))
  <2>1. 0 \in 0..n /\ \A k \in 1..n : k \in 0..n /\ k # 0
    BY <1>1
  <2> HIDE DEF step
  <2>2. after[0] = start
    BY <1>5, <2>1
  <2>3. ASSUME NEW k \in 1..n
        PROVE  after[k] = (IF after[k - 1] + 4 > Len(d) THEN Len(d) + 2
                           ELSE after[k - 1] + 5 + At(d, after[k - 1] + 4))
    BY <1>5, <2>1, Zenon
  <2> QED BY <2>2, <2>3
<1>7. \A k \in 1..n : after[k - 1] \in Int => after[k] = step[k][after[k - 1]]
  BY <1>6
<1>8. \A k \in 0..n : after[k] = F[k]
  <2> HIDE DEF step
  <2> QED BY <1>1, <1>2, <1>6, <1>7, ChainOnly
<1>9. after[n] = F[n]
  BY <1>1, <1>8
<1> QED
  BY <1>5, <1>9 DEF n

\* Behind the number at p stand n parts that say in their fifth byte how much is behind it,
\* but for e bytes
StandWith(parts, n, len, d, p, e) ==
  /\ At(d, p) = n /\ Len(d) = p + len[n] + e
  /\ \A k \in 1..n : Len(parts[k]) >= 5
  /\ \A k \in 1..n : p + len[k - 1] + 5 <= Len(d) => At(d, p + len[k - 1] + 5) = Len(parts[k]) - 5

\* One byte too few or too many is seen, wherever it is
LEMMA FitIs ==
  ASSUME NEW parts, NEW n, NEW joined, NEW len, Lengths(parts, n, joined, len),
         NEW d, NEW p \in Nat, NEW e \in {-1, 0, 1}, StandWith(parts, n, len, d, p, e)
  PROVE  SubgroupsFit(d, p) <=> e = 0
<1> DEFINE end == Len(d)
           total == len[n]
           cut == n # 0 /\ p + len[n - 1] + 5 > end
           F == [k \in 0..n |-> IF k = n /\ cut THEN end + 2 ELSE p + 1 + len[k]]
<1>0. /\ At(d, p) = n /\ Len(d) = p + len[n] + e
      /\ \A k \in 1..n : Len(parts[k]) >= 5
      /\ \A k \in 1..n : p + len[k - 1] + 5 <= Len(d) => At(d, p + len[k - 1] + 5) = Len(parts[k]) - 5
  BY Zenon DEF StandWith
<1>1. /\ n \in Nat /\ len \in [0..n -> Nat] /\ len[0] = 0
      /\ \A k \in 0..n : len[k] <= total
      /\ \A k \in 1..n : len[k] = len[k - 1] + Len(parts[k]) /\ Len(parts[k]) \in Nat
  BY Zenon DEF Lengths
<1>2. total \in Nat /\ end = p + total + e
  BY <1>0, <1>1
<1>3. end \in Int
  <2> HIDE DEF total, end
  <2> QED BY <1>2
<1> HIDE DEF cut
<1>4. F \in [0..n -> Int]
  <2>1. \A k \in 0..n : p + 1 + len[k] \in Int
    BY <1>1
  <2> HIDE DEF end
  <2> QED BY <1>3, <2>1
<1>5. F[0] = p + 1
  <2>1. 0 \in 0..n /\ ~(0 = n /\ cut)
    BY <1>1 DEF cut
  <2>2. p + 1 + len[0] = p + 1
    BY <1>1
  <2> QED BY <2>1, <2>2
<1>6. ASSUME NEW k \in 1..n
      PROVE  F[k] = IF F[k - 1] + 4 > end THEN end + 2 ELSE F[k - 1] + 5 + At(d, F[k - 1] + 4)
  <2> DEFINE a == len[k - 1]
             b == len[k]
             l == Len(parts[k])
  <2>1. k - 1 \in 0..n /\ k \in 0..n /\ k - 1 # n
    BY <1>1
  <2>2. F[k - 1] = p + 1 + a /\ F[k] = IF k = n /\ cut THEN end + 2 ELSE p + 1 + b
    <3> HIDE DEF end
    <3> QED BY <2>1
  <2>3. a \in Nat /\ b \in Nat /\ l \in Nat /\ b = a + l /\ l >= 5 /\ b <= total
    BY <1>0, <1>1, <2>1
  <2>4. p + a + 5 <= end => At(d, p + a + 5) = l - 5
    BY <1>0
  <2>5. k # n => b + 5 <= total
    <3> SUFFICES ASSUME k # n
                 PROVE  b + 5 <= total
      OBVIOUS
    <3> DEFINE c == len[k + 1]
               m == Len(parts[k + 1])
    <3>1. k + 1 \in 1..n /\ k + 1 \in 0..n /\ (k + 1) - 1 = k
      BY <1>1
    <3>2. c = len[(k + 1) - 1] + m /\ m >= 5 /\ m \in Nat /\ c <= total /\ c \in Nat
      BY <1>0, <1>1, <3>1
    <3>3. c = b + m
      BY <3>1, <3>2
    <3> HIDE DEF b, c, m, total
    <3> QED BY <1>2, <2>3, <3>2, <3>3
  <2>6. cut /\ k = n <=> k = n /\ p + a + 5 > end
    BY <1>1 DEF cut
  <2> HIDE DEF F, a, b, l, end, total
  <2>7. (p + 1 + a) + 4 = p + a + 5 /\ (p + 1 + a) + 5 + (l - 5) = p + 1 + b
    BY <2>3
  <2>8. CASE p + a + 5 > end
    <3>1. k = n
      BY <1>2, <2>3, <2>5, <2>8
    <3> QED BY <2>2, <2>6, <2>7, <2>8, <3>1
  <2>9. CASE ~(p + a + 5 > end)
    <3>1. At(d, p + a + 5) = l - 5
      BY <1>3, <2>3, <2>4, <2>9
    <3>2. ~(k = n /\ cut)
      BY <2>6, <2>9
    <3>3. F[k] = p + 1 + b
      BY <2>2, <3>2
    <3> QED BY <2>2, <2>7, <2>9, <3>1, <3>3
  <2> QED BY <2>8, <2>9
<1>7. F[n] = end + 1 <=> e = 0
  <2>1. n \in 0..n
    BY <1>1
  <2>2. F[n] = IF cut THEN end + 2 ELSE p + 1 + total
    <3> HIDE DEF end
    <3> QED BY <2>1
  <2>3. CASE cut
    <3> DEFINE a == len[n - 1]
               l == Len(parts[n])
    <3>1. n \in 1..n /\ n - 1 \in 0..n
      BY <1>1, <2>3 DEF cut
    <3>2. a \in Nat /\ l >= 5 /\ l \in Nat /\ total = a + l /\ p + a + 5 > end
      BY <1>0, <1>1, <2>3, <3>1 DEF cut
    <3> HIDE DEF F, a, l, end, total
    <3>3. e # 0
      BY <1>2, <1>3, <3>2
    <3> QED BY <1>3, <2>2, <2>3, <3>3
  <2>4. CASE ~cut
    <3> HIDE DEF F, end, total
    <3> QED BY <1>2, <2>2, <2>4
  <2> QED BY <2>3, <2>4
<1> HIDE DEF F
<1>8. FitsBy(F, d, p)
  BY <1>0, <1>1, <1>4, <1>5, <1>6, Zenon DEF FitsBy
<1>9. SubgroupsFit(d, p) <=> F[n] = end + 1
  BY <1>0, <1>8, SubgroupsFitBy, Zenon
<1> QED
  BY <1>7, <1>9

-----------------------------------------------------------------------------
(* Commands as clients have them *)

NamedOnce(entries) ==
  \A j, k \in DOMAIN entries : entries[j].type \in {1, 2} /\ entries[j].type = entries[k].type => j = k

\* Subgroups with contexts first in their metadata, each named once
TakenGroups(groups) ==
  /\ groups \in Seq([bis: Bytes, metadata: Seq(Entries)])
  /\ \A i \in 1..Len(groups) :
       /\ Len(groups[i].bis) = 4
       /\ ContextsFirst(groups[i].metadata)
       /\ NamedOnce(groups[i].metadata)
       \* one that is not looked at, as there is no room for it, is like none before it
       /\ i > MaxSubgroups => \A j \in 1..(i - 1) : BisesOf(groups[j].bis) # BisesOf(groups[i].bis)

Taken(g) == g.bis \o Filled(g.metadata, 255)

TakenParts(groups) == [i \in 1..Len(groups) |-> Taken(groups[i])]

LEMMA TakenIs ==
  ASSUME NEW g, g.bis \in Bytes, Len(g.bis) = 4, ContextsFirst(g.metadata)
  PROVE  LET f == Filled(g.metadata, 255)
         IN /\ f \in Bytes /\ Len(f) \in 1..255 /\ f[1] = Len(f) - 1
            /\ Taken(g) \in Bytes /\ Len(Taken(g)) = 4 + Len(f) /\ Len(Taken(g)) >= 5
            /\ Taken(g)[5] = Len(Taken(g)) - 5
<1> DEFINE entries == g.metadata
           f == Filled(entries, 255)
           fl == Len(f)
           b == g.bis
<1>1. f \in Bytes /\ fl \in 1..255 /\ f[1] = fl - 1
  BY MetadataSame
<1>2. b \in Bytes /\ Len(b) = 4
  OBVIOUS
<1>3. Taken(g) = b \o f
  BY DEF Taken
<1> HIDE DEF f, b
<1>4. /\ b \o f \in Bytes /\ Len(b \o f) = Len(b) + Len(f)
      /\ \A j \in 1..Len(f) : (b \o f)[Len(b) + j] = f[j]
  BY <1>1, <1>2, Joined
<1> HIDE DEF fl
<1>5. (b \o f)[5] = f[1]
  <2>1. 1 \in 1..fl
    BY <1>1
  <2>2. (b \o f)[Len(b) + 1] = f[1]
    BY <1>4, <2>1 DEF fl
  <2>3. 4 + 1 = 5
    OBVIOUS
  <2> QED BY <1>2, <2>2, <2>3, Zenon
<1>6. Len(Taken(g)) = 4 + fl /\ Taken(g)[5] = fl - 1 /\ Taken(g) \in Bytes
  BY <1>1, <1>2, <1>3, <1>4, <1>5, Zenon DEF fl
<1>7. 4 + fl >= 5 /\ fl - 1 = (4 + fl) - 5
  BY <1>1
<1>8. Len(Taken(g)) >= 5 /\ Taken(g)[5] = Len(Taken(g)) - 5
  BY <1>6, <1>7, Zenon
<1> QED
  BY <1>1, <1>6, <1>8 DEF f, fl

LEMMA TakenPartsAre ==
  ASSUME NEW groups, TakenGroups(groups)
  PROVE  /\ TakenParts(groups) \in Seq(Bytes) /\ Len(TakenParts(groups)) = Len(groups) /\ Len(groups) \in Nat
         /\ \A k \in 1..Len(groups) :
              LET part == TakenParts(groups)[k]
              IN /\ part = Taken(groups[k]) /\ Len(part) >= 5 /\ part[5] = Len(part) - 5
                 /\ groups[k].bis \in Bytes /\ Len(groups[k].bis) = 4
                 /\ groups[k].metadata \in Seq(Entries) /\ ContextsFirst(groups[k].metadata)
<1> DEFINE n == Len(groups)
<1>1. n \in Nat /\ \A k \in 1..n : groups[k] \in [bis: Bytes, metadata: Seq(Entries)]
  <2> DEFINE Those == [bis: Bytes, metadata: Seq(Entries)]
  <2>1. groups \in Seq(Those)
    BY Zenon DEF TakenGroups
  <2> HIDE DEF Those
  <2>2. n \in Nat /\ \A k \in 1..n : groups[k] \in Those
    BY <2>1
  <2> QED BY <2>2 DEF Those
<1>2. \A k \in 1..n : /\ groups[k].bis \in Bytes /\ groups[k].metadata \in Seq(Entries)
                      /\ Len(groups[k].bis) = 4 /\ ContextsFirst(groups[k].metadata)
  <2>1. \A k \in 1..n : groups[k].bis \in Bytes /\ groups[k].metadata \in Seq(Entries)
    BY <1>1
  <2>2. \A k \in 1..n : Len(groups[k].bis) = 4 /\ ContextsFirst(groups[k].metadata)
    BY Zenon DEF TakenGroups
  <2> QED BY <2>1, <2>2, Zenon
<1>3. \A k \in 1..n : /\ Taken(groups[k]) \in Bytes /\ Len(Taken(groups[k])) >= 5
                      /\ Taken(groups[k])[5] = Len(Taken(groups[k])) - 5
  BY <1>2, TakenIs, ZenonT(30)
<1>4. TakenParts(groups) = [i \in 1..n |-> Taken(groups[i])]
  BY DEF TakenParts
<1> HIDE DEF n
<1>5. TakenParts(groups) \in Seq(Bytes) /\ Len(TakenParts(groups)) = n
      /\ \A k \in 1..n : TakenParts(groups)[k] = Taken(groups[k])
  <2>1. \A k \in 1..n : Taken(groups[k]) \in Bytes
    BY <1>3
  <2> QED BY <1>1, <1>4, <2>1
<1> QED
  BY <1>1, <1>2, <1>3, <1>5, Zenon DEF n

\* The bytes of all subgroups
LEMMA TakenJoint ==
  ASSUME NEW groups, TakenGroups(groups)
  PROVE  LET j == Joint(TakenParts(groups))
         IN /\ j \in Bytes /\ Len(j) \in Nat /\ Subgroups(groups) = <<Len(groups)>> \o j
            /\ <<Len(groups)>> \in Bytes /\ Len(<<Len(groups)>>) = 1
            /\ Subgroups(groups) \in Bytes /\ Len(Subgroups(groups)) = 1 + Len(j)
<1> DEFINE parts == TakenParts(groups)
           j == Joint(parts)
           c == <<Len(groups)>>
<1>1. parts \in Seq(Bytes) /\ Len(groups) \in Nat
  BY TakenPartsAre
<1>2. FlattenSeq(parts) = j
  BY <1>1, FlatIsJoint
<1>3. parts = [i \in 1..Len(groups) |-> groups[i].bis \o Filled(groups[i].metadata, 255)]
  BY DEF TakenParts, Taken
<1>4. Subgroups(groups) = c \o j
  BY <1>2, <1>3, Zenon DEF Subgroups
<1>5. c \in Bytes /\ Len(c) = 1
  BY <1>1 DEF Bytes
<1>6. j \in Bytes /\ Len(j) \in Nat
  <2>1. PICK n, joined, len : Lengths(parts, n, joined, len)
    BY <1>1, LengthsAre
  <2>2. j \in Bytes
    BY <2>1, Zenon DEF Lengths
  <2> HIDE DEF j
  <2> QED BY <2>2 DEF Bytes
<1> HIDE DEF c, j
<1>7. c \o j \in Bytes /\ Len(c \o j) = Len(c) + Len(j)
  BY <1>5, <1>6, Joined
<1> QED
  BY <1>4, <1>5, <1>6, <1>7, Zenon DEF c, j, parts

LEMMA FirstOccurs ==
  ASSUME NEW f \in Bytes, Len(f) >= 1, NEW s, NEW p \in Nat, OccursAt(s, p, f)
  PROVE  At(s, p) = f[1]
BY LengthOccurs

\* Where a source stands, its parameters and its subgroups do
SourceAt(s, p, w) ==
  /\ At(s, p) = w.pa /\ At(s, p + 3) = Len(w.groups)
  /\ OccursAt(s, p + 4, Joint(TakenParts(w.groups)))

LEMMA SourceIs ==
  ASSUME NEW w, TakenGroups(w.groups), w.pa \in Nat
  PROVE  /\ Source(w) \in Bytes /\ Len(Source(w)) = 4 + Len(Joint(TakenParts(w.groups)))
         /\ \A s : \A p \in Nat : OccursAt(s, p, Source(w)) => SourceAt(s, p, w)
<1> DEFINE j == Joint(TakenParts(w.groups))
           c == <<Len(w.groups)>>
           h == <<w.pa, 255, 255>>
           b == Subgroups(w.groups)
<1>1. /\ j \in Bytes /\ Len(j) \in Nat /\ b = c \o j /\ c \in Bytes /\ Len(c) = 1
      /\ b \in Bytes /\ Len(b) = 1 + Len(j)
  BY TakenJoint
<1>2. c[1] = Len(w.groups)
  OBVIOUS
<1>3. h \in Bytes /\ Len(h) = 3 /\ h[1] = w.pa
  BY DEF Bytes
<1>4. Source(w) = h \o b
  BY DEF Source
<1> HIDE DEF j, c, h, b
<1>5. h \o b \in Bytes /\ Len(h \o b) = Len(h) + Len(b)
  BY <1>1, <1>3, Joined
<1>6. Len(Source(w)) = 4 + Len(j)
  <2> DEFINE jl == Len(j)
  <2>1. Len(Source(w)) = 3 + (1 + jl) /\ jl \in Nat
    BY <1>1, <1>3, <1>4, <1>5, Zenon
  <2> HIDE DEF jl
  <2>2. 3 + (1 + jl) = 4 + jl
    BY <2>1
  <2> QED BY <2>1, <2>2, Zenon DEF jl
<1>7. ASSUME NEW s, NEW p \in Nat, OccursAt(s, p, h \o b)
      PROVE  SourceAt(s, p, w)
  <2>1. OccursAt(s, p, h) /\ OccursAt(s, p + 3, b)
    <3>1. OccursAt(s, p, h) /\ OccursAt(s, p + Len(h), b)
      BY <1>1, <1>3, <1>7, PartsOccur
    <3> QED BY <1>3, <3>1, Zenon
  <2>2. OccursAt(s, p + 3, c) /\ OccursAt(s, p + 4, j)
    <3>1. p + 3 \in Nat /\ (p + 3) + 1 = p + 4
      OBVIOUS
    <3>2. OccursAt(s, p + 3, c) /\ OccursAt(s, (p + 3) + Len(c), j)
      BY <1>1, <2>1, <3>1, PartsOccur
    <3> QED BY <1>1, <3>1, <3>2, Zenon
  <2>3. At(s, p) = h[1]
    BY <1>3, <2>1, FirstOccurs
  <2>4. At(s, p + 3) = c[1]
    <3>1. p + 3 \in Nat
      OBVIOUS
    <3> QED BY <1>1, <2>2, <3>1, FirstOccurs
  <2> QED BY <1>2, <1>3, <2>2, <2>3, <2>4, Zenon DEF SourceAt, j
<1> QED
  BY <1>4, <1>5, <1>6, <1>7, Zenon DEF j

-----------------------------------------------------------------------------
(* What clients write *)

LEMMA OccursItself ==
  ASSUME NEW s \in Bytes
  PROVE  OccursAt(s, 1, s) /\ \A i \in 1..Len(s) : At(s, i) = s[i]
<1>1. Len(s) \in Nat /\ DOMAIN s = 1..Len(s)
  BY DEF Bytes
<1> DEFINE n == Len(s)
<1>2. \A i \in 1..n : At(s, i) = s[i]
  BY <1>1 DEF At
<1>3. \A i \in 1..n : 1 + i - 1 = i
  BY <1>1
<1> HIDE DEF n
<1>4. \A i \in 1..n : At(s, 1 + i - 1) = s[i]
  BY <1>2, <1>3
<1> QED
  BY <1>2, <1>4 DEF OccursAt, n

\* A byte before a stream
LEMMA BehindByte ==
  ASSUME NEW v \in Nat, NEW b \in Bytes
  PROVE  /\ <<v>> \o b \in Bytes /\ Len(<<v>> \o b) = 1 + Len(b) /\ (<<v>> \o b)[1] = v
         /\ Len(b) \in Nat /\ OccursAt(<<v>> \o b, 2, b)
<1> DEFINE c == <<v>>
<1>1. c \in Bytes /\ Len(c) = 1 /\ c[1] = v
  BY DEF Bytes
<1> HIDE DEF c
<1>2. /\ c \o b \in Bytes /\ Len(c \o b) = Len(c) + Len(b) /\ Len(b) \in Nat
      /\ \A j \in 1..Len(c) : (c \o b)[j] = c[j]
  BY <1>1, Joined
<1>3. OccursAt(c \o b, 1, c \o b)
  BY <1>2, OccursItself
<1>4. OccursAt(c \o b, 1 + Len(c), b)
  <2>1. 1 \in Nat
    OBVIOUS
  <2> QED BY <1>1, <1>3, <2>1, PartsOccur
<1>5. 1 + Len(c) = 2 /\ 1 \in 1..Len(c)
  BY <1>1
<1>6. OccursAt(c \o b, 2, b)
  BY <1>4, <1>5, Zenon
<1> QED
  BY <1>1, <1>2, <1>5, <1>6, Zenon DEF c

\* Commands, whole, with a byte more or cut: those that are one byte long cannot be cut
AsProfile(w) ==
  /\ w.opcode \in Nat
  /\ w.form \in {"whole", "longer", "cut"}
  /\ w.form = "cut" => w.opcode \in AddSourceOp..RemoveSourceOp
  /\ w.opcode \in ModifySourceOp..RemoveSourceOp => w.source_id \in Nat
  /\ HasSource(w) => w.pa \in Nat /\ TakenGroups(w.groups)
  /\ w.opcode = AddSourceOp =>
       /\ w.from \in Bytes /\ Len(w.from) = 7
       /\ w.adv_sid \in Nat
       /\ w.broadcast_id \in Bytes /\ Len(w.broadcast_id) = 3
       \* those without an address and a broadcast are not told
       /\ ~(w.from = NoFrom /\ w.broadcast_id = NoBroadcast)

LEMMA OctetsOf ==
  ASSUME NEW w
  PROVE  Octets(w) = <<w.opcode>> \o
           (IF w.opcode = AddSourceOp THEN w.from \o <<w.adv_sid>> \o w.broadcast_id \o Source(w)
            ELSE IF w.opcode = ModifySourceOp THEN <<w.source_id>> \o Source(w)
            ELSE IF w.opcode = SetCodeOp THEN <<w.source_id>> \o [i \in 1..16 |-> 7]
            ELSE IF w.opcode = RemoveSourceOp THEN <<w.source_id>>
            ELSE <<>>)
<1> DEFINE a == w.from \o <<w.adv_sid>> \o w.broadcast_id \o Source(w)
           b == <<w.source_id>> \o Source(w)
           c == <<w.source_id>> \o [i \in 1..16 |-> 7]
           e == <<w.source_id>>
           z == <<>>
           op == w.opcode
           first == <<op>>
           rest == CASE op = AddSourceOp -> a [] op = ModifySourceOp -> b [] op = SetCodeOp -> c
                     [] op = RemoveSourceOp -> e [] OTHER -> z
<1>1. Octets(w) = first \o rest
  BY Zenon DEF Octets
<1> HIDE DEF a, b, c, e, z, op
<1>2. rest = IF op = AddSourceOp THEN a ELSE IF op = ModifySourceOp THEN b ELSE IF op = SetCodeOp THEN c
             ELSE IF op = RemoveSourceOp THEN e ELSE z
  BY DEF AddSourceOp, ModifySourceOp, SetCodeOp, RemoveSourceOp
<1> HIDE DEF rest, first
<1> QED
  BY <1>1, <1>2, Zenon DEF a, b, c, e, z, op, first

LEMMA AddIs ==
  ASSUME NEW w, AsProfile(w), w.opcode = AddSourceOp
  PROVE  LET o == Octets(w)
         IN /\ o \in Bytes /\ Len(o) = 16 + Len(Joint(TakenParts(w.groups))) /\ o[1] = w.opcode
            /\ OccursAt(o, 2, w.from) /\ At(o, 9) = w.adv_sid /\ OccursAt(o, 10, w.broadcast_id)
            /\ SourceAt(o, 13, w)
<1> DEFINE f == w.from
           i == w.broadcast_id
           sid == <<w.adv_sid>>
           src == Source(w)
           fs == f \o sid
           fsi == fs \o i
           b == fsi \o src
           o == <<w.opcode>> \o b
           jl == Len(Joint(TakenParts(w.groups)))
<1>1. /\ f \in Bytes /\ Len(f) = 7 /\ w.adv_sid \in Nat /\ i \in Bytes /\ Len(i) = 3
      /\ w.pa \in Nat /\ TakenGroups(w.groups) /\ w.opcode \in Nat
  BY Zenon DEF AsProfile, HasSource
<1>2. /\ src \in Bytes /\ Len(src) = 4 + jl
      /\ \A s : \A p \in Nat : OccursAt(s, p, src) => SourceAt(s, p, w)
  BY <1>1, SourceIs
<1>3. sid \in Bytes /\ Len(sid) = 1 /\ sid[1] = w.adv_sid
  BY <1>1 DEF Bytes
<1>4. jl \in Nat
  BY <1>1, TakenJoint
<1>5. Octets(w) = o
  BY OctetsOf, Zenon
<1> HIDE DEF f, i, sid, src, jl
<1>6. fs \in Bytes /\ Len(fs) = 8
  <2>1. fs \in Bytes /\ Len(fs) = Len(f) + Len(sid)
    BY <1>1, <1>3, Joined
  <2>2. 7 + 1 = 8
    OBVIOUS
  <2> QED BY <1>1, <1>3, <2>1, <2>2, Zenon
<1>7. fsi \in Bytes /\ Len(fsi) = 11
  <2> HIDE DEF fs
  <2>1. fsi \in Bytes /\ Len(fsi) = Len(fs) + Len(i)
    BY <1>1, <1>6, Joined
  <2>2. 8 + 3 = 11
    OBVIOUS
  <2> QED BY <1>1, <1>6, <2>1, <2>2, Zenon
<1>8. b \in Bytes /\ Len(b) = 11 + (4 + jl)
  <2> HIDE DEF fsi
  <2>1. b \in Bytes /\ Len(b) = Len(fsi) + Len(src)
    BY <1>2, <1>7, Joined
  <2> QED BY <1>2, <1>7, <2>1, Zenon
<1> HIDE DEF b
<1>9. o \in Bytes /\ Len(o) = 1 + Len(b) /\ o[1] = w.opcode /\ OccursAt(o, 2, b)
  BY <1>1, <1>8, BehindByte
<1> HIDE DEF o
<1>10. Len(o) = 16 + jl
  <2>1. 1 + (11 + (4 + jl)) = 16 + jl
    BY <1>4
  <2> QED BY <1>8, <1>9, <2>1, Zenon
<1>11. OccursAt(o, 2, fsi) /\ OccursAt(o, 13, src)
  <2>1. 2 \in Nat /\ 2 + 11 = 13 /\ OccursAt(o, 2, fsi \o src)
    BY <1>9 DEF b
  <2> HIDE DEF fsi
  <2>2. OccursAt(o, 2, fsi) /\ OccursAt(o, 2 + Len(fsi), src)
    BY <1>2, <1>7, <2>1, PartsOccur
  <2> QED BY <1>7, <2>1, <2>2, Zenon
<1>12. OccursAt(o, 2, fs) /\ OccursAt(o, 10, i)
  <2>1. 2 \in Nat /\ 2 + 8 = 10 /\ OccursAt(o, 2, fs \o i)
    BY <1>11
  <2> HIDE DEF fs
  <2>2. OccursAt(o, 2, fs) /\ OccursAt(o, 2 + Len(fs), i)
    BY <1>1, <1>6, <2>1, PartsOccur
  <2> QED BY <1>6, <2>1, <2>2, Zenon
<1>13. OccursAt(o, 2, f) /\ OccursAt(o, 9, sid)
  <2>1. 2 \in Nat /\ 2 + 7 = 9 /\ OccursAt(o, 2, f \o sid)
    BY <1>12
  <2>2. OccursAt(o, 2, f) /\ OccursAt(o, 2 + Len(f), sid)
    BY <1>1, <1>3, <2>1, PartsOccur
  <2> QED BY <1>1, <2>1, <2>2, Zenon
<1>14. At(o, 9) = w.adv_sid
  <2>1. 9 \in Nat /\ Len(sid) >= 1
    BY <1>3
  <2>2. At(o, 9) = sid[1]
    BY <1>3, <1>13, <2>1, FirstOccurs
  <2> QED BY <1>3, <2>2
<1>15. SourceAt(o, 13, w)
  <2>1. 13 \in Nat
    OBVIOUS
  <2> QED BY <1>2, <1>11, <2>1, Zenon
<1> QED
  BY <1>5, <1>9, <1>10, <1>12, <1>13, <1>14, <1>15, Zenon DEF jl, f, i

LEMMA ModifyIs ==
  ASSUME NEW w, AsProfile(w), w.opcode = ModifySourceOp
  PROVE  LET o == Octets(w)
         IN /\ o \in Bytes /\ Len(o) = 6 + Len(Joint(TakenParts(w.groups))) /\ o[1] = w.opcode
            /\ SourceAt(o, 3, w)
<1> DEFINE src == Source(w)
           b == <<w.source_id>> \o src
           o == <<w.opcode>> \o b
           jl == Len(Joint(TakenParts(w.groups)))
<1>1. w.source_id \in Nat /\ w.pa \in Nat /\ TakenGroups(w.groups) /\ w.opcode \in Nat
  <2>1. w.opcode \in ModifySourceOp..RemoveSourceOp
    BY DEF ModifySourceOp, RemoveSourceOp
  <2> QED BY <2>1, Zenon DEF AsProfile, HasSource
<1>2. /\ src \in Bytes /\ Len(src) = 4 + jl
      /\ \A s : \A p \in Nat : OccursAt(s, p, src) => SourceAt(s, p, w)
  BY <1>1, SourceIs
<1>3. jl \in Nat
  BY <1>1, TakenJoint
<1>4. Octets(w) = o
  <2>1. ModifySourceOp # AddSourceOp
    BY DEF ModifySourceOp, AddSourceOp
  <2> QED BY <2>1, OctetsOf, Zenon
<1> HIDE DEF src, jl
<1>5. b \in Bytes /\ Len(b) = 1 + Len(src) /\ OccursAt(b, 2, src)
  BY <1>1, <1>2, BehindByte
<1>6. o \in Bytes /\ Len(o) = 1 + Len(b) /\ o[1] = w.opcode /\ OccursAt(o, 2, b)
  <2> HIDE DEF b
  <2> QED BY <1>1, <1>5, BehindByte
<1> HIDE DEF o
<1>7. Len(o) = 6 + jl
  <2>1. 1 + (1 + (4 + jl)) = 6 + jl
    BY <1>3
  <2> HIDE DEF b
  <2> QED BY <1>2, <1>5, <1>6, <2>1, Zenon
<1>8. OccursAt(o, 3, src)
  <2> DEFINE id == <<w.source_id>>
  <2>1. 2 \in Nat /\ 2 + 1 = 3 /\ OccursAt(o, 2, id \o src) /\ id \in Bytes /\ Len(id) = 1
    BY <1>1, <1>6 DEF Bytes
  <2> HIDE DEF id
  <2>2. OccursAt(o, 2 + Len(id), src)
    BY <1>2, <2>1, PartsOccur
  <2> QED BY <2>1, <2>2, Zenon
<1>9. SourceAt(o, 3, w)
  <2>1. 3 \in Nat
    OBVIOUS
  <2> QED BY <1>2, <1>8, <2>1, Zenon
<1> QED
  BY <1>4, <1>6, <1>7, <1>9, Zenon DEF jl

LEMMA OthersAre ==
  ASSUME NEW w, AsProfile(w), ~HasSource(w)
  PROVE  LET o == Octets(w)
         IN /\ o \in Bytes /\ o[1] = w.opcode
            /\ Len(o) = IF w.opcode = SetCodeOp THEN 18
                        ELSE IF w.opcode = RemoveSourceOp THEN 2 ELSE 1
<1>1. w.opcode \in Nat /\ w.opcode # AddSourceOp /\ w.opcode # ModifySourceOp
  BY Zenon DEF AsProfile, HasSource
<1>2. (w.opcode = SetCodeOp => w.source_id \in Nat) /\ (w.opcode = RemoveSourceOp => w.source_id \in Nat)
  BY DEF AsProfile, ModifySourceOp, RemoveSourceOp, SetCodeOp
<1> DEFINE key == [i \in 1..16 |-> 7]
           id == <<w.source_id>>
<1>3. CASE w.opcode = SetCodeOp
  <2>1. w.source_id \in Nat /\ Octets(w) = <<w.opcode>> \o (id \o key)
    BY <1>1, <1>2, <1>3, OctetsOf, Zenon
  <2>2. key \in Bytes /\ Len(key) = 16
    BY DEF Bytes
  <2> HIDE DEF key
  <2>3. id \o key \in Bytes /\ Len(id \o key) = 1 + Len(key)
    BY <2>1, <2>2, BehindByte
  <2> HIDE DEF id
  <2>4. /\ <<w.opcode>> \o (id \o key) \in Bytes /\ (<<w.opcode>> \o (id \o key))[1] = w.opcode
        /\ Len(<<w.opcode>> \o (id \o key)) = 1 + Len(id \o key)
    BY <1>1, <2>3, BehindByte
  <2>5. 1 + (1 + 16) = 18
    OBVIOUS
  <2>6. Len(Octets(w)) = 18
    BY <2>1, <2>2, <2>3, <2>4, <2>5, Zenon
  <2> HIDE DEF key
  <2> QED BY <1>3, <2>1, <2>4, <2>6, Zenon
<1>4. CASE w.opcode = RemoveSourceOp
  <2>1. w.source_id \in Nat /\ Octets(w) = <<w.opcode>> \o id
    <3>1. RemoveSourceOp # SetCodeOp
      BY DEF RemoveSourceOp, SetCodeOp
    <3> QED BY <1>1, <1>2, <1>4, <3>1, OctetsOf, Zenon
  <2>2. id \in Bytes /\ Len(id) = 1
    BY <2>1 DEF Bytes
  <2> HIDE DEF id
  <2>3. /\ <<w.opcode>> \o id \in Bytes /\ (<<w.opcode>> \o id)[1] = w.opcode
        /\ Len(<<w.opcode>> \o id) = 1 + Len(id)
    BY <1>1, <2>2, BehindByte
  <2>4. RemoveSourceOp # SetCodeOp
    BY DEF RemoveSourceOp, SetCodeOp
  <2>5. Len(Octets(w)) = 2 /\ Octets(w) \in Bytes /\ Octets(w)[1] = w.opcode
    <3>1. 1 + 1 = 2
      OBVIOUS
    <3> QED BY <2>1, <2>2, <2>3, <3>1, Zenon
  <2> QED BY <1>4, <2>4, <2>5, Zenon
<1>5. CASE w.opcode \notin {SetCodeOp, RemoveSourceOp}
  <2>1. Octets(w) = <<w.opcode>> \o <<>>
    BY <1>1, <1>5, OctetsOf, Zenon
  <2>2. <<>> \in Bytes /\ Len(<<>>) = 0
    BY DEF Bytes
  <2> DEFINE none == <<>>
  <2> HIDE DEF none
  <2>3. none \in Bytes /\ Len(none) = 0
    BY <2>2 DEF none
  <2>4. /\ <<w.opcode>> \o none \in Bytes /\ (<<w.opcode>> \o none)[1] = w.opcode
        /\ Len(<<w.opcode>> \o none) = 1 + Len(none)
    BY <1>1, <2>3, BehindByte
  <2>5. Octets(w) = <<w.opcode>> \o none
    BY <2>1 DEF none
  <2>6. Len(Octets(w)) = 1 /\ Octets(w) \in Bytes /\ Octets(w)[1] = w.opcode
    <3>1. 1 + 0 = 1
      OBVIOUS
    <3> QED BY <2>3, <2>4, <2>5, <3>1, Zenon
  <2> QED BY <1>5, <2>6, Zenon
<1> QED
  BY <1>3, <1>4, <1>5

LEMMA OctetsAre ==
  ASSUME NEW w, AsProfile(w)
  PROVE  LET o == Octets(w)
         IN o \in Bytes /\ o[1] = w.opcode /\ Len(o) >= 1 /\ (w.form = "cut" => Len(o) >= 2)
<1> DEFINE o == Octets(w)
           l == Len(o)
<1>1. w.form = "cut" => w.opcode \in {AddSourceOp, ModifySourceOp, SetCodeOp, RemoveSourceOp}
  BY DEF AsProfile, AddSourceOp, ModifySourceOp, SetCodeOp, RemoveSourceOp
<1>2. CASE HasSource(w)
  <2> DEFINE jl == Len(Joint(TakenParts(w.groups)))
  <2>1. jl \in Nat
    BY <1>2, TakenJoint, Zenon DEF AsProfile
  <2>2. o \in Bytes /\ o[1] = w.opcode /\ (l = 16 + jl \/ l = 6 + jl)
    BY <1>2, AddIs, ModifyIs, Zenon DEF HasSource
  <2> HIDE DEF l, o, jl
  <2>3. l >= 1 /\ l >= 2
    BY <2>1, <2>2
  <2> QED BY <2>2, <2>3 DEF l, o
<1>3. CASE ~HasSource(w)
  <2>1. o \in Bytes /\ o[1] = w.opcode
        /\ l = IF w.opcode = SetCodeOp THEN 18 ELSE IF w.opcode = RemoveSourceOp THEN 2 ELSE 1
    BY <1>3, OthersAre, Zenon
  <2>2. w.form = "cut" => w.opcode = SetCodeOp \/ w.opcode = RemoveSourceOp
    BY <1>1, <1>3, Zenon DEF HasSource
  <2> HIDE DEF l, o
  <2>3. l >= 1 /\ (w.form = "cut" => l >= 2)
    BY <2>1, <2>2
  <2> QED BY <2>1, <2>3 DEF l, o
<1> QED
  BY <1>2, <1>3

\* How a stream is longer or shorter than its command
Excess(w) == IF w.form = "longer" THEN 1 ELSE IF w.form = "cut" THEN -1 ELSE 0

LEMMA StreamIs ==
  ASSUME NEW w, AsProfile(w)
  PROVE  LET o == Octets(w)
             d == Stream(w)
         IN /\ d \in Bytes /\ Len(d) = Len(o) + Excess(w) /\ Len(o) \in Nat /\ Excess(w) \in {-1, 0, 1}
            /\ (Excess(w) = 0 <=> w.form = "whole") /\ (w.form = "whole" => d = o)
            /\ d[1] = w.opcode
            /\ \A i \in 1..Len(o) : i <= Len(d) => At(d, i) = At(o, i)
<1> DEFINE o == Octets(w)
           d == Stream(w)
           n == Len(o)
           m == Len(d)
<1>1. o \in Bytes /\ o[1] = w.opcode /\ n >= 1 /\ (w.form = "cut" => n >= 2)
  BY OctetsAre
<1>2. w.form \in {"whole", "longer", "cut"}
  BY DEF AsProfile
<1>3. /\ w.form = "whole" => d = o
      /\ w.form = "longer" => d = o \o <<0>>
      /\ w.form = "cut" => d = Front(o)
  BY DEF Stream
<1>4. Excess(w) \in {-1, 0, 1} /\ (Excess(w) = 0 <=> w.form = "whole")
  BY <1>2 DEF Excess
<1> HIDE DEF o, d
<1>5. n \in Nat
  BY <1>1 DEF Bytes
<1>6. CASE w.form = "whole"
  <2>1. d = o /\ Excess(w) = 0 /\ n + 0 = n
    BY <1>2, <1>3, <1>5, <1>6 DEF Excess
  <2> QED BY <1>1, <1>4, <1>5, <2>1, Zenon DEF o, d
<1>7. CASE w.form = "longer"
  <2> DEFINE z == <<0>>
  <2>1. d = o \o z /\ Excess(w) = 1
    BY <1>3, <1>7 DEF Excess
  <2>2. z \in Bytes /\ Len(z) = 1
    BY DEF Bytes
  <2> HIDE DEF z
  <2>3. d \in Bytes /\ m = n + 1 /\ \A i \in 1..n : d[i] = o[i]
    <3>1. o \o z \in Bytes /\ Len(o \o z) = n + Len(z) /\ \A i \in 1..n : (o \o z)[i] = o[i]
      BY <1>1, <2>2, Joined
    <3> QED BY <2>1, <2>2, <3>1, Zenon
  <2>4. \A i \in 1..n : At(d, i) = At(o, i)
    <3>1. /\ \A i \in 1..n : At(o, i) = o[i]
          /\ \A i \in 1..m : At(d, i) = d[i]
      BY <1>1, <2>3, OccursItself
    <3> HIDE DEF n, m
    <3>2. \A i \in 1..n : i \in 1..m
      BY <1>5, <2>3
    <3> QED BY <2>3, <3>1, <3>2
  <2>5. d[1] = w.opcode
    <3>1. 1 \in 1..n
      <4> HIDE DEF n
      <4> QED BY <1>1, <1>5
    <3> QED BY <1>1, <2>3, <3>1
  <2> QED BY <1>3, <1>4, <1>5, <2>1, <2>3, <2>4, <2>5, Zenon DEF o, d
<1>8. CASE w.form = "cut"
  <2>1. d = SubSeq(o, 1, n - 1) /\ Excess(w) = -1 /\ n >= 2
    BY <1>1, <1>3, <1>8 DEF Excess, Front
  <2>2. d \in Bytes /\ m = n - 1 /\ \A i \in 1..(n - 1) : d[i] = o[i]
    BY <1>1, <2>1 DEF Bytes
  <2>3. \A i \in 1..n : i <= m => At(d, i) = At(o, i)
    <3>1. /\ \A i \in 1..n : At(o, i) = o[i]
          /\ \A i \in 1..m : At(d, i) = d[i]
      BY <1>1, <2>2, OccursItself
    <3> HIDE DEF n, m
    <3>2. \A i \in 1..n : i <= m => i \in 1..m /\ i \in 1..(n - 1)
      BY <1>5, <2>2
    <3> QED BY <2>2, <3>1, <3>2
  <2>4. d[1] = w.opcode
    <3>1. 1 \in 1..(n - 1)
      <4> HIDE DEF n
      <4> QED BY <1>5, <2>1
    <3> QED BY <1>1, <2>2, <3>1
  <2>5. n - 1 = n + (-1)
    <3> HIDE DEF n
    <3> QED BY <1>5
  <2>6. m = n + Excess(w)
    BY <2>1, <2>2, <2>5
  <2> QED BY <1>3, <1>4, <1>5, <1>8, <2>2, <2>3, <2>4, <2>6, Zenon DEF o, d
<1> QED
  BY <1>2, <1>6, <1>7, <1>8, Zenon DEF o, d

\* Only the whole of a command fits its opcode
LEMMA SourceFits ==
  ASSUME NEW w, TakenGroups(w.groups), NEW o \in Bytes, NEW d, NEW p \in Nat, NEW q \in Nat, NEW e \in {-1, 0, 1},
         p = q + 3, Len(o) = p + Len(Joint(TakenParts(w.groups))), SourceAt(o, q, w), p >= 1,
         Len(d) = Len(o) + e, \A i \in 1..Len(o) : i <= Len(d) => At(d, i) = At(o, i)
  PROVE  Len(d) >= p /\ SubgroupsFit(d, p) <=> e = 0
<1> DEFINE parts == TakenParts(w.groups)
           jl == Len(Joint(parts))
           end == Len(d)
           ol == Len(o)
<1>1. /\ parts \in Seq(Bytes)
      /\ \A k \in 1..Len(parts) : Len(parts[k]) >= 5 /\ parts[k][5] = Len(parts[k]) - 5
      /\ Len(parts) = Len(w.groups)
  BY TakenPartsAre, Zenon
<1>2. PICK n, joined, len : Lengths(parts, n, joined, len)
  BY <1>1, LengthsAre
<1>3. /\ n \in Nat /\ n = Len(parts) /\ len \in [0..n -> Nat] /\ jl = len[n]
      /\ \A k \in 0..n : len[k] <= len[n]
      /\ \A k \in 1..n : len[k] = len[k - 1] + Len(parts[k]) /\ parts[k] \in Bytes /\ Len(parts[k]) \in Nat
  BY <1>2, Zenon DEF Lengths
<1>4. ol = p + jl /\ jl \in Nat /\ end = ol + e
  <2> HIDE DEF end, ol
  <2>1. len[n] \in Nat
    BY <1>3
  <2> QED BY <1>3, <2>1 DEF end, ol
<1>5. CASE end < p
  <2>1. e # 0 /\ ~(end >= p)
    <3> HIDE DEF end, ol, jl
    <3> QED BY <1>4, <1>5
  <2> QED BY <2>1
<1>6. CASE ~(end < p)
  <2>1. end >= p /\ p \in 1..ol /\ ol \in Nat
    <3> HIDE DEF end, ol, jl
    <3> QED BY <1>4, <1>6
  <2>2. At(d, p) = n
    <3>1. At(o, p) = n
      BY <1>1, <1>3 DEF SourceAt
    <3> QED BY <2>1, <3>1
  <2>3. end = p + len[n] + e
    <3> HIDE DEF end, ol, jl
    <3> QED BY <1>3, <1>4
  <2>4. ASSUME NEW k \in 1..n, p + len[k - 1] + 5 <= end
        PROVE  At(d, p + len[k - 1] + 5) = Len(parts[k]) - 5
    <3> DEFINE a == len[k - 1]
               b == len[k]
               l == Len(parts[k])
               c == p + a + 5
    <3>1. k - 1 \in 0..n /\ k \in 0..n
      BY <1>3
    <3>2. a \in Nat /\ b \in Nat /\ l \in Nat /\ b = a + l /\ l >= 5 /\ b <= jl
      BY <1>1, <1>3, <3>1
    <3>3. OccursAt(o, (q + 4) + a, parts[k])
      <4>1. OccursAt(o, q + 4, Joint(parts)) /\ q + 4 \in Nat
        BY DEF SourceAt
      <4> HIDE DEF parts
      <4> QED BY <1>1, <1>2, <4>1, JointOccurs
    <3>4. \A i \in 1..l : At(o, ((q + 4) + a) + i - 1) = parts[k][i]
      BY <3>3, Zenon DEF OccursAt
    <3>5. At(o, ((q + 4) + a) + 5 - 1) = parts[k][5]
      <4>1. 5 \in 1..l
        <5> HIDE DEF l
        <5> QED BY <3>2
      <4> QED BY <3>4, <4>1
    <3>6. parts[k][5] = l - 5
      BY <1>1, <1>3
    <3>7. ((q + 4) + a) + 5 - 1 = c /\ c \in 1..ol /\ c <= end
      <4>1. c <= end
        BY <2>4
      <4> HIDE DEF a, b, l, jl, ol, end
      <4> QED BY <1>4, <2>1, <3>2, <4>1
    <3>8. At(o, c) = l - 5
      BY <3>5, <3>6, <3>7
    <3> QED BY <3>7, <3>8
  <2>5. SubgroupsFit(d, p) <=> e = 0
    <3>1. \A k \in 1..n : Len(parts[k]) >= 5
      BY <1>1, <1>3
    <3>2. \A k \in 1..n : p + len[k - 1] + 5 <= Len(d) => At(d, p + len[k - 1] + 5) = Len(parts[k]) - 5
      BY <2>4, Zenon
    <3>3. At(d, p) = n /\ Len(d) = p + len[n] + e
      BY <2>2, <2>3
    <3> HIDE DEF parts
    <3>4. p \in Nat /\ e \in {-1, 0, 1} /\ Lengths(parts, n, joined, len)
      BY <1>2
    <3>5. StandWith(parts, n, len, d, p, e)
      BY <3>1, <3>2, <3>3, Zenon DEF StandWith
    <3> QED BY <3>4, <3>5, FitIs, Zenon
  <2> QED BY <2>1, <2>5
<1> QED
  BY <1>5, <1>6

LEMMA LengthFitsIs ==
  ASSUME NEW w, AsProfile(w), w.opcode <= RemoveSourceOp
  PROVE  LengthFits(Stream(w)) <=> w.form = "whole"
<1> DEFINE o == Octets(w)
           d == Stream(w)
           e == Excess(w)
           ol == Len(o)
           dl == Len(d)
<1>1. /\ o \in Bytes /\ d \in Bytes /\ dl = ol + e /\ ol \in Nat /\ e \in {-1, 0, 1}
      /\ (e = 0 <=> w.form = "whole") /\ d[1] = w.opcode
      /\ \A i \in 1..ol : i <= dl => At(d, i) = At(o, i)
  BY StreamIs, OctetsAre
<1>2. CASE w.opcode = AddSourceOp
  <2>1. LengthFits(d) <=> dl >= 16 /\ SubgroupsFit(d, 16)
    BY <1>1, <1>2 DEF LengthFits, ScanStopped, ScanStarted, AddSourceOp, ModifySourceOp, SetCodeOp, RemoveSourceOp
  <2>2. ol = 16 + Len(Joint(TakenParts(w.groups))) /\ SourceAt(o, 13, w)
    BY <1>2, AddIs
  <2>3. TakenGroups(w.groups)
    BY <1>2, Zenon DEF AsProfile, HasSource
  <2>4. 16 \in Nat /\ 13 \in Nat /\ 16 = 13 + 3 /\ 16 >= 1
    OBVIOUS
  <2> HIDE DEF o, d, e
  <2>5. dl >= 16 /\ SubgroupsFit(d, 16) <=> e = 0
    BY <1>1, <2>2, <2>3, <2>4, SourceFits
  <2> QED BY <1>1, <2>1, <2>5 DEF d
<1>3. CASE w.opcode = ModifySourceOp
  <2>1. LengthFits(d) <=> dl >= 6 /\ SubgroupsFit(d, 6)
    BY <1>1, <1>3 DEF LengthFits, ScanStopped, ScanStarted, AddSourceOp, ModifySourceOp, SetCodeOp, RemoveSourceOp
  <2>2. ol = 6 + Len(Joint(TakenParts(w.groups))) /\ SourceAt(o, 3, w)
    BY <1>3, ModifyIs
  <2>3. TakenGroups(w.groups)
    BY <1>3, Zenon DEF AsProfile, HasSource
  <2>4. 6 \in Nat /\ 3 \in Nat /\ 6 = 3 + 3 /\ 6 >= 1
    OBVIOUS
  <2> HIDE DEF o, d, e
  <2>5. dl >= 6 /\ SubgroupsFit(d, 6) <=> e = 0
    BY <1>1, <2>2, <2>3, <2>4, SourceFits
  <2> QED BY <1>1, <2>1, <2>5 DEF d
<1>4. CASE ~HasSource(w)
  <2>1. ol = IF w.opcode = SetCodeOp THEN 18 ELSE IF w.opcode = RemoveSourceOp THEN 2 ELSE 1
    BY <1>4, OthersAre
  <2>2. w.opcode \in Nat /\ w.opcode # AddSourceOp /\ w.opcode # ModifySourceOp
    BY <1>4, Zenon DEF AsProfile, HasSource
  <2>3. w.opcode \in {ScanStopped, ScanStarted, SetCodeOp, RemoveSourceOp}
    BY <2>2 DEF ScanStopped, ScanStarted, AddSourceOp, ModifySourceOp, SetCodeOp, RemoveSourceOp
  <2> HIDE DEF o, d, e, ol, dl
  <2>4. LengthFits(d) <=> dl = ol
    <3>1. d[1] = w.opcode
      BY <1>1
    <3>2. CASE w.opcode = SetCodeOp
      <4>1. LengthFits(d) <=> Len(d) = 18
        BY <3>1, <3>2 DEF LengthFits, ScanStopped, ScanStarted, AddSourceOp, ModifySourceOp, SetCodeOp,
                          RemoveSourceOp
      <4> QED BY <2>1, <3>2, <4>1 DEF dl
    <3>3. CASE w.opcode = RemoveSourceOp
      <4>1. LengthFits(d) <=> Len(d) = 2
        BY <3>1, <3>3 DEF LengthFits, ScanStopped, ScanStarted, AddSourceOp, ModifySourceOp, SetCodeOp,
                          RemoveSourceOp
      <4>2. RemoveSourceOp # SetCodeOp
        BY DEF RemoveSourceOp, SetCodeOp
      <4> QED BY <2>1, <3>3, <4>1, <4>2 DEF dl
    <3>4. CASE w.opcode \in {ScanStopped, ScanStarted}
      <4>1. LengthFits(d) <=> Len(d) = 1
        <5>1. /\ d[1] \in {ScanStopped, ScanStarted} /\ d[1] # AddSourceOp /\ d[1] # ModifySourceOp
              /\ d[1] # SetCodeOp /\ d[1] # RemoveSourceOp
          BY <3>1, <3>4 DEF ScanStopped, ScanStarted, AddSourceOp, ModifySourceOp, SetCodeOp, RemoveSourceOp
        <5> QED BY <5>1 DEF LengthFits
      <4>2. w.opcode # SetCodeOp /\ w.opcode # RemoveSourceOp
        BY <3>4 DEF ScanStopped, ScanStarted, RemoveSourceOp, SetCodeOp
      <4> QED BY <2>1, <4>1, <4>2 DEF dl
    <3> QED BY <2>3, <3>2, <3>3, <3>4
  <2>5. dl = ol <=> e = 0
    BY <1>1
  <2> QED BY <1>1, <2>4, <2>5 DEF d
<1> QED
  BY <1>2, <1>3, <1>4 DEF HasSource

-----------------------------------------------------------------------------
(* What is read of a source *)

LEMMA SaysLast ==
  ASSUME NEW entries, ContextsFirst(entries), NamedOnce(entries), NEW type \in {1, 2}, NEW old
  PROVE  Says(entries, type, LastOf(entries, type, old))
<1> DEFINE n == Len(entries)
<1>1. entries \in Seq(Entries)
  BY Zenon DEF ContextsFirst
<1>2. n \in Nat /\ DOMAIN entries = 1..n
  BY <1>1
<1>3. PICK v : Latest(entries, n, type, old, v) /\ LastOf(entries, type, old) = v
  <2> HIDE DEF n
  <2> QED BY <1>2, LatestExists
<1>4. ASSUME NEW k \in 1..n, entries[k].type = type
      PROVE  Two(v) = entries[k].value
  <2>1. \E j \in 1..n : entries[j].type = type /\ v = TwoAt(entries[j].value, 1)
    BY <1>3, <1>4, Zenon DEF Latest
  <2>2. PICK j \in 1..n : entries[j].type = type /\ v = TwoAt(entries[j].value, 1)
    BY <2>1
  <2>3. j = k
    BY <1>2, <1>4, <2>2, Zenon DEF NamedOnce
  <2>4. PICK u \in U16 : entries[k].value = Two(u)
    BY <1>2, <1>4, Zenon DEF ContextsFirst
  <2>5. v = u
    <3>1. u \in Nat
      BY <2>4, ContextIsNat
    <3>2. TwoAt(Two(u), 1) = u
      BY <3>1, TwoIs
    <3> QED BY <2>2, <2>3, <2>4, <3>2, Zenon
  <2> QED BY <2>4, <2>5, Zenon
<1>5. \A e \in Range(entries) : \E k \in 1..n : e = entries[k]
  BY <1>2 DEF Range
<1> HIDE DEF n
<1> QED
  BY <1>3, <1>4, <1>5 DEF Says

\* A source stands from p on to the end of o
SourceStands(w, o, p) ==
  /\ TakenGroups(w.groups) /\ w.pa \in Nat /\ o \in Bytes /\ p \in Nat /\ SourceAt(o, p, w)
  /\ Len(o) = p + 3 + Len(Joint(TakenParts(w.groups)))

\* At a the subgroup g is read
ReadsGroup(o, a, g) ==
  /\ SubSeq(o, a, a + 3) = g.bis
  /\ \A m \in Contexts :
       LET read == ReadMetadata(o, a + 5, At(o, a + 4), m)
       IN /\ Says(g.metadata, 1, read.preferred_audio_ctx)
          /\ Says(g.metadata, 2, read.streaming_audio_ctx)

\* The part of each subgroup is where those before it end
LEMMA GroupAt ==
  ASSUME NEW w, NEW o, NEW p, SourceStands(w, o, p),
         NEW n, NEW joined, NEW len, Lengths(TakenParts(w.groups), n, joined, len), NEW k \in 1..n
  PROVE  ReadsGroup(o, p + 4 + len[k - 1], w.groups[k])
<1> DEFINE parts == TakenParts(w.groups)
           jl == Len(Joint(parts))
           a == p + 4 + len[k - 1]
           g == w.groups[k]
           f == Filled(g.metadata, 255)
           fl == Len(f)
           bis == g.bis
           ol == Len(o)
<1>0. /\ TakenGroups(w.groups) /\ o \in Bytes /\ p \in Nat /\ SourceAt(o, p, w)
      /\ ol = p + 3 + jl
  BY Zenon DEF SourceStands
<1>1. /\ parts \in Seq(Bytes) /\ Len(parts) = Len(w.groups)
      /\ \A i \in 1..Len(w.groups) :
           /\ parts[i] = Taken(w.groups[i])
           /\ w.groups[i].bis \in Bytes /\ Len(w.groups[i].bis) = 4
           /\ ContextsFirst(w.groups[i].metadata)
  BY <1>0, TakenPartsAre, Zenon
<1>2. /\ n \in Nat /\ n = Len(parts) /\ len \in [0..n -> Nat] /\ jl = len[n]
      /\ \A i \in 0..n : len[i] <= len[n]
      /\ \A i \in 1..n : len[i] = len[i - 1] + Len(parts[i])
  BY Zenon DEF Lengths
<1>3. /\ parts[k] = Taken(g) /\ bis \in Bytes /\ Len(bis) = 4 /\ ContextsFirst(g.metadata)
  <2>1. k \in 1..Len(w.groups)
    BY <1>0, <1>1, <1>2
  <2> QED BY <1>1, <2>1, Zenon
<1>4. NamedOnce(g.metadata)
  <2>1. k \in 1..Len(w.groups)
    BY <1>0, <1>1, <1>2
  <2> QED BY <1>0, <2>1, Zenon DEF TakenGroups
<1>5. /\ f \in Bytes /\ fl \in 1..255 /\ f[1] = fl - 1
      /\ Len(Taken(g)) = 4 + fl
  <2>1. /\ f \in Bytes /\ Len(f) \in 1..255 /\ f[1] = Len(f) - 1
        /\ Len(Taken(g)) = 4 + Len(f)
    BY <1>3, TakenIs, ZenonT(30)
  <2> QED BY <2>1, Zenon DEF fl
<1>6. k - 1 \in 0..n /\ k \in 0..n
  BY <1>2
<1>7. a \in Nat /\ a >= 1 /\ a + 3 <= ol /\ ol \in Nat
  <2> DEFINE b == len[k - 1]
             c == len[k]
             t == len[n]
  <2>1. b \in Nat /\ c \in Nat /\ t \in Nat /\ c <= t /\ c = b + (4 + fl) /\ a = p + 4 + b /\ ol = p + 3 + t
    <3>1. len[k] = len[k - 1] + Len(parts[k])
      BY <1>2
    <3>2. Len(parts[k]) = 4 + fl
      BY <1>3, <1>5, Zenon
    <3>3. ol = p + 3 + t
      BY <1>0, <1>2, Zenon
    <3>4. c = b + (4 + fl)
      BY <3>1, <3>2, Zenon
    <3>5. b \in Nat /\ c \in Nat /\ t \in Nat /\ c <= t
      <4>1. n \in 0..n
        BY <1>2
      <4> QED BY <1>2, <1>6, <4>1
    <3> QED BY <1>0, <3>3, <3>4, <3>5
  <2>2. fl \in 1..255
    BY <1>5
  <2> HIDE DEF a, b, c, t, ol, fl
  <2>3. a \in Nat /\ a >= 1 /\ ol \in Nat
    BY <1>0, <2>1
  <2>4. a + 3 <= ol
    BY <1>0, <2>1, <2>2
  <2> QED BY <2>3, <2>4
<1>8. OccursAt(o, a, bis) /\ OccursAt(o, a + 4, f)
  <2>1. OccursAt(o, p + 4, Joint(parts)) /\ p + 4 \in Nat
    BY <1>0 DEF SourceAt
  <2>2. \A i \in 1..n : OccursAt(o, (p + 4) + len[i - 1], parts[i])
    <3> HIDE DEF parts
    <3>1. Lengths(parts, n, joined, len)
      BY DEF parts
    <3> QED BY <1>0, <1>1, <2>1, <3>1, JointOccurs
  <2>3. OccursAt(o, a, parts[k])
    BY <2>2, Zenon
  <2>4. OccursAt(o, a, bis \o f)
    BY <1>3, <2>3, Zenon DEF Taken
  <2> HIDE DEF a, bis, f
  <2>5. OccursAt(o, a, bis) /\ OccursAt(o, a + Len(bis), f)
    BY <1>0, <1>3, <1>5, <1>7, <2>4, PartsOccur
  <2> QED BY <1>3, <2>5, Zenon
<1>9. SubSeq(o, a, a + 3) = bis
  <2>1. \A i \in 1..Len(bis) : At(o, a + i - 1) = bis[i]
    BY <1>8, Zenon DEF OccursAt
  <2> DEFINE s == SubSeq(o, a, a + 3)
  <2>2. DOMAIN o = 1..ol
    BY <1>0 DEF Bytes
  <2>3. bis \in Seq(Nat) /\ DOMAIN bis = 1..4 /\ bis = [i \in 1..4 |-> bis[i]]
    <3>1. bis \in Seq(Nat) /\ Len(bis) = 4
      BY <1>3 DEF Bytes
    <3> HIDE DEF bis
    <3> QED BY <3>1
  <2> HIDE DEF a, bis, ol
  <2>4. \A i \in 1..4 : a + i - 1 \in 1..ol
    BY <1>7
  <2>5. s = [i \in 1..4 |-> o[a + i - 1]]
    <3> DEFINE z == a + 3
    <3>1. z \in Nat /\ a <= z /\ z <= ol /\ z - a + 1 = 4
      BY <1>7
    <3>2. o \in Seq(Nat) /\ ol = Len(o)
      BY <1>0 DEF Bytes, ol
    <3> HIDE DEF z
    <3>3. /\ SubSeq(o, a, z) \in Seq(Nat) /\ Len(SubSeq(o, a, z)) = z - a + 1
          /\ \A i \in 1..(z - a + 1) : SubSeq(o, a, z)[i] = o[a + i - 1]
      <4>1. a \in Nat /\ a >= 1 /\ z \in Nat /\ a <= z /\ z <= Len(o) /\ z - a + 1 = 4 /\ o \in Seq(Nat)
        BY <1>7, <3>1, <3>2
      <4> QED BY <4>1, SMTT(30)
    <3>4. s = SubSeq(o, a, z)
      BY DEF z
    <3> HIDE DEF s
    <3>5. s \in Seq(Nat) /\ Len(s) = 4 /\ \A i \in 1..4 : s[i] = o[a + i - 1]
      BY <3>1, <3>3, <3>4
    <3>6. s = [i \in 1..4 |-> s[i]]
      BY <3>5
    <3> QED BY <3>5, <3>6
  <2>6. \A i \in 1..4 : o[a + i - 1] = bis[i]
    <3>1. \A i \in 1..4 : At(o, a + i - 1) = bis[i]
      BY <1>3, <2>1
    <3>2. \A i \in 1..4 : At(o, a + i - 1) = o[a + i - 1]
      BY <2>2, <2>4 DEF At
    <3> QED BY <3>1, <3>2
  <2>7. [i \in 1..4 |-> o[a + i - 1]] = [i \in 1..4 |-> bis[i]]
    BY <2>6
  <2> QED BY <2>3, <2>5, <2>7
<1>10. At(o, a + 4) = fl - 1 /\ Occurs(o, a + 5, f)
  <2>1. a + 4 \in Nat /\ (a + 4) + 1 = a + 5
    <3> HIDE DEF a
    <3> QED BY <1>7
  <2>2. Len(f) >= 1
    <3> HIDE DEF f
    <3> QED BY <1>5
  <2> HIDE DEF a, f
  <2>3. At(o, a + 4) = f[1] /\ Occurs(o, (a + 4) + 1, f)
    BY <1>0, <1>5, <1>8, <2>1, <2>2, LengthOccurs
  <2> QED BY <1>5, <2>1, <2>3, Zenon
<1>11. ASSUME NEW m \in Contexts
       PROVE  LET read == ReadMetadata(o, a + 5, At(o, a + 4), m)
              IN /\ Says(g.metadata, 1, read.preferred_audio_ctx)
                 /\ Says(g.metadata, 2, read.streaming_audio_ctx)
  <2> DEFINE read == ReadMetadata(o, a + 5, At(o, a + 4), m)
             entries == g.metadata
  <2>1. a + 5 \in Nat
    <3> HIDE DEF a
    <3> QED BY <1>7
  <2>2. read = ReadMetadata(o, a + 5, Len(Filled(entries, 255)) - 1, m)
    BY <1>10, Zenon
  <2>3. ContextsFirst(entries) /\ NamedOnce(entries) /\ Occurs(o, a + 5, Filled(entries, 255))
    BY <1>3, <1>4, <1>10
  <2> HIDE DEF a, read, entries
  <2>4. /\ read \in Contexts
        /\ read.preferred_audio_ctx = LastOf(entries, 1, m.preferred_audio_ctx)
        /\ read.streaming_audio_ctx = LastOf(entries, 2, m.streaming_audio_ctx)
    BY <1>0, <1>11, <2>1, <2>2, <2>3, ContextsReadAt
  <2>5. /\ Says(entries, 1, LastOf(entries, 1, m.preferred_audio_ctx))
        /\ Says(entries, 2, LastOf(entries, 2, m.streaming_audio_ctx))
    BY <2>3, SaysLast
  <2>6. Says(entries, 1, read.preferred_audio_ctx) /\ Says(entries, 2, read.streaming_audio_ctx)
    BY <2>4, <2>5, Zenon
  <2> QED BY <2>4, <2>6, Zenon DEF read, entries
<1> QED
  BY <1>9, <1>11, Zenon DEF ReadsGroup

LEMMA NothingFilled ==
  /\ Filled(<<>>, 255) = <<0>>
  /\ Filled(<<>>, 255) \in Bytes /\ Len(Filled(<<>>, 255)) = 1
<1> DEFINE none == <<>>
           m == Len(none)
<1>1. none \in Seq(Entries) /\ m = 0 /\ 255 \in Int
  OBVIOUS
<1> HIDE DEF none
<1>0. \E body \in [0..Len(none) -> Bytes] :
        /\ Filled(none, 255) = <<Len(body[Len(none)])>> \o body[Len(none)]
        /\ body[0] = <<>>
        /\ \A k \in 1..Len(none) :
             body[k] = body[k - 1] \o Ltv(255 - 1 - Len(body[k - 1]), none[k])
  BY <1>1, FilledIs, ZenonT(30)
<1>2. PICK body \in [0..m -> Bytes] :
        Filled(none, 255) = <<Len(body[m])>> \o body[m] /\ body[0] = <<>>
  BY <1>0, ZenonT(30)
<1>3. Filled(none, 255) = <<Len(<<>>)>> \o <<>>
  BY <1>1, <1>2, Zenon
<1>4. <<Len(<<>>)>> \o <<>> = <<0>> /\ <<0>> \in Bytes /\ Len(<<0>>) = 1
  BY DEF Bytes
<1> QED
  BY <1>3, <1>4, Zenon DEF none

Simple(groups) == \A i \in DOMAIN groups : i < Len(groups) => groups[i].metadata = <<>>

\* Without metadata a subgroup takes five bytes
LEMMA SimpleLengths ==
  ASSUME NEW groups, TakenGroups(groups), Simple(groups),
         NEW n, NEW joined, NEW len, Lengths(TakenParts(groups), n, joined, len)
  PROVE  \A k \in 1..n : len[k - 1] = 5 * (k - 1)
<1> DEFINE parts == TakenParts(groups)
           H == {k \in Nat : k < n => len[k] = 5 * k}
<1>1. /\ Len(parts) = Len(groups)
      /\ \A i \in 1..Len(groups) : parts[i] = Taken(groups[i]) /\ groups[i].bis \in Bytes /\ Len(groups[i].bis) = 4
      /\ groups \in Seq([bis: Bytes, metadata: Seq(Entries)])
  BY TakenPartsAre, Zenon DEF TakenGroups
<1>2. /\ n \in Nat /\ n = Len(parts) /\ len \in [0..n -> Nat] /\ len[0] = 0
      /\ \A i \in 1..n : len[i] = len[i - 1] + Len(parts[i])
  BY Zenon DEF Lengths
<1>3. DOMAIN groups = 1..n /\ n = Len(groups)
  BY <1>1, <1>2
<1>4. ASSUME NEW k \in 1..n, k < n
      PROVE  Len(parts[k]) = 5
  <2> DEFINE f == Filled(<<>>, 255)
             bis == groups[k].bis
  <2>1. groups[k].metadata = <<>>
    BY <1>3, <1>4 DEF Simple
  <2>2. parts[k] = bis \o f /\ bis \in Bytes /\ Len(bis) = 4
    <3>1. k \in 1..Len(groups)
      BY <1>3
    <3>2. parts[k] = Taken(groups[k]) /\ bis \in Bytes /\ Len(bis) = 4
      BY <1>1, <3>1, Zenon
    <3> QED BY <2>1, <3>2, Zenon DEF Taken
  <2>3. f \in Bytes /\ Len(f) = 1
    BY NothingFilled
  <2> HIDE DEF f, bis
  <2>4. Len(bis \o f) = Len(bis) + Len(f)
    BY <2>2, <2>3, Joined
  <2>5. 4 + 1 = 5
    OBVIOUS
  <2> QED BY <2>2, <2>3, <2>4, <2>5, Zenon
<1> HIDE DEF parts
<1>5. 0 \in H
  BY <1>2
<1>6. ASSUME NEW k \in Nat, k \in H
      PROVE  k + 1 \in H
  <2> SUFFICES ASSUME k + 1 < n
               PROVE  len[k + 1] = 5 * (k + 1)
    OBVIOUS
  <2>1. k + 1 \in 1..n /\ (k + 1) - 1 = k /\ k < n
    BY <1>2
  <2>2. len[k + 1] = len[(k + 1) - 1] + Len(parts[k + 1])
    BY <1>2, <2>1
  <2>3. len[k] = 5 * k /\ Len(parts[k + 1]) = 5
    BY <1>4, <1>6, <2>1
  <2>4. len[k + 1] = 5 * k + 5
    BY <2>1, <2>2, <2>3, Zenon
  <2> QED BY <2>4
<1>7. \A k \in Nat : k \in H
  <2> HIDE DEF H
  <2> QED BY <1>5, <1>6, Inductive
<1> QED
  <2>1. \A k \in 1..n : k - 1 \in Nat /\ k - 1 < n
    BY <1>2
  <2> QED BY <1>7, <2>1

\* The operation the parser fills has these fields, and contexts in every subgroup
OpFields ==
  {"opcode", "source_id", "from", "adv_sid", "broadcast_id", "pa_sync_param", "num_subgroup",
   "sub_group_data", "layout"}

IsOp(op) ==
  /\ DOMAIN op = OpFields
  /\ \A i \in GroupIndexes : op.sub_group_data[i].meta_data \in Contexts

\* What is before the parameters that all sources have
SameHead(new, op) ==
  /\ new.opcode = op.opcode /\ new.from = op.from /\ new.adv_sid = op.adv_sid
  /\ new.broadcast_id = op.broadcast_id

Distinct(groups) ==
  \A i, j \in DOMAIN groups : i # j => BisesOf(groups[i].bis) # BisesOf(groups[j].bis)

LEMMA MetadataTyped ==
  ASSUME NEW s \in Bytes, NEW i \in Nat, NEW left \in Nat, NEW m \in Contexts
  PROVE  ReadMetadata(s, i, left, m) \in Contexts
<1>1. PICK after \in [0..left -> ContextRounds] :
        /\ ReadMetadata(s, i, left, m) = after[left].read
        /\ after[0] = [i |-> i, left |-> left, read |-> m]
        /\ \A k \in 1..left : after[k] = MetadataRound(s, after[k - 1])
  BY MetadataIs
<1>2. after[left] \in ContextRounds
  OBVIOUS
<1> QED
  BY <1>1, <1>2 DEF ContextRounds

\* All groups of a source, wherever those before end
LEMMA GroupsAt ==
  ASSUME NEW w, NEW o, NEW p, SourceStands(w, o, p)
  PROVE  \E len : /\ len[0] = 0
                  /\ \A k \in 1..Len(w.groups) : ReadsGroup(o, p + 4 + len[k - 1], w.groups[k])
                  /\ Simple(w.groups) => \A k \in 1..Len(w.groups) : len[k - 1] = 5 * (k - 1)
<1> DEFINE parts == TakenParts(w.groups)
<1>1. TakenGroups(w.groups)
  BY Zenon DEF SourceStands
<1>2. parts \in Seq(Bytes) /\ Len(parts) = Len(w.groups)
  BY <1>1, TakenPartsAre
<1>3. PICK n, joined, len : Lengths(parts, n, joined, len)
  <2> HIDE DEF parts
  <2> QED BY <1>2, LengthsAre
<1>4. n = Len(parts) /\ len[0] = 0
  BY <1>3, Zenon DEF Lengths
<1>5. \A k \in 1..n : ReadsGroup(o, p + 4 + len[k - 1], w.groups[k])
  BY <1>3, GroupAt
<1>6. Simple(w.groups) => \A k \in 1..n : len[k - 1] = 5 * (k - 1)
  BY <1>1, <1>3, SimpleLengths
<1> QED
  BY <1>2, <1>4, <1>5, <1>6, Zenon

\* What the parser makes of the parameters all sources have, into op
SourceInto(r, op, w) ==
  /\ IsOp(r.op) /\ SameHead(r.op, op)
  /\ r.op.pa_sync_param = w.pa /\ r.op.num_subgroup = Len(w.groups)
  /\ r.ok \in BOOLEAN /\ (r.ok => w.pa <= 2)
  /\ (w.pa <= 2 /\ w.groups # <<>>) => r.op.sub_group_data[1].bis_sync_state = w.groups[1].bis
  /\ Simple(w.groups) => (r.ok <=> w.pa <= 2 /\ Distinct(w.groups))
  /\ (Simple(w.groups) /\ r.ok) =>
       \A i \in DOMAIN w.groups \cap GroupIndexes :
         LET g == r.op.sub_group_data[i]
         IN /\ g.bis_sync_state = w.groups[i].bis
            /\ Says(w.groups[i].metadata, 1, g.meta_data.preferred_audio_ctx)
            /\ Says(w.groups[i].metadata, 2, g.meta_data.streaming_audio_ctx)

LEMMA SourceRead ==
  ASSUME NEW w, NEW o, NEW p, SourceStands(w, o, p), NEW op, IsOp(op)
  PROVE  SourceInto(ReadSource(op, o, p), op, w)
<1> DEFINE r == ReadSource(op, o, p)
           n == At(o, p + 3)
           read == 1..(IF n < MaxSubgroups THEN n ELSE MaxSubgroups)
           at(i) == p + 4 + 5 * (i - 1)
           bis(i) == SubSeq(o, at(i), at(i) + 3)
           again == {i \in read : \E j \in 1..(i - 1) : BisesOf(bis(i)) = BisesOf(bis(j))}
           meta(i) == ReadMetadata(o, at(i) + 5, At(o, at(i) + 4), op.sub_group_data[i].meta_data)
           group(i) == Group(bis(i), meta(i))
           new == [op EXCEPT !.pa_sync_param = At(o, p), !.num_subgroup = n]
           data == [i \in GroupIndexes |->
                      IF i \notin read \/ (\E j \in again : j < i) THEN new.sub_group_data[i]
                      ELSE IF i \in again THEN Group(bis(i), new.sub_group_data[i].meta_data)
                      ELSE group(i)]
           whole == [new EXCEPT !.sub_group_data = data]
           groups == w.groups
<1>0. TakenGroups(groups) /\ w.pa \in Nat /\ o \in Bytes /\ p \in Nat /\ SourceAt(o, p, w)
  BY Zenon DEF SourceStands
<1>1. r = IF At(o, p) > 2 THEN [ok |-> FALSE, op |-> new] ELSE [ok |-> again = {}, op |-> whole]
  BY DEF ReadSource
<1>2. At(o, p) = w.pa /\ n = Len(groups)
  BY <1>0, Zenon DEF SourceAt
<1>3. MaxSubgroups \in Nat /\ MaxSubgroups >= 1 /\ GroupIndexes = 1..MaxSubgroups
  BY ScanConstants DEF GroupIndexes
<1>4. PICK len : /\ len[0] = 0
                 /\ \A k \in 1..Len(groups) : ReadsGroup(o, p + 4 + len[k - 1], groups[k])
                 /\ Simple(groups) => \A k \in 1..Len(groups) : len[k - 1] = 5 * (k - 1)
  BY GroupsAt, ZenonT(60)
<1>5. n \in Nat /\ len[0] = 0 /\ DOMAIN groups = 1..n
  <2>1. groups \in Seq([bis: Bytes, metadata: Seq(Entries)])
    BY <1>0, Zenon DEF TakenGroups
  <2>2. DOMAIN groups = 1..Len(groups) /\ Len(groups) \in Nat
    BY <2>1
  <2> QED BY <1>2, <1>4, <2>2, Zenon
<1> HIDE DEF r, n, meta
<1>6. \A i \in read : i \in GroupIndexes /\ i \in 1..n
  BY <1>3, <1>5
<1>7. /\ DOMAIN new = OpFields /\ new.sub_group_data = op.sub_group_data
      /\ SameHead(new, op) /\ new.pa_sync_param = w.pa /\ new.num_subgroup = Len(groups)
  BY <1>2 DEF IsOp, OpFields, SameHead
<1> HIDE DEF new
<1>8. /\ DOMAIN whole = OpFields /\ whole.sub_group_data = data
      /\ SameHead(whole, op) /\ whole.pa_sync_param = w.pa /\ whole.num_subgroup = Len(groups)
  <2> HIDE DEF data
  <2> QED BY <1>7 DEF OpFields, SameHead
<1> HIDE DEF whole
<1>9. ASSUME NEW i \in GroupIndexes
      PROVE  meta(i) \in Contexts
  <2> DEFINE a == at(i)
             old == op.sub_group_data[i].meta_data
  <2>1. a \in Nat /\ a + 5 \in Nat /\ a + 4 \in Int
    BY <1>0, <1>3
  <2>2. old \in Contexts
    BY Zenon DEF IsOp
  <2> HIDE DEF a, old
  <2> DEFINE left == At(o, a + 4)
             start == a + 5
  <2>3. left \in Nat
    BY <1>0, <2>1, AtIs
  <2>4. start \in Nat
    BY <2>1
  <2>5. meta(i) = ReadMetadata(o, start, left, old)
    BY DEF meta, a, old
  <2> HIDE DEF left, start
  <2>6. ReadMetadata(o, start, left, old) \in Contexts
    BY <1>0, <2>2, <2>3, <2>4, MetadataTyped, Zenon
  <2> QED BY <2>5, <2>6
<1>10. ASSUME NEW i \in GroupIndexes
       PROVE  data[i].meta_data \in Contexts
  <2>1. new.sub_group_data[i].meta_data \in Contexts
    BY <1>7 DEF IsOp
  <2>2. data[i] \in {new.sub_group_data[i], Group(bis(i), new.sub_group_data[i].meta_data), group(i)}
    <3> HIDE DEF bis, again, group, read
    <3> QED OBVIOUS
  <2>3. Group(bis(i), new.sub_group_data[i].meta_data).meta_data = new.sub_group_data[i].meta_data
        /\ group(i).meta_data = meta(i)
    BY DEF Group
  <2> HIDE DEF data, group
  <2> QED BY <1>9, <2>1, <2>2, <2>3
<1>11. IsOp(new) /\ IsOp(whole)
  <2> HIDE DEF data
  <2> QED BY <1>7, <1>8, <1>10 DEF IsOp
<1>12. /\ w.pa > 2 => r.ok = FALSE /\ r.op = new
       /\ ~(w.pa > 2) => r.op = whole /\ (r.ok <=> again = {}) /\ r.ok \in BOOLEAN
  <2> HIDE DEF again
  <2> QED BY <1>1, <1>2
<1>13. \A k \in 1..n :
         LET a == p + 4 + len[k - 1]
         IN /\ SubSeq(o, a, a + 3) = groups[k].bis
            /\ \A c \in Contexts :
                 LET rd == ReadMetadata(o, a + 5, At(o, a + 4), c)
                 IN /\ Says(groups[k].metadata, 1, rd.preferred_audio_ctx)
                    /\ Says(groups[k].metadata, 2, rd.streaming_audio_ctx)
  <2>1. \A k \in 1..n : ReadsGroup(o, p + 4 + len[k - 1], groups[k])
    BY <1>2, <1>4
  <2> QED BY <2>1, Zenon DEF ReadsGroup
<1>14. ASSUME groups # <<>>
       PROVE  1 \in read /\ 1 \notin again /\ bis(1) = groups[1].bis
  <2>1. n >= 1 /\ n \in Nat
    BY <1>2, <1>5, <1>14
  <2>2. 1 \in read /\ 1 \in 1..n
    BY <1>3, <2>1
  <2>3. 1 \notin again
    <3> HIDE DEF bis
    <3> QED OBVIOUS
  <2>4. p + 4 + len[1 - 1] = at(1)
    <3>1. p + 4 + 0 = p + 4 + 5 * (1 - 1) /\ 1 - 1 = 0
      BY <1>0
    <3> QED BY <1>5, <3>1
  <2>5. SubSeq(o, p + 4 + len[1 - 1], p + 4 + len[1 - 1] + 3) = groups[1].bis
    BY <1>13, <2>2
  <2>6. bis(1) = groups[1].bis
    BY <2>4, <2>5, Zenon
  <2> QED BY <2>2, <2>3, <2>6
<1>15. ASSUME w.pa <= 2, groups # <<>>
       PROVE  r.op.sub_group_data[1].bis_sync_state = groups[1].bis
  <2>1. r.op = whole /\ 1 \in GroupIndexes
    BY <1>0, <1>3, <1>12, <1>15
  <2>2. \A j \in again : ~(j < 1)
    <3> HIDE DEF bis
    <3>1. \A j \in again : j \in 1..MaxSubgroups \/ j \in 1..n
      OBVIOUS
    <3> QED BY <1>3, <1>5, <3>1
  <2>3. data[1] = group(1)
    <3> HIDE DEF bis, again, group, read
    <3> QED BY <1>14, <1>15, <2>1, <2>2
  <2>4. group(1).bis_sync_state = bis(1)
    BY DEF Group
  <2> HIDE DEF data, group, bis
  <2> QED BY <1>8, <1>14, <1>15, <2>1, <2>3, <2>4
<1>16. ASSUME Simple(groups), NEW k \in 1..n
       PROVE  bis(k) = groups[k].bis /\ p + 4 + len[k - 1] = at(k)
  <2>1. len[k - 1] = 5 * (k - 1)
    BY <1>2, <1>4, <1>16
  <2>2. p + 4 + len[k - 1] = at(k)
    BY <2>1
  <2> QED BY <1>13, <2>2
<1>17. ASSUME Simple(groups)
       PROVE  again = {} <=> Distinct(groups)
  <2>1. ASSUME Distinct(groups), NEW i \in again
        PROVE  FALSE
    <3>1. PICK j \in 1..(i - 1) : BisesOf(bis(i)) = BisesOf(bis(j))
      <4> HIDE DEF bis
      <4> QED OBVIOUS
    <3>2. i \in 1..n /\ j \in 1..n /\ i # j
      <4>1. i \in read
        OBVIOUS
      <4>2. i \in 1..n
        BY <1>6, <4>1
      <4> QED BY <1>5, <4>2
    <3>3. bis(i) = groups[i].bis /\ bis(j) = groups[j].bis
      BY <1>16, <1>17, <3>2
    <3> QED BY <1>5, <2>1, <3>1, <3>2, <3>3, Zenon DEF Distinct
  <2>2. ASSUME again = {}, NEW i \in 1..n, NEW j \in 1..n, j < i, BisesOf(groups[i].bis) = BisesOf(groups[j].bis)
        PROVE  FALSE
    <3>1. j \in 1..(i - 1)
      BY <1>5, <2>2
    <3>2. bis(i) = groups[i].bis /\ bis(j) = groups[j].bis
      BY <1>16, <1>17
    <3>3. CASE i <= MaxSubgroups
      <4>1. i \in read
        BY <1>3, <1>5, <3>3
      <4>2. BisesOf(bis(i)) = BisesOf(bis(j))
        BY <2>2, <3>2
      <4>3. i \in again
        <5> HIDE DEF bis
        <5> QED BY <3>1, <4>1, <4>2
      <4> QED BY <2>2, <4>3
    <3>4. CASE i > MaxSubgroups
      <4>1. BisesOf(groups[j].bis) # BisesOf(groups[i].bis)
        BY <1>0, <1>2, <3>1, <3>4, Zenon DEF TakenGroups
      <4> QED BY <2>2, <4>1
    <3> QED BY <1>3, <1>5, <3>3, <3>4
  <2>3. ASSUME again = {}
        PROVE  Distinct(groups)
    <3> SUFFICES ASSUME NEW i \in 1..n, NEW j \in 1..n, i # j, BisesOf(groups[i].bis) = BisesOf(groups[j].bis)
                 PROVE  FALSE
      BY <1>5 DEF Distinct
    <3>1. i < j \/ j < i
      BY <1>5
    <3> HIDE DEF again
    <3> QED BY <2>2, <2>3, <3>1
  <2> HIDE DEF again
  <2> QED BY <2>1, <2>3
<1>18. ASSUME Simple(groups), r.ok, NEW i \in DOMAIN groups \cap GroupIndexes
       PROVE  LET g == r.op.sub_group_data[i]
              IN /\ g.bis_sync_state = groups[i].bis
                 /\ Says(groups[i].metadata, 1, g.meta_data.preferred_audio_ctx)
                 /\ Says(groups[i].metadata, 2, g.meta_data.streaming_audio_ctx)
  <2>1. ~(w.pa > 2) /\ r.op = whole /\ again = {}
    <3> HIDE DEF again
    <3> QED BY <1>12, <1>18
  <2>2. i \in 1..n /\ i \in GroupIndexes /\ i \in read
    BY <1>3, <1>5
  <2>3. data[i] = group(i)
    <3>1. i \notin again /\ ~\E j \in again : j < i
      <4> HIDE DEF again
      <4> QED BY <2>1
    <3> HIDE DEF bis, again, group, read
    <3> QED BY <2>2, <3>1
  <2>4. group(i).bis_sync_state = bis(i) /\ group(i).meta_data = meta(i)
    BY DEF Group
  <2>5. bis(i) = groups[i].bis /\ p + 4 + len[i - 1] = at(i)
    BY <1>16, <1>18, <2>2
  <2>6. op.sub_group_data[i].meta_data \in Contexts
    BY <2>2 DEF IsOp
  <2>7. /\ Says(groups[i].metadata, 1, meta(i).preferred_audio_ctx)
        /\ Says(groups[i].metadata, 2, meta(i).streaming_audio_ctx)
    <3> HIDE DEF at
    <3> QED BY <1>13, <2>2, <2>5, <2>6, Zenon DEF meta
  <2>8. r.op.sub_group_data[i] = group(i)
    <3> HIDE DEF data, group
    <3> QED BY <1>8, <2>1, <2>3
  <2> HIDE DEF group, bis
  <2> QED BY <2>4, <2>5, <2>7, <2>8
<1>19. w.pa <= 2 <=> ~(w.pa > 2)
  BY <1>0
<1> HIDE DEF again
<1>20. IsOp(r.op) /\ SameHead(r.op, op) /\ r.op.pa_sync_param = w.pa /\ r.op.num_subgroup = Len(groups)
  BY <1>7, <1>8, <1>11, <1>12
<1>21. r.ok \in BOOLEAN /\ (r.ok => w.pa <= 2) /\ (Simple(groups) => (r.ok <=> w.pa <= 2 /\ Distinct(groups)))
  BY <1>12, <1>17, <1>19
<1> QED
  BY <1>15, <1>18, <1>20, <1>21, Zenon DEF r, SourceInto

-----------------------------------------------------------------------------
(* The receive state of a source that was added *)

LEMMA EntriesOf ==
  ASSUME NEW m \in Contexts
  PROVE  MetadataEntries(m) \o <<>> \in Seq(Entries)
<1> DEFINE of(v, type) == IF v = 0 THEN <<>> ELSE <<[type |-> type, value |-> Two(v)]>>
<1>1. ASSUME NEW v \in Nat, NEW type \in {1, 2}
      PROVE  of(v, type) \in Seq(Entries)
  <2>1. Two(v) \in Bytes
    BY TwoIs
  <2>2. [type |-> type, value |-> Two(v)] \in Entries
    <3> DEFINE two == Two(v)
    <3> HIDE DEF two
    <3>1. two \in Bytes /\ type \in Nat
      BY <2>1 DEF two
    <3>2. [type |-> type, value |-> two] \in Entries
      BY <3>1 DEF Entries
    <3> QED BY <3>2 DEF two
  <2> DEFINE entry == [type |-> type, value |-> Two(v)]
  <2>3. entry \in Entries
    BY <2>2
  <2> HIDE DEF entry
  <2>4. <<entry>> \in Seq(Entries) /\ <<>> \in Seq(Entries)
    BY <2>3
  <2> QED BY <2>4 DEF entry
<1> DEFINE a == of(m.preferred_audio_ctx, 1)
           b == of(m.streaming_audio_ctx, 2)
<1>2. m.preferred_audio_ctx \in Nat /\ m.streaming_audio_ctx \in Nat
  BY DEF Contexts
<1> HIDE DEF of
<1>3. a \in Seq(Entries) /\ b \in Seq(Entries)
  BY <1>1, <1>2
<1>4. MetadataEntries(m) = a \o b
  BY Zenon DEF MetadataEntries, of
<1> HIDE DEF a, b
<1>5. a \o b \in Seq(Entries) /\ <<>> \in Seq(Entries)
  BY <1>3
<1> DEFINE all == a \o b
<1>6. all \in Seq(Entries)
  BY <1>5
<1> HIDE DEF all
<1>7. all \o <<>> \in Seq(Entries)
  BY <1>6
<1> QED
  BY <1>4, <1>7 DEF all

\* Whatever fits, the first byte is the number of those behind it
LEMMA FilledLength ==
  ASSUME NEW entries \in Seq(Entries)
  PROVE  LET f == Filled(entries, 255)
         IN f \in Bytes /\ Len(f) \in Nat /\ Len(f) >= 1 /\ f[1] = Len(f) - 1
<1> DEFINE f == Filled(entries, 255)
<1>1. PICK n \in Nat : n = Len(entries)
  OBVIOUS
<1>2. PICK body \in [0..Len(entries) -> Bytes] :
        /\ f = <<Len(body[Len(entries)])>> \o body[Len(entries)]
        /\ body[0] = <<>>
        /\ \A k \in 1..Len(entries) :
             body[k] = body[k - 1] \o Ltv(255 - 1 - Len(body[k - 1]), entries[k])
  <2>1. 255 \in Int
    OBVIOUS
  <2> HIDE DEF f
  <2> QED BY <2>1, FilledIs DEF f
<1> DEFINE b == body[n]
           v == Len(b)
<1>3. b \in Bytes /\ f = <<v>> \o b
  <2>1. n \in 0..Len(entries)
    BY <1>1
  <2> HIDE DEF f
  <2>2. body[n] \in Bytes
    BY <1>2, <2>1
  <2>3. f = <<Len(body[n])>> \o body[n]
    BY <1>1, <1>2, Zenon
  <2> QED BY <2>2, <2>3
<1> HIDE DEF b, f
<1>4. v \in Nat
  BY <1>3 DEF Bytes
<1>5. f \in Bytes /\ Len(f) = 1 + v /\ f[1] = v
  <2>1. /\ <<v>> \o b \in Bytes /\ Len(<<v>> \o b) = 1 + Len(b) /\ (<<v>> \o b)[1] = v
    <3> HIDE DEF v
    <3> QED BY <1>3, <1>4, BehindByte
  <2> QED BY <1>3, <2>1, Zenon
<1> HIDE DEF v
<1>6. 1 + v \in Nat /\ 1 + v >= 1 /\ v = (1 + v) - 1
  BY <1>4
<1> QED
  BY <1>5, <1>6, Zenon DEF f

LEMMA BehindFour ==
  ASSUME NEW b \in Bytes, Len(b) = 4, NEW f \in Bytes, Len(f) >= 1, f[1] = Len(f) - 1
  PROVE  b \o f \in Bytes /\ Len(b \o f) >= 5 /\ (b \o f)[5] = Len(b \o f) - 5
<1> DEFINE fl == Len(f)
<1>1. fl \in Nat
  BY DEF Bytes
<1>2. /\ b \o f \in Bytes /\ Len(b \o f) = 4 + fl
      /\ \A j \in 1..fl : (b \o f)[4 + j] = f[j]
  <2>1. /\ b \o f \in Bytes /\ Len(b \o f) = Len(b) + Len(f)
        /\ \A j \in 1..Len(f) : (b \o f)[Len(b) + j] = f[j]
    BY Joined
  <2> QED BY <2>1, Zenon
<1>3. fl >= 1 /\ f[1] = fl - 1
  OBVIOUS
<1> HIDE DEF fl
<1>4. 1 \in 1..fl /\ 4 + 1 = 5
  BY <1>1, <1>3
<1>5. (b \o f)[5] = fl - 1
  BY <1>2, <1>3, <1>4
<1>6. 4 + fl >= 5 /\ fl - 1 = (4 + fl) - 5
  BY <1>1, <1>3
<1> QED
  BY <1>2, <1>5, <1>6, Zenon

\* A part of a stream is what stands there
StandsFrom(o, t, a, z) ==
  /\ o \in Bytes /\ t \in Bytes /\ a \in Nat /\ a >= 1 /\ OccursAt(o, a, t)
  /\ z \in Nat /\ z = a + Len(t) - 1 /\ Len(t) >= 1 /\ z <= Len(o)

LEMMA SubSeqIs ==
  ASSUME NEW o, NEW t, NEW a, NEW z, StandsFrom(o, t, a, z)
  PROVE  SubSeq(o, a, z) = t
<1> DEFINE n == Len(t)
           ol == Len(o)
           s == SubSeq(o, a, z)
<1>0. /\ o \in Bytes /\ t \in Bytes /\ a \in Nat /\ a >= 1 /\ OccursAt(o, a, t)
      /\ z \in Nat /\ z = a + n - 1 /\ n >= 1 /\ z <= ol
  BY Zenon DEF StandsFrom
<1>1. n \in Nat /\ ol \in Nat /\ DOMAIN o = 1..ol /\ t \in Seq(Nat) /\ o \in Seq(Nat)
  BY <1>0 DEF Bytes
<1>2. z = a + n - 1 /\ n >= 1 /\ z <= ol
  BY <1>0
<1>3. \A i \in 1..n : At(o, a + i - 1) = t[i]
  BY <1>0, Zenon DEF OccursAt
<1>4. t = [i \in 1..n |-> t[i]]
  BY <1>1
<1> HIDE DEF n, ol
<1>5. z - a + 1 = n /\ a <= z /\ \A i \in 1..n : a + i - 1 \in 1..ol
  BY <1>0, <1>1, <1>2
<1>6. \A i \in 1..n : o[a + i - 1] = t[i]
  BY <1>1, <1>3, <1>5 DEF At
<1>7. /\ s \in Seq(Nat) /\ Len(s) = z - a + 1
      /\ \A i \in 1..(z - a + 1) : s[i] = o[a + i - 1]
  BY <1>0, <1>1, <1>2, <1>5, SMTT(30) DEF ol
<1> HIDE DEF s
<1>8. s \in Seq(Nat) /\ Len(s) = n /\ \A i \in 1..n : s[i] = t[i]
  BY <1>5, <1>6, <1>7
<1>9. s = [i \in 1..n |-> s[i]]
  BY <1>8
<1>10. [i \in 1..n |-> s[i]] = [i \in 1..n |-> t[i]]
  BY <1>8
<1> QED
  BY <1>4, <1>9, <1>10 DEF s

\* What of the operation the receive state is filled with
IsSource(op, w) ==
  /\ op.from = w.from /\ op.adv_sid = w.adv_sid /\ op.broadcast_id = w.broadcast_id
  /\ op.num_subgroup = Len(w.groups)
  /\ w.groups # <<>> => op.sub_group_data[1].bis_sync_state = w.groups[1].bis

LEMMA ReceiveStateIs ==
  ASSUME NEW w, AsProfile(w), w.opcode = AddSourceOp, NEW op, IsOp(op), IsSource(op, w),
         Len(w.groups) <= MaxSubgroups, NEW behind
  PROVE  LET s == BuildReceiveState(SourceAdded(op), behind)
         IN /\ SubSeq(s, 1, 12) = <<0>> \o w.from \o <<w.adv_sid>> \o w.broadcast_id
            /\ SubgroupsFit(s, 15) /\ s[15] = Len(w.groups)
<1> DEFINE r == SourceAdded(op)
           n == Len(w.groups)
           meta(i) == IF i \in GroupIndexes /\ i <= n THEN op.sub_group_data[i].meta_data ELSE NoMetadata
           group(i) == r.sub_group[i]
           part(i) == group(i).bis_sync_state \o FillMetadata(group(i).meta_data, <<>>, 255)
           parts == [i \in 1..n |-> part(i)]
           flat == FlattenSeq(parts)
           f == w.from
           b == w.broadcast_id
           zero == <<0>>
           sid == <<w.adv_sid>>
           three == <<0, 0, n>>
           zf == zero \o f
           zfs == zf \o sid
           head == zfs \o b
           front == head \o three
           s == front \o flat
<1>1. /\ f \in Bytes /\ Len(f) = 7 /\ w.adv_sid \in Nat /\ b \in Bytes /\ Len(b) = 3
      /\ TakenGroups(w.groups) /\ ~(f = NoFrom /\ b = NoBroadcast)
  BY Zenon DEF AsProfile, HasSource
<1>2. n \in Nat
  BY <1>1, TakenPartsAre
<1>3. /\ r.from = f /\ r.adv_sid = w.adv_sid /\ r.broadcast_id = b /\ r.num_subgroup = n /\ r.code = FALSE
      /\ r.sub_group = [i \in GroupIndexes |->
           Group(NoBises, IF i <= n THEN op.sub_group_data[i].meta_data ELSE NoMetadata)]
  <2>1. /\ op.from = f /\ op.adv_sid = w.adv_sid /\ op.broadcast_id = b /\ op.num_subgroup = n
    BY Zenon DEF IsSource
  <2> HIDE DEF f, b, n
  <2> QED BY <2>1 DEF SourceAdded
<1>4. BuildReceiveState(r, behind) = s
  <2> HIDE DEF r, n, f, b
  <2>1. (IF r.code THEN 2 ELSE 0) = 0
    BY <1>3
  <2>2. BuildReceiveState(r, behind) = <<0>> \o r.from \o <<r.adv_sid>> \o r.broadcast_id
           \o <<0, IF r.code THEN 2 ELSE 0, r.num_subgroup>>
           \o FlattenSeq([i \in 1..r.num_subgroup |-> IF i \in GroupIndexes THEN part(i) ELSE behind])
    BY <1>1, <1>3, Zenon DEF BuildReceiveState
  <2> HIDE DEF part
  <2>3. \A i \in 1..n : i \in GroupIndexes
    BY <1>2, ScanConstants DEF GroupIndexes, n
  <2>4. [i \in 1..n |-> IF i \in GroupIndexes THEN part(i) ELSE behind] = [i \in 1..n |-> part(i)]
    BY <2>3, Zenon
  <2> QED BY <1>3, <2>1, <2>2, <2>4, Zenon
<1>5. ASSUME NEW i \in 1..n
      PROVE  meta(i) \in Contexts /\ group(i) = Group(NoBises, meta(i))
  <2>1. NoMetadata \in Contexts
    BY DEF NoMetadata, Contexts
  <2>2. \A j \in GroupIndexes : op.sub_group_data[j].meta_data \in Contexts
    BY Zenon DEF IsOp
  <2>3. meta(i) \in Contexts
    <3> HIDE DEF n
    <3> QED BY <2>1, <2>2
  <2>4. i \in GroupIndexes
    BY <1>2, ScanConstants DEF GroupIndexes
  <2>5. group(i) = Group(NoBises, meta(i))
    <3>1. i <= n
      BY <1>2
    <3>2. group(i) = Group(NoBises, IF i <= n THEN op.sub_group_data[i].meta_data ELSE NoMetadata)
      <4> HIDE DEF r, n
      <4> QED BY <1>3, <2>4
    <3>3. meta(i) = op.sub_group_data[i].meta_data
      BY <2>4, <3>1, Zenon
    <3> QED BY <3>1, <3>2, <3>3, Zenon
  <2> QED BY <2>3, <2>5
<1> HIDE DEF meta, group
<1>6. ASSUME NEW i \in 1..n
      PROVE  part(i) \in Bytes /\ Len(part(i)) >= 5 /\ part(i)[5] = Len(part(i)) - 5
  <2> DEFINE entries == MetadataEntries(meta(i)) \o <<>>
             filled == Filled(entries, 255)
  <2>1. group(i).bis_sync_state = NoBises /\ group(i).meta_data = meta(i)
    BY <1>5 DEF Group
  <2>2. part(i) = NoBises \o filled
    BY <2>1, Zenon DEF FillMetadata
  <2>3. entries \in Seq(Entries)
    BY <1>5, EntriesOf
  <2> HIDE DEF entries
  <2>4. filled \in Bytes /\ Len(filled) >= 1 /\ filled[1] = Len(filled) - 1
    BY <2>3, FilledLength
  <2>5. NoBises \in Bytes /\ Len(NoBises) = 4
    BY DEF NoBises, Bytes
  <2> DEFINE four == NoBises
  <2> HIDE DEF filled, four
  <2>6. four \in Bytes /\ Len(four) = 4 /\ part(i) = four \o filled
    BY <2>2, <2>5 DEF four
  <2>7. /\ four \o filled \in Bytes /\ Len(four \o filled) >= 5
        /\ (four \o filled)[5] = Len(four \o filled) - 5
    BY <2>4, <2>6, BehindFour
  <2> QED BY <2>6, <2>7, Zenon
<1> HIDE DEF part
<1>7. parts \in Seq(Bytes) /\ Len(parts) = n /\ \A i \in 1..n : parts[i] = part(i)
  <2> HIDE DEF n
  <2> QED BY <1>2, <1>6
<1> HIDE DEF parts
<1>8. PICK m, joined, len : Lengths(parts, m, joined, len)
  BY <1>7, LengthsAre
<1>9. /\ m = n /\ len \in [0..n -> Nat] /\ flat = Joint(parts) /\ flat \in Bytes /\ Len(flat) = len[n]
  <2>1. m = Len(parts) /\ len \in [0..m -> Nat] /\ Joint(parts) \in Bytes /\ Len(Joint(parts)) = len[m]
    BY <1>8, Zenon DEF Lengths
  <2>2. flat = Joint(parts)
    BY <1>7, FlatIsJoint
  <2> HIDE DEF flat
  <2> QED BY <1>7, <2>1, <2>2, Zenon
<1> HIDE DEF flat, r, f, b
<1>10. head \in Bytes /\ Len(head) = 12
  <2>1. zero \in Bytes /\ Len(zero) = 1 /\ sid \in Bytes /\ Len(sid) = 1
    BY <1>1 DEF Bytes
  <2> HIDE DEF zero, sid
  <2>2. zf \in Bytes /\ Len(zf) = 8
    <3>1. zf \in Bytes /\ Len(zf) = Len(zero) + Len(f)
      BY <1>1, <2>1, Joined
    <3>2. 1 + 7 = 8
      OBVIOUS
    <3> QED BY <1>1, <2>1, <3>1, <3>2, Zenon
  <2> HIDE DEF zf
  <2>3. zfs \in Bytes /\ Len(zfs) = 9
    <3>1. zfs \in Bytes /\ Len(zfs) = Len(zf) + Len(sid)
      BY <2>1, <2>2, Joined
    <3>2. 8 + 1 = 9
      OBVIOUS
    <3> QED BY <2>1, <2>2, <3>1, <3>2, Zenon
  <2> HIDE DEF zfs
  <2>4. head \in Bytes /\ Len(head) = Len(zfs) + Len(b)
    BY <1>1, <2>3, Joined
  <2>5. 9 + 3 = 12
    OBVIOUS
  <2> QED BY <1>1, <2>3, <2>4, <2>5, Zenon
<1>11. three \in Bytes /\ Len(three) = 3 /\ three[3] = n
  <2> HIDE DEF n
  <2> QED BY <1>2 DEF Bytes
<1> HIDE DEF head, three
<1>12. front \in Bytes /\ Len(front) = 15
  <2>1. front \in Bytes /\ Len(front) = Len(head) + Len(three)
    BY <1>10, <1>11, Joined
  <2>2. 12 + 3 = 15
    OBVIOUS
  <2> QED BY <1>10, <1>11, <2>1, <2>2, Zenon
<1>13. s \in Bytes /\ Len(s) = 15 + len[n]
  <2> HIDE DEF front
  <2>1. s \in Bytes /\ Len(s) = Len(front) + Len(flat)
    BY <1>9, <1>12, Joined
  <2> QED BY <1>9, <1>12, <2>1, Zenon
<1>14. OccursAt(s, 1, front) /\ OccursAt(s, 16, flat)
  <2>1. OccursAt(s, 1, front \o flat) /\ 1 \in Nat /\ 1 + 15 = 16
    <3>1. OccursAt(s, 1, s)
      <4> HIDE DEF s
      <4> QED BY <1>13, OccursItself
    <3> QED BY <3>1
  <2> HIDE DEF front, s
  <2>2. OccursAt(s, 1, front) /\ OccursAt(s, 1 + Len(front), flat)
    BY <1>9, <1>12, <2>1, PartsOccur
  <2> QED BY <1>12, <2>1, <2>2, Zenon
<1> HIDE DEF s
<1>15. OccursAt(s, 1, head) /\ OccursAt(s, 13, three)
  <2>1. OccursAt(s, 1, head \o three) /\ 1 \in Nat /\ 1 + 12 = 13
    BY <1>14
  <2>2. OccursAt(s, 1, head) /\ OccursAt(s, 1 + Len(head), three)
    BY <1>10, <1>11, <2>1, PartsOccur
  <2> QED BY <1>10, <2>1, <2>2, Zenon
<1>16. len[n] \in Nat
  BY <1>2, <1>9
<1>17. SubSeq(s, 1, 12) = head
  <2>1. 1 \in Nat /\ 12 \in Nat /\ 1 >= 1 /\ 12 = 1 + Len(head) - 1 /\ Len(head) >= 1
    BY <1>10
  <2>2. 12 <= Len(s)
    <3> DEFINE t == len[n]
    <3> HIDE DEF t
    <3>1. t \in Nat /\ Len(s) = 15 + t
      BY <1>13, <1>16 DEF t
    <3> QED BY <3>1
  <2>3. StandsFrom(s, head, 1, 12)
    BY <1>10, <1>13, <1>15, <2>1, <2>2, Zenon DEF StandsFrom
  <2> QED BY <2>3, SubSeqIs, Zenon
<1>18. At(s, 15) = n /\ s[15] = n
  <2>1. \A i \in 1..Len(three) : At(s, 13 + i - 1) = three[i]
    BY <1>15, Zenon DEF OccursAt
  <2>2. At(s, 13 + 3 - 1) = three[3] /\ 13 + 3 - 1 = 15
    <3>1. 3 \in 1..Len(three)
      BY <1>11
    <3> QED BY <2>1, <3>1
  <2>3. At(s, 15) = n
    BY <1>11, <2>2
  <2>4. 15 \in 1..Len(s)
    <3> DEFINE t == len[n]
    <3> HIDE DEF t
    <3>1. t \in Nat /\ Len(s) = 15 + t
      BY <1>13, <1>16 DEF t
    <3> QED BY <3>1
  <2>5. At(s, 15) = s[15]
    BY <1>13, <2>4, OccursItself
  <2> QED BY <2>3, <2>5
<1>19. SubgroupsFit(s, 15)
  <2>1. \A k \in 1..n : OccursAt(s, 16 + len[k - 1], parts[k])
    <3>1. 16 \in Nat /\ OccursAt(s, 16, Joint(parts))
      BY <1>9, <1>14
    <3>2. \A k \in 1..m : OccursAt(s, 16 + len[k - 1], parts[k])
      BY <1>7, <1>8, <3>1, JointOccurs
    <3> QED BY <1>9, <3>2
  <2>2. ASSUME NEW k \in 1..n
        PROVE  At(s, 15 + len[k - 1] + 5) = Len(parts[k]) - 5
    <3> DEFINE a == len[k - 1]
    <3>1. a \in Nat
      <4>1. k - 1 \in 0..n
        BY <1>2
      <4> QED BY <1>9, <4>1
    <3>2. \A i \in 1..Len(parts[k]) : At(s, (16 + a) + i - 1) = parts[k][i]
      BY <2>1, Zenon DEF OccursAt
    <3>3. 5 \in 1..Len(parts[k]) /\ parts[k][5] = Len(parts[k]) - 5
      <4> DEFINE l == Len(part(k))
      <4>1. l >= 5 /\ parts[k] = part(k) /\ part(k) \in Bytes
        BY <1>6, <1>7
      <4>2. l \in Nat
        BY <4>1 DEF Bytes
      <4> HIDE DEF l
      <4>3. 5 \in 1..l
        BY <4>1, <4>2
      <4>4. part(k)[5] = Len(part(k)) - 5
        BY <1>6
      <4> QED BY <4>1, <4>3, <4>4, Zenon DEF l
    <3>4. At(s, (16 + a) + 5 - 1) = Len(parts[k]) - 5
      BY <3>2, <3>3, Zenon
    <3> HIDE DEF a
    <3>5. (16 + a) + 5 - 1 = 15 + a + 5
      BY <3>1
    <3>6. At(s, 15 + a + 5) = Len(parts[k]) - 5
      BY <3>4, <3>5, Zenon
    <3> QED BY <3>6 DEF a
  <2>3. StandWith(parts, m, len, s, 15, 0)
    <3>1. At(s, 15) = m /\ Len(s) = 15 + len[m] + 0
      <4>1. 15 + len[n] + 0 = 15 + len[n]
        BY <1>16
      <4> QED BY <1>9, <1>13, <1>18, <4>1, Zenon
    <3>2. \A k \in 1..m : Len(parts[k]) >= 5
      BY <1>6, <1>7, <1>9, Zenon
    <3>3. \A k \in 1..m : 15 + len[k - 1] + 5 <= Len(s) => At(s, 15 + len[k - 1] + 5) = Len(parts[k]) - 5
      BY <1>9, <2>2, Zenon
    <3> QED BY <3>1, <3>2, <3>3, Zenon DEF StandWith
  <2>4. 15 \in Nat /\ 0 \in {-1, 0, 1}
    OBVIOUS
  <2> DEFINE e == 0
             p == 15
  <2> HIDE DEF e, p
  <2>5. p \in Nat /\ e \in {-1, 0, 1} /\ StandWith(parts, m, len, s, p, e)
    BY <2>3, <2>4 DEF e, p
  <2>6. SubgroupsFit(s, p) <=> e = 0
    BY <1>8, <2>5, FitIs, Zenon
  <2> QED BY <2>6 DEF e, p
<1> QED
  BY <1>4, <1>17, <1>18, <1>19, Zenon DEF head, f, b, zfs, zf, sid, zero, r, n

-----------------------------------------------------------------------------
(* Commands *)

\* The subgroups of a source as the parser left them
GroupsRead(op, w) ==
  /\ op.num_subgroup = Len(w.groups) /\ op.pa_sync_param = w.pa
  /\ \A i \in DOMAIN w.groups \cap GroupIndexes :
       LET g == op.sub_group_data[i]
       IN /\ g.bis_sync_state = w.groups[i].bis
          /\ Says(w.groups[i].metadata, 1, g.meta_data.preferred_audio_ctx)
          /\ Says(w.groups[i].metadata, 2, g.meta_data.streaming_audio_ctx)

\* What the parser makes of a source that is proper or not
SourceTaken(ok, op, w) ==
  /\ IsOp(op) /\ op.opcode = w.opcode /\ ok \in BOOLEAN
  /\ Simple(w.groups) => (ok <=> ProperSource(w))
  /\ (Simple(w.groups) /\ ok) => GroupsRead(op, w)
  /\ (w.opcode = AddSourceOp /\ ok) => IsSource(op, w)

LEMMA ByteOf ==
  ASSUME NEW t \in Bytes, NEW i \in 1..Len(t)
  PROVE  t[i] \in Nat
BY DEF Bytes

LEMMA ProperIs ==
  ASSUME NEW w
  PROVE  ProperSource(w) <=> /\ w.pa <= 2 /\ Distinct(w.groups)
                             /\ w.opcode = AddSourceOp => w.adv_sid <= 15 /\ w.from[1] <= 1
BY Zenon DEF ProperSource, Distinct

LEMMA ModifyRead ==
  ASSUME NEW w, AsProfile(w), w.opcode = ModifySourceOp, NEW op, IsOp(op), op.opcode = w.opcode
  PROVE  LET r == ReadSource(op, Octets(w), 3) IN SourceTaken(r.ok, r.op, w)
<1> DEFINE o == Octets(w)
           r == ReadSource(op, o, 3)
<1>1. SourceStands(w, o, 3)
  <2>1. TakenGroups(w.groups) /\ w.pa \in Nat
    BY Zenon DEF AsProfile, HasSource
  <2>2. o \in Bytes /\ Len(o) = 6 + Len(Joint(TakenParts(w.groups))) /\ SourceAt(o, 3, w)
    BY ModifyIs
  <2>3. 3 \in Nat /\ 3 + 3 = 6
    OBVIOUS
  <2> HIDE DEF o
  <2> QED BY <2>1, <2>2, <2>3, Zenon DEF SourceStands
<1>2. /\ IsOp(r.op) /\ SameHead(r.op, op)
      /\ r.op.pa_sync_param = w.pa /\ r.op.num_subgroup = Len(w.groups)
      /\ r.ok \in BOOLEAN
      /\ Simple(w.groups) => (r.ok <=> w.pa <= 2 /\ Distinct(w.groups))
      /\ (Simple(w.groups) /\ r.ok) =>
           \A i \in DOMAIN w.groups \cap GroupIndexes :
             LET g == r.op.sub_group_data[i]
             IN /\ g.bis_sync_state = w.groups[i].bis
                /\ Says(w.groups[i].metadata, 1, g.meta_data.preferred_audio_ctx)
                /\ Says(w.groups[i].metadata, 2, g.meta_data.streaming_audio_ctx)
  <2>1. SourceInto(r, op, w)
    BY <1>1, SourceRead, Zenon
  <2> HIDE DEF r
  <2> QED BY <2>1, Zenon DEF SourceInto
<1> HIDE DEF r
<1>3. w.opcode # AddSourceOp
  BY DEF AddSourceOp, ModifySourceOp
<1>4. (Simple(w.groups) /\ r.ok) => GroupsRead(r.op, w)
  BY <1>2, Zenon DEF GroupsRead
<1>5. Simple(w.groups) => (r.ok <=> ProperSource(w))
  BY <1>2, <1>3, ProperIs, Zenon
<1>6. r.op.opcode = w.opcode
  BY <1>2, Zenon DEF SameHead
<1> QED
  BY <1>2, <1>3, <1>4, <1>5, <1>6, Zenon DEF SourceTaken, r

LEMMA AddRead ==
  ASSUME NEW w, AsProfile(w), w.opcode = AddSourceOp, NEW op, IsOp(op), op.opcode = w.opcode
  PROVE  LET r == ReadAdd(op, Octets(w)) IN SourceTaken(r.ok, r.op, w)
<1> DEFINE o == Octets(w)
           from == SubSeq(o, 2, 8)
           sid == At(o, 9)
           id == SubSeq(o, 10, 12)
           new == [op EXCEPT !.from = from, !.adv_sid = sid, !.broadcast_id = id]
           s == ReadSource(new, o, 13)
           r == ReadAdd(op, o)
           jl == Len(Joint(TakenParts(w.groups)))
<1>1. /\ w.from \in Bytes /\ Len(w.from) = 7 /\ w.adv_sid \in Nat
      /\ w.broadcast_id \in Bytes /\ Len(w.broadcast_id) = 3
      /\ w.pa \in Nat /\ TakenGroups(w.groups)
  BY Zenon DEF AsProfile, HasSource
<1>2. /\ o \in Bytes /\ Len(o) = 16 + jl /\ OccursAt(o, 2, w.from) /\ sid = w.adv_sid
      /\ OccursAt(o, 10, w.broadcast_id) /\ SourceAt(o, 13, w)
  BY AddIs
<1>3. jl \in Nat
  BY <1>1, TakenJoint
<1> HIDE DEF o, jl
<1>4. from = w.from /\ id = w.broadcast_id /\ At(o, 2) = w.from[1]
  <2> DEFINE f == w.from
             b == w.broadcast_id
  <2>1. f \in Bytes /\ Len(f) = 7 /\ b \in Bytes /\ Len(b) = 3 /\ OccursAt(o, 2, f) /\ OccursAt(o, 10, b)
    BY <1>1, <1>2
  <2> HIDE DEF f, b
  <2>2. 8 <= Len(o) /\ 12 <= Len(o)
    BY <1>2, <1>3
  <2>3. 2 \in Nat /\ 2 >= 1 /\ 8 \in Nat /\ 8 = 2 + Len(f) - 1 /\ Len(f) >= 1
        /\ 10 \in Nat /\ 10 >= 1 /\ 12 \in Nat /\ 12 = 10 + Len(b) - 1 /\ Len(b) >= 1
    BY <2>1
  <2>4. SubSeq(o, 2, 8) = f
    <3>1. /\ o \in Bytes /\ f \in Bytes /\ 2 \in Nat /\ 2 >= 1 /\ OccursAt(o, 2, f)
          /\ 8 \in Nat /\ 8 = 2 + Len(f) - 1 /\ Len(f) >= 1 /\ 8 <= Len(o)
      BY <1>2, <2>1, <2>2, <2>3
    <3>2. StandsFrom(o, f, 2, 8)
      BY <3>1, Zenon DEF StandsFrom
    <3> QED BY <3>2, SubSeqIs, Zenon
  <2>5. SubSeq(o, 10, 12) = b
    <3>1. /\ o \in Bytes /\ b \in Bytes /\ 10 \in Nat /\ 10 >= 1 /\ OccursAt(o, 10, b)
          /\ 12 \in Nat /\ 12 = 10 + Len(b) - 1 /\ Len(b) >= 1 /\ 12 <= Len(o)
      BY <1>2, <2>1, <2>2, <2>3
    <3>2. StandsFrom(o, b, 10, 12)
      BY <3>1, Zenon DEF StandsFrom
    <3> QED BY <3>2, SubSeqIs, Zenon
  <2>6. At(o, 2) = f[1]
    BY <2>1, <2>3, FirstOccurs
  <2> QED BY <2>4, <2>5, <2>6 DEF f, b
<1>5. SourceStands(w, o, 13)
  <2>1. 13 \in Nat /\ 13 + 3 = 16
    OBVIOUS
  <2> QED BY <1>1, <1>2, <2>1, Zenon DEF SourceStands, jl
<1> HIDE DEF from, sid, id
<1>6. /\ DOMAIN new = OpFields /\ new.from = from /\ new.adv_sid = sid /\ new.broadcast_id = id
      /\ new.opcode = op.opcode /\ new.sub_group_data = op.sub_group_data
  BY DEF IsOp, OpFields
<1> HIDE DEF new
<1>7. IsOp(new)
  BY <1>6 DEF IsOp
<1>8. r = IF sid > 15 \/ At(o, 2) > 1 THEN [ok |-> FALSE, op |-> new] ELSE s
  BY DEF ReadAdd, new, sid, from, id
<1>9. /\ IsOp(s.op) /\ SameHead(s.op, new)
      /\ s.op.pa_sync_param = w.pa /\ s.op.num_subgroup = Len(w.groups)
      /\ s.ok \in BOOLEAN /\ (s.ok => w.pa <= 2)
      /\ (w.pa <= 2 /\ w.groups # <<>>) => s.op.sub_group_data[1].bis_sync_state = w.groups[1].bis
      /\ Simple(w.groups) => (s.ok <=> w.pa <= 2 /\ Distinct(w.groups))
      /\ (Simple(w.groups) /\ s.ok) =>
           \A i \in DOMAIN w.groups \cap GroupIndexes :
             LET g == s.op.sub_group_data[i]
             IN /\ g.bis_sync_state = w.groups[i].bis
                /\ Says(w.groups[i].metadata, 1, g.meta_data.preferred_audio_ctx)
                /\ Says(w.groups[i].metadata, 2, g.meta_data.streaming_audio_ctx)
  <2>1. SourceInto(s, new, w)
    BY <1>5, <1>7, SourceRead, Zenon
  <2> HIDE DEF s
  <2> QED BY <2>1, Zenon DEF SourceInto
<1> HIDE DEF s, r
<1>10. CASE sid > 15 \/ At(o, 2) > 1
  <2>1. r.ok = FALSE /\ r.op = new
    BY <1>8, <1>10
  <2>2. ~(w.adv_sid <= 15 /\ w.from[1] <= 1)
    <3>1. w.from[1] \in Nat
      <4> DEFINE f == w.from
      <4>1. f \in Bytes /\ Len(f) = 7
        BY <1>1
      <4> HIDE DEF f
      <4>2. 1 \in 1..Len(f)
        BY <4>1
      <4>3. f[1] \in Nat
        BY <4>1, <4>2, ByteOf
      <4> QED BY <4>3 DEF f
    <3>2. w.adv_sid > 15 \/ w.from[1] > 1
      BY <1>2, <1>4, <1>10
    <3> QED BY <1>1, <3>1, <3>2
  <2>3. ~ProperSource(w)
    BY <2>2, ProperIs, Zenon
  <2>4. r.op.opcode = w.opcode
    BY <1>6, <2>1
  <2> QED BY <1>7, <2>1, <2>3, <2>4, Zenon DEF SourceTaken, r, o
<1>11. CASE ~(sid > 15 \/ At(o, 2) > 1)
  <2>1. r = s
    BY <1>8, <1>11
  <2>2. w.adv_sid <= 15 /\ w.from[1] <= 1
    <3>1. w.from[1] \in Nat
      <4> DEFINE f == w.from
      <4>1. f \in Bytes /\ Len(f) = 7
        BY <1>1
      <4> HIDE DEF f
      <4>2. 1 \in 1..Len(f)
        BY <4>1
      <4>3. f[1] \in Nat
        BY <4>1, <4>2, ByteOf
      <4> QED BY <4>3 DEF f
    <3>2. ~(w.adv_sid > 15) /\ ~(w.from[1] > 1)
      BY <1>2, <1>4, <1>11
    <3> QED BY <1>1, <3>1, <3>2
  <2>3. Simple(w.groups) => (s.ok <=> ProperSource(w))
    BY <1>9, <2>2, ProperIs, Zenon
  <2>4. /\ s.op.opcode = w.opcode /\ s.op.from = w.from /\ s.op.adv_sid = w.adv_sid
        /\ s.op.broadcast_id = w.broadcast_id
    <3>1. /\ s.op.opcode = new.opcode /\ s.op.from = new.from /\ s.op.adv_sid = new.adv_sid
          /\ s.op.broadcast_id = new.broadcast_id
      BY <1>9, Zenon DEF SameHead
    <3> QED BY <1>2, <1>4, <1>6, <3>1, Zenon
  <2>5. (Simple(w.groups) /\ s.ok) => GroupsRead(s.op, w)
    BY <1>9, Zenon DEF GroupsRead
  <2>6. s.ok => IsSource(s.op, w)
    BY <1>9, <2>4, Zenon DEF IsSource
  <2>7. SourceTaken(s.ok, s.op, w)
    BY <1>9, <2>3, <2>4, <2>5, <2>6, Zenon DEF SourceTaken
  <2> QED BY <2>1, <2>7, Zenon DEF r, o
<1> QED
  BY <1>10, <1>11

\* What is made of a command
Understood(status, op, w) ==
  /\ IsOp(op) /\ op.opcode = w.opcode /\ status \in {"SUCCESS"} \cup Refusals
  /\ w.form # "whole" => status \in Refusals
  /\ (w.form = "whole" /\ (HasSource(w) => Simple(w.groups))) =>
       (status \in Refusals <=> w.opcode > RemoveSourceOp \/ (HasSource(w) /\ ~ProperSource(w)))
  /\ (HasSource(w) /\ Simple(w.groups) /\ status \notin Refusals) => GroupsRead(op, w)
  /\ (w.opcode = AddSourceOp /\ status \notin Refusals) => IsSource(op, w)

LEMMA ParsedOf ==
  ASSUME NEW d, NEW left, d[1] \in Nat
  PROVE  LET op == [op_data EXCEPT !.opcode = d[1]]
             own == [op EXCEPT !.sub_group_data = left, !.layout = d[1]]
             rejected(o) == [status |-> "WRITE_REQ_REJECTED", op |-> o]
             success(o) == [status |-> "SUCCESS", op |-> o]
             whether(r) == IF r.ok THEN success(r.op) ELSE rejected(r.op)
         IN Parsed(d, left) =
              IF d[1] > RemoveSourceOp THEN [status |-> "OPCODE_NOT_SUPPORTED", op |-> op]
              ELSE IF ~LengthFits(d) THEN rejected(op)
              ELSE IF d[1] = AddSourceOp THEN whether(ReadAdd(own, d))
              ELSE IF d[1] = ModifySourceOp THEN whether(ReadSource([own EXCEPT !.source_id = d[2]], d, 3))
              ELSE IF d[1] \in {ScanStopped, ScanStarted} THEN success(op)
              ELSE success([own EXCEPT !.source_id = d[2]])
<1> DEFINE op == [op_data EXCEPT !.opcode = d[1]]
           own == [op EXCEPT !.sub_group_data = left, !.layout = d[1]]
           rejected(o) == [status |-> "WRITE_REQ_REJECTED", op |-> o]
           success(o) == [status |-> "SUCCESS", op |-> o]
           whether(r) == IF r.ok THEN success(r.op) ELSE rejected(r.op)
           code == d[1]
           a == [status |-> "OPCODE_NOT_SUPPORTED", op |-> op]
           b == rejected(op)
           c == success(op)
           e == whether(ReadAdd(own, d))
           f == whether(ReadSource([own EXCEPT !.source_id = d[2]], d, 3))
           g == success([own EXCEPT !.source_id = d[2]])
           fits == LengthFits(d)
           cased ==
             CASE code > RemoveSourceOp -> a
               [] code <= RemoveSourceOp /\ ~fits -> b
               [] code \in {ScanStopped, ScanStarted} /\ fits -> c
               [] code = AddSourceOp /\ fits -> e
               [] code = ModifySourceOp /\ fits -> f
               [] code \in {SetCodeOp, RemoveSourceOp} /\ fits -> g
           chosen ==
             IF code > RemoveSourceOp THEN a
             ELSE IF ~fits THEN b
             ELSE IF code = AddSourceOp THEN e
             ELSE IF code = ModifySourceOp THEN f
             ELSE IF code \in {ScanStopped, ScanStarted} THEN c
             ELSE g
<1>1. Parsed(d, left) = cased
  BY Zenon DEF Parsed
<1> HIDE DEF a, b, c, e, f, g, code, fits
<1>2. code \in Nat
  BY DEF code
<1>3. cased = chosen
  <2> DEFINE stops == code \in {ScanStopped, ScanStarted}
             known == code \in {SetCodeOp, RemoveSourceOp}
  <2>1. CASE code > RemoveSourceOp
    BY <1>2, <2>1 DEF ScanStopped, ScanStarted, AddSourceOp, ModifySourceOp, SetCodeOp, RemoveSourceOp
  <2>2. CASE ~(code > RemoveSourceOp)
    <3>1. code <= RemoveSourceOp
      BY <1>2, <2>2 DEF RemoveSourceOp
    <3>2. CASE ~fits
      BY <2>2, <3>1, <3>2
    <3>3. CASE fits
      <4>1. code = 0 \/ code = 1 \/ code = 2 \/ code = 3 \/ code = 4 \/ code = 5
        BY <1>2, <3>1 DEF RemoveSourceOp
      <4>2. /\ stops <=> code = 0 \/ code = 1
            /\ known <=> code = 4 \/ code = 5
            /\ code = AddSourceOp <=> code = 2
            /\ code = ModifySourceOp <=> code = 3
        BY DEF ScanStopped, ScanStarted, AddSourceOp, ModifySourceOp, SetCodeOp, RemoveSourceOp
      <4> HIDE DEF stops, known
      <4>3. (CASE code > RemoveSourceOp -> a
                [] code <= RemoveSourceOp /\ ~fits -> b
                [] stops /\ fits -> c
                [] code = AddSourceOp /\ fits -> e
                [] code = ModifySourceOp /\ fits -> f
                [] known /\ fits -> g)
            = IF code = AddSourceOp THEN e ELSE IF code = ModifySourceOp THEN f
              ELSE IF stops THEN c ELSE g
        BY <2>2, <3>3, <4>1, <4>2
      <4> QED BY <2>2, <3>3, <4>3 DEF stops, known
    <3> QED BY <3>2, <3>3
  <2> QED BY <2>1, <2>2
<1> HIDE DEF cased
<1>4. Parsed(d, left) = chosen
  BY <1>1, <1>3
<1> QED
  BY <1>4, Zenon DEF a, b, c, e, f, g, code, fits

LEMMA ParsedIs ==
  ASSUME NEW w, AsProfile(w), IsOp(op_data), NEW left, \A i \in GroupIndexes : left[i].meta_data \in Contexts
  PROVE  LET parsed == Parsed(Stream(w), left) IN Understood(parsed.status, parsed.op, w)
<1> DEFINE d == Stream(w)
           code == d[1]
           op == [op_data EXCEPT !.opcode = code]
           own == [op EXCEPT !.sub_group_data = left, !.layout = code]
           with == [own EXCEPT !.source_id = d[2]]
           rejected(o) == [status |-> "WRITE_REQ_REJECTED", op |-> o]
           success(o) == [status |-> "SUCCESS", op |-> o]
           whether(r) == IF r.ok THEN success(r.op) ELSE rejected(r.op)
           parsed == Parsed(d, left)
           fits == LengthFits(d)
<1>1. code = w.opcode /\ w.opcode \in Nat /\ (w.form = "whole" => d = Octets(w))
  <2>1. w.opcode \in Nat
    BY Zenon DEF AsProfile
  <2> QED BY <2>1, StreamIs
<1>2. w.opcode <= RemoveSourceOp => (fits <=> w.form = "whole")
  BY LengthFitsIs
<1>3. parsed =
        IF code > RemoveSourceOp THEN [status |-> "OPCODE_NOT_SUPPORTED", op |-> op]
        ELSE IF ~fits THEN rejected(op)
        ELSE IF code = AddSourceOp THEN whether(ReadAdd(own, d))
        ELSE IF code = ModifySourceOp THEN whether(ReadSource(with, d, 3))
        ELSE IF code \in {ScanStopped, ScanStarted} THEN success(op)
        ELSE success(with)
  <2>1. d[1] \in Nat
    BY <1>1
  <2> QED BY <2>1, ParsedOf, Zenon
<1> HIDE DEF d, parsed, fits, code
<1>4. IsOp(op) /\ op.opcode = code
  BY DEF IsOp, OpFields
<1>5. IsOp(own) /\ own.opcode = code
  <2> HIDE DEF op
  <2>1. DOMAIN own = OpFields /\ own.sub_group_data = left /\ own.opcode = op.opcode
    BY <1>4 DEF IsOp, OpFields
  <2> HIDE DEF own
  <2> QED BY <1>4, <2>1 DEF IsOp
<1>6. IsOp(with) /\ with.opcode = code
  <2> HIDE DEF own
  <2>1. DOMAIN with = OpFields /\ with.sub_group_data = own.sub_group_data /\ with.opcode = own.opcode
    BY <1>5 DEF IsOp, OpFields
  <2> HIDE DEF with
  <2> QED BY <1>5, <2>1 DEF IsOp
<1> HIDE DEF op, own, with
<1>7. /\ "WRITE_REQ_REJECTED" \in Refusals /\ "OPCODE_NOT_SUPPORTED" \in Refusals
      /\ "SUCCESS" \notin Refusals
  BY DEF Refusals
<1>8. HasSource(w) <=> w.opcode = AddSourceOp \/ w.opcode = ModifySourceOp
  BY DEF HasSource
<1>9. ~(AddSourceOp > RemoveSourceOp) /\ ~(ModifySourceOp > RemoveSourceOp) /\ AddSourceOp # ModifySourceOp
  BY DEF AddSourceOp, ModifySourceOp, RemoveSourceOp
<1>10. CASE code > RemoveSourceOp
  <2>1. parsed.status = "OPCODE_NOT_SUPPORTED" /\ parsed.op = op
    BY <1>3, <1>10
  <2>2. ~HasSource(w) /\ w.opcode > RemoveSourceOp /\ w.opcode # AddSourceOp
    BY <1>1, <1>8, <1>9, <1>10, Zenon
  <2> QED BY <1>1, <1>4, <1>7, <2>1, <2>2, Zenon DEF Understood, parsed, d
<1>11. CASE ~(code > RemoveSourceOp) /\ ~fits
  <2>1. parsed.status = "WRITE_REQ_REJECTED" /\ parsed.op = op
    BY <1>3, <1>11
  <2>2. w.form # "whole"
    <3>1. w.opcode <= RemoveSourceOp
      BY <1>1, <1>11 DEF RemoveSourceOp
    <3> QED BY <1>2, <1>11, <3>1, Zenon
  <2> QED BY <1>1, <1>4, <1>7, <2>1, <2>2, Zenon DEF Understood, parsed, d
<1>12. CASE ~(code > RemoveSourceOp) /\ fits
  <2>1. w.form = "whole" /\ d = Octets(w) /\ ~(w.opcode > RemoveSourceOp)
    <3>1. w.opcode <= RemoveSourceOp
      BY <1>1, <1>12 DEF RemoveSourceOp
    <3> QED BY <1>1, <1>2, <1>12, <3>1, Zenon
  <2>2. ASSUME NEW r, SourceTaken(r.ok, r.op, w), parsed = whether(r), HasSource(w)
        PROVE  Understood(parsed.status, parsed.op, w)
    <3>1. parsed.op = r.op /\ parsed.status = IF r.ok THEN "SUCCESS" ELSE "WRITE_REQ_REJECTED"
      BY <2>2
    <3>2. r.ok \in BOOLEAN
      BY <2>2, Zenon DEF SourceTaken
    <3>3. parsed.status \notin Refusals <=> r.ok
      BY <1>7, <3>1, <3>2
    <3>4. parsed.status \in {"SUCCESS"} \cup Refusals
      BY <1>7, <3>1
    <3>5. /\ IsOp(parsed.op) /\ parsed.op.opcode = w.opcode
          /\ Simple(w.groups) => (r.ok <=> ProperSource(w))
          /\ (Simple(w.groups) /\ r.ok) => GroupsRead(parsed.op, w)
          /\ (w.opcode = AddSourceOp /\ r.ok) => IsSource(parsed.op, w)
      BY <2>2, <3>1, Zenon DEF SourceTaken
    <3> QED BY <2>1, <2>2, <3>3, <3>4, <3>5, Zenon DEF Understood
  <2>3. CASE code = AddSourceOp
    <3> DEFINE r == ReadAdd(own, d)
    <3>1. parsed = whether(r)
      BY <1>3, <1>12, <2>3, Zenon
    <3>2. SourceTaken(r.ok, r.op, w)
      BY <1>1, <1>5, <2>1, <2>3, AddRead, Zenon
    <3>3. HasSource(w)
      BY <1>1, <1>8, <2>3
    <3> HIDE DEF r
    <3> QED BY <2>2, <3>1, <3>2, <3>3, Zenon DEF parsed, d
  <2>4. CASE code = ModifySourceOp
    <3> DEFINE r == ReadSource(with, d, 3)
    <3>1. parsed = whether(r)
      BY <1>3, <1>9, <1>12, <2>4, Zenon
    <3>2. SourceTaken(r.ok, r.op, w)
      BY <1>1, <1>6, <2>1, <2>4, ModifyRead, Zenon
    <3>3. HasSource(w)
      BY <1>1, <1>8, <2>4
    <3> HIDE DEF r
    <3> QED BY <2>2, <3>1, <3>2, <3>3, Zenon DEF parsed, d
  <2>5. CASE code # AddSourceOp /\ code # ModifySourceOp
    <3>1. parsed = success(op) \/ parsed = success(with)
      BY <1>3, <1>12, <2>5, Zenon
    <3>2. parsed.status = "SUCCESS" /\ (parsed.op = op \/ parsed.op = with)
      BY <3>1
    <3>3. IsOp(parsed.op) /\ parsed.op.opcode = w.opcode
      BY <1>1, <1>4, <1>6, <3>2, Zenon
    <3>4. ~HasSource(w) /\ w.opcode # AddSourceOp
      BY <1>1, <1>8, <2>5
    <3>5. parsed.status \in {"SUCCESS"} \cup Refusals /\ parsed.status \notin Refusals
      BY <1>7, <3>2
    <3> QED BY <2>1, <3>3, <3>4, <3>5, Zenon DEF Understood, parsed, d
  <2> QED BY <2>3, <2>4, <2>5
<1> QED
  BY <1>10, <1>11, <1>12

\* What is done about a command that was understood
LEMMA Executed ==
  ASSUME NEW op, NEW behind, ExecuteScan(op, behind)
  PROVE  /\ answer' \notin Refusals
         /\ (op.opcode = AddSourceOp /\ sent' # <<>>) =>
              receive' = SourceAdded(op) /\ sent' = <<BuildReceiveState(receive', behind)>>
<1> DEFINE adds == op.opcode = AddSourceOp /\ ~receive.is_used
           codes == op.opcode = SetCodeOp /\ receive.is_used /\ op.source_id = 0
           removes == op.opcode = RemoveSourceOp /\ receive.is_used /\ op.source_id = 0
           unknown == op.opcode \in {ModifySourceOp, RemoveSourceOp} /\ ~(receive.is_used /\ op.source_id = 0)
           a == /\ receive' = SourceAdded(op)
                /\ sent' = <<BuildReceiveState(receive', behind)>> /\ answer' = "SUCCESS"
           b == /\ receive' = [receive EXCEPT !.code = TRUE]
                /\ sent' = <<BuildReceiveState(receive', behind)>> /\ answer' = "SUCCESS"
           c == \/ UNCHANGED receive /\ sent' = <<>> /\ answer' = "UNSUPPORTED"
                \/ receive' = NoReceive /\ sent' = <<<<>>>> /\ answer' = "SUCCESS"
           e == UNCHANGED receive /\ sent' = <<>> /\ answer' = "INVALID_SOURCE_ID"
           f == UNCHANGED receive /\ sent' = <<>> /\ answer' = "SUCCESS"
           done == CASE adds -> a [] codes -> b [] removes -> c [] unknown -> e [] OTHER -> f
<1>1. done
  BY Zenon DEF ExecuteScan
<1>2. /\ adds => op.opcode = AddSourceOp
      /\ codes \/ removes \/ unknown => op.opcode # AddSourceOp
  BY DEF AddSourceOp, ModifySourceOp, SetCodeOp, RemoveSourceOp
<1>3. /\ a => /\ receive' = SourceAdded(op) /\ sent' = <<BuildReceiveState(receive', behind)>>
              /\ answer' \notin Refusals
      /\ b \/ c \/ e \/ f => answer' \notin Refusals
      /\ f => sent' = <<>>
  BY DEF Refusals
<1>4. adds \in BOOLEAN /\ codes \in BOOLEAN /\ removes \in BOOLEAN /\ unknown \in BOOLEAN
  OBVIOUS
<1> HIDE DEF adds, codes, removes, unknown, a, b, c, e, f
<1>5. /\ a \/ b \/ c \/ e \/ f
      /\ adds \/ codes \/ removes \/ unknown \/ f
      /\ (adds /\ ~codes /\ ~removes /\ ~unknown) => a
  BY <1>1, <1>4
<1>6. answer' \notin Refusals
  BY <1>3, <1>5, Zenon
<1>7. ASSUME op.opcode = AddSourceOp, sent' # <<>>
      PROVE  receive' = SourceAdded(op) /\ sent' = <<BuildReceiveState(receive', behind)>>
  <2>1. ~codes /\ ~removes /\ ~unknown
    BY <1>2, <1>7, Zenon
  <2>2. a
    BY <1>3, <1>5, <1>7, <2>1, Zenon
  <2> QED BY <1>3, <2>2, Zenon
<1> QED
  BY <1>6, <1>7, Zenon

ScanInv == IsOp(op_data) /\ CommandAsWritten

LEMMA NothingParsed == IsOp(NoOpData)
BY DEF IsOp, OpFields, NoOpData, ZeroGroups, Group, NoMetadata, Contexts

LEMMA ScanCommandStep ==
  ASSUME NEW w, AsProfile(w), IsOp(op_data), WriteScanCommand(w)
  PROVE  ScanInv'
<1>1. PICK left \in LeftFor(w.opcode), behind \in Behind :
        LET parsed == Parsed(Stream(w), left)
        IN /\ asked' = w
           /\ op_data' = parsed.op
           /\ IF parsed.status # "SUCCESS"
              THEN answer' = parsed.status /\ sent' = <<>> /\ UNCHANGED receive
              ELSE ExecuteScan(parsed.op, behind)
  BY Zenon DEF WriteScanCommand
<1> DEFINE parsed == Parsed(Stream(w), left)
           op == parsed.op
           status == parsed.status
<1>2. \A i \in GroupIndexes : left[i].meta_data \in Contexts
  <2>1. CASE left = op_data.sub_group_data
    BY <2>1 DEF IsOp
  <2>2. CASE left \in Leftovers
    BY <2>2, ScanConstants DEF Contexts, GroupIndexes
  <2> QED BY <2>1, <2>2 DEF LeftFor
<1>3. Understood(status, op, w)
  BY <1>2, ParsedIs, Zenon
<1>4. /\ asked' = w /\ op_data' = op
      /\ status # "SUCCESS" => answer' = status /\ sent' = <<>>
      /\ status = "SUCCESS" => ExecuteScan(op, behind)
  BY <1>1
<1> HIDE DEF op, status, parsed
<1>5. /\ IsOp(op) /\ op.opcode = w.opcode /\ status \in {"SUCCESS"} \cup Refusals
      /\ w.form # "whole" => status \in Refusals
      /\ (w.form = "whole" /\ (HasSource(w) => Simple(w.groups))) =>
           (status \in Refusals <=> w.opcode > RemoveSourceOp \/ (HasSource(w) /\ ~ProperSource(w)))
      /\ (HasSource(w) /\ Simple(w.groups) /\ status \notin Refusals) => GroupsRead(op, w)
      /\ (w.opcode = AddSourceOp /\ status \notin Refusals) => IsSource(op, w)
  BY <1>3, Zenon DEF Understood
<1>6. "SUCCESS" \notin Refusals
  BY DEF Refusals
<1>7. answer' \in Refusals <=> status \in Refusals
  <2>1. CASE status = "SUCCESS"
    BY <1>4, <1>6, <2>1, Executed, Zenon
  <2>2. CASE status # "SUCCESS"
    BY <1>4, <2>2, Zenon
  <2> QED BY <2>1, <2>2
<1>8. status \in Refusals => sent' = <<>>
  BY <1>4, <1>6, Zenon
<1>9. ASSUME w.opcode = AddSourceOp, sent' # <<>>
      PROVE  /\ Len(w.groups) <= MaxSubgroups =>
                  /\ SubSeq(sent'[1], 1, 12) = <<0>> \o w.from \o <<w.adv_sid>> \o w.broadcast_id
                  /\ SubgroupsFit(sent'[1], 15) /\ sent'[1][15] = Len(w.groups)
             /\ w.groups # <<>> => receive'.bis_index_bits = w.groups[1].bis
  <2>1. status = "SUCCESS"
    BY <1>4, <1>9, Zenon
  <2>2. receive' = SourceAdded(op) /\ sent' = <<BuildReceiveState(receive', behind)>>
    BY <1>4, <1>5, <1>9, <2>1, Executed, Zenon
  <2>3. IsSource(op, w)
    BY <1>5, <1>6, <1>9, <2>1, Zenon
  <2> DEFINE s == BuildReceiveState(SourceAdded(op), behind)
  <2>4. Len(w.groups) <= MaxSubgroups =>
        /\ SubSeq(s, 1, 12) = <<0>> \o w.from \o <<w.adv_sid>> \o w.broadcast_id
        /\ SubgroupsFit(s, 15) /\ s[15] = Len(w.groups)
    BY <1>5, <1>9, <2>3, ReceiveStateIs, Zenon
  <2>5. sent'[1] = s
    <3> HIDE DEF s
    <3>1. sent' = <<s>>
      BY <2>2, Zenon DEF s
    <3> QED BY <3>1
  <2>6. w.groups # <<>> => receive'.bis_index_bits = w.groups[1].bis
    <3>1. receive'.bis_index_bits = op.sub_group_data[1].bis_sync_state
      BY <2>2 DEF SourceAdded
    <3> QED BY <2>3, <3>1, Zenon DEF IsSource
  <2> QED BY <2>4, <2>5, <2>6, Zenon
<1>10. (HasSource(w) /\ Simple(w.groups) /\ answer' \notin Refusals) =>
         /\ op_data'.num_subgroup = Len(w.groups) /\ op_data'.pa_sync_param = w.pa
         /\ \A i \in DOMAIN w.groups \cap GroupIndexes :
              LET g == op_data'.sub_group_data[i]
              IN /\ g.bis_sync_state = w.groups[i].bis
                 /\ Says(w.groups[i].metadata, 1, g.meta_data.preferred_audio_ctx)
                 /\ Says(w.groups[i].metadata, 2, g.meta_data.streaming_audio_ctx)
  <2>1. SUFFICES ASSUME HasSource(w), Simple(w.groups), answer' \notin Refusals
                 PROVE  GroupsRead(op_data', w)
    BY Zenon DEF GroupsRead
  <2>2. GroupsRead(op, w)
    BY <1>5, <1>7, <2>1, Zenon
  <2> QED BY <1>4, <2>2, Zenon
<1>11. /\ w.form # "whole" => answer' \in Refusals /\ sent' = <<>>
       /\ (w.form = "whole" /\ (HasSource(w) => Simple(w.groups))) =>
            (answer' \in Refusals <=> w.opcode > RemoveSourceOp \/ (HasSource(w) /\ ~ProperSource(w)))
  BY <1>5, <1>7, <1>8, Zenon
<1>12. IsOp(op_data)'
  BY <1>4, <1>5, Zenon
<1>13. CommandAsWritten'
  BY <1>4, <1>9, <1>10, <1>11, Zenon DEF CommandAsWritten, Simple
<1> QED
  BY <1>12, <1>13, Zenon DEF ScanInv

\* CommandAsWritten, for any commands as clients write them: a command that is cut short,
\* or longer than it says, is refused; one of subgroups without metadata but the last
\* is refused if a parameter is out of range or two subgroups have the same BISes, and is
\* understood as it was written; and the receive state sent for an added source of at
\* most MaxSubgroups subgroups has the source's address and id, and the subgroups.
THEOREM CommandsHold == (\A w \in ScanWrites : AsProfile(w)) => (ScanSpec => []CommandAsWritten)
<1> SUFFICES ASSUME \A w \in ScanWrites : AsProfile(w)
             PROVE  ScanSpec => []CommandAsWritten
  OBVIOUS
<1>1. ScanInit => ScanInv
  <2> SUFFICES ASSUME ScanInit PROVE ScanInv
    OBVIOUS
  <2>1. op_data = NoOpData /\ asked = NoCommand
    BY DEF ScanInit
  <2>2. CommandAsWritten
    BY <2>1, Zenon DEF CommandAsWritten
  <2> QED BY <2>1, <2>2, NothingParsed, Zenon DEF ScanInv
<1>2. ScanInv /\ [ScanNext]_scanVars => ScanInv'
  <2> SUFFICES ASSUME ScanInv, [ScanNext]_scanVars PROVE ScanInv'
    OBVIOUS
  <2>1. CASE \E w \in ScanWrites : WriteScanCommand(w)
    BY <2>1, ScanCommandStep, Zenon DEF ScanInv
  <2>2. CASE ScanRestart
    <3>1. op_data' = NoOpData /\ asked' = NoCommand
      BY <2>2 DEF ScanRestart
    <3>2. CommandAsWritten'
      BY <3>1, Zenon DEF CommandAsWritten
    <3> QED BY <3>1, <3>2, NothingParsed, Zenon DEF ScanInv
  <2>3. CASE UNCHANGED scanVars
    BY <2>3, Zenon DEF ScanInv, CommandAsWritten, scanVars
  <2> QED BY <2>1, <2>2, <2>3, Zenon DEF ScanNext
<1>3. ScanInv => CommandAsWritten
  BY DEF ScanInv
<1> QED
  BY <1>1, <1>2, <1>3, PTL DEF ScanSpec
=============================================================================
