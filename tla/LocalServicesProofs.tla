------------------------ MODULE LocalServicesProofs ------------------------
(***************************************************************************)
(* Proofs about the volume, the microphone, the presets and the lock of the *)
(* set.  The first two count the changes of their state with a counter that *)
(* goes round: a write with the current counter comes from a client that    *)
(* knows the state, as the counter it was told and the number of changes it *)
(* missed always add up to the current one.                                 *)
(***************************************************************************)
EXTENDS MCLocalServices, FiniteSetTheorems, TLAPS

-----------------------------------------------------------------------------
(* Remainders and quotients *)

LEMMA RemainderOf ==
  ASSUME NEW c \in Nat \ {0}, NEW q \in Int, NEW r \in 0..(c - 1)
  PROVE  (c * q + r) % c = r
OBVIOUS

LEMMA Divided ==
  ASSUME NEW c \in Nat \ {0}, NEW a \in Int
  PROVE  a % c \in 0..(c - 1) /\ a \div c \in Int /\ a = c * (a \div c) + (a % c)
OBVIOUS

\* Reducing a counter before it is stepped on or after makes no difference.
LEMMA StepsAddUp ==
  ASSUME NEW c \in Nat \ {0}, NEW a \in Int, NEW n \in Int
  PROVE  ((a % c) + n) % c = (a + n) % c
<1> DEFINE r == a % c
           q == a \div c
           s == (r + n) % c
           p == (r + n) \div c
<1>1. r \in 0..(c - 1) /\ q \in Int /\ a = c * q + r
  BY Divided
<1>2. s \in 0..(c - 1) /\ p \in Int /\ r + n = c * p + s
  BY <1>1, Divided, SMTT(30)
<1> HIDE DEF r, q, s, p
<1>3. a + n = c * (q + p) + s
  BY <1>1, <1>2
<1>4. (c * (q + p) + s) % c = s
  BY <1>1, <1>2, RemainderOf
<1> QED BY <1>3, <1>4 DEF s, r

\* A counter that has not gone round has another value.
LEMMA StepsShow ==
  ASSUME NEW c \in Nat \ {0}, NEW a \in 0..(c - 1), NEW n \in 1..(c - 1)
  PROVE  (a + n) % c # a
OBVIOUS

LEMMA QuotientGrows ==
  ASSUME NEW c \in Nat \ {0}, NEW a \in Nat, NEW b \in Nat, a <= b
  PROVE  a \div c \in 0..(b \div c)
<1> DEFINE q == a \div c
           r == a % c
           p == b \div c
           s == b % c
<1>1. r \in 0..(c - 1) /\ q \in Int /\ a = c * q + r
  BY Divided
<1>2. s \in 0..(c - 1) /\ p \in Int /\ b = c * p + s
  BY Divided
<1> HIDE DEF r, q, s, p
<1>3. q >= 0
  <2> SUFFICES ASSUME q <= -1 PROVE FALSE
    BY <1>1
  <2>1. c * q <= -c
    BY <1>1
  <2> QED BY <1>1, <2>1
<1>4. q <= p
  <2> SUFFICES ASSUME q >= p + 1 PROVE FALSE
    BY <1>1, <1>2
  <2>1. c * q >= c * p + c
    BY <1>1, <1>2
  <2> QED BY <1>1, <1>2, <2>1
<1> QED BY <1>1, <1>2, <1>3, <1>4 DEF q, p
-----------------------------------------------------------------------------
(* The volume: types *)

LEMMA RequestedType ==
  ASSUME VolumeTypeOK, NEW op \in VolumeOpcodes, NEW vol \in VolumesOf(op)
  PROVE  /\ Requested(op, vol) \in VolumeStates
         /\ Requested(op, vol).change_counter = vcs.change_counter
         /\ op.volume = "keep" => Requested(op, vol).volume_setting = vcs.volume_setting
         /\ op.mute = "keep" => Requested(op, vol).mute_state = vcs.mute_state
<1>1. vcs \in VolumeStates /\ StepSize \in Nat /\ MaxVolume \in Nat
  BY VolumeConstants DEF VolumeTypeOK
<1>2. Lowered \in Volumes /\ Raised \in Volumes
  BY <1>1 DEF Lowered, Raised, Volumes, VolumeStates
<1>3. op.volume = "absolute" => vol \in Volumes
  BY DEF VolumesOf
<1>4. op.volume \in {"down", "up", "absolute", "keep"} /\ op.mute \in {"keep", "clear", "set"}
  BY DEF VolumeOpcodes
<1> QED BY <1>1, <1>2, <1>3, <1>4 DEF Requested, VolumeStates

LEMMA PlayedType ==
  ASSUME NEW volume \in Volumes, NEW mute \in BOOLEAN
  PROVE  Played(volume, mute) \in 0..(MaxVolume \div PlatformStep)
<1>1. volume \div PlatformStep \in 0..(MaxVolume \div PlatformStep)
  BY QuotientGrows, VolumeConstants DEF Volumes
<1>2. MaxVolume \div PlatformStep \in Int
  BY Divided, VolumeConstants
<1> QED BY <1>1, <1>2 DEF Played

\* The blocks in use are told one after the other: each has its place among them.
LEMMA Places ==
  ASSUME VolumeTypeOK, NEW notified \in SUBSET in_use
  PROVE  /\ Steps(notified) \in Nat
         /\ in_use # {} => Steps(notified) # 0
         /\ \A b \in in_use : Order(in_use)[b] \in 0..Steps(notified)
<1>1. IsFiniteSet(in_use)
  BY FS_Subset, VolumeConstants DEF VolumeTypeOK
<1>2. Cardinality(in_use) \in Nat /\ (in_use # {} => Cardinality(in_use) # 0)
  BY <1>1, FS_CardinalityType, FS_EmptySet
<1>3. ASSUME NEW b \in in_use
      PROVE  Order(in_use)[b] \in 0..Cardinality(in_use)
  <2>1. {c \in in_use : c <= b} \in SUBSET in_use
    OBVIOUS
  <2>2. IsFiniteSet({c \in in_use : c <= b})
        /\ Cardinality({c \in in_use : c <= b}) <= Cardinality(in_use)
    BY <1>1, <2>1, FS_Subset
  <2>3. Cardinality({c \in in_use : c <= b}) \in Nat
    BY <2>2, FS_CardinalityType
  <2> QED BY <1>2, <2>2, <2>3 DEF Order
<1> QED BY <1>2, <1>3 DEF Steps
-----------------------------------------------------------------------------
(* The volume: what clients know *)

\* What a client was told last and the steps it missed since add up to the counter,
\* as long as it did not go round; a client that missed no step knows the state.
Counted(b) ==
  \/ view[b] = NoView
  \/ missed[b] = CounterSize
  \/ /\ vcs.change_counter = (view[b].change_counter + missed[b]) % CounterSize
     /\ missed[b] = 0 => view[b] = vcs

VolumeInv ==
  /\ VolumeTypeOK
  /\ \A b \in Blocks : Counted(b) /\ (b \notin in_use => view[b] = NoView)

LEMMA NotifyCounts ==
  ASSUME VolumeInv, NEW state \in VolumeStates, state.change_counter = vcs.change_counter,
         NEW notified \in SUBSET in_use, Notify(state, notified)
  PROVE  /\ vcs' \in VolumeStates
         /\ vcs'.volume_setting = state.volume_setting /\ vcs'.mute_state = state.mute_state
         /\ view' \in [Blocks -> VolumeStates \cup {NoView}]
         /\ missed' \in [Blocks -> 0..CounterSize]
         /\ \A b \in Blocks : Counted(b)' /\ (b \notin in_use => view'[b] = NoView)
<1> DEFINE n == Steps(notified)
           place == Order(in_use)
           After(k) == [state EXCEPT !.change_counter = (@ + k) % CounterSize]
           since(b) == IF b \in notified THEN n - place[b]
                       ELSE IF view[b] = NoView THEN 0 ELSE missed[b] + n
<1>1. VolumeTypeOK /\ CounterSize \in Nat \ {0} /\ in_use \subseteq Blocks
  BY VolumeConstants DEF VolumeInv, VolumeTypeOK
<1>2. n \in Nat /\ (in_use # {} => n # 0) /\ \A b \in in_use : place[b] \in 0..n
  BY <1>1, Places
<1>3. state.change_counter \in Nat
  BY <1>1 DEF VolumeStates, Counters
<1>4. \A k \in Nat : /\ After(k) \in VolumeStates
                     /\ After(k).change_counter = (state.change_counter + k) % CounterSize
                     /\ After(k).volume_setting = state.volume_setting
                     /\ After(k).mute_state = state.mute_state
  <2> TAKE k \in Nat
  <2>1. state.change_counter + k \in Int
    BY <1>3
  <2>2. (state.change_counter + k) % CounterSize \in Counters
    BY <1>1, <2>1, Divided, Zenon DEF Counters
  <2> QED BY <2>2 DEF VolumeStates
<1>5. /\ vcs' = After(n)
      /\ view' = [b \in Blocks |-> IF b \in notified THEN After(place[b]) ELSE view[b]]
      /\ missed' = [b \in Blocks |-> IF since(b) < CounterSize THEN since(b) ELSE CounterSize]
  BY DEF Notify
<1>6. \A b \in Blocks : missed[b] \in 0..CounterSize /\ view[b] \in VolumeStates \cup {NoView}
  BY <1>1 DEF VolumeTypeOK
<1>7. \A b \in Blocks : since(b) \in Nat
  BY <1>1, <1>2, <1>6
<1> HIDE DEF n, place, After
<1>8. ASSUME NEW b \in Blocks PROVE Counted(b)'
  <2>1. CASE b \in notified
    <3>1. /\ place[b] \in Nat /\ n - place[b] \in Nat
          /\ view'[b] = After(place[b])
          /\ missed'[b] = n - place[b] \/ missed'[b] = CounterSize
          /\ missed'[b] = 0 => n = place[b]
      BY <1>1, <1>2, <1>5, <2>1
    <3>2. (((state.change_counter + place[b]) % CounterSize) + (n - place[b])) % CounterSize
            = (state.change_counter + n) % CounterSize
      <4>1. (((state.change_counter + place[b]) % CounterSize) + (n - place[b])) % CounterSize
              = ((state.change_counter + place[b]) + (n - place[b])) % CounterSize
        <5>1. state.change_counter + place[b] \in Int /\ n - place[b] \in Int
          BY <1>2, <1>3, <3>1
        <5> QED BY <1>1, <5>1, StepsAddUp, Zenon
      <4>2. (state.change_counter + place[b]) + (n - place[b]) = state.change_counter + n
        BY <1>2, <1>3, <3>1
      <4> QED BY <4>1, <4>2
    <3> QED BY <1>2, <1>4, <1>5, <3>1, <3>2 DEF Counted
  <2>2. CASE b \notin notified /\ view[b] # NoView /\ missed[b] # CounterSize
    <3>1. /\ view'[b] = view[b]
          /\ missed'[b] = missed[b] + n \/ missed'[b] = CounterSize
          /\ missed'[b] # 0
      <4>1. n # 0 /\ missed[b] \in Nat /\ since(b) = missed[b] + n
        BY <1>1, <1>2, <1>6, <2>2 DEF VolumeInv
      <4> QED BY <1>1, <1>2, <1>5, <2>2, <4>1
    <3>2. vcs.change_counter = (view[b].change_counter + missed[b]) % CounterSize
      BY <2>2 DEF VolumeInv, Counted
    <3>3. view[b].change_counter \in Nat /\ missed[b] \in Nat
      BY <1>1, <1>6, <2>2 DEF VolumeStates, Counters
    <3>4. (vcs.change_counter + n) % CounterSize
            = (view[b].change_counter + (missed[b] + n)) % CounterSize
      <4>1. (vcs.change_counter + n) % CounterSize
              = ((view[b].change_counter + missed[b]) + n) % CounterSize
        <5>1. view[b].change_counter + missed[b] \in Int /\ n \in Int
          BY <1>2, <3>3
        <5> QED BY <1>1, <3>2, <5>1, StepsAddUp, Zenon
      <4>2. (view[b].change_counter + missed[b]) + n = view[b].change_counter + (missed[b] + n)
        BY <1>2, <3>3
      <4> QED BY <4>1, <4>2
    <3> QED BY <1>2, <1>4, <1>5, <3>1, <3>4 DEF Counted
  <2>3. CASE b \notin notified /\ (view[b] = NoView \/ missed[b] = CounterSize)
    <3>1. view'[b] = view[b] /\ (view[b] # NoView => missed'[b] = CounterSize)
      BY <1>1, <1>2, <1>5, <2>3
    <3> QED BY <3>1 DEF Counted
  <2> QED BY <2>1, <2>2, <2>3
<1>9. \A b \in Blocks : b \notin in_use => view'[b] = NoView
  BY <1>5 DEF VolumeInv
<1>10. view' \in [Blocks -> VolumeStates \cup {NoView}]
  BY <1>1, <1>2, <1>4, <1>5, <1>6
<1>11. missed' \in [Blocks -> 0..CounterSize]
  BY <1>1, <1>5, <1>7
<1> QED BY <1>2, <1>4, <1>5, <1>8, <1>9, <1>10, <1>11

LEMMA SetVolumeCounts ==
  ASSUME VolumeInv, NEW op \in VolumeOpcodes, NEW vol \in VolumesOf(op),
         NEW notified \in SUBSET in_use, SetVolume(op, vol, notified)
  PROVE  VolumeInv'
<1> DEFINE state == Requested(op, vol)
<1>1. VolumeTypeOK /\ state \in VolumeStates /\ state.change_counter = vcs.change_counter
  BY RequestedType DEF VolumeInv
<1>2. /\ Notify(state, notified) /\ Drive(state) /\ TellHost(op, state)
      /\ in_use' = in_use /\ vocs' = vocs
  BY DEF SetVolume
<1> HIDE DEF state
<1>3. /\ vcs' \in VolumeStates
      /\ view' \in [Blocks -> VolumeStates \cup {NoView}]
      /\ missed' \in [Blocks -> 0..CounterSize]
      /\ \A b \in Blocks : Counted(b)' /\ (b \notin in_use' => view'[b] = NoView)
  BY <1>1, <1>2, NotifyCounts
<1>4. state.volume_setting \in Volumes /\ state.mute_state \in BOOLEAN
  BY <1>1 DEF VolumeStates
<1>5. prev' \in [volume: Volumes, mute: BOOLEAN] /\ speaker' \in 0..(MaxVolume \div PlatformStep)
  BY <1>2, <1>4, PlayedType DEF Drive
<1>6. shows' \in [volume: Volumes \cup {NoView}, mute: BOOLEAN \cup {NoView}]
  BY <1>1, <1>2, <1>4 DEF TellHost, VolumeTypeOK
<1> QED BY <1>1, <1>2, <1>3, <1>5, <1>6 DEF VolumeInv, VolumeTypeOK

LEMMA WriteOffsetType ==
  ASSUME VolumeTypeOK, NEW b, NEW counter, NEW offset \in -MaxOffset..MaxOffset,
         WriteOffset(b, counter, offset)
  PROVE  vocs' \in [volume_offset: 0..MaxOffset, change_counter: Counters]
<1>1. MaxOffset \in Nat /\ OffsetSize \in Nat \ {0} /\ CounterSize \in Nat \ {0}
  BY VolumeConstants
<1>2. offset \in Int /\ vocs.change_counter + 1 \in Int
  BY <1>1 DEF VolumeTypeOK, Counters
<1>3. offset % OffsetSize \in 0..(OffsetSize - 1)
      /\ (vocs.change_counter + 1) % CounterSize \in Counters
  BY <1>1, <1>2, Divided, Zenon DEF Counters
<1>4. offset % OffsetSize \in 0..MaxOffset
  BY <1>1, <1>3 DEF WriteOffset
<1> QED BY <1>3, <1>4 DEF WriteOffset

LEMMA VolumeStep == VolumeInv /\ [VolumeNext]_volumeVars => VolumeInv'
<1> SUFFICES ASSUME VolumeInv, [VolumeNext]_volumeVars
             PROVE  VolumeInv'
  OBVIOUS
<1>0. VolumeTypeOK /\ CounterSize \in Nat \ {0}
  BY VolumeConstants DEF VolumeInv
<1>1. CASE UNCHANGED volumeVars
  BY <1>1 DEF volumeVars, VolumeInv, VolumeTypeOK, Counted
<1>2. ASSUME NEW op \in VolumeOpcodes, NEW notified \in SUBSET in_use, NEW vol \in VolumesOf(op),
             (\E b \in Blocks : WriteVolume(b, op, vol, notified)) \/ HostVolume(op, vol, notified)
      PROVE  VolumeInv'
  BY <1>2, SetVolumeCounts DEF WriteVolume, HostVolume
<1>3. ASSUME NEW b \in Blocks, ReadVolume(b)
      PROVE  VolumeInv'
  <2>1. vcs.change_counter = (vcs.change_counter + 0) % CounterSize
    <3>1. vcs.change_counter \in 0..(CounterSize - 1) /\ vcs.change_counter + 0 = vcs.change_counter
      BY <1>0 DEF VolumeTypeOK, VolumeStates, Counters
    <3> QED BY <1>0, <3>1
  <2>2. VolumeTypeOK'
    BY <1>0, <1>3 DEF ReadVolume, VolumeTypeOK
  <2> QED BY <1>0, <1>3, <2>1, <2>2 DEF ReadVolume, VolumeInv, VolumeTypeOK, Counted
<1>4. ASSUME NEW b \in Blocks, NEW n \in Counters, NEW offset \in -MaxOffset..MaxOffset,
             WriteOffset(b, n, offset)
      PROVE  VolumeInv'
  <2>1. vocs' \in [volume_offset: 0..MaxOffset, change_counter: Counters]
    BY <1>0, <1>4, WriteOffsetType
  <2> QED BY <1>4, <2>1 DEF WriteOffset, VolumeInv, VolumeTypeOK, Counted
<1>5. CASE StartPlayback
  <2>1. speaker' \in 0..(MaxVolume \div PlatformStep)
    BY <1>0, <1>5, PlayedType DEF StartPlayback, VolumeTypeOK
  <2> QED BY <1>5, <2>1 DEF StartPlayback, VolumeInv, VolumeTypeOK, Counted
<1>6. ASSUME NEW b \in Blocks, OpenBlock(b) \/ CloseBlock(b)
      PROVE  VolumeInv'
  <2>1. VolumeTypeOK'
    BY <1>0, <1>6 DEF OpenBlock, CloseBlock, VolumeTypeOK
  <2> QED BY <1>0, <1>6, <2>1 DEF OpenBlock, CloseBlock, VolumeInv, VolumeTypeOK, Counted
<1> QED BY <1>1, <1>2, <1>3, <1>4, <1>5, <1>6 DEF VolumeNext

LEMMA VolumeStart == VolumeInit => VolumeInv
<1> SUFFICES ASSUME VolumeInit PROVE VolumeInv
  OBVIOUS
<1>1. DefaultVolume \in Volumes /\ MaxOffset \in Nat /\ CounterSize \in Nat \ {0} /\ 0 \in Counters
  BY VolumeConstants DEF Volumes, Counters
<1>2. speaker \in 0..(MaxVolume \div PlatformStep)
  BY <1>1, PlayedType DEF VolumeInit
<1>3. /\ in_use \in SUBSET Blocks /\ vcs \in VolumeStates
      /\ vocs \in [volume_offset: 0..MaxOffset, change_counter: Counters]
  BY <1>1 DEF VolumeInit, VolumeStates
<1>4. /\ view \in [Blocks -> VolumeStates \cup {NoView}] /\ missed \in [Blocks -> 0..CounterSize]
      /\ \A b \in Blocks : view[b] = NoView
  BY <1>1 DEF VolumeInit
<1>5. /\ prev \in [volume: Volumes, mute: BOOLEAN]
      /\ shows \in [volume: Volumes \cup {NoView}, mute: BOOLEAN \cup {NoView}]
  BY <1>1 DEF VolumeInit
<1> QED BY <1>2, <1>3, <1>4, <1>5 DEF VolumeInv, VolumeTypeOK, Counted

LEMMA VolumeAlways == VolumeSpec => []VolumeInv
  BY VolumeStart, VolumeStep, PTL DEF VolumeSpec

\* All state of the volume keeps its type: volumes, counters and offsets stay in their
\* ranges whatever clients and the host ask for.
THEOREM VolumeTypeCorrect == VolumeSpec => []VolumeTypeOK
<1>1. VolumeInv => VolumeTypeOK
  BY DEF VolumeInv
<1> QED BY <1>1, VolumeAlways, PTL

\* A client with the counter of the headset knows the volume and mute state it changes,
\* for any number of clients and lost notifications, unless the counter went round.
THEOREM InformedVolume == VolumeSpec => []InformedVolumeWrite
<1>1. VolumeInv => InformedVolumeWrite
  <2> SUFFICES ASSUME VolumeInv, NEW b \in in_use, view[b] # NoView,
                      view[b].change_counter = vcs.change_counter, missed[b] < CounterSize
               PROVE  view[b] = vcs
    BY DEF InformedVolumeWrite
  <2>1. /\ b \in Blocks /\ view[b] \in VolumeStates /\ CounterSize \in Nat \ {0}
        /\ missed[b] \in 0..CounterSize
    BY VolumeConstants DEF VolumeInv, VolumeTypeOK
  <2>2. missed[b] \in 0..(CounterSize - 1) /\ view[b].change_counter \in 0..(CounterSize - 1)
    BY <2>1 DEF VolumeStates, Counters
  <2>3. /\ view[b].change_counter = (view[b].change_counter + missed[b]) % CounterSize
        /\ missed[b] = 0 => view[b] = vcs
    BY <2>1, <2>2 DEF VolumeInv, Counted
  <2>4. missed[b] \notin 1..(CounterSize - 1)
    BY <2>1, <2>2, <2>3, StepsShow, Zenon
  <2> QED BY <2>2, <2>3, <2>4
<1> QED BY <1>1, VolumeAlways, PTL

\* The loudspeaker plays the volume state: clients, the host and streams that start all
\* leave the driver with it.
THEOREM SpeakerPlays == VolumeSpec => []SpeakerPlaysState
<1> DEFINE Driven == /\ prev = [volume |-> vcs.volume_setting, mute |-> vcs.mute_state]
                     /\ SpeakerPlaysState
<1>1. VolumeInit => Driven
  BY DEF VolumeInit, SpeakerPlaysState
<1>2. VolumeInv /\ Driven /\ [VolumeNext]_volumeVars => Driven'
  <2> SUFFICES ASSUME VolumeInv, Driven, [VolumeNext]_volumeVars PROVE Driven'
    OBVIOUS
  <2>1. ASSUME NEW op \in VolumeOpcodes, NEW notified \in SUBSET in_use, NEW vol \in VolumesOf(op),
               SetVolume(op, vol, notified)
        PROVE  Driven'
    <3>1. /\ vcs'.volume_setting = Requested(op, vol).volume_setting
          /\ vcs'.mute_state = Requested(op, vol).mute_state
      BY <2>1, RequestedType, NotifyCounts DEF VolumeInv, SetVolume
    <3> QED BY <2>1, <3>1 DEF SetVolume, Drive, SpeakerPlaysState
  <2>2. CASE StartPlayback
    BY <2>2 DEF StartPlayback, SpeakerPlaysState
  <2>3. CASE prev' = prev /\ vcs' = vcs /\ speaker' = speaker
    BY <2>3 DEF SpeakerPlaysState
  <2> QED BY <2>1, <2>2, <2>3
       DEF VolumeNext, WriteVolume, HostVolume, ReadVolume, WriteOffset, OpenBlock, CloseBlock, volumeVars
<1>3. Driven => SpeakerPlaysState
  OBVIOUS
<1> QED BY <1>1, <1>2, <1>3, VolumeAlways, PTL DEF VolumeSpec

\* The host shows the volume and the mute state as they are, although each event has
\* only what its opcode is about.
THEOREM HostVolumeShown == VolumeSpec => []HostShowsVolume
<1>1. VolumeInit => HostShowsVolume
  BY DEF VolumeInit, HostShowsVolume
<1>2. VolumeInv /\ HostShowsVolume /\ [VolumeNext]_volumeVars => HostShowsVolume'
  <2> SUFFICES ASSUME VolumeInv, HostShowsVolume, [VolumeNext]_volumeVars PROVE HostShowsVolume'
    OBVIOUS
  <2>1. ASSUME NEW op \in VolumeOpcodes, NEW notified \in SUBSET in_use, NEW vol \in VolumesOf(op),
               SetVolume(op, vol, notified)
        PROVE  HostShowsVolume'
    <3>1. /\ vcs'.volume_setting = Requested(op, vol).volume_setting
          /\ vcs'.mute_state = Requested(op, vol).mute_state
      BY <2>1, RequestedType, NotifyCounts DEF VolumeInv, SetVolume
    <3>2. /\ op.volume = "keep" => vcs'.volume_setting = vcs.volume_setting
          /\ op.mute = "keep" => vcs'.mute_state = vcs.mute_state
      BY <3>1, RequestedType DEF VolumeInv
    <3> QED BY <2>1, <3>1, <3>2 DEF SetVolume, TellHost, HostShowsVolume
  <2>2. CASE vcs' = vcs /\ shows' = shows
    BY <2>2 DEF HostShowsVolume
  <2> QED BY <2>1, <2>2
       DEF VolumeNext, WriteVolume, HostVolume, ReadVolume, WriteOffset, StartPlayback, OpenBlock,
           CloseBlock, volumeVars
<1> QED BY <1>1, <1>2, VolumeAlways, PTL DEF VolumeSpec

\* Loudspeaker and host both follow the volume state.
THEOREM VolumeFollowed == VolumeSpec => []SpeakerAndHostFollow
<1>1. SpeakerPlaysState /\ HostShowsVolume => SpeakerAndHostFollow
  BY DEF SpeakerAndHostFollow
<1> QED BY <1>1, SpeakerPlays, HostVolumeShown, PTL
-----------------------------------------------------------------------------
(* The microphone *)

InputsShown == [gain: Gains, mute: MuteStates, mode: {"manual", "auto"}]

\* As for the volume: what a client was told and the changes since add up.
InputCounted(c) ==
  \/ known[c] = Untold
  \/ changes[c] = CounterValues
  \/ /\ input.change_counter = (known[c].change_counter + changes[c]) % CounterValues
     /\ changes[c] = 0 => known[c] = input

\* The driver got its mute state from one of the two services that drive it.
DrivenByEither == driver.mute \in {mics, input.mute_mode}

\* The volume is 0 from a mute to the next change of the mute state.
MutedIsSilent == driver.mute # Unmuted => platform.volume = 0

MicrophoneInv ==
  /\ MicrophoneTypeOK
  /\ shown \in [mute: MuteStates \cup {Untold}, input: InputsShown \cup {Untold}]
  /\ \A c \in Clients : InputCounted(c)
  /\ DrivenByEither
  /\ MutedIsSilent
  /\ HostShowsMicrophone

LEMMA PlatformType ==
  ASSUME NEW gain \in Int
  PROVE  Platform(gain) \in Int /\ (gain >= 0 => Platform(gain) \in Nat)
<1>1. GainStep \in Nat \ {0}
  BY MicrophoneConstants
<1>2. gain \div GainStep \in Int /\ (-gain) \div GainStep \in Int
  BY <1>1, Divided
<1>3. gain >= 0 => gain \div GainStep \in Nat
  BY <1>1, QuotientGrows
<1> QED BY <1>2, <1>3 DEF Platform

LEMMA InByteType ==
  ASSUME NEW gain \in Int
  PROVE  InByte(gain) \in 0..(2 * MaxGain + 1)
<1>1. 2 * MaxGain + 2 \in Nat \ {0} /\ (2 * MaxGain + 2) - 1 = 2 * MaxGain + 1
  BY MicrophoneConstants
<1> QED BY <1>1, Divided DEF InByte

LEMMA DriveMuteType ==
  ASSUME MicrophoneTypeOK, NEW mute \in MuteStates, DriveMute(mute)
  PROVE  /\ driver' \in [gain: 0..(2 * MaxGain + 1), mute: MuteStates]
         /\ driver'.mute = mute
         /\ platform' \in [volume: Nat, gain: Int]
         /\ MutedIsSilent'
<1>1. driver.gain \in Int /\ driver.gain >= 0
  BY MicrophoneConstants DEF MicrophoneTypeOK
<1>2. Platform(driver.gain) \in Nat
  BY <1>1, PlatformType
<1> QED BY <1>2 DEF DriveMute, MicrophoneTypeOK, MutedIsSilent

LEMMA DriveGainType ==
  ASSUME MicrophoneTypeOK, MutedIsSilent, NEW gain \in Gains, DriveGain(gain)
  PROVE  /\ driver' \in [gain: 0..(2 * MaxGain + 1), mute: MuteStates]
         /\ driver'.mute = driver.mute
         /\ platform' \in [volume: Nat, gain: Int]
         /\ MutedIsSilent'
<1>1. gain \in Int
  BY MicrophoneConstants DEF Gains
<1>2. Platform(gain) \in Int /\ InByte(gain) \in 0..(2 * MaxGain + 1)
  BY <1>1, PlatformType, InByteType
<1> QED BY <1>2 DEF DriveGain, MicrophoneTypeOK, MutedIsSilent

\* A change of the input steps the counter for everybody and is told to one client.
LEMMA NotifyInputCounts ==
  ASSUME MicrophoneInv, NEW state \in InputStates, state.change_counter = input.change_counter,
         NEW c \in Clients, NEW reaches \in BOOLEAN, NotifyInput(c, reaches, state)
  PROVE  /\ input' \in InputStates
         /\ Shown(input') = Shown(state)
         /\ input'.mute_mode = state.mute_mode
         /\ known' \in [Clients -> InputStates \cup {Untold}]
         /\ changes' \in [Clients -> 0..CounterValues]
         /\ \A d \in Clients : InputCounted(d)'
<1>1. MicrophoneTypeOK /\ CounterValues \in Nat \ {0} /\ input.change_counter \in Nat
  BY MicrophoneConstants DEF MicrophoneInv, MicrophoneTypeOK, InputStates
<1>2. (input.change_counter + 1) % CounterValues \in 0..(CounterValues - 1)
  <2>1. input.change_counter + 1 \in Int
    BY <1>1
  <2> QED BY <1>1, <2>1, Divided, Zenon
<1>3. /\ input' = [state EXCEPT !.change_counter = (input.change_counter + 1) % CounterValues]
      /\ input' \in InputStates
      /\ input'.change_counter = (input.change_counter + 1) % CounterValues
  BY <1>2 DEF NotifyInput, StepCounter, InputStates
<1>4. /\ known' = IF reaches THEN [known EXCEPT ![c] = input'] ELSE known
      /\ changes' = [d \in Clients |->
           IF reaches /\ d = c THEN 0
           ELSE IF known[d] = Untold \/ changes[d] = CounterValues THEN changes[d]
           ELSE changes[d] + 1]
  BY DEF NotifyInput
<1>5. \A d \in Clients : known[d] \in InputStates \cup {Untold} /\ changes[d] \in 0..CounterValues
  BY <1>1 DEF MicrophoneTypeOK
<1>6. ASSUME NEW d \in Clients PROVE InputCounted(d)'
  <2>1. CASE reaches /\ d = c
    <3>1. input'.change_counter \in 0..(CounterValues - 1)
      BY <1>2, <1>3
    <3>2. input'.change_counter = (input'.change_counter + 0) % CounterValues
      BY <1>1, <3>1
    <3>3. known'[d] = input' /\ changes'[d] = 0
      BY <1>1, <1>4, <2>1 DEF MicrophoneTypeOK
    <3> QED BY <3>2, <3>3 DEF InputCounted
  <2>2. CASE ~(reaches /\ d = c) /\ (known[d] = Untold \/ changes[d] = CounterValues)
    BY <1>1, <1>4, <2>2 DEF MicrophoneTypeOK, InputCounted
  <2>3. CASE ~(reaches /\ d = c) /\ known[d] # Untold /\ changes[d] # CounterValues
    <3>1. known'[d] = known[d] /\ changes'[d] = changes[d] + 1 /\ changes'[d] # 0
      BY <1>1, <1>4, <1>5, <2>3 DEF MicrophoneTypeOK
    <3>2. input.change_counter = (known[d].change_counter + changes[d]) % CounterValues
      BY <2>3 DEF MicrophoneInv, InputCounted
    <3>3. known[d].change_counter \in Nat /\ changes[d] \in Nat
      BY <1>1, <1>5, <2>3 DEF InputStates
    <3>4. (input.change_counter + 1) % CounterValues
            = (known[d].change_counter + changes[d] + 1) % CounterValues
      <4>1. known[d].change_counter + changes[d] \in Int /\ 1 \in Int
        BY <3>3
      <4> QED BY <1>1, <3>2, <4>1, StepsAddUp, Zenon
    <3>5. known[d].change_counter + changes[d] + 1 = known[d].change_counter + (changes[d] + 1)
      BY <3>3
    <3> QED BY <1>3, <3>1, <3>4, <3>5 DEF InputCounted
  <2> QED BY <2>1, <2>2, <2>3
<1>7. known' \in [Clients -> InputStates \cup {Untold}]
  BY <1>1, <1>3, <1>4 DEF MicrophoneTypeOK
<1>8. changes' \in [Clients -> 0..CounterValues]
  BY <1>1, <1>4, <1>5
<1> QED BY <1>3, <1>6, <1>7, <1>8 DEF Shown, InputStates

\* A change of the input that leaves the driver with one of the two mute states, and
\* is told to the host, keeps everything.
LEMMA InputChange ==
  ASSUME MicrophoneInv, NEW state \in InputStates, state.change_counter = input.change_counter,
         NEW c \in Clients, NEW reaches \in BOOLEAN, NotifyInput(c, reaches, state), TellInput(state),
         driver' \in [gain: 0..(2 * MaxGain + 1), mute: MuteStates],
         platform' \in [volume: Nat, gain: Int],
         mics' = mics, driver'.mute \in {mics, state.mute_mode}, MutedIsSilent'
  PROVE  MicrophoneInv'
<1>1. /\ input' \in InputStates /\ Shown(input') = Shown(state) /\ input'.mute_mode = state.mute_mode
      /\ known' \in [Clients -> InputStates \cup {Untold}]
      /\ changes' \in [Clients -> 0..CounterValues]
      /\ \A d \in Clients : InputCounted(d)'
  BY NotifyInputCounts
<1>2. Shown(state) \in InputsShown
  BY DEF Shown, InputStates, InputsShown
<1>3. /\ shown' \in [mute: MuteStates \cup {Untold}, input: InputsShown \cup {Untold}]
      /\ shown'.mute = shown.mute /\ shown'.input = Shown(state)
  BY <1>2 DEF TellInput, MicrophoneInv
<1>4. MicrophoneTypeOK'
  BY <1>1, <1>3 DEF MicrophoneInv, MicrophoneTypeOK
<1>5. HostShowsMicrophone'
  BY <1>1, <1>3 DEF MicrophoneInv, HostShowsMicrophone
<1> QED BY <1>1, <1>3, <1>4, <1>5 DEF MicrophoneInv, DrivenByEither

LEMMA LimitedType ==
  ASSUME NEW gain \in Int
  PROVE  Limited(gain) \in Gains
BY MicrophoneConstants DEF Limited, Gains

LEMMA WritesKeep ==
  ASSUME MicrophoneInv, NEW c \in Clients, NEW reaches \in BOOLEAN,
         \/ \E gain \in Gains : WriteGain(c, gain, reaches)
         \/ \E gain \in HostGains : HostGain(c, gain, reaches)
         \/ \E mute \in MuteStates : WriteMute(c, mute, reaches) \/ HostMute(c, mute, reaches)
         \/ \E mode \in {"manual", "auto"} : WriteGainMode(c, mode, reaches)
  PROVE  MicrophoneInv'
<1>0. /\ MicrophoneTypeOK /\ MutedIsSilent
      /\ input \in InputStates /\ driver.mute \in {mics, input.mute_mode}
  BY DEF MicrophoneInv, MicrophoneTypeOK, DrivenByEither
<1>1. ASSUME NEW gain \in Gains, DriveGain(gain), mics' = mics,
             NotifyInput(c, reaches, [input EXCEPT !.gain_setting = gain]),
             TellInput([input EXCEPT !.gain_setting = gain])
      PROVE  MicrophoneInv'
  <2> DEFINE state == [input EXCEPT !.gain_setting = gain]
  <2>1. /\ state \in InputStates /\ state.change_counter = input.change_counter
        /\ state.mute_mode = input.mute_mode
    BY <1>0 DEF InputStates
  <2> HIDE DEF state
  <2>2. /\ driver' \in [gain: 0..(2 * MaxGain + 1), mute: MuteStates]
        /\ driver'.mute = driver.mute /\ platform' \in [volume: Nat, gain: Int]
        /\ MutedIsSilent'
    BY <1>0, <1>1, DriveGainType
  <2> QED BY <1>0, <1>1, <2>1, <2>2, InputChange DEF state
<1>2. ASSUME NEW mute \in MuteStates, DriveMute(mute), mics' = mics,
             NotifyInput(c, reaches, [input EXCEPT !.mute_mode = mute]),
             TellInput([input EXCEPT !.mute_mode = mute])
      PROVE  MicrophoneInv'
  <2> DEFINE state == [input EXCEPT !.mute_mode = mute]
  <2>1. /\ state \in InputStates /\ state.change_counter = input.change_counter
        /\ state.mute_mode = mute
    BY <1>0 DEF InputStates
  <2> HIDE DEF state
  <2>2. /\ driver' \in [gain: 0..(2 * MaxGain + 1), mute: MuteStates]
        /\ driver'.mute = mute /\ platform' \in [volume: Nat, gain: Int]
        /\ MutedIsSilent'
    BY <1>0, <1>2, DriveMuteType
  <2> QED BY <1>2, <2>1, <2>2, InputChange DEF state
<1>3. ASSUME NEW mode \in {"manual", "auto"}, WriteGainMode(c, mode, reaches)
      PROVE  MicrophoneInv'
  <2> DEFINE state == [input EXCEPT !.gain_mode = mode]
  <2>1. /\ state \in InputStates /\ state.change_counter = input.change_counter
        /\ state.mute_mode = input.mute_mode
    BY <1>0 DEF InputStates
  <2> HIDE DEF state
  <2>2. /\ NotifyInput(c, reaches, state) /\ TellInput(state) /\ mics' = mics
        /\ driver' = driver /\ platform' = platform
    BY <1>3 DEF WriteGainMode, state
  <2>3. /\ driver' \in [gain: 0..(2 * MaxGain + 1), mute: MuteStates]
        /\ platform' \in [volume: Nat, gain: Int]
        /\ MutedIsSilent'
    BY <1>0, <2>2 DEF MicrophoneTypeOK, MutedIsSilent
  <2> QED BY <1>0, <2>1, <2>2, <2>3, InputChange
<1>4. ASSUME NEW wanted \in HostGains, HostGain(c, wanted, reaches)
      PROVE  MicrophoneInv'
  <2>1. wanted \in Int
    BY <1>0, MicrophoneConstants DEF HostGains, Gains, InputStates
  <2>2. Limited(wanted) \in Gains
    BY <2>1, LimitedType
  <2> QED BY <1>1, <1>4, <2>2 DEF HostGain
<1> QED BY <1>1, <1>2, <1>3, <1>4 DEF WriteGain, WriteMute, HostMute

LEMMA MicrophoneStep == MicrophoneInv /\ [MicrophoneNext]_microphoneVars => MicrophoneInv'
<1> SUFFICES ASSUME MicrophoneInv, [MicrophoneNext]_microphoneVars
             PROVE  MicrophoneInv'
  OBVIOUS
<1>0. MicrophoneTypeOK /\ input \in InputStates /\ CounterValues \in Nat \ {0}
  BY MicrophoneConstants DEF MicrophoneInv, MicrophoneTypeOK
<1>1. CASE UNCHANGED microphoneVars
  BY <1>1 DEF microphoneVars, MicrophoneInv, MicrophoneTypeOK, InputCounted, DrivenByEither,
              MutedIsSilent, HostShowsMicrophone, Shown
<1>2. ASSUME NEW mute \in MuteStates, SetMicsMute(mute)
      PROVE  MicrophoneInv'
  <2>1. /\ driver' \in [gain: 0..(2 * MaxGain + 1), mute: MuteStates]
        /\ driver'.mute = mute /\ platform' \in [volume: Nat, gain: Int]
        /\ MutedIsSilent'
    BY <1>0, <1>2, DriveMuteType DEF SetMicsMute
  <2>2. /\ shown' \in [mute: MuteStates \cup {Untold}, input: InputsShown \cup {Untold}]
        /\ shown'.mute = mute /\ shown'.input = shown.input
    BY <1>2 DEF SetMicsMute, MicrophoneInv
  <2>3. /\ mics' = mute /\ input' = input /\ known' = known /\ changes' = changes
    BY <1>2 DEF SetMicsMute
  <2>4. MicrophoneTypeOK'
    BY <1>0, <2>1, <2>2, <2>3 DEF MicrophoneTypeOK
  <2> QED BY <2>1, <2>2, <2>3, <2>4
       DEF MicrophoneInv, InputCounted, DrivenByEither, HostShowsMicrophone
<1>3. ASSUME NEW c \in Clients, ReadInput(c)
      PROVE  MicrophoneInv'
  <2>1. input.change_counter = (input.change_counter + 0) % CounterValues
    <3>1. input.change_counter \in 0..(CounterValues - 1)
      BY <1>0 DEF InputStates
    <3> QED BY <1>0, <3>1
  <2>2. MicrophoneTypeOK'
    BY <1>0, <1>3 DEF ReadInput, MicrophoneTypeOK
  <2>3. \A d \in Clients : InputCounted(d)'
    BY <1>0, <1>3, <2>1 DEF ReadInput, MicrophoneInv, MicrophoneTypeOK, InputCounted
  <2> QED BY <1>3, <2>2, <2>3
       DEF ReadInput, MicrophoneInv, DrivenByEither, MutedIsSilent, HostShowsMicrophone
<1>4. CASE StartRecording
  <2>1. driver.gain \in Int
    BY <1>0, MicrophoneConstants DEF MicrophoneTypeOK
  <2>2. platform' \in [volume: Nat, gain: Int]
    BY <1>0, <1>4, <2>1, PlatformType DEF StartRecording, MicrophoneTypeOK
  <2>3. MutedIsSilent'
    BY <1>0, <1>4 DEF StartRecording, MicrophoneInv, MicrophoneTypeOK, MutedIsSilent
  <2> QED BY <1>4, <2>2, <2>3 DEF StartRecording, MicrophoneInv, MicrophoneTypeOK, InputCounted,
                                  DrivenByEither, HostShowsMicrophone
<1>5. CASE TellAll
  <2>1. Shown(input) \in InputsShown
    BY <1>0 DEF Shown, InputStates, InputsShown
  <2> QED BY <1>5, <2>1 DEF TellAll, MicrophoneInv, MicrophoneTypeOK, InputCounted, DrivenByEither,
                            MutedIsSilent, HostShowsMicrophone
<1> QED BY <1>1, <1>2, <1>3, <1>4, <1>5, WritesKeep DEF MicrophoneNext

LEMMA MicrophoneStart == MicrophoneInit => MicrophoneInv
<1> SUFFICES ASSUME MicrophoneInit PROVE MicrophoneInv
  OBVIOUS
<1>1. /\ InitialGain \in Gains /\ DriverGain \in 0..(2 * MaxGain + 1)
      /\ CounterValues \in Nat \ {0} /\ 0 \in 0..(CounterValues - 1)
  BY MicrophoneConstants DEF Gains
<1>2. mics \in MuteStates /\ input \in InputStates /\ input.mute_mode = Unmuted
  BY <1>1 DEF MicrophoneInit, InputStates, MuteStates
<1>3. /\ known \in [Clients -> InputStates \cup {Untold}] /\ changes \in [Clients -> 0..CounterValues]
      /\ \A c \in Clients : known[c] = Untold
  BY <1>1 DEF MicrophoneInit
<1>4. /\ driver \in [gain: 0..(2 * MaxGain + 1), mute: MuteStates] /\ driver.mute = mics
      /\ platform \in [volume: Nat, gain: Int]
      /\ shown \in [mute: MuteStates \cup {Untold}, input: InputsShown \cup {Untold}]
      /\ shown.mute = Untold /\ shown.input = Untold
  BY <1>1 DEF MicrophoneInit, MuteStates
<1>5. MutedIsSilent
  BY DEF MicrophoneInit, MutedIsSilent
<1> QED BY <1>2, <1>3, <1>4, <1>5 DEF MicrophoneInv, MicrophoneTypeOK, InputCounted,
                                      DrivenByEither, HostShowsMicrophone

LEMMA MicrophoneAlways == MicrophoneSpec => []MicrophoneInv
  BY MicrophoneStart, MicrophoneStep, PTL DEF MicrophoneSpec

\* All state of the microphone keeps its type: a gain stays in its range whether it is
\* written, asked for by the host or stepped beyond, and fits the byte of the driver.
THEOREM MicrophoneTypeCorrect == MicrophoneSpec => []MicrophoneTypeOK
<1>1. MicrophoneInv => MicrophoneTypeOK
  BY DEF MicrophoneInv
<1> QED BY <1>1, MicrophoneAlways, PTL

\* While MICS and AICS both call the microphone muted, the platform has no volume for
\* it, in any order of writes, commands, gains and starts of streams: what the driver
\* was told last came from one of them.
THEOREM MutedTogether == MicrophoneSpec => []MutedTogetherIsSilent
<1>1. MicrophoneInv => MutedTogetherIsSilent
  BY DEF MicrophoneInv, DrivenByEither, MutedIsSilent, MutedTogetherIsSilent
<1> QED BY <1>1, MicrophoneAlways, PTL

\* A client with the counter of the input knows its gain, mute state and mode, although
\* only the client that writes is notified, unless the counter went round.
THEOREM InformedInput == MicrophoneSpec => []InformedInputWrite
<1>1. MicrophoneInv => InformedInputWrite
  <2> SUFFICES ASSUME MicrophoneInv, NEW c \in Clients, Informed(c), changes[c] < CounterValues
               PROVE  known[c] = input
    BY DEF InformedInputWrite
  <2>1. /\ known[c] \in InputStates /\ CounterValues \in Nat \ {0}
        /\ changes[c] \in 0..CounterValues
    BY MicrophoneConstants DEF MicrophoneInv, MicrophoneTypeOK, Informed
  <2>2. changes[c] \in 0..(CounterValues - 1) /\ known[c].change_counter \in 0..(CounterValues - 1)
    BY <2>1 DEF InputStates
  <2>3. /\ known[c].change_counter = (known[c].change_counter + changes[c]) % CounterValues
        /\ changes[c] = 0 => known[c] = input
    BY <2>1, <2>2 DEF MicrophoneInv, InputCounted, Informed
  <2>4. changes[c] \notin 1..(CounterValues - 1)
    BY <2>1, <2>2, <2>3, StepsShow, Zenon
  <2> QED BY <2>2, <2>3, <2>4
<1> QED BY <1>1, MicrophoneAlways, PTL

\* The host shows the microphone and its input as they are.
THEOREM HostMicrophoneShown == MicrophoneSpec => []HostShowsMicrophone
<1>1. MicrophoneInv => HostShowsMicrophone
  BY DEF MicrophoneInv
<1> QED BY <1>1, MicrophoneAlways, PTL
-----------------------------------------------------------------------------
(* The presets *)

\* A neighbour is found in the table, for both directions and over the wrap of the byte.
LEMMA NeighbourFound ==
  ASSUME NEW index \in 0..Presets, NEW incr \in {-1, 1}
  PROVE  Found(Neighbour(index, incr))
<1>1. Presets \in Nat \ {0} /\ IndexSize \in Nat \ {0} /\ IndexSize > Presets + 1
  BY HearingAccessConstants
<1> QED BY <1>1 DEF Neighbour, Wrapped, Found, Indexes

LEMMA HearingStep == HearingTypeOK /\ [HearingNext]_hearingVars => HearingTypeOK'
<1> SUFFICES ASSUME HearingTypeOK, [HearingNext]_hearingVars
             PROVE  HearingTypeOK'
  OBVIOUS
<1>0. Presets \in Nat \ {0}
  BY HearingAccessConstants
<1>1. ASSUME NEW c \in Listeners, NEW reaches \in BOOLEAN, NEW index, Select(c, index, reaches)
      PROVE  HearingTypeOK'
  <2>1. index \in 0..Presets
    BY <1>0, <1>1 DEF Select, Found, Indexes
  <2> QED BY <1>1, <2>1 DEF Select, HearingTypeOK
<1>2. ASSUME NEW start \in 0..(Presets + 1), NEW num \in 0..(Presets + 1), ReadPresets(start, num)
      PROVE  HearingTypeOK'
  <2>1. start \in 1..Presets
    BY <1>2 DEF ReadPresets, Found, Indexes
  <2>2. Answered(start, num) \in Nat /\ Answered(start, num) <= Presets - start + 1
    BY <1>0, <2>1 DEF Answered
  <2>3. \A i \in 1..Answered(start, num) : PresetRecord(start + i - 1) \in PresetRecords
    BY <1>0, <2>1, <2>2 DEF PresetRecord, PresetRecords, Indexes
  <2>4. response' \in Seq(PresetRecords)
    BY <1>2, <2>2, <2>3 DEF ReadPresets
  <2> QED BY <1>2, <2>4 DEF ReadPresets, HearingTypeOK
<1>3. ASSUME NEW c \in Listeners, ReadActivePreset(c)
      PROVE  HearingTypeOK'
  BY <1>3 DEF ReadActivePreset, HearingTypeOK
<1>4. CASE UNCHANGED hearingVars
  BY <1>4 DEF hearingVars, HearingTypeOK
<1> QED BY <1>1, <1>2, <1>3, <1>4 DEF HearingNext, SetActivePreset, SetNextPreset

\* All state of the presets keeps its type: only records of the table are selected,
\* indicated and sent, whatever is asked for.
THEOREM HearingTypeCorrect == HearingSpec => []HearingTypeOK
<1>1. HearingInit => HearingTypeOK
  BY HearingAccessConstants DEF HearingInit, HearingTypeOK
<1> QED BY <1>1, HearingStep, PTL DEF HearingSpec

\* Stepping to a neighbour and back leads to the same preset, for any number of presets
\* that leaves room in the byte of the index.
THEOREM StepBack == HearingSpec => []StepBackReturns
<1>1. HearingTypeOK => StepBackReturns
  <2> SUFFICES ASSUME active \in 1..Presets, NEW incr \in {-1, 1}
               PROVE  Neighbour(Neighbour(active, incr), -incr) = active
    BY DEF HearingTypeOK, StepBackReturns
  <2>1. Presets \in Nat \ {0} /\ IndexSize \in Nat \ {0} /\ IndexSize > Presets + 1
    BY HearingAccessConstants
  <2>2. CASE incr = 1
    <3>1. Neighbour(active, 1) = IF active = Presets THEN 1 ELSE active + 1
      BY <2>1 DEF Neighbour, Wrapped, Found, Indexes
    <3>2. \A i \in 1..Presets : Neighbour(i, -1) = IF i = 1 THEN Presets ELSE i - 1
      BY <2>1 DEF Neighbour, Wrapped, Found, Indexes
    <3> QED BY <2>1, <2>2, <3>1, <3>2
  <2>3. CASE incr = -1
    <3>1. Neighbour(active, -1) = IF active = 1 THEN Presets ELSE active - 1
      BY <2>1 DEF Neighbour, Wrapped, Found, Indexes
    <3>2. \A i \in 1..Presets : Neighbour(i, 1) = IF i = Presets THEN 1 ELSE i + 1
      BY <2>1 DEF Neighbour, Wrapped, Found, Indexes
    <3> QED BY <2>1, <2>3, <3>1, <3>2
  <2> QED BY <2>2, <2>3
<1> QED BY <1>1, HearingTypeCorrect, PTL

-----------------------------------------------------------------------------
(* The lock *)

LockInv == connected \subseteq Conns /\ LatestGrantIsTimed

LEMMA LockInvInit == LockInit => LockInv
BY DEF LockInit, LockInv, LatestGrantIsTimed

LEMMA LockInvStep == LockInv /\ [LockNext]_lockVars => LockInv'
<1> SUFFICES ASSUME LockInv, [LockNext]_lockVars PROVE LockInv'
  OBVIOUS
<1> USE DEF LockInv, LatestGrantIsTimed
<1>1. ASSUME Timeout PROVE LockInv'
  BY <1>1 DEF Timeout
<1>2. ASSUME NEW c \in Conns, WriteLocked(c) PROVE LockInv'
  BY <1>2 DEF WriteLocked
<1>3. ASSUME NEW c \in Conns, WriteUnlocked(c) PROVE LockInv'
  <2>1. CASE lock = "unlocked" \/ owner # c
    BY <1>3, <2>1 DEF WriteUnlocked, Unlock
  <2>2. CASE ~(lock = "unlocked" \/ owner # c)
    <3>1. owner' \notin granted'
      BY <1>3, <2>2 DEF WriteUnlocked, Unlock
    <3> QED BY <1>3, <3>1 DEF WriteUnlocked
  <2> QED BY <2>1, <2>2
<1>4. ASSUME NEW c \in Conns, WriteReserved(c) PROVE LockInv'
  BY <1>4 DEF WriteReserved
<1>5. ASSUME NEW c \in Conns, ClientComes(c) PROVE LockInv'
  BY <1>5 DEF ClientComes
<1>6. ASSUME NEW c \in Conns, ClientGoes(c) PROVE LockInv'
  BY <1>6 DEF ClientGoes
<1>7. ASSUME NEW c \in Conns, ReadLock(c) PROVE LockInv'
  BY <1>7 DEF ReadLock
<1>8. CASE UNCHANGED lockVars
  BY <1>8 DEF lockVars
<1> QED BY <1>1, <1>2, <1>3, <1>4, <1>5, <1>6, <1>7, <1>8 DEF LockNext

\* The timer that takes the lock back runs as long as its latest owner holds it.
THEOREM GrantTimed == LockSpec => []LatestGrantIsTimed
<1>1. LockInv => LatestGrantIsTimed
  BY DEF LockInv
<1> QED BY <1>1, LockInvInit, LockInvStep, PTL DEF LockSpec

-----------------------------------------------------------------------------
(* Advertising *)

SwiftPairStates == {"SWIFT_PAIR_HIGH_DUTY_CYCLE", "SWIFT_PAIR_LOW_DUTY_CYCLE"}

-----------------------------------------------------------------------------
(* The steps of the state machine *)

\* A state that is not swift pair's is left for one that is only when swift pair is on,
\* and the state machine never gets to MAX.
LEMMA NextStates ==
  ASSUME NEW s \in AdvStates
  PROVE  /\ SwiftPairNext(s) \in AdvStates \ {"MAX"}
         /\ RegularNext(s) \in {"IDLE", "REGULAR_ADV"}
  BY DEF SwiftPairNext, RegularNext, AdvStates

\* Where a move leads to, and that the host is told that very state.
LEMMA MoveShows ==
  ASSUME AdvTypeOK, NEW s \in AdvStates, NEW swift \in BOOLEAN, MoveToNext(s, swift)
  PROVE  /\ adv_state' \in AdvStates \ {"MAX"}
         /\ adv_shown' = adv_state'
         /\ on_air' \in BOOLEAN /\ refused' \in BOOLEAN
         /\ on_air' => adv_shown' # "IDLE"
         /\ adv_shown' # "IDLE" => on_air' \/ refused'
         /\ adv_state' \in SwiftPairStates => swift
<1> DEFINE next == IF swift THEN SwiftPairNext(s) ELSE RegularNext(s)
<1>1. next \in AdvStates \ {"MAX"} /\ (next \in SwiftPairStates => swift)
  BY NextStates DEF AdvStates, SwiftPairStates
<1>2. adv_state' = next
  BY DEF MoveToNext
<1>3. CASE next # "IDLE"
  <2>1. StartAdv(next)
    BY <1>3 DEF MoveToNext
  <2>2. PICK ok \in BOOLEAN : on_air' = (on_air \/ ok) /\ refused' = ~ok
    BY <2>1 DEF StartAdv
  <2>3. adv_shown' = next
    BY <2>1 DEF StartAdv
  <2>4. on_air' \in BOOLEAN /\ refused' \in BOOLEAN /\ (on_air' \/ refused')
    BY <2>2 DEF AdvTypeOK
  <2> QED
    BY <1>1, <1>2, <1>3, <2>3, <2>4
<1>4. CASE next = "IDLE"
  <2>1. on_air' = FALSE /\ refused' = FALSE /\ adv_shown' = "IDLE"
    BY <1>4 DEF MoveToNext, StopAdv
  <2> QED
    BY <1>1, <1>2, <1>4, <2>1
<1> QED
  BY <1>3, <1>4

-----------------------------------------------------------------------------
(* The invariant *)

AdvInv == AdvTypeOK /\ AdvertisingIsShown /\ SwiftPairIsAsked

LEMMA EventsQueue ==
  ASSUME NEW q \in Seq({0, 1})
  PROVE  /\ \A e \in {0, 1} : Append(q, e) \in Seq({0, 1}) /\ Len(Append(q, e)) = Len(q) + 1
                              /\ Append(q, e) # <<>>
         /\ Len(q) \in Nat
         /\ q # <<>> => Tail(q) \in Seq({0, 1}) /\ Len(Tail(q)) = Len(q) - 1 /\ Head(q) \in {0, 1}
  OBVIOUS

LEMMA AdvInvInit == AdvInit => AdvInv
<1> SUFFICES ASSUME AdvInit PROVE AdvInv
  OBVIOUS
<1>1. ended \in Seq({0, 1}) /\ Len(ended) = 0 /\ links = 0
  BY DEF AdvInit
<1>2. Len(ended) <= MaxEvents /\ links \in 0..MaxLinks
  BY <1>1, AdvertisingConstants
<1>3. AdvTypeOK
  BY <1>1, <1>2 DEF AdvInit, AdvTypeOK, AdvStates
<1>4. AdvertisingIsShown /\ SwiftPairIsAsked
  BY DEF AdvInit, AdvertisingIsShown, SwiftPairIsAsked
<1> QED
  BY <1>3, <1>4 DEF AdvInv

\* The host's commands move the state from where it is, or stop from MAX.
LEMMA HostAdvKeeps ==
  ASSUME AdvInv, NEW adv \in BOOLEAN, NEW swift \in BOOLEAN, HostAdv(adv, swift)
  PROVE  AdvInv'
<1> DEFINE from == IF adv THEN adv_state ELSE "MAX"
<1>1. from \in AdvStates /\ AdvTypeOK
  BY DEF AdvInv, AdvTypeOK, AdvStates
<1>2. MoveToNext(from, swift) /\ do_swift_pair' = swift /\ ended' = ended /\ links' = links
  BY DEF HostAdv
<1>3. /\ adv_state' \in AdvStates \ {"MAX"} /\ adv_shown' = adv_state'
      /\ on_air' \in BOOLEAN /\ refused' \in BOOLEAN
      /\ on_air' => adv_shown' # "IDLE"
      /\ adv_shown' # "IDLE" => on_air' \/ refused'
      /\ adv_state' \in SwiftPairStates => swift
  BY <1>1, <1>2, MoveShows
<1>4. AdvTypeOK'
  BY <1>1, <1>2, <1>3 DEF AdvTypeOK
<1>5. AdvertisingIsShown' /\ SwiftPairIsAsked'
  BY <1>2, <1>3 DEF AdvertisingIsShown, SwiftPairIsAsked, SwiftPairStates
<1> QED
  BY <1>4, <1>5 DEF AdvInv

\* The end of the set, by its duration or by a connection, leaves an event behind.
LEMMA SetEndKeeps ==
  ASSUME AdvInv, DurationOver \/ (\E handle \in 0..1 : Connected(handle))
  PROVE  AdvInv'
<1>1. /\ ended \in Seq({0, 1}) /\ Len(ended) <= MaxEvents /\ links \in 0..MaxLinks
      /\ MaxLinks \in Nat /\ MaxEvents \in Nat
  BY AdvertisingConstants DEF AdvInv, AdvTypeOK
<1>2. PICK e \in {0, 1} : ended' = Append(ended, e)
  <2>1. CASE DurationOver
    BY <2>1 DEF DurationOver
  <2>2. CASE \E handle \in 0..1 : Connected(handle)
    BY <2>2 DEF Connected
  <2> QED
    BY <2>1, <2>2
<1>3. Len(ended) < MaxEvents
  BY DEF DurationOver, Connected
<1>4. links' \in 0..MaxLinks
  BY <1>1 DEF DurationOver, Connected
<1>5. ended' \in Seq({0, 1}) /\ Len(ended') <= MaxEvents /\ ended' # <<>>
  BY <1>1, <1>2, <1>3, EventsQueue
<1>6. /\ on_air' = FALSE /\ adv_state' = adv_state /\ refused' = refused
      /\ adv_shown' = adv_shown /\ do_swift_pair' = do_swift_pair
  BY DEF DurationOver, Connected
<1>7. AdvTypeOK'
  BY <1>4, <1>5, <1>6 DEF AdvInv, AdvTypeOK
<1>8. AdvertisingIsShown' /\ SwiftPairIsAsked'
  BY <1>5, <1>6 DEF AdvInv, AdvertisingIsShown, SwiftPairIsAsked
<1> QED
  BY <1>7, <1>8 DEF AdvInv

\* The event of the end and a lost connection move the state, or stop it.
LEMMA MovedKeeps ==
  ASSUME AdvInv, MoveToNext(adv_state, do_swift_pair), UNCHANGED do_swift_pair,
         ended' \in Seq({0, 1}), Len(ended') <= MaxEvents, links' \in 0..MaxLinks
  PROVE  AdvInv'
<1>1. AdvTypeOK /\ adv_state \in AdvStates /\ do_swift_pair \in BOOLEAN
  BY DEF AdvInv, AdvTypeOK
<1>2. /\ adv_state' \in AdvStates \ {"MAX"} /\ adv_shown' = adv_state'
      /\ on_air' \in BOOLEAN /\ refused' \in BOOLEAN
      /\ on_air' => adv_shown' # "IDLE"
      /\ adv_shown' # "IDLE" => on_air' \/ refused'
      /\ adv_state' \in SwiftPairStates => do_swift_pair
  BY <1>1, MoveShows
<1>3. AdvTypeOK'
  BY <1>1, <1>2 DEF AdvTypeOK
<1>4. AdvertisingIsShown' /\ SwiftPairIsAsked'
  BY <1>2 DEF AdvertisingIsShown, SwiftPairIsAsked, SwiftPairStates
<1> QED
  BY <1>3, <1>4 DEF AdvInv

LEMMA SetTerminatedKeeps ==
  ASSUME AdvInv, SetTerminated
  PROVE  AdvInv'
<1>1. /\ ended \in Seq({0, 1}) /\ Len(ended) <= MaxEvents /\ MaxEvents \in Nat
      /\ ended # <<>> /\ ended' = Tail(ended) /\ links' = links /\ do_swift_pair' = do_swift_pair
  BY AdvertisingConstants DEF AdvInv, AdvTypeOK, SetTerminated
<1>2. ended' \in Seq({0, 1}) /\ Len(ended') <= MaxEvents
  BY <1>1, EventsQueue
<1>3. CASE Head(ended) = 0
  <2>1. MoveToNext(adv_state, do_swift_pair)
    BY <1>3 DEF SetTerminated
  <2>2. links' \in 0..MaxLinks
    BY <1>1 DEF AdvInv, AdvTypeOK
  <2> QED
    BY <1>1, <1>2, <2>1, <2>2, MovedKeeps
<1>4. CASE Head(ended) # 0
  <2>1. adv_state' = "IDLE" /\ on_air' = FALSE /\ refused' = FALSE /\ adv_shown' = "IDLE"
    BY <1>4 DEF SetTerminated, StopAdv
  <2>2. AdvTypeOK'
    BY <1>1, <1>2, <2>1 DEF AdvInv, AdvTypeOK, AdvStates
  <2>3. AdvertisingIsShown' /\ SwiftPairIsAsked'
    BY <2>1 DEF AdvertisingIsShown, SwiftPairIsAsked
  <2> QED
    BY <2>2, <2>3 DEF AdvInv
<1> QED
  BY <1>3, <1>4

LEMMA DisconnectedKeeps ==
  ASSUME AdvInv, NEW timeout \in BOOLEAN, Disconnected(timeout)
  PROVE  AdvInv'
<1>1. links \in 0..MaxLinks /\ links > 0 /\ links' = links - 1 /\ MaxLinks \in Nat
  BY AdvertisingConstants DEF AdvInv, AdvTypeOK, Disconnected
<1>2. links' \in 0..MaxLinks
  BY <1>1
<1>3. ended' = ended /\ do_swift_pair' = do_swift_pair
  BY DEF Disconnected
<1>4. CASE timeout
  <2>1. MoveToNext(adv_state, do_swift_pair)
    BY <1>4 DEF Disconnected
  <2>2. ended' \in Seq({0, 1}) /\ Len(ended') <= MaxEvents
    BY <1>3 DEF AdvInv, AdvTypeOK
  <2> QED
    BY <1>2, <1>3, <2>1, <2>2, MovedKeeps
<1>5. CASE ~timeout
  <2>1. UNCHANGED <<adv_state, on_air, refused, adv_shown>>
    BY <1>5 DEF Disconnected
  <2>2. AdvTypeOK'
    BY <1>2, <1>3, <2>1 DEF AdvInv, AdvTypeOK
  <2>3. AdvertisingIsShown' /\ SwiftPairIsAsked'
    BY <1>3, <2>1 DEF AdvInv, AdvertisingIsShown, SwiftPairIsAsked
  <2> QED
    BY <2>2, <2>3 DEF AdvInv
<1> QED
  BY <1>4, <1>5

LEMMA AdvInvNext == AdvInv /\ [AdvNext]_advVars => AdvInv'
<1> SUFFICES ASSUME AdvInv, [AdvNext]_advVars PROVE AdvInv'
  OBVIOUS
<1>1. ASSUME NEW adv \in BOOLEAN, NEW swift \in BOOLEAN, HostAdv(adv, swift) PROVE AdvInv'
  BY <1>1, HostAdvKeeps
<1>2. CASE DurationOver \/ (\E handle \in 0..1 : Connected(handle))
  BY <1>2, SetEndKeeps
<1>3. CASE SetTerminated
  BY <1>3, SetTerminatedKeeps
<1>4. ASSUME NEW timeout \in BOOLEAN, Disconnected(timeout) PROVE AdvInv'
  BY <1>4, DisconnectedKeeps
<1>5. CASE UNCHANGED advVars
  BY <1>5 DEF advVars, AdvInv, AdvTypeOK, AdvertisingIsShown, SwiftPairIsAsked
<1> QED
  BY <1>1, <1>2, <1>3, <1>4, <1>5 DEF AdvNext

-----------------------------------------------------------------------------
(* Theorems *)

LEMMA AdvInvariant == AdvSpec => []AdvInv
<1>1. AdvInit => AdvInv
  BY AdvInvInit
<1>2. AdvInv /\ [AdvNext]_advVars => AdvInv'
  BY AdvInvNext
<1> QED
  BY <1>1, <1>2, PTL DEF AdvSpec

\* For any number of links and of events under way the host shows the advertising state
\* the headset is in (lehs_gatt_start_stop_adv, lehs_move_to_next_adv_state).
THEOREM AdvertisingShown == AdvSpec => []AdvertisingIsShown
<1>1. AdvInv => AdvertisingIsShown
  BY DEF AdvInv
<1> QED
  BY <1>1, AdvInvariant, PTL

\* No end of a set and no lost connection brings swift pair back once the host has turned
\* it off (rpc_handle_adv, swift_pair_next_state).
THEOREM SwiftPairAsked == AdvSpec => []SwiftPairIsAsked
<1>1. AdvInv => SwiftPairIsAsked
  BY DEF AdvInv
<1> QED
  BY <1>1, AdvInvariant, PTL

-----------------------------------------------------------------------------
(* Bonds *)

\* The host has an id for a device only while the headset has it there.
HostMirrors == \A i \in Ids : host[i].dev \in Devices => store[i].dev = host[i].dev

\* Entries of a device with a bond hold the key of that bond.
EntriesHoldBond ==
  \A d \in Devices, i \in Ids : bond[d] # NoKey =>
    /\ store[i].dev = d => store[i].key = bond[d]
    /\ host[i].dev = d => host[i].key = bond[d]

\* The key of a pairing under way is the one in the array.
PairingKeyStored ==
  \A d \in Devices : link[d].key # NoKey =>
    /\ \A i \in Ids : store[i].dev = d => store[i].key = link[d].key
    /\ overrun \/ \E i \in Ids : store[i].dev = d

BondInv == BondTypeOK /\ HostMirrors /\ OneEntryPerDevice /\ EntriesHoldBond /\ PairingKeyStored
              /\ BondSurvivesRestart

-----------------------------------------------------------------------------
(* Lookups *)

\* The entry that is found is an entry of the device.
LEMMA EntryIsOwn ==
  ASSUME NEW d
  PROVE  Entry(d) \subseteq Ids /\ \A i \in Entry(d) : store[i].dev = d
BY DEF Entry

\* As there is one entry at most, it is found.
LEMMA EntryIsFound ==
  ASSUME OneEntryPerDevice, NEW d \in Devices, NEW i \in Ids, store[i].dev = d
  PROVE  Entry(d) = {i}
BY DEF Entry, OneEntryPerDevice, Ids

\* Keys are written to an entry of the device, or to one without a device when
\* it has none; the entry written is the only one that changes.
LEMMA PlaceIsOwnOrFree ==
  ASSUME OneEntryPerDevice, NEW d \in Devices, NEW i \in Place(d)
  PROVE  /\ i \in Ids
         /\ \/ store[i].dev = d
            \/ store[i].dev = NoDevice /\ \A j \in Ids : store[j].dev # d
         /\ \A j \in Place(d) : j = i
<1>1. CASE Entry(d) # {}
  BY <1>1 DEF Place, Entry, Ids
<1>2. CASE Entry(d) = {}
  <2>1. \A j \in Ids : store[j].dev # d
    BY <1>2, EntryIsFound
  <2> QED BY <1>2, <2>1 DEF Place, Free, Ids
<1> QED BY <1>1, <1>2

-----------------------------------------------------------------------------
(* BondInv is inductive *)

LEMMA BondInvInit == BondInit => BondInv
<1> SUFFICES ASSUME BondInit PROVE BondInv
  OBVIOUS
<1>1. Empty \in Records /\ Down \in Links
  BY DEF Empty, Down, Records, Links
<1>2. BondTypeOK
  BY <1>1 DEF BondInit, BondTypeOK
<1>3. \A i \in Ids : store[i].dev = NoDevice /\ host[i].dev = NoDevice
  BY DEF BondInit, Empty
<1>4. \A d \in Devices : bond[d] = NoKey /\ link[d].key = NoKey
  BY DEF BondInit, Down
<1> QED BY <1>2, <1>3, <1>4, BondConstants DEF BondInv, HostMirrors, OneEntryPerDevice,
           EntriesHoldBond, PairingKeyStored, BondSurvivesRestart

LEMMA BondInvConnect ==
  ASSUME BondInv, NEW d \in Devices, Connect(d)
  PROVE  BondInv'
<1> DEFINE data == IF Entry(d) = {} THEN NoData ELSE store[CHOOSE i \in Entry(d) : TRUE].data
<1>1. data \in Devices \cup {NoData}
  <2>1. CASE Entry(d) # {}
    <3>1. (CHOOSE i \in Entry(d) : TRUE) \in Ids
      BY <2>1, EntryIsOwn
    <3> QED BY <2>1, <3>1 DEF BondInv, BondTypeOK, Records
  <2> QED BY <2>1
<1>2. link' = [link EXCEPT ![d] = Opened(data)]
  BY DEF Connect
<1> HIDE DEF data
<1>3. BondTypeOK'
  <2>1. link' \in [Devices -> Links]
    BY <1>1, <1>2 DEF BondInv, BondTypeOK, Links, Opened
  <2> QED BY <2>1 DEF BondInv, BondTypeOK, Connect
<1>4. PairingKeyStored'
  <2>1. link'[d].key = NoKey /\ \A e \in Devices \ {d} : link'[e] = link[e]
    BY <1>2 DEF BondInv, BondTypeOK, Opened
  <2> QED BY <2>1 DEF BondInv, PairingKeyStored, Connect
<1> QED BY <1>3, <1>4 DEF BondInv, Connect, HostMirrors, OneEntryPerDevice, EntriesHoldBond,
           BondSurvivesRestart

LEMMA BondInvDiscover ==
  ASSUME BondInv, NEW d \in Devices, Discover(d)
  PROVE  BondInv'
<1>1. BondTypeOK'
  BY DEF BondInv, BondTypeOK, Discover, Links
<1>2. PairingKeyStored'
  BY DEF BondInv, BondTypeOK, PairingKeyStored, Discover, Links
<1> QED BY <1>1, <1>2 DEF BondInv, Discover, HostMirrors, OneEntryPerDevice, EntriesHoldBond,
           BondSurvivesRestart

LEMMA BondInvKeyUpdate ==
  ASSUME BondInv, NEW d \in Devices, NEW k \in Keys, KeyUpdate(d, k)
  PROVE  BondInv'
<1>1. BondTypeOK'
  <2>1. store' \in [Ids -> Records]
    <3>1. \A i \in Ids : store[i] \in Records /\ [store[i] EXCEPT !.dev = d, !.key = k] \in Records
      BY DEF BondInv, BondTypeOK, Records
    <3> QED BY <3>1 DEF KeyUpdate
  <2>2. link' \in [Devices -> Links]
    BY DEF BondInv, BondTypeOK, KeyUpdate, Links
  <2>3. bond' \in [Devices -> Keys \cup {NoKey}] /\ overrun' \in BOOLEAN /\ host' = host
    BY DEF BondInv, BondTypeOK, KeyUpdate
  <2> QED BY <2>1, <2>2, <2>3 DEF BondInv, BondTypeOK
<1>2. \A i \in Ids : \/ i \in Place(d) /\ store'[i].dev = d /\ store'[i].key = k
                     \/ i \notin Place(d) /\ store'[i] = store[i]
  BY DEF KeyUpdate, BondInv, BondTypeOK, Records
<1>3. HostMirrors'
  <2> SUFFICES ASSUME NEW i \in Ids, host[i].dev \in Devices
               PROVE  store'[i].dev = host[i].dev
    BY DEF HostMirrors, KeyUpdate
  <2>1. store[i].dev = host[i].dev
    BY DEF BondInv, HostMirrors
  <2> QED BY <1>2, <2>1, PlaceIsOwnOrFree, BondConstants DEF BondInv
<1>4. \A i, j \in Ids : i # j /\ store'[i].dev \in Devices => store'[i].dev # store'[j].dev
  BY <1>2, PlaceIsOwnOrFree DEF BondInv, OneEntryPerDevice
<1>5. OneEntryPerDevice'
  BY <1>4 DEF BondInv, OneEntryPerDevice, KeyUpdate
<1>6. EntriesHoldBond'
  <2> SUFFICES ASSUME NEW e \in Devices, NEW i \in Ids, bond'[e] # NoKey
               PROVE  /\ store'[i].dev = e => store'[i].key = bond'[e]
                      /\ host'[i].dev = e => host'[i].key = bond'[e]
    BY DEF EntriesHoldBond
  <2>1. e # d /\ bond'[e] = bond[e] /\ host' = host
    BY DEF KeyUpdate, BondInv, BondTypeOK
  <2> QED BY <1>2, <2>1 DEF BondInv, EntriesHoldBond
<1>7. PairingKeyStored'
  <2> SUFFICES ASSUME NEW e \in Devices, link'[e].key # NoKey
               PROVE  /\ \A i \in Ids : store'[i].dev = e => store'[i].key = link'[e].key
                      /\ overrun' \/ \E i \in Ids : store'[i].dev = e
    BY DEF PairingKeyStored
  <2>1. CASE e = d
    <3>1. link'[d].key = k
      BY DEF KeyUpdate, BondInv, BondTypeOK, Links
    <3>2. \A i \in Ids : store'[i].dev = d => i \in Place(d)
      <4> SUFFICES ASSUME NEW i \in Ids, store'[i].dev = d, i \notin Place(d)
                   PROVE  FALSE
        OBVIOUS
      <4>1. store[i].dev = d
        BY <1>2
      <4> QED BY <4>1, EntryIsFound DEF BondInv, Place
    <3>3. Place(d) \subseteq Ids
      BY PlaceIsOwnOrFree DEF BondInv
    <3>4. overrun' \/ \E i \in Ids : store'[i].dev = d
      BY <1>2, <3>3 DEF KeyUpdate
    <3> QED BY <1>2, <2>1, <3>1, <3>2, <3>4
  <2>2. CASE e # d
    <3>1. link'[e] = link[e] /\ (overrun => overrun')
      BY <2>2 DEF KeyUpdate, BondInv, BondTypeOK
    <3>2. \A i \in Ids : store[i].dev = e => store'[i] = store[i]
      BY <1>2, <2>2, PlaceIsOwnOrFree, BondConstants DEF BondInv
    <3>3. \A i \in Ids : store'[i].dev = e => store'[i] = store[i]
      BY <1>2, <2>2
    <3> QED BY <3>1, <3>2, <3>3 DEF BondInv, PairingKeyStored
  <2> QED BY <2>1, <2>2
<1>8. BondSurvivesRestart'
  BY DEF BondInv, BondTypeOK, BondSurvivesRestart, KeyUpdate
<1> QED BY <1>1, <1>3, <1>5, <1>6, <1>7, <1>8 DEF BondInv

\* What goes to the host is what the array has under the same id.
LEMMA SendMirrors ==
  ASSUME BondTypeOK, HostMirrors, OneEntryPerDevice, NEW d \in Devices, Send(Entry(d)), store' = store
  PROVE  HostMirrors' /\ OneEntryPerDevice'
<1>1. HostMirrors'
  BY DEF Send, HostMirrors
<1> QED BY <1>1 DEF HostMirrors, OneEntryPerDevice

LEMMA BondInvPairingComplete ==
  ASSUME BondInv, NEW d \in Devices, PairingComplete(d)
  PROVE  BondInv'
<1>1. BondTypeOK'
  BY DEF BondInv, BondTypeOK, PairingComplete, Send, Links
<1>2. HostMirrors' /\ OneEntryPerDevice'
  BY SendMirrors DEF BondInv, PairingComplete
<1>3. \A i \in Ids : host'[i] = IF i \in Entry(d) THEN store[i] ELSE host[i]
  BY DEF PairingComplete, Send
<1>4. \A e \in Devices : bond'[e] = IF e = d THEN link[d].key ELSE bond[e]
  BY DEF PairingComplete, BondInv, BondTypeOK
<1>5. EntriesHoldBond'
  <2> SUFFICES ASSUME NEW e \in Devices, NEW i \in Ids, bond'[e] # NoKey
               PROVE  /\ store[i].dev = e => store[i].key = bond'[e]
                      /\ host'[i].dev = e => host'[i].key = bond'[e]
    BY DEF EntriesHoldBond, PairingComplete
  <2>1. store[i].dev = e => store[i].key = bond'[e]
    BY <1>4 DEF BondInv, EntriesHoldBond, PairingKeyStored
  <2>2. host'[i].dev = e => host'[i].key = bond'[e]
    <3>1. CASE i \in Entry(d)
      BY <1>3, <2>1, <3>1
    <3>2. CASE i \notin Entry(d)
      <4>1. host[i].dev = e => e # d
        BY <3>2, EntryIsFound DEF BondInv, HostMirrors
      <4> QED BY <1>3, <1>4, <3>2, <4>1 DEF BondInv, EntriesHoldBond
    <3> QED BY <3>1, <3>2
  <2> QED BY <2>1, <2>2
<1>6. PairingKeyStored'
  BY DEF BondInv, BondTypeOK, PairingKeyStored, PairingComplete, Links
<1>7. BondSurvivesRestart'
  <2> SUFFICES ASSUME ~overrun, NEW e \in Devices, bond'[e] # NoKey
               PROVE  \E i \in Ids : host'[i].dev = e /\ host'[i].key = bond'[e]
    BY DEF BondSurvivesRestart, PairingComplete
  <2>1. CASE e = d
    <3>1. PICK i \in Ids : store[i].dev = d /\ store[i].key = link[d].key
      BY <1>4, <2>1 DEF BondInv, PairingKeyStored
    <3>2. i \in Entry(d)
      BY <3>1, EntryIsFound DEF BondInv
    <3> QED BY <1>3, <1>4, <2>1, <3>1, <3>2
  <2>2. CASE e # d
    <3>1. PICK i \in Ids : host[i].dev = e /\ host[i].key = bond[e]
      BY <1>4, <2>2 DEF BondInv, BondSurvivesRestart
    <3>2. i \notin Entry(d)
      BY <2>2, <3>1, EntryIsOwn DEF BondInv, HostMirrors
    <3> QED BY <1>3, <1>4, <2>2, <3>1, <3>2
  <2> QED BY <2>1, <2>2
<1> QED BY <1>1, <1>2, <1>5, <1>6, <1>7 DEF BondInv

LEMMA BondInvDisconnect ==
  ASSUME BondInv, NEW d \in Devices, Disconnect(d)
  PROVE  BondInv'
<1>1. BondTypeOK'
  <2>1. ASSUME NEW r \in Records
        PROVE  [r EXCEPT !.data = link[d].data] \in Records
    BY DEF BondInv, BondTypeOK, Links, Records
  <2>2. store' \in [Ids -> Records]
    BY <2>1 DEF BondInv, BondTypeOK, Disconnect
  <2>3. host' \in [Ids -> Records]
    BY <2>2 DEF BondInv, BondTypeOK, Disconnect
  <2>4. link' \in [Devices -> Links]
    BY DEF BondInv, BondTypeOK, Disconnect, Links, Down
  <2> QED BY <2>2, <2>3, <2>4 DEF BondInv, BondTypeOK, Disconnect
<1>2. \A i \in Ids : store'[i].dev = store[i].dev /\ store'[i].key = store[i].key
  BY DEF Disconnect, BondInv, BondTypeOK, Records
<1>3. \A i \in Ids : \/ i \in Entry(d) /\ host'[i].dev = store[i].dev /\ host'[i].key = store[i].key
                     \/ i \notin Entry(d) /\ host'[i] = host[i]
  BY <1>2 DEF Disconnect
<1>4. bond' = bond /\ overrun' = overrun
  BY DEF Disconnect
<1>5. HostMirrors'
  BY <1>2, <1>3 DEF BondInv, HostMirrors
<1>6. OneEntryPerDevice'
  BY <1>2, <1>5 DEF BondInv, HostMirrors, OneEntryPerDevice
<1>7. EntriesHoldBond'
  BY <1>2, <1>3, <1>4 DEF BondInv, EntriesHoldBond
<1>8. PairingKeyStored'
  <2>1. \A e \in Devices : link'[e].key = NoKey \/ link'[e] = link[e]
    BY DEF Disconnect, BondInv, BondTypeOK, Down
  <2> QED BY <1>2, <1>4, <2>1 DEF BondInv, PairingKeyStored
<1>9. BondSurvivesRestart'
  <2> SUFFICES ASSUME ~overrun, NEW e \in Devices, bond[e] # NoKey
               PROVE  \E i \in Ids : host'[i].dev = e /\ host'[i].key = bond[e]
    BY <1>4 DEF BondSurvivesRestart
  <2>1. PICK i \in Ids : host[i].dev = e /\ host[i].key = bond[e]
    BY DEF BondInv, BondSurvivesRestart
  <2>2. store[i].dev = e /\ store[i].key = bond[e]
    BY <2>1 DEF BondInv, HostMirrors, EntriesHoldBond
  <2> QED BY <1>3, <2>1, <2>2
<1> QED BY <1>1, <1>5, <1>6, <1>7, <1>8, <1>9 DEF BondInv

LEMMA BondInvDeleteKeys ==
  ASSUME BondInv, NEW i \in Ids, DeleteKeys(i)
  PROVE  BondInv'
<1>1. BondTypeOK'
  <2>1. store' \in [Ids -> Records] /\ host' \in [Ids -> Records]
    <3>1. [store[i] EXCEPT !.dev = NoDevice, !.key = NoKey] \in Records /\ Empty \in Records
      BY DEF BondInv, BondTypeOK, Records, Empty
    <3>2. store' = [store EXCEPT ![i] = [@ EXCEPT !.dev = NoDevice, !.key = NoKey]]
      BY DEF DeleteKeys
    <3> QED BY <3>1, <3>2 DEF BondInv, BondTypeOK, DeleteKeys
  <2>2. link' \in [Devices -> Links]
    <3>1. ASSUME NEW l \in Links
          PROVE  [l EXCEPT !.key = NoKey] \in Links
      BY DEF Links
    <3> QED BY <3>1 DEF BondInv, BondTypeOK, DeleteKeys
  <2> QED BY <2>1, <2>2 DEF BondInv, BondTypeOK, DeleteKeys
<1>2. \A j \in Ids : \/ j = i /\ store'[j].dev = NoDevice /\ host'[j].dev = NoDevice
                     \/ j # i /\ store'[j] = store[j] /\ host'[j] = host[j]
  BY DEF DeleteKeys, BondInv, BondTypeOK, Records, Empty
<1>3. \A d \in Devices : /\ bond'[d] = IF store[i].dev = d THEN NoKey ELSE bond[d]
                         /\ link'[d].key = IF store[i].dev = d THEN NoKey ELSE link[d].key
  BY DEF DeleteKeys, BondInv, BondTypeOK, Links
<1>4. HostMirrors'
  BY <1>2, BondConstants DEF BondInv, HostMirrors
<1>5. OneEntryPerDevice'
  BY <1>2, BondConstants DEF BondInv, OneEntryPerDevice
<1>6. EntriesHoldBond'
  BY <1>2, <1>3, BondConstants DEF BondInv, EntriesHoldBond
<1>7. PairingKeyStored'
  <2> SUFFICES ASSUME NEW d \in Devices, link'[d].key # NoKey
               PROVE  /\ \A j \in Ids : store'[j].dev = d => store'[j].key = link'[d].key
                      /\ overrun \/ \E j \in Ids : store'[j].dev = d
    BY DEF PairingKeyStored, DeleteKeys
  <2>1. store[i].dev # d /\ link'[d].key = link[d].key
    BY <1>3
  <2>2. \A j \in Ids : store[j].dev = d \/ store'[j].dev = d => store'[j] = store[j]
    BY <1>2, <2>1, BondConstants
  <2> QED BY <2>1, <2>2 DEF BondInv, PairingKeyStored
<1>8. BondSurvivesRestart'
  <2> SUFFICES ASSUME ~overrun, NEW d \in Devices, bond'[d] # NoKey
               PROVE  \E j \in Ids : host'[j].dev = d /\ host'[j].key = bond'[d]
    BY DEF BondSurvivesRestart, DeleteKeys
  <2>1. store[i].dev # d /\ bond'[d] = bond[d]
    BY <1>3
  <2>2. PICK j \in Ids : host[j].dev = d /\ host[j].key = bond[d]
    BY <2>1 DEF BondInv, BondSurvivesRestart
  <2>3. j # i
    BY <2>1, <2>2 DEF BondInv, HostMirrors
  <2> QED BY <1>2, <2>1, <2>2, <2>3
<1> QED BY <1>1, <1>4, <1>5, <1>6, <1>7, <1>8 DEF BondInv

LEMMA BondInvRestart ==
  ASSUME BondInv, Restart
  PROVE  BondInv'
<1>1. BondTypeOK'
  BY DEF BondInv, BondTypeOK, Restart, Links, Down
<1>2. \A d \in Devices : link'[d].key = NoKey
  BY DEF Restart, Down
<1> QED BY <1>1, <1>2 DEF BondInv, Restart, HostMirrors, OneEntryPerDevice, EntriesHoldBond,
           PairingKeyStored, BondSurvivesRestart

LEMMA BondInvStep == BondInv /\ [BondNext]_bondVars => BondInv'
<1> SUFFICES ASSUME BondInv, [BondNext]_bondVars PROVE BondInv'
  OBVIOUS
<1>1. CASE BondNext
  BY <1>1, BondInvConnect, BondInvDiscover, BondInvKeyUpdate, BondInvPairingComplete, BondInvDisconnect,
     BondInvDeleteKeys, BondInvRestart DEF BondNext
<1>2. CASE UNCHANGED bondVars
  BY <1>2 DEF bondVars, BondInv, BondTypeOK, HostMirrors, OneEntryPerDevice, EntriesHoldBond,
     PairingKeyStored, BondSurvivesRestart
<1> QED BY <1>1, <1>2

\* Through any history of pairings, deletions and restarts a device has at most
\* one entry in the headset and one record with the host.
THEOREM OneEntry == BondSpec => []OneEntryPerDevice
<1>1. BondInv => OneEntryPerDevice
  BY DEF BondInv
<1> QED BY <1>1, BondInvInit, BondInvStep, PTL DEF BondSpec

\* Unless a pairing has found the array full, the host always has the key of
\* every bond that is complete and not deleted.
THEOREM BondsSurvive == BondSpec => []BondSurvivesRestart
<1>1. BondInv => BondSurvivesRestart
  BY DEF BondInv
<1> QED BY <1>1, BondInvInit, BondInvStep, PTL DEF BondSpec

\* Devices, ids and keys keep their types through pairings, deletions and restarts.
THEOREM BondTypeCorrect == BondSpec => []BondTypeOK
<1>1. BondInv => BondTypeOK
  BY DEF BondInv
<1> QED BY <1>1, BondInvInit, BondInvStep, PTL DEF BondSpec

\* The state machine of the advertising never gets to MAX, and its queue keeps its bound.
THEOREM AdvTypeCorrect == AdvSpec => []AdvTypeOK
<1>1. AdvInv => AdvTypeOK
  BY DEF AdvInv
<1> QED
  BY <1>1, AdvInvariant, PTL

-----------------------------------------------------------------------------
(* The services side by side *)

\* All variables of the composition
allVars ==
  <<focus, volumeVars, microphoneVars, hearingVars, capabilitiesVars, baseVars,
    scanVars, subscriptionVars, bondVars, advVars, lockVars>>

\* A step of one part is a step of its own and a stutter of every other.
LEMMA PartSteps ==
  ASSUME [Next]_allVars
  PROVE  /\ [VolumeNext]_volumeVars /\ [MicrophoneNext]_microphoneVars /\ [HearingNext]_hearingVars
         /\ [CapabilitiesNext]_capabilitiesVars /\ [BaseNext]_baseVars /\ [ScanNext]_scanVars
         /\ [SubscriptionNext]_subscriptionVars /\ [BondNext]_bondVars /\ [AdvNext]_advVars
         /\ [LockNext]_lockVars
<1>1. CASE Next
  BY <1>1 DEF Next, Others
<1>2. CASE UNCHANGED allVars
  BY <1>2 DEF allVars
<1> QED
  BY <1>1, <1>2

\* The composition the runs check implements the specification of every part, for all
\* values of the constants: what is proved of a part holds of the headset with all of them,
\* and what the runs show with one part in focus is of that part's own specification.
THEOREM PartsComposed ==
  Spec => /\ VolumeSpec /\ MicrophoneSpec /\ HearingSpec /\ CapabilitiesSpec /\ BaseSpec
          /\ ScanSpec /\ SubscriptionSpec /\ BondSpec /\ AdvSpec /\ LockSpec
<1>1. Init => /\ VolumeInit /\ MicrophoneInit /\ HearingInit /\ CapabilitiesInit /\ BaseInit
              /\ SubscriptionInit /\ BondInit /\ AdvInit /\ LockInit /\ ScanInit
  BY DEF Init
<1>2. Spec => Init /\ [][Next]_allVars
  BY DEF Spec, allVars
<1> QED
  BY <1>1, <1>2, PartSteps, PTL
     DEF VolumeSpec, MicrophoneSpec, HearingSpec, CapabilitiesSpec, BaseSpec, ScanSpec,
         SubscriptionSpec, BondSpec, AdvSpec, LockSpec

\* All services together keep their types.
THEOREM TypesCorrect == Spec => []TypeOK
<1>1. VolumeTypeOK /\ MicrophoneTypeOK /\ HearingTypeOK /\ BondTypeOK /\ AdvTypeOK => TypeOK
  BY DEF TypeOK
<1> QED
  BY <1>1, PartsComposed, VolumeTypeCorrect, MicrophoneTypeCorrect, HearingTypeCorrect,
     BondTypeCorrect, AdvTypeCorrect, PTL
=============================================================================
