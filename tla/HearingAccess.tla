--------------------------- MODULE HearingAccess ---------------------------
(***************************************************************************)
(* The presets of the hearing access service (lehs_has.c, ga_lib_has.c and  *)
(* the cases of lehs_gatt.c).  The headset has presets 1 to N, all of them  *)
(* available.  A client selects one by its index, or the next or the        *)
(* previous one, and asks for the records of some of them.                  *)
(***************************************************************************)
EXTENDS Integers, Sequences

CONSTANTS
  Presets,     \* number of records in lehs_has_preset_records
  IndexSize,   \* number of values of an index, 2^8
  Listeners,   \* clients of the service
  Unknown      \* the active preset a client believes in before it is told one

ASSUME HearingAccessConstants ==
  /\ Presets \in Nat \ {0}
  /\ IndexSize \in Nat
  /\ IndexSize > Presets + 1

Indexes == 1..Presets

\* ga_lib_has_preset_records_t
PresetRecords == [preset_index: Indexes, is_last: BOOLEAN]

VARIABLES
  active,    \* lehs_has_data.active_preset_index, 0 before one is selected
  has,       \* active_preset_index of local_service_data.has, a copy made at start up
  heard,     \* [Listeners -> 0..Presets or Unknown]: what each was indicated or read last
  response   \* sequence of records: the notifications that answer a read request

hearingVars == <<active, has, heard, response>>

\* get_preset_rec
Found(index) == index \in Indexes

\* Mutant: from the first preset back to the first
WrapsToFirst(index, incr) == IF Found(index) THEN index ELSE 1

\* lehs_has_set_next_preset: from the last on to the first, and back
Wrapped(index, incr) ==
  CASE Found(index) -> index
    [] ~Found(index) /\ incr > 0 -> 1
    [] ~Found(index) /\ incr < 0 -> Presets

Neighbour(index, incr) == Wrapped((index + incr) % IndexSize, incr)

\* lehs_has_set_active_preset: the indication goes to the client that wrote
Select(c, index, sent) ==
  /\ Found(index)
  /\ active' = index
  /\ heard' = IF sent THEN [heard EXCEPT ![c] = index] ELSE heard
  /\ UNCHANGED <<has, response>>

SetActivePreset(c, index, sent) == Select(c, index, sent)

SetNextPreset(c, incr, sent) == Select(c, Neighbour(active, incr), sent)

\* lehs_has_handle_read_preset_record: no more than there are
Answered(start, num) == IF num <= Presets - start + 1 THEN num ELSE Presets - start + 1

\* is_last is kept with the last record of the table
PresetRecord(index) == [preset_index |-> index, is_last |-> index = Presets]

\* The status for num = 0 is overwritten with the one of the request, SUCCESS
ReadPresets(start, num) ==
  /\ Found(start)
  /\ response' = [i \in 1..Answered(start, num) |-> PresetRecord(start + i - 1)]
  /\ UNCHANGED <<active, has, heard>>

\* app_handle_gatt_read_request, HDLC_HAS_ACTIVE_PRESET_INDEX_VALUE: from the copy
ReadActivePreset(c) ==
  /\ heard' = [heard EXCEPT ![c] = has]
  /\ UNCHANGED <<active, has, response>>

\* lehs_has_initialize_data
HearingInit ==
  /\ active = 0
  /\ has = 0
  /\ heard = [c \in Listeners |-> Unknown]
  /\ response = <<>>

HearingNext ==
  \/ \E c \in Listeners, sent \in BOOLEAN :
       \/ \E index \in 0..(Presets + 1) : SetActivePreset(c, index, sent)
       \/ \E incr \in {-1, 1} : SetNextPreset(c, incr, sent)
  \/ \E start \in 0..(Presets + 1), num \in 0..(Presets + 1) : ReadPresets(start, num)
  \/ \E c \in Listeners : ReadActivePreset(c)

HearingSpec == HearingInit /\ [][HearingNext]_hearingVars
-----------------------------------------------------------------------------
(* Properties *)

HearingTypeOK ==
  /\ active \in 0..Presets
  /\ has \in 0..Presets
  /\ heard \in [Listeners -> 0..Presets \cup {Unknown}]
  /\ response \in Seq(PresetRecords)

\* From any selected preset the previous one of the next is the preset itself, and
\* so the other way round: clients that step on and back stay together, over both
\* ends of the table and the wrap of the byte the index is kept in.
StepBackReturns ==
  active # 0 => \A incr \in {-1, 1} : Neighbour(Neighbour(active, incr), -incr) = active
=============================================================================
