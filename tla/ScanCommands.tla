---------------------------- MODULE ScanCommands ----------------------------
(***************************************************************************)
(* The commands of the broadcast scan control point, from their octets to   *)
(* the operation the scan delegator runs, and the octets of the receive     *)
(* state it answers with (ga_lib_bass.c, lehs_bass.c).  What the delegator  *)
(* does from there on is BroadcastSink's; of a source added there is here   *)
(* what its receive state is filled with.                                   *)
(*                                                                         *)
(* A command is parsed into op_data, which is static: fields and subgroups  *)
(* a command does not have keep what an earlier one left.                   *)
(***************************************************************************)
EXTENDS CodecData, FiniteSets

CONSTANTS
  ScanWrites,   \* commands that are written: those below, each with its form
  MaxSubgroups, \* GA_LIB_BASS_MAX_SUBGROUP_COUNT
  Leftovers,    \* what subgroups may have in them that another kind of command left
  Behind,       \* octets a subgroup behind the array of the receive state may give
  MaxCommands   \* bound: commands written

ASSUME ScanConstants ==
  /\ MaxSubgroups \in Nat \ {0}
  /\ \A left \in Leftovers : \A i \in 1..MaxSubgroups :
       left[i].meta_data \in [preferred_audio_ctx: Nat, streaming_audio_ctx: Nat]

\* ga_lib_bass_opcode_t
ScanStopped == 0
ScanStarted == 1
AddSourceOp == 2
ModifySourceOp == 3
SetCodeOp == 4
RemoveSourceOp == 5

\* ga_lib_bass_sub_group_data_t; a BIS mask is the sequence of its octets
NoBises == <<0, 0, 0, 0>>
Group(bis, metadata) == [bis_sync_state |-> bis, meta_data |-> metadata]
GroupIndexes == 1..MaxSubgroups

VARIABLES
  op_data, \* ga_lib_bass_operation_t: [opcode, source_id, from, adv_sid, broadcast_id, pa_sync_param,
           \*   num_subgroup, sub_group_data, layout], from the type and the address, layout the
           \*   kind of command whose subgroups those are
  receive, \* lehs_bass_data_t: [is_used, from, adv_sid, broadcast_id, num_subgroup, sub_group,
           \*   bis_index_bits, code]
  asked,   \* the command written last, or NoCommand
  answer,  \* the status it was answered with
  sent,    \* the receive states it made the server send, as octets
  commands \* written so far

scanVars == <<op_data, receive, asked, answer, sent, commands>>

NoFrom == <<0, 0, 0, 0, 0, 0, 0>>
NoBroadcast == <<0, 0, 0>>
ZeroGroups == [i \in GroupIndexes |-> Group(NoBises, NoMetadata)]

NoOpData ==
  [opcode |-> 0, source_id |-> 0, from |-> NoFrom, adv_sid |-> 0, broadcast_id |-> NoBroadcast,
   pa_sync_param |-> 0, num_subgroup |-> 0, sub_group_data |-> ZeroGroups, layout |-> 0]

NoReceive ==
  [is_used |-> FALSE, from |-> NoFrom, adv_sid |-> 0, broadcast_id |-> NoBroadcast,
   num_subgroup |-> 0, sub_group |-> ZeroGroups, bis_index_bits |-> NoBises, code |-> FALSE]

NoCommand == [opcode |-> 255, form |-> "none"]

-----------------------------------------------------------------------------
(* What clients write *)

Subgroups(groups) ==
  <<Len(groups)>> \o FlattenSeq([i \in 1..Len(groups) |-> groups[i].bis \o Filled(groups[i].metadata, 255)])

\* pa_interval is not used
Source(w) == <<w.pa, 255, 255>> \o Subgroups(w.groups)

Octets(w) ==
  <<w.opcode>> \o
  CASE w.opcode = AddSourceOp -> w.from \o <<w.adv_sid>> \o w.broadcast_id \o Source(w)
    [] w.opcode = ModifySourceOp -> <<w.source_id>> \o Source(w)
    [] w.opcode = SetCodeOp -> <<w.source_id>> \o [i \in 1..16 |-> 7]
    [] w.opcode = RemoveSourceOp -> <<w.source_id>>
    [] OTHER -> <<>>

Stream(w) ==
  CASE w.form = "whole" -> Octets(w)
    [] w.form = "longer" -> Octets(w) \o <<0>>
    [] w.form = "cut" -> Front(Octets(w))

-----------------------------------------------------------------------------
(* ga_lib_bass_parse_control_point_data: operators on the octets d *)

\* bass_validate_num_subgroup_len: the subgroups whose number is at p take all that is left
SubgroupsFit(d, p) ==
  LET after[k \in 0..At(d, p)] ==
        IF k = 0 THEN p + 1
        ELSE IF after[k - 1] + 4 > Len(d) THEN Len(d) + 2
        ELSE after[k - 1] + 5 + At(d, after[k - 1] + 4)
  IN after[At(d, p)] = Len(d) + 1

\* Mutant: what is behind the subgroups is let pass
LengthAtLeast(d) ==
  CASE d[1] \in {ScanStopped, ScanStarted} -> Len(d) >= 1
    [] d[1] = AddSourceOp -> Len(d) >= 16
    [] d[1] = ModifySourceOp -> Len(d) >= 6
    [] d[1] = SetCodeOp -> Len(d) >= 18
    [] d[1] = RemoveSourceOp -> Len(d) >= 2

\* bass_validate_opcode_length
LengthFits(d) ==
  CASE d[1] \in {ScanStopped, ScanStarted} -> Len(d) = 1
    [] d[1] = AddSourceOp -> Len(d) >= 16 /\ SubgroupsFit(d, 16)
    [] d[1] = ModifySourceOp -> Len(d) >= 6 /\ SubgroupsFit(d, 6)
    [] d[1] = SetCodeOp -> Len(d) = 18
    [] d[1] = RemoveSourceOp -> Len(d) = 2

\* GA_LIB_BASS_BIS_INDEX_MASK: BIS 1 to 15 of the 31
BisesOf(bis) == bis[1] + 256 * (bis[2] % 128)

\* bass_parse_common_param from p on, into op: PA parameter, interval, subgroups.  The stream
\* is not moved over the metadata of a subgroup: the next is read where that begins.  Two
\* with the same BISes, none for instance, end the reading.
ReadSource(op, d, p) ==
  LET n == At(d, p + 3)
      read == 1..(IF n < MaxSubgroups THEN n ELSE MaxSubgroups)
      at(i) == p + 4 + 5 * (i - 1)
      bis(i) == SubSeq(d, at(i), at(i) + 3)
      again == {i \in read : \E j \in 1..(i - 1) : BisesOf(bis(i)) = BisesOf(bis(j))}
      group(i) == Group(bis(i), ReadMetadata(d, at(i) + 5, At(d, at(i) + 4), op.sub_group_data[i].meta_data))
      new == [op EXCEPT !.pa_sync_param = At(d, p), !.num_subgroup = n]
  IN IF At(d, p) > 2 THEN [ok |-> FALSE, op |-> new]
     ELSE [ok |-> again = {},
           op |-> [new EXCEPT !.sub_group_data = [i \in GroupIndexes |->
             IF i \notin read \/ (\E j \in again : j < i) THEN @[i]
             ELSE IF i \in again THEN Group(bis(i), @[i].meta_data)
             ELSE group(i)]]]

\* A sid or type out of range is seen before the parameters that all sources have
ReadAdd(op, d) ==
  LET new == [op EXCEPT !.from = SubSeq(d, 2, 8), !.adv_sid = At(d, 9), !.broadcast_id = SubSeq(d, 10, 12)]
  IN IF At(d, 9) > 15 \/ At(d, 2) > 1 THEN [ok |-> FALSE, op |-> new] ELSE ReadSource(new, d, 13)

\* The fields share their memory: what the subgroups of a command that has its own kind of
\* layout were left with by one of another kind may be anything
LeftFor(opcode) ==
  IF op_data.layout \in {0, opcode} THEN {op_data.sub_group_data} ELSE Leftovers

Parsed(d, left) ==
  LET op == [op_data EXCEPT !.opcode = d[1]]
      own == [op EXCEPT !.sub_group_data = left, !.layout = d[1]]
      rejected(o) == [status |-> "WRITE_REQ_REJECTED", op |-> o]
      whether(r) == IF r.ok THEN [status |-> "SUCCESS", op |-> r.op] ELSE rejected(r.op)
  IN CASE d[1] > RemoveSourceOp -> [status |-> "OPCODE_NOT_SUPPORTED", op |-> op]
       [] d[1] <= RemoveSourceOp /\ ~LengthFits(d) -> rejected(op)
       [] d[1] \in {ScanStopped, ScanStarted} /\ LengthFits(d) -> [status |-> "SUCCESS", op |-> op]
       [] d[1] = AddSourceOp /\ LengthFits(d) -> whether(ReadAdd(own, d))
       [] d[1] = ModifySourceOp /\ LengthFits(d) ->
            whether(ReadSource([own EXCEPT !.source_id = d[2]], d, 3))
       [] d[1] \in {SetCodeOp, RemoveSourceOp} /\ LengthFits(d) ->
            [status |-> "SUCCESS", op |-> [own EXCEPT !.source_id = d[2]]]

-----------------------------------------------------------------------------
(* The receive state *)

\* lehs_allocate_source, lehs_fill_char_data: the BISes to take are those of the first
\* subgroup, whether the command has one or not
SourceAdded(op) ==
  [is_used |-> TRUE, from |-> op.from, adv_sid |-> op.adv_sid, broadcast_id |-> op.broadcast_id,
   num_subgroup |-> op.num_subgroup, bis_index_bits |-> op.sub_group_data[1].bis_sync_state,
   sub_group |-> [i \in GroupIndexes |->
     Group(NoBises, IF i <= op.num_subgroup THEN op.sub_group_data[i].meta_data ELSE NoMetadata)],
   code |-> FALSE]

\* ga_lib_bass_build_receive_state_char_data.  The periodic sync and the encryption
\* have the states of a source that was added or got its code just now.  It goes through
\* num_subgroup subgroups, also when these are more than the array has: each of those gives
\* what the memory behind it makes of it.
BuildReceiveState(r, behind) ==
  IF r.from = NoFrom /\ r.broadcast_id = NoBroadcast THEN <<>>
  ELSE LET group(i) == r.sub_group[i].bis_sync_state \o FillMetadata(r.sub_group[i].meta_data, <<>>, 255)
       IN <<0>> \o r.from \o <<r.adv_sid>> \o r.broadcast_id
          \o <<0, IF r.code THEN 2 ELSE 0, r.num_subgroup>>
          \o FlattenSeq([i \in 1..r.num_subgroup |->
                           IF i \in GroupIndexes THEN group(i) ELSE behind])

\* lehs_bass_handle_write_req_evt.  A source is known by the place of its receive state, 0.
\* A source added when there is no place, a code for none, are answered with success.
ExecuteScan(op, behind) ==
  CASE op.opcode = AddSourceOp /\ ~receive.is_used ->
         /\ receive' = SourceAdded(op)
         /\ sent' = <<BuildReceiveState(receive', behind)>> /\ answer' = "SUCCESS"
    [] op.opcode = SetCodeOp /\ receive.is_used /\ op.source_id = 0 ->
         /\ receive' = [receive EXCEPT !.code = TRUE]
         /\ sent' = <<BuildReceiveState(receive', behind)>> /\ answer' = "SUCCESS"
    [] op.opcode = RemoveSourceOp /\ receive.is_used /\ op.source_id = 0 ->
         \* not when it is synchronized
         \/ UNCHANGED receive /\ sent' = <<>> /\ answer' = "UNSUPPORTED"
         \/ receive' = NoReceive /\ sent' = <<<<>>>> /\ answer' = "SUCCESS"
    [] op.opcode \in {ModifySourceOp, RemoveSourceOp} /\ ~(receive.is_used /\ op.source_id = 0) ->
         UNCHANGED receive /\ sent' = <<>> /\ answer' = "INVALID_SOURCE_ID"
    [] OTHER -> UNCHANGED receive /\ sent' = <<>> /\ answer' = "SUCCESS"

WriteScanCommand(w) ==
  /\ commands < MaxCommands /\ commands' = commands + 1
  /\ \E left \in LeftFor(w.opcode), behind \in Behind :
       LET parsed == Parsed(Stream(w), left)
       IN /\ asked' = w
          /\ op_data' = parsed.op
          /\ IF parsed.status # "SUCCESS"
             THEN answer' = parsed.status /\ sent' = <<>> /\ UNCHANGED receive
             ELSE ExecuteScan(parsed.op, behind)

\* The headset is switched off and on
ScanRestart ==
  /\ commands = MaxCommands
  /\ op_data' = NoOpData /\ receive' = NoReceive
  /\ asked' = NoCommand /\ answer' = "SUCCESS" /\ sent' = <<>> /\ commands' = 0

ScanInit ==
  /\ op_data = NoOpData /\ receive = NoReceive
  /\ asked = NoCommand /\ answer = "SUCCESS" /\ sent = <<>> /\ commands = 0

ScanNext == (\E w \in ScanWrites : WriteScanCommand(w)) \/ ScanRestart

ScanSpec == ScanInit /\ [][ScanNext]_scanVars

-----------------------------------------------------------------------------
(* Properties *)

\* A source as the profile has it: parameters in range, no two subgroups for the same BISes
ProperSource(w) ==
  /\ w.pa <= 2
  /\ \A i, j \in DOMAIN w.groups : i # j => BisesOf(w.groups[i].bis) # BisesOf(w.groups[j].bis)
  /\ w.opcode = AddSourceOp => w.adv_sid <= 15 /\ w.from[1] <= 1

HasSource(w) == w.opcode \in {AddSourceOp, ModifySourceOp}

Refusals == {"WRITE_REQ_REJECTED", "OPCODE_NOT_SUPPORTED"}

\* The value the entries of a subgroup say, which one without such an entry does not
Says(entries, type, value) == \A e \in Range(entries) : e.type = type => Two(value) = e.value

\* A command cut short, or with more behind it, and one with a parameter out of range is
\* refused and changes no receive state; one whose subgroups but the last have no metadata is
\* accepted when it is proper, and understood as it was written: the source, the BISes
\* and contexts of each subgroup, the BISes to take; the receive state then sent, of no
\* more subgroups than there is room for, has the source's address, id and its subgroups.
CommandAsWritten ==
  asked # NoCommand =>
    LET w == asked
        simple == \A i \in DOMAIN w.groups : i < Len(w.groups) => w.groups[i].metadata = <<>>
        added == w.opcode = AddSourceOp /\ sent # <<>>
    IN /\ w.form # "whole" => answer \in Refusals /\ sent = <<>>
       /\ (w.form = "whole" /\ (HasSource(w) => simple)) =>
            (answer \in Refusals <=> w.opcode > RemoveSourceOp \/ (HasSource(w) /\ ~ProperSource(w)))
       /\ (HasSource(w) /\ simple /\ answer \notin Refusals) =>
            /\ op_data.num_subgroup = Len(w.groups) /\ op_data.pa_sync_param = w.pa
            /\ \A i \in DOMAIN w.groups \cap GroupIndexes :
                 LET g == op_data.sub_group_data[i]
                 IN /\ g.bis_sync_state = w.groups[i].bis
                    /\ Says(w.groups[i].metadata, 1, g.meta_data.preferred_audio_ctx)
                    /\ Says(w.groups[i].metadata, 2, g.meta_data.streaming_audio_ctx)
       /\ (added /\ Len(w.groups) <= MaxSubgroups) =>
            /\ SubSeq(sent[1], 1, 12) = <<0>> \o w.from \o <<w.adv_sid>> \o w.broadcast_id
            /\ SubgroupsFit(sent[1], 15) /\ sent[1][15] = Len(w.groups)
       /\ (added /\ w.groups # <<>>) => receive.bis_index_bits = w.groups[1].bis

\* A source has no more subgroups than are possible (GA_LIB_BASS_MAX_SUBGROUP_COUNT),
\* those its receive state has room for.  It is not so (README).
SubgroupsArePossible == receive.num_subgroup <= MaxSubgroups

\* Of every command that is accepted each subgroup is taken with the BISes it has
SubgroupsAsWritten ==
  (asked # NoCommand /\ HasSource(asked) /\ answer \notin Refusals) =>
    \A i \in DOMAIN asked.groups \cap GroupIndexes :
      op_data.sub_group_data[i].bis_sync_state = asked.groups[i].bis
=============================================================================
