------------------------ MODULE UnicastServerProofs ------------------------
(***************************************************************************)
(* What UnicastServer guarantees for every number of clients, control      *)
(* blocks, ASEs and CIS handles.                                           *)
(***************************************************************************)
EXTENDS UnicastServer, TLAPS

-----------------------------------------------------------------------------
(* Types of the operators *)

\* A look up of a CIS gives a handle or none.
LEMMA CisHandleType ==
  ASSUME NEW c, NEW id
  PROVE  CisHandle(c, id) \in Handles \cup {NoHandle}
<1>1. CisOf(c, id) \subseteq Handles
  BY DEF CisOf
<1>2. CASE CisOf(c, id) = {}
  BY <1>2 DEF CisHandle
<1>3. CASE CisOf(c, id) # {}
  <2>1. (CHOOSE h \in CisOf(c, id) : TRUE) \in CisOf(c, id)
    BY <1>3
  <2> QED BY <1>1, <1>3, <2>1 DEF CisHandle
<1> QED BY <1>2, <1>3

\* The transition table leads to states only.
LEMMA NextStateType ==
  ASSUME NEW sink, NEW st \in AseStates, NEW op
  PROVE  NextState(sink, st, op) \in AseStates
BY DEF NextState, AseStates

\* What the handlers make of the record of an ASE is a record of an ASE.
LEMMA WithQosType ==
  ASSUME NEW s, NEW r \in AseData, NEW id \in CisIds \cup {NoCis}
  PROVE  WithQos(s, r, id) \in AseData
BY CisHandleType DEF WithQos, AseData

LEMMA SettledType ==
  ASSUME NEW r \in AseData
  PROVE  Settled(r) \in AseData
BY DEF Settled, AseData, AseStates

LEMMA AppliedType ==
  ASSUME NEW s, NEW op, NEW r \in AseData, NEW a, NEW fault,
         NEW plan, plan[a] \in CisIds \cup {NoCis}
  PROVE  Applied(s, op, r, a, fault, plan) \in AseData
<1> DEFINE q == IF op = "config_qos" THEN WithQos(s, r, plan[a]) ELSE r
<1>1. q \in AseData
  BY WithQosType
<1>2. NextState(a \in SinkAses, r.state, op) \in AseStates
  BY NextStateType DEF AseData
<1>3. [q EXCEPT !.state = NextState(a \in SinkAses, r.state, op)] \in AseData
  BY <1>1, <1>2 DEF AseData
<1> QED BY <1>3 DEF Applied

LEMMA DroppedType ==
  ASSUME NEW r \in AseData
  PROVE  Dropped(r) \in AseData /\ DroppedSink(r) \in AseData /\ DroppedSource(r) \in AseData
BY DEF Dropped, DroppedSink, DroppedSource, AseData, AseStates

LEMMA WithPathType ==
  ASSUME NEW a, NEW r \in AseData
  PROVE  WithPath(a, r) \in AseData
BY DEF WithPath, AseData, AseStates

LEMMA PlanType ==
  ASSUME NEW c \in Clients, NEW op, NEW plan \in PlansOf(c, op), NEW a \in Ases
  PROVE  plan[a] \in CisIds \cup {NoCis}
BY ConstantsAssumption DEF PlansOf

LEMMA WithOutputType ==
  ASSUME TypeOK, NEW requested, NEW removed
  PROVE  WithOutput(requested, removed) \in [Handles -> CisData]
BY DEF WithOutput, TypeOK, CisData

LEMMA UpdateType ==
  ASSUME TypeOK, NEW h \in Handles, NEW places
  PROVE  [s \in Slots |-> [a \in Ases |->
            IF <<s, a>> \in places THEN [ase[s][a] EXCEPT !.handle = h] ELSE ase[s][a]]]
         \in [Slots -> [Ases -> AseData]]
<1>1. ASSUME NEW r \in AseData
      PROVE  [r EXCEPT !.handle = h] \in AseData
  BY DEF AseData
<1>2. \A s \in Slots, a \in Ases : ase[s][a] \in AseData
  BY DEF TypeOK
<1> QED BY <1>1, <1>2

\* The ASEs a write names before the first unknown id are ASEs.
LEMMA ReachedAses ==
  ASSUME NEW ids \in WriteLists, NEW res
  PROVE  Named(ids) \subseteq Ases /\ Started(ids, res) \subseteq Ases
<1>1. DOMAIN ids \subseteq Nat \ {0}
  BY ConstantsAssumption
<1>2. ASSUME NEW i \in DOMAIN ids, Reached(ids, i)
      PROVE  ids[i] \in Ases
  <2>1. i \in 1..i
    BY <1>1
  <2> QED BY <1>2, <2>1 DEF Reached
<1> QED BY <1>2 DEF Named, Started
-----------------------------------------------------------------------------
(* TypeOK is inductive *)

LEMMA RejectWriteType ==
  ASSUME TypeOK, NEW s \in Slots, clcb[s] \in Clients, NEW ids \in WriteLists, NEW op,
         NEW fault, NEW plan \in PlansOf(clcb[s], op), RejectWrite(s, op, ids, fault, plan)
  PROVE  TypeOK'
<1>1. \A a \in Ases : WithQos(s, ase[s][a], plan[a]) \in AseData
  BY WithQosType, PlanType DEF TypeOK
<1>2. ase' \in [Slots -> [Ases -> AseData]]
  BY <1>1 DEF RejectWrite, TypeOK
<1> QED BY <1>2 DEF RejectWrite, TypeOK

LEMMA NotifyCountedType ==
  ASSUME TypeOK, NEW s \in Slots, NEW counted, NotifyCounted(s, counted),
         ase' \in [Slots -> [Ases -> AseData]]
  PROVE  told' \in [Slots -> [Ases -> AseStates]]
<1>1. \A a \in Ases : ase'[s][a].state \in AseStates
  BY DEF AseData
<1> QED BY <1>1 DEF NotifyCounted, TypeOK

LEMMA MissUncountedType ==
  ASSUME TypeOK, NEW s \in Slots, NEW ids \in WriteLists, NEW n, MissUncounted(s, ids, n)
  PROVE  missed' \in [Slots -> SUBSET Ases]
BY ReachedAses DEF MissUncounted, TypeOK

LEMMA ApplyWriteType ==
  ASSUME TypeOK, NEW s \in Slots, clcb[s] \in Clients, NEW ids \in WriteLists, NEW op,
         NEW fault, NEW plan \in PlansOf(clcb[s], op), NEW n, ApplyWrite(s, op, ids, n, fault, plan)
  PROVE  TypeOK'
<1>1. \A a \in Ases : /\ Applied(s, op, ase[s][a], a, fault, plan) \in AseData
                      /\ Settled(Applied(s, op, ase[s][a], a, fault, plan)) \in AseData
  BY AppliedType, SettledType, PlanType DEF TypeOK
<1>2. ase' \in [Slots -> [Ases -> AseData]]
  BY <1>1 DEF ApplyWrite, TypeOK
<1>3. told' \in [Slots -> [Ases -> AseStates]]
  BY <1>2, NotifyCountedType DEF ApplyWrite
<1>4. cis' \in [Handles -> CisData] /\ audio' \in AudioStates
  BY WithOutputType DEF ApplyWrite, TypeOK, AudioStates
<1>5. missed' \in [Slots -> SUBSET Ases]
  BY MissUncountedType DEF ApplyWrite
<1> QED BY <1>2, <1>3, <1>4, <1>5 DEF ApplyWrite, TypeOK

LEMMA ApplyStartReadyType ==
  ASSUME TypeOK, NEW s \in Slots, NEW ids \in WriteLists, NEW res, NEW n,
         ApplyStartReady(s, ids, n, res)
  PROVE  TypeOK'
<1>1. ase' \in [Slots -> [Ases -> AseData]]
  <2>1. ASSUME NEW r \in AseData
        PROVE  [r EXCEPT !.state = "streaming"] \in AseData
    BY DEF AseData, AseStates
  <2>2. \A a \in Ases : ase[s][a] \in AseData
    BY DEF TypeOK
  <2> QED BY <2>1, <2>2 DEF ApplyStartReady, TypeOK
<1>2. told' \in [Slots -> [Ases -> AseStates]]
  BY <1>1, NotifyCountedType DEF ApplyStartReady
<1>3. setups' \subseteq Setups
  <2>1. \A a \in Started(ids, res) : a \in Ases
    BY ReachedAses
  <2>2. \A a \in Started(ids, res) : IsCisConnected(ase[s][a].handle) =>
          [slot |-> s, ase |-> a, handle |-> ase[s][a].handle] \in Setups
    BY <2>1 DEF IsCisConnected, Setups
  <2> QED BY <2>2 DEF ApplyStartReady, TypeOK
<1>4. cis' \in [Handles -> CisData] /\ audio' \in AudioStates
  BY WithOutputType DEF ApplyStartReady, TypeOK, AudioStates
<1>5. missed' \in [Slots -> SUBSET Ases]
  BY MissUncountedType DEF ApplyStartReady
<1> QED BY <1>1, <1>2, <1>3, <1>4, <1>5 DEF ApplyStartReady, TypeOK

LEMMA CisRequestType ==
  ASSUME TypeOK, NEW c \in Clients, NEW id \in CisIds, NEW h \in Handles, CisRequest(c, id, h)
  PROVE  TypeOK'
<1>1. ase' \in [Slots -> [Ases -> AseData]]
  BY UpdateType DEF CisRequest, Update
<1>2. cis' \in [Handles -> CisData]
  BY DEF CisRequest, TypeOK, FreeCis, CisData
<1> QED BY <1>1, <1>2 DEF CisRequest, TypeOK

LEMMA CisFailedType ==
  ASSUME TypeOK, NEW h \in Handles, CisFailed(h)
  PROVE  TypeOK'
BY DEF CisFailed, TypeOK, FreeCis, CisData

LEMMA CisEstablishedType ==
  ASSUME TypeOK, NEW h \in Handles, NEW res, CisEstablished(h, res)
  PROVE  TypeOK'
<1> DEFINE sinks   == lehs_find_ase_with_cis_id(cis[h].id, SinkAses)
           sources == lehs_find_ase_with_cis_id(cis[h].id, SourceAses)
           asking  == AwaitingCis(sinks, sources)
<1>1. ase' \in [Slots -> [Ases -> AseData]]
  <2>1. ASSUME NEW r \in AseData
        PROVE  [r EXCEPT !.handle = h] \in AseData
    BY DEF AseData
  <2>2. \A s \in Slots, a \in Ases : ase[s][a] \in AseData
    BY DEF TypeOK
  <2>3. PICK places :
          ase' = [s \in Slots |-> [a \in Ases |->
                    IF <<s, a>> \in places THEN [ase[s][a] EXCEPT !.handle = h] ELSE ase[s][a]]]
    BY DEF CisEstablished, Update
  <2> QED BY <2>1, <2>2, <2>3
<1>2. cis' \in [Handles -> CisData]
  <2>1. cis[h] \in CisData /\ (\E p \in asking \cap sinks : res[p[2]] = "ok") \in BOOLEAN
    BY DEF TypeOK
  <2> QED BY <2>1 DEF CisEstablished, TypeOK, CisData
<1>3. setups' \subseteq Setups
  <2>1. asking \subseteq Slots \X Ases
    BY DEF AwaitingCis, lehs_find_ase_with_cis_id, FirstOf, Ases
  <2>2. \A p \in asking : [slot |-> p[1], ase |-> p[2], handle |-> h] \in Setups
    BY <2>1 DEF Setups
  <2>3. setups' = setups \cup {[slot |-> p[1], ase |-> p[2], handle |-> h] :
                                  p \in {q \in asking : res[q[2]] = "ok"}}
    BY DEF CisEstablished
  <2> QED BY <2>2, <2>3 DEF TypeOK
<1>4. audio' \in AudioStates
  BY DEF CisEstablished, TypeOK, AudioStates
<1> QED BY <1>1, <1>2, <1>3, <1>4 DEF CisEstablished, TypeOK

LEMMA CisDisconnectedType ==
  ASSUME TypeOK, NEW h \in Handles, CisDisconnected(h)
  PROVE  TypeOK'
<1>1. \A s \in Slots, a \in Ases : ase[s][a] \in AseData
  BY DEF TypeOK
<1>2. \A s \in Slots, a \in Ases :
        DroppedSink(ase[s][a]) \in AseData /\ DroppedSource(ase[s][a]) \in AseData
  BY <1>1, DroppedType
<1>3. ase' \in [Slots -> [Ases -> AseData]]
  BY <1>1, <1>2 DEF CisDisconnected
<1>4. \A s \in Slots, a \in Ases : ase'[s][a].state \in AseStates
  BY <1>3 DEF AseData
<1>5. told' \in [Slots -> [Ases -> AseStates]]
  BY <1>4 DEF CisDisconnected, TypeOK
<1>6. cis' \in [Handles -> CisData]
  BY DEF CisDisconnected, TypeOK, FreeCis, CisData
<1>7. audio' \in AudioStates
  BY DEF CisDisconnected, AudioAfterLoss, TypeOK, AudioStates
<1> QED BY <1>3, <1>5, <1>6, <1>7 DEF CisDisconnected, TypeOK

LEMMA DataPathFailedType ==
  ASSUME TypeOK, NEW p \in setups, DataPathFailed(p)
  PROVE  TypeOK'
BY WithOutputType DEF DataPathFailed, TypeOK

LEMMA DataPathSetupType ==
  ASSUME TypeOK, NEW p \in setups, DataPathSetup(p)
  PROVE  TypeOK'
<1>1. p.slot \in Slots /\ p.ase \in Ases
  BY DEF TypeOK, Setups
<1>2. WithPath(p.ase, ase[p.slot][p.ase]) \in AseData
  BY <1>1, WithPathType DEF TypeOK
<1>3. ase' \in [Slots -> [Ases -> AseData]]
  <2> DEFINE r == WithPath(p.ase, ase[p.slot][p.ase])
  <2>1. \/ ase' = ase
        \/ ase' = [ase EXCEPT ![p.slot] = [@ EXCEPT ![p.ase] = r]]
    BY DEF DataPathSetup
  <2>2. r \in AseData
    BY <1>2
  <2> HIDE DEF r
  <2>3. [ase[p.slot] EXCEPT ![p.ase] = r] \in [Ases -> AseData]
    BY <1>1, <2>2 DEF TypeOK
  <2> QED BY <1>1, <2>1, <2>3 DEF TypeOK
<1>4. told' \in [Slots -> [Ases -> AseStates]]
  BY DEF DataPathSetup, TypeOK, AseStates
<1>5. audio' \in AudioStates
  BY DEF DataPathSetup, TypeOK, AudioStates
<1> QED BY <1>3, <1>4, <1>5 DEF DataPathSetup, TypeOK

LEMMA LinkType ==
  ASSUME TypeOK, Link
  PROVE  TypeOK'
<1>1. BlankAse \in AseData /\ "idle" \in AseStates
  BY DEF BlankAse, AseData, AseStates
<1>2. CASE \E c \in Clients, s \in Slots : GattConnected(c, s)
  BY <1>1, <1>2 DEF GattConnected, Reset, TypeOK
<1>3. CASE \E s \in Slots : GattDisconnected(s)
  BY <1>1, <1>3 DEF GattDisconnected, Reset, TypeOK
<1> QED BY <1>2, <1>3 DEF Link

LEMMA IsoType ==
  ASSUME TypeOK, Iso
  PROVE  TypeOK'
BY CisRequestType, CisFailedType, CisEstablishedType, CisDisconnectedType,
   DataPathFailedType, DataPathSetupType DEF Iso

LEMMA ControlPointWriteType ==
  ASSUME TypeOK, NEW s \in Slots, clcb[s] \in Clients, ControlPointWrite(s)
  PROVE  TypeOK'
BY RejectWriteType, ApplyWriteType, ApplyStartReadyType DEF ControlPointWrite

LEMMA InitType == Init => TypeOK
BY DEF Init, TypeOK, BlankAse, AseData, AseStates, FreeCis, CisData, AudioStates

LEMMA StepType == TypeOK /\ [Next]_vars => TypeOK'
<1> SUFFICES ASSUME TypeOK, [Next]_vars PROVE TypeOK'
  OBVIOUS
<1>1. CASE Next
  BY <1>1, LinkType, IsoType, ControlPointWriteType DEF Next
<1>2. CASE UNCHANGED vars
  BY <1>2 DEF vars, TypeOK
<1> QED BY <1>1, <1>2

\* Every handler leaves the tables of the unicast server well formed: no ASE is
\* ever in a state, or holds an id or a handle, that the handlers do not know.
THEOREM TypeCorrect == Spec => []TypeOK
BY InitType, StepType, PTL DEF Spec
-----------------------------------------------------------------------------
(* What one step can make of one ASE *)

\* An operation that is accepted for the ASE is applied, and settled if it is counted
AppliedTo(s, a) ==
  \E op, fault, plan :
    /\ ase[s][a].state \in AcceptedIn(op)
    /\ op = "config_qos" => plan[a] \in CisIds
    /\ op # "receiver_start_ready"
    /\ \/ ase'[s][a] = Applied(s, op, ase[s][a], a, fault, plan)
       \/ ase'[s][a] = Settled(Applied(s, op, ase[s][a], a, fault, plan))

\* RECEIVER_START_READY is carried out
StartedByClient(s, a) ==
  /\ "receiver_start_ready" \in ClientOps[a]
  /\ ase[s][a].state = "enabling"
  /\ ase'[s][a] = [ase[s][a] EXCEPT !.state = "streaming"]

AseStep(s, a) ==
  \/ ase'[s][a] = ase[s][a]
  \/ ase'[s][a] = BlankAse
  \/ \E h : ase'[s][a] = [ase[s][a] EXCEPT !.handle = h]
  \/ \E id \in CisIds : ase'[s][a] = WithQos(s, ase[s][a], id)
  \/ AppliedTo(s, a)
  \/ StartedByClient(s, a)
  \/ ase'[s][a] \in {DroppedSink(ase[s][a]), DroppedSource(ase[s][a])}
  \/ ase'[s][a] = WithPath(a, ase[s][a])

LEMMA QosPlanType ==
  ASSUME NEW c \in Clients, NEW plan \in PlansOf(c, "config_qos"), NEW a \in Ases
  PROVE  plan[a] \in CisIds
BY ConstantsAssumption DEF PlansOf

LEMMA RejectWriteSteps ==
  ASSUME TypeOK, NEW s \in Slots, clcb[s] \in Clients, NEW ids \in WriteLists, NEW op,
         NEW fault, NEW plan \in PlansOf(clcb[s], op), RejectWrite(s, op, ids, fault, plan),
         NEW t \in Slots, NEW a \in Ases
  PROVE  AseStep(t, a)
<1>1. CASE t = s /\ ase'[t][a] # ase[t][a]
  <2>1. op = "config_qos" /\ ase'[t][a] = WithQos(s, ase[s][a], plan[a])
    BY <1>1 DEF RejectWrite, TypeOK
  <2>2. plan[a] \in CisIds
    BY <2>1, QosPlanType
  <2> QED BY <1>1, <2>1, <2>2 DEF AseStep
<1>2. CASE t # s
  BY <1>2 DEF RejectWrite, TypeOK, AseStep
<1> QED BY <1>1, <1>2 DEF AseStep

LEMMA ApplyWriteSteps ==
  ASSUME TypeOK, NEW s \in Slots, clcb[s] \in Clients, NEW ids \in WriteLists, NEW op,
         NEW fault, NEW plan \in PlansOf(clcb[s], op), NEW n,
         ApplyWrite(s, op, ids, n, fault, plan), NEW t \in Slots, NEW a \in Ases
  PROVE  AseStep(t, a)
<1>1. CASE t = s /\ a \in Named(ids)
  <2>1. ase[s][a].state \in AcceptedIn(op)
    BY <1>1 DEF ApplyWrite, Rejected, Refuses
  <2>2. op = "config_qos" => plan[a] \in CisIds
    BY QosPlanType
  <2>3. \/ ase'[s][a] = Applied(s, op, ase[s][a], a, fault, plan)
        \/ ase'[s][a] = Settled(Applied(s, op, ase[s][a], a, fault, plan))
    BY <1>1 DEF ApplyWrite, TypeOK
  <2>4. op # "receiver_start_ready"
    BY DEF ApplyWrite
  <2>5. AppliedTo(s, a)
    BY <2>1, <2>2, <2>3, <2>4 DEF AppliedTo
  <2> QED BY <1>1, <2>5 DEF AseStep
<1>2. CASE ~(t = s /\ a \in Named(ids))
  <2>1. t = s => a \notin Counted(ids, n)
    BY <1>2 DEF Counted, Named
  <2>2. ase'[t][a] = ase[t][a]
    BY <1>2, <2>1 DEF ApplyWrite, TypeOK
  <2> QED BY <2>2 DEF AseStep
<1> QED BY <1>1, <1>2

LEMMA ApplyStartReadySteps ==
  ASSUME TypeOK, NEW s \in Slots, NEW ids \in WriteLists, NEW res, NEW n,
         ApplyStartReady(s, ids, n, res), NEW t \in Slots, NEW a \in Ases
  PROVE  AseStep(t, a)
<1>1. CASE t = s /\ a \in Started(ids, res)
  <2>1. a \in Named(ids)
    BY <1>1 DEF Started, Named
  <2>2. ase[s][a].state = "enabling" /\ "receiver_start_ready" \in ClientOps[a]
    BY <2>1 DEF ApplyStartReady, Writes, AcceptedIn
  <2>3. ase'[s][a] = [ase[s][a] EXCEPT !.state = "streaming"]
    BY <1>1 DEF ApplyStartReady, TypeOK
  <2>4. StartedByClient(s, a)
    BY <2>2, <2>3 DEF StartedByClient
  <2> QED BY <1>1, <2>4 DEF AseStep
<1>2. CASE ~(t = s /\ a \in Started(ids, res))
  <2>1. ase'[t][a] = ase[t][a]
    BY <1>2 DEF ApplyStartReady, TypeOK
  <2> QED BY <2>1 DEF AseStep
<1> QED BY <1>1, <1>2

LEMMA LinkSteps ==
  ASSUME TypeOK, Link, NEW t \in Slots, NEW a \in Ases
  PROVE  AseStep(t, a)
<1>1. PICK s \in Slots : ase' = Reset(ase, s, BlankAse)
  BY DEF Link, GattConnected, GattDisconnected
<1>2. ase'[t][a] \in {ase[t][a], BlankAse}
  BY <1>1 DEF Reset, TypeOK
<1> QED BY <1>2 DEF AseStep

LEMMA IsoSteps ==
  ASSUME TypeOK, Iso, NEW t \in Slots, NEW a \in Ases
  PROVE  AseStep(t, a)
<1>1. CASE \E c \in Clients, id \in CisIds, h \in Handles : CisRequest(c, id, h)
  <2>1. PICK c \in Clients, id \in CisIds, h \in Handles : CisRequest(c, id, h)
    BY <1>1
  <2>2. PICK places :
          ase' = [s \in Slots |-> [b \in Ases |->
                    IF <<s, b>> \in places THEN [ase[s][b] EXCEPT !.handle = h] ELSE ase[s][b]]]
    BY <2>1 DEF CisRequest, Update
  <2> QED BY <2>2 DEF AseStep
<1>2. CASE \E h \in Handles : CisFailed(h)
  BY <1>2 DEF CisFailed, AseStep
<1>3. CASE \E h \in Handles, res \in [Ases -> SetupResults] : CisEstablished(h, res)
  <2>1. PICK h \in Handles, res \in [Ases -> SetupResults] : CisEstablished(h, res)
    BY <1>3
  <2>2. PICK places :
          ase' = [s \in Slots |-> [b \in Ases |->
                    IF <<s, b>> \in places THEN [ase[s][b] EXCEPT !.handle = h] ELSE ase[s][b]]]
    BY <2>1 DEF CisEstablished, Update
  <2> QED BY <2>2 DEF AseStep
<1>4. CASE \E h \in Handles : CisDisconnected(h)
  <2>1. ase'[t][a] \in {ase[t][a], DroppedSink(ase[t][a]), DroppedSource(ase[t][a])}
    BY <1>4 DEF CisDisconnected
  <2> QED BY <2>1 DEF AseStep
<1>5. CASE \E p \in setups : DataPathFailed(p)
  BY <1>5 DEF DataPathFailed, AseStep
<1>6. CASE \E p \in setups : DataPathSetup(p)
  <2>1. PICK p \in setups : DataPathSetup(p)
    BY <1>6
  <2> DEFINE r == WithPath(p.ase, ase[p.slot][p.ase])
  <2>2. \/ ase' = ase
        \/ ase' = [ase EXCEPT ![p.slot] = [@ EXCEPT ![p.ase] = r]]
    BY <2>1 DEF DataPathSetup
  <2> HIDE DEF r
  <2>3. \/ ase'[t][a] = ase[t][a]
        \/ t = p.slot /\ a = p.ase /\ ase'[t][a] = r
    BY <2>2 DEF TypeOK
  <2> QED BY <2>3 DEF AseStep, r
<1> QED BY <1>1, <1>2, <1>3, <1>4, <1>5, <1>6 DEF Iso

LEMMA StepOfAse ==
  ASSUME TypeOK, [Next]_vars, NEW t \in Slots, NEW a \in Ases
  PROVE  AseStep(t, a)
<1>1. CASE Link \/ Iso
  BY <1>1, LinkSteps, IsoSteps
<1>2. CASE \E s \in Slots : clcb[s] \in Clients /\ ControlPointWrite(s)
  <2>1. PICK s \in Slots : clcb[s] \in Clients /\ ControlPointWrite(s)
    BY <1>2
  <2> QED BY <2>1, RejectWriteSteps, ApplyWriteSteps, ApplyStartReadySteps DEF ControlPointWrite
<1>3. CASE UNCHANGED vars
  BY <1>3 DEF vars, AseStep
<1> QED BY <1>1, <1>2, <1>3 DEF Next

-----------------------------------------------------------------------------
(* CoupledAseHasQos, one ASE at a time *)

Coupled(r) == r.state \in AtLeastQos \ {"releasing"} => r.id \in CisIds

\* A CONFIG_QOS that is taken on gives a QoS configuration; every other
\* operation that is accepted keeps the one there is, or leaves QoS configured.
LEMMA AppliedCoupled ==
  ASSUME NEW s, NEW op, NEW r \in AseData, Coupled(r), r.state \in AcceptedIn(op), NEW a,
         NEW fault, NEW plan, op = "config_qos" => plan[a] \in CisIds
  PROVE  /\ Coupled(Applied(s, op, r, a, fault, plan))
         /\ Coupled(Settled(Applied(s, op, r, a, fault, plan)))
<1> DEFINE q == Applied(s, op, r, a, fault, plan)
<1>1. q \in AseData
  <2>1. CASE op = "config_qos"
    BY <2>1, AppliedType
  <2>2. CASE op # "config_qos"
    <3>1. NextState(a \in SinkAses, r.state, op) \in AseStates
      BY NextStateType DEF AseData
    <3>2. q = [r EXCEPT !.state = NextState(a \in SinkAses, r.state, op)]
      BY <2>2 DEF Applied
    <3> QED BY <3>1, <3>2 DEF AseData
  <2> QED BY <2>1, <2>2
<1>2. Coupled(q)
  <2>1. CASE op = "config_qos" /\ fault[a] = "skip"
    BY <2>1 DEF Applied
  <2>2. CASE op = "config_qos" /\ fault[a] # "skip"
    <3>1. WithQos(s, r, plan[a]) \in AseData /\ WithQos(s, r, plan[a]).id = plan[a]
      BY <2>2, WithQosType DEF WithQos, AseData
    <3>2. q = [WithQos(s, r, plan[a]) EXCEPT !.state = NextState(a \in SinkAses, r.state, op)]
      BY <2>2 DEF Applied
    <3>3. q.id = plan[a]
      BY <3>1, <3>2 DEF AseData
    <3> QED BY <2>2, <3>3 DEF Coupled
  <2>3. CASE op # "config_qos"
    <3>1. q = [r EXCEPT !.state = NextState(a \in SinkAses, r.state, op)]
      BY <2>3 DEF Applied
    <3>2. q.id = r.id /\ q.state = NextState(a \in SinkAses, r.state, op)
      BY <3>1 DEF AseData
    <3>3. q.state \in AtLeastQos \ {"releasing"} => r.state \in AtLeastQos \ {"releasing"}
      BY <2>3, <3>2 DEF NextState, AcceptedIn, AtLeastQos
    <3> QED BY <3>2, <3>3 DEF Coupled
  <2> QED BY <2>1, <2>2, <2>3
<1> HIDE DEF q
<1>3. Coupled(Settled(q))
  BY <1>1, <1>2 DEF Settled, Coupled, AseData, AtLeastQos
<1> QED BY <1>2, <1>3 DEF q

\* The loss of a CIS keeps the QoS configuration, or ends in idle.
LEMMA DroppedCoupled ==
  ASSUME NEW r \in AseData, Coupled(r)
  PROVE  Coupled(Dropped(r)) /\ Coupled(DroppedSink(r)) /\ Coupled(DroppedSource(r))
BY DEF Dropped, DroppedSink, DroppedSource, Coupled, AseData, AtLeastQos

\* A data path makes an ASE streaming that was enabling before.
LEMMA WithPathCoupled ==
  ASSUME NEW a, NEW r \in AseData, Coupled(r)
  PROVE  Coupled(WithPath(a, r))
BY DEF WithPath, Coupled, AseData, AtLeastQos

\* A new handle changes neither the state nor the QoS configuration.
LEMMA WithHandleCoupled ==
  ASSUME NEW r \in AseData, NEW h, Coupled(r)
  PROVE  Coupled([r EXCEPT !.handle = h])
BY DEF Coupled, AseData

LEMMA CoupledStep ==
  ASSUME TypeOK, CoupledAseHasQos, [Next]_vars
  PROVE  CoupledAseHasQos'
<1> SUFFICES ASSUME NEW s \in Slots, NEW a \in Ases
             PROVE  Coupled(ase'[s][a])
  BY DEF CoupledAseHasQos, Coupled
<1>1. ase[s][a] \in AseData /\ Coupled(ase[s][a])
  BY DEF TypeOK, CoupledAseHasQos, Coupled
<1>2. Coupled(BlankAse)
  BY DEF Coupled, BlankAse, AtLeastQos
<1>3. ASSUME NEW id \in CisIds
      PROVE  Coupled(WithQos(s, ase[s][a], id))
  BY <1>1 DEF WithQos, Coupled, AseData
<1>4. AppliedTo(s, a) => Coupled(ase'[s][a])
  BY <1>1, AppliedCoupled DEF AppliedTo
<1>5. StartedByClient(s, a) => Coupled(ase'[s][a])
  BY <1>1 DEF StartedByClient, Coupled, AseData, AtLeastQos
<1> QED BY <1>1, <1>2, <1>3, <1>4, <1>5, StepOfAse, WithHandleCoupled, DroppedCoupled,
           WithPathCoupled DEF AseStep

\* Whatever the clients write and whenever CISes come and go, an ASE that is
\* QoS configured or further has the ids a CIS event finds it by.
THEOREM CoupledHasQos == Spec => []CoupledAseHasQos
<1>1. Init => CoupledAseHasQos
  BY DEF Init, CoupledAseHasQos, BlankAse, AtLeastQos
<1> QED BY <1>1, CoupledStep, TypeCorrect, PTL DEF Spec

-----------------------------------------------------------------------------
(* StreamingSinkHasDataPath, one ASE at a time *)

Heard(r) == r.state = "streaming" => r.path

\* No operation but RECEIVER_START_READY makes an ASE streaming
LEMMA AppliedHeard ==
  ASSUME NEW s, NEW op, NEW r \in AseData, Heard(r), NEW a, NEW fault, NEW plan,
         op = "config_qos" => plan[a] \in CisIds, op # "receiver_start_ready"
  PROVE  /\ Heard(Applied(s, op, r, a, fault, plan))
         /\ Heard(Settled(Applied(s, op, r, a, fault, plan)))
<1> DEFINE q == Applied(s, op, r, a, fault, plan)
<1>1. CASE op = "config_qos"
  <2>1. \/ q = r
        \/ q = [WithQos(s, r, plan[a]) EXCEPT !.state = "qos"]
    BY <1>1 DEF Applied, NextState
  <2>2. WithQos(s, r, plan[a]) \in AseData
    BY <1>1, WithQosType
  <2>3. q \in AseData /\ Heard(q)
    BY <2>1, <2>2 DEF AseData, AseStates, Heard
  <2> HIDE DEF q
  <2>4. Heard(Settled(q))
    BY <2>3 DEF Heard, Settled, AseData
  <2> QED BY <2>3, <2>4 DEF q
<1>2. CASE op # "config_qos"
  <2>1. q = [r EXCEPT !.state = NextState(a \in SinkAses, r.state, op)]
    BY <1>2 DEF Applied
  <2>2. NextState(a \in SinkAses, r.state, op) \in AseStates
    BY NextStateType DEF AseData
  <2>3. NextState(a \in SinkAses, r.state, op) = "streaming" => r.state = "streaming"
    BY DEF NextState
  <2>4. q \in AseData /\ Heard(q)
    BY <2>1, <2>2, <2>3 DEF AseData, Heard
  <2> HIDE DEF q
  <2>5. Heard(Settled(q))
    BY <2>4 DEF Heard, Settled, AseData
  <2> QED BY <2>4, <2>5 DEF q
<1> QED BY <1>1, <1>2

\* With its CIS an ASE loses the data path, and leaves streaming.
LEMMA DroppedHeard ==
  ASSUME NEW r \in AseData
  PROVE  Heard(DroppedSink(r)) /\ Heard(DroppedSource(r))
BY DEF Dropped, DroppedSink, DroppedSource, Heard, AseData

\* Clients write RECEIVER_START_READY for source ASEs only, as the direction of
\* that operation demands.
StartReadyIsForSources == \A a \in SinkAses : "receiver_start_ready" \notin ClientOps[a]

LEMMA HeardStep ==
  ASSUME TypeOK, StartReadyIsForSources, StreamingSinkHasDataPath, [Next]_vars
  PROVE  StreamingSinkHasDataPath'
<1> SUFFICES ASSUME NEW s \in Slots, NEW a \in SinkAses
             PROVE  Heard(ase'[s][a])
  BY DEF StreamingSinkHasDataPath, Heard
<1>1. a \in Ases /\ ase[s][a] \in AseData /\ Heard(ase[s][a])
  BY DEF TypeOK, StreamingSinkHasDataPath, Heard, Ases
<1>2. Heard(BlankAse) /\ Heard(WithPath(a, ase[s][a]))
  BY <1>1 DEF Heard, BlankAse, WithPath, AseData
<1>3. ASSUME NEW id, NEW h
      PROVE  Heard(WithQos(s, ase[s][a], id)) /\ Heard([ase[s][a] EXCEPT !.handle = h])
  BY <1>1 DEF WithQos, Heard, AseData
<1>4. AppliedTo(s, a) => Heard(ase'[s][a])
  BY <1>1, AppliedHeard DEF AppliedTo
<1>5. ~StartedByClient(s, a)
  BY DEF StartedByClient, StartReadyIsForSources
<1> QED BY <1>1, <1>2, <1>3, <1>4, <1>5, StepOfAse, DroppedHeard DEF AseStep

\* A sink is streaming only while it has its data path, for every numbering of
\* CISes and handles and any number of clients, whatever is lost meanwhile.
THEOREM StreamingHasDataPath ==
  StartReadyIsForSources => (Spec => []StreamingSinkHasDataPath)
<1> SUFFICES ASSUME StartReadyIsForSources
             PROVE  Spec => []StreamingSinkHasDataPath
  OBVIOUS
<1>1. Init => StreamingSinkHasDataPath
  BY DEF Init, StreamingSinkHasDataPath, BlankAse, Ases
<1>2. TypeOK /\ StreamingSinkHasDataPath /\ [Next]_vars => StreamingSinkHasDataPath'
  BY HeardStep
<1> QED BY <1>1, <1>2, TypeCorrect, PTL DEF Spec
=============================================================================
