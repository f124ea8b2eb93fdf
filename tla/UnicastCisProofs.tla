-------------------------- MODULE UnicastCisProofs --------------------------
(***************************************************************************)
(* Proofs about the unicast server and its CISes: that the handle of a CIS *)
(* is with the ASEs configured for it, that ASEs wait and stream on CISes  *)
(* of their own, what a client is told and how it follows the life cycle   *)
(* of an ASE, and that the codec runs for somebody.                        *)
(*                                                                         *)
(* The code looks CISes and ASEs up by CIG and CIS ids and by handles, and *)
(* compares no connection.  What the centrals and the controller must do   *)
(* for these look ups to be right is stated first, condition by condition; *)
(* each theorem names the ones it needs.                                   *)
(***************************************************************************)
EXTENDS UnicastServerProofs

-----------------------------------------------------------------------------
(* What is assumed of the centrals, where it is needed                         *)

PlanIds(c, a) == {plan[a] : plan \in QosPlans[c]}

PlanUses(c, id) == \E a \in Ases : id \in PlanIds(c, a)

\* A central creates CISes for its ASEs, or, unless CisOnlyForAse, any of those it
\* has handles for.
MayUse(c, id) == PlanUses(c, id) \/ (~CisOnlyForAse /\ HandlePool[c][id] # {})

\* Centrals choose different CIG and CIS ids: the code compares no client.
DistinctIds == \A c, d \in Clients, id \in CisIds : MayUse(c, id) /\ MayUse(d, id) => c = d

\* Each CIS has handles of its own.
HandlesPerCis ==
  \A c, d \in Clients, i, j \in CisIds :
    HandlePool[c][i] \cap HandlePool[d][j] # {} => c = d /\ i = j

\* A CIS carries one ASE of each direction at most.
OneAsePerDirection ==
  \A c \in Clients, dir \in {SinkAses, SourceAses} : \A a, b \in dir :
    PlanIds(c, a) \cap PlanIds(c, b) # {} => a = b

\* A CIS carries one ASE.
OneAsePerCis ==
  \A c \in Clients, a, b \in Ases : PlanIds(c, a) \cap PlanIds(c, b) # {} => a = b

\* A client maps an ASE to the same CIS whenever it configures it.
OnePlan == \A c \in Clients : \A p, q \in QosPlans[c] : p = q

OneClient == \A c, d \in Clients : c = d
-----------------------------------------------------------------------------
(* Invariants *)

\* A CIS of the stack is of a client, with ids and a handle that client may use.
CisesOwned ==
  \A h \in Handles :
    \/ cis[h] = FreeCis
    \/ /\ cis[h].client \in Clients
       /\ cis[h].id \in CisIds
       /\ MayUse(cis[h].client, cis[h].id)
       /\ h \in HandlePool[cis[h].client][cis[h].id]

\* A client has one CIS with the same ids.
CisesApart ==
  \A h, k \in Handles :
    cis[h].client \in Clients /\ cis[h].client = cis[k].client /\ cis[h].id = cis[k].id => h = k

\* A client has one control block.
SlotsApart == \A s, t \in Slots : clcb[s] \in Clients /\ clcb[s] = clcb[t] => s = t

\* The ASEs of a block that is not in use are idle, and know no CIS.
UnusedIdle ==
  \A s \in Slots : clcb[s] = NoClient =>
    \A a \in Ases : /\ ase[s][a].state = "idle" /\ ase[s][a].id = NoCis /\ ase[s][a].handle = NoHandle
                    /\ told[s][a] = "idle"

\* An ASE has the ids of one of the plans of its client, or none.
IdsPlanned ==
  \A s \in Slots : clcb[s] \in Clients =>
    \A a \in Ases : ase[s][a].id \in {NoCis} \cup PlanIds(clcb[s], a)

\* An ASE has a handle of a CIS its client may have planned for it, or none.
HandlesPlanned ==
  \A s \in Slots : clcb[s] \in Clients =>
    \A a \in Ases :
      \/ ase[s][a].handle = NoHandle
      \/ \E id \in PlanIds(clcb[s], a) : ase[s][a].handle \in HandlePool[clcb[s]][id]

\* As long as it has ids, the handle is of the CIS they name.
HandlesOfIds ==
  \A s \in Slots : clcb[s] \in Clients =>
    \A a \in Ases : ase[s][a].id # NoCis =>
      ase[s][a].handle \in {NoHandle} \cup HandlePool[clcb[s]][ase[s][a].id]

\* An ASE that has the handle of a CIS has its ids.
HandleNamesCis ==
  \A s \in Slots, a \in Ases, h \in Handles :
    cis[h].client \in Clients /\ ase[s][a].handle = h => ase[s][a].id = cis[h].id
-----------------------------------------------------------------------------
(* How a write moves ASEs and CISes                                            *)

\* CONFIG_QOS gives an ASE ids of a plan, and the handle of the CIS that has them.
Configured(s, a) ==
  /\ ase[s][a].state \in {"codec", "qos"}
  /\ ase'[s][a].state \in {ase[s][a].state, "qos"}
  /\ ase'[s][a].id \in PlanIds(clcb[s], a)
  /\ ase'[s][a].handle = CisHandle(clcb[s], ase'[s][a].id)

\* Every other operation leaves ids and handle alone.
Operated(s, a) ==
  /\ ase'[s][a].id = ase[s][a].id
  /\ ase'[s][a].handle = ase[s][a].handle
  /\ ase'[s][a].state = "releasing" => IsCisConnected(ase[s][a].handle) \/ a \in missed'[s]
  /\ ase'[s][a].state = "streaming" =>
       ase[s][a].state = "streaming" \/ "receiver_start_ready" \in ClientOps[a]
  /\ ase'[s][a].state \in AtLeastQos \ {"releasing"} => ase[s][a].state \in AtLeastQos \ {"releasing"}

\* A write moves the ASEs of its client.
WriteMoves(s) ==
  \A t \in Slots, a \in Ases :
    \/ ase'[t][a] = ase[t][a]
    \/ t = s /\ (Configured(s, a) \/ Operated(s, a))

\* Of the CISes, it changes output paths of those the ASEs of its client have handles of.
WriteKeepsCises(s) ==
  \A h \in Handles :
    /\ cis'[h].client = cis[h].client /\ cis'[h].id = cis[h].id /\ cis'[h].up = cis[h].up
    /\ cis'[h] # cis[h] => (\E a \in Ases : ase[s][a].handle = h) /\ cis[h] # FreeCis

LEMMA RejectWriteMoves ==
  ASSUME TypeOK, NEW s \in Slots, clcb[s] \in Clients, NEW ids \in WriteLists, NEW op, NEW fault,
         NEW plan \in PlansOf(clcb[s], op), RejectWrite(s, op, ids, fault, plan)
  PROVE  WriteMoves(s)
<1> SUFFICES ASSUME NEW t \in Slots, NEW a \in Ases, ase'[t][a] # ase[t][a]
             PROVE  t = s /\ Configured(s, a)
  BY DEF WriteMoves
<1>1. /\ t = s /\ op = "config_qos" /\ a \in Validated(s, op, ids, fault)
      /\ ase'[s][a] = WithQos(s, ase[s][a], plan[a])
  BY DEF RejectWrite, TypeOK
<1>2. ase[s][a].state \in {"codec", "qos"}
  <2>1. PICK i \in DOMAIN ids : ids[i] = a /\ \A k \in 1..i : ~Refuses(s, op, fault, ids[k])
    BY <1>1 DEF Validated
  <2>2. i \in 1..i
    BY ConstantsAssumption
  <2> QED BY <1>1, <2>1, <2>2 DEF Refuses, AcceptedIn
<1>3. plan[a] \in PlanIds(clcb[s], a)
  BY <1>1 DEF PlansOf, PlanIds
<1>4. /\ ase'[s][a].id = plan[a] /\ ase'[s][a].state = ase[s][a].state
      /\ ase'[s][a].handle = CisHandle(clcb[s], plan[a])
  BY <1>1 DEF WithQos, TypeOK, AseData
<1> QED BY <1>1, <1>2, <1>3, <1>4 DEF Configured

LEMMA SettledFields ==
  ASSUME NEW r \in AseData
  PROVE  /\ Settled(r).id = r.id /\ Settled(r).handle = r.handle
         /\ Settled(r).state = IF IsCisConnected(r.handle) THEN r.state
                               ELSE IF r.state = "releasing" THEN "idle"
                               ELSE IF r.state = "disabling" THEN "qos" ELSE r.state
BY DEF Settled, AseData

\* What the table makes of a state it accepts
LEMMA NextStates ==
  ASSUME NEW sink, NEW st, NEW op, st \in AcceptedIn(op), op # "config_qos"
  PROVE  /\ NextState(sink, st, op) = "streaming" => st = "streaming" \/ op = "receiver_start_ready"
         /\ NextState(sink, st, op) \in AtLeastQos \ {"releasing"} => st \in AtLeastQos \ {"releasing"}
BY DEF NextState, AcceptedIn, AtLeastQos

\* Of the ASEs a write is applied to, those it does not count are in missed.
LEMMA NamedMissed ==
  ASSUME TypeOK, NEW s \in Slots, NEW ids, NEW n, MissUncounted(s, ids, n),
         NEW a \in Named(ids), a \notin Counted(ids, n)
  PROVE  a \in missed'[s]
BY DEF MissUncounted, TypeOK

LEMMA ApplyWriteMoves ==
  ASSUME TypeOK, NEW s \in Slots, clcb[s] \in Clients, NEW ids \in WriteLists, NEW op, NEW n, NEW fault,
         NEW plan \in PlansOf(clcb[s], op), ApplyWrite(s, op, ids, n, fault, plan)
  PROVE  WriteMoves(s)
<1> SUFFICES ASSUME NEW t \in Slots, NEW a \in Ases, ase'[t][a] # ase[t][a]
             PROVE  t = s /\ (Configured(s, a) \/ Operated(s, a))
  BY DEF WriteMoves
<1> DEFINE r == ase[s][a]
           q == Applied(s, op, r, a, fault, plan)
<1>1. /\ t = s /\ a \in Named(ids)
      /\ \/ ase'[s][a] = Settled(q)
         \/ ase'[s][a] = q /\ a \in missed'[s]
  <2>1. t = s
    BY DEF ApplyWrite, TypeOK
  <2>2. ase'[s][a] = IF a \in Counted(ids, n) THEN Settled(q) ELSE IF a \in Named(ids) THEN q ELSE r
    BY DEF ApplyWrite, TypeOK
  <2>3. Counted(ids, n) \subseteq Named(ids)
    BY DEF Counted, Named
  <2>4. a \in Named(ids) /\ a \notin Counted(ids, n) => a \in missed'[s]
    BY NamedMissed DEF ApplyWrite
  <2> QED BY <2>1, <2>2, <2>3, <2>4
<1>2. r \in AseData /\ r.state \in AcceptedIn(op) /\ op # "receiver_start_ready"
  BY <1>1 DEF ApplyWrite, Rejected, Refuses, TypeOK
<1>3. q \in AseData
  BY <1>2, AppliedType, PlanType
<1>4. CASE op = "config_qos" /\ fault[a] # "skip"
  <2>1. plan[a] \in PlanIds(clcb[s], a) /\ plan[a] \in CisIds
    BY <1>4, QosPlanType DEF PlansOf, PlanIds
  <2>2. q = [WithQos(s, r, plan[a]) EXCEPT !.state = "qos"]
    BY <1>4 DEF Applied, NextState
  <2>3. /\ q.id = plan[a] /\ q.handle = CisHandle(clcb[s], plan[a]) /\ q.state = "qos"
    BY <1>2, <2>2 DEF WithQos, AseData
  <2> HIDE DEF q
  <2>4. ase'[s][a].id = plan[a] /\ ase'[s][a].handle = CisHandle(clcb[s], plan[a]) /\ ase'[s][a].state = "qos"
    BY <1>1, <1>3, <2>3, SettledFields
  <2>5. r.state \in {"codec", "qos"}
    BY <1>2, <1>4 DEF AcceptedIn
  <2> QED BY <1>1, <2>1, <2>4, <2>5 DEF Configured
<1>5. CASE ~(op = "config_qos" /\ fault[a] # "skip")
  <2>1. q.id = r.id /\ q.handle = r.handle
    BY <1>2, <1>5 DEF Applied, AseData
  <2>2. q.state = r.state \/ (op # "config_qos" /\ q.state = NextState(a \in SinkAses, r.state, op))
    BY <1>2, <1>5 DEF Applied, AseData
  <2>3. /\ q.state = "streaming" => r.state = "streaming"
        /\ q.state \in AtLeastQos \ {"releasing"} => r.state \in AtLeastQos \ {"releasing"}
    BY <1>2, <2>2, NextStates
  <2>4. q.state = "disabling" => r.state \in AtLeastQos \ {"releasing"}
    BY <2>3 DEF AtLeastQos
  <2> HIDE DEF q
  <2>5. CASE ase'[s][a] = Settled(q)
    BY <1>1, <1>3, <2>5, <2>1, <2>3, <2>4, SettledFields DEF Operated, AtLeastQos
  <2>6. CASE ase'[s][a] = q /\ a \in missed'[s]
    BY <1>1, <2>6, <2>1, <2>3 DEF Operated
  <2> QED BY <1>1, <2>5, <2>6
<1> QED BY <1>4, <1>5

LEMMA StartReadyMoves ==
  ASSUME TypeOK, NEW s \in Slots, NEW ids \in WriteLists, NEW n, NEW res, ApplyStartReady(s, ids, n, res)
  PROVE  WriteMoves(s)
<1> SUFFICES ASSUME NEW t \in Slots, NEW a \in Ases, ase'[t][a] # ase[t][a]
             PROVE  t = s /\ Operated(s, a)
  BY DEF WriteMoves
<1>1. t = s /\ a \in Started(ids, res) /\ ase'[s][a] = [ase[s][a] EXCEPT !.state = "streaming"]
  BY DEF ApplyStartReady, TypeOK
<1>2. ase[s][a].state = "enabling" /\ "receiver_start_ready" \in ClientOps[a]
  BY <1>1 DEF ApplyStartReady, Writes, AcceptedIn, Started, Named
<1>3. ase[s][a] \in AseData
  BY DEF TypeOK
<1>4. ase'[s][a].state = "streaming" /\ ase'[s][a].id = ase[s][a].id /\ ase'[s][a].handle = ase[s][a].handle
  BY <1>1, <1>3 DEF AseData
<1> QED BY <1>1, <1>2, <1>4 DEF Operated, AtLeastQos

\* The output paths that are requested are of CISes that are up.
LEMMA WithOutputKeeps ==
  ASSUME TypeOK, NEW requested, requested \subseteq UpHandles, NEW removed,
         cis' = WithOutput(requested, removed), NEW h \in Handles
  PROVE  /\ cis'[h].client = cis[h].client /\ cis'[h].id = cis[h].id /\ cis'[h].up = cis[h].up
         /\ cis'[h] # cis[h] => h \in requested \cup removed /\ cis[h] # FreeCis
<1>1. cis'[h] = [cis[h] EXCEPT !.out = h \notin removed /\ (h \in requested \/ @)]
  BY DEF WithOutput
<1>2. cis[h] \in CisData
  BY DEF TypeOK
<1>3. h \in requested => cis[h].up
  BY DEF UpHandles, IsCisConnected
<1>4. /\ cis'[h].client = cis[h].client /\ cis'[h].id = cis[h].id /\ cis'[h].up = cis[h].up
      /\ cis'[h].out = (h \notin removed /\ (h \in requested \/ cis[h].out))
      /\ cis'[h] \in CisData
  BY <1>1, <1>2 DEF CisData
<1>5. h \notin requested \cup removed => cis'[h] = cis[h]
  BY <1>1, <1>2 DEF CisData
<1>6. cis[h] = FreeCis => cis'[h] = cis[h]
  <2>1. cis[h] = FreeCis => h \notin requested /\ cis[h].out = FALSE
    BY <1>3 DEF FreeCis
  <2>2. cis[h] = FreeCis => cis'[h].out = FALSE
    BY <1>4, <2>1
  <2> QED BY <1>2, <1>4, <2>1, <2>2 DEF CisData
<1> QED BY <1>4, <1>5, <1>6

\* A connection does not forget what it has missed.
MissedKept == \A t \in Slots : missed[t] \subseteq missed'[t]

LEMMA MissesMore ==
  ASSUME TypeOK, NEW s \in Slots, NEW ids, NEW n, MissUncounted(s, ids, n)
  PROVE  MissedKept /\ \A t \in Slots \ {s} : missed'[t] = missed[t]
BY DEF MissUncounted, MissedKept, TypeOK

LEMMA WriteMovesAll ==
  ASSUME TypeOK, NEW s \in Slots, clcb[s] \in Clients, ControlPointWrite(s)
  PROVE  /\ WriteMoves(s) /\ WriteKeepsCises(s) /\ clcb' = clcb
         /\ MissedKept /\ \A t \in Slots \ {s} : missed'[t] = missed[t]
<1> DEFINE Moved == /\ WriteMoves(s) /\ WriteKeepsCises(s) /\ clcb' = clcb
                    /\ MissedKept /\ \A t \in Slots \ {s} : missed'[t] = missed[t]
<1>1. ASSUME NEW ids \in WriteLists, NEW op \in Opcodes, NEW fault \in FaultsOf(op),
             NEW plan \in PlansOf(clcb[s], op), RejectWrite(s, op, ids, fault, plan)
      PROVE  Moved
  BY <1>1, RejectWriteMoves DEF RejectWrite, WriteKeepsCises, MissedKept
<1>2. ASSUME NEW ids \in WriteLists, NEW op \in Opcodes, NEW fault \in FaultsOf(op),
             NEW plan \in PlansOf(clcb[s], op), NEW n \in Counts(ids), ApplyWrite(s, op, ids, n, fault, plan)
      PROVE  Moved
  <2> DEFINE removed == {ase[s][a].handle : a \in Named(ids)}
  <2>1. cis' = cis \/ cis' = WithOutput({}, removed)
    BY <1>2 DEF ApplyWrite
  <2>2. \A h \in removed : \E a \in Ases : ase[s][a].handle = h
    BY ReachedAses
  <2> HIDE DEF removed
  <2>3. WriteKeepsCises(s)
    <3>1. CASE cis' = cis
      BY <3>1 DEF WriteKeepsCises
    <3>2. CASE cis' = WithOutput({}, removed)
      <4>1. ASSUME NEW h \in Handles
            PROVE  /\ cis'[h].client = cis[h].client /\ cis'[h].id = cis[h].id /\ cis'[h].up = cis[h].up
                   /\ cis'[h] # cis[h] => h \in {} \cup removed /\ cis[h] # FreeCis
        <5>1. {} \subseteq UpHandles
          OBVIOUS
        <5> QED BY <3>2, <5>1, WithOutputKeeps
      <4> QED BY <2>2, <4>1 DEF WriteKeepsCises
    <3> QED BY <2>1, <3>1, <3>2
  <2> QED BY <1>2, <2>3, ApplyWriteMoves, MissesMore DEF ApplyWrite
<1>3. ASSUME NEW ids \in WriteLists, NEW n \in Counts(ids), NEW res, ApplyStartReady(s, ids, n, res)
      PROVE  Moved
  <2> DEFINE requested == {ase[s][a].handle : a \in Started(ids, res) \cap SinkAses} \cap UpHandles
  <2>1. cis' = WithOutput(requested, {})
    BY <1>3 DEF ApplyStartReady
  <2>2. requested \subseteq UpHandles /\ \A h \in requested : \E a \in Ases : ase[s][a].handle = h
    BY ReachedAses
  <2> HIDE DEF requested
  <2>3. WriteKeepsCises(s)
    BY <2>1, <2>2, WithOutputKeeps DEF WriteKeepsCises
  <2> QED BY <1>3, <2>3, StartReadyMoves, MissesMore DEF ApplyStartReady
<1> QED BY <1>1, <1>2, <1>3 DEF ControlPointWrite
-----------------------------------------------------------------------------
(* Lookups                                                                     *)

\* The ASEs a look up by ids goes through
Matches(id, dir) ==
  {p \in Slots \X dir : ase[p[1]][p[2]].state \in AtLeastQos /\ ase[p[1]][p[2]].id = id}

LEMMA FoundMatch ==
  ASSUME NEW id, NEW dir, NEW p \in lehs_find_ase_with_cis_id(id, dir)
  PROVE  p \in Matches(id, dir)
BY DEF lehs_find_ase_with_cis_id, FirstOf, Matches

\* At most one is found.
LEMMA FoundOnce ==
  ASSUME NEW id, NEW dir \in {SinkAses, SourceAses},
         NEW p \in lehs_find_ase_with_cis_id(id, dir), NEW q \in lehs_find_ase_with_cis_id(id, dir)
  PROVE  p = q
<1>1. p \in Slots \X dir /\ q \in Slots \X dir
  BY FoundMatch DEF Matches
<1>2. Slots \subseteq Nat /\ dir \subseteq Nat
  BY ConstantsAssumption DEF Slots
<1>3. p[1] \in Nat /\ p[2] \in Nat /\ q[1] \in Nat /\ q[2] \in Nat
  BY <1>1, <1>2
<1>4. NotAfter(p, q) /\ NotAfter(q, p)
  BY DEF lehs_find_ase_with_cis_id, FirstOf
<1>5. p[1] = q[1] /\ p[2] = q[2]
  BY <1>3, <1>4 DEF NotAfter
<1> QED BY <1>1, <1>5

\* Where only one ASE matches, it is found.
LEMMA OnlyMatchFound ==
  ASSUME NEW id, NEW dir \in {SinkAses, SourceAses}, NEW p \in Matches(id, dir),
         \A q \in Matches(id, dir) : q = p
  PROVE  p \in lehs_find_ase_with_cis_id(id, dir)
<1>1. p \in Slots \X dir /\ Slots \subseteq Nat /\ dir \subseteq Nat
  BY ConstantsAssumption DEF Slots, Matches
<1>2. p[1] \in Nat /\ p[2] \in Nat
  BY <1>1
<1>3. NotAfter(p, p)
  BY <1>2 DEF NotAfter
<1> QED BY <1>3 DEF lehs_find_ase_with_cis_id, FirstOf, Matches

LEMMA CisHandleOf ==
  ASSUME NEW c, NEW id, CisHandle(c, id) # NoHandle
  PROVE  /\ CisHandle(c, id) \in Handles
         /\ cis[CisHandle(c, id)].client = c /\ cis[CisHandle(c, id)].id = id
<1>1. CisOf(c, id) # {}
  BY DEF CisHandle
<1>2. (CHOOSE h \in CisOf(c, id) : TRUE) \in CisOf(c, id)
  BY <1>1
<1>3. CisHandle(c, id) \in CisOf(c, id)
  BY <1>1, <1>2 DEF CisHandle
<1> QED BY <1>3 DEF CisOf

\* A CIS that is the only one of its client with its ids is found by them.
LEMMA OnlyCisFound ==
  ASSUME CisesApart, NEW h \in Handles, cis[h].client \in Clients
  PROVE  CisHandle(cis[h].client, cis[h].id) = h
<1> DEFINE found == CisOf(cis[h].client, cis[h].id)
<1>1. h \in found /\ \A k \in found : k = h
  BY DEF CisOf, CisesApart
<1>2. (CHOOSE k \in found : TRUE) = h
  BY <1>1
<1> QED BY <1>1, <1>2 DEF CisHandle
-----------------------------------------------------------------------------
(* How the events of a CIS move ASEs and CISes                                 *)

\* The handle h goes to ASEs that have the given ids.
GivesHandle(h, id) ==
  \A t \in Slots, a \in Ases :
    \/ ase'[t][a] = ase[t][a]
    \/ /\ ase[t][a].state \in AtLeastQos /\ ase[t][a].id = id
       /\ ase'[t][a].state = ase[t][a].state /\ ase'[t][a].id = id /\ ase'[t][a].handle = h
       /\ ase'[t][a].path = ase[t][a].path

OtherCises(h) == \A k \in Handles \ {h} : cis'[k] = cis[k]

LEMMA WithHandleFields ==
  ASSUME NEW r \in AseData, NEW h
  PROVE  /\ [r EXCEPT !.handle = h].state = r.state /\ [r EXCEPT !.handle = h].id = r.id
         /\ [r EXCEPT !.handle = h].path = r.path /\ [r EXCEPT !.handle = h].handle = h
BY DEF AseData

LEMMA CisRequestMoves ==
  ASSUME TypeOK, NEW c \in Clients, NEW id \in CisIds, NEW h \in Handles, CisRequest(c, id, h)
  PROVE  /\ GivesHandle(h, id) /\ OtherCises(h)
         /\ cis'[h].client = c /\ cis'[h].id = id /\ ~cis'[h].up /\ ~cis'[h].out
<1>1. /\ OtherCises(h) /\ cis'[h].client = c /\ cis'[h].id = id /\ ~cis'[h].up /\ ~cis'[h].out
  BY DEF CisRequest, TypeOK, OtherCises, FreeCis
<1>2. ASSUME NEW t \in Slots, NEW a \in Ases, ase'[t][a] # ase[t][a]
      PROVE  /\ ase[t][a].state \in AtLeastQos /\ ase[t][a].id = id
             /\ ase'[t][a].state = ase[t][a].state /\ ase'[t][a].id = id /\ ase'[t][a].handle = h
             /\ ase'[t][a].path = ase[t][a].path
  <2> DEFINE places == lehs_find_ase_with_cis_id(id, SinkAses)
  <2>1. ase' = [s \in Slots |-> [b \in Ases |->
                  IF <<s, b>> \in places THEN [ase[s][b] EXCEPT !.handle = h] ELSE ase[s][b]]]
    BY DEF CisRequest, Update
  <2> HIDE DEF places
  <2>2. <<t, a>> \in places /\ ase'[t][a] = [ase[t][a] EXCEPT !.handle = h]
    BY <1>2, <2>1
  <2>3. ase[t][a].state \in AtLeastQos /\ ase[t][a].id = id
    BY <2>2, FoundMatch DEF Matches, places
  <2>4. ase[t][a] \in AseData
    BY DEF TypeOK
  <2> QED BY <2>2, <2>3, <2>4, WithHandleFields
<1> QED BY <1>1, <1>2 DEF GivesHandle

LEMMA CisEstablishedMoves ==
  ASSUME TypeOK, NEW h \in Handles, NEW res, CisEstablished(h, res)
  PROVE  /\ GivesHandle(h, cis[h].id) /\ OtherCises(h)
         /\ cis'[h].client = cis[h].client /\ cis'[h].id = cis[h].id /\ cis'[h].up
         /\ \A t \in Slots, a \in Ases, dir \in {SinkAses, SourceAses} :
              <<t, a>> \in lehs_find_ase_with_cis_id(cis[h].id, dir) => ase'[t][a].handle = h
<1> DEFINE sinks   == lehs_find_ase_with_cis_id(cis[h].id, SinkAses)
           sources == lehs_find_ase_with_cis_id(cis[h].id, SourceAses)
           out == \E p \in AwaitingCis(sinks, sources) \cap sinks : res[p[2]] = "ok"
<1>1. /\ OtherCises(h) /\ cis'[h].client = cis[h].client /\ cis'[h].id = cis[h].id /\ cis'[h].up
  <2>1. cis' = [cis EXCEPT ![h] = [cis[h] EXCEPT !.up = TRUE, !.out = out]]
    BY DEF CisEstablished, TypeOK, CisData
  <2> HIDE DEF out
  <2> QED BY <2>1 DEF TypeOK, CisData, OtherCises
<1>2. ASSUME NEW t \in Slots, NEW a \in Ases
      PROVE  ase'[t][a] = IF <<t, a>> \in sinks \cup sources THEN [ase[t][a] EXCEPT !.handle = h] ELSE ase[t][a]
  <2>1. ase' = [s \in Slots |-> [b \in Ases |->
                  IF <<s, b>> \in sinks \cup sources THEN [ase[s][b] EXCEPT !.handle = h] ELSE ase[s][b]]]
    BY DEF CisEstablished, Update
  <2> HIDE DEF sinks, sources
  <2> QED BY <2>1
<1>3. \A t \in Slots, a \in Ases : ase[t][a] \in AseData
  BY DEF TypeOK
<1>4. ASSUME NEW t \in Slots, NEW a \in Ases, <<t, a>> \in sinks \cup sources
      PROVE  ase[t][a].state \in AtLeastQos /\ ase[t][a].id = cis[h].id
  BY <1>4, FoundMatch DEF Matches
<1> HIDE DEF sinks, sources
<1>5. GivesHandle(h, cis[h].id)
  <2>1. ASSUME NEW t \in Slots, NEW a \in Ases, <<t, a>> \in sinks \cup sources
        PROVE  /\ ase'[t][a].state = ase[t][a].state /\ ase'[t][a].id = ase[t][a].id
               /\ ase'[t][a].handle = h /\ ase'[t][a].path = ase[t][a].path
    <3>1. ase[t][a] \in AseData /\ ase'[t][a] = [ase[t][a] EXCEPT !.handle = h]
      BY <1>2, <1>3, <2>1
    <3> QED BY <3>1, WithHandleFields
  <2>2. \A t \in Slots, a \in Ases : <<t, a>> \notin sinks \cup sources => ase'[t][a] = ase[t][a]
    BY <1>2
  <2> QED BY <1>4, <2>1, <2>2 DEF GivesHandle
<1>6. \A t \in Slots, a \in Ases : <<t, a>> \in sinks \cup sources => ase'[t][a].handle = h
  BY <1>2, <1>3 DEF AseData
<1> QED BY <1>1, <1>5, <1>6 DEF sinks, sources

\* What the loss of a CIS leaves of the ASEs that have its ids
LosesCis(id) ==
  \A t \in Slots, a \in Ases :
    \/ ase'[t][a] = ase[t][a]
    \/ /\ ase[t][a].state \in AtLeastQos /\ ase[t][a].id = id
       /\ ase'[t][a].handle = ase[t][a].handle
       /\ ase'[t][a].state \notin {"streaming", "releasing"}
       /\ \/ ase[t][a].state # "releasing" /\ ase'[t][a].id = id
          \/ ase[t][a].state = "releasing" /\ ase'[t][a].state = "idle" /\ ase'[t][a].id = NoCis

LEMMA DroppedFields ==
  ASSUME NEW r \in AseData, r.state \in AtLeastQos, NEW d \in {DroppedSink(r), DroppedSource(r)}
  PROVE  /\ d.handle = r.handle
         /\ d.state \notin {"streaming", "releasing"}
         /\ \/ r.state # "releasing" /\ d.id = r.id
            \/ r.state = "releasing" /\ d.state = "idle" /\ d.id = NoCis
BY DEF DroppedSink, DroppedSource, Dropped, AseData, AtLeastQos

LEMMA CisDisconnectedMoves ==
  ASSUME TypeOK, NEW h \in Handles, CisDisconnected(h)
  PROVE  /\ LosesCis(cis[h].id) /\ OtherCises(h) /\ cis'[h] = FreeCis /\ cis[h].up
         /\ \A t \in Slots, a \in Ases, dir \in {SinkAses, SourceAses} :
              <<t, a>> \in lehs_find_ase_with_cis_id(cis[h].id, dir) =>
                ase'[t][a].state \notin {"streaming", "releasing"}
<1> DEFINE sinks   == lehs_find_ase_with_cis_id(cis[h].id, SinkAses)
           sources == lehs_find_ase_with_cis_id(cis[h].id, SourceAses)
<1>1. OtherCises(h) /\ cis'[h] = FreeCis /\ cis[h].up
  BY DEF CisDisconnected, TypeOK, OtherCises
<1>2. ASSUME NEW t \in Slots, NEW a \in Ases
      PROVE  IF <<t, a>> \in sinks \cup sources
             THEN ase'[t][a] \in {DroppedSink(ase[t][a]), DroppedSource(ase[t][a])}
             ELSE ase'[t][a] = ase[t][a]
  BY DEF CisDisconnected
<1>3. \A t \in Slots, a \in Ases : ase[t][a] \in AseData
  BY DEF TypeOK
<1>4. ASSUME NEW t \in Slots, NEW a \in Ases, <<t, a>> \in sinks \cup sources
      PROVE  ase[t][a].state \in AtLeastQos /\ ase[t][a].id = cis[h].id
  BY <1>4, FoundMatch DEF Matches
<1> HIDE DEF sinks, sources
<1>5. LosesCis(cis[h].id)
  BY <1>2, <1>3, <1>4, DroppedFields DEF LosesCis
<1>6. \A t \in Slots, a \in Ases : <<t, a>> \in sinks \cup sources =>
        ase'[t][a].state \notin {"streaming", "releasing"}
  BY <1>2, <1>3, <1>4, DroppedFields
<1> QED BY <1>1, <1>5, <1>6 DEF sinks, sources

\* A data path that is set up changes the state of a sink in enabling only.
GivesPath(p) ==
  \A t \in Slots, a \in Ases :
    \/ ase'[t][a] = ase[t][a]
    \/ /\ t = p.slot /\ a = p.ase
       /\ ase'[t][a].id = ase[t][a].id /\ ase'[t][a].handle = ase[t][a].handle
       /\ \/ ase'[t][a].state = ase[t][a].state
          \/ a \in SinkAses /\ ase[t][a].state = "enabling" /\ ase'[t][a].state = "streaming"

LEMMA DataPathSetupMoves ==
  ASSUME TypeOK, NEW p \in setups, DataPathSetup(p)
  PROVE  GivesPath(p) /\ UNCHANGED <<clcb, cis>> /\ (ase' = ase \/ IsCisConnected(p.handle))
<1> DEFINE r == WithPath(p.ase, ase[p.slot][p.ase])
<1>1. p.slot \in Slots /\ p.ase \in Ases
  BY DEF TypeOK, Setups
<1>2. \/ ase' = ase
      \/ IsCisConnected(p.handle) /\ ase' = [ase EXCEPT ![p.slot] = [@ EXCEPT ![p.ase] = r]]
  BY DEF DataPathSetup
<1>3. ase[p.slot][p.ase] \in AseData
  BY <1>1 DEF TypeOK
<1>4. /\ r.id = ase[p.slot][p.ase].id /\ r.handle = ase[p.slot][p.ase].handle
      /\ \/ r.state = ase[p.slot][p.ase].state
         \/ p.ase \in SinkAses /\ ase[p.slot][p.ase].state = "enabling" /\ r.state = "streaming"
  BY <1>3 DEF WithPath, AseData
<1> HIDE DEF r
<1>5. GivesPath(p)
  BY <1>1, <1>2, <1>4 DEF GivesPath, TypeOK
<1> QED BY <1>2, <1>5 DEF DataPathSetup

LEMMA DataPathFailedMoves ==
  ASSUME TypeOK, NEW p \in setups, DataPathFailed(p), NEW h \in Handles
  PROVE  /\ cis'[h].client = cis[h].client /\ cis'[h].id = cis[h].id /\ cis'[h].up = cis[h].up
         /\ cis'[h] # cis[h] => cis[h] # FreeCis
<1> DEFINE removed == IF p.ase \in SinkAses THEN {p.handle} ELSE {}
<1>1. cis' = WithOutput({}, removed)
  BY DEF DataPathFailed
<1> HIDE DEF removed
<1> QED BY <1>1, WithOutputKeeps
-----------------------------------------------------------------------------
(* What holds of every client and every numbering of CISes and handles         *)

BaseInv == TypeOK /\ CisesOwned /\ CisesApart /\ SlotsApart /\ UnusedIdle /\ IdsPlanned

LEMMA InitBase == Init => BaseInv
<1> SUFFICES ASSUME Init PROVE BaseInv
  OBVIOUS
<1>1. TypeOK
  BY InitType
<1>2. CisesOwned /\ CisesApart
  BY ConstantsAssumption DEF Init, CisesOwned, CisesApart, FreeCis
<1>3. SlotsApart /\ UnusedIdle /\ IdsPlanned
  BY ConstantsAssumption DEF Init, SlotsApart, UnusedIdle, IdsPlanned, BlankAse
<1> QED BY <1>1, <1>2, <1>3 DEF BaseInv

\* A step that is no connection or disconnection leaves the ASEs of unused blocks alone,
\* and what was told of them.
UnusedUntouched ==
  \A t \in Slots : clcb[t] = NoClient =>
    \A a \in Ases : /\ ase'[t][a].state = "idle" /\ ase'[t][a].id = NoCis /\ ase'[t][a].handle = NoHandle
                    /\ told'[t][a] = "idle"

LEMMA WriteTells ==
  ASSUME TypeOK, NEW s \in Slots, ControlPointWrite(s), NEW t \in Slots \ {s}, NEW a \in Ases
  PROVE  told'[t][a] = told[t][a]
<1>1. ASSUME NEW counted, NotifyCounted(s, counted)
      PROVE  told'[t][a] = told[t][a]
  BY <1>1 DEF NotifyCounted, TypeOK
<1>2. \A ids, op, fault, plan : RejectWrite(s, op, ids, fault, plan) => told' = told
  BY DEF RejectWrite
<1>3. \A ids, op, n, fault, plan :
        ApplyWrite(s, op, ids, n, fault, plan) => NotifyCounted(s, Counted(ids, n))
  BY DEF ApplyWrite
<1>4. \A ids, n, res : ApplyStartReady(s, ids, n, res) => NotifyCounted(s, Counted(ids, n))
  BY DEF ApplyStartReady
<1> QED BY <1>1, <1>2, <1>3, <1>4 DEF ControlPointWrite

LEMMA WriteUnused ==
  ASSUME TypeOK, UnusedIdle, NEW s \in Slots, clcb[s] \in Clients, ControlPointWrite(s)
  PROVE  UnusedUntouched
<1> SUFFICES ASSUME NEW t \in Slots, clcb[t] = NoClient, NEW a \in Ases
             PROVE  ase'[t][a] = ase[t][a] /\ told'[t][a] = told[t][a]
  BY DEF UnusedUntouched, UnusedIdle
<1>1. t # s
  BY ConstantsAssumption
<1> QED BY <1>1, WriteMovesAll, WriteTells DEF WriteMoves

LEMMA DataPathTells ==
  ASSUME TypeOK, UnusedIdle, NEW p \in setups, DataPathSetup(p), NEW t \in Slots, NEW a \in Ases,
         told'[t][a] # told[t][a]
  PROVE  clcb[t] # NoClient
<1>1. PICK q \in lehs_get_ase_app_data_ptr_by_cis_conn_hdl : q[1] = t
  BY DEF DataPathSetup, TypeOK
<1>2. q \in Slots \X Ases /\ ase[q[1]][q[2]].state \in AtLeastQos
  BY <1>1 DEF lehs_get_ase_app_data_ptr_by_cis_conn_hdl, FirstOf
<1>3. q[2] \in Ases /\ ase[t][q[2]].state # "idle"
  BY <1>1, <1>2 DEF AtLeastQos
<1> QED BY <1>3 DEF UnusedIdle

LEMMA IsoUnused ==
  ASSUME TypeOK, UnusedIdle, Iso
  PROVE  UnusedUntouched
<1> SUFFICES ASSUME NEW t \in Slots, clcb[t] = NoClient, NEW a \in Ases
             PROVE  /\ ase'[t][a].state = "idle" /\ ase'[t][a].id = NoCis /\ ase'[t][a].handle = NoHandle
                    /\ told'[t][a] = "idle"
  BY DEF UnusedUntouched
<1>1. /\ ase[t][a].state = "idle" /\ ase[t][a].id = NoCis /\ ase[t][a].handle = NoHandle
      /\ told[t][a] = "idle"
  BY DEF UnusedIdle
<1>2. ase[t][a].state \notin AtLeastQos
  BY <1>1 DEF AtLeastQos
<1>3. ASSUME NEW c \in Clients, NEW id \in CisIds, NEW h \in Handles, CisRequest(c, id, h)
      PROVE  ase'[t][a] = ase[t][a] /\ told' = told
  BY <1>2, <1>3, CisRequestMoves DEF GivesHandle, CisRequest
<1>4. ASSUME NEW h \in Handles, CisFailed(h)
      PROVE  ase' = ase /\ told' = told
  BY <1>4 DEF CisFailed
<1>5. ASSUME NEW h \in Handles, NEW res, CisEstablished(h, res)
      PROVE  ase'[t][a] = ase[t][a] /\ told' = told
  BY <1>2, <1>5, CisEstablishedMoves DEF GivesHandle, CisEstablished
<1>6. ASSUME NEW h \in Handles, CisDisconnected(h)
      PROVE  ase'[t][a] = ase[t][a] /\ told'[t][a] = told[t][a]
  <2>1. ase'[t][a] = ase[t][a]
    BY <1>2, <1>6, CisDisconnectedMoves DEF LosesCis
  <2>2. \A dir : <<t, a>> \notin lehs_find_ase_with_cis_id(cis[h].id, dir)
    BY <1>2, FoundMatch DEF Matches
  <2>3. told'[t][a] = told[t][a]
    BY <1>6, <2>2 DEF CisDisconnected
  <2> QED BY <2>1, <2>3
<1>7. ASSUME NEW p \in setups, DataPathFailed(p)
      PROVE  ase' = ase /\ told' = told
  BY <1>7 DEF DataPathFailed
<1>8. ASSUME NEW p \in setups, DataPathSetup(p)
      PROVE  /\ ase'[t][a].state = "idle" /\ ase'[t][a].id = NoCis /\ ase'[t][a].handle = NoHandle
             /\ told'[t][a] = told[t][a]
  BY <1>1, <1>8, DataPathSetupMoves, DataPathTells DEF GivesPath
<1> QED BY <1>1, <1>3, <1>4, <1>5, <1>6, <1>7, <1>8 DEF Iso

\* Ids come from plans and go with the loss of a CIS.
KeepsPlan ==
  \A t \in Slots, a \in Ases :
    \/ ase'[t][a].id \in {ase[t][a].id, NoCis}
    \/ clcb[t] \in Clients /\ ase'[t][a].id \in PlanIds(clcb[t], a)

LEMMA WritePlan ==
  ASSUME TypeOK, NEW s \in Slots, clcb[s] \in Clients, ControlPointWrite(s)
  PROVE  KeepsPlan
BY WriteMovesAll DEF WriteMoves, Configured, Operated, KeepsPlan

LEMMA IsoPlan ==
  ASSUME TypeOK, Iso
  PROVE  KeepsPlan /\ clcb' = clcb
<1>1. ASSUME NEW c \in Clients, NEW id \in CisIds, NEW h \in Handles, CisRequest(c, id, h)
      PROVE  KeepsPlan /\ clcb' = clcb
  <2>1. GivesHandle(h, id) /\ clcb' = clcb
    BY <1>1, CisRequestMoves DEF CisRequest
  <2> QED BY <2>1 DEF GivesHandle, KeepsPlan
<1>2. ASSUME NEW h \in Handles, CisFailed(h)
      PROVE  KeepsPlan /\ clcb' = clcb
  BY <1>2 DEF CisFailed, KeepsPlan
<1>3. ASSUME NEW h \in Handles, NEW res, CisEstablished(h, res)
      PROVE  KeepsPlan /\ clcb' = clcb
  <2>1. GivesHandle(h, cis[h].id) /\ clcb' = clcb
    BY <1>3, CisEstablishedMoves DEF CisEstablished
  <2> QED BY <2>1 DEF GivesHandle, KeepsPlan
<1>4. ASSUME NEW h \in Handles, CisDisconnected(h)
      PROVE  KeepsPlan /\ clcb' = clcb
  <2>1. LosesCis(cis[h].id) /\ clcb' = clcb
    BY <1>4, CisDisconnectedMoves DEF CisDisconnected
  <2> QED BY <2>1 DEF LosesCis, KeepsPlan
<1>5. ASSUME NEW p \in setups, DataPathFailed(p)
      PROVE  KeepsPlan /\ clcb' = clcb
  BY <1>5 DEF DataPathFailed, KeepsPlan
<1>6. ASSUME NEW p \in setups, DataPathSetup(p)
      PROVE  KeepsPlan /\ clcb' = clcb
  BY <1>6, DataPathSetupMoves DEF GivesPath, KeepsPlan
<1> QED BY <1>1, <1>2, <1>3, <1>4, <1>5, <1>6 DEF Iso

\* The CISes of the stack stay with their clients.
CisesKept ==
  \A h \in Handles :
    \/ cis'[h] = FreeCis
    \/ cis'[h].client = cis[h].client /\ cis'[h].id = cis[h].id /\ cis[h] # FreeCis
    \/ cis'[h] = cis[h]

LEMMA KeptOwned ==
  ASSUME TypeOK, CisesOwned, CisesApart, CisesKept
  PROVE  CisesOwned' /\ CisesApart'
<1>1. CisesOwned'
  BY DEF CisesOwned, CisesKept
<1>2. \A h \in Handles : cis'[h].client \in Clients =>
        cis'[h].client = cis[h].client /\ cis'[h].id = cis[h].id
  BY ConstantsAssumption DEF CisesKept, FreeCis
<1>3. CisesApart'
  BY <1>2 DEF CisesApart
<1> QED BY <1>1, <1>3

LEMMA RequestOwned ==
  ASSUME BaseInv, NEW c \in Clients, NEW id \in CisIds, NEW h \in Handles, CisRequest(c, id, h)
  PROVE  CisesOwned' /\ CisesApart' /\ MayUse(c, id) /\ h \in HandlePool[c][id]
<1>1. /\ OtherCises(h) /\ cis'[h].client = c /\ cis'[h].id = id
      /\ h \in HandlePool[c][id] /\ CisOf(c, id) = {}
  BY CisRequestMoves DEF BaseInv, CisRequest
<1>2. MayUse(c, id)
  <2>1. CASE CisOnlyForAse
    <3>1. PICK s \in Clcb(c), a \in Ases : ase[s][a].id = id
      BY <2>1 DEF CisRequest, Awaited
    <3>2. id # NoCis /\ s \in Slots /\ clcb[s] = c
      BY <3>1, ConstantsAssumption DEF Clcb
    <3>3. id \in PlanIds(c, a)
      BY <3>1, <3>2 DEF BaseInv, IdsPlanned
    <3> QED BY <3>3 DEF MayUse, PlanUses
  <2>2. CASE ~CisOnlyForAse
    BY <1>1, <2>2 DEF MayUse
  <2> QED BY <2>1, <2>2
<1>3. CisesOwned'
  BY <1>1, <1>2 DEF BaseInv, CisesOwned, OtherCises, MayUse, PlanUses, PlanIds
<1>4. CisesApart'
  <2>1. \A k \in Handles \ {h} : ~(cis[k].client = c /\ cis[k].id = id)
    BY <1>1 DEF CisOf
  <2> QED BY <1>1, <2>1 DEF BaseInv, CisesApart, OtherCises
<1> QED BY <1>1, <1>2, <1>3, <1>4

LEMMA IsoOwned ==
  ASSUME BaseInv, Iso
  PROVE  CisesOwned' /\ CisesApart'
<1>0. TypeOK /\ CisesOwned /\ CisesApart
  BY DEF BaseInv
<1>1. ASSUME NEW c \in Clients, NEW id \in CisIds, NEW h \in Handles, CisRequest(c, id, h)
      PROVE  CisesOwned' /\ CisesApart'
  BY <1>1, RequestOwned
<1>2. ASSUME NEW h \in Handles, CisFailed(h)
      PROVE  CisesKept
  BY <1>0, <1>2 DEF CisFailed, CisesKept, TypeOK
<1>3. ASSUME NEW h \in Handles, NEW res, CisEstablished(h, res)
      PROVE  CisesKept
  <2>1. cis[h] # FreeCis
    BY <1>3, ConstantsAssumption DEF CisEstablished, FreeCis
  <2> QED BY <1>0, <1>3, <2>1, CisEstablishedMoves DEF CisesKept, OtherCises
<1>4. ASSUME NEW h \in Handles, CisDisconnected(h)
      PROVE  CisesKept
  BY <1>0, <1>4, CisDisconnectedMoves DEF CisesKept, OtherCises
<1>5. ASSUME NEW p \in setups, DataPathFailed(p)
      PROVE  CisesKept
  BY <1>0, <1>5, DataPathFailedMoves DEF CisesKept
<1>6. ASSUME NEW p \in setups, DataPathSetup(p)
      PROVE  CisesKept
  BY <1>6 DEF DataPathSetup, CisesKept
<1> QED BY <1>0, <1>1, <1>2, <1>3, <1>4, <1>5, <1>6, KeptOwned DEF Iso

LEMMA WriteOwned ==
  ASSUME BaseInv, NEW s \in Slots, clcb[s] \in Clients, ControlPointWrite(s)
  PROVE  CisesOwned' /\ CisesApart'
<1>0. TypeOK /\ CisesOwned /\ CisesApart
  BY DEF BaseInv
<1>1. CisesKept
  BY <1>0, WriteMovesAll DEF WriteKeepsCises, CisesKept
<1> QED BY <1>0, <1>1, KeptOwned

LEMMA LinkBase ==
  ASSUME BaseInv, Link
  PROVE  BaseInv'
<1>0. TypeOK /\ SlotsApart /\ UnusedIdle /\ IdsPlanned
  BY DEF BaseInv
<1>1. TypeOK'
  BY <1>0, LinkType
<1>2. CisesOwned' /\ CisesApart'
  <2>1. cis' = cis
    BY DEF Link, GattConnected, GattDisconnected
  <2> QED BY <2>1 DEF BaseInv, CisesOwned, CisesApart
<1>3. PICK s \in Slots : /\ ase' = Reset(ase, s, BlankAse) /\ told' = Reset(told, s, "idle")
                         /\ \A t \in Slots \ {s} : clcb'[t] = clcb[t]
                         /\ clcb'[s] = NoClient \/ \A t \in Slots : clcb[t] # clcb'[s]
  BY <1>0 DEF Link, GattConnected, GattDisconnected, TypeOK, Connected, Clcb
<1>4. SlotsApart'
  BY <1>0, <1>3, ConstantsAssumption DEF SlotsApart
<1>5. \A a \in Ases : ase'[s][a] = BlankAse /\ told'[s][a] = "idle"
  BY <1>0, <1>3 DEF Reset, TypeOK
<1>6. \A t \in Slots \ {s} : ase'[t] = ase[t] /\ told'[t] = told[t]
  BY <1>0, <1>3 DEF Reset, TypeOK
<1>7. UnusedIdle' /\ IdsPlanned'
  <2>1. \A a \in Ases : /\ ase'[s][a].state = "idle" /\ ase'[s][a].id = NoCis
                        /\ ase'[s][a].handle = NoHandle /\ told'[s][a] = "idle"
    BY <1>5 DEF BlankAse
  <2>2. UnusedIdle'
    BY <1>0, <1>3, <1>6, <2>1 DEF UnusedIdle
  <2>3. IdsPlanned'
    BY <1>0, <1>3, <1>6, <2>1 DEF IdsPlanned
  <2> QED BY <2>2, <2>3
<1> QED BY <1>1, <1>2, <1>4, <1>7 DEF BaseInv

LEMMA BaseStep == BaseInv /\ [Next]_vars => BaseInv'
<1> SUFFICES ASSUME BaseInv, [Next]_vars PROVE BaseInv'
  OBVIOUS
<1>0. TypeOK /\ SlotsApart /\ UnusedIdle /\ IdsPlanned
  BY DEF BaseInv
<1>1. ASSUME UnusedUntouched, KeepsPlan, clcb' = clcb, TypeOK', CisesOwned', CisesApart'
      PROVE  BaseInv'
  <2>1. UnusedIdle' /\ SlotsApart'
    BY <1>0, <1>1 DEF UnusedUntouched, UnusedIdle, SlotsApart
  <2>2. IdsPlanned'
    BY <1>0, <1>1 DEF KeepsPlan, IdsPlanned
  <2> QED BY <1>1, <2>1, <2>2 DEF BaseInv
<1>2. CASE Link
  BY <1>2, LinkBase
<1>3. CASE Iso
  BY <1>0, <1>1, <1>3, StepType, IsoUnused, IsoPlan, IsoOwned DEF Next
<1>4. ASSUME NEW s \in Slots, clcb[s] \in Clients, ControlPointWrite(s)
      PROVE  BaseInv'
  BY <1>0, <1>1, <1>4, StepType, WriteUnused, WritePlan, WriteOwned, WriteMovesAll DEF Next
<1>5. CASE UNCHANGED vars
  BY <1>5 DEF vars, BaseInv, TypeOK, CisesOwned, CisesApart, SlotsApart, UnusedIdle, IdsPlanned
<1> QED BY <1>2, <1>3, <1>4, <1>5 DEF Next
-----------------------------------------------------------------------------
(* Centrals with ids of their own: handles and ids go to their own ASEs        *)

\* An ASE that is found for ids a client may use is planned for them by that client.
LEMMA FoundOfClient ==
  ASSUME BaseInv, DistinctIds, NEW c \in Clients, NEW id \in CisIds, MayUse(c, id),
         NEW t \in Slots, NEW a \in Ases, ase[t][a].state \in AtLeastQos, ase[t][a].id = id
  PROVE  clcb[t] = c /\ id \in PlanIds(c, a)
<1>1. clcb[t] \in Clients
  BY DEF BaseInv, TypeOK, UnusedIdle, AtLeastQos
<1>2. id \in PlanIds(clcb[t], a)
  BY <1>1, ConstantsAssumption DEF BaseInv, IdsPlanned
<1>3. MayUse(clcb[t], id)
  BY <1>2 DEF MayUse, PlanUses
<1>4. clcb[t] = c
  BY <1>1, <1>3 DEF DistinctIds
<1> QED BY <1>2, <1>4

\* The same for the ids of a CIS that the stack knows.
LEMMA FoundOfCis ==
  ASSUME BaseInv, DistinctIds, NEW h \in Handles, cis[h].client \in Clients,
         NEW t \in Slots, NEW a \in Ases, ase[t][a].state \in AtLeastQos, ase[t][a].id = cis[h].id
  PROVE  /\ clcb[t] = cis[h].client /\ cis[h].id \in PlanIds(clcb[t], a)
         /\ h \in HandlePool[clcb[t]][cis[h].id]
<1>1. /\ cis[h].id \in CisIds /\ MayUse(cis[h].client, cis[h].id)
      /\ h \in HandlePool[cis[h].client][cis[h].id]
  BY ConstantsAssumption DEF BaseInv, CisesOwned, FreeCis
<1>2. clcb[t] = cis[h].client /\ cis[h].id \in PlanIds(clcb[t], a)
  <2> DEFINE id == cis[h].id
  <2>1. id \in CisIds /\ MayUse(cis[h].client, id) /\ ase[t][a].id = id
    BY <1>1
  <2> HIDE DEF id
  <2>2. clcb[t] = cis[h].client /\ id \in PlanIds(cis[h].client, a)
    BY <2>1, FoundOfClient
  <2> QED BY <2>2 DEF id
<1> QED BY <1>1, <1>2

\* A CIS of the stack that is up is of a client.
LEMMA UpOfClient ==
  ASSUME BaseInv, NEW h \in Handles, cis[h] # FreeCis
  PROVE  /\ cis[h].client \in Clients /\ cis[h].id \in CisIds
         /\ h \in HandlePool[cis[h].client][cis[h].id]
BY DEF BaseInv, CisesOwned

\* A handle an ASE is given is of a CIS that its client has, with the ids it has then.
GivesPlanned ==
  \A t \in Slots, a \in Ases :
    \/ ase'[t][a].handle = ase[t][a].handle /\ ase'[t][a].id \in {ase[t][a].id, NoCis}
    \/ /\ clcb[t] \in Clients /\ ase'[t][a].id \in PlanIds(clcb[t], a)
       /\ ase'[t][a].handle \in {NoHandle} \cup HandlePool[clcb[t]][ase'[t][a].id]

LEMMA CisHandleOwned ==
  ASSUME BaseInv, NEW c \in Clients, NEW id
  PROVE  CisHandle(c, id) \in {NoHandle} \cup HandlePool[c][id]
<1> SUFFICES ASSUME CisHandle(c, id) # NoHandle PROVE CisHandle(c, id) \in HandlePool[c][id]
  OBVIOUS
<1> DEFINE h == CisHandle(c, id)
<1>1. h \in Handles /\ cis[h].client = c /\ cis[h].id = id
  BY CisHandleOf
<1> HIDE DEF h
<1>2. cis[h] # FreeCis
  BY <1>1, ConstantsAssumption DEF FreeCis
<1>3. h \in HandlePool[c][id]
  BY <1>1, <1>2, UpOfClient
<1> QED BY <1>3 DEF h

LEMMA WriteGivesPlanned ==
  ASSUME BaseInv, NEW s \in Slots, clcb[s] \in Clients, ControlPointWrite(s)
  PROVE  GivesPlanned
<1> SUFFICES ASSUME NEW t \in Slots, NEW a \in Ases,
                    ~(ase'[t][a].handle = ase[t][a].handle /\ ase'[t][a].id \in {ase[t][a].id, NoCis})
             PROVE  /\ clcb[t] \in Clients /\ ase'[t][a].id \in PlanIds(clcb[t], a)
                    /\ ase'[t][a].handle \in {NoHandle} \cup HandlePool[clcb[t]][ase'[t][a].id]
  BY DEF GivesPlanned
<1>1. t = s /\ Configured(s, a)
  BY WriteMovesAll DEF BaseInv, WriteMoves, Operated
<1> DEFINE id == ase'[s][a].id
<1>2. id \in PlanIds(clcb[s], a) /\ ase'[s][a].handle = CisHandle(clcb[s], id)
  BY <1>1 DEF Configured
<1> HIDE DEF id
<1>3. CisHandle(clcb[s], id) \in {NoHandle} \cup HandlePool[clcb[s]][id]
  BY <1>2, CisHandleOwned
<1> QED BY <1>1, <1>2, <1>3 DEF id

LEMMA IsoGivesPlanned ==
  ASSUME BaseInv, DistinctIds, Iso
  PROVE  GivesPlanned
<1>0. TypeOK
  BY DEF BaseInv
<1>1. ASSUME NEW c \in Clients, NEW id \in CisIds, NEW h \in Handles, CisRequest(c, id, h)
      PROVE  GivesPlanned
  <2>1. GivesHandle(h, id) /\ MayUse(c, id) /\ h \in HandlePool[c][id]
    BY <1>0, <1>1, CisRequestMoves, RequestOwned
  <2>2. \A t \in Slots, a \in Ases : ase[t][a].state \in AtLeastQos /\ ase[t][a].id = id =>
          clcb[t] = c /\ id \in PlanIds(c, a)
    BY <2>1, FoundOfClient
  <2> QED BY <2>1, <2>2 DEF GivesHandle, GivesPlanned
<1>2. ASSUME NEW h \in Handles, CisFailed(h)
      PROVE  GivesPlanned
  BY <1>2 DEF CisFailed, GivesPlanned
<1>3. ASSUME NEW h \in Handles, NEW res, CisEstablished(h, res)
      PROVE  GivesPlanned
  <2>1. GivesHandle(h, cis[h].id) /\ cis[h].client \in Clients
    BY <1>0, <1>3, CisEstablishedMoves DEF CisEstablished
  <2>2. \A t \in Slots, a \in Ases : ase[t][a].state \in AtLeastQos /\ ase[t][a].id = cis[h].id =>
          /\ clcb[t] = cis[h].client /\ cis[h].id \in PlanIds(clcb[t], a)
          /\ h \in HandlePool[clcb[t]][cis[h].id]
    BY <2>1, FoundOfCis
  <2> QED BY <2>1, <2>2 DEF GivesHandle, GivesPlanned
<1>4. ASSUME NEW h \in Handles, CisDisconnected(h)
      PROVE  GivesPlanned
  <2>1. LosesCis(cis[h].id)
    BY <1>0, <1>4, CisDisconnectedMoves
  <2> QED BY <2>1 DEF LosesCis, GivesPlanned
<1>5. ASSUME NEW p \in setups, DataPathFailed(p)
      PROVE  GivesPlanned
  BY <1>5 DEF DataPathFailed, GivesPlanned
<1>6. ASSUME NEW p \in setups, DataPathSetup(p)
      PROVE  GivesPlanned
  <2>1. GivesPath(p)
    BY <1>0, <1>6, DataPathSetupMoves
  <2> QED BY <2>1 DEF GivesPath, GivesPlanned
<1> QED BY <1>1, <1>2, <1>3, <1>4, <1>5, <1>6 DEF Iso

\* A connection or a disconnection makes the block of its client new.
LinkResets(s) ==
  /\ \A a \in Ases : ase'[s][a] = BlankAse /\ told'[s][a] = "idle"
  /\ missed'[s] = {}
  /\ \A t \in Slots \ {s} : /\ ase'[t] = ase[t] /\ told'[t] = told[t] /\ clcb'[t] = clcb[t]
                            /\ missed'[t] = missed[t]
  /\ UNCHANGED <<cis, setups, audio>>

LEMMA LinkMoves ==
  ASSUME TypeOK, Link
  PROVE  \E s \in Slots : LinkResets(s)
<1>1. PICK s \in Slots : /\ ase' = Reset(ase, s, BlankAse) /\ told' = Reset(told, s, "idle")
                         /\ UNCHANGED <<cis, setups, audio>>
                         /\ missed' = [missed EXCEPT ![s] = {}]
                         /\ \A t \in Slots \ {s} : clcb'[t] = clcb[t]
  BY DEF Link, GattConnected, GattDisconnected, TypeOK
<1>2. \A a \in Ases : ase'[s][a] = BlankAse /\ told'[s][a] = "idle"
  BY <1>1 DEF Reset, TypeOK
<1>3. \A t \in Slots \ {s} : ase'[t] = ase[t] /\ told'[t] = told[t]
  BY <1>1 DEF Reset, TypeOK
<1>4. missed'[s] = {} /\ \A t \in Slots \ {s} : missed'[t] = missed[t]
  BY <1>1 DEF TypeOK
<1> QED BY <1>1, <1>2, <1>3, <1>4 DEF LinkResets

\* No event of a CIS is missed: only writes count ASEs.
LEMMA IsoMissesNone == Iso => missed' = missed
BY DEF Iso, CisRequest, CisFailed, CisEstablished, CisDisconnected, DataPathFailed, DataPathSetup

LEMMA PlannedStep ==
  ASSUME BaseInv, HandlesPlanned, HandlesOfIds, DistinctIds, [Next]_vars
  PROVE  HandlesPlanned' /\ HandlesOfIds'
<1>0. TypeOK
  BY DEF BaseInv
<1>1. ASSUME GivesPlanned, clcb' = clcb
      PROVE  HandlesPlanned' /\ HandlesOfIds'
  BY <1>1 DEF GivesPlanned, HandlesPlanned, HandlesOfIds
<1>2. CASE Link
  <2>1. PICK s \in Slots : LinkResets(s)
    BY <1>0, <1>2, LinkMoves
  <2> QED BY <2>1 DEF LinkResets, BlankAse, HandlesPlanned, HandlesOfIds
<1>3. CASE Iso
  BY <1>0, <1>1, <1>3, IsoGivesPlanned, IsoPlan
<1>4. ASSUME NEW s \in Slots, clcb[s] \in Clients, ControlPointWrite(s)
      PROVE  HandlesPlanned' /\ HandlesOfIds'
  BY <1>0, <1>1, <1>4, WriteGivesPlanned, WriteMovesAll
<1>5. CASE UNCHANGED vars
  BY <1>5 DEF vars, HandlesPlanned, HandlesOfIds
<1> QED BY <1>2, <1>3, <1>4, <1>5 DEF Next

LEMMA InitPlanned == Init => HandlesPlanned /\ HandlesOfIds
BY ConstantsAssumption DEF Init, HandlesPlanned, HandlesOfIds, BlankAse

PlannedInv == BaseInv /\ HandlesPlanned /\ HandlesOfIds

LEMMA PlannedAlways == ASSUME DistinctIds PROVE Spec => []PlannedInv
<1>1. Init => PlannedInv
  BY InitBase, InitPlanned DEF PlannedInv
<1>2. PlannedInv /\ [Next]_vars => PlannedInv'
  BY BaseStep, PlannedStep DEF PlannedInv
<1> QED BY <1>1, <1>2, PTL DEF Spec

-----------------------------------------------------------------------------
(* One ASE of each direction on a CIS                                          *)

\* The ASEs of one direction that have the ids of a CIS of the stack are one.
LEMMA OneMatch ==
  ASSUME BaseInv, DistinctIds, OneAsePerDirection, NEW h \in Handles, cis[h].client \in Clients,
         NEW dir \in {SinkAses, SourceAses},
         NEW p \in Matches(cis[h].id, dir), NEW q \in Matches(cis[h].id, dir)
  PROVE  p = q
<1>1. /\ p \in Slots \X dir /\ q \in Slots \X dir
      /\ ase[p[1]][p[2]].state \in AtLeastQos /\ ase[p[1]][p[2]].id = cis[h].id
      /\ ase[q[1]][q[2]].state \in AtLeastQos /\ ase[q[1]][q[2]].id = cis[h].id
  BY DEF Matches
<1>2. p[1] \in Slots /\ p[2] \in Ases /\ q[1] \in Slots /\ q[2] \in Ases /\ p[2] \in dir /\ q[2] \in dir
  BY <1>1 DEF Ases
<1>3. /\ clcb[p[1]] = cis[h].client /\ cis[h].id \in PlanIds(cis[h].client, p[2])
      /\ clcb[q[1]] = cis[h].client /\ cis[h].id \in PlanIds(cis[h].client, q[2])
  BY <1>1, <1>2, FoundOfCis
<1>4. p[1] = q[1]
  BY <1>2, <1>3 DEF BaseInv, SlotsApart
<1>5. p[2] = q[2]
  BY <1>2, <1>3 DEF OneAsePerDirection
<1> QED BY <1>1, <1>4, <1>5

\* So they are found.
LEMMA MatchIsFound ==
  ASSUME BaseInv, DistinctIds, OneAsePerDirection, NEW h \in Handles, cis[h].client \in Clients,
         NEW t \in Slots, NEW a \in Ases, ase[t][a].state \in AtLeastQos, ase[t][a].id = cis[h].id
  PROVE  \E dir \in {SinkAses, SourceAses} : <<t, a>> \in lehs_find_ase_with_cis_id(cis[h].id, dir)
<1>1. PICK dir \in {SinkAses, SourceAses} : a \in dir
  BY DEF Ases
<1>2. <<t, a>> \in Matches(cis[h].id, dir)
  BY <1>1 DEF Matches
<1>3. \A q \in Matches(cis[h].id, dir) : q = <<t, a>>
  BY <1>2, OneMatch
<1> QED BY <1>2, <1>3, OnlyMatchFound

\* A handle an ASE holds that is of a CIS that the stack knows is of the CIS its ids name.
LEMMA HandleIsOfIds ==
  ASSUME PlannedInv, HandlesPerCis, NEW s \in Slots, clcb[s] \in Clients, NEW a \in Ases,
         ase[s][a].id # NoCis, ase[s][a].handle \in Handles, cis[ase[s][a].handle] # FreeCis
  PROVE  cis[ase[s][a].handle].client = clcb[s] /\ cis[ase[s][a].handle].id = ase[s][a].id
<1> DEFINE h  == ase[s][a].handle
           id == ase[s][a].id
<1>0. BaseInv /\ HandlesOfIds
  BY DEF PlannedInv
<1>1. h \in HandlePool[clcb[s]][id] /\ id \in CisIds
  BY <1>0, ConstantsAssumption DEF HandlesOfIds, BaseInv, TypeOK, AseData
<1> HIDE DEF h
<1>2. /\ cis[h].client \in Clients /\ cis[h].id \in CisIds
      /\ h \in HandlePool[cis[h].client][cis[h].id]
  BY <1>0, UpOfClient DEF h
<1> QED BY <1>1, <1>2 DEF HandlesPerCis, h

\* Every ASE that is to be on a CIS that is up has its handle.
AssignedInv == PlannedInv /\ UpCisIsAssigned

LEMMA WriteAssigned ==
  ASSUME AssignedInv, HandlesPerCis, NEW s \in Slots, clcb[s] \in Clients, ControlPointWrite(s)
  PROVE  UpCisIsAssigned'
<1>0. PlannedInv /\ BaseInv /\ TypeOK /\ UpCisIsAssigned /\ CisesApart
  BY DEF AssignedInv, PlannedInv, BaseInv
<1>1. WriteMoves(s) /\ WriteKeepsCises(s) /\ clcb' = clcb /\ MissedKept
  BY <1>0, WriteMovesAll
<1> SUFFICES ASSUME NEW t \in Slots, NEW h \in Handles, cis'[h].up, NEW a \in Ases,
                    clcb'[t] = cis'[h].client, ase'[t][a].state \in AtLeastQos,
                    ase'[t][a].state = "releasing" => a \notin missed'[t],
                    ase'[t][a].id = cis'[h].id
             PROVE  ase'[t][a].handle = h
  BY DEF UpCisIsAssigned, UpHandles, IsCisConnected
<1>2. /\ cis[h].up /\ clcb[t] = cis[h].client /\ ase'[t][a].id = cis[h].id
      /\ cis[h].client \in Clients /\ cis[h].id \in CisIds
  BY <1>0, <1>1, UpOfClient DEF WriteKeepsCises, FreeCis
<1>3. CASE /\ ase[t][a].state \in AtLeastQos /\ ase[t][a].id = cis[h].id
           /\ ase[t][a].state = "releasing" => ase'[t][a].state = "releasing"
           /\ ase'[t][a].handle = ase[t][a].handle
  <2>1. ase[t][a].state = "releasing" => a \notin missed[t]
    BY <1>1, <1>3 DEF MissedKept
  <2> QED BY <1>0, <1>2, <1>3, <2>1 DEF UpCisIsAssigned, UpHandles, IsCisConnected
<1>4. CASE t = s /\ Configured(s, a)
  BY <1>0, <1>2, <1>4, OnlyCisFound DEF Configured
<1>5. CASE t = s /\ Operated(s, a) /\ ase'[t][a].state = "releasing"
  <2>1. /\ IsCisConnected(ase[s][a].handle) /\ ase[s][a].id = cis[h].id
        /\ ase'[t][a].handle = ase[s][a].handle
    BY <1>2, <1>5 DEF Operated
  <2> DEFINE k == ase[s][a].handle
  <2>2. k \in Handles /\ cis[k] # FreeCis
    BY <2>1 DEF IsCisConnected, FreeCis
  <2>3. cis[k].client = clcb[s] /\ cis[k].id = cis[h].id
    BY <1>0, <1>2, <2>1, <2>2, HandleIsOfIds, ConstantsAssumption
  <2> HIDE DEF k
  <2>4. k = h
    BY <1>0, <1>2, <1>5, <2>2, <2>3 DEF CisesApart
  <2> QED BY <2>1, <2>4 DEF k
<1>6. CASE t = s /\ Operated(s, a) /\ ase'[t][a].state # "releasing"
  BY <1>2, <1>3, <1>6 DEF Operated
<1> QED BY <1>1, <1>2, <1>3, <1>4, <1>5, <1>6 DEF WriteMoves

\* Steps that give no handle, and bring no CIS up
LEMMA KeepsAssigned ==
  ASSUME UpCisIsAssigned, missed' = missed,
         \A h \in Handles : cis'[h].up =>
           cis[h].up /\ cis'[h].client = cis[h].client /\ cis'[h].id = cis[h].id,
         \A t \in Slots, a \in Ases, h \in UpHandles :
           clcb'[t] = cis[h].client /\ ase'[t][a].state \in AtLeastQos /\ ase'[t][a].id = cis[h].id =>
             /\ clcb[t] = clcb'[t] /\ ase[t][a].state \in AtLeastQos /\ ase[t][a].id = ase'[t][a].id
             /\ ase[t][a].state = "releasing" => ase'[t][a].state = "releasing"
             /\ ase'[t][a].handle = ase[t][a].handle
  PROVE  UpCisIsAssigned'
BY DEF UpCisIsAssigned, UpHandles, IsCisConnected

LEMMA IsoAssigned ==
  ASSUME AssignedInv, DistinctIds, OneAsePerDirection, Iso
  PROVE  UpCisIsAssigned'
<1>0. /\ PlannedInv /\ BaseInv /\ TypeOK /\ UpCisIsAssigned /\ CisesApart
      /\ missed' = missed
  BY IsoMissesNone DEF AssignedInv, PlannedInv, BaseInv
<1>1. ASSUME NEW c \in Clients, NEW id \in CisIds, NEW h \in Handles, CisRequest(c, id, h)
      PROVE  UpCisIsAssigned'
  <2>1. /\ GivesHandle(h, id) /\ OtherCises(h) /\ ~cis'[h].up /\ MayUse(c, id)
        /\ CisOf(c, id) = {} /\ clcb' = clcb
    BY <1>0, <1>1, CisRequestMoves, RequestOwned DEF CisRequest
  <2>2. ASSUME NEW t \in Slots, NEW a \in Ases, NEW k \in UpHandles,
               clcb[t] = cis[k].client, ase'[t][a].id = cis[k].id
        PROVE  ase'[t][a] = ase[t][a]
    <3>1. \A j \in Handles : ~(cis[j].client = c /\ cis[j].id = id)
      BY <2>1 DEF CisOf
    <3>2. k \in Handles
      BY DEF UpHandles
    <3>3. ase'[t][a] # ase[t][a] => clcb[t] = c /\ ase'[t][a].id = id
      BY <1>0, <2>1, FoundOfClient DEF GivesHandle
    <3> QED BY <2>2, <3>1, <3>2, <3>3
  <2>3. \A k \in Handles : cis'[k].up => cis'[k] = cis[k]
    BY <2>1 DEF OtherCises
  <2> QED BY <1>0, <2>1, <2>2, <2>3, KeepsAssigned
<1>2. ASSUME NEW h \in Handles, CisFailed(h)
      PROVE  UpCisIsAssigned'
  <2>1. /\ ase' = ase /\ clcb' = clcb
        /\ \A k \in Handles : cis'[k].up => cis'[k] = cis[k]
    BY <1>0, <1>2 DEF CisFailed, TypeOK, FreeCis
  <2> QED BY <1>0, <2>1, KeepsAssigned
<1>3. ASSUME NEW h \in Handles, NEW res, CisEstablished(h, res)
      PROVE  UpCisIsAssigned'
  <2>1. /\ GivesHandle(h, cis[h].id) /\ OtherCises(h) /\ cis[h].client \in Clients /\ clcb' = clcb
        /\ cis'[h].client = cis[h].client /\ cis'[h].id = cis[h].id
        /\ \A t \in Slots, a \in Ases, dir \in {SinkAses, SourceAses} :
             <<t, a>> \in lehs_find_ase_with_cis_id(cis[h].id, dir) => ase'[t][a].handle = h
    <3>1. cis[h].client \in Clients /\ clcb' = clcb
      BY <1>3 DEF CisEstablished
    <3> QED BY <1>0, <1>3, <3>1, CisEstablishedMoves
  <2> SUFFICES ASSUME NEW t \in Slots, NEW k \in Handles, cis'[k].up, NEW a \in Ases,
                      clcb'[t] = cis'[k].client, ase'[t][a].state \in AtLeastQos,
                      ase'[t][a].state = "releasing" => a \notin missed'[t],
                      ase'[t][a].id = cis'[k].id
               PROVE  ase'[t][a].handle = k
    BY DEF UpCisIsAssigned, UpHandles, IsCisConnected
  <2>2. ase[t][a].state \in AtLeastQos /\ ase[t][a].id = cis'[k].id
    BY <2>1 DEF GivesHandle
  <2>3. CASE k = h
    BY <1>0, <2>1, <2>2, <2>3, MatchIsFound
  <2>4. CASE k # h
    <3>1. cis'[k] = cis[k]
      BY <2>1, <2>4 DEF OtherCises
    <3>2. ase[t][a].id # cis[h].id
      <4>1. ase[t][a].id = cis[h].id => clcb[t] = cis[h].client
        BY <1>0, <2>1, <2>2, FoundOfCis
      <4> QED BY <1>0, <2>1, <2>2, <2>4, <3>1, <4>1 DEF CisesApart
    <3>3. ase'[t][a] = ase[t][a]
      BY <2>1, <3>2 DEF GivesHandle
    <3> QED BY <1>0, <2>1, <2>2, <3>1, <3>3 DEF UpCisIsAssigned, UpHandles, IsCisConnected
  <2> QED BY <2>3, <2>4
<1>4. ASSUME NEW h \in Handles, CisDisconnected(h)
      PROVE  UpCisIsAssigned'
  <2>1. LosesCis(cis[h].id) /\ OtherCises(h) /\ cis'[h] = FreeCis /\ clcb' = clcb
    BY <1>0, <1>4, CisDisconnectedMoves DEF CisDisconnected
  <2>2. \A k \in UpHandles : cis[k].id # NoCis
    BY <1>0, UpOfClient, ConstantsAssumption DEF UpHandles, IsCisConnected, FreeCis
  <2>3. \A t \in Slots, a \in Ases :
          ase'[t][a].id # NoCis /\ ase'[t][a].state \in AtLeastQos =>
            /\ ase[t][a].state \in AtLeastQos /\ ase[t][a].id = ase'[t][a].id
            /\ ase[t][a].state = "releasing" => ase'[t][a].state = "releasing"
            /\ ase'[t][a].handle = ase[t][a].handle
    BY <2>1 DEF LosesCis
  <2>4. \A k \in Handles : cis'[k].up => cis'[k] = cis[k]
    BY <2>1 DEF OtherCises, FreeCis
  <2> QED BY <1>0, <2>1, <2>2, <2>3, <2>4, KeepsAssigned
<1>5. ASSUME NEW p \in setups, DataPathFailed(p)
      PROVE  UpCisIsAssigned'
  <2>1. ase' = ase /\ clcb' = clcb
    BY <1>5 DEF DataPathFailed
  <2>2. \A h \in Handles : cis'[h].client = cis[h].client /\ cis'[h].id = cis[h].id /\ cis'[h].up = cis[h].up
    BY <1>0, <1>5, DataPathFailedMoves
  <2> QED BY <1>0, <2>1, <2>2, KeepsAssigned
<1>6. ASSUME NEW p \in setups, DataPathSetup(p)
      PROVE  UpCisIsAssigned'
  <2>1. GivesPath(p) /\ UNCHANGED <<clcb, cis>>
    BY <1>0, <1>6, DataPathSetupMoves
  <2>2. \A t \in Slots, a \in Ases : ase'[t][a].state \in AtLeastQos =>
          /\ ase[t][a].state \in AtLeastQos /\ ase[t][a].id = ase'[t][a].id
          /\ ase[t][a].state = "releasing" => ase'[t][a].state = "releasing"
          /\ ase'[t][a].handle = ase[t][a].handle
    BY <2>1 DEF GivesPath, AtLeastQos
  <2> QED BY <1>0, <2>1, <2>2, KeepsAssigned
<1> QED BY <1>1, <1>2, <1>3, <1>4, <1>5, <1>6 DEF Iso

LEMMA LinkAssigned ==
  ASSUME AssignedInv, Link
  PROVE  UpCisIsAssigned'
<1>1. PICK s \in Slots : LinkResets(s)
  BY LinkMoves DEF AssignedInv, PlannedInv, BaseInv
<1>2. \A a \in Ases : ase'[s][a].state \notin AtLeastQos
  BY <1>1 DEF LinkResets, BlankAse, AtLeastQos
<1>3. \A t \in Slots \ {s} : ase'[t] = ase[t] /\ clcb'[t] = clcb[t] /\ missed'[t] = missed[t]
  BY <1>1 DEF LinkResets
<1>4. cis' = cis
  BY <1>1 DEF LinkResets
<1> QED BY <1>2, <1>3, <1>4 DEF AssignedInv, UpCisIsAssigned, UpHandles, IsCisConnected

LEMMA AssignedAlways ==
  ASSUME DistinctIds, HandlesPerCis, OneAsePerDirection
  PROVE  Spec => []AssignedInv
<1>1. Init => AssignedInv
  <2>1. Init => UpHandles = {}
    BY DEF Init, UpHandles, IsCisConnected, FreeCis
  <2> QED BY <2>1, InitBase, InitPlanned DEF AssignedInv, PlannedInv, UpCisIsAssigned
<1>2. AssignedInv /\ [Next]_vars => AssignedInv'
  <2> SUFFICES ASSUME AssignedInv, [Next]_vars PROVE AssignedInv'
    OBVIOUS
  <2>1. PlannedInv'
    BY BaseStep, PlannedStep DEF AssignedInv, PlannedInv
  <2>2. Link => UpCisIsAssigned'
    BY LinkAssigned
  <2>3. Iso => UpCisIsAssigned'
    BY IsoAssigned
  <2>4. ASSUME NEW s \in Slots, clcb[s] \in Clients, ControlPointWrite(s)
        PROVE  UpCisIsAssigned'
    BY <2>4, WriteAssigned
  <2>5. UNCHANGED vars => UpCisIsAssigned'
    BY DEF vars, AssignedInv, UpCisIsAssigned, UpHandles, IsCisConnected
  <2>6. UpCisIsAssigned'
    BY <2>2, <2>3, <2>4, <2>5 DEF Next
  <2> QED BY <2>1, <2>6 DEF AssignedInv
<1> QED BY <1>1, <1>2, PTL DEF Spec

\* Where a CIS has ids and handles of its own and carries one ASE of a direction, its
\* handle is with each ASE that is configured for it as long as it is up, whether the
\* configuration, the request or the establishment came first.  (Released uncounted
\* before it was configured, an ASE has not looked its CIS up.)
THEOREM CisAssigned ==
  ASSUME DistinctIds, HandlesPerCis, OneAsePerDirection
  PROVE  Spec => []UpCisIsAssigned
<1>1. AssignedInv => UpCisIsAssigned
  BY DEF AssignedInv
<1> QED BY <1>1, AssignedAlways, PTL
-----------------------------------------------------------------------------
(* An ASE on its own CIS stays on it                                           *)

LEMMA RequestOwns ==
  ASSUME BaseInv, DistinctIds, NEW t \in Slots, NEW a \in Ases, OwnCis(t, a),
         NEW c \in Clients, NEW id \in CisIds, NEW h \in Handles, CisRequest(c, id, h)
  PROVE  OwnCis(t, a)'
<1>0. TypeOK
  BY DEF BaseInv
<1>1. GivesHandle(h, id) /\ OtherCises(h) /\ MayUse(c, id)
  BY <1>0, CisRequestMoves, RequestOwned
<1>2. CisOf(c, id) = {} /\ clcb' = clcb /\ cis[h] = FreeCis
  BY DEF CisRequest
<1>3. ase'[t][a] = ase[t][a]
  <2>1. ase'[t][a] # ase[t][a] => ase[t][a].id = id /\ clcb[t] = c
    BY <1>1, FoundOfClient DEF GivesHandle
  <2> QED BY <1>2, <2>1 DEF OwnCis, IsCisConnected, CisOf
<1>4. ase[t][a].handle # h
  BY <1>2 DEF OwnCis, IsCisConnected, FreeCis
<1> QED BY <1>1, <1>2, <1>3, <1>4 DEF OwnCis, IsCisConnected, OtherCises

LEMMA EstablishedOwns ==
  ASSUME BaseInv, DistinctIds, NEW t \in Slots, NEW a \in Ases, OwnCis(t, a),
         NEW h \in Handles, NEW res, CisEstablished(h, res)
  PROVE  OwnCis(t, a)'
<1>0. TypeOK
  BY DEF BaseInv
<1>1. cis[h].client \in Clients /\ clcb' = clcb /\ ~cis[h].up
  BY DEF CisEstablished
<1>2. /\ GivesHandle(h, cis[h].id) /\ OtherCises(h)
      /\ cis'[h].client = cis[h].client /\ cis'[h].id = cis[h].id /\ cis'[h].up
  BY <1>0, CisEstablishedMoves
<1>3. CASE ase'[t][a] = ase[t][a]
  <2>1. ase[t][a].handle # h
    BY <1>1 DEF OwnCis, IsCisConnected
  <2> QED BY <1>1, <1>2, <1>3, <2>1 DEF OwnCis, IsCisConnected, OtherCises
<1>4. CASE ase'[t][a] # ase[t][a]
  <2>1. /\ ase[t][a].state \in AtLeastQos /\ ase[t][a].id = cis[h].id
        /\ ase'[t][a].id = cis[h].id /\ ase'[t][a].handle = h
    BY <1>2, <1>4 DEF GivesHandle
  <2>2. clcb[t] = cis[h].client
    BY <1>1, <2>1, FoundOfCis
  <2> QED BY <1>1, <1>2, <2>1, <2>2 DEF OwnCis, IsCisConnected
<1> QED BY <1>3, <1>4

\* It is found when the CIS is lost, and then neither streaming nor releasing.
LEMMA DisconnectedOwns ==
  ASSUME BaseInv, DistinctIds, OneAsePerDirection, NEW t \in Slots, NEW a \in Ases, OwnCis(t, a),
         ase'[t][a].state \in {"streaming", "releasing"}, NEW h \in Handles, CisDisconnected(h)
  PROVE  OwnCis(t, a)'
<1>0. TypeOK
  BY DEF BaseInv
<1>1. /\ LosesCis(cis[h].id) /\ OtherCises(h) /\ cis[h].up
      /\ \A dir \in {SinkAses, SourceAses} :
           <<t, a>> \notin lehs_find_ase_with_cis_id(cis[h].id, dir)
  BY <1>0, CisDisconnectedMoves
<1>2. clcb' = clcb /\ cis[h].client \in Clients
  BY <1>1, UpOfClient DEF CisDisconnected, FreeCis
<1>3. ase'[t][a] = ase[t][a]
  BY <1>1 DEF LosesCis
<1>4. ase[t][a].handle # h
  <2>1. ase[t][a].id # cis[h].id
    BY <1>1, <1>2, <1>3, MatchIsFound DEF AtLeastQos
  <2> QED BY <2>1 DEF OwnCis
<1> QED BY <1>1, <1>2, <1>3, <1>4 DEF OwnCis, IsCisConnected, OtherCises

\* Steps that leave its ids and handle and the CISes that are up alone
LEMMA OwnKept ==
  ASSUME NEW t \in Slots, NEW a \in Ases, OwnCis(t, a), clcb'[t] = clcb[t],
         ase'[t][a].id = ase[t][a].id, ase'[t][a].handle = ase[t][a].handle,
         \A h \in Handles : cis[h].up =>
           cis'[h].up /\ cis'[h].client = cis[h].client /\ cis'[h].id = cis[h].id
  PROVE  OwnCis(t, a)'
BY DEF OwnCis, IsCisConnected
-----------------------------------------------------------------------------
(* One ASE on a CIS, and CISes for ASEs that wait for them                     *)

NamedInv == PlannedInv /\ HandleNamesCis /\ ReleasingWaitsForItsCis

LEMMA OneEachWay ==
  ASSUME OneAsePerCis
  PROVE  OneAsePerDirection
BY DEF OneAsePerCis, OneAsePerDirection, Ases

\* The client of a CIS is the client of the ASEs that hold its handle.
LEMMA HandleOfClient ==
  ASSUME PlannedInv, HandlesPerCis, NEW t \in Slots, NEW a \in Ases, NEW h \in Handles,
         cis[h] # FreeCis, ase[t][a].handle = h
  PROVE  clcb[t] = cis[h].client /\ cis[h].id \in PlanIds(clcb[t], a)
<1>0. BaseInv /\ HandlesPlanned /\ h # NoHandle
  BY ConstantsAssumption DEF PlannedInv
<1>1. clcb[t] \in Clients
  BY <1>0 DEF BaseInv, TypeOK, UnusedIdle
<1>2. PICK id \in PlanIds(clcb[t], a) : h \in HandlePool[clcb[t]][id]
  BY <1>0, <1>1 DEF HandlesPlanned
<1>3. id \in CisIds
  BY <1>1, <1>2, ConstantsAssumption DEF PlanIds
<1>4. /\ cis[h].client \in Clients /\ cis[h].id \in CisIds
      /\ h \in HandlePool[cis[h].client][cis[h].id]
  BY <1>0, UpOfClient
<1>5. clcb[t] = cis[h].client /\ id = cis[h].id
  BY <1>1, <1>2, <1>3, <1>4 DEF HandlesPerCis
<1> QED BY <1>2, <1>5

\* An ASE that holds the handle of a CIS that is up is on its own CIS.
LEMMA HolderOwnsCis ==
  ASSUME PlannedInv, HandlesPerCis, HandleNamesCis, NEW t \in Slots, NEW a \in Ases,
         IsCisConnected(ase[t][a].handle)
  PROVE  OwnCis(t, a)
<1> DEFINE h == ase[t][a].handle
<1>1. h \in Handles /\ cis[h].up
  BY DEF IsCisConnected
<1> HIDE DEF h
<1>2. cis[h] # FreeCis
  BY <1>1 DEF FreeCis
<1>3. cis[h].client = clcb[t] /\ cis[h].client \in Clients
  BY <1>1, <1>2, HandleOfClient, UpOfClient DEF PlannedInv, h
<1>4. cis[h].id = ase[t][a].id
  BY <1>1, <1>3 DEF HandleNamesCis, h
<1> QED BY <1>3, <1>4 DEF OwnCis, h

LEMMA WriteNamed ==
  ASSUME NamedInv, HandlesPerCis, NEW s \in Slots, clcb[s] \in Clients, ControlPointWrite(s)
  PROVE  HandleNamesCis' /\ ReleasingWaitsForItsCis'
<1>0. TypeOK /\ BaseInv /\ PlannedInv /\ HandleNamesCis /\ ReleasingWaitsForItsCis
  BY DEF NamedInv, PlannedInv, BaseInv
<1>1. /\ \A t \in Slots, a \in Ases :
           ase'[t][a] = ase[t][a] \/ (t = s /\ (Configured(s, a) \/ Operated(s, a)))
      /\ \A h \in Handles : cis'[h].client = cis[h].client /\ cis'[h].id = cis[h].id /\ cis'[h].up = cis[h].up
      /\ clcb' = clcb /\ MissedKept
  BY <1>0, WriteMovesAll DEF WriteMoves, WriteKeepsCises
<1>2. HandleNamesCis'
  <2> SUFFICES ASSUME NEW t \in Slots, NEW a \in Ases, NEW h \in Handles, cis[h].client \in Clients,
                      ase'[t][a].handle = h
               PROVE  ase'[t][a].id = cis[h].id
    BY <1>1 DEF HandleNamesCis
  <2>1. CASE ase'[t][a].handle = ase[t][a].handle /\ ase'[t][a].id = ase[t][a].id
    BY <1>0, <2>1 DEF HandleNamesCis
  <2>2. CASE t = s /\ Configured(s, a)
    <3> DEFINE id == ase'[t][a].id
    <3>1. CisHandle(clcb[s], id) = h /\ h # NoHandle
      BY <2>2, ConstantsAssumption DEF Configured
    <3> HIDE DEF id
    <3>2. cis[h].id = id
      BY <3>1, CisHandleOf
    <3> QED BY <3>2 DEF id
  <2> QED BY <1>1, <2>1, <2>2 DEF Operated
<1>3. ReleasingWaitsForItsCis'
  <2> SUFFICES ASSUME NEW t \in Slots, NEW a \in Ases \ missed'[t], ase'[t][a].state = "releasing"
               PROVE  OwnCis(t, a)'
    BY DEF ReleasingWaitsForItsCis
  <2>1. ase'[t][a].handle = ase[t][a].handle /\ ase'[t][a].id = ase[t][a].id
    BY <1>1 DEF Configured, Operated
  <2>2. OwnCis(t, a)
    <3>1. CASE ase'[t][a] = ase[t][a]
      BY <1>0, <1>1, <3>1 DEF ReleasingWaitsForItsCis, MissedKept
    <3>2. CASE ase'[t][a] # ase[t][a]
      BY <1>0, <1>1, <3>2, HolderOwnsCis DEF Configured, Operated
    <3> QED BY <3>1, <3>2
  <2> QED BY <1>1, <2>1, <2>2 DEF OwnCis, IsCisConnected
<1> QED BY <1>2, <1>3

\* A CIS requested for an ASE gives its handle to that ASE only.
LEMMA RequestNamed ==
  ASSUME NamedInv, DistinctIds, HandlesPerCis, OneAsePerCis, CisOnlyForAse,
         NEW c \in Clients, NEW id \in CisIds, NEW h \in Handles, CisRequest(c, id, h)
  PROVE  HandleNamesCis' /\ ReleasingWaitsForItsCis'
<1>0. /\ TypeOK /\ BaseInv /\ PlannedInv /\ HandleNamesCis /\ ReleasingWaitsForItsCis
      /\ missed' = missed
  BY DEF CisRequest, NamedInv, PlannedInv, BaseInv
<1>1. /\ GivesHandle(h, id) /\ OtherCises(h) /\ MayUse(c, id) /\ h \in HandlePool[c][id]
      /\ cis'[h].client = c /\ cis'[h].id = id
  BY <1>0, CisRequestMoves, RequestOwned
<1>2. CisOf(c, id) = {} /\ clcb' = clcb /\ Awaited(c, id) /\ cis[h] = FreeCis
  BY DEF CisRequest
<1>3. PICK s \in Slots, b \in Ases : clcb[s] = c /\ ase[s][b].id = id /\ ase[s][b].state \in AtLeastQos
  BY <1>2 DEF Awaited, Clcb, AtLeastQos
<1>4. id \in PlanIds(c, b)
  BY <1>0, <1>1, <1>3, FoundOfClient
<1>5. ASSUME NEW t \in Slots, NEW a \in Ases, ase[t][a].handle = h
      PROVE  ase[t][a].id = id
  <2>1. clcb[t] \in Clients /\ h # NoHandle
    BY <1>0, <1>5, ConstantsAssumption DEF BaseInv, TypeOK, UnusedIdle
  <2>2. PICK j \in PlanIds(clcb[t], a) : h \in HandlePool[clcb[t]][j]
    BY <1>0, <1>5, <2>1 DEF PlannedInv, HandlesPlanned
  <2>3. j \in CisIds
    BY <2>1, <2>2, ConstantsAssumption DEF PlanIds
  <2>4. clcb[t] = c /\ j = id
    BY <1>1, <2>1, <2>2, <2>3 DEF HandlesPerCis
  <2>5. t = s /\ a = b
    BY <1>0, <1>3, <1>4, <2>2, <2>4 DEF BaseInv, SlotsApart, OneAsePerCis
  <2> QED BY <1>3, <2>5
<1>6. HandleNamesCis'
  <2> SUFFICES ASSUME NEW t \in Slots, NEW a \in Ases, NEW k \in Handles, cis'[k].client \in Clients,
                      ase'[t][a].handle = k
               PROVE  ase'[t][a].id = cis'[k].id
    BY DEF HandleNamesCis
  <2>1. CASE ase'[t][a] = ase[t][a]
    BY <1>0, <1>1, <1>5, <2>1 DEF HandleNamesCis, OtherCises
  <2>2. CASE ase'[t][a] # ase[t][a]
    BY <1>1, <2>2 DEF GivesHandle
  <2> QED BY <2>1, <2>2
<1>7. ReleasingWaitsForItsCis'
  BY <1>0, <1>1, RequestOwns DEF ReleasingWaitsForItsCis, GivesHandle
<1> QED BY <1>6, <1>7

LEMMA EstablishedNamed ==
  ASSUME NamedInv, DistinctIds, NEW h \in Handles, NEW res, CisEstablished(h, res)
  PROVE  HandleNamesCis' /\ ReleasingWaitsForItsCis'
<1>0. /\ TypeOK /\ BaseInv /\ HandleNamesCis /\ ReleasingWaitsForItsCis
      /\ missed' = missed
  BY DEF CisEstablished, NamedInv, PlannedInv, BaseInv
<1>1. cis[h].client \in Clients /\ clcb' = clcb /\ ~cis[h].up
  BY DEF CisEstablished
<1>2. /\ GivesHandle(h, cis[h].id) /\ OtherCises(h)
      /\ cis'[h].client = cis[h].client /\ cis'[h].id = cis[h].id /\ cis'[h].up
  BY <1>0, CisEstablishedMoves
<1>3. HandleNamesCis'
  BY <1>0, <1>1, <1>2 DEF HandleNamesCis, GivesHandle, OtherCises
<1>4. ReleasingWaitsForItsCis'
  BY <1>0, <1>2, EstablishedOwns DEF ReleasingWaitsForItsCis, GivesHandle
<1> QED BY <1>3, <1>4

LEMMA DisconnectedNamed ==
  ASSUME NamedInv, DistinctIds, HandlesPerCis, OneAsePerCis, NEW h \in Handles, CisDisconnected(h)
  PROVE  HandleNamesCis' /\ ReleasingWaitsForItsCis'
<1>0. /\ TypeOK /\ BaseInv /\ PlannedInv /\ HandleNamesCis /\ ReleasingWaitsForItsCis
      /\ missed' = missed
  BY DEF CisDisconnected, NamedInv, PlannedInv, BaseInv
<1>1. clcb' = clcb
  BY DEF CisDisconnected
<1>2. /\ LosesCis(cis[h].id) /\ OtherCises(h) /\ cis'[h] = FreeCis /\ cis[h].up
      /\ \A t \in Slots, a \in Ases, dir \in {SinkAses, SourceAses} :
           <<t, a>> \in lehs_find_ase_with_cis_id(cis[h].id, dir) =>
             ase'[t][a].state \notin {"streaming", "releasing"}
  BY <1>0, CisDisconnectedMoves
<1>3. cis[h].client \in Clients
  BY <1>0, <1>2, UpOfClient DEF FreeCis
<1>4. HandleNamesCis'
  <2> SUFFICES ASSUME NEW t \in Slots, NEW a \in Ases, NEW k \in Handles, cis'[k].client \in Clients,
                      ase'[t][a].handle = k
               PROVE  ase'[t][a].id = cis'[k].id
    BY DEF HandleNamesCis
  <2>1. k # h /\ cis'[k] = cis[k] /\ ase[t][a].handle = k
    BY <1>2, ConstantsAssumption DEF OtherCises, FreeCis, LosesCis
  <2>2. ase[t][a].id = cis[k].id
    BY <1>0, <2>1 DEF HandleNamesCis
  <2>3. CASE ase'[t][a].id # ase[t][a].id
    <3>1. ase[t][a].state \in AtLeastQos /\ ase[t][a].id = cis[h].id
      BY <1>2, <2>3 DEF LosesCis
    <3>2. clcb[t] = cis[h].client
      BY <1>0, <1>3, <3>1, FoundOfCis
    <3>3. clcb[t] = cis[k].client
      BY <1>0, <2>1, HandleOfClient, ConstantsAssumption DEF FreeCis
    <3> QED BY <1>0, <1>3, <2>1, <2>2, <3>1, <3>2, <3>3 DEF BaseInv, CisesApart
  <2> QED BY <2>1, <2>2, <2>3
<1>5. ReleasingWaitsForItsCis'
  <2>1. \A t \in Slots, a \in Ases : ase'[t][a].state = "releasing" => ase[t][a].state = "releasing"
    BY <1>2 DEF LosesCis
  <2> QED BY <1>0, <2>1, OneEachWay, DisconnectedOwns DEF ReleasingWaitsForItsCis
<1> QED BY <1>4, <1>5

LEMMA IsoNamed ==
  ASSUME NamedInv, DistinctIds, HandlesPerCis, OneAsePerCis, CisOnlyForAse, Iso
  PROVE  HandleNamesCis' /\ ReleasingWaitsForItsCis'
<1>0. TypeOK /\ HandleNamesCis /\ ReleasingWaitsForItsCis /\ missed' = missed
  BY IsoMissesNone DEF NamedInv, PlannedInv, BaseInv
<1>1. ASSUME NEW h \in Handles, CisFailed(h)
      PROVE  HandleNamesCis' /\ ReleasingWaitsForItsCis'
  <2>1. /\ ase' = ase /\ clcb' = clcb /\ ~cis[h].up
        /\ \A k \in Handles : cis'[k] = IF k = h THEN FreeCis ELSE cis[k]
    BY <1>0, <1>1 DEF CisFailed, TypeOK
  <2>2. HandleNamesCis'
    BY <1>0, <2>1, ConstantsAssumption DEF HandleNamesCis, FreeCis
  <2>3. ReleasingWaitsForItsCis'
    BY <1>0, <2>1 DEF ReleasingWaitsForItsCis, OwnCis, IsCisConnected
  <2> QED BY <2>2, <2>3
<1>2. ASSUME NEW p \in setups, DataPathFailed(p)
      PROVE  HandleNamesCis' /\ ReleasingWaitsForItsCis'
  <2>1. ase' = ase /\ clcb' = clcb
    BY <1>2 DEF DataPathFailed
  <2>2. \A h \in Handles : cis'[h].client = cis[h].client /\ cis'[h].id = cis[h].id /\ cis'[h].up = cis[h].up
    BY <1>0, <1>2, DataPathFailedMoves
  <2> QED BY <1>0, <2>1, <2>2 DEF HandleNamesCis, ReleasingWaitsForItsCis, OwnCis, IsCisConnected
<1>3. ASSUME NEW p \in setups, DataPathSetup(p)
      PROVE  HandleNamesCis' /\ ReleasingWaitsForItsCis'
  <2>1. GivesPath(p) /\ UNCHANGED <<clcb, cis>>
    BY <1>0, <1>3, DataPathSetupMoves
  <2>2. \A t \in Slots, a \in Ases :
          /\ ase'[t][a].id = ase[t][a].id /\ ase'[t][a].handle = ase[t][a].handle
          /\ ase'[t][a].state = "releasing" => ase[t][a].state = "releasing"
    BY <2>1 DEF GivesPath
  <2> QED BY <1>0, <2>1, <2>2 DEF HandleNamesCis, ReleasingWaitsForItsCis, OwnCis, IsCisConnected
<1> QED BY <1>1, <1>2, <1>3, RequestNamed, EstablishedNamed, DisconnectedNamed DEF Iso

LEMMA LinkNamed ==
  ASSUME NamedInv, Link
  PROVE  HandleNamesCis' /\ ReleasingWaitsForItsCis'
<1>0. TypeOK /\ HandleNamesCis /\ ReleasingWaitsForItsCis
  BY DEF NamedInv, PlannedInv, BaseInv
<1>1. PICK s \in Slots : LinkResets(s)
  BY <1>0, LinkMoves
<1>2. \A a \in Ases : ase'[s][a].state = "idle" /\ ase'[s][a].handle = NoHandle
  BY <1>1 DEF LinkResets, BlankAse
<1>3. /\ \A t \in Slots \ {s} : ase'[t] = ase[t] /\ clcb'[t] = clcb[t] /\ missed'[t] = missed[t]
      /\ cis' = cis
  BY <1>1 DEF LinkResets
<1> QED BY <1>0, <1>2, <1>3, ConstantsAssumption
        DEF HandleNamesCis, ReleasingWaitsForItsCis, OwnCis, IsCisConnected

LEMMA NamedStep ==
  ASSUME NamedInv, DistinctIds, HandlesPerCis, OneAsePerCis, CisOnlyForAse, [Next]_vars
  PROVE  HandleNamesCis' /\ ReleasingWaitsForItsCis'
<1>1. CASE UNCHANGED vars
  BY <1>1 DEF vars, NamedInv, HandleNamesCis, ReleasingWaitsForItsCis, OwnCis, IsCisConnected
<1> QED BY <1>1, LinkNamed, IsoNamed, WriteNamed DEF Next

LEMMA NamedAlways ==
  ASSUME DistinctIds, HandlesPerCis, OneAsePerCis, CisOnlyForAse
  PROVE  Spec => []NamedInv
<1>1. Init => HandleNamesCis /\ ReleasingWaitsForItsCis
  BY ConstantsAssumption DEF Init, HandleNamesCis, ReleasingWaitsForItsCis, FreeCis, BlankAse
<1>2. NamedInv /\ [Next]_vars => NamedInv'
  BY BaseStep, PlannedStep, NamedStep DEF NamedInv, PlannedInv
<1>3. Init => NamedInv
  BY <1>1, InitBase, InitPlanned DEF NamedInv, PlannedInv
<1> QED BY <1>2, <1>3, PTL DEF Spec

\* Where besides every CIS carries one ASE, and centrals create a CIS only for an ASE that
\* waits for it, an ASE that its client counted is left in releasing only with the handle
\* of a CIS that is up and has its ids: lehs_cis_handle_disconnection will find it by them.
THEOREM ReleasingFindsItsCis ==
  ASSUME DistinctIds, HandlesPerCis, OneAsePerCis, CisOnlyForAse
  PROVE  Spec => []ReleasingWaitsForItsCis
<1>1. NamedInv => ReleasingWaitsForItsCis
  BY DEF NamedInv
<1> QED BY <1>1, NamedAlways, PTL
-----------------------------------------------------------------------------
(* Data paths that are asked for                                               *)

\* A data path is asked for on a CIS that is up, for an ASE of its client, and a sink on
\* the CIS of its plan.  If the CISes of a link go first, the client is still there.
SetUpRight(p) ==
  /\ IsCisConnected(p.handle)
  /\ cis[p.handle].client \in Clients
  /\ clcb[p.slot] \in {NoClient, cis[p.handle].client}
  /\ CisDropsFirst => clcb[p.slot] = cis[p.handle].client
  /\ p.ase \in SinkAses => PlanIds(cis[p.handle].client, p.ase) = {cis[p.handle].id}

SetupsOnTheirCis == \A p \in setups : SetUpRight(p)

\* A data path that is asked for stays so when its CIS does and its block serves no other.
LEMMA SetUpKept ==
  ASSUME NEW p, SetUpRight(p), clcb'[p.slot] = clcb[p.slot],
         cis'[p.handle].up, cis'[p.handle].client = cis[p.handle].client,
         cis'[p.handle].id = cis[p.handle].id
  PROVE  SetUpRight(p)'
BY DEF SetUpRight, IsCisConnected

\* A plan that is the only one has one place for an ASE.
LEMMA OnePlace ==
  ASSUME OnePlan, NEW c \in Clients, NEW a \in Ases, NEW id \in PlanIds(c, a)
  PROVE  PlanIds(c, a) = {id}
BY DEF OnePlan, PlanIds

LEMMA WriteSetsUp ==
  ASSUME NamedInv, SetupsOnTheirCis, HandlesPerCis, StartReadyIsForSources,
         NEW s \in Slots, clcb[s] \in Clients, ControlPointWrite(s)
  PROVE  SetupsOnTheirCis'
<1>0. TypeOK /\ BaseInv /\ PlannedInv
  BY DEF NamedInv, PlannedInv, BaseInv
<1>1. /\ \A h \in Handles : cis'[h].client = cis[h].client /\ cis'[h].id = cis[h].id /\ cis'[h].up = cis[h].up
      /\ clcb' = clcb
  BY <1>0, WriteMovesAll DEF WriteKeepsCises
<1>2. ASSUME NEW p \in setups'
      PROVE  SetUpRight(p)
  <2>1. CASE p \in setups
    BY <2>1 DEF SetupsOnTheirCis
  <2>2. CASE p \notin setups
    <3>0. \A ids, op, n, fault, plan :
            RejectWrite(s, op, ids, fault, plan) \/ ApplyWrite(s, op, ids, n, fault, plan) => setups' = setups
      BY DEF RejectWrite, ApplyWrite
    <3>a. PICK ids \in WriteLists : \E res, n : ApplyStartReady(s, ids, n, res)
      BY <1>2, <2>2, <3>0 DEF ControlPointWrite
    <3>1. PICK res, n : ApplyStartReady(s, ids, n, res)
      BY <3>a
    <3>2. PICK a \in Started(ids, res) :
            IsCisConnected(ase[s][a].handle) /\ p = [slot |-> s, ase |-> a, handle |-> ase[s][a].handle]
      BY <1>2, <2>2, <3>1 DEF ApplyStartReady
    <3>3. a \in Ases /\ a \in Named(ids)
      BY <3>2, ReachedAses DEF Started, Named
    <3>4. a \notin SinkAses
      BY <3>1, <3>3 DEF ApplyStartReady, Writes, StartReadyIsForSources
    <3>5. cis[p.handle].client = clcb[s]
      BY <1>0, <3>2, <3>3, HandleOfClient DEF IsCisConnected, FreeCis
    <3> QED BY <3>2, <3>4, <3>5 DEF SetUpRight
  <2> QED BY <2>1, <2>2
<1> QED BY <1>1, <1>2, SetUpKept DEF SetupsOnTheirCis, SetUpRight, IsCisConnected

LEMMA EstablishedSetsUp ==
  ASSUME BaseInv, SetupsOnTheirCis, DistinctIds, OnePlan,
         NEW h \in Handles, NEW res, CisEstablished(h, res)
  PROVE  SetupsOnTheirCis'
<1>0. TypeOK
  BY DEF BaseInv
<1>1. cis[h].client \in Clients /\ clcb' = clcb /\ ~cis[h].up
  BY DEF CisEstablished
<1>2. /\ OtherCises(h)
      /\ cis'[h].client = cis[h].client /\ cis'[h].id = cis[h].id /\ cis'[h].up
  BY <1>0, CisEstablishedMoves
<1> SUFFICES ASSUME NEW p \in setups' PROVE SetUpRight(p)'
  BY DEF SetupsOnTheirCis
<1>3. CASE p \in setups
  <2>1. SetUpRight(p) /\ p.handle \in Handles /\ p.handle # h
    BY <1>1, <1>3 DEF SetupsOnTheirCis, SetUpRight, IsCisConnected
  <2>2. cis'[p.handle] = cis[p.handle]
    BY <1>2, <2>1 DEF OtherCises
  <2> QED BY <1>1, <2>1, <2>2, SetUpKept DEF SetUpRight, IsCisConnected
<1>4. CASE p \notin setups
  <2> DEFINE sinks   == lehs_find_ase_with_cis_id(cis[h].id, SinkAses)
             sources == lehs_find_ase_with_cis_id(cis[h].id, SourceAses)
  <2>1. PICK q \in sinks \cup sources : p = [slot |-> q[1], ase |-> q[2], handle |-> h]
    BY <1>4 DEF CisEstablished, AwaitingCis
  <2>2. /\ q[1] \in Slots /\ q[2] \in Ases
        /\ ase[q[1]][q[2]].state \in AtLeastQos /\ ase[q[1]][q[2]].id = cis[h].id
    BY <2>1, FoundMatch DEF Matches, Ases
  <2>3. clcb[q[1]] = cis[h].client /\ cis[h].id \in PlanIds(cis[h].client, q[2])
    BY <1>1, <2>2, FoundOfCis
  <2>4. PlanIds(cis[h].client, q[2]) = {cis[h].id}
    BY <1>1, <2>2, <2>3, OnePlace
  <2> HIDE DEF sinks, sources
  <2>5. p.slot = q[1] /\ p.ase = q[2] /\ p.handle = h
    BY <2>1
  <2> QED BY <1>1, <1>2, <2>3, <2>4, <2>5 DEF SetUpRight, IsCisConnected
<1> QED BY <1>3, <1>4

LEMMA IsoSetsUp ==
  ASSUME BaseInv, SetupsOnTheirCis, DistinctIds, OnePlan, Iso
  PROVE  SetupsOnTheirCis'
<1>0. TypeOK
  BY DEF BaseInv
<1>1. ASSUME clcb' = clcb, setups' \subseteq setups,
             \A p \in setups' : cis[p.handle].up => /\ cis'[p.handle].up
                                                   /\ cis'[p.handle].client = cis[p.handle].client
                                                   /\ cis'[p.handle].id = cis[p.handle].id
      PROVE  SetupsOnTheirCis'
  BY <1>1, SetUpKept DEF SetupsOnTheirCis, SetUpRight, IsCisConnected
<1>2. \A p \in setups : p.handle \in Handles
  BY DEF SetupsOnTheirCis, SetUpRight, IsCisConnected
<1>3. ASSUME NEW c \in Clients, NEW id \in CisIds, NEW h \in Handles, CisRequest(c, id, h)
      PROVE  SetupsOnTheirCis'
  <2>1. OtherCises(h)
    BY <1>0, <1>3, CisRequestMoves
  <2>2. ~cis[h].up /\ clcb' = clcb /\ setups' = setups
    BY <1>3 DEF CisRequest, FreeCis
  <2> QED BY <1>1, <1>2, <2>1, <2>2 DEF OtherCises
<1>4. ASSUME NEW h \in Handles, CisFailed(h)
      PROVE  SetupsOnTheirCis'
  <2>1. ~cis[h].up /\ clcb' = clcb /\ setups' = setups /\ \A k \in Handles \ {h} : cis'[k] = cis[k]
    BY <1>0, <1>4 DEF CisFailed, TypeOK
  <2> QED BY <1>1, <1>2, <2>1
<1>5. ASSUME NEW h \in Handles, CisDisconnected(h)
      PROVE  SetupsOnTheirCis'
  <2>1. OtherCises(h)
    BY <1>0, <1>5, CisDisconnectedMoves
  <2>2. clcb' = clcb /\ setups' \subseteq setups /\ \A p \in setups' : p.handle # h
    BY <1>5 DEF CisDisconnected
  <2> QED BY <1>1, <1>2, <2>1, <2>2 DEF OtherCises
<1>6. ASSUME NEW p \in setups, DataPathFailed(p)
      PROVE  SetupsOnTheirCis'
  <2>1. clcb' = clcb /\ setups' \subseteq setups
    BY <1>6 DEF DataPathFailed
  <2>2. \A h \in Handles : cis'[h].client = cis[h].client /\ cis'[h].id = cis[h].id /\ cis'[h].up = cis[h].up
    BY <1>0, <1>6, DataPathFailedMoves
  <2> QED BY <1>1, <1>2, <2>1, <2>2
<1>7. ASSUME NEW p \in setups, DataPathSetup(p)
      PROVE  SetupsOnTheirCis'
  <2>1. clcb' = clcb /\ setups' \subseteq setups /\ cis' = cis
    BY <1>7 DEF DataPathSetup
  <2> QED BY <1>1, <2>1
<1> QED BY <1>3, <1>4, <1>5, <1>6, <1>7, EstablishedSetsUp DEF Iso

\* A block is given to another client only when no CIS of the first is left.
LEMMA LinkSetsUp ==
  ASSUME BaseInv, SetupsOnTheirCis, CisDropsFirst \/ OneClient, Link
  PROVE  SetupsOnTheirCis'
<1>0. TypeOK
  BY DEF BaseInv
<1> SUFFICES ASSUME NEW p \in setups PROVE SetUpRight(p)'
  BY DEF SetupsOnTheirCis, Link, GattConnected, GattDisconnected
<1>1. /\ SetUpRight(p) /\ p.handle \in Handles /\ p.slot \in Slots
      /\ cis' = cis /\ cis[p.handle].client \in Clients
  BY <1>0 DEF SetupsOnTheirCis, SetUpRight, IsCisConnected, TypeOK, Setups,
              Link, GattConnected, GattDisconnected
<1>2. ASSUME NEW c \in Clients, NEW s \in Slots, GattConnected(c, s)
      PROVE  SetUpRight(p)'
  <2>1. clcb[s] = NoClient /\ cis[p.handle].client # c /\ clcb' = [clcb EXCEPT ![s] = c]
    BY <1>1, <1>2 DEF GattConnected
  <2>2. CisDropsFirst
    BY <1>1, <2>1 DEF OneClient
  <2>3. p.slot # s
    BY <1>1, <2>1, <2>2, ConstantsAssumption DEF SetUpRight
  <2>4. clcb'[p.slot] = clcb[p.slot]
    BY <1>0, <1>1, <2>1, <2>3 DEF TypeOK
  <2> QED BY <1>1, <2>4, SetUpKept DEF SetUpRight, IsCisConnected
<1>3. ASSUME NEW s \in Slots, GattDisconnected(s)
      PROVE  SetUpRight(p)'
  <2>1. clcb' = [clcb EXCEPT ![s] = NoClient] /\ (CisDropsFirst => cis[p.handle].client # clcb[s])
    BY <1>1, <1>3 DEF GattDisconnected
  <2>2. clcb'[p.slot] = IF p.slot = s THEN NoClient ELSE clcb[p.slot]
    BY <1>0, <1>1, <2>1 DEF TypeOK
  <2> QED BY <1>1, <2>1, <2>2 DEF SetUpRight, IsCisConnected
<1> QED BY <1>2, <1>3 DEF Link
-----------------------------------------------------------------------------
(* Streaming sinks                                                             *)

SinksOnTheirCis == \A s \in Slots, a \in SinkAses : ase[s][a].state = "streaming" => OwnCis(s, a)

StreamInv ==
  NamedInv /\ UpCisIsAssigned /\ CoupledAseHasQos /\ SetupsOnTheirCis /\ SinksOnTheirCis

LEMMA WriteStreams ==
  ASSUME StreamInv, StartReadyIsForSources, NEW s \in Slots, clcb[s] \in Clients, ControlPointWrite(s)
  PROVE  SinksOnTheirCis'
<1>0. TypeOK /\ SinksOnTheirCis
  BY DEF StreamInv, NamedInv, PlannedInv, BaseInv
<1>1. /\ WriteMoves(s) /\ clcb' = clcb
      /\ \A h \in Handles : cis'[h].client = cis[h].client /\ cis'[h].id = cis[h].id /\ cis'[h].up = cis[h].up
  BY <1>0, WriteMovesAll DEF WriteKeepsCises
<1> SUFFICES ASSUME NEW t \in Slots, NEW a \in SinkAses, ase'[t][a].state = "streaming"
             PROVE  OwnCis(t, a)'
  BY DEF SinksOnTheirCis
<1>2. a \in Ases
  BY DEF Ases
<1>3. /\ ase[t][a].state = "streaming"
      /\ ase'[t][a].id = ase[t][a].id /\ ase'[t][a].handle = ase[t][a].handle
  BY <1>1, <1>2 DEF WriteMoves, Configured, Operated, StartReadyIsForSources
<1> QED BY <1>0, <1>1, <1>2, <1>3, OwnKept DEF SinksOnTheirCis

\* The data path comes for the sink on its own CIS.
LEMMA SetupStreams ==
  ASSUME StreamInv, NEW p \in setups, DataPathSetup(p)
  PROVE  SinksOnTheirCis'
<1>0. /\ TypeOK /\ BaseInv /\ SinksOnTheirCis /\ UpCisIsAssigned /\ CoupledAseHasQos
      /\ SetUpRight(p) /\ IdsPlanned /\ UnusedIdle
  BY DEF StreamInv, NamedInv, PlannedInv, BaseInv, SetupsOnTheirCis
<1>1. GivesPath(p) /\ UNCHANGED <<clcb, cis>>
  BY <1>0, DataPathSetupMoves
<1> SUFFICES ASSUME NEW t \in Slots, NEW a \in SinkAses, ase'[t][a].state = "streaming"
             PROVE  OwnCis(t, a)'
  BY DEF SinksOnTheirCis
<1>2. a \in Ases
  BY DEF Ases
<1>3. ase'[t][a].id = ase[t][a].id /\ ase'[t][a].handle = ase[t][a].handle
  BY <1>1, <1>2 DEF GivesPath
<1>4. OwnCis(t, a)
  <2>1. CASE ase[t][a].state = "streaming"
    BY <1>0, <2>1 DEF SinksOnTheirCis
  <2>2. CASE ase[t][a].state # "streaming"
    <3> DEFINE h == p.handle
               c == cis[h].client
    <3>1. t = p.slot /\ a = p.ase /\ ase[t][a].state = "enabling"
      BY <1>1, <1>2, <2>2 DEF GivesPath
    <3>2. ase[t][a].id \in CisIds /\ ase[t][a].state \in AtLeastQos /\ clcb[t] # NoClient
      BY <1>0, <1>2, <3>1 DEF CoupledAseHasQos, UnusedIdle, AtLeastQos
    <3>3. clcb[t] = c /\ c \in Clients /\ PlanIds(c, a) = {cis[h].id} /\ h \in UpHandles
      BY <1>0, <3>1, <3>2 DEF SetUpRight, UpHandles, IsCisConnected
    <3>4. ase[t][a].id \in {NoCis} \cup PlanIds(c, a)
      BY <1>0, <1>2, <3>3 DEF IdsPlanned
    <3>5. ase[t][a].id = cis[h].id
      BY <3>2, <3>3, <3>4, ConstantsAssumption
    <3>6. ase[t][a].handle = h
      BY <1>0, <1>2, <3>1, <3>2, <3>3, <3>5 DEF UpCisIsAssigned
    <3> QED BY <3>3, <3>5, <3>6 DEF OwnCis, UpHandles
  <2> QED BY <2>1, <2>2
<1> QED BY <1>1, <1>2, <1>3, <1>4, OwnKept

LEMMA IsoStreams ==
  ASSUME StreamInv, DistinctIds, OneAsePerDirection, Iso
  PROVE  SinksOnTheirCis'
<1>0. TypeOK /\ BaseInv /\ \A s \in Slots, a \in SinkAses : ase[s][a].state = "streaming" => OwnCis(s, a)
  BY DEF StreamInv, NamedInv, PlannedInv, BaseInv, SinksOnTheirCis
<1>1. SinkAses \subseteq Ases
  BY DEF Ases
<1>2. ASSUME NEW c \in Clients, NEW id \in CisIds, NEW h \in Handles, CisRequest(c, id, h)
      PROVE  SinksOnTheirCis'
  <2>1. GivesHandle(h, id)
    BY <1>0, <1>2, CisRequestMoves
  <2>2. \A t \in Slots, a \in SinkAses : ase'[t][a].state = "streaming" => OwnCis(t, a)
    BY <1>0, <1>1, <2>1 DEF GivesHandle
  <2> QED BY <1>0, <1>1, <1>2, <2>2, RequestOwns DEF SinksOnTheirCis
<1>3. ASSUME NEW h \in Handles, NEW res, CisEstablished(h, res)
      PROVE  SinksOnTheirCis'
  <2>1. GivesHandle(h, cis[h].id)
    BY <1>0, <1>3, CisEstablishedMoves
  <2>2. \A t \in Slots, a \in SinkAses : ase'[t][a].state = "streaming" => OwnCis(t, a)
    BY <1>0, <1>1, <2>1 DEF GivesHandle
  <2> QED BY <1>0, <1>1, <1>3, <2>2, EstablishedOwns DEF SinksOnTheirCis
<1>4. ASSUME NEW h \in Handles, CisDisconnected(h)
      PROVE  SinksOnTheirCis'
  <2>1. LosesCis(cis[h].id)
    BY <1>0, <1>4, CisDisconnectedMoves
  <2>2. \A t \in Slots, a \in SinkAses : ase'[t][a].state = "streaming" => OwnCis(t, a)
    BY <1>0, <1>1, <2>1 DEF LosesCis
  <2> QED BY <1>0, <1>1, <1>4, <2>2, DisconnectedOwns DEF SinksOnTheirCis
<1>5. ASSUME NEW h \in Handles, CisFailed(h)
      PROVE  SinksOnTheirCis'
  <2>1. /\ ase' = ase /\ clcb' = clcb /\ ~cis[h].up
        /\ \A k \in Handles \ {h} : cis'[k] = cis[k]
    BY <1>0, <1>5 DEF CisFailed, TypeOK
  <2> QED BY <1>0, <1>1, <2>1, OwnKept DEF SinksOnTheirCis
<1>6. ASSUME NEW p \in setups, DataPathFailed(p)
      PROVE  SinksOnTheirCis'
  <2>1. ase' = ase /\ clcb' = clcb
    BY <1>6 DEF DataPathFailed
  <2>2. \A h \in Handles : cis'[h].client = cis[h].client /\ cis'[h].id = cis[h].id /\ cis'[h].up = cis[h].up
    BY <1>0, <1>6, DataPathFailedMoves
  <2> QED BY <1>0, <1>1, <2>1, <2>2, OwnKept DEF SinksOnTheirCis
<1> QED BY <1>2, <1>3, <1>4, <1>5, <1>6, SetupStreams DEF Iso

LEMMA LinkStreams ==
  ASSUME StreamInv, Link
  PROVE  SinksOnTheirCis'
<1>0. TypeOK /\ SinksOnTheirCis
  BY DEF StreamInv, NamedInv, PlannedInv, BaseInv
<1>1. PICK s \in Slots : LinkResets(s)
  BY <1>0, LinkMoves
<1>2. /\ \A a \in Ases : ase'[s][a].state = "idle"
      /\ \A t \in Slots \ {s} : ase'[t] = ase[t] /\ clcb'[t] = clcb[t]
      /\ cis' = cis /\ SinkAses \subseteq Ases
  BY <1>1 DEF LinkResets, BlankAse, Ases
<1> QED BY <1>0, <1>2 DEF SinksOnTheirCis, OwnCis, IsCisConnected

\* Where centrals keep to one plan as well, and a block is not given to another client
\* while CISes of the first are up, a sink in streaming has a data path on the CIS of
\* its own QoS configuration, whatever is lost, late or configured again.
THEOREM StreamingOnItsCis ==
  ASSUME DistinctIds, HandlesPerCis, OneAsePerCis, CisOnlyForAse, OnePlan,
         StartReadyIsForSources, CisDropsFirst \/ OneClient
  PROVE  Spec => []StreamingSinkOnItsCis
<1> DEFINE Known  == NamedInv /\ UpCisIsAssigned /\ CoupledAseHasQos
           Stream == SetupsOnTheirCis /\ SinksOnTheirCis
<1>1. Spec => []Known
  <2>1. AssignedInv => UpCisIsAssigned
    BY DEF AssignedInv
  <2>2. Spec => []AssignedInv
    BY AssignedAlways, OneEachWay
  <2> QED BY <2>1, <2>2, NamedAlways, CoupledHasQos, PTL
<1>2. Init => Stream
  BY DEF Init, SetupsOnTheirCis, SinksOnTheirCis, BlankAse, Ases
<1>3. Known /\ Stream /\ [Next]_vars => Stream'
  <2> SUFFICES ASSUME StreamInv, [Next]_vars PROVE SetupsOnTheirCis' /\ SinksOnTheirCis'
    BY DEF StreamInv
  <2>0. BaseInv /\ NamedInv /\ SetupsOnTheirCis /\ OneAsePerDirection
    BY OneEachWay DEF StreamInv, NamedInv, PlannedInv
  <2>1. CASE Link
    BY <2>0, <2>1, LinkSetsUp, LinkStreams
  <2>2. CASE Iso
    BY <2>0, <2>2, IsoSetsUp, IsoStreams
  <2>3. ASSUME NEW s \in Slots, clcb[s] \in Clients, ControlPointWrite(s)
        PROVE  SetupsOnTheirCis' /\ SinksOnTheirCis'
    BY <2>0, <2>3, WriteSetsUp, WriteStreams
  <2>4. CASE UNCHANGED vars
    BY <2>4 DEF vars, StreamInv, SetupsOnTheirCis, SetUpRight, SinksOnTheirCis, OwnCis, IsCisConnected
  <2> QED BY <2>1, <2>2, <2>3, <2>4 DEF Next
<1>4. Stream /\ StreamingSinkHasDataPath => StreamingSinkOnItsCis
  BY DEF SinksOnTheirCis, StreamingSinkHasDataPath, StreamingSinkOnItsCis
<1> HIDE DEF Known, Stream
<1> QED BY <1>1, <1>2, <1>3, <1>4, StreamingHasDataPath, PTL DEF Spec
-----------------------------------------------------------------------------
(* One client is told what its ASEs are in                                     *)

\* One client has one block.
LEMMA OneInUse ==
  ASSUME BaseInv, OneClient, NEW s \in Slots, NEW t \in Slots,
         clcb[s] \in Clients, clcb[t] \in Clients
  PROVE  s = t
BY DEF BaseInv, SlotsApart, OneClient

\* An ASE that a CIS event finds is in a block that is in use.
LEMMA FoundInUse ==
  ASSUME BaseInv, NEW t \in Slots, NEW a \in Ases, ase[t][a].state # "idle"
  PROVE  clcb[t] \in Clients
BY DEF BaseInv, TypeOK, UnusedIdle

\* What the loss of a CIS makes of the state of an ASE
LEMMA DroppedStates ==
  ASSUME NEW r \in AseData
  PROVE  /\ DroppedSink(r).state = IF r.state \in {"streaming", "disabling"} THEN "qos"
                                   ELSE IF r.state = "releasing" THEN "idle" ELSE r.state
         /\ DroppedSource(r).state = IF r.state = "streaming" THEN "disabling"
                                     ELSE IF r.state = "disabling" THEN "qos"
                                     ELSE IF r.state = "releasing" THEN "idle" ELSE r.state
BY DEF DroppedSink, DroppedSource, Dropped, AseData, AseStates

\* How told moves with the loss of a CIS
LEMMA DisconnectedTells ==
  ASSUME TypeOK, NEW h \in Handles, CisDisconnected(h), NEW t \in Slots, NEW a \in Ases,
         told[t][a] = ase[t][a].state
  PROVE  /\ told'[t][a] = ase'[t][a].state
         /\ <<t, a>> \notin lehs_find_ase_with_cis_id(cis[h].id, SinkAses)
                    \cup lehs_find_ase_with_cis_id(cis[h].id, SourceAses) => told'[t][a] = told[t][a]
         /\ <<t, a>> \in lehs_find_ase_with_cis_id(cis[h].id, SinkAses) =>
              told'[t][a] = DroppedSink(ase[t][a]).state
         /\ <<t, a>> \in lehs_find_ase_with_cis_id(cis[h].id, SourceAses) =>
              told'[t][a] = DroppedSource(ase[t][a]).state
<1> DEFINE sinks   == lehs_find_ase_with_cis_id(cis[h].id, SinkAses)
           sources == lehs_find_ase_with_cis_id(cis[h].id, SourceAses)
<1>1. /\ ase'[t][a] = IF <<t, a>> \in sinks THEN DroppedSink(ase[t][a])
                      ELSE IF <<t, a>> \in sources THEN DroppedSource(ase[t][a]) ELSE ase[t][a]
      /\ told'[t][a] = IF <<t, a>> \in sinks \cup sources /\ ase[t][a].state # "enabling"
                       THEN ase'[t][a].state ELSE told[t][a]
  BY DEF CisDisconnected
<1>2. ase[t][a] \in AseData
  BY DEF TypeOK
<1>3. <<t, a>> \in sinks => <<t, a>> \notin sources
  <2>1. <<t, a>> \in sinks => a \in SinkAses
    BY FoundMatch DEF Matches
  <2>2. <<t, a>> \in sources => a \in SourceAses
    BY FoundMatch DEF Matches
  <2> QED BY <2>1, <2>2, ConstantsAssumption
<1> HIDE DEF sinks, sources
<1>4. ase[t][a].state = "enabling" =>
        DroppedSink(ase[t][a]).state = "enabling" /\ DroppedSource(ase[t][a]).state = "enabling"
  BY <1>2, DroppedStates
<1>5. told'[t][a] = ase'[t][a].state
  BY <1>1, <1>4
<1> QED BY <1>1, <1>3, <1>5 DEF sinks, sources

\* How told moves with a data path
LEMMA SetupTells ==
  ASSUME BaseInv, OneClient, NEW p \in setups, DataPathSetup(p)
  PROVE  \/ ase' = ase /\ told' = told
         \/ /\ ase[p.slot][p.ase].state = "enabling" /\ p.ase \in SinkAses /\ p.slot \in Slots
            /\ \A t \in Slots, a \in Ases :
                 /\ told'[t][a] = IF t = p.slot /\ a = p.ase THEN "streaming" ELSE told[t][a]
                 /\ ase'[t][a].state = IF t = p.slot /\ a = p.ase THEN "streaming" ELSE ase[t][a].state
         \/ \A t \in Slots, a \in Ases : told'[t][a] = told[t][a] /\ ase'[t][a].state = ase[t][a].state
<1> DEFINE found   == lehs_get_ase_app_data_ptr_by_cis_conn_hdl
           streams == p.ase \in SinkAses /\ ase[p.slot][p.ase].state = "enabling"
<1>0. TypeOK /\ p.slot \in Slots /\ p.ase \in Ases
  BY DEF BaseInv, TypeOK, Setups
<1>1. CASE ase' = ase /\ told' = told
  BY <1>1
<1>2. CASE ~(ase' = ase /\ told' = told)
  <2>1. /\ found # {}
        /\ ase' = [ase EXCEPT ![p.slot][p.ase] = WithPath(p.ase, @)]
        /\ told' = [s \in Slots |-> [a \in Ases |->
                     IF streams /\ a = p.ase /\ (\E q \in found : q[1] = s)
                     THEN "streaming" ELSE told[s][a]]]
    BY <1>2 DEF DataPathSetup
  <2>2. \A q \in found : q[1] \in Slots /\ clcb[q[1]] \in Clients
    <3> SUFFICES ASSUME NEW q \in found PROVE q[1] \in Slots /\ clcb[q[1]] \in Clients
      OBVIOUS
    <3>1. q[1] \in Slots /\ q[2] \in Ases /\ ase[q[1]][q[2]].state \in AtLeastQos
      BY DEF lehs_get_ase_app_data_ptr_by_cis_conn_hdl, FirstOf
    <3> QED BY <3>1, FoundInUse DEF AtLeastQos
  <2>3. streams => \A q \in found : q[1] = p.slot
    <3>1. streams => clcb[p.slot] \in Clients
      BY <1>0, FoundInUse
    <3> QED BY <1>0, <2>2, <3>1, OneInUse
  <2>4. ase[p.slot][p.ase] \in AseData
    BY <1>0 DEF TypeOK
  <2> DEFINE r == WithPath(p.ase, ase[p.slot][p.ase])
  <2>5. r.state = IF streams THEN "streaming" ELSE ase[p.slot][p.ase].state
    BY <2>4 DEF WithPath, AseData
  <2>6. \A t \in Slots, a \in Ases :
          ase'[t][a] = IF t = p.slot /\ a = p.ase THEN r ELSE ase[t][a]
    <3> HIDE DEF r
    <3>1. ase' = [ase EXCEPT ![p.slot] = [@ EXCEPT ![p.ase] = r]]
      BY <2>1 DEF r
    <3> QED BY <1>0, <3>1 DEF TypeOK
  <2> HIDE DEF found, r
  <2>7. CASE streams
    <3>1. \A t \in Slots : (\E q \in found : q[1] = t) <=> t = p.slot
      BY <2>1, <2>3, <2>7
    <3>2. \A t \in Slots, a \in Ases : told'[t][a] = IF t = p.slot /\ a = p.ase THEN "streaming" ELSE told[t][a]
      BY <2>1, <2>7, <3>1
    <3>3. \A t \in Slots, a \in Ases :
            ase'[t][a].state = IF t = p.slot /\ a = p.ase THEN "streaming" ELSE ase[t][a].state
      BY <2>5, <2>6, <2>7
    <3> QED BY <1>0, <2>7, <3>2, <3>3
  <2>8. CASE ~streams
    <3>1. \A t \in Slots, a \in Ases : told'[t][a] = told[t][a]
      BY <2>1, <2>8
    <3>2. \A t \in Slots, a \in Ases : ase'[t][a].state = ase[t][a].state
      BY <2>5, <2>6, <2>8
    <3> QED BY <3>1, <3>2
  <2> QED BY <2>7, <2>8
<1> QED BY <1>1, <1>2

\* Applied operations and what is told of them
LEMMA AppliedStates ==
  ASSUME TypeOK, NEW s \in Slots, clcb[s] \in Clients, NEW ids \in WriteLists, NEW op, NEW n, NEW fault,
         NEW plan \in PlansOf(clcb[s], op), ApplyWrite(s, op, ids, n, fault, plan), NEW a \in Named(ids)
  PROVE  LET st == ase[s][a].state IN LET next == NextState(a \in SinkAses, st, op) IN
         /\ a \in Ases /\ st \in AcceptedIn(op)
         /\ a \in Counted(ids, n) => told'[s][a] = ase'[s][a].state
         /\ \/ ase'[s][a].state \in {st, next}
            \/ next = "releasing" /\ ase'[s][a].state = "idle"
            \/ next = "disabling" /\ ase'[s][a].state = "qos"
<1> DEFINE r == ase[s][a]
           q == Applied(s, op, r, a, fault, plan)
<1>1. a \in Ases
  BY ReachedAses
<1>2. r \in AseData /\ r.state \in AcceptedIn(op)
  BY <1>1 DEF ApplyWrite, Rejected, Refuses, TypeOK
<1>3. /\ ase'[s][a] \in {Settled(q), q}
      /\ a \in Counted(ids, n) => told'[s][a] = ase'[s][a].state
  BY <1>1 DEF ApplyWrite, NotifyCounted, TypeOK
<1>4. q \in AseData
  BY <1>1, <1>2, AppliedType, PlanType
<1>5. \/ q.state = NextState(a \in SinkAses, r.state, op)
      \/ q = r /\ r.state \in {"codec", "qos"}
  <2>1. CASE op = "config_qos" /\ fault[a] = "skip"
    BY <1>2, <2>1 DEF Applied, AcceptedIn
  <2>2. CASE op = "config_qos" /\ fault[a] # "skip"
    BY <1>2, <2>2 DEF Applied, WithQos, AseData
  <2>3. CASE op # "config_qos"
    BY <1>2, <2>3 DEF Applied, AseData
  <2> QED BY <2>1, <2>2, <2>3
<1> HIDE DEF q
<1>6. \/ ase'[s][a].state = q.state
      \/ q.state = "releasing" /\ ase'[s][a].state = "idle"
      \/ q.state = "disabling" /\ ase'[s][a].state = "qos"
  BY <1>3, <1>4, SettledFields
<1> QED BY <1>1, <1>2, <1>3, <1>5, <1>6

LEMMA StartedStates ==
  ASSUME TypeOK, NEW s \in Slots, NEW ids \in WriteLists, NEW n, NEW res, ApplyStartReady(s, ids, n, res),
         NEW a \in Named(ids)
  PROVE  /\ a \in Ases /\ ase[s][a].state \in AcceptedIn("receiver_start_ready")
         /\ a \in Counted(ids, n) => told'[s][a] = ase'[s][a].state
         /\ ase'[s][a].state \in {ase[s][a].state, "streaming"}
<1>1. a \in Ases
  BY ReachedAses
<1>2. ase[s][a] \in AseData /\ [ase[s][a] EXCEPT !.state = "streaming"].state = "streaming"
  BY <1>1 DEF TypeOK, AseData
<1> QED BY <1>1, <1>2 DEF ApplyStartReady, NotifyCounted, TypeOK

\* A write that is applied tells of the ASEs it names and changes no others.
LEMMA WriteTellsOthers ==
  ASSUME TypeOK, NEW s \in Slots, NEW ids \in WriteLists,
         NEW t \in Slots, NEW a \in Ases, ~(t = s /\ a \in Named(ids)),
         \/ \E op, n, fault, plan : ApplyWrite(s, op, ids, n, fault, plan)
         \/ \E n, res : ApplyStartReady(s, ids, n, res)
  PROVE  ase'[t][a] = ase[t][a] /\ told'[t][a] = told[t][a]
<1>0. \A n : Counted(ids, n) \subseteq Named(ids)
  BY DEF Counted, Named
<1>1. ASSUME NEW op, NEW n, NEW fault, NEW plan, ApplyWrite(s, op, ids, n, fault, plan)
      PROVE  ase'[t][a] = ase[t][a] /\ told'[t][a] = told[t][a]
  BY <1>0, <1>1 DEF ApplyWrite, NotifyCounted, TypeOK
<1>2. ASSUME NEW n, NEW res, ApplyStartReady(s, ids, n, res)
      PROVE  ase'[t][a] = ase[t][a] /\ told'[t][a] = told[t][a]
  <2>1. Started(ids, res) \subseteq Named(ids)
    BY DEF Started, Named
  <2> QED BY <1>0, <1>2, <2>1 DEF ApplyStartReady, NotifyCounted, TypeOK
<1> QED BY <1>1, <1>2

AllTold == \A t \in Slots : \A a \in Ases \ missed[t] : told[t][a] = ase[t][a].state

LEMMA WriteToldStep ==
  ASSUME TypeOK, AllTold, NEW s \in Slots, clcb[s] \in Clients, ControlPointWrite(s)
  PROVE  AllTold'
<1>0. MissedKept
  BY WriteMovesAll
<1>1. ASSUME NEW ids \in WriteLists, NEW op, NEW fault, NEW plan \in PlansOf(clcb[s], op),
             RejectWrite(s, op, ids, fault, plan)
      PROVE  AllTold'
  <2>1. \A t \in Slots, a \in Ases : ase'[t][a].state = ase[t][a].state
    <3>1. \A r \in AseData : \A id : WithQos(s, r, id).state = r.state
      BY DEF WithQos, AseData
    <3> QED BY <1>1, <3>1 DEF RejectWrite, TypeOK
  <2> QED BY <1>1, <2>1 DEF AllTold, RejectWrite
<1>2. ASSUME NEW ids \in WriteLists, NEW n, MissUncounted(s, ids, n),
             \A a \in Counted(ids, n) : told'[s][a] = ase'[s][a].state,
             \A t \in Slots, a \in Ases : ~(t = s /\ a \in Named(ids)) =>
               ase'[t][a] = ase[t][a] /\ told'[t][a] = told[t][a]
      PROVE  AllTold'
  <2> SUFFICES ASSUME NEW t \in Slots, NEW a \in Ases \ missed'[t]
               PROVE  told'[t][a] = ase'[t][a].state
    BY DEF AllTold
  <2>1. CASE t = s /\ a \in Named(ids)
    BY <1>2, <2>1, NamedMissed
  <2>2. CASE ~(t = s /\ a \in Named(ids))
    BY <1>0, <1>2, <2>2 DEF AllTold, MissedKept
  <2> QED BY <2>1, <2>2
<1>3. ASSUME NEW ids \in WriteLists, NEW op, NEW n, NEW fault, NEW plan \in PlansOf(clcb[s], op),
             ApplyWrite(s, op, ids, n, fault, plan)
      PROVE  AllTold'
  <2>1. Counted(ids, n) \subseteq Named(ids) /\ MissUncounted(s, ids, n)
    BY <1>3 DEF Counted, Named, ApplyWrite
  <2>2. \A a \in Counted(ids, n) : told'[s][a] = ase'[s][a].state
    BY <1>3, <2>1, AppliedStates
  <2>3. \A t \in Slots, a \in Ases : ~(t = s /\ a \in Named(ids)) =>
          ase'[t][a] = ase[t][a] /\ told'[t][a] = told[t][a]
    BY <1>3, WriteTellsOthers
  <2> QED BY <1>2, <2>1, <2>2, <2>3
<1>4. ASSUME NEW ids \in WriteLists, NEW n, NEW res, ApplyStartReady(s, ids, n, res)
      PROVE  AllTold'
  <2>1. Counted(ids, n) \subseteq Named(ids) /\ MissUncounted(s, ids, n)
    BY <1>4 DEF Counted, Named, ApplyStartReady
  <2>2. \A a \in Counted(ids, n) : told'[s][a] = ase'[s][a].state
    BY <1>4, <2>1, StartedStates
  <2>3. \A t \in Slots, a \in Ases : ~(t = s /\ a \in Named(ids)) =>
          ase'[t][a] = ase[t][a] /\ told'[t][a] = told[t][a]
    BY <1>4, WriteTellsOthers
  <2> QED BY <1>2, <2>1, <2>2, <2>3
<1> QED BY <1>1, <1>3, <1>4 DEF ControlPointWrite

LEMMA IsoToldStep ==
  ASSUME BaseInv, OneClient, AllTold, Iso
  PROVE  AllTold'
<1>0. TypeOK /\ missed' = missed
  BY IsoMissesNone DEF BaseInv
<1>1. ASSUME NEW c \in Clients, NEW id \in CisIds, NEW h \in Handles, CisRequest(c, id, h)
      PROVE  AllTold'
  <2>1. GivesHandle(h, id) /\ told' = told
    BY <1>0, <1>1, CisRequestMoves DEF CisRequest
  <2> QED BY <1>0, <2>1 DEF GivesHandle, AllTold
<1>2. ASSUME NEW h \in Handles, NEW res, CisEstablished(h, res)
      PROVE  AllTold'
  <2>1. told' = told
    BY <1>2 DEF CisEstablished
  <2>2. GivesHandle(h, cis[h].id)
    BY <1>0, <1>2, CisEstablishedMoves
  <2> QED BY <1>0, <2>1, <2>2 DEF GivesHandle, AllTold
<1>3. ASSUME NEW h \in Handles, CisDisconnected(h)
      PROVE  AllTold'
  BY <1>0, <1>3, DisconnectedTells DEF AllTold
<1>4. ASSUME NEW p \in setups, DataPathSetup(p)
      PROVE  AllTold'
  BY <1>0, <1>4, SetupTells DEF AllTold
<1>5. CASE (\E h \in Handles : CisFailed(h)) \/ \E p \in setups : DataPathFailed(p)
  BY <1>5 DEF CisFailed, DataPathFailed, AllTold
<1> QED BY <1>1, <1>2, <1>3, <1>4, <1>5 DEF Iso

LEMMA ToldStep ==
  ASSUME BaseInv, OneClient, AllTold, [Next]_vars
  PROVE  AllTold'
<1>0. TypeOK
  BY DEF BaseInv
<1>1. CASE Link
  <2>1. PICK s \in Slots : LinkResets(s)
    BY <1>0, <1>1, LinkMoves
  <2> QED BY <2>1 DEF LinkResets, BlankAse, AllTold
<1>2. CASE UNCHANGED vars
  BY <1>2 DEF vars, AllTold
<1> QED BY <1>0, <1>1, <1>2, IsoToldStep, WriteToldStep DEF Next

ToldInv == BaseInv /\ AllTold

LEMMA ToldAlways == ASSUME OneClient PROVE Spec => []ToldInv
<1>1. Init => ToldInv
  BY InitBase DEF Init, ToldInv, AllTold, BlankAse
<1>2. ToldInv /\ [Next]_vars => ToldInv'
  BY BaseStep, ToldStep DEF ToldInv
<1> QED BY <1>1, <1>2, PTL DEF Spec

\* A headset with one central tells it of every state that the ASEs its writes counted
\* take, whether a write, the loss of a CIS or a data path brought it.
THEOREM ToldWhatIs == ASSUME OneClient PROVE Spec => []ToldCurrentState
<1>1. ToldInv => ToldCurrentState
  BY DEF ToldInv, AllTold, ToldCurrentState
<1> QED BY <1>1, ToldAlways, PTL
-----------------------------------------------------------------------------
(* The life cycle a client sees                                                *)

\* What Lifecycle is given for its variables
ConnectedNow == {c \in Clients : Counting(c)}

ViewNow == [c \in Clients |-> IF Counting(c) THEN told[Session(c)] ELSE [a \in Ases |-> "idle"]]

\* The block of a client whose writes have counted their ASEs
Seeing(s) == clcb[s] \in Clients /\ missed[s] = {}

\* The block of a client is the one there is.
LEMMA ChosenSlot ==
  ASSUME NEW f, NEW c, NEW s \in Slots, f[s] = c, \A t \in Slots : f[t] = c => t = s
  PROVE  {t \in Slots : f[t] = c} = {s} /\ (CHOOSE t \in {u \in Slots : f[u] = c} : TRUE) = s
<1>1. {t \in Slots : f[t] = c} = {s}
  OBVIOUS
<1> QED BY <1>1

LEMMA ViewOf ==
  ASSUME BaseInv, NEW s \in Slots, NEW c \in Clients, clcb[s] = c, missed[s] = {}
  PROVE  c \in ConnectedNow /\ ViewNow[c] = told[s]
<1>1. \A t \in Slots : clcb[t] = c => t = s
  BY DEF BaseInv, SlotsApart
<1>2. Clcb(c) = {s} /\ (CHOOSE t \in Clcb(c) : TRUE) = s
  BY <1>1, ChosenSlot DEF Clcb
<1>3. Counting(c) /\ Session(c) = s
  BY <1>2 DEF Counting, Connected, Session
<1> QED BY <1>3 DEF ConnectedNow, ViewNow

\* The same after a step
LEMMA ViewOfAfter ==
  ASSUME BaseInv', NEW s \in Slots, NEW c \in Clients, clcb'[s] = c, missed'[s] = {}
  PROVE  c \in ConnectedNow' /\ ViewNow'[c] = told'[s]
<1>1. \A t \in Slots : clcb'[t] = c => t = s
  BY DEF BaseInv, SlotsApart
<1>2. Clcb(c)' = {s} /\ (CHOOSE t \in Clcb(c)' : TRUE) = s
  BY <1>1, ChosenSlot DEF Clcb
<1>3. Counting(c)' /\ Session(c)' = s
  BY <1>2 DEF Counting, Connected, Session
<1> QED BY <1>3 DEF ConnectedNow, ViewNow

\* With one client there is one view.
LEMMA SeenBefore ==
  ASSUME BaseInv, OneClient, NEW s \in Slots, NEW c \in Clients, clcb[s] = c, missed[s] = {}
  PROVE  Clients = {c} /\ ConnectedNow = {c} /\ ViewNow = [d \in {c} |-> told[s]]
<1>1. Clients = {c}
  BY DEF OneClient
<1>2. c \in ConnectedNow /\ ViewNow[c] = told[s]
  BY ViewOf
<1>3. ConnectedNow = {c}
  BY <1>1, <1>2 DEF ConnectedNow
<1>4. ViewNow = [d \in {c} |-> ViewNow[d]]
  BY <1>1 DEF ViewNow
<1> QED BY <1>1, <1>2, <1>3, <1>4

LEMMA SeenAfter ==
  ASSUME BaseInv', OneClient, NEW s \in Slots, NEW c \in Clients, clcb'[s] = c, missed'[s] = {}
  PROVE  ConnectedNow' = {c} /\ ViewNow' = [d \in {c} |-> told'[s]]
<1>1. Clients = {c}
  BY DEF OneClient
<1>2. c \in ConnectedNow' /\ ViewNow'[c] = told'[s]
  BY ViewOfAfter
<1>3. ConnectedNow' = {c}
  BY <1>1, <1>2 DEF ConnectedNow
<1>4. ViewNow' = [d \in {c} |-> ViewNow'[d]]
  BY <1>1 DEF ViewNow
<1> QED BY <1>1, <1>2, <1>3, <1>4

\* A client that counts has a block that sees.
LEMMA CountingSees ==
  ASSUME NEW c \in Clients, Counting(c)
  PROVE  \E s \in Slots : Seeing(s)
<1>1. Clcb(c) # {} /\ missed[Session(c)] = {}
  BY DEF Counting, Connected
<1>2. Session(c) \in Clcb(c)
  <2>1. (CHOOSE t \in Clcb(c) : TRUE) \in Clcb(c)
    BY <1>1
  <2> QED BY <1>1, <2>1 DEF Session, Connected
<1> QED BY <1>1, <1>2 DEF Clcb, Seeing

LEMMA CountingSeesAfter ==
  ASSUME NEW c \in Clients, Counting(c)'
  PROVE  \E s \in Slots : Seeing(s)'
<1>1. Clcb(c)' # {} /\ missed'[Session(c)'] = {}
  BY DEF Counting, Connected
<1>2. Session(c)' \in Clcb(c)'
  <2>1. (CHOOSE t \in Clcb(c)' : TRUE) \in Clcb(c)'
    BY <1>1
  <2> QED BY <1>1, <2>1 DEF Session, Connected
<1> QED BY <1>1, <1>2 DEF Clcb, Seeing

LEMMA NoneSeen ==
  ASSUME \A s \in Slots : ~Seeing(s)
  PROVE  ConnectedNow = {} /\ ViewNow = [c \in Clients |-> [a \in Ases |-> "idle"]]
<1>1. \A c \in Clients : ~Counting(c)
  BY CountingSees
<1> QED BY <1>1 DEF ConnectedNow, ViewNow

LEMMA NoneSeenAfter ==
  ASSUME \A s \in Slots : ~Seeing(s)'
  PROVE  ConnectedNow' = {} /\ ViewNow' = [c \in Clients |-> [a \in Ases |-> "idle"]]
<1>1. \A c \in Clients : ~Counting(c)'
  BY CountingSeesAfter
<1> QED BY <1>1 DEF ConnectedNow, ViewNow

\* Steps that nobody sees
LEMMA NothingSeen ==
  ASSUME \A s \in Slots : ~Seeing(s) /\ ~Seeing(s)'
  PROVE  UNCHANGED <<ConnectedNow, ViewNow>>
BY NoneSeen, NoneSeenAfter

LEMMA NothingTold ==
  ASSUME told' = told, clcb' = clcb, missed' = missed
  PROVE  UNCHANGED <<ConnectedNow, ViewNow>>
BY DEF ConnectedNow, ViewNow, Counting, Connected, Clcb, Session

\* The steps of the life cycle
\* The only client disconnects, or stops to count.
LEMMA LeavesTheView ==
  ASSUME BaseInv, OneClient, NEW s \in Slots, clcb[s] \in Clients, missed[s] = {},
         \A t \in Slots : ~Seeing(t)'
  PROVE  \E c \in Clients : Lifecycle!Disconnect(c)
<1> DEFINE c == clcb[s]
<1>1. c \in Clients
  OBVIOUS
<1> HIDE DEF c
<1>2. Clients = {c} /\ ConnectedNow = {c} /\ ViewNow = [d \in {c} |-> told[s]]
  BY <1>1, SeenBefore DEF c
<1>3. ConnectedNow' = {} /\ ViewNow' = [d \in Clients |-> [a \in Ases |-> "idle"]]
  BY NoneSeenAfter
<1>4. /\ c \in ConnectedNow /\ ConnectedNow' = ConnectedNow \ {c}
      /\ ViewNow' = [ViewNow EXCEPT ![c] = [a \in Ases |-> "idle"]]
  BY <1>2, <1>3
<1>5. Lifecycle!Disconnect(c)
  BY <1>4 DEF Lifecycle!Disconnect, Lifecycle!AllIdle, Lifecycle!Ases, Ases, ConnectedNow, ViewNow
<1> QED BY <1>1, <1>5

LEMMA LinkRefines ==
  ASSUME ToldInv, ToldInv', OneClient, Link
  PROVE  Lifecycle!Next \/ UNCHANGED <<ConnectedNow, ViewNow>>
<1>0. BaseInv /\ BaseInv' /\ TypeOK
  BY DEF ToldInv, BaseInv
<1>1. ASSUME NEW c \in Clients, NEW s \in Slots, GattConnected(c, s)
      PROVE  Lifecycle!Connect(c)
  <2>1. Clients = {c} /\ clcb'[s] = c /\ missed'[s] = {} /\ \A t \in Slots : clcb[t] \notin Clients
    BY <1>0, <1>1 DEF OneClient, GattConnected, Connected, Clcb, TypeOK
  <2>2. told'[s] = [a \in Ases |-> "idle"]
    BY <1>0, <1>1 DEF GattConnected, Reset, TypeOK
  <2>3. ConnectedNow = {} /\ ViewNow = [d \in {c} |-> [a \in Ases |-> "idle"]]
    BY <2>1, NoneSeen DEF Seeing
  <2>4. ConnectedNow' = {c} /\ ViewNow' = [d \in {c} |-> [a \in Ases |-> "idle"]]
    BY <1>0, <2>1, <2>2, SeenAfter
  <2>5. /\ c \notin ConnectedNow /\ ConnectedNow' = ConnectedNow \cup {c}
        /\ ViewNow' = [ViewNow EXCEPT ![c] = [a \in Ases |-> "idle"]]
    BY <2>3, <2>4
  <2> QED BY <2>5 DEF Lifecycle!Connect, Lifecycle!AllIdle, Lifecycle!Ases, Ases, ConnectedNow, ViewNow
<1>2. ASSUME NEW s \in Slots, GattDisconnected(s)
      PROVE  (\E c \in Clients : Lifecycle!Disconnect(c)) \/ UNCHANGED <<ConnectedNow, ViewNow>>
  <2>1. clcb[s] \in Clients /\ \A t \in Slots : clcb'[t] \notin Clients
    <3>1. clcb' = [clcb EXCEPT ![s] = NoClient] /\ clcb[s] \in Clients
      BY <1>2 DEF GattDisconnected
    <3>2. \A t \in Slots : clcb[t] \in Clients => t = s
      BY <1>0, <3>1, OneInUse
    <3> QED BY <1>0, <3>1, <3>2, ConstantsAssumption DEF TypeOK
  <2>2. CASE missed[s] = {}
    BY <1>0, <2>1, <2>2, LeavesTheView DEF Seeing
  <2>3. CASE missed[s] # {}
    <3>1. \A t \in Slots : ~Seeing(t) /\ ~Seeing(t)'
      BY <1>0, <2>1, <2>3, OneInUse DEF Seeing
    <3> QED BY <3>1, NothingSeen
  <2> QED BY <2>2, <2>3
<1> QED BY <1>1, <1>2 DEF Link, Lifecycle!Next

\* An operation of the only client
LEMMA OperateRefines ==
  ASSUME ToldInv, ToldInv', OneClient, NEW s \in Slots, clcb[s] \in Clients, clcb' = clcb,
         missed[s] = {}, missed'[s] = {}, NEW op \in Opcodes, NEW named \in SUBSET Ases,
         \A a \in named : /\ told[s][a] \in AcceptedIn(op)
                          /\ \/ told'[s][a] \in {told[s][a], NextState(a \in SinkAses, told[s][a], op)}
                             \/ /\ NextState(a \in SinkAses, told[s][a], op) = "releasing"
                                /\ told'[s][a] = "idle"
                             \/ /\ NextState(a \in SinkAses, told[s][a], op) = "disabling"
                                /\ told'[s][a] = "qos",
         \A a \in Ases \ named : told'[s][a] = told[s][a]
  PROVE  Lifecycle!Next
<1> DEFINE c == clcb[s]
<1>0. BaseInv /\ BaseInv' /\ TypeOK' /\ c \in Clients
  BY DEF ToldInv, BaseInv
<1> HIDE DEF c
<1>1. Clients = {c} /\ ConnectedNow = {c} /\ ViewNow = [d \in {c} |-> told[s]]
  BY <1>0, SeenBefore DEF c
<1>2. ConnectedNow' = {c} /\ ViewNow' = [d \in {c} |-> told'[s]]
  BY <1>0, SeenAfter DEF c
<1>3. told'[s] \in [Ases -> AseStates]
  BY <1>0 DEF TypeOK
<1>4. /\ c \in ConnectedNow /\ ConnectedNow' = ConnectedNow
      /\ ViewNow' \in [Clients -> [Ases -> AseStates]]
      /\ \A d \in Clients \ {c} : ViewNow'[d] = ViewNow[d]
      /\ ViewNow[c] = told[s] /\ ViewNow'[c] = told'[s]
  BY <1>1, <1>2, <1>3
<1>5. Lifecycle!Operate(c, op, named)
  <2>1. \A a \in named : ViewNow[c][a] \in AcceptedIn(op)
    BY <1>4
  <2>2. \A a \in Ases : ViewNow'[c][a] \in
          (IF a \in named THEN Lifecycle!After(a, ViewNow[c][a], op) ELSE {}) \cup {ViewNow[c][a]}
    BY <1>4 DEF Lifecycle!After, NextState, Lifecycle!NextState
  <2> QED BY <1>4, <2>1, <2>2
        DEF Lifecycle!Operate, Lifecycle!Ases, Ases, Lifecycle!AseStates, AseStates,
            Lifecycle!AcceptedIn, AcceptedIn, ConnectedNow, ViewNow
<1> QED BY <1>0, <1>5 DEF Lifecycle!Next, Lifecycle!Opcodes, Opcodes, Lifecycle!Ases, Ases

LEMMA CountedWriteRefines ==
  ASSUME ToldInv, ToldInv', OneClient, NEW s \in Slots, clcb[s] \in Clients, ControlPointWrite(s),
         missed[s] = {}, missed'[s] = {}
  PROVE  Lifecycle!Next \/ UNCHANGED <<ConnectedNow, ViewNow>>
<1>0. TypeOK /\ TypeOK' /\ AllTold /\ AllTold'
  BY DEF ToldInv, BaseInv
<1>1. \A a \in Ases : told[s][a] = ase[s][a].state /\ told'[s][a] = ase'[s][a].state
  BY <1>0 DEF AllTold
<1>2. ASSUME NEW ids \in WriteLists, NEW op, NEW fault, NEW plan, RejectWrite(s, op, ids, fault, plan)
      PROVE  UNCHANGED <<ConnectedNow, ViewNow>>
  BY <1>2, NothingTold DEF RejectWrite
<1>3. ASSUME NEW ids \in WriteLists, NEW op \in Opcodes, NEW n, NEW fault, NEW plan \in PlansOf(clcb[s], op),
             ApplyWrite(s, op, ids, n, fault, plan)
      PROVE  Lifecycle!Next
  <2>1. Named(ids) \in SUBSET Ases /\ clcb' = clcb
    BY <1>3, ReachedAses DEF ApplyWrite
  <2>2. ASSUME NEW a \in Named(ids)
        PROVE  /\ told[s][a] \in AcceptedIn(op)
               /\ \/ told'[s][a] \in {told[s][a], NextState(a \in SinkAses, told[s][a], op)}
                  \/ /\ NextState(a \in SinkAses, told[s][a], op) = "releasing"
                     /\ told'[s][a] = "idle"
                  \/ /\ NextState(a \in SinkAses, told[s][a], op) = "disabling"
                     /\ told'[s][a] = "qos"
    <3>1. told[s][a] = ase[s][a].state /\ told'[s][a] = ase'[s][a].state
      BY <1>1, <2>1
    <3> QED BY <1>0, <1>3, <3>1, AppliedStates
  <2>3. \A a \in Ases \ Named(ids) : told'[s][a] = told[s][a]
    BY <1>0, <1>3, WriteTellsOthers
  <2> QED BY <2>1, <2>2, <2>3, OperateRefines
<1>4. ASSUME NEW ids \in WriteLists, NEW n, NEW res, ApplyStartReady(s, ids, n, res)
      PROVE  Lifecycle!Next
  <2> DEFINE op == "receiver_start_ready"
  <2>1. Named(ids) \in SUBSET Ases /\ clcb' = clcb /\ op \in Opcodes
    BY <1>4, ReachedAses DEF ApplyStartReady, Opcodes
  <2>2. ASSUME NEW a \in Named(ids)
        PROVE  /\ told[s][a] \in AcceptedIn(op)
               /\ told'[s][a] \in {told[s][a], NextState(a \in SinkAses, told[s][a], op)}
    <3>1. told[s][a] = ase[s][a].state /\ told'[s][a] = ase'[s][a].state
      BY <1>1, <2>1
    <3>2. NextState(a \in SinkAses, told[s][a], op) = "streaming"
      BY DEF NextState
    <3> QED BY <1>0, <1>4, <3>1, <3>2, StartedStates
  <2>3. \A a \in Ases \ Named(ids) : told'[s][a] = told[s][a]
    BY <1>0, <1>4, WriteTellsOthers
  <2> HIDE DEF op
  <2> QED BY <2>1, <2>2, <2>3, OperateRefines
<1> QED BY <1>2, <1>3, <1>4 DEF ControlPointWrite

\* A client that does not count the ASEs of a write is out of the view from then on.
LEMMA WriteRefines ==
  ASSUME ToldInv, ToldInv', OneClient, NEW s \in Slots, clcb[s] \in Clients, ControlPointWrite(s)
  PROVE  Lifecycle!Next \/ UNCHANGED <<ConnectedNow, ViewNow>>
<1>0. BaseInv /\ TypeOK /\ missed[s] \subseteq missed'[s] /\ clcb' = clcb
  BY WriteMovesAll DEF ToldInv, BaseInv, MissedKept
<1>1. \A t \in Slots : clcb'[t] \in Clients => t = s
  BY <1>0, OneInUse
<1>2. CASE missed'[s] = {}
  BY <1>0, <1>2, CountedWriteRefines
<1>3. CASE missed'[s] # {} /\ missed[s] = {}
  <2>1. \A t \in Slots : ~Seeing(t)'
    BY <1>1, <1>3 DEF Seeing
  <2>2. \E c \in Clients : Lifecycle!Disconnect(c)
    BY <1>0, <1>3, <2>1, LeavesTheView
  <2> QED BY <2>2 DEF Lifecycle!Next
<1>4. CASE missed'[s] # {} /\ missed[s] # {}
  <2>1. \A t \in Slots : ~Seeing(t) /\ ~Seeing(t)'
    BY <1>0, <1>1, <1>4 DEF Seeing
  <2> QED BY <2>1, NothingSeen
<1> QED BY <1>2, <1>3, <1>4

LEMMA DisconnectedRefines ==
  ASSUME ToldInv, ToldInv', OneClient, NEW h \in Handles, CisDisconnected(h)
  PROVE  Lifecycle!Next \/ UNCHANGED <<ConnectedNow, ViewNow>>
<1>0. BaseInv /\ BaseInv' /\ TypeOK /\ TypeOK' /\ clcb' = clcb /\ missed' = missed
  BY DEF ToldInv, BaseInv, CisDisconnected
<1> DEFINE places(dir) == lehs_find_ase_with_cis_id(cis[h].id, dir)
<1>1. ASSUME NEW s \in Slots, clcb[s] \in Clients, missed[s] = {}
      PROVE  Lifecycle!Next
  <2> DEFINE c == clcb[s]
             sinks   == {a \in SinkAses : <<s, a>> \in places(SinkAses)}
             sources == {a \in SourceAses : <<s, a>> \in places(SourceAses)}
  <2>1. (\A a, b \in sinks : a = b) /\ (\A a, b \in sources : a = b)
    <3>1. \A a, b : \A dir \in {SinkAses, SourceAses} :
            <<s, a>> \in places(dir) /\ <<s, b>> \in places(dir) => <<s, a>> = <<s, b>>
      BY FoundOnce
    <3> QED BY <3>1
  <2>2. ASSUME NEW a \in Ases
        PROVE  told'[s][a] = IF a \in sinks \cup sources THEN Lifecycle!Lost(a, told[s][a]) ELSE told[s][a]
    <3>1. /\ told[s][a] = ase[s][a].state /\ ase[s][a] \in AseData
          /\ \A dir : <<s, a>> \in places(dir) => a \in dir
      BY <1>0, <1>1, FoundMatch DEF ToldInv, AllTold, TypeOK, Matches
    <3>2. CASE a \in sinks
      <4>1. told'[s][a] = DroppedSink(ase[s][a]).state /\ a \in SinkAses
        BY <1>0, <3>1, <3>2, DisconnectedTells
      <4> HIDE DEF sinks, sources
      <4> QED BY <3>1, <3>2, <4>1, DroppedStates DEF Lifecycle!Lost, AseData, AseStates
    <3>3. CASE a \in sources
      <4>1. told'[s][a] = DroppedSource(ase[s][a]).state /\ a \notin SinkAses
        BY <1>0, <3>1, <3>3, DisconnectedTells, ConstantsAssumption
      <4> HIDE DEF sinks, sources
      <4> QED BY <3>1, <3>3, <4>1, DroppedStates DEF Lifecycle!Lost, AseData, AseStates
    <3>4. CASE a \notin sinks \cup sources
      <4>1. <<s, a>> \notin places(SinkAses) \cup places(SourceAses)
        BY <3>1, <3>4
      <4> QED BY <1>0, <3>1, <3>4, <4>1, DisconnectedTells
    <3> QED BY <3>2, <3>3, <3>4
  <2>3. c \in Clients /\ sinks \in SUBSET SinkAses /\ sources \in SUBSET SourceAses
    BY <1>1
  <2> HIDE DEF c, sinks, sources
  <2>4. Clients = {c} /\ ConnectedNow = {c} /\ ViewNow = [d \in {c} |-> told[s]]
    BY <1>0, <1>1, <2>3, SeenBefore DEF c
  <2>5. ConnectedNow' = {c} /\ ViewNow' = [d \in {c} |-> told'[s]]
    BY <1>0, <1>1, <2>3, SeenAfter DEF c
  <2>6. told'[s] = [a \in Ases |-> IF a \in sinks \cup sources THEN Lifecycle!Lost(a, told[s][a]) ELSE told[s][a]]
    BY <1>0, <2>2 DEF TypeOK
  <2>7. /\ c \in ConnectedNow /\ ConnectedNow' = ConnectedNow
        /\ ViewNow' = [ViewNow EXCEPT ![c] =
             [a \in Ases |-> IF a \in sinks \cup sources THEN Lifecycle!Lost(a, ViewNow[c][a]) ELSE ViewNow[c][a]]]
    <3> DEFINE lost == [a \in Ases |-> IF a \in sinks \cup sources THEN Lifecycle!Lost(a, ViewNow[c][a])
                                                                   ELSE ViewNow[c][a]]
    <3>1. ViewNow[c] = told[s]
      BY <2>4
    <3>2. told'[s] = lost
      BY <2>6, <3>1
    <3> HIDE DEF lost
    <3>3. /\ c \in ConnectedNow /\ ConnectedNow' = ConnectedNow
          /\ ViewNow' = [ViewNow EXCEPT ![c] = lost]
      BY <2>4, <2>5, <3>2
    <3> QED BY <3>3 DEF lost
  <2>8. Lifecycle!LoseCis(c, sinks, sources)
    BY <2>1, <2>7 DEF Lifecycle!LoseCis, Lifecycle!Ases, Ases, ConnectedNow, ViewNow
  <2> QED BY <2>3, <2>8 DEF Lifecycle!Next
<1>2. CASE \A s \in Slots : ~Seeing(s)
  BY <1>0, <1>2, NothingSeen DEF Seeing
<1> QED BY <1>1, <1>2 DEF Seeing

LEMMA SetupRefines ==
  ASSUME ToldInv, ToldInv', OneClient, NEW p \in setups, DataPathSetup(p)
  PROVE  Lifecycle!Next \/ UNCHANGED <<ConnectedNow, ViewNow>>
<1>0. /\ BaseInv /\ BaseInv' /\ TypeOK /\ TypeOK'
      /\ clcb' = clcb /\ missed' = missed /\ p.slot \in Slots /\ p.ase \in Ases
  BY DEF ToldInv, BaseInv, DataPathSetup, TypeOK, Setups
<1>1. CASE /\ ase[p.slot][p.ase].state = "enabling" /\ p.ase \in SinkAses
           /\ \A t \in Slots, a \in Ases :
                told'[t][a] = IF t = p.slot /\ a = p.ase THEN "streaming" ELSE told[t][a]
           /\ missed[p.slot] = {}
  <2> DEFINE s == p.slot
             b == p.ase
             c == clcb[s]
  <2>1. c \in Clients
    BY <1>0, <1>1, FoundInUse
  <2>2. /\ b \in SinkAses /\ told[s][b] = "enabling"
        /\ told'[s] = [told[s] EXCEPT ![b] = "streaming"]
    <3>1. told[s][b] = ase[s][b].state
      BY <1>0, <1>1 DEF ToldInv, AllTold
    <3>2. /\ told[s] \in [Ases -> AseStates] /\ told'[s] \in [Ases -> AseStates]
          /\ \A a \in Ases : told'[s][a] = IF a = b THEN "streaming" ELSE told[s][a]
      BY <1>0, <1>1 DEF TypeOK
    <3> QED BY <1>1, <3>1, <3>2
  <2> HIDE DEF s, b, c
  <2>3. Clients = {c} /\ ConnectedNow = {c} /\ ViewNow = [d \in {c} |-> told[s]]
    BY <1>0, <1>1, <2>1, SeenBefore DEF c, s
  <2>4. ConnectedNow' = {c} /\ ViewNow' = [d \in {c} |-> told'[s]]
    BY <1>0, <1>1, <2>1, SeenAfter DEF c, s
  <2>5. /\ c \in ConnectedNow /\ ConnectedNow' = ConnectedNow /\ ViewNow[c][b] = "enabling"
        /\ ViewNow' = [ViewNow EXCEPT ![c] = [@ EXCEPT ![b] = "streaming"]]
    BY <2>2, <2>3, <2>4
  <2>6. Lifecycle!StartSink(c, b)
    BY <2>2, <2>5 DEF Lifecycle!StartSink, ConnectedNow, ViewNow
  <2> QED BY <2>1, <2>2, <2>6 DEF Lifecycle!Next
<1>2. CASE \A t \in Slots, a \in Ases : told'[t][a] = told[t][a]
  <2>1. told' = told
    BY <1>0, <1>2 DEF TypeOK
  <2> QED BY <1>0, <2>1, NothingTold
<1>3. CASE ase[p.slot][p.ase].state = "enabling" /\ missed[p.slot] # {}
  <2>1. clcb[p.slot] \in Clients
    BY <1>0, <1>3, FoundInUse
  <2>2. \A t \in Slots : ~Seeing(t) /\ ~Seeing(t)'
    BY <1>0, <1>3, <2>1, OneInUse DEF Seeing
  <2> QED BY <2>2, NothingSeen
<1> QED BY <1>0, <1>1, <1>2, <1>3, SetupTells

LEMMA StepRefines ==
  ASSUME ToldInv, ToldInv', OneClient, [Next]_vars
  PROVE  [Lifecycle!Next]_<<ConnectedNow, ViewNow>>
<1>1. Iso => Lifecycle!Next \/ UNCHANGED <<ConnectedNow, ViewNow>>
  <2>1. ASSUME \/ \E c \in Clients, id \in CisIds, h \in Handles : CisRequest(c, id, h)
               \/ \E h \in Handles : CisFailed(h)
               \/ \E h \in Handles : \E res : CisEstablished(h, res)
               \/ \E p \in setups : DataPathFailed(p)
        PROVE  told' = told /\ clcb' = clcb /\ missed' = missed
    BY <2>1 DEF CisRequest, CisFailed, CisEstablished, DataPathFailed
  <2> QED BY <2>1, NothingTold, DisconnectedRefines, SetupRefines DEF Iso
<1>2. UNCHANGED vars => UNCHANGED <<ConnectedNow, ViewNow>>
  BY NothingTold DEF vars
<1> QED BY <1>1, <1>2, LinkRefines, WriteRefines DEF Next

\* What a headset with one central tells it of its ASEs follows the life cycle of an ASE
\* as AseLifecycle states it: every control point write, CIS event, data path event,
\* connection and disconnection is a step of it or changes nothing that is seen.  With
\* a write that does not count its ASEs the promise ends for that connection.
THEOREM ImplementsLifecycle == ASSUME OneClient PROVE Spec => FollowsLifecycle
<1>1. ToldInv /\ ToldInv' /\ [Next]_vars => [Lifecycle!Next]_<<ConnectedNow, ViewNow>>
  BY StepRefines
<1>2. Init => Lifecycle!Init
  <2>1. Init => \A s \in Slots : ~Seeing(s)
    BY ConstantsAssumption DEF Init, Seeing
  <2> QED BY <2>1, NoneSeen DEF Lifecycle!Init, Lifecycle!AllIdle, Lifecycle!Ases, Ases, ConnectedNow, ViewNow
<1>3. Lifecycle!Init /\ [][Lifecycle!Next]_<<ConnectedNow, ViewNow>> => FollowsLifecycle
  BY PTL DEF FollowsLifecycle, Lifecycle!Spec, ConnectedNow, ViewNow
<1> QED BY <1>1, <1>2, <1>3, ToldAlways, PTL DEF Spec
-----------------------------------------------------------------------------
(* The codec runs for an active ASE                                            *)

\* The client may use one CIS only.
OneCis == \A c \in Clients, i, j \in CisIds : MayUse(c, i) /\ MayUse(c, j) => i = j

Active == \E s \in Slots, a \in Ases : ase[s][a].state \in {"enabling", "streaming"}

\* Data paths are asked for on CISes that are up.
SetupsUp == \A p \in setups : IsCisConnected(p.handle)

\* An audio stream that was opened for an active ASE is closed with the last one.  One
\* that a disconnection leaves open has no data path to start it.
StreamOfActive ==
  /\ audio # "closed" => Active \/ (audio = "open" /\ setups = {})
  /\ audio = "running" => UpHandles # {}

AudioInv == BaseInv /\ CoupledAseHasQos /\ SetupsUp /\ StreamOfActive

LEMMA OneClientIds ==
  ASSUME OneClient
  PROVE  DistinctIds
BY DEF OneClient, DistinctIds

\* Where no ASE moves but to and from other states, those that are active stay so.
LEMMA ActiveKept ==
  ASSUME Active,
         \A t \in Slots, a \in Ases : ase[t][a].state \in {"enabling", "streaming"} =>
           ase'[t][a].state \in {"enabling", "streaming"}
  PROVE  Active'
BY DEF Active

LEMMA WriteAudio ==
  ASSUME AudioInv, NEW s \in Slots, clcb[s] \in Clients, ControlPointWrite(s)
  PROVE  SetupsUp' /\ StreamOfActive'
<1>0. TypeOK /\ SetupsUp /\ StreamOfActive
  BY DEF AudioInv, BaseInv
<1>1. \A h \in Handles : cis'[h].up = cis[h].up
  BY <1>0, WriteMovesAll DEF WriteKeepsCises
<1>2. (\A p : IsCisConnected(p.handle) => IsCisConnected(p.handle)') /\ UpHandles' = UpHandles
  BY <1>1 DEF IsCisConnected, UpHandles
<1>3. ASSUME NEW ids \in WriteLists, NEW op, NEW fault, NEW plan \in PlansOf(clcb[s], op),
             RejectWrite(s, op, ids, fault, plan)
      PROVE  SetupsUp' /\ StreamOfActive'
  <2>1. \A t \in Slots, a \in Ases : ase'[t][a].state = ase[t][a].state
    <3> SUFFICES ASSUME NEW t \in Slots, NEW a \in Ases PROVE ase'[t][a].state = ase[t][a].state
      OBVIOUS
    <3>1. ase[t][a] \in AseData /\ ase'[t][a] \in {ase[t][a], WithQos(s, ase[t][a], plan[a])}
      BY <1>0, <1>3 DEF RejectWrite, TypeOK
    <3> QED BY <3>1 DEF WithQos, AseData
  <2>2. audio' = audio /\ setups' = setups
    BY <1>3 DEF RejectWrite
  <2>3. Active => Active'
    BY <2>1, ActiveKept
  <2> QED BY <1>0, <1>2, <2>2, <2>3 DEF SetupsUp, StreamOfActive
<1>4. ASSUME NEW ids \in WriteLists, NEW op, NEW n, NEW fault, NEW plan \in PlansOf(clcb[s], op),
             ApplyWrite(s, op, ids, n, fault, plan)
      PROVE  SetupsUp' /\ StreamOfActive'
  <2>1. setups' = setups
    BY <1>4 DEF ApplyWrite
  <2>2. CASE op \in {"disable", "release"} /\ Named(ids) # {}
    <3>1. audio' = "closed"
      BY <1>4, <2>2 DEF ApplyWrite
    <3>2. SetupsUp'
      BY <1>0, <1>2, <2>1 DEF SetupsUp
    <3> QED BY <3>1, <3>2 DEF StreamOfActive
  <2>3. CASE ~(op \in {"disable", "release"} /\ Named(ids) # {})
    <3>1. audio' = audio
      BY <1>4, <2>3 DEF ApplyWrite
    <3>2. ASSUME NEW t \in Slots, NEW a \in Ases, ase[t][a].state \in {"enabling", "streaming"}
          PROVE  ase'[t][a].state \in {"enabling", "streaming"}
      <4>1. CASE ~(t = s /\ a \in Named(ids))
        <5>1. ase'[t][a] = ase[t][a]
          BY <1>0, <1>4, <4>1, WriteTellsOthers
        <5> QED BY <3>2, <5>1
      <4>2. CASE t = s /\ a \in Named(ids)
        <5> DEFINE next == NextState(a \in SinkAses, ase[s][a].state, op)
        <5>1. /\ ase[s][a].state \in AcceptedIn(op)
              /\ \/ ase'[s][a].state \in {ase[s][a].state, next}
                 \/ next \in {"releasing", "disabling"}
          BY <1>0, <1>4, <4>2, AppliedStates
        <5>2. op \notin {"disable", "release"} /\ op # "receiver_start_ready"
          BY <1>4, <2>3, <4>2 DEF ApplyWrite
        <5>3. op = "update_metadata" /\ next = ase[s][a].state
          BY <3>2, <4>2, <5>1, <5>2 DEF AcceptedIn, NextState
        <5> QED BY <3>2, <4>2, <5>1, <5>3
      <4> QED BY <4>1, <4>2
    <3>3. Active => Active'
      BY <3>2, ActiveKept
    <3> QED BY <1>0, <1>2, <2>1, <3>1, <3>3 DEF SetupsUp, StreamOfActive
  <2> QED BY <2>2, <2>3
<1>5. ASSUME NEW ids \in WriteLists, NEW n, NEW res, ApplyStartReady(s, ids, n, res)
      PROVE  SetupsUp' /\ StreamOfActive'
  <2> DEFINE new == {[slot |-> s, ase |-> a, handle |-> ase[s][a].handle] :
                       a \in {b \in Started(ids, res) : IsCisConnected(ase[s][b].handle)}}
  <2>1. /\ setups' = setups \cup new
        /\ audio' = audio \/ (audio' = "open" /\ \E a \in Tried(ids, res) : res[a] # "refused")
    BY <1>5 DEF ApplyStartReady
  <2>2. \A p \in new : IsCisConnected(p.handle) /\ \E a \in Started(ids, res) : TRUE
    OBVIOUS
  <2> HIDE DEF new
  <2>3. Tried(ids, res) \subseteq Named(ids) /\ Started(ids, res) \subseteq Named(ids) /\ Named(ids) \subseteq Ases
    BY ReachedAses DEF Tried, Started, Named
  <2>4. ASSUME NEW t \in Slots, NEW a \in Ases, ase[t][a].state \in {"enabling", "streaming"}
        PROVE  ase'[t][a].state \in {"enabling", "streaming"}
    <3>1. CASE ~(t = s /\ a \in Named(ids))
      <4>1. ase'[t][a] = ase[t][a]
        BY <1>0, <1>5, <3>1, WriteTellsOthers
      <4> QED BY <2>4, <4>1
    <3>2. CASE t = s /\ a \in Named(ids)
      BY <1>0, <1>5, <2>4, <3>2, StartedStates
    <3> QED BY <3>1, <3>2
  <2>5. \A a \in Named(ids) : ase[s][a].state = "enabling"
    BY <1>5 DEF ApplyStartReady, AcceptedIn
  <2>6. Named(ids) # {} => Active
    BY <2>3, <2>5 DEF Active
  <2>7. Active => Active'
    BY <2>4, ActiveKept
  <2>8. new # {} \/ audio' # audio => Active'
    BY <2>1, <2>2, <2>3, <2>6, <2>7
  <2> QED BY <1>0, <1>2, <2>1, <2>2, <2>7, <2>8 DEF SetupsUp, StreamOfActive
<1> QED BY <1>3, <1>4, <1>5 DEF ControlPointWrite

LEMMA EstablishedAudio ==
  ASSUME AudioInv, NEW h \in Handles, NEW res, CisEstablished(h, res)
  PROVE  SetupsUp' /\ StreamOfActive'
<1> DEFINE sinks   == lehs_find_ase_with_cis_id(cis[h].id, SinkAses)
           sources == lehs_find_ase_with_cis_id(cis[h].id, SourceAses)
           asking  == AwaitingCis(sinks, sources)
           new == {[slot |-> p[1], ase |-> p[2], handle |-> h] : p \in {q \in asking : res[q[2]] = "ok"}}
<1>0. TypeOK /\ SetupsUp /\ StreamOfActive
  BY DEF AudioInv, BaseInv
<1>1. /\ GivesHandle(h, cis[h].id) /\ cis'[h].up
      /\ \A k \in Handles \ {h} : cis'[k] = cis[k]
  BY <1>0, CisEstablishedMoves DEF OtherCises
<1>2. /\ setups' = setups \cup new
      /\ audio' = audio \/ (audio' = "open" /\ asking # {})
  BY DEF CisEstablished
<1>3. (\A p \in new : p.handle = h) /\ (new # {} => asking # {})
  OBVIOUS
<1>4. asking # {} => Active
  <2>1. \A q \in sinks \cup sources : q[1] \in Slots /\ q[2] \in Ases
    BY FoundMatch DEF Matches, Ases
  <2>2. \A q \in asking : q \in sinks \cup sources /\ ase[q[1]][q[2]].state \in {"enabling", "streaming"}
    BY DEF AwaitingCis
  <2> HIDE DEF sinks, sources, asking
  <2> QED BY <2>1, <2>2 DEF Active
<1> HIDE DEF sinks, sources, asking, new
<1>5. Active => Active'
  BY <1>1, ActiveKept DEF GivesHandle
<1>6. UpHandles \subseteq UpHandles' /\ \A p : IsCisConnected(p.handle) => IsCisConnected(p.handle)'
  BY <1>1 DEF UpHandles, IsCisConnected
<1>7. IsCisConnected(h)'
  BY <1>1 DEF IsCisConnected
<1> QED BY <1>0, <1>2, <1>3, <1>4, <1>5, <1>6, <1>7 DEF SetupsUp, StreamOfActive

\* A CIS that is lost is the one of the active ASE, which is found.
LEMMA DisconnectedAudio ==
  ASSUME AudioInv, OneClient, OneCis, OneAsePerDirection, NEW h \in Handles, CisDisconnected(h)
  PROVE  SetupsUp' /\ StreamOfActive'
<1> DEFINE sinks   == lehs_find_ase_with_cis_id(cis[h].id, SinkAses)
           sources == lehs_find_ase_with_cis_id(cis[h].id, SourceAses)
<1>0. TypeOK /\ BaseInv /\ SetupsUp /\ StreamOfActive /\ CoupledAseHasQos /\ IdsPlanned
  BY DEF AudioInv, BaseInv
<1>1. /\ \A k \in Handles \ {h} : cis'[k] = cis[k]
      /\ cis[h].up /\ cis[h].client \in Clients
  BY <1>0, CisDisconnectedMoves, UpOfClient DEF OtherCises, FreeCis
<1>2. /\ setups' = {p \in setups : p.handle # h}
      /\ audio' = IF sinks \cup sources # {} THEN "closed" ELSE audio
  BY DEF CisDisconnected, AudioAfterLoss
<1>3. SetupsUp'
  BY <1>0, <1>1, <1>2 DEF SetupsUp, IsCisConnected
<1>4. ASSUME Active
      PROVE  sinks \cup sources # {}
  <2>1. PICK s \in Slots, a \in Ases : ase[s][a].state \in {"enabling", "streaming"}
    BY <1>4 DEF Active
  <2>2. ase[s][a].id \in CisIds /\ clcb[s] \in Clients /\ ase[s][a].state \in AtLeastQos
    BY <1>0, <2>1, FoundInUse DEF CoupledAseHasQos, AtLeastQos
  <2>3. MayUse(clcb[s], ase[s][a].id)
    BY <1>0, <2>2, ConstantsAssumption DEF IdsPlanned, MayUse, PlanUses
  <2>4. cis[h].id \in CisIds /\ MayUse(cis[h].client, cis[h].id) /\ clcb[s] = cis[h].client
    BY <1>0, <1>1, <2>2 DEF BaseInv, CisesOwned, FreeCis, OneClient
  <2>5. ase[s][a].id = cis[h].id
    BY <2>2, <2>3, <2>4 DEF OneCis
  <2>6. \E dir \in {SinkAses, SourceAses} : <<s, a>> \in lehs_find_ase_with_cis_id(cis[h].id, dir)
    BY <1>0, <1>1, <2>2, <2>5, OneClientIds, MatchIsFound
  <2> QED BY <2>6
<1>5. CASE sinks \cup sources # {}
  BY <1>2, <1>3, <1>5 DEF StreamOfActive
<1>6. CASE sinks \cup sources = {}
  <2>1. ~Active /\ audio' = audio
    BY <1>2, <1>4, <1>6
  <2>2. audio # "running" /\ (audio # "closed" => setups = {})
    BY <1>0, <2>1 DEF StreamOfActive
  <2> QED BY <1>0, <1>2, <1>3, <2>1, <2>2 DEF StreamOfActive
<1> QED BY <1>5, <1>6

LEMMA IsoAudio ==
  ASSUME AudioInv, OneClient, OneCis, OneAsePerDirection, Iso
  PROVE  SetupsUp' /\ StreamOfActive'
<1>0. TypeOK /\ BaseInv /\ SetupsUp /\ StreamOfActive
  BY DEF AudioInv, BaseInv
<1>1. ASSUME \A t \in Slots, a \in Ases : ase[t][a].state \in {"enabling", "streaming"} =>
               ase'[t][a].state \in {"enabling", "streaming"},
             \A h \in Handles : cis[h].up => cis'[h].up,
             setups' \subseteq setups, audio' = audio
      PROVE  SetupsUp' /\ StreamOfActive'
  <2>1. Active => Active'
    BY <1>1, ActiveKept
  <2>2. UpHandles \subseteq UpHandles' /\ \A p : IsCisConnected(p.handle) => IsCisConnected(p.handle)'
    BY <1>1 DEF UpHandles, IsCisConnected
  <2> QED BY <1>0, <1>1, <2>1, <2>2 DEF SetupsUp, StreamOfActive
<1>2. ASSUME NEW c \in Clients, NEW id \in CisIds, NEW h \in Handles, CisRequest(c, id, h)
      PROVE  SetupsUp' /\ StreamOfActive'
  <2>1. setups' = setups /\ audio' = audio /\ ~cis[h].up
    BY <1>2 DEF CisRequest, FreeCis
  <2>2. GivesHandle(h, id) /\ OtherCises(h)
    BY <1>0, <1>2, CisRequestMoves
  <2> QED BY <1>1, <2>1, <2>2 DEF GivesHandle, OtherCises
<1>3. ASSUME NEW h \in Handles, CisFailed(h)
      PROVE  SetupsUp' /\ StreamOfActive'
  <2>1. ase' = ase /\ setups' = setups /\ audio' = audio /\ ~cis[h].up /\ \A k \in Handles \ {h} : cis'[k] = cis[k]
    BY <1>0, <1>3 DEF CisFailed, TypeOK
  <2> QED BY <1>1, <2>1
<1>4. ASSUME NEW p \in setups, DataPathFailed(p)
      PROVE  SetupsUp' /\ StreamOfActive'
  <2>1. ase' = ase /\ setups' \subseteq setups /\ audio' = audio
    BY <1>4 DEF DataPathFailed
  <2>2. \A h \in Handles : cis'[h].up = cis[h].up
    BY <1>0, <1>4, DataPathFailedMoves
  <2> QED BY <1>1, <2>1, <2>2
<1>5. ASSUME NEW p \in setups, DataPathSetup(p)
      PROVE  SetupsUp' /\ StreamOfActive'
  <2>1. GivesPath(p) /\ cis' = cis /\ setups' \subseteq setups
    BY <1>0, <1>5, DataPathSetupMoves DEF DataPathSetup
  <2>2. \A t \in Slots, a \in Ases : ase[t][a].state \in {"enabling", "streaming"} =>
          ase'[t][a].state \in {"enabling", "streaming"}
    BY <2>1 DEF GivesPath
  <2>3. CASE audio' = audio
    BY <1>1, <2>1, <2>2, <2>3
  <2>4. CASE audio' # audio
    <3>1. audio # "closed"
      BY <1>5, <2>4 DEF DataPathSetup
    <3>2. Active /\ p.handle \in UpHandles
      BY <1>0, <3>1 DEF StreamOfActive, SetupsUp, UpHandles, IsCisConnected
    <3>3. Active' /\ UpHandles' # {}
      BY <2>1, <2>2, <3>2, ActiveKept DEF UpHandles, IsCisConnected
    <3> QED BY <1>0, <2>1, <3>3 DEF SetupsUp, StreamOfActive, IsCisConnected
  <2> QED BY <2>3, <2>4
<1> QED BY <1>2, <1>3, <1>4, <1>5, EstablishedAudio, DisconnectedAudio DEF Iso

\* A link goes when no CIS of it is left, and nothing runs or is asked for then.
LEMMA LinkAudio ==
  ASSUME AudioInv, OneClient, CisDropsFirst, Link
  PROVE  SetupsUp' /\ StreamOfActive'
<1>0. TypeOK /\ BaseInv /\ SetupsUp /\ StreamOfActive /\ UnusedIdle
  BY DEF AudioInv, BaseInv
<1>1. cis' = cis /\ setups' = setups /\ audio' = audio
  BY DEF Link, GattConnected, GattDisconnected
<1>2. UpHandles' = UpHandles /\ SetupsUp'
  BY <1>0, <1>1 DEF UpHandles, SetupsUp, IsCisConnected
<1>3. ASSUME NEW c \in Clients, NEW s \in Slots, GattConnected(c, s)
      PROVE  StreamOfActive'
  <2>1. clcb[s] = NoClient /\ \A t \in Slots \ {s} : ase'[t] = ase[t]
    BY <1>0, <1>3 DEF GattConnected, Reset, TypeOK
  <2>2. \A a \in Ases : ase[s][a].state = "idle"
    BY <1>0, <2>1 DEF UnusedIdle
  <2>3. Active => Active'
    BY <2>1, <2>2, ActiveKept
  <2> QED BY <1>0, <1>1, <1>2, <2>3 DEF StreamOfActive
<1>4. ASSUME NEW s \in Slots, GattDisconnected(s)
      PROVE  StreamOfActive'
  <2>1. \A h \in Handles : cis[h].client \notin Clients
    BY <1>4 DEF GattDisconnected, OneClient
  <2>2. UpHandles = {}
    BY <1>0, <2>1, UpOfClient DEF UpHandles, IsCisConnected, FreeCis
  <2>3. setups = {}
    BY <1>0, <2>2 DEF SetupsUp, UpHandles, IsCisConnected
  <2>4. audio # "running"
    BY <1>0, <2>2 DEF StreamOfActive
  <2>5. audio \in {"closed", "open"}
    BY <1>0, <2>4 DEF TypeOK, AudioStates
  <2> QED BY <1>1, <1>2, <2>3, <2>5 DEF StreamOfActive
<1> QED BY <1>2, <1>3, <1>4 DEF Link

LEMMA AudioStep ==
  ASSUME AudioInv, OneClient, OneCis, OneAsePerDirection, CisDropsFirst, [Next]_vars
  PROVE  SetupsUp' /\ StreamOfActive'
<1>1. CASE UNCHANGED vars
  BY <1>1 DEF vars, AudioInv, SetupsUp, StreamOfActive, Active, UpHandles, IsCisConnected
<1> QED BY <1>1, LinkAudio, IsoAudio, WriteAudio DEF Next

\* With one central, one ASE of each direction on its one CIS, and CISes that go before
\* their link, the codec runs only while an ASE is enabling, streaming or disabling: what
\* takes the last one out of these states closes the one stream they share.
THEOREM AudioOfActive ==
  ASSUME OneClient, OneCis, OneAsePerDirection, CisDropsFirst
  PROVE  Spec => []AudioHasActiveUser
<1> DEFINE More == SetupsUp /\ StreamOfActive
<1>1. Spec => []BaseInv
  BY InitBase, BaseStep, PTL DEF Spec
<1>2. Init => More
  BY DEF Init, SetupsUp, StreamOfActive
<1>3. BaseInv /\ CoupledAseHasQos /\ More /\ [Next]_vars => More'
  BY AudioStep DEF AudioInv
<1>4. More => AudioHasActiveUser
  BY DEF StreamOfActive, Active, AudioHasActiveUser
<1> HIDE DEF More
<1> QED BY <1>1, <1>2, <1>3, <1>4, CoupledHasQos, PTL DEF Spec
=============================================================================
