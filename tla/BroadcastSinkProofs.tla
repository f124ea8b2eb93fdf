------------------------- MODULE BroadcastSinkProofs -------------------------
(***************************************************************************)
(* What BroadcastSink guarantees for every number of sources, handles and  *)
(* queued requests.                                                        *)
(***************************************************************************)
EXTENDS BroadcastSink, SequenceTheorems, TLAPS

\* A BIG in use and a receive state in use are of a source.
UsedHasSource ==
  /\ big.used => big.src \in Sources
  /\ bass.used => bass.src \in Sources

TInv == TypeOK /\ UsedHasSource

-----------------------------------------------------------------------------
(* The records the actions write *)

Syncs == [Handles -> Sources \cup {NoSource}]

LEMMA BlankTypes ==
  /\ FreeBig \in Bigs
  /\ FreeReceive \in Receives
  /\ NoWant \in Wants
  /\ NoBigSync \in BigSyncs
  /\ NoTransfer \in Transfers
BY DEF FreeBig, FreeReceive, NoWant, NoBigSync, NoTransfer, Bigs, Receives, Wants, BigSyncs,
       Transfers, PaStates, EncStates, Bits

LEMMA ViewType ==
  ASSUME NEW r \in Receives
  PROVE  View(r) \in Views
BY DEF View, Receives, Views

LEMMA WithoutType ==
  ASSUME NEW p \in Syncs, NEW h
  PROVE  Without(p, h) \in Syncs
BY DEF Without, Syncs

LEMMA AllocatedType ==
  ASSUME TInv, NEW s \in Sources
  PROVE  /\ Allocated(s) \in Bigs
         /\ Allocated(s).used
         /\ Allocated(s).src \in Sources
BY DEF TInv, TypeOK, UsedHasSource, Allocated, Bigs, FreeBig

LEMMA ResolvedType ==
  ASSUME NEW b, NEW bits \in Bits
  PROVE  Resolved(b, bits) \in Bits
BY DEF Resolved, Bits

LEMMA SyncToSourceType ==
  ASSUME TInv, NEW b \in Bigs, b.src \in Sources, NEW bits, NEW p \in Syncs, SyncToSource(b, bits, p)
  PROVE  big' \in Bigs /\ big'.used = b.used /\ big'.src = b.src /\ iso' \in BigSyncs
<1>1. big' \in Bigs /\ big'.used = b.used /\ big'.src = b.src
  BY DEF SyncToSource, Bigs
<1>2. CASE Accepts(b, bits, p)
  <2>1. p[b.handle] \in Sources \cup {NoSource} /\ Sid[b.src] \in Sids
    BY <1>2, BroadcastConstants DEF Accepts, Syncs
  <2> QED BY <1>1, <1>2, <2>1 DEF SyncToSource, BigSyncs
<1>3. CASE ~Accepts(b, bits, p)
  BY <1>1, <1>3 DEF SyncToSource, TInv, TypeOK
<1> QED BY <1>2, <1>3

LEMMA NotifyType ==
  ASSUME NEW r \in Receives, Notify(r)
  PROVE  bass' = r /\ told' \in Views
BY ViewType DEF Notify

LEMMA NotifyIfReceivedType ==
  ASSUME TInv, NEW r \in Receives, r.used = bass.used, r.src = bass.src, NotifyIfReceived(r)
  PROVE  bass' \in Receives /\ bass'.used = bass.used /\ bass'.src = bass.src /\ told' \in Views
BY NotifyType DEF NotifyIfReceived, TInv, TypeOK

LEMMA BisEndedType ==
  ASSUME TInv
  PROVE  BisEnded \in Receives /\ BisEnded.used = bass.used /\ BisEnded.src = bass.src
BY DEF TInv, TypeOK, BisEnded, Receives, Bits, EncStates

LEMMA SynchronizeToSourceType ==
  ASSUME TInv, NEW r \in Receives, r.used = bass.used, r.src = bass.src, NEW p \in Syncs,
         NEW b \in Bigs, b.used = big.used, b.src = big.src, SynchronizeToSource(r, b, p)
  PROVE  /\ bass' \in Receives /\ bass'.used = bass.used /\ bass'.src = bass.src
         /\ big' \in Bigs /\ big'.used = big.used /\ big'.src = big.src /\ iso' \in BigSyncs
<1> DEFINE bits == Resolved(b, r.req)
<1>1. bits \in Bits
  BY ResolvedType DEF Receives
<1>2. CASE HasBig(r.src)
  <2>1. bass' = [r EXCEPT !.req = bits] /\ SyncToSource(b, bits, p)
    BY <1>2 DEF SynchronizeToSource
  <2>2. b \in Bigs /\ b.src \in Sources
    BY <1>2 DEF HasBig, TInv, TypeOK, UsedHasSource
  <2> HIDE DEF bits
  <2>3. bass' \in Receives /\ bass'.used = bass.used /\ bass'.src = bass.src
    BY <1>1, <2>1 DEF Receives
  <2> QED BY <2>1, <2>2, <2>3, SyncToSourceType
<1>3. CASE ~HasBig(r.src)
  BY <1>3 DEF SynchronizeToSource, TInv, TypeOK
<1> QED BY <1>2, <1>3

LEMMA SyncToPaType ==
  ASSUME TInv, NEW s \in Sources, NEW b, SyncToPa(s, b)
  PROVE  want' \in Wants /\ scan' \in BOOLEAN
BY DEF SyncToPa, TInv, TypeOK, Wants

LEMMA TerminateSyncType ==
  ASSUME TInv, NEW s, NEW p \in Syncs, TerminateSync(s, p)
  PROVE  /\ big' \in Bigs /\ (big'.used => big'.src \in Sources)
         /\ iso' \in BigSyncs /\ pasync' \in Syncs
         /\ stream' \in BOOLEAN /\ want' \in Wants
<1>1. CASE HasBig(s)
  <2>1. iso' \in BigSyncs
    <3>1. iso' = iso \/ iso' = [iso EXCEPT !.st = "terminating"]
      BY <1>1 DEF TerminateSync
    <3> QED BY <3>1 DEF TInv, TypeOK, BigSyncs
  <2>2. pasync' \in Syncs
    BY <1>1, WithoutType DEF TerminateSync
  <2>3. big' = FreeBig \/ big' = big
    BY <1>1 DEF TerminateSync
  <2>4. big' \in Bigs /\ (big'.used => big'.src \in Sources)
    <3>1. ~FreeBig.used
      BY DEF FreeBig
    <3> QED BY <2>3, <3>1, BlankTypes DEF TInv, TypeOK, UsedHasSource
  <2>5. stream' = FALSE /\ want' = NoWant
    BY <1>1 DEF TerminateSync
  <2> QED BY <2>1, <2>2, <2>4, <2>5, BlankTypes
<1>2. CASE ~HasBig(s)
  BY <1>2 DEF TerminateSync, TInv, TypeOK, UsedHasSource
<1> QED BY <1>1, <1>2

LEMMA RequestSyncType ==
  ASSUME TInv, NEW s \in Sources, RequestSync(s)
  PROVE  creating' \in Seq(Sources) /\ queue' \in Seq(Sources) /\ progress' \in BOOLEAN
<1>1. creating \in Seq(Sources) /\ queue \in Seq(Sources) /\ progress \in BOOLEAN
  BY DEF TInv, TypeOK
<1>2. CASE progress
  BY <1>1, <1>2 DEF RequestSync
<1>3. CASE ~progress
  BY <1>1, <1>3 DEF RequestSync
<1> QED BY <1>2, <1>3

LEMMA NextRequestsType ==
  ASSUME TInv, NEW s \in Sources, NEW timeout
  PROVE  NextRequests(s, timeout) \in Seq(Sources) /\ Len(NextRequests(s, timeout)) <= 1
BY DEF NextRequests, TInv, TypeOK

LEMMA SendNextType ==
  ASSUME TInv, creating # <<>>, NEW s \in Sources, NEW timeout, SendNext(s, timeout)
  PROVE  /\ creating' \in Seq(Sources) /\ queue' \in Seq(Sources)
         /\ progress' \in BOOLEAN /\ scan' \in BOOLEAN
<1>1. Tail(creating) \in Seq(Sources)
  BY DEF TInv, TypeOK
<1>2. creating' \in Seq(Sources)
  BY <1>1, NextRequestsType DEF SendNext
<1>3. queue' \in Seq(Sources)
  BY DEF SendNext, TInv, TypeOK
<1> QED BY <1>2, <1>3 DEF SendNext

-----------------------------------------------------------------------------
(* Types: periodic advertising *)

LEMMA ScanReportType ==
  ASSUME TInv, NEW s \in Sources, ScanReport(s)
  PROVE  TInv'
<1>1. big' = [Allocated(s) EXCEPT !.pending = TRUE] /\ RequestSync(s)
  BY DEF ScanReport
<1>2. big' \in Bigs /\ big'.src \in Sources
  BY <1>1, AllocatedType DEF Bigs
<1>3. creating' \in Seq(Sources) /\ queue' \in Seq(Sources) /\ progress' \in BOOLEAN
  BY <1>1, RequestSyncType
<1>4. scan' = FALSE /\ UNCHANGED <<bass, told, want, pasync, iso, past, stream, overrun>>
  BY DEF ScanReport
<1> QED BY <1>2, <1>3, <1>4 DEF TInv, TypeOK, UsedHasSource

LEMMA PaSyncedType ==
  ASSUME TInv, NEW h \in Handles, PaSynced(h)
  PROVE  TInv'
<1> DEFINE s == Head(creating)
<1>1. creating # <<>> /\ s \in Sources /\ SendNext(s, FALSE)
  <2>1. creating # <<>> /\ SendNext(s, FALSE)
    BY DEF PaSynced
  <2>2. s \in Sources
    BY <2>1 DEF TInv, TypeOK
  <2> QED BY <2>1, <2>2
<1>2. pasync' \in Syncs
  BY <1>1 DEF PaSynced, TInv, TypeOK, Syncs
<1> DEFINE r == [bass EXCEPT !.pa = "sync"]
<1>3. r \in Receives /\ r.used = bass.used /\ r.src = bass.src
  BY DEF TInv, TypeOK, Receives, PaStates
<1>4. /\ big' \in Bigs /\ big'.used = big.used /\ big'.src = big.src
      /\ bass' \in Receives /\ bass'.used = bass.used /\ bass'.src = bass.src
      /\ told' \in Views /\ overrun' \in BOOLEAN
  <2>1. CASE Waiting(s)
    <3>1. big' = [big EXCEPT !.pending = FALSE, !.handle = h, !.state = "pa"]
          /\ NotifyIfReceived(r) /\ overrun' = overrun
      BY <2>1 DEF PaSynced
    <3> HIDE DEF r
    <3> QED BY <3>1, <1>3, NotifyIfReceivedType DEF TInv, TypeOK, Bigs
  <2>2. CASE ~Waiting(s)
    BY <2>2 DEF PaSynced, TInv, TypeOK
  <2> QED BY <2>1, <2>2
<1> QED BY <1>1, <1>2, <1>4, SendNextType DEF PaSynced, TInv, TypeOK, UsedHasSource, Syncs

LEMMA PaSyncFailedType ==
  ASSUME TInv, NEW timeout \in BOOLEAN, PaSyncFailed(timeout)
  PROVE  TInv'
<1> DEFINE s == Head(creating)
<1>1. creating # <<>> /\ s \in Sources /\ SendNext(s, timeout)
  BY DEF PaSyncFailed, TInv, TypeOK
<1> DEFINE r == [bass EXCEPT !.pa = "failed"]
<1>2. r \in Receives /\ r.used = bass.used /\ r.src = bass.src
  BY DEF TInv, TypeOK, Receives, PaStates
<1>3. /\ big' \in Bigs /\ big'.used = big.used /\ big'.src = big.src
      /\ bass' \in Receives /\ bass'.used = bass.used /\ bass'.src = bass.src
      /\ told' \in Views
  <2>1. CASE Waiting(s)
    <3>1. big' = [big EXCEPT !.pending = FALSE] /\ NotifyIfReceived(r)
      BY <2>1 DEF PaSyncFailed
    <3> HIDE DEF r
    <3> QED BY <3>1, <1>2, NotifyIfReceivedType DEF TInv, TypeOK, Bigs
  <2>2. CASE ~Waiting(s)
    BY <2>2 DEF PaSyncFailed, TInv, TypeOK
  <2> QED BY <2>1, <2>2
<1> QED BY <1>1, <1>3, SendNextType DEF PaSyncFailed, TInv, TypeOK, UsedHasSource

LEMMA PaReportType ==
  ASSUME TInv, NEW h \in Handles, PaReport(h)
  PROVE  TInv'
<1>1. big' \in Bigs /\ big'.used = big.used /\ big'.src = big.src
  BY DEF PaReport, TInv, TypeOK, Bigs
<1> QED BY <1>1 DEF PaReport, TInv, TypeOK, UsedHasSource, control, controller

LEMMA BigInfoReportType ==
  ASSUME TInv, NEW h \in Handles, BigInfoReport(h)
  PROVE  TInv'
<1> DEFINE b == [big EXCEPT !.info = TRUE]
<1>1. b \in Bigs /\ b.used = big.used /\ b.src = big.src /\ b.src \in Sources
  BY DEF BigInfoReport, HasBigSyncHandle, TInv, TypeOK, UsedHasSource, Bigs
<1>2. pasync \in Syncs
  BY DEF TInv, TypeOK, Syncs
<1>3. /\ big' \in Bigs /\ (big'.used => big'.src \in Sources) /\ iso' \in BigSyncs
      /\ bass' \in Receives /\ bass'.used = bass.used /\ bass'.src = bass.src
      /\ told' \in Views /\ want' \in Wants
  <2>1. CASE want.bits # "none"
    <3>1. SyncToSource(b, want.bits, pasync) /\ want' = NoWant /\ bass' = bass /\ told' = told
      BY <2>1 DEF BigInfoReport
    <3> HIDE DEF b
    <3> QED BY <3>1, <1>1, <1>2, SyncToSourceType, BlankTypes DEF TInv, TypeOK
  <2>2. CASE want.bits = "none"
    <3>1. ProcessBigInfo(b, pasync[h] \in Encrypted) /\ want' = want
      BY <2>2 DEF BigInfoReport
    <3> HIDE DEF b
    <3>2. CASE ReceivesBig /\ ~(pasync[h] \in Encrypted)
      <4>1. SynchronizeToSource(bass, b, pasync) /\ told' = told
        BY <3>1, <3>2 DEF ProcessBigInfo
      <4> QED BY <3>1, <4>1, <1>1, <1>2, SynchronizeToSourceType DEF TInv, TypeOK
    <3>3. CASE ~(ReceivesBig /\ ~(pasync[h] \in Encrypted))
      <4> DEFINE r == [bass EXCEPT !.waiting = TRUE, !.enc = "required"]
      <4>1. r \in Receives /\ r.used = bass.used /\ r.src = bass.src
        BY DEF TInv, TypeOK, Receives, EncStates
      <4>2. big' = b /\ iso' = iso
        BY <3>1, <3>3 DEF ProcessBigInfo
      <4>3. Notify(r) \/ UNCHANGED <<bass, told>>
        BY <3>1, <3>3 DEF ProcessBigInfo
      <4> HIDE DEF r
      <4> QED BY <3>1, <4>1, <4>2, <4>3, <1>1, NotifyType DEF TInv, TypeOK
    <3> QED BY <3>2, <3>3
  <2> QED BY <2>1, <2>2
<1> QED BY <1>3 DEF BigInfoReport, TInv, TypeOK, UsedHasSource, control

LEMMA PaLostType ==
  ASSUME TInv, NEW h \in Handles, PaLost(h)
  PROVE  TInv'
<1>1. pasync' \in Syncs
  BY WithoutType DEF PaLost, TInv, TypeOK, Syncs
<1> DEFINE r == [bass EXCEPT !.pa = "not"]
<1>2. r \in Receives /\ r.used = bass.used /\ r.src = bass.src
  BY DEF TInv, TypeOK, Receives, PaStates
<1>3. /\ big' \in Bigs /\ big'.used = big.used /\ big'.src = big.src
      /\ bass' \in Receives /\ bass'.used = bass.used /\ bass'.src = bass.src
      /\ told' \in Views
  <2>1. CASE HasBigSyncHandle(h)
    <3>1. big' = [big EXCEPT !.state = "pa_lost"] /\ NotifyIfReceived(r)
      BY <2>1 DEF PaLost
    <3> HIDE DEF r
    <3> QED BY <3>1, <1>2, NotifyIfReceivedType DEF TInv, TypeOK, Bigs
  <2>2. CASE ~HasBigSyncHandle(h)
    BY <2>2 DEF PaLost, TInv, TypeOK
  <2> QED BY <2>1, <2>2
<1> QED BY <1>1, <1>3 DEF PaLost, TInv, TypeOK, UsedHasSource, Syncs, control

-----------------------------------------------------------------------------
(* Types: the BIG *)

LEMMA BigSyncedType ==
  ASSUME TInv, BigSynced
  PROVE  TInv'
<1>1. iso' \in BigSyncs
  BY DEF BigSynced, TInv, TypeOK, BigSyncs
<1> DEFINE r == [bass EXCEPT !.bis = bass.req, !.pa = "not", !.enc = "not"]
<1>2. r \in Receives /\ r.used = bass.used /\ r.src = bass.src
  BY DEF TInv, TypeOK, Receives, PaStates, EncStates
<1>3. /\ big' \in Bigs /\ big'.used = big.used /\ big'.src = big.src
      /\ bass' \in Receives /\ bass'.used = bass.used /\ bass'.src = bass.src
      /\ told' \in Views /\ scan' \in BOOLEAN /\ stream' \in BOOLEAN /\ pasync' \in Syncs
  <2>1. CASE HasBigHandle(iso.sid)
    <3>1. /\ big' = [big EXCEPT !.state = "big", !.syncing = FALSE]
          /\ scan' = FALSE /\ stream' = TRUE /\ pasync' = Without(pasync, big.handle)
          /\ NotifyIfReceived(r)
      BY <2>1 DEF BigSynced
    <3> HIDE DEF r
    <3>2. pasync' \in Syncs
      BY <3>1, WithoutType DEF TInv, TypeOK, Syncs
    <3>3. big' \in Bigs /\ big'.used = big.used /\ big'.src = big.src
      BY <3>1 DEF TInv, TypeOK, Bigs
    <3> QED BY <3>1, <3>2, <3>3, <1>2, NotifyIfReceivedType
  <2>2. CASE ~HasBigHandle(iso.sid)
    BY <2>2 DEF BigSynced, TInv, TypeOK, Syncs
  <2> QED BY <2>1, <2>2
<1> QED BY <1>1, <1>3 DEF BigSynced, TInv, TypeOK, UsedHasSource, Syncs

LEMMA BigSyncFailedType ==
  ASSUME TInv, BigSyncFailed
  PROVE  TInv'
BY BlankTypes DEF BigSyncFailed, TInv, TypeOK, UsedHasSource, control

LEMMA BigEndedType ==
  ASSUME TInv, BigLost \/ BigTerminated
  PROVE  TInv'
<1>1. /\ big' \in Bigs /\ (big'.used => big'.src \in Sources)
      /\ bass' \in Receives /\ bass'.used = bass.used /\ bass'.src = bass.src
      /\ told' \in Views /\ stream' \in BOOLEAN
  <2>1. CASE HasBigHandle(iso.sid)
    <3>1. big' = FreeBig /\ NotifyIfReceived(BisEnded) /\ stream' \in BOOLEAN
      BY <2>1 DEF BigLost, BigTerminated, TInv, TypeOK
    <3>2. ~FreeBig.used
      BY DEF FreeBig
    <3> QED BY <3>1, <3>2, BlankTypes, BisEndedType, NotifyIfReceivedType
  <2>2. CASE ~HasBigHandle(iso.sid)
    BY <2>2 DEF BigLost, BigTerminated, TInv, TypeOK, UsedHasSource
  <2> QED BY <2>1, <2>2
<1>2. iso' = NoBigSync /\ UNCHANGED <<want, control, creating, pasync, past, overrun>>
  BY DEF BigLost, BigTerminated
<1> QED BY <1>1, <1>2, BlankTypes DEF TInv, TypeOK, UsedHasSource, control

-----------------------------------------------------------------------------
(* Types: the assistant *)

LEMMA SynchronizeToPaType ==
  ASSUME TInv, NEW how, NEW r \in Receives, r.used, r.src \in Sources, SynchronizeToPa(how, r)
  PROVE  /\ big' \in Bigs /\ big'.src \in Sources
         /\ want' \in Wants /\ scan' \in BOOLEAN /\ past' \in Transfers
         /\ bass' \in Receives /\ bass'.src \in Sources
<1>1. big' = Allocated(r.src)
  BY DEF SynchronizeToPa
<1>2. want' \in Wants /\ scan' \in BOOLEAN
  <2>1. CASE how = "no_past"
    BY <2>1, SyncToPaType DEF SynchronizeToPa
  <2>2. CASE how # "no_past"
    BY <2>2 DEF SynchronizeToPa, TInv, TypeOK
  <2> QED BY <2>1, <2>2
<1>3. past' \in Transfers
  BY DEF SynchronizeToPa, TInv, TypeOK, Transfers
<1>4. bass' \in Receives /\ bass'.src \in Sources
  <2>1. bass' = r \/ bass' = [r EXCEPT !.pa = "info"]
    BY DEF SynchronizeToPa
  <2> QED BY <2>1 DEF Receives, PaStates
<1> QED BY <1>1, <1>2, <1>3, <1>4, AllocatedType

LEMMA AddSourceType ==
  ASSUME TInv, NEW s \in AddedSources, NEW how \in Ways, NEW bits \in AskedBits,
         AddSource(s, how, bits)
  PROVE  TInv'
<1> DEFINE r == [FreeReceive EXCEPT !.used = TRUE, !.src = s, !.req = bits]
<1>1. s \in Sources /\ bits \in Bits
  BY BroadcastConstants DEF Bits
<1>2. r \in Receives /\ r.used /\ r.src \in Sources
  BY <1>1 DEF FreeReceive, Receives, PaStates, EncStates, Bits
<1>3. told' = View(r) /\ SynchronizeToPa(how, r)
      /\ UNCHANGED <<progress, queue, controller, stream, overrun>>
  BY DEF AddSource
<1> HIDE DEF r
<1>4. told' \in Views
  BY <1>2, <1>3, ViewType
<1> QED BY <1>2, <1>3, <1>4, SynchronizeToPaType DEF TInv, TypeOK, UsedHasSource, controller

LEMMA AfterPaType ==
  ASSUME TInv, NEW how
  PROVE  /\ AfterPa(how) \in Receives
         /\ AfterPa(how).used = bass.used /\ AfterPa(how).src = bass.src
         /\ View(AfterPa(how)) \in Views
         /\ PaAfter(how) \in Syncs
<1>1. /\ AfterPa(how) \in Receives
      /\ AfterPa(how).used = bass.used /\ AfterPa(how).src = bass.src
  BY DEF AfterPa, TInv, TypeOK, Receives, PaStates
<1>2. PaAfter(how) \in Syncs
  BY WithoutType DEF PaAfter, TInv, TypeOK, Syncs
<1> QED BY <1>1, <1>2, ViewType

LEMMA ModifyToPaType ==
  ASSUME TInv, NEW how \in Ways, NEW bits \in AskedBits, ModifyToPa(how, bits)
  PROVE  TInv'
<1> DEFINE r == IF bits = "none" THEN bass ELSE [bass EXCEPT !.req = bits]
<1>1. bits \in Bits
  BY BroadcastConstants DEF Bits
<1>2. bass.used /\ SynchronizeToPa(how, r)
      /\ UNCHANGED <<told, progress, queue, controller, stream, overrun>>
  BY DEF ModifyToPa
<1>3. r \in Receives /\ r.used /\ r.src \in Sources
  BY <1>1, <1>2 DEF TInv, TypeOK, UsedHasSource, Receives
<1> HIDE DEF r
<1> QED BY <1>2, <1>3, SynchronizeToPaType DEF TInv, TypeOK, UsedHasSource, controller

LEMMA ModifyStopsBisType ==
  ASSUME TInv, NEW how, NEW bits, ModifyStopsBis(how, bits)
  PROVE  TInv'
<1>1. /\ bass' = AfterPa(how) /\ TerminateSync(bass.src, PaAfter(how))
      /\ UNCHANGED <<control, creating, past, overrun>>
  BY DEF ModifyStopsBis
<1>2. told' \in Views
  BY AfterPaType DEF ModifyStopsBis, TInv, TypeOK
<1>3. /\ big' \in Bigs /\ (big'.used => big'.src \in Sources)
      /\ iso' \in BigSyncs /\ pasync' \in Syncs /\ stream' \in BOOLEAN /\ want' \in Wants
  BY <1>1, AfterPaType, TerminateSyncType
<1> QED BY <1>1, <1>2, <1>3, AfterPaType DEF TInv, TypeOK, UsedHasSource, control, Syncs

LEMMA ModifyStartsBisType ==
  ASSUME TInv, NEW how, NEW bits \in AskedBits, ModifyStartsBis(how, bits)
  PROVE  TInv'
<1> DEFINE r == [AfterPa(how) EXCEPT !.req = bits]
<1>1. r \in Receives /\ r.used = bass.used /\ r.src = bass.src
  BY AfterPaType, BroadcastConstants DEF Receives, Bits
<1>2. /\ SynchronizeToSource(r, big, PaAfter(how)) /\ pasync' = PaAfter(how)
      /\ UNCHANGED <<want, control, creating, past, stream, overrun>>
  BY DEF ModifyStartsBis
<1>3. told' \in Views
  BY AfterPaType DEF ModifyStartsBis, TInv, TypeOK
<1> HIDE DEF r
<1>4. big \in Bigs
  BY DEF TInv, TypeOK
<1>5. /\ bass' \in Receives /\ bass'.used = bass.used /\ bass'.src = bass.src
      /\ big' \in Bigs /\ big'.used = big.used /\ big'.src = big.src /\ iso' \in BigSyncs
  BY <1>1, <1>2, <1>4, AfterPaType, SynchronizeToSourceType
<1> QED BY <1>2, <1>3, <1>5, AfterPaType DEF TInv, TypeOK, UsedHasSource, control, Syncs

LEMMA ModifyKeepsBisType ==
  ASSUME TInv, NEW how, NEW bits, ModifyKeepsBis(how, bits)
  PROVE  TInv'
<1>1. /\ Notify(AfterPa(how)) /\ pasync' = PaAfter(how)
      /\ UNCHANGED <<big, want, control, creating, iso, past, stream, overrun>>
  BY DEF ModifyKeepsBis
<1> QED BY <1>1, AfterPaType, NotifyType DEF TInv, TypeOK, UsedHasSource, control, Syncs

LEMMA RemoveSourceType ==
  ASSUME TInv, RemoveSource
  PROVE  TInv'
<1>1. /\ big' = FreeBig \/ big' = big
      /\ Notify(FreeReceive)
      /\ UNCHANGED <<want, control, controller, past, stream, overrun>>
  BY DEF RemoveSource
<1>2. ~FreeBig.used /\ ~FreeReceive.used
  BY DEF FreeBig, FreeReceive
<1> QED BY <1>1, <1>2, BlankTypes, NotifyType DEF TInv, TypeOK, UsedHasSource, control, controller

LEMMA SetBroadcastCodeType ==
  ASSUME TInv, SetBroadcastCode
  PROVE  TInv'
<1> DEFINE r == [bass EXCEPT !.waiting = FALSE, !.enc = "decrypting"]
<1>1. r \in Receives /\ r.used = bass.used /\ r.src = bass.src
  BY DEF TInv, TypeOK, Receives, EncStates
<1>2. /\ told' = View(r) /\ SynchronizeToSource(r, big, pasync)
      /\ UNCHANGED <<want, control, creating, pasync, past, stream, overrun>>
  BY DEF SetBroadcastCode
<1>3. big \in Bigs /\ pasync \in Syncs
  BY DEF TInv, TypeOK, Syncs
<1> HIDE DEF r
<1> QED BY <1>1, <1>2, <1>3, ViewType, SynchronizeToSourceType DEF TInv, TypeOK, UsedHasSource, control

LEMMA TransferParamType ==
  ASSUME TInv, TransferParam \/ TransferRefused
  PROVE  TInv'
<1>1. past' \in Transfers
  BY BlankTypes DEF TransferParam, TransferRefused, TInv, TypeOK, Transfers
<1>2. bass' = bass /\ told' \in Views
  BY NotifyType DEF TransferParam, TransferRefused, TInv, TypeOK
<1>3. UNCHANGED <<big, want, control, controller, stream, overrun>>
  BY DEF TransferParam, TransferRefused
<1> QED BY <1>1, <1>2, <1>3 DEF TInv, TypeOK, UsedHasSource, control, controller

LEMMA HandleTransferType ==
  ASSUME TInv, NEW h \in Handles \cup {NoSync}, NEW pa \in PaStates, HandleTransfer(h, pa)
  PROVE  /\ big' \in Bigs /\ big'.used = big.used /\ big'.src = big.src
         /\ bass' \in Receives /\ bass'.used = bass.used /\ bass'.src = bass.src
         /\ told' \in Views
<1> DEFINE r == [bass EXCEPT !.handle = h, !.pa = pa]
<1>1. r \in Receives /\ r.used = bass.used /\ r.src = bass.src
  BY DEF TInv, TypeOK, Receives
<1>2. Notify(r) \/ UNCHANGED <<bass, told>>
  BY DEF HandleTransfer
<1>3. big' = big \/ big' = [big EXCEPT !.handle = h]
  BY DEF HandleTransfer
<1> HIDE DEF r
<1>4. big' \in Bigs /\ big'.used = big.used /\ big'.src = big.src
  BY <1>3 DEF TInv, TypeOK, Bigs
<1> QED BY <1>1, <1>2, <1>4, NotifyType DEF TInv, TypeOK

LEMMA TransferEndedType ==
  ASSUME TInv, (\E h \in Handles : TransferReceived(h)) \/ TransferFailed
  PROVE  TInv'
<1>1. past' = NoTransfer /\ UNCHANGED <<want, control, creating, iso, stream, overrun>>
  BY DEF TransferReceived, TransferFailed, controller
<1>2. pasync' \in Syncs
  BY DEF TransferReceived, TransferFailed, controller, TInv, TypeOK, Transfers, Syncs
<1>3. \E h \in Handles \cup {NoSync}, pa \in PaStates : HandleTransfer(h, pa)
  BY DEF TransferReceived, TransferFailed, PaStates
<1> QED BY <1>1, <1>2, <1>3, HandleTransferType, BlankTypes
        DEF TInv, TypeOK, UsedHasSource, control, Syncs

LEMMA AssistantLostType ==
  ASSUME TInv, AssistantLost
  PROVE  TInv'
<1>1. ~FreeReceive.used
  BY DEF FreeReceive
<1> QED BY <1>1, BlankTypes, ViewType
        DEF AssistantLost, TInv, TypeOK, UsedHasSource, control, controller

-----------------------------------------------------------------------------
(* Types: the host *)

LEMMA HostGetInfoType ==
  ASSUME TInv, NEW s \in Sources, HostGetInfo(s)
  PROVE  TInv'
<1>1. want' \in Wants /\ scan' \in BOOLEAN
  BY SyncToPaType DEF HostGetInfo
<1> QED BY <1>1 DEF HostGetInfo, TInv, TypeOK, UsedHasSource, controller

LEMMA HostListenType ==
  ASSUME TInv, NEW s \in Sources, NEW bits \in Bits, HostListen(s, bits)
  PROVE  TInv'
<1>1. want' \in Wants /\ scan' \in BOOLEAN
  <2>1. want' = NoWant \/ want' = [src |-> s, bits |-> bits]
    BY DEF HostListen
  <2>2. scan' = TRUE \/ scan' = scan
    BY DEF HostListen
  <2>3. want' \in Wants
    BY <2>1, BlankTypes DEF Wants
  <2>4. scan' \in BOOLEAN
    BY <2>2 DEF TInv, TypeOK
  <2> QED BY <2>3, <2>4
<1>2. big' \in Bigs /\ (big'.used => big'.src \in Sources) /\ iso' \in BigSyncs
  <2>1. CASE HasBig(s) /\ SyncToSource(big, bits, pasync)
    <3>1. big \in Bigs /\ big.src \in Sources /\ pasync \in Syncs
      BY <2>1 DEF HasBig, TInv, TypeOK, UsedHasSource, Syncs
    <3> QED BY <2>1, <3>1, SyncToSourceType
  <2>2. CASE UNCHANGED <<big, iso>>
    BY <2>2 DEF TInv, TypeOK, UsedHasSource
  <2> QED BY <2>1, <2>2 DEF HostListen
<1> QED BY <1>1, <1>2 DEF HostListen, TInv, TypeOK, UsedHasSource

LEMMA HostEndType ==
  ASSUME TInv, NEW s \in Sources, HostStop(s) \/ HostTerminatePa(s) \/ HostDiscover
  PROVE  TInv'
<1>1. pasync \in Syncs
  BY DEF TInv, TypeOK, Syncs
<1>2. CASE HostStop(s)
  BY <1>1, <1>2, TerminateSyncType DEF HostStop, TInv, TypeOK, UsedHasSource, control, Syncs
<1>3. CASE HostTerminatePa(s)
  <2>1. ~FreeBig.used
    BY DEF FreeBig
  <2>2. pasync' \in Syncs
    BY <1>1, <1>3, WithoutType DEF HostTerminatePa
  <2> QED BY <1>3, <2>1, <2>2, BlankTypes
          DEF HostTerminatePa, TInv, TypeOK, UsedHasSource, control, Syncs
<1>4. CASE HostDiscover
  BY <1>4 DEF HostDiscover, TInv, TypeOK, UsedHasSource, controller
<1> QED BY <1>2, <1>3, <1>4

-----------------------------------------------------------------------------
(* The types of all variables are inductive *)

LEMMA InitType == Init => TInv
<1> SUFFICES ASSUME Init PROVE TInv
  OBVIOUS
<1>1. ~FreeBig.used /\ ~FreeReceive.used
  BY DEF FreeBig, FreeReceive
<1>2. View(FreeReceive) \in Views
  BY BlankTypes, ViewType
<1>3. UsedHasSource
  BY <1>1 DEF Init, UsedHasSource
<1>4. TypeOK
  <2>1. queue \in Seq(Sources) /\ creating \in Seq(Sources)
    BY DEF Init
  <2>2. pasync \in [Handles -> Sources \cup {NoSource}]
    BY DEF Init
  <2>3. scan \in BOOLEAN /\ progress \in BOOLEAN /\ stream \in BOOLEAN /\ overrun \in BOOLEAN
    BY DEF Init
  <2>4. /\ big \in Bigs /\ bass \in Receives /\ told \in Views /\ want \in Wants
        /\ past \in Transfers /\ iso \in BigSyncs
    BY <1>2, BlankTypes DEF Init
  <2> QED BY <2>1, <2>2, <2>3, <2>4 DEF TypeOK
<1> QED BY <1>3, <1>4 DEF TInv

LEMMA PeriodicType ==
  ASSUME TInv, Periodic
  PROVE  TInv'
BY ScanReportType, PaSyncedType, PaSyncFailedType, PaReportType, BigInfoReportType, PaLostType
   DEF Periodic

LEMMA IsochronousType ==
  ASSUME TInv, Isochronous
  PROVE  TInv'
BY BigSyncedType, BigSyncFailedType, BigEndedType DEF Isochronous

LEMMA AssistantType ==
  ASSUME TInv, Assistant
  PROVE  TInv'
<1>1. ASSUME NEW how \in Ways, NEW bits \in AskedBits, Modify(how, bits)
      PROVE  TInv'
  BY <1>1, ModifyToPaType, ModifyStopsBisType, ModifyStartsBisType, ModifyKeepsBisType DEF Modify
<1> QED BY <1>1, AddSourceType, RemoveSourceType, SetBroadcastCodeType, TransferParamType,
           TransferEndedType, AssistantLostType DEF Assistant

LEMMA HostType ==
  ASSUME TInv, Host
  PROVE  TInv'
<1>1. HostSources \subseteq Sources /\ Bits \ {"none"} \subseteq Bits
  BY BroadcastConstants
<1>2. CASE HostDiscover
  <2>1. \E s \in Sources : TRUE
    BY <1>1, <1>2 DEF HostDiscover
  <2> QED BY <1>2, <2>1, HostEndType
<1>3. CASE \E s \in HostSources : HostGetInfo(s) \/ HostStop(s) \/ HostTerminatePa(s)
  BY <1>1, <1>3, HostGetInfoType, HostEndType
<1>4. CASE \E s \in HostSources, bits \in Bits \ {"none"} : HostListen(s, bits)
  BY <1>1, <1>4, HostListenType
<1> QED BY <1>2, <1>3, <1>4 DEF Host

LEMMA StepType == TInv /\ [Next]_vars => TInv'
<1> SUFFICES ASSUME TInv, [Next]_vars PROVE TInv'
  OBVIOUS
<1>1. CASE Next
  BY <1>1, PeriodicType, IsochronousType, AssistantType, HostType DEF Next
<1>2. CASE UNCHANGED vars
  BY <1>2 DEF vars, control, controller, TInv, TypeOK, UsedHasSource
<1> QED BY <1>1, <1>2

\* Every variable of the broadcast sink keeps its type, whatever order commands,
\* reports, failures and losses come in.
THEOREM TypeCorrect == Spec => []TypeOK
<1>1. TInv => TypeOK
  BY DEF TInv
<1> QED BY <1>1, InitType, StepType, PTL DEF Spec

-----------------------------------------------------------------------------
(* One sync command at a time, and nobody waits in vain.  The flag             *)
(* broadcast_sink_periodic_sync_in_progress is the controller's occupation,    *)
(* and a BIG that waits for its sync is in use.                                *)

Elems(q) == {q[i] : i \in DOMAIN q}

Serial ==
  /\ progress <=> creating # <<>>
  /\ OneSyncAtATime
  /\ WaitingIsServed
  /\ big.pending => big.used

LEMMA ElemsAppend ==
  ASSUME NEW q \in Seq(Sources), NEW s \in Sources
  PROVE  Elems(Append(q, s)) = Elems(q) \cup {s}
<1>1. Append(q, s) \in Seq(Sources) /\ Len(Append(q, s)) = Len(q) + 1 /\ Len(q) \in Nat
  OBVIOUS
<1>2. DOMAIN q = 1..Len(q) /\ DOMAIN Append(q, s) = 1..(Len(q) + 1)
  BY <1>1
<1>3. \A i \in 1..Len(q) : Append(q, s)[i] = q[i]
  OBVIOUS
<1>4. Append(q, s)[Len(q) + 1] = s
  OBVIOUS
<1>5. 1..(Len(q) + 1) = (1..Len(q)) \cup {Len(q) + 1}
  BY <1>1
<1> QED BY <1>2, <1>3, <1>4, <1>5 DEF Elems

LEMMA ElemsTail ==
  ASSUME NEW q \in Seq(Sources), q # <<>>
  PROVE  Elems(q) \subseteq {Head(q)} \cup Elems(Tail(q))
<1> SUFFICES ASSUME NEW i \in DOMAIN q, q[i] # Head(q)
             PROVE  \E j \in DOMAIN Tail(q) : Tail(q)[j] = q[i]
  BY DEF Elems
<1>1. Len(q) \in Nat /\ DOMAIN q = 1..Len(q) /\ q[1] = Head(q)
  OBVIOUS
<1>2. i \in 2..Len(q)
  BY <1>1
<1>3. Tail(q) \in Seq(Sources) /\ Len(Tail(q)) = Len(q) - 1
  BY <1>1
<1>4. i - 1 \in 1..Len(Tail(q)) /\ Tail(q)[i - 1] = q[i]
  BY <1>1, <1>2, <1>3
<1> QED BY <1>3, <1>4

LEMMA ElemsShort ==
  /\ Elems(<<>>) = {}
  /\ \A s : Elems(<<s>>) = {s}
<1>1. DOMAIN <<>> = {}
  OBVIOUS
<1>2. ASSUME NEW s
      PROVE  Elems(<<s>>) = {s}
  <2>1. DOMAIN <<s>> = {1} /\ <<s>>[1] = s
    OBVIOUS
  <2> QED BY <2>1 DEF Elems
<1> QED BY <1>1, <1>2 DEF Elems

\* The only sequence of length one and its only element
LEMMA OneCreated ==
  ASSUME TInv, Serial, creating # <<>>
  PROVE  creating = <<Head(creating)>> /\ Tail(creating) = <<>>
<1>1. creating \in Seq(Sources) /\ Len(creating) <= 1
  BY DEF TInv, TypeOK, Serial, OneSyncAtATime
<1>2. Len(creating) = 1 /\ Head(creating) = creating[1]
  <2>1. Len(creating) \in Nat \ {0}
    BY <1>1, EmptySeq
  <2>2. \A n \in Nat \ {0} : n <= 1 => n = 1
    OBVIOUS
  <2>3. Len(creating) = 1
    BY <1>1, <2>1, <2>2
  <2> QED BY <1>1, <2>3
<1>3. Tail(creating) \in Seq(Sources) /\ Len(Tail(creating)) = 0
  BY <1>1, <1>2
<1>4. Tail(creating) = <<>>
  BY <1>3, EmptySeq
<1>5. creating = <<creating[1]>>
  BY <1>1, <1>2
<1> QED BY <1>2, <1>4, <1>5

LEMMA RequestSyncServes ==
  ASSUME TInv, Serial, NEW s \in Sources, RequestSync(s)
  PROVE  /\ (progress' <=> creating' # <<>>) /\ OneSyncAtATime'
         /\ (queue' # <<>> => creating' # <<>>)
         /\ s \in Requested'
<1>1. creating \in Seq(Sources) /\ queue \in Seq(Sources)
  BY DEF TInv, TypeOK
<1>2. CASE progress
  <2>1. queue' = Append(queue, s) /\ creating' = creating /\ progress' = progress
    BY <1>2 DEF RequestSync
  <2>2. s \in Elems(queue')
    BY <1>1, <2>1, ElemsAppend
  <2>3. creating # <<>> /\ OneSyncAtATime
    BY <1>2 DEF Serial
  <2>4. (progress' <=> creating' # <<>>) /\ OneSyncAtATime'
    BY <1>2, <2>1, <2>3 DEF OneSyncAtATime
  <2>5. s \in Requested'
    BY <2>2 DEF Requested, Elems
  <2> QED BY <2>1, <2>3, <2>4, <2>5
<1>3. CASE ~progress
  <2>1. creating' = Append(creating, s) /\ queue' = queue /\ progress' = TRUE
    BY <1>3 DEF RequestSync
  <2>2. creating = <<>>
    BY <1>3 DEF Serial
  <2>3. creating' = <<s>>
    BY <2>1, <2>2
  <2>4. s \in Elems(creating')
    BY <2>3, ElemsShort
  <2>5. s \in Requested'
    BY <2>4 DEF Requested, Elems
  <2>6. creating' # <<>> /\ OneSyncAtATime'
    BY <2>3 DEF OneSyncAtATime
  <2> QED BY <2>1, <2>5, <2>6
<1> QED BY <1>2, <1>3

LEMMA SendNextServes ==
  ASSUME TInv, Serial, creating # <<>>, NEW timeout \in BOOLEAN, SendNext(Head(creating), timeout)
  PROVE  /\ (progress' <=> creating' # <<>>) /\ OneSyncAtATime'
         /\ (queue' # <<>> => creating' # <<>>)
         /\ Requested \ {Head(creating)} \subseteq Requested'
<1> DEFINE s == Head(creating)
           next == NextRequests(s, timeout)
<1>1. s \in Sources /\ queue \in Seq(Sources)
  BY DEF TInv, TypeOK
<1>2. next \in Seq(Sources) /\ Len(next) <= 1
  BY <1>1, NextRequestsType
<1>3. creating' = Tail(creating) \o next /\ progress' = (next # <<>>)
      /\ queue' = IF timeout \/ queue = <<>> THEN queue ELSE Tail(queue)
  BY DEF SendNext
<1>4. creating' = next
  <2> HIDE DEF next
  <2> QED BY <1>2, <1>3, OneCreated
<1>5. Elems(creating) = {s}
  BY OneCreated, ElemsShort
<1>6. (progress' <=> creating' # <<>>) /\ OneSyncAtATime'
  <2> HIDE DEF next
  <2> QED BY <1>2, <1>3, <1>4 DEF OneSyncAtATime
<1>7. CASE timeout \/ queue = <<>>
  <2>1. queue' = queue
    BY <1>3, <1>7
  <2>2. queue' # <<>> => creating' # <<>>
    BY <1>4, <1>7, <2>1 DEF NextRequests
  <2>3. Requested \ {s} \subseteq Requested'
    BY <1>5, <2>1 DEF Requested, Elems
  <2> QED BY <1>6, <2>2, <2>3
<1>8. CASE ~timeout /\ queue # <<>>
  <2>1. next = <<Head(queue)>> /\ queue' = Tail(queue)
    BY <1>3, <1>8 DEF NextRequests
  <2>2. Elems(creating') = {Head(queue)}
    BY <1>4, <2>1, ElemsShort
  <2>3. Elems(queue) \subseteq Elems(creating') \cup Elems(queue')
    BY <1>1, <1>8, <2>1, <2>2, ElemsTail
  <2>4. Requested \ {s} \subseteq Requested'
    BY <1>5, <2>3 DEF Requested, Elems
  <2>5. creating' # <<>>
    BY <2>2, ElemsShort
  <2> QED BY <1>6, <2>4, <2>5
<1> QED BY <1>7, <1>8

\* Every other step leaves the requests alone, and makes no BIG wait.
KeepsWaiting(b) == b.pending => big.pending /\ b.used = big.used /\ b.src = big.src

Quiet == UNCHANGED <<progress, queue, creating>> /\ KeepsWaiting(big')

LEMMA QuietServes ==
  ASSUME Serial, Quiet
  PROVE  Serial'
<1>1. UNCHANGED <<progress, queue, creating>> /\ Requested' = Requested
  BY DEF Quiet, Requested
<1>2. big'.pending => big'.used /\ big'.src \in Requested
  BY DEF Quiet, KeepsWaiting, Serial, WaitingIsServed
<1>3. (progress' <=> creating' # <<>>) /\ OneSyncAtATime' /\ (queue' # <<>> => creating' # <<>>)
  BY <1>1 DEF Serial, OneSyncAtATime, WaitingIsServed
<1>4. WaitingIsServed'
  BY <1>1, <1>2, <1>3 DEF WaitingIsServed
<1> QED BY <1>2, <1>3, <1>4 DEF Serial

LEMMA BlankKeeps == KeepsWaiting(FreeBig) /\ KeepsWaiting(big)
BY DEF KeepsWaiting, FreeBig

LEMMA AllocatedKeeps ==
  ASSUME NEW s
  PROVE  KeepsWaiting(Allocated(s))
BY DEF KeepsWaiting, Allocated, FreeBig

LEMMA SyncToSourceKeeps ==
  ASSUME NEW b \in Bigs, KeepsWaiting(b), NEW bits, NEW p, SyncToSource(b, bits, p)
  PROVE  KeepsWaiting(big')
BY DEF SyncToSource, KeepsWaiting, Bigs

LEMMA SynchronizeToSourceKeeps ==
  ASSUME NEW r, NEW b \in Bigs, KeepsWaiting(b), NEW p, SynchronizeToSource(r, b, p)
  PROVE  KeepsWaiting(big')
<1>1. CASE HasBig(r.src)
  BY <1>1, SyncToSourceKeeps DEF SynchronizeToSource
<1>2. CASE ~HasBig(r.src)
  BY <1>2, BlankKeeps DEF SynchronizeToSource
<1> QED BY <1>1, <1>2

LEMMA TerminateSyncKeeps ==
  ASSUME NEW s, NEW p, TerminateSync(s, p)
  PROVE  KeepsWaiting(big')
<1>1. big' = FreeBig \/ big' = big
  BY DEF TerminateSync
<1> QED BY <1>1, BlankKeeps

LEMMA PeriodicQuiet ==
  ASSUME TInv, NEW h \in Handles, PaReport(h) \/ BigInfoReport(h) \/ PaLost(h)
  PROVE  Quiet
<1>1. CASE PaReport(h)
  BY <1>1 DEF PaReport, control, controller, Quiet, KeepsWaiting, TInv, TypeOK, Bigs
<1>2. CASE BigInfoReport(h)
  <2> DEFINE b == [big EXCEPT !.info = TRUE]
  <2>1. b \in Bigs /\ KeepsWaiting(b)
    BY DEF TInv, TypeOK, Bigs, KeepsWaiting
  <2>2. \/ SyncToSource(b, want.bits, pasync)
        \/ SynchronizeToSource(bass, b, pasync)
        \/ big' = b
    BY <1>2 DEF BigInfoReport, ProcessBigInfo
  <2> HIDE DEF b
  <2>3. KeepsWaiting(big')
    BY <2>1, <2>2, SyncToSourceKeeps, SynchronizeToSourceKeeps
  <2> QED BY <1>2, <2>3 DEF BigInfoReport, control, Quiet
<1>3. CASE PaLost(h)
  BY <1>3 DEF PaLost, control, Quiet, KeepsWaiting, TInv, TypeOK, Bigs
<1> QED BY <1>1, <1>2, <1>3

LEMMA IsochronousQuiet ==
  ASSUME TInv, Isochronous
  PROVE  Quiet
<1>1. UNCHANGED <<progress, queue, creating>>
  BY DEF Isochronous, BigSynced, BigSyncFailed, BigLost, BigTerminated, control
<1>2. \/ big' = FreeBig \/ big' = big
      \/ big' = [big EXCEPT !.state = "big", !.syncing = FALSE]
  BY DEF Isochronous, BigSynced, BigSyncFailed, BigLost, BigTerminated
<1>3. KeepsWaiting(big')
  BY <1>2, BlankKeeps DEF KeepsWaiting, TInv, TypeOK, Bigs
<1> QED BY <1>1, <1>3 DEF Quiet

LEMMA SynchronizeToPaKeeps ==
  ASSUME NEW how, NEW r, SynchronizeToPa(how, r)
  PROVE  KeepsWaiting(big')
BY AllocatedKeeps DEF SynchronizeToPa

LEMMA ModifyQuiet ==
  ASSUME TInv, NEW how, NEW bits, Modify(how, bits)
  PROVE  Quiet
<1>1. CASE ModifyToPa(how, bits)
  BY <1>1, SynchronizeToPaKeeps DEF ModifyToPa, controller, Quiet
<1>2. CASE ModifyStopsBis(how, bits)
  BY <1>2, TerminateSyncKeeps DEF ModifyStopsBis, control, Quiet
<1>3. CASE ModifyStartsBis(how, bits)
  <2>1. big \in Bigs
    BY DEF TInv, TypeOK
  <2> QED BY <1>3, <2>1, BlankKeeps, SynchronizeToSourceKeeps DEF ModifyStartsBis, control, Quiet
<1>4. CASE ModifyKeepsBis(how, bits)
  BY <1>4, BlankKeeps DEF ModifyKeepsBis, control, Quiet
<1> QED BY <1>1, <1>2, <1>3, <1>4 DEF Modify

LEMMA TransferQuiet ==
  ASSUME TInv, (\E h \in Handles : TransferReceived(h)) \/ TransferFailed
  PROVE  Quiet
<1>1. UNCHANGED <<progress, queue, creating>>
  BY DEF TransferReceived, TransferFailed, control, controller
<1>2. big' = big \/ \E h : big' = [big EXCEPT !.handle = h]
  BY DEF TransferReceived, TransferFailed, HandleTransfer
<1>3. KeepsWaiting(big')
  BY <1>2, BlankKeeps DEF KeepsWaiting, TInv, TypeOK, Bigs
<1> QED BY <1>1, <1>3 DEF Quiet

LEMMA AssistantQuiet ==
  ASSUME TInv, Assistant
  PROVE  Quiet
<1>1. ASSUME NEW s, NEW how, NEW bits, AddSource(s, how, bits)
      PROVE  Quiet
  BY <1>1, SynchronizeToPaKeeps DEF AddSource, controller, Quiet
<1>2. CASE RemoveSource
  BY <1>2, BlankKeeps DEF RemoveSource, control, controller, Quiet
<1>3. CASE SetBroadcastCode
  <2>1. big \in Bigs
    BY DEF TInv, TypeOK
  <2> QED BY <1>3, <2>1, BlankKeeps, SynchronizeToSourceKeeps DEF SetBroadcastCode, control, Quiet
<1>4. CASE TransferParam \/ TransferRefused \/ AssistantLost
  BY <1>4, BlankKeeps DEF TransferParam, TransferRefused, AssistantLost, control, controller, Quiet
<1> QED BY <1>1, <1>2, <1>3, <1>4, ModifyQuiet, TransferQuiet DEF Assistant

LEMMA HostQuiet ==
  ASSUME TInv, Host
  PROVE  Quiet
<1>1. ASSUME NEW s, HostGetInfo(s) \/ HostDiscover
      PROVE  Quiet
  BY <1>1, BlankKeeps DEF HostGetInfo, HostDiscover, controller, Quiet
<1>2. ASSUME NEW s, HostStop(s)
      PROVE  Quiet
  BY <1>2, TerminateSyncKeeps DEF HostStop, control, Quiet
<1>3. ASSUME NEW s, HostTerminatePa(s)
      PROVE  Quiet
  BY <1>3, BlankKeeps DEF HostTerminatePa, control, Quiet
<1>4. ASSUME NEW s, NEW bits, HostListen(s, bits)
      PROVE  Quiet
  <2>1. big \in Bigs
    BY DEF TInv, TypeOK
  <2>2. SyncToSource(big, bits, pasync) \/ big' = big
    BY <1>4 DEF HostListen
  <2>3. UNCHANGED <<progress, queue, creating>>
    BY <1>4 DEF HostListen
  <2> QED BY <2>1, <2>2, <2>3, BlankKeeps, SyncToSourceKeeps DEF Quiet
<1> QED BY <1>1, <1>2, <1>3, <1>4 DEF Host

LEMMA ScanReportServes ==
  ASSUME TInv, Serial, NEW s \in Sources, ScanReport(s)
  PROVE  Serial'
<1>1. /\ big' = [Allocated(s) EXCEPT !.pending = TRUE] /\ RequestSync(s)
      /\ big.used => big.src = s
  BY DEF ScanReport
<1>2. big'.used /\ big'.src = s
  BY <1>1, AllocatedType DEF Allocated, FreeBig, Bigs
<1>3. WaitingIsServed'
  BY <1>1, <1>2, RequestSyncServes DEF WaitingIsServed
<1> QED BY <1>1, <1>2, <1>3, RequestSyncServes DEF Serial

\* The event of a command tells the BIG that waits for it, or one waits for another.
LEMMA PaSyncEventServes ==
  ASSUME TInv, Serial, NEW timeout \in BOOLEAN, creating # <<>>, SendNext(Head(creating), timeout),
         \/ ~big'.pending
         \/ ~Waiting(Head(creating)) /\ big' = big
  PROVE  Serial'
<1> DEFINE s == Head(creating)
<1>1. big'.pending => big'.used /\ big'.src \in Requested /\ big'.src # s
  BY DEF Waiting, Serial, WaitingIsServed
<1>2. /\ (progress' <=> creating' # <<>>) /\ OneSyncAtATime'
      /\ (queue' # <<>> => creating' # <<>>)
      /\ Requested \ {s} \subseteq Requested'
  BY SendNextServes
<1>3. WaitingIsServed'
  BY <1>1, <1>2 DEF WaitingIsServed
<1> QED BY <1>1, <1>2, <1>3 DEF Serial

LEMMA PaSyncedServes ==
  ASSUME TInv, Serial, (\E h \in Handles : PaSynced(h)) \/ (\E timeout \in BOOLEAN : PaSyncFailed(timeout))
  PROVE  Serial'
<1>1. PICK timeout \in BOOLEAN : creating # <<>> /\ SendNext(Head(creating), timeout)
  BY DEF PaSynced, PaSyncFailed
<1>2. \/ \E h : big' = [big EXCEPT !.pending = FALSE, !.handle = h, !.state = "pa"]
      \/ big' = [big EXCEPT !.pending = FALSE]
      \/ ~Waiting(Head(creating)) /\ big' = big
  BY DEF PaSynced, PaSyncFailed
<1>3. ~big'.pending \/ (~Waiting(Head(creating)) /\ big' = big)
  BY <1>2 DEF TInv, TypeOK, Bigs
<1> QED BY <1>1, <1>3, PaSyncEventServes

LEMMA InitServes == Init => Serial
<1> SUFFICES ASSUME Init PROVE Serial
  OBVIOUS
<1>1. creating = <<>> /\ queue = <<>> /\ ~progress /\ ~big.pending
  BY DEF Init, FreeBig
<1>2. OneSyncAtATime
  BY <1>1 DEF OneSyncAtATime
<1> QED BY <1>1, <1>2 DEF Serial, WaitingIsServed

LEMMA StepServes == TInv /\ Serial /\ [Next]_vars => Serial'
<1> SUFFICES ASSUME TInv, Serial, [Next]_vars PROVE Serial'
  OBVIOUS
<1>1. CASE Periodic
  BY <1>1, ScanReportServes, PaSyncedServes, PeriodicQuiet, QuietServes DEF Periodic
<1>2. CASE Isochronous \/ Assistant \/ Host
  BY <1>2, IsochronousQuiet, AssistantQuiet, HostQuiet, QuietServes
<1>3. CASE UNCHANGED vars
  <2>1. Quiet
    BY <1>3, BlankKeeps DEF vars, control, controller, Quiet
  <2> QED BY <2>1, QuietServes
<1> QED BY <1>1, <1>2, <1>3 DEF Next

LEMMA SpecServes == Spec => []Serial
BY InitType, StepType, InitServes, StepServes, PTL DEF Spec

\* The controller never has two create sync commands to work on, however many
\* sources are wanted, by whom, and however the syncs end.
THEOREM OneSync == Spec => []OneSyncAtATime
<1>1. Serial => OneSyncAtATime
  BY DEF Serial
<1> QED BY <1>1, SpecServes, PTL

\* A queued request is never left without a command whose event sends it, and a
\* BIG never waits for a sync that nobody has asked for.
THEOREM WaitingServed == Spec => []WaitingIsServed
<1>1. Serial => WaitingIsServed
  BY DEF Serial
<1> QED BY <1>1, SpecServes, PTL
-----------------------------------------------------------------------------
(* The receive state is told: every action that changes what a client sees of  *)
(* it notifies, except that SyncInfo Request waits for the controller          *)

LEMMA NotifyTells ==
  ASSUME NEW r, Notify(r)
  PROVE  ToldReceiveState'
BY DEF Notify, ToldReceiveState

LEMMA NotifyIfReceivedTells ==
  ASSUME ToldReceiveState, NEW r, NotifyIfReceived(r)
  PROVE  ToldReceiveState'
BY NotifyTells DEF NotifyIfReceived, ToldReceiveState

LEMMA SameTells ==
  ASSUME ToldReceiveState, UNCHANGED <<bass, told>>
  PROVE  ToldReceiveState'
BY DEF ToldReceiveState

\* The BISes a client asks for are no part of what it is told.
LEMMA RequestedView ==
  ASSUME NEW r \in Receives, NEW bits
  PROVE  View([r EXCEPT !.req = bits]) = View(r)
BY DEF View, Receives

LEMMA SynchronizeToSourceTells ==
  ASSUME NEW r \in Receives, NEW b, NEW p, SynchronizeToSource(r, b, p)
  PROVE  View(bass') = View(r) /\ bass'.used = r.used /\ bass'.pa = r.pa
<1> DEFINE bits == Resolved(b, r.req)
<1>1. bass' = r \/ bass' = [r EXCEPT !.req = bits]
  BY DEF SynchronizeToSource
<1> HIDE DEF bits
<1> QED BY <1>1, RequestedView DEF Receives

LEMMA PeriodicTells ==
  ASSUME TInv, ToldReceiveState, Periodic
  PROVE  ToldReceiveState'
<1>1. ASSUME NEW s, ScanReport(s)
      PROVE  ToldReceiveState'
  BY <1>1, SameTells DEF ScanReport
<1>2. ASSUME NEW h, PaSynced(h)
      PROVE  ToldReceiveState'
  BY <1>2, SameTells, NotifyIfReceivedTells DEF PaSynced
<1>3. ASSUME NEW timeout, PaSyncFailed(timeout)
      PROVE  ToldReceiveState'
  BY <1>3, SameTells, NotifyIfReceivedTells DEF PaSyncFailed
<1>4. ASSUME NEW h, PaReport(h)
      PROVE  ToldReceiveState'
  BY <1>4, SameTells DEF PaReport
<1>5. ASSUME NEW h, BigInfoReport(h)
      PROVE  ToldReceiveState'
  <2> DEFINE b == [big EXCEPT !.info = TRUE]
  <2>1. CASE SynchronizeToSource(bass, b, pasync) /\ UNCHANGED told
    <3> HIDE DEF b
    <3>1. bass \in Receives
      BY DEF TInv, TypeOK
    <3> QED BY <2>1, <3>1, SynchronizeToSourceTells DEF ToldReceiveState
  <2>2. CASE Notify([bass EXCEPT !.waiting = TRUE, !.enc = "required"])
    BY <2>2, NotifyTells
  <2>3. CASE UNCHANGED <<bass, told>>
    BY <2>3, SameTells
  <2> QED BY <1>5, <2>1, <2>2, <2>3 DEF BigInfoReport, ProcessBigInfo
<1>6. ASSUME NEW h, PaLost(h)
      PROVE  ToldReceiveState'
  BY <1>6, SameTells, NotifyIfReceivedTells DEF PaLost
<1> QED BY <1>1, <1>2, <1>3, <1>4, <1>5, <1>6 DEF Periodic

LEMMA IsochronousTells ==
  ASSUME ToldReceiveState, Isochronous
  PROVE  ToldReceiveState'
BY SameTells, NotifyIfReceivedTells DEF Isochronous, BigSynced, BigSyncFailed, BigLost, BigTerminated

LEMMA SynchronizeToPaTells ==
  ASSUME NEW how, NEW r \in Receives, SynchronizeToPa(how, r), told' = View(r) \/ (r.used /\ r.pa = "info")
  PROVE  ToldReceiveState'
BY DEF SynchronizeToPa, ToldReceiveState, Receives, View

LEMMA AfterPaIs ==
  ASSUME TInv, NEW how
  PROVE  /\ AfterPa(how) \in Receives
         /\ StopsPa(how) => AfterPa(how).pa = "not"
         /\ ~StopsPa(how) => AfterPa(how) = bass
BY DEF AfterPa, TInv, TypeOK, Receives, PaStates

LEMMA ModifyTells ==
  ASSUME TInv, ToldReceiveState, NEW how \in Ways, NEW bits \in AskedBits, Modify(how, bits)
  PROVE  ToldReceiveState'
<1>1. CASE ModifyToPa(how, bits)
  <2> DEFINE r == IF bits = "none" THEN bass ELSE [bass EXCEPT !.req = bits]
  <2>1. bass.used /\ bass.pa = "not" /\ SynchronizeToPa(how, r) /\ told' = told
    BY <1>1 DEF ModifyToPa, StartsPa
  <2>2. bass \in Receives /\ bits \in Bits
    BY BroadcastConstants DEF TInv, TypeOK, Bits
  <2>3. r \in Receives /\ View(r) = View(bass)
    BY <2>2, RequestedView DEF Receives
  <2>4. told' = View(r)
    BY <2>1, <2>3 DEF ToldReceiveState
  <2> HIDE DEF r
  <2> QED BY <2>1, <2>3, <2>4, SynchronizeToPaTells
<1>2. CASE ModifyStopsBis(how, bits)
  BY <1>2, AfterPaIs DEF ModifyStopsBis, ToldReceiveState
<1>3. CASE ModifyStartsBis(how, bits)
  <2> DEFINE r == [AfterPa(how) EXCEPT !.req = bits]
  <2>1. r \in Receives /\ View(r) = View(AfterPa(how))
    BY AfterPaIs, RequestedView, BroadcastConstants DEF Receives, Bits
  <2>2. /\ SynchronizeToSource(r, big, PaAfter(how))
        /\ told' = IF StopsPa(how) THEN View(AfterPa(how)) ELSE told
        /\ bass.used /\ bass.pa = "sync"
    BY <1>3 DEF ModifyStartsBis
  <2>3. told' = View(r)
    BY <2>1, <2>2, AfterPaIs DEF ToldReceiveState
  <2> HIDE DEF r
  <2> QED BY <2>1, <2>2, <2>3, SynchronizeToSourceTells DEF ToldReceiveState
<1>4. CASE ModifyKeepsBis(how, bits)
  BY <1>4, NotifyTells DEF ModifyKeepsBis
<1> QED BY <1>1, <1>2, <1>3, <1>4 DEF Modify

LEMMA AssistantTells ==
  ASSUME TInv, ToldReceiveState, Assistant
  PROVE  ToldReceiveState'
<1>1. ASSUME NEW s \in AddedSources, NEW how, NEW bits \in AskedBits, AddSource(s, how, bits)
      PROVE  ToldReceiveState'
  <2> DEFINE r == [FreeReceive EXCEPT !.used = TRUE, !.src = s, !.req = bits]
  <2>1. r \in Receives
    BY BroadcastConstants DEF FreeReceive, Receives, PaStates, EncStates, Bits
  <2>2. told' = View(r) /\ SynchronizeToPa(how, r)
    BY <1>1 DEF AddSource
  <2> HIDE DEF r
  <2> QED BY <2>1, <2>2, SynchronizeToPaTells
<1>2. CASE SetBroadcastCode
  <2> DEFINE r == [bass EXCEPT !.waiting = FALSE, !.enc = "decrypting"]
  <2>1. r \in Receives
    BY DEF TInv, TypeOK, Receives, EncStates
  <2>2. told' = View(r) /\ SynchronizeToSource(r, big, pasync)
    BY <1>2 DEF SetBroadcastCode
  <2> HIDE DEF r
  <2> QED BY <2>1, <2>2, SynchronizeToSourceTells DEF ToldReceiveState
<1>3. CASE RemoveSource \/ TransferParam \/ TransferRefused \/ AssistantLost
  BY <1>3, NotifyTells, SameTells DEF RemoveSource, TransferParam, TransferRefused, AssistantLost,
     ToldReceiveState
<1>4. CASE (\E h \in Handles : TransferReceived(h)) \/ TransferFailed
  BY <1>4, NotifyTells, SameTells DEF TransferReceived, TransferFailed, HandleTransfer
<1> QED BY <1>1, <1>2, <1>3, <1>4, ModifyTells DEF Assistant

LEMMA HostTells ==
  ASSUME ToldReceiveState, Host
  PROVE  ToldReceiveState'
BY SameTells DEF Host, HostGetInfo, HostStop, HostTerminatePa, HostListen, HostDiscover

LEMMA InitTells == Init => ToldReceiveState
BY DEF Init, ToldReceiveState

LEMMA StepTells == TInv /\ ToldReceiveState /\ [Next]_vars => ToldReceiveState'
<1> SUFFICES ASSUME TInv, ToldReceiveState, [Next]_vars PROVE ToldReceiveState'
  OBVIOUS
<1>1. CASE Next
  BY <1>1, PeriodicTells, IsochronousTells, AssistantTells, HostTells DEF Next
<1>2. CASE UNCHANGED vars
  BY <1>2, SameTells DEF vars
<1> QED BY <1>1, <1>2

\* A client that reads its receive state knows it as it is, however many sources
\* there are and whoever drives the sink.
THEOREM ToldState == Spec => []ToldReceiveState
BY InitType, StepType, InitTells, StepTells, PTL DEF Spec

-----------------------------------------------------------------------------
(* What the BIG and the receive state say of the controller                    *)

\* The code tells the events of sources apart by their SIDs alone.
DistinctSids == \A s, t \in Sources : Sid[s] = Sid[t] => s = t

\* A sync transfer that comes when nobody waits for it leaves a sync which a kept
\* handle of another source may name later: without transfers, or with one source
\* only, there is none.
NoTransfers == "past" \notin Ways

OneSource == \A s, t \in Sources : s = t

\* A BIG that is not in use is blank.
BlankUnlessUsed == big.used \/ big = FreeBig

\* The handle of the BIG, which may be that of a sync that is lost, is never that
\* of another source's sync.
HandleOfItsSource ==
  big.handle \in Handles => pasync[big.handle] \in {NoSource, big.src}

\* The BIG sync of the controller is of the source whose SID names it.
IsoOfItsSource == iso.st # "none" => iso.src \in Sources /\ iso.sid = Sid[iso.src]

Coherent == HandleOfItsSource /\ IsoOfItsSource /\ BaseNeverOfAnother /\ BigStateIsTrue

\* A sync transfer is of a source.
TransferHasSource == past.st # "none" => past.src \in Sources

\* The state of the BIG that all of it is about
Linked == BlankUnlessUsed /\ TransferHasSource /\ (~overrun => Coherent)

LEMMA FreeBigFields ==
  /\ ~FreeBig.used /\ FreeBig.handle = NoSync /\ FreeBig.state = "idle"
  /\ FreeBig.base = NoSource /\ ~FreeBig.pending /\ FreeBig.src = NoSource
BY DEF FreeBig

LEMMA NoSyncIsNoHandle == NoSync \notin Handles /\ ZeroSync \notin Handles
BY BroadcastConstants

-----------------------------------------------------------------------------
(* How a step may move the BIG                                                 *)

\* What a BIG sync refers to stays.
SameBig(b) ==
  /\ b.used = big.used /\ b.src = big.src /\ b.handle = big.handle
  /\ b.state = big.state /\ b.base = big.base

\* The controller ends syncs, but not one a BIG synchronized BIG needs.
Ending ==
  /\ pasync' \in Syncs
  /\ \A h \in Handles : pasync'[h] \in {pasync[h], NoSource}
  /\ iso' = iso \/ (iso.st \in {"creating", "synced"} /\ iso' = [iso EXCEPT !.st = "terminating"])
  /\ iso.st = "synced" /\ iso'.st = "synced" => stream' = stream

\* The BIG sync of the controller is kept, ended, or being ended.
IsoKeepsSource ==
  \/ iso' = iso
  \/ iso' = NoBigSync
  \/ iso.st # "none" /\ iso' = [iso EXCEPT !.st = "terminating"]

LEMMA FreedLinks ==
  ASSUME TInv, Linked, big' = FreeBig, pasync' \in Syncs, UNCHANGED <<past, overrun>>, IsoKeepsSource
  PROVE  Linked'
<1>1. BlankUnlessUsed' /\ TransferHasSource'
  BY DEF Linked, BlankUnlessUsed, TransferHasSource
<1>2. HandleOfItsSource' /\ BaseNeverOfAnother' /\ BigStateIsTrue'
  BY FreeBigFields, NoSyncIsNoHandle DEF HandleOfItsSource, BaseNeverOfAnother, BigStateIsTrue
<1>3. IsoOfItsSource => IsoOfItsSource'
  BY DEF IsoKeepsSource, IsoOfItsSource, NoBigSync, TInv, TypeOK, BigSyncs
<1> QED BY <1>1, <1>2, <1>3 DEF Linked, Coherent

LEMMA SameLinks ==
  ASSUME TInv, Linked, SameBig(big'), (~big.used => big' = big), Ending, UNCHANGED <<past, overrun>>
  PROVE  Linked'
<1>1. BlankUnlessUsed' /\ TransferHasSource'
  BY DEF Linked, BlankUnlessUsed, TransferHasSource, SameBig
<1>2. IsoOfItsSource => IsoOfItsSource'
  BY DEF IsoOfItsSource, Ending, TInv, TypeOK, BigSyncs
<1>3. HandleOfItsSource => HandleOfItsSource'
  BY DEF HandleOfItsSource, Ending, SameBig
<1>4. BaseNeverOfAnother => BaseNeverOfAnother'
  BY DEF BaseNeverOfAnother, SameBig
<1>5. BigStateIsTrue => BigStateIsTrue'
  BY DEF BigStateIsTrue, Ending, SameBig, TInv, TypeOK, BigSyncs
<1> QED BY <1>1, <1>2, <1>3, <1>4, <1>5 DEF Linked, Coherent

\* A BIG sync that starts is of the source of the BIG.
LEMMA SyncToSourceLinks ==
  ASSUME TInv, Linked, NEW b \in Bigs, SameBig(b), b.used, NEW bits, NEW p \in Syncs,
         \A h \in Handles : p[h] \in {pasync[h], NoSource},
         SyncToSource(b, bits, p), pasync' = p, UNCHANGED <<past, overrun, stream>>
  PROVE  Linked'
<1>1. SameBig(big') /\ big.used
  BY DEF SyncToSource, SameBig, Bigs
<1>2. CASE Accepts(b, bits, p)
  <2>1. /\ iso' = [st |-> "creating", src |-> p[b.handle], sid |-> Sid[b.src]]
        /\ iso.st = "none" /\ b.handle \in Handles /\ p[b.handle] # NoSource
    BY <1>2 DEF SyncToSource, Accepts
  <2>2. BlankUnlessUsed' /\ TransferHasSource'
    BY <1>1 DEF Linked, BlankUnlessUsed, TransferHasSource, SameBig
  <2>3. big.src \in Sources
    BY <1>1 DEF TInv, UsedHasSource
  <2>4. HandleOfItsSource => HandleOfItsSource' /\ IsoOfItsSource'
    <3>1. ASSUME HandleOfItsSource
          PROVE  p[b.handle] = big.src
      BY <2>1, <3>1 DEF HandleOfItsSource, SameBig
    <3>2. HandleOfItsSource => HandleOfItsSource'
      BY <1>1 DEF HandleOfItsSource, SameBig
    <3> QED BY <2>1, <2>3, <3>1, <3>2 DEF IsoOfItsSource, SameBig
  <2>5. BaseNeverOfAnother => BaseNeverOfAnother'
    BY <1>1 DEF BaseNeverOfAnother, SameBig
  <2>6. BigStateIsTrue => BigStateIsTrue'
    BY <1>1, <2>1 DEF BigStateIsTrue, SameBig
  <2> QED BY <2>2, <2>4, <2>5, <2>6 DEF Linked, Coherent
<1>3. CASE ~Accepts(b, bits, p)
  <2>1. Ending
    BY <1>3 DEF SyncToSource, Ending
  <2> QED BY <1>1, <2>1, SameLinks
<1> QED BY <1>2, <1>3

LEMMA SynchronizeToSourceLinks ==
  ASSUME TInv, Linked, NEW r, NEW b \in Bigs, SameBig(b), (~big.used => b = big),
         NEW p \in Syncs, \A h \in Handles : p[h] \in {pasync[h], NoSource},
         SynchronizeToSource(r, b, p) \/ (big' = b /\ iso' = iso),
         pasync' = p, UNCHANGED <<past, overrun, stream>>,
         SynchronizeToSource(r, b, p) => b = big \/ HasBig(r.src)
  PROVE  Linked'
<1> DEFINE bits == Resolved(b, r.req)
<1>1. CASE HasBig(r.src) /\ SynchronizeToSource(r, b, p)
  <2>1. SyncToSource(b, bits, p) /\ b.used
    BY <1>1 DEF SynchronizeToSource, HasBig, SameBig
  <2> HIDE DEF bits
  <2> QED BY <2>1, SyncToSourceLinks
<1>2. CASE ~(HasBig(r.src) /\ SynchronizeToSource(r, b, p))
  <2>1. SameBig(big') /\ (~big.used => big' = big) /\ iso' = iso
    BY <1>2 DEF SynchronizeToSource, SameBig
  <2>2. Ending
    BY <2>1 DEF Ending
  <2> QED BY <2>1, <2>2, SameLinks
<1> QED BY <1>1, <1>2

LEMMA AllocatedLinks ==
  ASSUME TInv, Linked, NEW s, NEW v,
         big' = Allocated(s) \/ big' = [Allocated(s) EXCEPT !.pending = v],
         TransferHasSource', UNCHANGED <<pasync, iso, stream, overrun>>
  PROVE  Linked'
<1>1. CASE big.used
  <2>1. SameBig(big')
    BY <1>1 DEF Allocated, SameBig, TInv, TypeOK, Bigs
  <2>2. BlankUnlessUsed'
    BY <1>1, <2>1 DEF BlankUnlessUsed, SameBig
  <2>3. Coherent => Coherent'
    BY <2>1 DEF Coherent, HandleOfItsSource, IsoOfItsSource, BaseNeverOfAnother, BigStateIsTrue, SameBig
  <2> QED BY <2>2, <2>3 DEF Linked
<1>2. CASE ~big.used
  <2>1. /\ big'.used /\ big'.handle = NoSync /\ big'.state = "idle" /\ big'.base = NoSource
    BY <1>2 DEF Allocated, FreeBig
  <2>2. Coherent => Coherent'
    BY <2>1, NoSyncIsNoHandle
       DEF Coherent, HandleOfItsSource, IsoOfItsSource, BaseNeverOfAnother, BigStateIsTrue
  <2>3. BlankUnlessUsed'
    BY <2>1 DEF BlankUnlessUsed
  <2> QED BY <2>2, <2>3 DEF Linked
<1> QED BY <1>1, <1>2

-----------------------------------------------------------------------------
(* Linked: periodic advertising                                                *)

LEMMA ScanReportLinks ==
  ASSUME TInv, Linked, NEW s, ScanReport(s)
  PROVE  Linked'
<1>1. big' = [Allocated(s) EXCEPT !.pending = TRUE] /\ UNCHANGED <<pasync, iso, past, stream, overrun>>
  BY DEF ScanReport
<1>2. TransferHasSource'
  BY <1>1 DEF Linked, TransferHasSource
<1> QED BY <1>1, <1>2, AllocatedLinks

\* The BIG that waits is the one of the source, or the event is for nobody.
LEMMA PaSyncedLinks ==
  ASSUME TInv, DistinctSids, Linked, NEW h \in Handles, PaSynced(h)
  PROVE  Linked'
<1> DEFINE s == Head(creating)
<1>1. /\ creating # <<>> /\ s \in Sources /\ pasync[h] = NoSource
      /\ pasync' = [pasync EXCEPT ![h] = s] /\ UNCHANGED <<iso, past, stream>>
  BY DEF PaSynced, TInv, TypeOK
<1>2. TransferHasSource'
  BY <1>1 DEF Linked, TransferHasSource
<1>3. CASE Waiting(s)
  <2>1. /\ big' = [big EXCEPT !.pending = FALSE, !.handle = h, !.state = "pa"]
        /\ overrun' = overrun
    BY <1>3 DEF PaSynced
  <2>2. big.used /\ big.src = s
    BY <1>1, <1>3 DEF Waiting, DistinctSids, TInv, UsedHasSource
  <2>3. big'.used /\ big'.handle = h /\ big'.state = "pa" /\ big'.src = s /\ big'.base = big.base
    BY <2>1, <2>2 DEF TInv, TypeOK, Bigs
  <2>4. Coherent => Coherent'
    BY <1>1, <2>2, <2>3
       DEF Coherent, HandleOfItsSource, IsoOfItsSource, BaseNeverOfAnother, BigStateIsTrue, TInv, TypeOK
  <2> QED BY <1>2, <2>1, <2>3, <2>4 DEF Linked, BlankUnlessUsed
<1>4. CASE ~Waiting(s)
  <2>1. overrun' /\ big' = big
    BY <1>4 DEF PaSynced
  <2> QED BY <1>2, <2>1 DEF Linked, BlankUnlessUsed
<1> QED BY <1>3, <1>4

LEMMA PaSyncFailedLinks ==
  ASSUME TInv, Linked, NEW timeout, PaSyncFailed(timeout)
  PROVE  Linked'
<1>1. UNCHANGED <<pasync, iso, past, stream, overrun>>
  BY DEF PaSyncFailed
<1>2. big' = big \/ (big.used /\ big' = [big EXCEPT !.pending = FALSE])
  BY DEF PaSyncFailed, Waiting
<1>3. SameBig(big') /\ (~big.used => big' = big)
  BY <1>2 DEF SameBig, TInv, TypeOK, Bigs
<1>4. Ending
  BY <1>1 DEF Ending, Syncs, TInv, TypeOK
<1> QED BY <1>1, <1>3, <1>4, SameLinks

LEMMA PaReportLinks ==
  ASSUME TInv, Linked, NEW h \in Handles, PaReport(h)
  PROVE  Linked'
<1>1. /\ pasync[h] # NoSource /\ big.used /\ big.handle = h
      /\ big' = [big EXCEPT !.base = pasync[h]]
      /\ UNCHANGED <<pasync, iso, past, stream, overrun>>
  BY DEF PaReport, HasBigSyncHandle, controller
<1>2. /\ big'.used = big.used /\ big'.src = big.src /\ big'.handle = big.handle
      /\ big'.state = big.state /\ big'.base = pasync[h]
  BY <1>1 DEF TInv, TypeOK, Bigs
<1>3. Coherent => Coherent'
  BY <1>1, <1>2 DEF Coherent, HandleOfItsSource, IsoOfItsSource, BaseNeverOfAnother, BigStateIsTrue
<1> QED BY <1>1, <1>2, <1>3 DEF Linked, BlankUnlessUsed, TransferHasSource

LEMMA BigInfoReportLinks ==
  ASSUME TInv, Linked, NEW h \in Handles, BigInfoReport(h)
  PROVE  Linked'
<1> DEFINE b == [big EXCEPT !.info = TRUE]
<1>1. big.used /\ UNCHANGED <<pasync, past, stream, overrun>>
  BY DEF BigInfoReport, HasBigSyncHandle
<1>2. b \in Bigs /\ SameBig(b)
  BY DEF SameBig, TInv, TypeOK, Bigs
<1>3. pasync \in Syncs
  BY DEF TInv, TypeOK, Syncs
<1>4. \/ SyncToSource(b, want.bits, pasync)
      \/ ReceivesBig /\ SynchronizeToSource(bass, b, pasync)
      \/ big' = b /\ iso' = iso
  BY DEF BigInfoReport, ProcessBigInfo
<1> HIDE DEF b
<1>5. CASE SyncToSource(b, want.bits, pasync)
  BY <1>1, <1>2, <1>3, <1>5, SyncToSourceLinks DEF SameBig
<1>6. CASE ReceivesBig /\ SynchronizeToSource(bass, b, pasync)
  <2>1. HasBig(bass.src)
    BY <1>1, <1>6 DEF ReceivesBig, HasBig
  <2> QED BY <1>1, <1>2, <1>3, <1>6, <2>1, SynchronizeToSourceLinks
<1>7. CASE big' = b /\ iso' = iso
  <2>1. Ending
    BY <1>1, <1>3, <1>7 DEF Ending
  <2> QED BY <1>1, <1>2, <1>7, <2>1, SameLinks
<1> QED BY <1>4, <1>5, <1>6, <1>7

LEMMA PaLostLinks ==
  ASSUME TInv, Linked, NEW h \in Handles, PaLost(h)
  PROVE  Linked'
<1>1. pasync' = Without(pasync, h) /\ UNCHANGED <<iso, past, stream, overrun>>
  BY DEF PaLost
<1>2. pasync' \in Syncs /\ \A k \in Handles : pasync'[k] \in {pasync[k], NoSource}
  BY <1>1 DEF Without, Syncs, TInv, TypeOK
<1>3. CASE HasBigSyncHandle(h)
  <2>1. big' = [big EXCEPT !.state = "pa_lost"] /\ big.used
    BY <1>3 DEF PaLost, HasBigSyncHandle
  <2>2. /\ big'.used = big.used /\ big'.src = big.src /\ big'.handle = big.handle
        /\ big'.state = "pa_lost" /\ big'.base = big.base
    BY <2>1 DEF TInv, TypeOK, Bigs
  <2>3. Coherent => Coherent'
    BY <1>1, <1>2, <2>2 DEF Coherent, HandleOfItsSource, IsoOfItsSource, BaseNeverOfAnother, BigStateIsTrue
  <2> QED BY <1>1, <2>1, <2>2, <2>3 DEF Linked, BlankUnlessUsed, TransferHasSource
<1>4. CASE ~HasBigSyncHandle(h)
  <2>1. big' = big
    BY <1>4 DEF PaLost
  <2>2. Ending /\ SameBig(big')
    BY <1>1, <1>2, <2>1 DEF Ending, SameBig
  <2> QED BY <1>1, <2>1, <2>2, SameLinks
<1> QED BY <1>3, <1>4

-----------------------------------------------------------------------------
(* Linked: the BIG                                                             *)

LEMMA BigSyncedLinks ==
  ASSUME TInv, DistinctSids, Linked, BigSynced
  PROVE  Linked'
<1>1. iso.st = "creating" /\ iso' = [iso EXCEPT !.st = "synced"] /\ UNCHANGED <<past, overrun>>
  BY DEF BigSynced
<1>2. iso'.st = "synced" /\ iso'.src = iso.src /\ iso'.sid = iso.sid
  BY <1>1 DEF TInv, TypeOK, BigSyncs
<1>3. CASE HasBigHandle(iso.sid)
  <2>1. /\ big' = [big EXCEPT !.state = "big", !.syncing = FALSE] /\ big.used
        /\ pasync' = Without(pasync, big.handle) /\ stream' = TRUE
    BY <1>3 DEF BigSynced, HasBigHandle
  <2>2. /\ big'.used /\ big'.src = big.src /\ big'.handle = big.handle
        /\ big'.state = "big" /\ big'.base = big.base
    BY <2>1 DEF TInv, TypeOK, Bigs
  <2>3. IsoOfItsSource => iso.src = big.src
    BY <1>1, <1>3, <2>1 DEF IsoOfItsSource, HasBigHandle, DistinctSids, TInv, UsedHasSource
  <2>4. HandleOfItsSource => HandleOfItsSource'
    BY <2>1, <2>2 DEF HandleOfItsSource, Without
  <2>5. Coherent => Coherent'
    BY <1>1, <1>2, <2>1, <2>2, <2>3, <2>4 DEF Coherent, IsoOfItsSource, BaseNeverOfAnother, BigStateIsTrue
  <2> QED BY <1>1, <2>2, <2>5 DEF Linked, BlankUnlessUsed, TransferHasSource
<1>4. CASE ~HasBigHandle(iso.sid)
  <2>1. UNCHANGED <<big, pasync, stream>>
    BY <1>4 DEF BigSynced
  <2>2. Coherent => Coherent'
    BY <1>1, <1>2, <2>1 DEF Coherent, HandleOfItsSource, IsoOfItsSource, BaseNeverOfAnother, BigStateIsTrue
  <2> QED BY <1>1, <2>1, <2>2 DEF Linked, BlankUnlessUsed, TransferHasSource
<1> QED BY <1>3, <1>4

LEMMA BigSyncFailedLinks ==
  ASSUME TInv, Linked, BigSyncFailed
  PROVE  Linked'
<1>1. iso.st = "creating" /\ iso' = NoBigSync /\ UNCHANGED <<big, pasync, past, stream, overrun>>
  BY DEF BigSyncFailed
<1>2. Coherent => Coherent'
  BY <1>1 DEF Coherent, HandleOfItsSource, IsoOfItsSource, BaseNeverOfAnother, BigStateIsTrue, NoBigSync
<1> QED BY <1>1, <1>2 DEF Linked, BlankUnlessUsed, TransferHasSource

\* The end of the BIG sync finds the BIG that is synchronized.
LEMMA BigEndedLinks ==
  ASSUME TInv, Linked, BigLost \/ BigTerminated
  PROVE  Linked'
<1>1. iso.st \in {"synced", "terminating"} /\ iso' = NoBigSync /\ UNCHANGED <<pasync, past, overrun>>
  BY DEF BigLost, BigTerminated
<1>2. CASE HasBigHandle(iso.sid)
  <2>1. big' = FreeBig /\ pasync' \in Syncs /\ IsoKeepsSource
    BY <1>1, <1>2 DEF BigLost, BigTerminated, IsoKeepsSource, Syncs, TInv, TypeOK
  <2> QED BY <1>1, <2>1, FreedLinks
<1>3. CASE ~HasBigHandle(iso.sid)
  <2>1. UNCHANGED <<big, stream>>
    BY <1>3 DEF BigLost, BigTerminated
  <2>2. ASSUME Coherent, ~overrun
        PROVE  big.state # "big"
    <3>1. iso.src \in Sources /\ iso.sid = Sid[iso.src]
      BY <1>1, <2>2 DEF Coherent, IsoOfItsSource
    <3>2. big.state = "big" => iso.src = big.src
      BY <2>2 DEF Coherent, BigStateIsTrue
    <3> QED BY <1>3, <3>1, <3>2, FreeBigFields DEF HasBigHandle, Linked, BlankUnlessUsed
  <2>3. Coherent /\ ~overrun => Coherent'
    BY <1>1, <2>1, <2>2
       DEF Coherent, HandleOfItsSource, IsoOfItsSource, BaseNeverOfAnother, BigStateIsTrue, NoBigSync
  <2> QED BY <1>1, <2>1, <2>3 DEF Linked, BlankUnlessUsed, TransferHasSource
<1> QED BY <1>2, <1>3

-----------------------------------------------------------------------------
(* Linked: the assistant                                                       *)

\* Without transfers the receive state has no handle: what a client's command ends
\* is no sync of the controller.
NoneTransferred == NoTransfers => past = NoTransfer /\ bass.handle = ZeroSync

LEMMA SynchronizeToPaLinks ==
  ASSUME TInv, Linked, NEW how, NEW r, r.src \in Sources, SynchronizeToPa(how, r),
         UNCHANGED <<pasync, iso, stream, overrun>>
  PROVE  Linked'
<1>1. big' = Allocated(r.src)
  BY DEF SynchronizeToPa
<1>2. TransferHasSource'
  BY DEF SynchronizeToPa, Linked, TransferHasSource
<1> QED BY <1>1, <1>2, AllocatedLinks

LEMMA PaAfterEnds ==
  ASSUME TInv, NEW how
  PROVE  PaAfter(how) \in Syncs /\ \A h \in Handles : PaAfter(how)[h] \in {pasync[h], NoSource}
BY DEF PaAfter, Without, Syncs, TInv, TypeOK

\* lehs_bis_terminate_sync ends the BIG sync that a synchronized BIG has.
LEMMA TerminateSyncLinks ==
  ASSUME TInv, Linked, NEW s, NEW p \in Syncs, \A h \in Handles : p[h] \in {pasync[h], NoSource},
         TerminateSync(s, p), UNCHANGED <<past, overrun>>
  PROVE  Linked'
<1>1. pasync' \in Syncs /\ \A h \in Handles : pasync'[h] \in {pasync[h], NoSource}
  BY DEF TerminateSync, Without, Syncs
<1>2. CASE HasBig(s) /\ big' = FreeBig
  <2>1. IsoKeepsSource
    BY <1>2 DEF TerminateSync, IsoKeepsSource, TInv, TypeOK, BigSyncs
  <2> QED BY <1>1, <1>2, <2>1, FreedLinks
<1>3. CASE HasBig(s) /\ big' # FreeBig
  <2>1. /\ big' = big /\ big.used /\ big.src = s /\ stream' = FALSE
        /\ iso' = IF /\ big.state = "big" \/ big.syncing
                     /\ iso.st \in {"creating", "synced"}
                     /\ iso.sid = Sid[s]
                  THEN [iso EXCEPT !.st = "terminating"] ELSE iso
    BY <1>3 DEF TerminateSync, HasBig
  <2>2. IsoOfItsSource => IsoOfItsSource'
    BY <2>1 DEF IsoOfItsSource, TInv, TypeOK, BigSyncs
  <2>3. HandleOfItsSource => HandleOfItsSource'
    BY <1>1, <2>1 DEF HandleOfItsSource
  <2>4. IsoOfItsSource /\ BigStateIsTrue => BigStateIsTrue'
    <3> SUFFICES ASSUME IsoOfItsSource, BigStateIsTrue, ~overrun, big.state = "big"
                 PROVE  iso'.st = "terminating" /\ iso'.src = big.src
      BY <2>1 DEF BigStateIsTrue
    <3>1. iso.st \in {"synced", "terminating"} /\ iso.src = big.src /\ iso.sid = Sid[big.src]
      BY DEF IsoOfItsSource, BigStateIsTrue
    <3> QED BY <2>1, <3>1 DEF TInv, TypeOK, BigSyncs
  <2>5. Coherent => Coherent'
    BY <2>1, <2>2, <2>3, <2>4 DEF Coherent, BaseNeverOfAnother
  <2> QED BY <2>1, <2>5 DEF Linked, BlankUnlessUsed, TransferHasSource
<1>4. CASE ~HasBig(s)
  <2>1. UNCHANGED <<big, iso, stream>>
    BY <1>4 DEF TerminateSync
  <2>2. Ending /\ SameBig(big')
    BY <1>1, <2>1 DEF Ending, SameBig
  <2> QED BY <2>1, <2>2, SameLinks
<1> QED BY <1>2, <1>3, <1>4

LEMMA ModifyLinks ==
  ASSUME TInv, Linked, NEW how, NEW bits, Modify(how, bits)
  PROVE  Linked'
<1>1. CASE ModifyToPa(how, bits)
  <2> DEFINE r == IF bits = "none" THEN bass ELSE [bass EXCEPT !.req = bits]
  <2>1. r.src \in Sources
    BY <1>1 DEF ModifyToPa, TInv, TypeOK, UsedHasSource, Receives
  <2>2. SynchronizeToPa(how, r) /\ UNCHANGED <<pasync, iso, stream, overrun>>
    BY <1>1 DEF ModifyToPa, controller
  <2> HIDE DEF r
  <2> QED BY <2>1, <2>2, SynchronizeToPaLinks
<1>2. CASE ModifyStopsBis(how, bits)
  BY <1>2, PaAfterEnds, TerminateSyncLinks DEF ModifyStopsBis
<1>3. CASE ModifyStartsBis(how, bits)
  <2> DEFINE r == [AfterPa(how) EXCEPT !.req = bits]
             p == PaAfter(how)
  <2>1. SynchronizeToSource(r, big, p) /\ pasync' = p /\ UNCHANGED <<past, stream, overrun>>
    BY <1>3 DEF ModifyStartsBis
  <2>2. p \in Syncs /\ \A h \in Handles : p[h] \in {pasync[h], NoSource}
    BY PaAfterEnds
  <2>3. big \in Bigs /\ SameBig(big)
    BY DEF SameBig, TInv, TypeOK
  <2> HIDE DEF r, p
  <2> QED BY <2>1, <2>2, <2>3, SynchronizeToSourceLinks
<1>4. CASE ModifyKeepsBis(how, bits)
  <2>1. UNCHANGED <<big, iso, past, stream, overrun>> /\ pasync' = PaAfter(how)
    BY <1>4 DEF ModifyKeepsBis
  <2>2. Ending /\ SameBig(big')
    BY <2>1, PaAfterEnds DEF Ending, SameBig
  <2> QED BY <2>1, <2>2, SameLinks
<1> QED BY <1>1, <1>2, <1>3, <1>4 DEF Modify

\* The handle of a transfer that is in time is of the source of the receive state.
LEMMA TransferLinks ==
  ASSUME TInv, DistinctSids, NoTransfers \/ OneSource, NoneTransferred, Linked,
         (\E h \in Handles : TransferReceived(h)) \/ TransferFailed
  PROVE  Linked'
<1>1. OneSource
  BY DEF TransferReceived, TransferFailed, NoneTransferred, NoTransfer
<1>2. /\ past' = NoTransfer /\ UNCHANGED <<iso, stream, overrun>>
      /\ pasync' \in Syncs
  BY DEF TransferReceived, TransferFailed, controller, TInv, TypeOK, Syncs, Transfers
<1>3. \/ big' = big
      \/ big.used /\ \E h \in Handles \cup {NoSync} : big' = [big EXCEPT !.handle = h]
  BY DEF TransferReceived, TransferFailed, HandleTransfer, HasBig
<1>4. /\ big'.used = big.used /\ big'.src = big.src /\ big'.state = big.state /\ big'.base = big.base
      /\ big'.used \/ big' = FreeBig
  BY <1>3 DEF Linked, BlankUnlessUsed, TInv, TypeOK, Bigs
<1>5. HandleOfItsSource'
  <2>1. CASE big'.used
    BY <1>1, <1>2, <1>4, <2>1 DEF HandleOfItsSource, OneSource, TInv, UsedHasSource, Syncs
  <2>2. CASE big' = FreeBig
    BY <2>2, FreeBigFields, NoSyncIsNoHandle DEF HandleOfItsSource
  <2> QED BY <1>4, <2>1, <2>2
<1>6. Coherent => Coherent'
  BY <1>2, <1>4, <1>5 DEF Coherent, IsoOfItsSource, BaseNeverOfAnother, BigStateIsTrue
<1>7. TransferHasSource'
  BY <1>2 DEF TransferHasSource, NoTransfer
<1> QED BY <1>2, <1>4, <1>6, <1>7 DEF Linked, BlankUnlessUsed

LEMMA AssistantLinks ==
  ASSUME TInv, DistinctSids, NoTransfers \/ OneSource, NoneTransferred, Linked, Assistant
  PROVE  Linked'
<1>1. ASSUME NEW s \in AddedSources, NEW how, NEW bits, AddSource(s, how, bits)
      PROVE  Linked'
  <2> DEFINE r == [FreeReceive EXCEPT !.used = TRUE, !.src = s, !.req = bits]
  <2>1. r.src \in Sources
    BY BroadcastConstants DEF FreeReceive
  <2>2. SynchronizeToPa(how, r) /\ UNCHANGED <<pasync, iso, stream, overrun>>
    BY <1>1 DEF AddSource, controller
  <2> HIDE DEF r
  <2> QED BY <2>1, <2>2, SynchronizeToPaLinks
<1>2. CASE RemoveSource
  <2>1. UNCHANGED <<pasync, iso, past, stream, overrun>> /\ (big' = FreeBig \/ big' = big)
    BY <1>2 DEF RemoveSource, controller
  <2>2. pasync' \in Syncs /\ Ending /\ IsoKeepsSource
    BY <2>1 DEF Ending, IsoKeepsSource, TInv, TypeOK, Syncs
  <2>3. CASE big' = big
    BY <2>1, <2>2, <2>3, SameLinks DEF SameBig
  <2> QED BY <2>1, <2>2, <2>3, FreedLinks
<1>3. CASE SetBroadcastCode
  <2> DEFINE r == [bass EXCEPT !.waiting = FALSE, !.enc = "decrypting"]
  <2>1. SynchronizeToSource(r, big, pasync) /\ UNCHANGED <<pasync, past, stream, overrun>>
    BY <1>3 DEF SetBroadcastCode
  <2>2. big \in Bigs /\ SameBig(big) /\ pasync \in Syncs
    BY DEF SameBig, TInv, TypeOK, Syncs
  <2> HIDE DEF r
  <2> QED BY <2>1, <2>2, SynchronizeToSourceLinks
<1>4. CASE TransferParam \/ TransferRefused \/ AssistantLost
  <2>1. UNCHANGED <<big, pasync, iso, stream, overrun>>
    BY <1>4 DEF TransferParam, TransferRefused, AssistantLost, controller
  <2>2. past' = NoTransfer \/ (past.st # "none" /\ past' = [past EXCEPT !.st = "enabled"])
    BY <1>4 DEF TransferParam, TransferRefused, AssistantLost
  <2>3. TransferHasSource'
    BY <2>2 DEF Linked, TransferHasSource, NoTransfer, TInv, TypeOK, Transfers
  <2> QED BY <2>1, <2>3 DEF Linked, BlankUnlessUsed, Coherent, HandleOfItsSource, IsoOfItsSource,
             BaseNeverOfAnother, BigStateIsTrue
<1> QED BY <1>1, <1>2, <1>3, <1>4, ModifyLinks, TransferLinks DEF Assistant

-----------------------------------------------------------------------------
(* Linked: the host                                                            *)

LEMMA UntouchedLinks ==
  ASSUME TInv, Linked, UNCHANGED <<big, pasync, iso, past, stream, overrun>>
  PROVE  Linked'
BY DEF Linked, BlankUnlessUsed, TransferHasSource, Coherent, HandleOfItsSource, IsoOfItsSource,
       BaseNeverOfAnother, BigStateIsTrue

LEMMA HostLinks ==
  ASSUME TInv, Linked, Host
  PROVE  Linked'
<1>1. ASSUME NEW s, HostGetInfo(s) \/ HostDiscover
      PROVE  Linked'
  BY <1>1, UntouchedLinks DEF HostGetInfo, HostDiscover, controller
<1>2. ASSUME NEW s, HostStop(s)
      PROVE  Linked'
  <2>1. pasync \in Syncs /\ \A h \in Handles : pasync[h] \in {pasync[h], NoSource}
    BY DEF TInv, TypeOK, Syncs
  <2> QED BY <1>2, <2>1, TerminateSyncLinks DEF HostStop
<1>3. ASSUME NEW s, HostTerminatePa(s)
      PROVE  Linked'
  <2>1. big' = FreeBig /\ UNCHANGED <<iso, past, stream, overrun>> /\ IsoKeepsSource
    BY <1>3 DEF HostTerminatePa, IsoKeepsSource
  <2>2. pasync' \in Syncs
    BY <1>3, WithoutType DEF HostTerminatePa, TInv, TypeOK, Syncs
  <2> QED BY <2>1, <2>2, FreedLinks
<1>4. ASSUME NEW s, NEW bits, HostListen(s, bits)
      PROVE  Linked'
  <2>1. UNCHANGED <<pasync, past, stream, overrun>>
    BY <1>4 DEF HostListen
  <2>2. CASE HasBig(s) /\ SyncToSource(big, bits, pasync)
    <3>1. big \in Bigs /\ SameBig(big) /\ big.used /\ pasync \in Syncs
      BY <2>2 DEF SameBig, HasBig, TInv, TypeOK, Syncs
    <3> QED BY <2>1, <2>2, <3>1, SyncToSourceLinks
  <2>3. CASE UNCHANGED <<big, iso>>
    BY <2>1, <2>3, UntouchedLinks
  <2> QED BY <1>4, <2>2, <2>3 DEF HostListen
<1> QED BY <1>1, <1>2, <1>3, <1>4 DEF Host

LEMMA PeriodicLinks ==
  ASSUME TInv, DistinctSids, Linked, Periodic
  PROVE  Linked'
BY ScanReportLinks, PaSyncedLinks, PaSyncFailedLinks, PaReportLinks, BigInfoReportLinks, PaLostLinks
   DEF Periodic

LEMMA InitLinks == Init => Linked
BY FreeBigFields, NoSyncIsNoHandle
   DEF Init, Linked, BlankUnlessUsed, TransferHasSource, Coherent, HandleOfItsSource, IsoOfItsSource,
       BaseNeverOfAnother, BigStateIsTrue, NoTransfer, NoBigSync

LEMMA StepLinks ==
  ASSUME TInv, DistinctSids, NoTransfers \/ OneSource, NoneTransferred, Linked, [Next]_vars
  PROVE  Linked'
<1>1. CASE Next
  BY <1>1, PeriodicLinks, BigSyncedLinks, BigSyncFailedLinks, BigEndedLinks, AssistantLinks, HostLinks
     DEF Next, Isochronous
<1>2. CASE UNCHANGED vars
  BY <1>2, UntouchedLinks DEF vars, controller
<1> QED BY <1>1, <1>2

-----------------------------------------------------------------------------
(* Without transfers the receive state never gets a handle                     *)

\* What a step may do to past and to the handle of the receive state
Untransferred == past' = past /\ bass'.handle = bass.handle

LEMMA NotifyIfReceivedHandle ==
  ASSUME NEW r, r.handle = bass.handle, NotifyIfReceived(r)
  PROVE  bass'.handle = bass.handle
BY DEF NotifyIfReceived, Notify

LEMMA SynchronizeToSourceHandle ==
  ASSUME NEW r \in Receives, NEW b, NEW p, SynchronizeToSource(r, b, p)
  PROVE  bass'.handle = r.handle
<1> DEFINE bits == Resolved(b, r.req)
<1>1. bass' = r \/ bass' = [r EXCEPT !.req = bits]
  BY DEF SynchronizeToSource
<1> HIDE DEF bits
<1> QED BY <1>1 DEF Receives

LEMMA PeriodicUntransferred ==
  ASSUME TInv, Periodic
  PROVE  Untransferred
<1>1. past' = past
  BY DEF Periodic, ScanReport, PaSynced, PaSyncFailed, PaReport, BigInfoReport, PaLost
<1>2. bass \in Receives
  BY DEF TInv, TypeOK
<1>3. ASSUME NEW v, NotifyIfReceived([bass EXCEPT !.pa = v])
      PROVE  bass'.handle = bass.handle
  BY <1>2, <1>3, NotifyIfReceivedHandle DEF Receives
<1>4. ASSUME NEW h, BigInfoReport(h)
      PROVE  bass'.handle = bass.handle
  <2> DEFINE b == [big EXCEPT !.info = TRUE]
  <2>1. CASE SynchronizeToSource(bass, b, pasync)
    BY <1>2, <2>1, SynchronizeToSourceHandle
  <2>2. CASE Notify([bass EXCEPT !.waiting = TRUE, !.enc = "required"])
    BY <1>2, <2>2 DEF Notify, Receives
  <2> QED BY <1>4, <2>1, <2>2 DEF BigInfoReport, ProcessBigInfo
<1>5. (\E s : ScanReport(s)) \/ (\E h : PaReport(h)) => bass'.handle = bass.handle
  BY DEF ScanReport, PaReport
<1>6. ASSUME \/ \E h : PaSynced(h)
             \/ \E timeout : PaSyncFailed(timeout)
             \/ \E h : PaLost(h)
      PROVE  bass'.handle = bass.handle
  BY <1>3, <1>6 DEF PaSynced, PaSyncFailed, PaLost
<1> QED BY <1>1, <1>4, <1>5, <1>6 DEF Periodic, Untransferred

LEMMA IsochronousUntransferred ==
  ASSUME TInv, Isochronous
  PROVE  Untransferred
<1>1. bass \in Receives
  BY DEF TInv, TypeOK
<1>2. past' = past
  BY DEF Isochronous, BigSynced, BigSyncFailed, BigLost, BigTerminated
<1>3. \/ UNCHANGED bass
      \/ NotifyIfReceived(BisEnded)
      \/ NotifyIfReceived([bass EXCEPT !.bis = bass.req, !.pa = "not", !.enc = "not"])
  BY DEF Isochronous, BigSynced, BigSyncFailed, BigLost, BigTerminated
<1>4. bass'.handle = bass.handle
  <2>1. BisEnded.handle = bass.handle
    BY <1>1 DEF BisEnded, Receives
  <2>2. [bass EXCEPT !.bis = bass.req, !.pa = "not", !.enc = "not"].handle = bass.handle
    BY <1>1 DEF Receives
  <2> QED BY <1>3, <2>1, <2>2, NotifyIfReceivedHandle
<1> QED BY <1>2, <1>4 DEF Untransferred

LEMMA SynchronizeToPaUntransferred ==
  ASSUME NoTransfers, NEW how \in Ways, NEW r, SynchronizeToPa(how, r)
  PROVE  past' = past /\ bass' = r
BY DEF NoTransfers, SynchronizeToPa

LEMMA AssistantUntransferred ==
  ASSUME TInv, NoTransfers, NoneTransferred, Assistant
  PROVE  NoneTransferred'
<1>1. past = NoTransfer /\ bass.handle = ZeroSync /\ bass \in Receives /\ FreeReceive.handle = ZeroSync
  BY DEF NoneTransferred, FreeReceive, TInv, TypeOK
<1> SUFFICES past' = past /\ bass'.handle = ZeroSync
  BY <1>1 DEF NoneTransferred
<1>2. ASSUME NEW s, NEW how \in Ways, NEW bits, AddSource(s, how, bits)
      PROVE  past' = past /\ bass'.handle = ZeroSync
  <2> DEFINE r == [FreeReceive EXCEPT !.used = TRUE, !.src = s, !.req = bits]
  <2>1. r.handle = ZeroSync
    BY DEF FreeReceive
  <2>2. SynchronizeToPa(how, r)
    BY <1>2 DEF AddSource
  <2> HIDE DEF r
  <2> QED BY <2>1, <2>2, SynchronizeToPaUntransferred
<1>3. ASSUME NEW how \in Ways, NEW bits, ModifyToPa(how, bits)
      PROVE  past' = past /\ bass'.handle = ZeroSync
  <2> DEFINE r == IF bits = "none" THEN bass ELSE [bass EXCEPT !.req = bits]
  <2>1. r.handle = ZeroSync
    BY <1>1 DEF Receives
  <2>2. SynchronizeToPa(how, r)
    BY <1>3 DEF ModifyToPa
  <2> HIDE DEF r
  <2> QED BY <2>1, <2>2, SynchronizeToPaUntransferred
<1>4. ASSUME NEW how, AfterPa(how).handle # ZeroSync
      PROVE  FALSE
  BY <1>1, <1>4 DEF AfterPa, Receives
<1>5. ASSUME NEW how, NEW bits, ModifyStopsBis(how, bits) \/ ModifyKeepsBis(how, bits)
      PROVE  past' = past /\ bass'.handle = ZeroSync
  BY <1>4, <1>5 DEF ModifyStopsBis, ModifyKeepsBis, Notify
<1>6. ASSUME NEW how, NEW bits, ModifyStartsBis(how, bits)
      PROVE  past' = past /\ bass'.handle = ZeroSync
  <2> DEFINE r == [AfterPa(how) EXCEPT !.req = bits]
  <2>1. past' = past /\ \E q : bass' = [AfterPa(how) EXCEPT !.req = q]
    <3>1. SynchronizeToSource(r, big, PaAfter(how)) /\ past' = past
      BY <1>6 DEF ModifyStartsBis
    <3>2. bass' = r \/ bass' = [r EXCEPT !.req = Resolved(big, r.req)]
      BY <3>1 DEF SynchronizeToSource
    <3>3. AfterPa(how) \in Receives
      BY AfterPaType
    <3> QED BY <3>1, <3>2, <3>3 DEF Receives
  <2>2. AfterPa(how) \in Receives
    BY AfterPaType
  <2> QED BY <1>4, <2>1, <2>2 DEF Receives
<1>7. CASE RemoveSource \/ AssistantLost
  BY <1>1, <1>7 DEF RemoveSource, AssistantLost, Notify
<1>8. CASE SetBroadcastCode
  <2> DEFINE r == [bass EXCEPT !.waiting = FALSE, !.enc = "decrypting"]
  <2>1. r \in Receives /\ r.handle = ZeroSync
    BY <1>1 DEF Receives, EncStates
  <2>2. SynchronizeToSource(r, big, pasync) /\ past' = past
    BY <1>8 DEF SetBroadcastCode
  <2> HIDE DEF r
  <2> QED BY <2>1, <2>2, SynchronizeToSourceHandle
<1>9. ~TransferParam /\ ~TransferRefused /\ ~TransferFailed /\ \A h : ~TransferReceived(h)
  BY <1>1 DEF NoTransfer, TransferParam, TransferRefused, TransferFailed, TransferReceived
<1> QED BY <1>2, <1>3, <1>5, <1>6, <1>7, <1>8, <1>9 DEF Assistant, Modify

LEMMA HostUntransferred ==
  ASSUME Host
  PROVE  Untransferred
BY DEF Host, HostGetInfo, HostStop, HostTerminatePa, HostListen, HostDiscover, Untransferred

LEMMA InitUntransferred == Init => NoneTransferred
BY DEF Init, NoneTransferred, FreeReceive

LEMMA StepUntransferred == TInv /\ NoneTransferred /\ [Next]_vars => NoneTransferred'
<1> SUFFICES ASSUME TInv, NoneTransferred, [Next]_vars, NoTransfers PROVE NoneTransferred'
  BY DEF NoneTransferred
<1>1. Untransferred => NoneTransferred'
  BY DEF Untransferred, NoneTransferred
<1>2. CASE Next
  BY <1>1, <1>2, PeriodicUntransferred, IsochronousUntransferred, AssistantUntransferred, HostUntransferred
     DEF Next
<1>3. CASE UNCHANGED vars
  BY <1>1, <1>3 DEF vars, Untransferred
<1> QED BY <1>2, <1>3

-----------------------------------------------------------------------------
(* A BIG says PA synchronized only with the sync                               *)

\* A BIG that says so after the step said so before, of the same sync, and the
\* step does not end it.
KeepsPa ==
  big'.state = "pa" =>
    /\ big.state = "pa" /\ big'.handle = big.handle /\ big'.src = big.src
    /\ big.handle \in Handles => pasync'[big.handle] = pasync[big.handle]

LEMMA KeepsPaState ==
  ASSUME PaStateIsTrue, KeepsPa
  PROVE  PaStateIsTrue'
BY DEF PaStateIsTrue, KeepsPa

LEMMA SameKeepsPa ==
  ASSUME SameBig(big') \/ big' = FreeBig, UNCHANGED pasync
  PROVE  KeepsPa
BY FreeBigFields DEF SameBig, KeepsPa

LEMMA SyncToSourceSame ==
  ASSUME NEW b \in Bigs, SameBig(b), NEW bits, NEW p, SyncToSource(b, bits, p)
  PROVE  SameBig(big')
BY DEF SyncToSource, SameBig, Bigs

LEMMA SynchronizeToSourceSame ==
  ASSUME NEW r, NEW b \in Bigs, SameBig(b), NEW p, SynchronizeToSource(r, b, p)
  PROVE  SameBig(big')
BY SyncToSourceSame DEF SynchronizeToSource, SameBig

LEMMA AllocatedKeepsPa ==
  ASSUME TInv, NEW s, NEW v, big' = Allocated(s) \/ big' = [Allocated(s) EXCEPT !.pending = v],
         UNCHANGED pasync
  PROVE  KeepsPa
<1>1. CASE big.used
  BY <1>1 DEF Allocated, KeepsPa, TInv, TypeOK, Bigs
<1>2. CASE ~big.used
  BY <1>2 DEF Allocated, FreeBig, KeepsPa
<1> QED BY <1>1, <1>2

LEMMA PaSyncedState ==
  ASSUME TInv, DistinctSids, BlankUnlessUsed, PaStateIsTrue, NEW h \in Handles, PaSynced(h)
  PROVE  PaStateIsTrue'
<1> DEFINE s == Head(creating)
<1>1. /\ s \in Sources /\ pasync[h] = NoSource /\ pasync' = [pasync EXCEPT ![h] = s]
  BY DEF PaSynced, TInv, TypeOK
<1>2. CASE Waiting(s)
  <2>1. big' = [big EXCEPT !.pending = FALSE, !.handle = h, !.state = "pa"]
    BY <1>2 DEF PaSynced
  <2>2. big.src = s
    BY <1>1, <1>2 DEF Waiting, DistinctSids, TInv, UsedHasSource
  <2>3. big'.handle = h /\ big'.src = s
    BY <2>1, <2>2 DEF TInv, TypeOK, Bigs
  <2> QED BY <1>1, <2>3 DEF PaStateIsTrue, TInv, TypeOK
<1>3. CASE ~Waiting(s)
  <2>1. big' = big
    BY <1>3 DEF PaSynced
  <2>2. big.state = "pa" => big.handle \in Handles /\ big.handle # h
    BY <1>1, BroadcastConstants, FreeBigFields DEF PaStateIsTrue, TInv, UsedHasSource, BlankUnlessUsed
  <2> QED BY <1>1, <2>1, <2>2 DEF PaStateIsTrue, TInv, TypeOK
<1> QED BY <1>2, <1>3

LEMMA PeriodicPaState ==
  ASSUME TInv, DistinctSids, BlankUnlessUsed, PaStateIsTrue, Periodic
  PROVE  PaStateIsTrue'
<1>1. ASSUME NEW s, ScanReport(s)
      PROVE  KeepsPa
  <2>1. big' = [Allocated(s) EXCEPT !.pending = TRUE] /\ UNCHANGED pasync
    BY <1>1 DEF ScanReport
  <2> QED BY <2>1, AllocatedKeepsPa
<1>2. ASSUME NEW timeout, PaSyncFailed(timeout)
      PROVE  KeepsPa
  <2>1. UNCHANGED pasync /\ (big' = big \/ big' = [big EXCEPT !.pending = FALSE])
    BY <1>2 DEF PaSyncFailed
  <2>2. SameBig(big')
    BY <2>1 DEF SameBig, TInv, TypeOK, Bigs
  <2> QED BY <2>1, <2>2, SameKeepsPa
<1>3. ASSUME NEW h, PaReport(h)
      PROVE  KeepsPa
  BY <1>3 DEF PaReport, controller, KeepsPa, TInv, TypeOK, Bigs
<1>4. ASSUME NEW h, BigInfoReport(h)
      PROVE  KeepsPa
  <2> DEFINE b == [big EXCEPT !.info = TRUE]
  <2>1. b \in Bigs /\ SameBig(b)
    BY DEF SameBig, TInv, TypeOK, Bigs
  <2>2. \/ SyncToSource(b, want.bits, pasync)
        \/ SynchronizeToSource(bass, b, pasync)
        \/ big' = b
    BY <1>4 DEF BigInfoReport, ProcessBigInfo
  <2>3. UNCHANGED pasync
    BY <1>4 DEF BigInfoReport
  <2> HIDE DEF b
  <2> QED BY <2>1, <2>2, <2>3, SyncToSourceSame, SynchronizeToSourceSame, SameKeepsPa
<1>5. ASSUME NEW h \in Handles, PaLost(h)
      PROVE  KeepsPa
  <2>1. pasync' = Without(pasync, h)
    BY <1>5 DEF PaLost
  <2>2. CASE HasBigSyncHandle(h)
    <3>1. big' = [big EXCEPT !.state = "pa_lost"]
      BY <1>5, <2>2 DEF PaLost
    <3> QED BY <3>1 DEF KeepsPa, TInv, TypeOK, Bigs
  <2>3. CASE ~HasBigSyncHandle(h)
    <3>1. big' = big
      BY <1>5, <2>3 DEF PaLost
    <3>2. big.state = "pa" => big.handle # h
      BY <2>3, FreeBigFields DEF HasBigSyncHandle, BlankUnlessUsed
    <3> QED BY <2>1, <3>1, <3>2 DEF KeepsPa, Without
  <2> QED BY <2>2, <2>3
<1> QED BY <1>1, <1>2, <1>3, <1>4, <1>5, PaSyncedState, KeepsPaState DEF Periodic

LEMMA IsochronousPaState ==
  ASSUME TInv, Isochronous
  PROVE  KeepsPa
<1>1. CASE BigSynced
  <2>1. CASE HasBigHandle(iso.sid)
    <3>1. big' = [big EXCEPT !.state = "big", !.syncing = FALSE]
      BY <1>1, <2>1 DEF BigSynced
    <3> QED BY <3>1 DEF KeepsPa, TInv, TypeOK, Bigs
  <2>2. CASE ~HasBigHandle(iso.sid)
    BY <1>1, <2>2 DEF BigSynced, KeepsPa
  <2> QED BY <2>1, <2>2
<1>2. CASE BigSyncFailed \/ BigLost \/ BigTerminated
  BY <1>2, FreeBigFields DEF BigSyncFailed, BigLost, BigTerminated, KeepsPa
<1> QED BY <1>1, <1>2 DEF Isochronous

LEMMA TerminateSyncPaState ==
  ASSUME TInv, NEW s, TerminateSync(s, pasync)
  PROVE  KeepsPa
<1>1. CASE HasBig(s)
  BY <1>1, FreeBigFields DEF TerminateSync, KeepsPa
<1>2. CASE ~HasBig(s)
  BY <1>2 DEF TerminateSync, KeepsPa
<1> QED BY <1>1, <1>2

LEMMA AssistantPaState ==
  ASSUME TInv, NoTransfers, NoneTransferred, Assistant
  PROVE  KeepsPa
<1>1. past = NoTransfer /\ bass.handle \notin Handles
  BY NoSyncIsNoHandle DEF NoneTransferred
<1>2. ASSUME NEW s, NEW how, NEW bits, AddSource(s, how, bits) \/ ModifyToPa(how, bits)
      PROVE  KeepsPa
  <2>1. UNCHANGED pasync /\ \E r : big' = Allocated(r.src)
    BY <1>2 DEF AddSource, ModifyToPa, SynchronizeToPa, controller
  <2> QED BY <2>1, AllocatedKeepsPa
<1>3. ASSUME NEW how
      PROVE  PaAfter(how) = pasync
  BY <1>1 DEF PaAfter, Without, TInv, TypeOK
<1>4. ASSUME NEW how, NEW bits, ModifyStopsBis(how, bits)
      PROVE  KeepsPa
  BY <1>3, <1>4, TerminateSyncPaState DEF ModifyStopsBis
<1>5. ASSUME NEW r, NEW p, SynchronizeToSource(r, big, p), UNCHANGED pasync
      PROVE  KeepsPa
  <2>1. big \in Bigs /\ SameBig(big)
    BY DEF SameBig, TInv, TypeOK
  <2> QED BY <1>5, <2>1, SynchronizeToSourceSame, SameKeepsPa
<1>6. ASSUME NEW how, NEW bits, ModifyStartsBis(how, bits)
      PROVE  KeepsPa
  <2> DEFINE r == [AfterPa(how) EXCEPT !.req = bits]
  <2>1. SynchronizeToSource(r, big, pasync) /\ UNCHANGED pasync
    BY <1>3, <1>6 DEF ModifyStartsBis
  <2> HIDE DEF r
  <2> QED BY <1>5, <2>1
<1>7. ASSUME NEW how, NEW bits, ModifyKeepsBis(how, bits)
      PROVE  KeepsPa
  BY <1>3, <1>7, SameKeepsPa DEF ModifyKeepsBis, SameBig
<1>8. CASE RemoveSource \/ AssistantLost
  BY <1>8, SameKeepsPa DEF RemoveSource, AssistantLost, controller, SameBig
<1>9. CASE SetBroadcastCode
  <2> DEFINE r == [bass EXCEPT !.waiting = FALSE, !.enc = "decrypting"]
  <2>1. SynchronizeToSource(r, big, pasync) /\ UNCHANGED pasync
    BY <1>9 DEF SetBroadcastCode
  <2> HIDE DEF r
  <2> QED BY <1>5, <2>1
<1>10. ~TransferParam /\ ~TransferRefused /\ ~TransferFailed /\ \A h : ~TransferReceived(h)
  BY <1>1 DEF NoTransfer, TransferParam, TransferRefused, TransferFailed, TransferReceived
<1> QED BY <1>2, <1>4, <1>6, <1>7, <1>8, <1>9, <1>10 DEF Assistant, Modify

LEMMA HostPaState ==
  ASSUME TInv, Host
  PROVE  KeepsPa
<1>1. ASSUME NEW s, HostGetInfo(s) \/ HostDiscover
      PROVE  KeepsPa
  BY <1>1, SameKeepsPa DEF HostGetInfo, HostDiscover, controller, SameBig
<1>2. ASSUME NEW s, HostStop(s)
      PROVE  KeepsPa
  BY <1>2, TerminateSyncPaState DEF HostStop
<1>3. ASSUME NEW s, HostTerminatePa(s)
      PROVE  KeepsPa
  BY <1>3, FreeBigFields DEF HostTerminatePa, KeepsPa
<1>4. ASSUME NEW s, NEW bits, HostListen(s, bits)
      PROVE  KeepsPa
  <2>1. UNCHANGED pasync /\ (SyncToSource(big, bits, pasync) \/ big' = big)
    BY <1>4 DEF HostListen
  <2>2. big \in Bigs /\ SameBig(big)
    BY DEF SameBig, TInv, TypeOK
  <2>3. SameBig(big')
    BY <2>1, <2>2, SyncToSourceSame
  <2> QED BY <2>1, <2>3, SameKeepsPa
<1> QED BY <1>1, <1>2, <1>3, <1>4 DEF Host

LEMMA InitPaState == Init => PaStateIsTrue
BY FreeBigFields DEF Init, PaStateIsTrue

LEMMA StepPaState ==
  ASSUME TInv, DistinctSids, NoTransfers, NoneTransferred, BlankUnlessUsed, PaStateIsTrue, [Next]_vars
  PROVE  PaStateIsTrue'
<1>1. CASE Next
  BY <1>1, PeriodicPaState, IsochronousPaState, AssistantPaState, HostPaState, KeepsPaState DEF Next
<1>2. CASE UNCHANGED vars
  BY <1>2 DEF vars, controller, PaStateIsTrue
<1> QED BY <1>1, <1>2

-----------------------------------------------------------------------------
(* What the receive state says is so when it is said                           *)

\* The states a step may start to report
StartsPaReport == bass.pa # "sync" /\ bass'.pa = "sync"

StartsBisReport == bass.bis = "none" /\ bass'.bis # "none"

ReportsTruth ==
  /\ StartsPaReport => \E h \in Handles : pasync'[h] = bass'.src
  /\ ~overrun /\ StartsBisReport => iso'.st = "synced" /\ iso'.src = bass'.src

\* A step that leaves PA state and BISes alone, or takes them back, reports nothing.
SaysLess(r) == r.pa \in {bass.pa, "not", "info", "failed"} /\ r.bis \in {bass.bis, "none"}

LEMMA SaysLessTrue ==
  ASSUME SaysLess(bass')
  PROVE  ReportsTruth
BY DEF SaysLess, ReportsTruth, StartsPaReport, StartsBisReport

LEMMA NotifySaysLess ==
  ASSUME NEW r, SaysLess(r), NotifyIfReceived(r) \/ Notify(r)
  PROVE  SaysLess(bass')
BY DEF NotifyIfReceived, Notify, SaysLess

LEMMA SynchronizeToSourceSaysLess ==
  ASSUME NEW r \in Receives, SaysLess(r), NEW b, NEW p, SynchronizeToSource(r, b, p)
  PROVE  SaysLess(bass')
<1> DEFINE bits == Resolved(b, r.req)
<1>1. bass' = r \/ bass' = [r EXCEPT !.req = bits]
  BY DEF SynchronizeToSource
<1> HIDE DEF bits
<1> QED BY <1>1 DEF Receives, SaysLess

LEMMA SynchronizeToPaSaysLess ==
  ASSUME NEW how, NEW r \in Receives, SaysLess(r), SynchronizeToPa(how, r)
  PROVE  SaysLess(bass')
BY DEF SynchronizeToPa, Receives, SaysLess

LEMMA ReceiveSaysLess ==
  ASSUME TInv
  PROVE  SaysLess(bass) /\ SaysLess(FreeReceive) /\ \A how : SaysLess(AfterPa(how))
BY DEF SaysLess, FreeReceive, AfterPa, TInv, TypeOK, Receives

LEMMA PaSyncedReports ==
  ASSUME TInv, DistinctSids, NEW h \in Handles, PaSynced(h)
  PROVE  ReportsTruth
<1> DEFINE s == Head(creating)
           r == [bass EXCEPT !.pa = "sync"]
<1>1. s \in Sources /\ pasync' = [pasync EXCEPT ![h] = s] /\ pasync'[h] = s
  BY DEF PaSynced, TInv, TypeOK
<1>2. CASE Waiting(s) /\ ReceivesBig
  <2>1. big.src = s /\ bass.src = big.src
    BY <1>1, <1>2 DEF Waiting, ReceivesBig, DistinctSids, TInv, UsedHasSource
  <2>2. bass' = r
    BY <1>2 DEF PaSynced, NotifyIfReceived, Notify
  <2>3. bass'.src = s /\ bass'.bis = bass.bis
    BY <2>1, <2>2 DEF TInv, TypeOK, Receives
  <2> QED BY <1>1, <2>3 DEF ReportsTruth, StartsBisReport
<1>3. CASE ~(Waiting(s) /\ ReceivesBig)
  <2>1. bass' = bass
    BY <1>3 DEF PaSynced, NotifyIfReceived
  <2> QED BY <2>1, ReceiveSaysLess, SaysLessTrue
<1> QED BY <1>2, <1>3

LEMMA BigSyncedReports ==
  ASSUME TInv, DistinctSids, Linked, BigSynced
  PROVE  ReportsTruth
<1> DEFINE r == [bass EXCEPT !.bis = bass.req, !.pa = "not", !.enc = "not"]
<1>1. iso.st = "creating" /\ iso'.st = "synced" /\ iso'.src = iso.src
  BY DEF BigSynced, TInv, TypeOK, BigSyncs
<1>2. CASE HasBigHandle(iso.sid) /\ ReceivesBig
  <2>1. bass' = r
    BY <1>2 DEF BigSynced, NotifyIfReceived, Notify
  <2>2. bass'.src = big.src /\ bass'.pa = "not"
    BY <1>2, <2>1 DEF ReceivesBig, TInv, TypeOK, Receives
  <2>3. ~overrun => iso.src = big.src
    BY <1>1, <1>2 DEF HasBigHandle, DistinctSids, Linked, Coherent, IsoOfItsSource, TInv, UsedHasSource
  <2> QED BY <1>1, <2>2, <2>3 DEF ReportsTruth, StartsPaReport
<1>3. CASE ~(HasBigHandle(iso.sid) /\ ReceivesBig)
  <2>1. bass' = bass
    BY <1>3 DEF BigSynced, NotifyIfReceived
  <2> QED BY <2>1, ReceiveSaysLess, SaysLessTrue
<1> QED BY <1>2, <1>3

LEMMA PeriodicReports ==
  ASSUME TInv, DistinctSids, Periodic
  PROVE  ReportsTruth
<1>1. ASSUME NEW s, ScanReport(s)
      PROVE  ReportsTruth
  BY <1>1, ReceiveSaysLess, SaysLessTrue DEF ScanReport
<1>2. ASSUME NEW timeout, PaSyncFailed(timeout)
      PROVE  ReportsTruth
  <2> DEFINE r == [bass EXCEPT !.pa = "failed"]
  <2>1. SaysLess(r)
    BY DEF SaysLess, TInv, TypeOK, Receives
  <2>2. NotifyIfReceived(r) \/ bass' = bass
    BY <1>2 DEF PaSyncFailed
  <2> HIDE DEF r
  <2> QED BY <2>1, <2>2, NotifySaysLess, ReceiveSaysLess, SaysLessTrue
<1>3. ASSUME NEW h, PaReport(h)
      PROVE  ReportsTruth
  BY <1>3, ReceiveSaysLess, SaysLessTrue DEF PaReport
<1>4. ASSUME NEW h, BigInfoReport(h)
      PROVE  ReportsTruth
  <2> DEFINE b == [big EXCEPT !.info = TRUE]
             r == [bass EXCEPT !.waiting = TRUE, !.enc = "required"]
  <2>1. bass \in Receives /\ SaysLess(r)
    BY DEF SaysLess, TInv, TypeOK, Receives
  <2>2. SynchronizeToSource(bass, b, pasync) \/ Notify(r) \/ bass' = bass
    BY <1>4 DEF BigInfoReport, ProcessBigInfo
  <2> HIDE DEF b, r
  <2> QED BY <2>1, <2>2, NotifySaysLess, ReceiveSaysLess, SynchronizeToSourceSaysLess, SaysLessTrue
<1>5. ASSUME NEW h, PaLost(h)
      PROVE  ReportsTruth
  <2> DEFINE r == [bass EXCEPT !.pa = "not"]
  <2>1. SaysLess(r)
    BY DEF SaysLess, TInv, TypeOK, Receives
  <2>2. NotifyIfReceived(r) \/ bass' = bass
    BY <1>5 DEF PaLost
  <2> HIDE DEF r
  <2> QED BY <2>1, <2>2, NotifySaysLess, ReceiveSaysLess, SaysLessTrue
<1> QED BY <1>1, <1>2, <1>3, <1>4, <1>5, PaSyncedReports DEF Periodic

LEMMA IsochronousReports ==
  ASSUME TInv, DistinctSids, Linked, Isochronous
  PROVE  ReportsTruth
<1>1. CASE BigSyncFailed
  BY <1>1, ReceiveSaysLess, SaysLessTrue DEF BigSyncFailed
<1>2. CASE BigLost \/ BigTerminated
  <2>1. SaysLess(BisEnded)
    BY DEF SaysLess, BisEnded, TInv, TypeOK, Receives
  <2>2. NotifyIfReceived(BisEnded) \/ bass' = bass
    BY <1>2 DEF BigLost, BigTerminated
  <2> QED BY <2>1, <2>2, NotifySaysLess, ReceiveSaysLess, SaysLessTrue
<1> QED BY <1>1, <1>2, BigSyncedReports DEF Isochronous

LEMMA ModifyReports ==
  ASSUME TInv, NEW how, NEW bits \in Bits, Modify(how, bits)
  PROVE  ReportsTruth
<1>1. /\ bass \in Receives /\ AfterPa(how) \in Receives
      /\ SaysLess([AfterPa(how) EXCEPT !.req = bits]) /\ [AfterPa(how) EXCEPT !.req = bits] \in Receives
  BY DEF AfterPa, SaysLess, TInv, TypeOK, Receives, PaStates
<1>2. CASE ModifyToPa(how, bits)
  <2> DEFINE r == IF bits = "none" THEN bass ELSE [bass EXCEPT !.req = bits]
  <2>1. r \in Receives /\ SaysLess(r) /\ SynchronizeToPa(how, r)
    BY <1>1, <1>2 DEF ModifyToPa, SaysLess, Receives
  <2> HIDE DEF r
  <2> QED BY <2>1, SynchronizeToPaSaysLess, SaysLessTrue
<1>3. CASE ModifyStopsBis(how, bits) \/ ModifyKeepsBis(how, bits)
  BY <1>3, ReceiveSaysLess, SaysLessTrue DEF ModifyStopsBis, ModifyKeepsBis, Notify
<1>4. CASE ModifyStartsBis(how, bits)
  <2> DEFINE r == [AfterPa(how) EXCEPT !.req = bits]
  <2>1. SynchronizeToSource(r, big, PaAfter(how)) /\ r \in Receives /\ SaysLess(r)
    BY <1>1, <1>4 DEF ModifyStartsBis
  <2> HIDE DEF r
  <2> QED BY <2>1, SynchronizeToSourceSaysLess, SaysLessTrue
<1> QED BY <1>2, <1>3, <1>4 DEF Modify

\* A transfer that is received is of the source of the receive state.
LEMMA TransferReports ==
  ASSUME TInv, DistinctSids, Linked, (\E h \in Handles : TransferReceived(h)) \/ TransferFailed
  PROVE  ReportsTruth
<1>1. past.src \in Sources
  BY DEF Linked, TransferHasSource, TransferReceived, TransferFailed
<1>2. CASE TransferFailed
  <2> DEFINE r == [bass EXCEPT !.handle = NoSync, !.pa = "failed"]
  <2>1. SaysLess(r)
    BY DEF SaysLess, TInv, TypeOK, Receives
  <2>2. Notify(r) \/ bass' = bass
    BY <1>2 DEF TransferFailed, HandleTransfer
  <2> HIDE DEF r
  <2> QED BY <2>1, <2>2, NotifySaysLess, ReceiveSaysLess, SaysLessTrue
<1>3. ASSUME NEW h \in Handles, TransferReceived(h)
      PROVE  ReportsTruth
  <2> DEFINE r == [bass EXCEPT !.handle = h, !.pa = "sync"]
  <2>1. pasync'[h] = past.src
    BY <1>3 DEF TransferReceived, TInv, TypeOK
  <2>2. CASE bass' = bass
    BY <2>2, ReceiveSaysLess, SaysLessTrue
  <2>3. CASE bass.used /\ Sid[bass.src] = Sid[past.src] /\ Notify(r)
    <3>1. bass.src = past.src
      BY <1>1, <2>3 DEF DistinctSids, TInv, UsedHasSource
    <3>2. bass'.src = bass.src /\ bass'.bis = bass.bis
      BY <2>3 DEF Notify, TInv, TypeOK, Receives
    <3> QED BY <2>1, <3>1, <3>2 DEF ReportsTruth, StartsBisReport
  <2> QED BY <1>3, <2>2, <2>3 DEF TransferReceived, HandleTransfer
<1> QED BY <1>2, <1>3

LEMMA AssistantReports ==
  ASSUME TInv, DistinctSids, Linked, Assistant
  PROVE  ReportsTruth
<1>1. ASSUME NEW s \in AddedSources, NEW how, NEW bits \in AskedBits, AddSource(s, how, bits)
      PROVE  ReportsTruth
  <2> DEFINE r == [FreeReceive EXCEPT !.used = TRUE, !.src = s, !.req = bits]
  <2>1. r \in Receives /\ SaysLess(r)
    BY BroadcastConstants DEF FreeReceive, SaysLess, Receives, PaStates, EncStates, Bits
  <2>2. SynchronizeToPa(how, r)
    BY <1>1 DEF AddSource
  <2> HIDE DEF r
  <2> QED BY <2>1, <2>2, SynchronizeToPaSaysLess, SaysLessTrue
<1>2. ASSUME NEW how, NEW bits \in AskedBits, Modify(how, bits)
      PROVE  ReportsTruth
  <2>1. bits \in Bits
    BY BroadcastConstants DEF Bits
  <2> QED BY <1>2, <2>1, ModifyReports
<1>3. CASE RemoveSource \/ AssistantLost
  BY <1>3, ReceiveSaysLess, SaysLessTrue DEF RemoveSource, AssistantLost, Notify
<1>4. CASE SetBroadcastCode
  <2> DEFINE r == [bass EXCEPT !.waiting = FALSE, !.enc = "decrypting"]
  <2>1. r \in Receives /\ SaysLess(r)
    BY DEF SaysLess, TInv, TypeOK, Receives, EncStates
  <2>2. SynchronizeToSource(r, big, pasync)
    BY <1>4 DEF SetBroadcastCode
  <2> HIDE DEF r
  <2> QED BY <2>1, <2>2, SynchronizeToSourceSaysLess, SaysLessTrue
<1>5. CASE TransferParam \/ TransferRefused
  BY <1>5, ReceiveSaysLess, SaysLessTrue DEF TransferParam, TransferRefused, Notify
<1> QED BY <1>1, <1>2, <1>3, <1>4, <1>5, TransferReports DEF Assistant

LEMMA StepReports ==
  ASSUME TInv, DistinctSids, Linked, [Next]_vars
  PROVE  ReportsTruth
<1>1. CASE Host \/ UNCHANGED vars
  BY <1>1, ReceiveSaysLess, SaysLessTrue
     DEF vars, Host, HostGetInfo, HostStop, HostTerminatePa, HostListen, HostDiscover
<1> QED BY <1>1, PeriodicReports, IsochronousReports, AssistantReports DEF Next

-----------------------------------------------------------------------------
(* What follows for every behaviour                                            *)

LinkedInv == TInv /\ NoneTransferred /\ Linked

LEMMA SpecLinked ==
  ASSUME DistinctSids, NoTransfers \/ OneSource
  PROVE  Spec => []LinkedInv
<1>1. Init => LinkedInv
  BY InitType, InitUntransferred, InitLinks DEF LinkedInv
<1>2. LinkedInv /\ [Next]_vars => LinkedInv'
  BY StepType, StepUntransferred, StepLinks DEF LinkedInv
<1> QED BY <1>1, <1>2, PTL DEF Spec

\* As long as every periodic sync has found the BIG that waits for it, a BIG takes
\* no BASE of another source: a handle it keeps of a lost sync, which the controller
\* gives out again, comes to it by PaSynced only.
THEOREM BaseOwn ==
  ASSUME DistinctSids, NoTransfers \/ OneSource
  PROVE  Spec => []BaseOfItsSource
<1>1. LinkedInv => BaseOfItsSource
  BY DEF LinkedInv, Linked, Coherent, BaseOfItsSource
<1> QED BY <1>1, SpecLinked, PTL

\* Under the same conditions a BIG that says it is synchronized has the BIG sync of
\* its source, with its stream unless the end of it is asked for.
THEOREM BigState ==
  ASSUME DistinctSids, NoTransfers \/ OneSource
  PROVE  Spec => []BigStateIsTrue
<1>1. LinkedInv => BigStateIsTrue
  BY DEF LinkedInv, Linked, Coherent, BigStateIsTrue
<1> QED BY <1>1, SpecLinked, PTL

\* Every step after which the receive state says synchronized, to the PA or to a BIS,
\* leads to a state of the controller in which that is true.
THEOREM Reported ==
  ASSUME DistinctSids, NoTransfers \/ OneSource
  PROVE  Spec => ReportedWhenSynced
<1> DEFINE Reports == /\ bass.pa # "sync" /\ bass'.pa = "sync" => \E h \in Handles : pasync'[h] = bass'.src
                      /\ ~overrun /\ bass.bis = "none" /\ bass'.bis # "none" =>
                           iso'.st = "synced" /\ iso'.src = bass'.src
<1>1. LinkedInv /\ [Next]_vars => [Reports]_vars
  BY StepReports DEF LinkedInv, ReportsTruth, StartsPaReport, StartsBisReport
<1>2. Spec => []LinkedInv
  BY SpecLinked
<1>3. Spec => [][Next]_vars
  BY PTL DEF Spec
<1> HIDE DEF Reports
<1>4. Spec => [][Reports]_vars
  BY <1>1, <1>2, <1>3, PTL
<1> QED BY <1>4 DEF Reports, ReportedWhenSynced

\* Without sync transfers, a BIG that says PA synchronized has the sync of its source
\* on its handle, even after a write behind the array of BIGs.
THEOREM PaState ==
  ASSUME DistinctSids, NoTransfers
  PROVE  Spec => []PaStateIsTrue
<1>1. Init => PaStateIsTrue
  BY InitPaState
<1>2. LinkedInv /\ PaStateIsTrue /\ [Next]_vars => PaStateIsTrue'
  BY StepPaState DEF LinkedInv, Linked
<1> QED BY <1>1, <1>2, SpecLinked, PTL DEF Spec
=============================================================================
