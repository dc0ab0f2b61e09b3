------------------------ MODULE StoreRebuild_proofs ------------------------
(***************************************************************************)
(* Proofs about StoreRebuild: type correctness, the order in which a       *)
(* trigger is cleared, and that no edit of a store's spec is lost when a   *)
(* client is registered in the step that builds it.                        *)
(***************************************************************************)
EXTENDS StoreRebuild, TLAPS

\* What the informer has yet to deliver leads, oldest generation first, from its
\* copy to the API server's.
Informer ==
  /\ pending = <<>> => cache = api
  /\ pending # <<>> => pending[Len(pending)] = api
  /\ \A i \in 1..Len(pending) : cache.gen <= pending[i].gen
  /\ \A i, j \in 1..Len(pending) : i <= j => pending[i].gen <= pending[j].gen

\* A round that is about to clear the trigger has persisted its status.
ClearPersisted ==
  storePc = "clear" => api.cg = Bumped(snap.cg) /\ api.cond = "ready" /\ api.observed = snap.gen

InRound == storePc \notin {"idle", "refetch"}

Versions == {api, cache} \cup Undelivered

\* No status speaks of a generation its round had not read yet.
ObservedBehind ==
  /\ \A v \in Versions : v.observed <= cache.gen
  /\ InRound => /\ snap.gen <= cache.gen
                /\ \A v \in Versions : v.observed <= snap.gen

\* The registered client is of the informer's generation or an older one, but
\* not older than what a status or the current round speaks of.
ClientBetween ==
  clients # NoClient =>
    /\ clients.gen <= cache.gen
    /\ \A v \in Versions : v.observed \notin InvalidGens => v.observed <= clients.gen
    /\ storePc \in {"read", "status", "clear", "ready", "failed"} => snap.gen <= clients.gen

\* A round that missed an edit has another one queued behind it.
RoundCurrent ==
  /\ InRound /\ ~storeQ => snap.gen = cache.gen
  /\ storePc = "invalid" => snap.gen \in InvalidGens

\* So does everybody who registered a client before the edit.
ClientCurrent ==
  storePc \in {"idle", "status", "clear", "ready"} /\ ~storeQ /\ clients # NoClient
    => clients.gen = cache.gen

\* Nobody holds a client it has built and not yet registered.
NoneUnregistered == \A c \in Consumers : esPc[c] # "register"

IInv == /\ Informer /\ ObservedBehind /\ ClientBetween
        /\ RoundCurrent /\ ClientCurrent /\ NoneUnregistered

-----------------------------------------------------------------------------
(* Type correctness *)

LEMMA VersionFields ==
  ASSUME NEW v \in Version
  PROVE  v.gen \in Nat /\ v.trig \in Nat /\ v.observed \in Nat /\ v.cg \in Nat
BY DEF Version

\* The counter moves with every bump, and stays a number.
LEMMA BumpMoves ==
  ASSUME NEW g \in Nat
  PROVE  Bumped(g) \in Nat /\ Bumped(g) # g
BY ConstantsAssumption DEF Bumped

LEMMA VersionEdited ==
  ASSUME NEW v \in Version, NEW n \in Nat
  PROVE  [v EXCEPT !.gen = n] \in Version /\ [v EXCEPT !.trig = n] \in Version
BY DEF Version

LEMMA VersionReported ==
  ASSUME NEW v \in Version, NEW cond \in Conditions, NEW o \in Nat, NEW n \in Nat
  PROVE  [v EXCEPT !.cond = cond, !.observed = o, !.cg = n] \in Version
BY DEF Version

\* A write keeps the three copies of the store well formed.
LEMMA WriteType ==
  ASSUME TypeOK, NEW STATE v, v \in Version, Write(v)
  PROVE  api' \in Version /\ cache' \in Version /\ pending' \in Seq(Version)
BY DEF TypeOK, Write

\* So does what the informer receives.
LEMMA ObserveType ==
  ASSUME TypeOK, pending # <<>>
  PROVE  Head(pending) \in Version /\ Tail(pending) \in Seq(Version)
BY DEF TypeOK

LEMMA NoClientType == NoClient \in Client
BY DEF NoClient, Unread, Client, Creds

LEMMA InitType == Init => TypeOK
<1> SUFFICES ASSUME Init PROVE TypeOK
  OBVIOUS
<1>1. api \in Version /\ cache \in Version /\ snap \in Version
  BY DEF Init, NewStore, Version, Conditions
<1>2. pending \in Seq(Version)
  BY DEF Init
<1>3. cred \in Creds /\ read \in Creds /\ asked \in Creds
  BY DEF Init, Creds, Unread
<1>4. clients \in Client /\ held \in [Consumers -> Client] /\ synced \in [Consumers -> Client]
  BY NoClientType DEF Init
<1> QED
  BY <1>1, <1>2, <1>3, <1>4 DEF Init, TypeOK

LEMMA TypeInductive == TypeOK /\ [Next]_vars => TypeOK'
<1> SUFFICES ASSUME TypeOK, [Next]_vars PROVE TypeOK'
  OBVIOUS
<1> USE DEF TypeOK, storeObject, triggerVars, roundVars, esVars
<1>1. CASE EditSpec
  <2>1. api.gen + 1 \in Nat
    BY VersionFields
  <2>2. [api EXCEPT !.gen = api.gen + 1] \in Version
    BY <2>1, VersionEdited
  <2> QED BY <1>1, <2>2, WriteType DEF EditSpec
<1>2. CASE Restart
  <2>1. pending' \in Seq(Version)
    BY <1>2 DEF Restart
  <2>2. faults' \in Nat /\ clients' \in Client
    BY <1>2, NoClientType DEF Restart, Fault
  <2> QED BY <1>2, <2>1, <2>2 DEF Restart
<1>3. CASE Relist
  BY <1>3 DEF Relist, Observe, Fault
<1>4. CASE \E s \in Sources : Rotate(s)
  BY <1>4 DEF Rotate, Creds
<1>5. CASE Deliver
  BY <1>5, ObserveType DEF Deliver, Observe
<1>6. CASE \E s \in Sources : TriggerList(s)
  BY <1>6 DEF TriggerList
<1>7. CASE \E s \in Sources : TriggerPatch(s)
  <2>1. clock + 1 \in Nat
    OBVIOUS
  <2>2. [api EXCEPT !.trig = clock + 1] \in Version
    BY <2>1, VersionEdited
  <2> QED BY <1>7, <2>1, <2>2, WriteType DEF TriggerPatch
<1>8. CASE \E s \in Sources : TriggerPatchFails(s)
  BY <1>8 DEF TriggerPatchFails, Fault
<1>9. CASE StoreAddFinalizer
  <2>1. [api EXCEPT !.fin = TRUE] \in Version
    BY DEF Version
  <2> QED BY <1>9, <2>1, WriteType DEF StoreAddFinalizer, GuardedWrite
<1>10. CASE StoreDecide
  <2>1. read' \in Creds
    BY <1>10 DEF StoreDecide, Unread, Creds
  <2> QED BY <1>10, <2>1, NoClientType DEF StoreDecide
<1>11. CASE \E s \in Sources : StoreReadCred(s)
  BY <1>11 DEF StoreReadCred, Creds
<1>12. CASE StoreRegister
  BY <1>12 DEF StoreRegister, Client, Version
<1>13. CASE StoreBuildFails
  BY <1>13 DEF StoreBuildFails, Fault
<1>14. ASSUME NEW cond \in Conditions, NEW bump \in BOOLEAN
       PROVE  NewStatus(api, cond, bump) \in Version
  <2>1. snap.gen \in Nat /\ snap.cg \in Nat /\ api \in Version
    BY VersionFields
  <2> DEFINE g == IF bump THEN Bumped(snap.cg) ELSE snap.cg
  <2>2. g \in Nat
    BY <2>1, BumpMoves
  <2> HIDE DEF g
  <2>3. [api EXCEPT !.cond = cond, !.observed = snap.gen, !.cg = g] \in Version
    BY <2>1, <2>2, VersionReported
  <2> QED BY <2>3 DEF NewStatus, g
<1>15. CASE StoreWriteRebuilt
  <2>1. NewStatus(api, "ready", TRUE) \in Version
    BY <1>14 DEF Conditions
  <2> QED BY <1>15, <2>1, WriteType DEF StoreWriteRebuilt, GuardedWrite
<1>16. CASE StoreClearTrigger
  <2>1. [api EXCEPT !.trig = 0] \in Version
    BY DEF Version
  <2> QED BY <1>16, <2>1, WriteType DEF StoreClearTrigger, GuardedWrite
<1>17. CASE StoreKeepTrigger
  BY <1>17 DEF StoreKeepTrigger
<1>18. CASE StoreWriteFails \/ StoreConflict
  <2>1. faults' \in Nat /\ UNCHANGED <<storeObject, cred, triggerVars, storeTimer, snap, read, clients, esQ, esVars, clock, asked>>
    BY <1>18 DEF StoreWriteFails, StoreConflict, Fault
  <2>2. Requeue
    BY <1>18 DEF StoreWriteFails, StoreConflict
  <2> QED BY <2>1, <2>2 DEF Requeue
<1>19. CASE StoreWriteError
  <2>1. storePc \in Conditions /\ NewStatus(api, storePc, FALSE) \in Version
    BY <1>14, <1>19 DEF StoreWriteError, Conditions
  <2> QED BY <1>19, <2>1, WriteType DEF StoreWriteError, Requeue, GuardedWrite
<1>20. CASE StoreReportReady
  <2>1. NewStatus(api, "ready", FALSE) \in Version
    BY <1>14 DEF Conditions
  <2> QED BY <1>20, <2>1, WriteType DEF StoreReportReady, GuardedWrite
<1>21. CASE StoreTimer
  BY <1>21 DEF StoreTimer
<1>22. CASE \E c \in Consumers : EsStep(c) \/ EsPoll(c) \/ EsFails(c)
  <2>1. ClientOf(cache) \in Client
    BY DEF ClientOf, Client, Version
  <2> PICK c \in Consumers : EsStep(c) \/ EsPoll(c) \/ EsFails(c)
    BY <1>22
  <2>2. CASE EsBegin(c) \/ EsGuardPasses(c) \/ EsGuardRefuses(c) \/ EsPoll(c)
    BY <2>2 DEF EsBegin, EsGuardPasses, EsGuardRefuses, EsPoll
  <2>3. CASE EsFill(c) \/ EsBuild(c) \/ EsRegister(c)
    BY <2>1, <2>3 DEF EsFill, EsBuild, EsRegister
  <2>4. CASE EsSync(c)
    <3>1. held[c] \in Client
      OBVIOUS
    <3> QED BY <2>4, <3>1 DEF EsSync
  <2>5. CASE EsFails(c)
    BY <2>5 DEF EsFails, Fault
  <2> QED BY <2>2, <2>3, <2>4, <2>5 DEF EsStep
<1>23. CASE UNCHANGED vars
  BY <1>23 DEF vars
<1> QED
  BY <1>1, <1>2, <1>3, <1>4, <1>5, <1>6, <1>7, <1>8, <1>9, <1>10, <1>11, <1>12, <1>13,
     <1>15, <1>16, <1>17, <1>18, <1>19, <1>20, <1>21, <1>22, <1>23
  DEF Next, Environment, Failure, Trigger, StoreStep

\* Every variable keeps its type, for any sources, consumers and bounds.
THEOREM TypeCorrect == Spec => []TypeOK
BY InitType, TypeInductive, PTL DEF Spec

-----------------------------------------------------------------------------
(* What a step does to the copies of the store *)

\* A write made of the API server's object keeps or raises the generation, and
\* its status speaks of the same generation as before or of the round's.
StatusPc == {"status", "ready", "failed", "invalid"}
StoreWrite(v) ==
  /\ v \in Version /\ Write(v)
  /\ api.gen <= v.gen
  /\ v.observed = api.observed \/ (v.observed = snap.gen /\ storePc \in StatusPc)

\* Every step leaves the copies alone, is a write, or is seen by the informer.
LEMMA StoreMoves ==
  ASSUME TypeOK, [Next]_vars
  PROVE  \/ UNCHANGED storeObject
         \/ \E v \in Version : StoreWrite(v)
         \/ Deliver \/ Relist \/ Restart
<1> USE DEF storeObject
<1>1. api \in Version /\ snap \in Version /\ clock \in Nat
  BY DEF TypeOK
<1>2. CASE EditSpec
  <2>1. api.gen + 1 \in Nat /\ api.gen <= api.gen + 1
    BY <1>1, VersionFields
  <2>2. [api EXCEPT !.gen = api.gen + 1] \in Version
    BY <1>1, <2>1, VersionEdited
  <2>3. /\ [api EXCEPT !.gen = api.gen + 1].gen = api.gen + 1
        /\ [api EXCEPT !.gen = api.gen + 1].observed = api.observed
    BY <1>1 DEF Version
  <2> QED BY <1>2, <2>1, <2>2, <2>3 DEF EditSpec, StoreWrite
<1>3. CASE \E s \in Sources : TriggerPatch(s)
  <2>1. clock + 1 \in Nat /\ api.gen <= api.gen
    BY <1>1, VersionFields
  <2>2. [api EXCEPT !.trig = clock + 1] \in Version
    BY <1>1, <2>1, VersionEdited
  <2>3. /\ [api EXCEPT !.trig = clock + 1].gen = api.gen
        /\ [api EXCEPT !.trig = clock + 1].observed = api.observed
    BY <1>1 DEF Version
  <2> QED BY <1>3, <2>1, <2>2, <2>3 DEF TriggerPatch, StoreWrite
<1>4. CASE StoreAddFinalizer \/ StoreClearTrigger
  <2>1. /\ [api EXCEPT !.fin = TRUE] \in Version /\ [api EXCEPT !.trig = 0] \in Version
        /\ [api EXCEPT !.fin = TRUE].gen = api.gen /\ [api EXCEPT !.trig = 0].gen = api.gen
        /\ [api EXCEPT !.fin = TRUE].observed = api.observed
        /\ [api EXCEPT !.trig = 0].observed = api.observed
    BY <1>1 DEF Version
  <2>2. api.gen <= api.gen
    BY <1>1, VersionFields
  <2> QED BY <1>4, <2>1, <2>2 DEF StoreAddFinalizer, StoreClearTrigger, GuardedWrite, StoreWrite
<1>5. ASSUME NEW cond \in Conditions, NEW bump \in BOOLEAN
      PROVE  LET v == NewStatus(api, cond, bump)
             IN  v \in Version /\ v.gen = api.gen /\ v.observed = snap.gen /\ api.gen <= v.gen
  <2>1. snap.gen \in Nat /\ (IF bump THEN Bumped(snap.cg) ELSE snap.cg) \in Nat
    BY <1>1, VersionFields, BumpMoves
  <2>2. NewStatus(api, cond, bump) \in Version
    BY <1>1, <2>1, VersionReported DEF NewStatus
  <2>3. /\ NewStatus(api, cond, bump).gen = api.gen /\ api.gen <= api.gen
        /\ NewStatus(api, cond, bump).observed = snap.gen
    BY <1>1 DEF NewStatus, Version
  <2> QED BY <2>2, <2>3
<1>6. CASE StoreWriteRebuilt \/ StoreReportReady
  <2>1. "ready" \in Conditions
    BY DEF Conditions
  <2> QED
    BY <1>5, <1>6, <2>1 DEF StoreWriteRebuilt, StoreReportReady, GuardedWrite, StoreWrite, StatusPc
<1>7. CASE StoreWriteError
  <2>1. storePc \in Conditions
    BY <1>7 DEF StoreWriteError, Conditions
  <2> QED BY <1>5, <1>7, <2>1 DEF StoreWriteError, GuardedWrite, StoreWrite, StatusPc
<1>8. CASE \/ \E s \in Sources : Rotate(s) \/ TriggerList(s) \/ TriggerPatchFails(s) \/ StoreReadCred(s)
           \/ StoreDecide \/ StoreRegister \/ StoreBuildFails \/ StoreKeepTrigger
           \/ StoreWriteFails \/ StoreConflict \/ StoreTimer
  BY <1>8 DEF Rotate, TriggerList, TriggerPatchFails, StoreReadCred, StoreDecide, StoreRegister,
              StoreBuildFails, StoreKeepTrigger, StoreWriteFails, StoreConflict, StoreTimer
<1>9. CASE \E c \in Consumers : EsStep(c) \/ EsPoll(c) \/ EsFails(c)
  BY <1>9 DEF EsStep, EsBegin, EsGuardPasses, EsGuardRefuses, EsFill, EsBuild, EsRegister,
              EsSync, EsPoll, EsFails
<1>10. CASE UNCHANGED vars
  BY <1>10 DEF vars
<1> QED
  BY <1>2, <1>3, <1>4, <1>6, <1>7, <1>8, <1>9, <1>10
  DEF Next, Environment, Failure, Trigger, StoreStep

LEMMA VersionsTyped ==
  ASSUME TypeOK
  PROVE  /\ Versions \subseteq Version /\ api \in Versions /\ cache \in Versions
         /\ \A i \in 1..Len(pending) : pending[i] \in Versions /\ pending[i] \in Version
BY DEF TypeOK, Versions, Undelivered

LEMMA InformerLeads ==
  ASSUME TypeOK, Informer
  PROVE  cache.gen <= api.gen /\ \A i \in 1..Len(pending) : pending[i].gen <= api.gen
<1>1. cache \in Version /\ cache.gen \in Nat /\ pending \in Seq(Version)
  BY VersionFields DEF TypeOK
<1>2. CASE pending = <<>>
  BY <1>1, <1>2 DEF Informer
<1>3. CASE pending # <<>>
  <2>1. Len(pending) \in 1..Len(pending)
    BY <1>1, <1>3
  <2> QED BY <1>1, <1>3, <2>1 DEF Informer
<1> QED BY <1>2, <1>3

LEMMA WriteVersions ==
  ASSUME TypeOK, Informer, NEW STATE v, v \in Version, Write(v), api.gen <= v.gen
  PROVE  /\ Informer' /\ cache' = cache
         /\ \A w \in Versions' : w \in Versions \/ w = v
<1>1. /\ cache' = cache /\ api' = v /\ pending \in Seq(Version)
      /\ cache \in Version /\ api \in Version
  BY DEF Write, TypeOK
<1>2. CASE v = api
  BY <1>1, <1>2 DEF Write, Informer, Versions, Undelivered
<1>3. CASE v # api
  <2> DEFINE n == Len(pending)
  <2>1. /\ pending' = Append(pending, v) /\ Len(pending') = n + 1 /\ n \in Nat
        /\ pending'[n + 1] = v /\ \A i \in 1..n : pending'[i] = pending[i]
    BY <1>1, <1>3 DEF Write
  <2>2. pending' # <<>>
    BY <2>1
  <2>3. /\ cache.gen \in Nat /\ api.gen \in Nat /\ v.gen \in Nat
        /\ \A i \in 1..n : pending[i].gen \in Nat
    BY <1>1, VersionFields, VersionsTyped
  <2>4. \A i \in 1..(n + 1) : cache.gen <= pending'[i].gen
    <3> TAKE i \in 1..(n + 1)
    <3>1. CASE i \in 1..n
      BY <2>1, <3>1 DEF Informer
    <3>2. CASE i = n + 1
      BY <2>1, <2>3, <3>2, InformerLeads
    <3> QED BY <2>1, <3>1, <3>2
  <2>5. \A i, j \in 1..(n + 1) : i <= j => pending'[i].gen <= pending'[j].gen
    <3> SUFFICES ASSUME NEW i \in 1..(n + 1), NEW j \in 1..(n + 1), i <= j
                 PROVE  pending'[i].gen <= pending'[j].gen
      OBVIOUS
    <3>1. CASE j \in 1..n
      BY <2>1, <3>1 DEF Informer
    <3>2. CASE i \in 1..n /\ j = n + 1
      BY <2>1, <2>3, <3>2, InformerLeads
    <3>3. CASE i = n + 1
      BY <2>1, <2>3, <3>3
    <3> QED BY <2>1, <3>1, <3>2, <3>3
  <2>6. Informer'
    BY <1>1, <2>1, <2>2, <2>4, <2>5 DEF Informer
  <2>7. \A w \in Versions' : w \in Versions \/ w = v
    <3>1. \A i \in DOMAIN pending' : pending'[i] = v \/ pending'[i] \in Undelivered
      BY <1>1, <2>1 DEF Undelivered
    <3> QED BY <1>1, <3>1 DEF Versions, Undelivered
  <2> QED BY <1>1, <2>6, <2>7
<1> QED BY <1>2, <1>3

LEMMA DeliverVersions ==
  ASSUME TypeOK, Informer, Deliver
  PROVE  /\ Informer' /\ cache.gen <= cache'.gen
         /\ \A w \in Versions' : w \in Versions
<1> DEFINE n == Len(pending)
<1>1. /\ pending # <<>> /\ pending \in Seq(Version) /\ api' = api
      /\ cache' = Head(pending) /\ pending' = Tail(pending)
  BY DEF Deliver, Observe, TypeOK
<1>2. /\ n \in Nat /\ n >= 1 /\ cache' = pending[1] /\ Len(pending') = n - 1
      /\ \A i \in 1..(n - 1) : pending'[i] = pending[i + 1]
  BY <1>1
<1>3. \A i \in 1..n : pending[i] \in Versions
  BY VersionsTyped
<1>4. Informer'
  <2>1. pending' = <<>> => cache' = api'
    <3>1. pending' = <<>> => Len(pending') = 0
      OBVIOUS
    <3>2. pending' = <<>> => n = 1
      BY <1>2, <3>1
    <3> QED BY <1>1, <1>2, <3>2 DEF Informer
  <2>2. pending' # <<>> => pending'[Len(pending')] = api'
    <3>1. pending' # <<>> => n # 1
      BY <1>1
    <3>2. n # 1 => n - 1 \in 1..(n - 1) /\ (n - 1) + 1 = n
      BY <1>2
    <3> QED BY <1>1, <1>2, <3>1, <3>2 DEF Informer
  <2>3. \A i \in 1..(n - 1) : cache'.gen <= pending'[i].gen
    BY <1>2 DEF Informer
  <2>4. \A i, j \in 1..(n - 1) : i <= j => pending'[i].gen <= pending'[j].gen
    BY <1>2 DEF Informer
  <2> QED BY <1>2, <2>1, <2>2, <2>3, <2>4 DEF Informer
<1>5. cache.gen <= cache'.gen
  BY <1>2 DEF Informer
<1>6. \A w \in Versions' : w \in Versions
  <2>1. \A i \in DOMAIN pending' : pending'[i] \in Versions
    BY <1>1, <1>2, <1>3
  <2>2. api' \in Versions /\ cache' \in Versions
    BY <1>1, <1>2, <1>3, VersionsTyped
  <2> QED BY <2>1, <2>2 DEF Versions, Undelivered
<1> QED BY <1>4, <1>5, <1>6

\* A new list, and a restart, skip what was on its way.
LEMMA ListVersions ==
  ASSUME TypeOK, Informer, cache' = api, api' = api, pending' = <<>>
  PROVE  /\ Informer' /\ cache.gen <= cache'.gen
         /\ \A w \in Versions' : w \in Versions
BY InformerLeads DEF Informer, Versions, Undelivered

\* The copies move forward, and a new status speaks of the generation of an old
\* one or of the round's.
LEMMA CopiesMove ==
  ASSUME TypeOK, Informer, [Next]_vars
  PROVE  /\ Informer' /\ cache.gen <= cache'.gen
         /\ \A w \in Versions' : \/ w \in Versions
                                 \/ w.observed = api.observed
                                 \/ w.observed = snap.gen /\ storePc \in StatusPc
<1>1. cache.gen \in Nat /\ cache.gen <= cache.gen
  BY VersionFields DEF TypeOK
<1>2. CASE UNCHANGED storeObject
  <2>1. Informer' /\ Versions' = Versions /\ cache' = cache
    BY <1>2 DEF storeObject, Informer, Versions, Undelivered
  <2> QED BY <1>1, <2>1
<1>3. CASE \E v \in Version : StoreWrite(v)
  <2> PICK v \in Version : StoreWrite(v)
    BY <1>3
  <2>1. /\ Informer' /\ cache' = cache /\ \A w \in Versions' : w \in Versions \/ w = v
    BY WriteVersions DEF StoreWrite
  <2>2. v.observed = api.observed \/ (v.observed = snap.gen /\ storePc \in StatusPc)
    BY DEF StoreWrite
  <2> QED BY <1>1, <2>1, <2>2
<1>4. CASE Deliver
  BY <1>4, DeliverVersions
<1>5. CASE Relist
  BY <1>5, ListVersions DEF Relist, Observe
<1>6. CASE Restart
  BY <1>6, ListVersions DEF Restart
<1> QED BY <1>2, <1>3, <1>4, <1>5, <1>6, StoreMoves

\* A changed generation queues the store.
LEMMA EditQueues ==
  ASSUME TypeOK, [Next]_vars, cache'.gen # cache.gen
  PROVE  storeQ'
<1>1. CASE UNCHANGED storeObject \/ \E v \in Version : StoreWrite(v)
  BY <1>1 DEF storeObject, StoreWrite, Write
<1>2. CASE Deliver \/ Relist
  <2>1. storeQ' = (storeQ \/ StoreRelevant(cache, cache'))
    BY <1>2 DEF Deliver, Relist, Observe
  <2>2. StoreRelevant(cache, cache')
    BY DEF StoreRelevant
  <2> QED BY <2>1, <2>2
<1>3. CASE Restart
  BY <1>3 DEF Restart
<1> QED BY <1>1, <1>2, <1>3, StoreMoves

-----------------------------------------------------------------------------
(* A trigger is cleared after the status is persisted *)

LEMMA InformerInit == Init => Informer
BY DEF Init, Informer

ClearInv == TypeOK /\ Informer /\ ClearPersisted

LEMMA ClearPersistedStep ==
  ASSUME TypeOK, Informer, ClearPersisted, [Next]_vars
  PROVE  ClearPersisted'
<1> SUFFICES ASSUME storePc' = "clear"
             PROVE  api'.cg = Bumped(snap'.cg) /\ api'.cond = "ready" /\ api'.observed = snap'.gen
  BY DEF ClearPersisted
<1>1. api \in Version /\ snap \in Version /\ snap.cg \in Nat
  BY VersionFields DEF TypeOK
<1>2. CASE StoreWriteRebuilt
  <2>1. snap' = snap /\ api' = NewStatus(api, "ready", TRUE)
    BY <1>2 DEF StoreWriteRebuilt, GuardedWrite, Write
  <2>2. api'.cg = Bumped(snap.cg) /\ api'.cond = "ready" /\ api'.observed = snap.gen
    BY <1>1, <2>1 DEF NewStatus, Version
  <2> QED BY <2>1, <2>2
<1>3. CASE EditSpec \/ \E s \in Sources : TriggerPatch(s)
  <2>1. storePc' = storePc /\ snap' = snap
    BY <1>3 DEF EditSpec, TriggerPatch, roundVars
  <2>2. /\ api' = [api EXCEPT !.gen = @ + 1] \/ api' = [api EXCEPT !.trig = clock + 1]
    BY <1>3 DEF EditSpec, TriggerPatch, Write
  <2>3. api'.cg = api.cg /\ api'.cond = api.cond /\ api'.observed = api.observed
    BY <1>1, <2>2 DEF Version
  <2> QED BY <2>1, <2>3 DEF ClearPersisted
<1>4. CASE UNCHANGED <<api, storePc, snap>>
  BY <1>4 DEF ClearPersisted
<1>5. CASE \/ StoreAddFinalizer \/ StoreDecide \/ StoreRegister \/ StoreBuildFails
           \/ StoreClearTrigger \/ StoreKeepTrigger \/ StoreWriteFails \/ StoreWriteError
           \/ StoreConflict \/ StoreReportReady \/ Restart
  BY <1>5 DEF StoreAddFinalizer, StoreDecide, StoreRegister, StoreBuildFails, StoreClearTrigger,
              StoreKeepTrigger, StoreWriteFails, StoreWriteError, StoreConflict, StoreReportReady,
              Requeue, Restart
<1>6. CASE \/ Relist \/ Deliver \/ StoreTimer
           \/ \E s \in Sources : Rotate(s) \/ TriggerList(s) \/ TriggerPatchFails(s) \/ StoreReadCred(s)
  BY <1>4, <1>6 DEF Relist, Deliver, Observe, StoreTimer, Rotate, TriggerList, TriggerPatchFails,
              StoreReadCred, roundVars, storeObject
<1>7. CASE \E c \in Consumers : EsStep(c) \/ EsPoll(c) \/ EsFails(c)
  BY <1>4, <1>7 DEF EsStep, EsBegin, EsGuardPasses, EsGuardRefuses, EsFill, EsBuild, EsRegister,
              EsSync, EsPoll, EsFails, roundVars, storeObject
<1>8. CASE UNCHANGED vars
  BY <1>4, <1>8 DEF vars
<1> QED
  BY <1>2, <1>3, <1>5, <1>6, <1>7, <1>8
  DEF Next, Environment, Failure, Trigger, StoreStep

\* Only the step that clears the trigger clears it.
LEMMA OnlyClearClears ==
  ASSUME TypeOK, Informer, ClearPersisted, [Next]_vars, TriggerCleared
  PROVE  /\ storePc = "clear" /\ api.trig = snap.trig
         /\ api.cg = Bumped(snap.cg) /\ api.cond = "ready" /\ api.observed = snap.gen
<1>1. api \in Version /\ clock \in Nat /\ api.trig # 0 /\ api'.trig = 0
  BY DEF TypeOK, TriggerCleared
<1>2. CASE StoreClearTrigger
  <2>1. storePc = "clear" /\ cache.trig = snap.trig /\ pending = <<>>
    BY <1>2 DEF StoreClearTrigger, GuardedWrite
  <2> QED BY <2>1 DEF Informer, ClearPersisted
<1>3. CASE api' = api
  BY <1>1, <1>3
<1>4. CASE \/ EditSpec \/ StoreAddFinalizer \/ StoreWriteRebuilt \/ StoreWriteError \/ StoreReportReady
  <2>1. \/ api' = api \/ api' = [api EXCEPT !.gen = @ + 1] \/ api' = [api EXCEPT !.fin = TRUE]
        \/ \E cond \in Conditions, bump \in BOOLEAN : api' = NewStatus(api, cond, bump)
    BY <1>4 DEF EditSpec, StoreAddFinalizer, StoreWriteRebuilt, StoreWriteError, StoreReportReady,
                GuardedWrite, Write, Conditions, storeObject
  <2>2. api'.trig = api.trig
    BY <1>1, <2>1 DEF NewStatus, Version
  <2> QED BY <1>1, <2>2
<1>5. CASE \E s \in Sources : TriggerPatch(s)
  <2>1. api' = [api EXCEPT !.trig = clock + 1]
    BY <1>5 DEF TriggerPatch, Write
  <2>2. api'.trig = clock + 1
    BY <1>1, <2>1 DEF Version
  <2> QED BY <1>1, <2>2
<1>6. CASE \/ Relist \/ Restart \/ Deliver \/ StoreTimer \/ StoreDecide \/ StoreRegister
           \/ StoreBuildFails \/ StoreKeepTrigger \/ StoreWriteFails \/ StoreConflict
           \/ \E s \in Sources : Rotate(s) \/ TriggerList(s) \/ TriggerPatchFails(s) \/ StoreReadCred(s)
  BY <1>3, <1>6 DEF Relist, Restart, Deliver, Observe, StoreTimer, StoreDecide, StoreRegister,
              StoreBuildFails, StoreKeepTrigger, StoreWriteFails, StoreConflict, Rotate, TriggerList,
              TriggerPatchFails, StoreReadCred, storeObject
<1>7. CASE \E c \in Consumers : EsStep(c) \/ EsPoll(c) \/ EsFails(c)
  BY <1>3, <1>7 DEF EsStep, EsBegin, EsGuardPasses, EsGuardRefuses, EsFill, EsBuild, EsRegister,
              EsSync, EsPoll, EsFails, storeObject
<1>8. CASE UNCHANGED vars
  BY <1>3, <1>8 DEF vars
<1> QED
  BY <1>2, <1>4, <1>5, <1>6, <1>7, <1>8
  DEF Next, Environment, Failure, Trigger, StoreStep

\* A trigger is only cleared by the round it started and after the bump of
\* clientGeneration was persisted, whatever the interleaving and the failures.
THEOREM ClearedAfterSignalHolds == Spec => ClearedAfterSignal
<1>1. Init => ClearInv
  <2>1. Init => ClearPersisted
    BY DEF Init, ClearPersisted
  <2> QED BY <2>1, InitType, InformerInit DEF ClearInv
<1>2. ClearInv /\ [Next]_vars => ClearInv'
  BY TypeInductive, CopiesMove, ClearPersistedStep DEF ClearInv
<1>3. ClearInv /\ [Next]_vars =>
        [TriggerCleared => /\ storePc = "clear" /\ api.trig = snap.trig
                           /\ api.cg = Bumped(snap.cg) /\ api.cond = "ready"
                           /\ api.observed = snap.gen]_vars
  BY OnlyClearClears DEF ClearInv
<1> QED BY <1>1, <1>2, <1>3, PTL DEF Spec, ClearedAfterSignal

-----------------------------------------------------------------------------
(* No edit of the spec is lost *)

\* Clients are registered in the step that builds them.
LEMMA NoneUnregisteredStep ==
  ASSUME AtomicFill, TypeOK, NoneUnregistered, [Next]_vars
  PROVE  NoneUnregistered'
<1> USE DEF NoneUnregistered, TypeOK
<1>1. CASE UNCHANGED esPc
  BY <1>1
<1>2. CASE Restart
  BY <1>2 DEF Restart
<1>3. CASE \E c \in Consumers : EsStep(c) \/ EsPoll(c) \/ EsFails(c)
  BY <1>3 DEF EsStep, EsBegin, EsGuardPasses, EsGuardRefuses, EsFill, EsBuild, EsRegister,
              EsSync, EsPoll, EsFails, esVars
<1>4. CASE \/ EditSpec \/ Relist \/ Deliver \/ StoreTimer \/ StoreStep \/ StoreBuildFails \/ StoreWriteFails
           \/ \E s \in Sources : Rotate(s) \/ Trigger(s) \/ TriggerPatchFails(s)
  BY <1>1, <1>4
  DEF EditSpec, Relist, Deliver, Observe, StoreTimer, StoreStep, StoreBuildFails, StoreWriteFails, StoreConflict,
      Rotate, Trigger, TriggerList, TriggerPatch, TriggerPatchFails, StoreAddFinalizer, StoreDecide,
      StoreRegister, StoreWriteRebuilt, StoreClearTrigger, StoreKeepTrigger, StoreWriteError,
      StoreReportReady, StoreReadCred, esVars
<1>5. CASE UNCHANGED vars
  BY <1>1, <1>5 DEF vars
<1> QED
  BY <1>2, <1>3, <1>4, <1>5 DEF Next, Environment, Failure

\* The ways a step can move the SecretStore controller's round and the registry.
Elsewhere  == UNCHANGED <<storePc, snap, clients>> /\ (storeQ => storeQ')
Filled     == UNCHANGED <<storePc, snap, storeQ, cache>> /\ clients' = ClientOf(cache)
RoundMoves(from, to) ==
  storePc \in from /\ storePc' \in to /\ UNCHANGED <<snap, clients, cache>>
GoesOn ==
  /\ \/ RoundMoves({"read"}, {"failed"})
     \/ RoundMoves({"status"}, {"clear", "idle"})
     \/ RoundMoves({"clear", "ready"}, {"idle"})
  /\ storeQ => storeQ'
Requeues == storePc' = "idle" /\ storeQ' /\ UNCHANGED <<snap, clients, cache>>

LEMMA RoundSteps ==
  ASSUME AtomicFill, TypeOK, NoneUnregistered, [Next]_vars
  PROVE  \/ Elsewhere \/ Filled \/ Restart \/ GoesOn \/ Requeues
         \/ RoundMoves({"idle"}, {"refetch"}) \/ StoreDecide \/ StoreRegister
<1>1. CASE \/ EditSpec \/ Relist \/ Deliver \/ StoreTimer
           \/ \E s \in Sources : Rotate(s) \/ Trigger(s) \/ TriggerPatchFails(s) \/ StoreReadCred(s)
  BY <1>1 DEF Elsewhere, EditSpec, Relist, Deliver, Observe, StoreTimer, Rotate, Trigger, TriggerList,
              TriggerPatch, TriggerPatchFails, StoreReadCred, roundVars
<1>2. CASE StoreAddFinalizer
  BY <1>2 DEF RoundMoves, StoreAddFinalizer, GuardedWrite, Write
<1>3. CASE StoreBuildFails
  BY <1>3 DEF GoesOn, RoundMoves, StoreBuildFails, storeObject
<1>4. CASE StoreWriteRebuilt
  BY <1>4 DEF GoesOn, RoundMoves, StoreWriteRebuilt, GuardedWrite, Write
<1>5. CASE StoreClearTrigger \/ StoreKeepTrigger
  BY <1>5 DEF GoesOn, RoundMoves, StoreClearTrigger, StoreKeepTrigger, GuardedWrite, Write, storeObject
<1>6. CASE StoreReportReady
  BY <1>6 DEF GoesOn, RoundMoves, StoreReportReady, GuardedWrite, Write, storeObject
<1>7. CASE StoreWriteFails \/ StoreConflict \/ StoreWriteError
  BY <1>7 DEF Requeues, StoreWriteFails, StoreConflict, StoreWriteError, Requeue, GuardedWrite, Write, storeObject
<1>8. CASE \E c \in Consumers : EsStep(c) \/ EsPoll(c) \/ EsFails(c)
  <2> PICK c \in Consumers : EsStep(c) \/ EsPoll(c) \/ EsFails(c)
    BY <1>8
  <2>1. CASE EsFill(c)
    BY <2>1 DEF Filled, EsFill, roundVars, storeObject
  <2>2. CASE EsBegin(c) \/ EsGuardPasses(c) \/ EsGuardRefuses(c) \/ EsSync(c) \/ EsPoll(c) \/ EsFails(c)
    BY <2>2 DEF Elsewhere, EsBegin, EsGuardPasses, EsGuardRefuses, EsSync, EsPoll, EsFails, roundVars
  <2> QED BY <2>1, <2>2 DEF EsStep, EsBuild, EsRegister, NoneUnregistered
<1>9. CASE UNCHANGED vars
  BY <1>9 DEF vars, Elsewhere
<1> QED
  BY <1>1, <1>2, <1>3, <1>4, <1>5, <1>6, <1>7, <1>8, <1>9 DEF Next, Environment, Failure, StoreStep

\* What the step lemmas below start from.
Known ==
  /\ TypeOK /\ TypeOK' /\ IInv /\ Informer'
  /\ cache.gen <= cache'.gen
  /\ cache'.gen # cache.gen => storeQ'
  /\ \A w \in Versions' : \/ w \in Versions
                          \/ w.observed = api.observed
                          \/ w.observed = snap.gen /\ storePc \in StatusPc
  /\ \/ Elsewhere \/ Filled \/ Restart \/ GoesOn \/ Requeues
     \/ RoundMoves({"idle"}, {"refetch"}) \/ StoreDecide \/ StoreRegister

LEMMA KnownHolds ==
  ASSUME AtomicFill, TypeOK, IInv, [Next]_vars
  PROVE  Known
BY TypeInductive, CopiesMove, EditQueues, RoundSteps DEF Known, IInv

\* The generations compared below are numbers.
LEMMA Numbers ==
  ASSUME TypeOK
  PROVE  /\ cache.gen \in Nat /\ snap.gen \in Nat /\ clients.gen \in Nat
         /\ api \in Versions /\ cache \in Versions
         /\ \A v \in Versions : v.observed \in Nat /\ v.gen \in Nat
<1>1. clients.gen \in Nat
  BY DEF TypeOK, Client
<1>2. cache.gen \in Nat /\ snap.gen \in Nat
  BY VersionFields DEF TypeOK
<1> QED BY <1>1, <1>2, VersionFields, VersionsTyped

\* Each way of moving the round leaves the copy it was started with, or takes
\* the informer's.
LEMMA SnapMoves ==
  ASSUME Known
  PROVE  \/ snap' = snap /\ (InRound' => InRound)
         \/ StoreDecide /\ snap' = cache /\ cache' = cache /\ ~InRound
<1>1. CASE StoreDecide
  BY <1>1 DEF StoreDecide, InRound, storeObject
<1>2. CASE StoreRegister
  BY <1>2 DEF StoreRegister, InRound
<1>3. CASE Restart
  BY <1>3 DEF Restart, InRound
<1>4. CASE Elsewhere \/ Filled \/ GoesOn \/ Requeues \/ RoundMoves({"idle"}, {"refetch"})
  BY <1>4 DEF Elsewhere, Filled, GoesOn, Requeues, RoundMoves, InRound
<1> QED BY <1>1, <1>2, <1>3, <1>4 DEF Known

LEMMA ObservedBehindStep ==
  ASSUME Known
  PROVE  ObservedBehind'
<1> USE Numbers DEF Known, IInv
<1>1. cache.gen \in Nat /\ cache'.gen \in Nat /\ snap.gen \in Nat /\ api \in Versions
      /\ (\A v \in Versions : v.observed \in Nat) /\ cache.gen <= cache'.gen
  <2>1. cache' \in Version
    BY DEF TypeOK
  <2> QED BY <2>1, VersionFields
<1>2. storePc \in StatusPc => InRound
  BY DEF StatusPc, InRound
<1>3. \A w \in Versions' : w.observed <= cache.gen /\ (InRound => w.observed <= snap.gen)
  <2> TAKE w \in Versions'
  <2>1. CASE w \in Versions
    BY <2>1 DEF ObservedBehind
  <2>2. CASE w.observed = api.observed
    BY <1>1, <2>2 DEF ObservedBehind
  <2>3. CASE w.observed = snap.gen /\ storePc \in StatusPc
    BY <1>1, <1>2, <2>3 DEF ObservedBehind
  <2> QED BY <2>1, <2>2, <2>3
<1>4. \A w \in Versions' : w.observed \in Nat
  <2>1. \A w \in Versions' : w \in Version
    BY DEF TypeOK, Versions, Undelivered
  <2> QED BY <2>1, VersionFields
<1>5. \A w \in Versions' : w.observed <= cache'.gen
  BY <1>1, <1>3, <1>4
<1>6. CASE snap' = snap /\ (InRound' => InRound)
  BY <1>1, <1>3, <1>4, <1>5, <1>6 DEF ObservedBehind
<1>7. CASE snap' = cache /\ cache' = cache
  BY <1>1, <1>3, <1>5, <1>7 DEF ObservedBehind
<1> QED BY <1>6, <1>7, SnapMoves

LEMMA RoundCurrentStep ==
  ASSUME Known
  PROVE  RoundCurrent'
<1> USE DEF Known, IInv
<1>1. (InRound /\ ~storeQ => snap.gen = cache.gen) /\ (storePc = "invalid" => snap.gen \in InvalidGens)
  BY DEF RoundCurrent
<1>2. CASE Elsewhere \/ Filled \/ GoesOn
  <2>1. storeQ => storeQ'
    BY <1>2 DEF Elsewhere, Filled, GoesOn
  <2>2. snap' = snap /\ (InRound' => InRound) /\ (storePc' = "invalid" => storePc = "invalid")
    BY <1>2 DEF Elsewhere, Filled, GoesOn, RoundMoves, InRound
  <2> QED BY <1>1, <2>1, <2>2 DEF RoundCurrent
<1>3. CASE Restart \/ Requeues \/ RoundMoves({"idle"}, {"refetch"})
  BY <1>3 DEF Restart, Requeues, RoundMoves, RoundCurrent, InRound
<1>4. CASE StoreDecide
  BY <1>4 DEF StoreDecide, RoundCurrent, storeObject
<1>5. CASE StoreRegister
  <2>1. storeQ' = storeQ /\ snap' = snap /\ cache' = cache /\ InRound /\ storePc' = "status"
    BY <1>5 DEF StoreRegister, InRound, storeObject
  <2> QED BY <1>1, <2>1 DEF RoundCurrent
<1> QED BY <1>2, <1>3, <1>4, <1>5

\* What every status says lies behind the informer's copy and, in a round, behind
\* the copy the round was started with.
LEMMA ObservedNext ==
  ASSUME Known
  PROVE  /\ \A w \in Versions' : w.observed <= cache.gen /\ (InRound => w.observed <= snap.gen)
         /\ InRound => snap.gen <= cache.gen
         /\ storePc \in StatusPc => InRound
<1> USE Numbers DEF Known, IInv
<1>1. storePc \in StatusPc => InRound
  BY DEF StatusPc, InRound
<1>2. ASSUME NEW w \in Versions'
      PROVE  w.observed <= cache.gen /\ (InRound => w.observed <= snap.gen)
  <2>1. CASE w \in Versions
    BY <2>1 DEF ObservedBehind
  <2>2. CASE w.observed = api.observed
    BY <2>2 DEF ObservedBehind
  <2>3. CASE w.observed = snap.gen /\ storePc \in StatusPc
    BY <1>1, <2>3 DEF ObservedBehind
  <2> QED BY <1>2, <2>1, <2>2, <2>3
<1> QED BY <1>1, <1>2 DEF ObservedBehind

\* A round that finds nothing to rebuild has a client of the spec it read.
LEMMA NothingToRebuild ==
  ASSUME TypeOK, IInv, StoreDecide, storePc' = "ready"
  PROVE  clients' = clients /\ clients # NoClient /\ clients.gen = cache.gen
<1>1. cache.gen \notin InvalidGens /\ ~NeedRecreate(cache) /\ clients' = clients
  BY DEF StoreDecide
<1>2. clients # NoClient /\ cache.observed = cache.gen
  BY <1>1 DEF NeedRecreate
<1> QED BY <1>1, <1>2, Numbers DEF IInv, ClientBetween

LEMMA ClientBetweenStep ==
  ASSUME Known
  PROVE  ClientBetween'
<1> USE Numbers DEF Known, IInv
<1> DEFINE Rebuilding == {"read", "status", "clear", "ready", "failed"}
<1>1. cache'.gen \in Nat
  <2>1. cache' \in Version
    BY DEF TypeOK
  <2> QED BY <2>1, VersionFields
<1>2. CASE UNCHANGED <<snap, clients>> /\ (storePc' \in Rebuilding => storePc \in Rebuilding)
  <2> SUFFICES ASSUME clients # NoClient
               PROVE  /\ clients.gen <= cache'.gen
                      /\ \A w \in Versions' : w.observed \notin InvalidGens => w.observed <= clients.gen
                      /\ storePc \in Rebuilding => snap.gen <= clients.gen
    BY <1>2 DEF ClientBetween
  <2>1. clients.gen <= cache'.gen
    BY <1>1 DEF ClientBetween
  <2>2. ASSUME NEW w \in Versions', w.observed \notin InvalidGens
        PROVE  w.observed <= clients.gen
    <3>1. CASE w \in Versions
      BY <2>2, <3>1 DEF ClientBetween
    <3>2. CASE w.observed = api.observed
      BY <2>2, <3>2 DEF ClientBetween
    <3>3. CASE w.observed = snap.gen /\ storePc \in StatusPc
      BY <2>2, <3>3 DEF ClientBetween, RoundCurrent, StatusPc
    <3> QED BY <2>2, <3>1, <3>2, <3>3
  <2> QED BY <2>1, <2>2 DEF ClientBetween
<1>3. CASE Elsewhere \/ GoesOn \/ Requeues \/ RoundMoves({"idle"}, {"refetch"})
  BY <1>2, <1>3 DEF Elsewhere, GoesOn, Requeues, RoundMoves
<1>4. CASE Filled
  <2>1. /\ clients'.gen = cache.gen /\ cache' = cache /\ snap' = snap /\ storePc' = storePc
    BY <1>4 DEF Filled, ClientOf
  <2>2. storePc \in Rebuilding => InRound
    BY DEF InRound
  <2> QED BY <2>1, <2>2, ObservedNext DEF ClientBetween
<1>5. CASE Restart
  BY <1>5 DEF Restart, ClientBetween, NoClient, Unread
<1>6. CASE StoreDecide
  <2>1. snap' = cache /\ cache' = cache /\ storePc \notin StatusPc /\ storePc' \in {"invalid", "read", "ready"}
    BY <1>6 DEF StoreDecide, storeObject, StatusPc
  <2>2. \A w \in Versions' : w \in Versions \/ w.observed = api.observed
    BY <2>1
  <2>3. CASE clients' = NoClient
    BY <2>3 DEF ClientBetween, NoClient, Unread
  <2>4. CASE clients' = clients /\ storePc' = "invalid"
    BY <2>1, <2>2, <2>4 DEF ClientBetween, NoClient, Unread
  <2>5. CASE storePc' = "ready"
    BY <1>6, <2>1, <2>2, <2>5, NothingToRebuild DEF ClientBetween, NoClient, Unread
  <2> QED BY <1>6, <2>1, <2>3, <2>4, <2>5 DEF StoreDecide
<1>7. CASE StoreRegister
  <2>1. /\ clients'.gen = snap.gen /\ snap' = snap /\ cache' = cache /\ InRound
    BY <1>7 DEF StoreRegister, InRound, storeObject
  <2> QED BY <2>1, ObservedNext DEF ClientBetween
<1> QED BY <1>3, <1>4, <1>5, <1>6, <1>7

LEMMA ClientCurrentStep ==
  ASSUME Known
  PROVE  ClientCurrent'
<1> USE Numbers DEF Known, IInv
<1> SUFFICES ASSUME storePc' \in {"idle", "status", "clear", "ready"}, ~storeQ', clients' # NoClient
             PROVE  clients'.gen = cache'.gen
  BY DEF ClientCurrent, NoClient, Unread
<1>1. CASE Elsewhere \/ GoesOn
  <2>1. ~storeQ /\ cache'.gen = cache.gen
    BY <1>1 DEF Elsewhere, GoesOn
  <2>2. clients' = clients /\ storePc \in {"idle", "status", "clear", "ready"}
    BY <1>1 DEF Elsewhere, GoesOn, RoundMoves
  <2> QED BY <2>1, <2>2 DEF ClientCurrent
<1>2. CASE Filled
  BY <1>2 DEF Filled, ClientOf
<1>3. CASE Restart \/ Requeues \/ RoundMoves({"idle"}, {"refetch"})
  BY <1>3 DEF Restart, Requeues, RoundMoves
<1>4. CASE StoreDecide
  <2>1. cache' = cache /\ storePc' = "ready"
    BY <1>4 DEF StoreDecide, storeObject
  <2> QED BY <1>4, <2>1, NothingToRebuild
<1>5. CASE StoreRegister
  <2>1. ~storeQ /\ InRound /\ clients'.gen = snap.gen /\ cache' = cache
    BY <1>5 DEF StoreRegister, InRound, storeObject
  <2> QED BY <2>1 DEF RoundCurrent
<1> QED BY <1>1, <1>2, <1>3, <1>4, <1>5

LEMMA IInvInit == Init => IInv
<1> SUFFICES ASSUME Init PROVE IInv
  OBVIOUS
<1>1. Versions = {NewStore} /\ NewStore.gen = 1 /\ NewStore.observed = 0
  BY DEF Init, Versions, Undelivered, NewStore
<1>2. ObservedBehind
  BY <1>1 DEF Init, ObservedBehind, InRound
<1>3. Informer /\ ClientBetween /\ RoundCurrent /\ ClientCurrent /\ NoneUnregistered
  BY InformerInit DEF Init, ClientBetween, RoundCurrent, ClientCurrent, NoneUnregistered, InRound
<1> QED BY <1>2, <1>3 DEF IInv

LEMMA IInvStep ==
  ASSUME AtomicFill, TypeOK, IInv, [Next]_vars
  PROVE  IInv'
<1>1. Known
  BY KnownHolds
<1>2. NoneUnregistered'
  BY NoneUnregisteredStep DEF IInv
<1> QED
  BY <1>1, <1>2, ObservedBehindStep, ClientBetweenStep, RoundCurrentStep, ClientCurrentStep
  DEF Known, IInv

LEMMA IInvSafe == TypeOK /\ IInv => NoLostSpecEdit
<1> SUFFICES ASSUME TypeOK, IInv, clients # NoClient, ~RebuildPending PROVE clients.gen = api.gen
  BY DEF NoLostSpecEdit
<1>1. ~storeQ /\ storePc = "idle" /\ pending = <<>>
  BY DEF RebuildPending
<1> QED BY <1>1 DEF IInv, Informer, ClientCurrent

\* An edit of the store's spec is never lost, whatever the number of edits,
\* rotations, failures and restarts, as long as nobody registers a client it
\* built from an earlier copy of the store.
THEOREM NoLostSpecEditHolds ==
  ASSUME AtomicFill
  PROVE  Spec => []NoLostSpecEdit
<1>1. Init => TypeOK /\ IInv
  BY InitType, IInvInit
<1>2. TypeOK /\ IInv /\ [Next]_vars => (TypeOK /\ IInv)'
  BY TypeInductive, IInvStep
<1> QED BY <1>1, <1>2, IInvSafe, PTL DEF Spec
=============================================================================
