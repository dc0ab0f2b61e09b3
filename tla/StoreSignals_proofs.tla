------------------------ MODULE StoreSignals_proofs ------------------------
(***************************************************************************)
(* More proofs about StoreRebuild: the guard cannot refuse for ever, no    *)
(* rotation and no rebuild signal is lost, a trigger is honoured before it *)
(* is cleared, and clientGeneration counts the rebuilds.                   *)
(***************************************************************************)
EXTENDS StoreRebuild_proofs

-----------------------------------------------------------------------------
(* What a step does to the store object, the queue and the round *)

\* Whatever appears anywhere has just been written.
LEMMA VersionsMove ==
  ASSUME TypeOK, Informer, [Next]_vars
  PROVE  \A w \in Versions' : w \in Versions \/ w = api'
<1>1. CASE UNCHANGED storeObject
  BY <1>1 DEF storeObject, Versions, Undelivered
<1>2. CASE \E v \in Version : StoreWrite(v)
  BY <1>2, WriteVersions DEF StoreWrite, Write
<1>3. CASE Deliver
  BY <1>3, DeliverVersions
<1>4. CASE Relist
  BY <1>4, ListVersions DEF Relist, Observe
<1>5. CASE Restart
  BY <1>5, ListVersions DEF Restart
<1> QED BY <1>1, <1>2, <1>3, <1>4, <1>5, StoreMoves

\* The kinds of steps, each with what it means for the store object, its queue,
\* its round, the credentials and the registered client.
ApiFields(gen, trig, observed, cg) ==
  api'.gen = gen /\ api'.trig = trig /\ api'.observed = observed /\ api'.cg = cg
ApiKept == ApiFields(api.gen, api.trig, api.observed, api.cg)
RoundKept == UNCHANGED <<storePc, snap>> /\ (storeQ => storeQ')
Cached == cache' = cache /\ clock' = clock
DataKept == UNCHANGED <<cred, read, asked, clients>>
Ends == storePc' = "idle" /\ snap' = snap /\ (storeQ => storeQ') /\ DataKept

Apart     == RoundKept /\ Cached /\ UNCHANGED <<api, asked>>
Consumes  == Apart /\ UNCHANGED <<cred, read>>
Rotates   == Apart /\ UNCHANGED <<read, clients>> /\ \E s \in Sources : Rotate(s)
Reads     ==
  /\ Apart /\ UNCHANGED <<cred, clients>> /\ storePc = "read"
  /\ \E s \in Sources : read[s] = 0 /\ read' = [read EXCEPT ![s] = cred[s]]
Edited    == RoundKept /\ Cached /\ DataKept /\ ApiFields(api.gen + 1, api.trig, api.observed, api.cg)
Triggered ==
  /\ RoundKept /\ cache' = cache /\ clock' = clock + 1
  /\ UNCHANGED <<cred, read, clients>> /\ asked' = cred
  /\ ApiFields(api.gen, clock + 1, api.observed, api.cg)
Seen      ==
  /\ UNCHANGED <<storePc, snap, api, clock>> /\ DataKept
  /\ storeQ' = (storeQ \/ StoreRelevant(cache, cache'))
Restarted ==
  /\ storePc' = "idle" /\ storeQ' /\ UNCHANGED <<snap, api, clock, cred, read, asked>>
  /\ clients' = NoClient
Finalizes == storePc = "idle" /\ storePc' = "refetch" /\ snap' = snap /\ Cached /\ ApiKept /\ DataKept
Decides   ==
  /\ storePc \in {"idle", "refetch"} /\ snap' = cache /\ Cached /\ UNCHANGED <<api, cred, asked>>
  /\ LaggingStart \/ \A v \in Undelivered : v.cg = cache.cg
  /\ read' = Unread
  /\ storePc' = "invalid" <=> cache.gen \in InvalidGens
  /\ \/ storePc' = "invalid" /\ clients' = clients
     \/ storePc' = "read" /\ clients' = NoClient
     \/ storePc' = "ready" /\ cache.trig = 0 /\ cache.observed = cache.gen /\ clients' = clients
Advances  ==
  /\ storePc = "read" /\ snap' = snap /\ storeQ' = storeQ /\ Cached
  /\ UNCHANGED <<api, cred, read, asked>>
  /\ \/ /\ storePc' = "status" /\ clients' = [gen |-> snap.gen, cred |-> read]
        /\ \A s \in Sources : read[s] # 0
     \/ FailedBuilds /\ storePc' = "failed" /\ clients' = clients
Reports   ==
  /\ storePc = "status" /\ storePc' = IF snap.trig # 0 THEN "clear" ELSE "idle"
  /\ snap' = snap /\ storeQ' = storeQ /\ Cached /\ DataKept /\ pending = <<>>
  /\ ApiFields(api.gen, api.trig, snap.gen, Bumped(snap.cg)) /\ api'.cond = "ready"
Clears    ==
  /\ storePc = "clear" /\ Ends /\ Cached /\ pending = <<>>
  /\ cache.trig = snap.trig /\ ApiFields(api.gen, 0, api.observed, api.cg)
Keeps     == storePc = "clear" /\ cache.trig # snap.trig /\ Ends /\ Cached /\ api' = api
Errs      ==
  /\ storePc \in {"failed", "invalid"} /\ Ends /\ storeQ' /\ Cached
  /\ pending = <<>> /\ ApiFields(api.gen, api.trig, snap.gen, snap.cg)
Retries   ==
  storePc \in {"status", "clear", "ready", "failed", "invalid"} /\ Ends /\ storeQ' /\ Cached /\ api' = api
Readies   ==
  /\ storePc = "ready" /\ Ends /\ Cached
  /\ api' = api \/ (pending = <<>> /\ ApiFields(api.gen, api.trig, snap.gen, snap.cg))

LEMMA Kinds ==
  ASSUME TypeOK, [Next]_vars
  PROVE  \/ Consumes \/ Rotates \/ Reads \/ Edited \/ Triggered \/ Seen \/ Restarted
         \/ Finalizes \/ Decides \/ Advances \/ Reports \/ Clears \/ Keeps \/ Errs \/ Retries \/ Readies
<1> USE DEF storeObject, roundVars, triggerVars, RoundKept, Cached, DataKept, Ends
<1>1. /\ api \in Version /\ snap \in Version /\ clock \in Nat
      /\ api.gen + 1 \in Nat /\ clock + 1 \in Nat
  <2>1. api \in Version /\ snap \in Version /\ clock \in Nat
    BY DEF TypeOK
  <2> QED BY <2>1, VersionFields
<1>2. CASE EditSpec
  BY <1>1, <1>2 DEF EditSpec, Write, Version, Edited, ApiFields
<1>3. CASE \E s \in Sources : TriggerPatch(s)
  BY <1>1, <1>3 DEF TriggerPatch, Write, Version, Triggered, ApiFields
<1>4. CASE Deliver \/ Relist
  BY <1>4 DEF Deliver, Relist, Observe, Seen
<1>5. CASE Restart
  BY <1>5 DEF Restart, Restarted
<1>6. CASE StoreAddFinalizer
  BY <1>1, <1>6 DEF StoreAddFinalizer, GuardedWrite, Write, Version, Finalizes, ApiKept, ApiFields
<1>7. CASE StoreDecide
  BY <1>7 DEF StoreDecide, NeedRecreate, Decides
<1>8. CASE StoreRegister \/ StoreBuildFails
  BY <1>8 DEF StoreRegister, StoreBuildFails, Advances
<1>9. CASE StoreWriteRebuilt
  BY <1>1, <1>9 DEF StoreWriteRebuilt, GuardedWrite, Write, NewStatus, Version, Reports, ApiFields
<1>10. CASE StoreClearTrigger
  BY <1>1, <1>10 DEF StoreClearTrigger, GuardedWrite, Write, Version, Clears, ApiFields
<1>11. CASE StoreKeepTrigger
  BY <1>11 DEF StoreKeepTrigger, Keeps
<1>12. CASE StoreWriteFails \/ StoreConflict
  BY <1>12 DEF StoreWriteFails, StoreConflict, Requeue, Retries
<1>13. CASE StoreWriteError
  <2> DEFINE v == NewStatus(api, storePc, FALSE)
  <2>1. v.gen = api.gen /\ v.trig = api.trig /\ v.observed = snap.gen /\ v.cg = snap.cg
    BY <1>1 DEF NewStatus, Version
  <2> HIDE DEF v
  <2>2. (pending = <<>> /\ api' = v /\ cache' = cache) \/ UNCHANGED <<api, cache>>
    BY <1>13 DEF StoreWriteError, GuardedWrite, Write, v
  <2> QED BY <1>13, <2>1, <2>2 DEF StoreWriteError, Requeue, Errs, Retries, ApiFields
<1>14. CASE StoreReportReady
  <2> DEFINE v == NewStatus(api, "ready", FALSE)
  <2>1. v.gen = api.gen /\ v.trig = api.trig /\ v.observed = snap.gen /\ v.cg = snap.cg
    BY <1>1 DEF NewStatus, Version
  <2> HIDE DEF v
  <2>2. (pending = <<>> /\ api' = v /\ cache' = cache) \/ UNCHANGED <<api, cache>>
    BY <1>14 DEF StoreReportReady, GuardedWrite, Write, v
  <2> QED BY <1>14, <2>1, <2>2 DEF StoreReportReady, Readies, ApiFields
<1>15. CASE \E s \in Sources : Rotate(s)
  <2>1. PICK s \in Sources : Rotate(s)
    BY <1>15
  <2>2. Apart /\ UNCHANGED <<read, clients>>
    BY <2>1 DEF Rotate, Apart
  <2> QED BY <1>15, <2>2 DEF Rotates
<1>16. CASE \E s \in Sources : StoreReadCred(s)
  <2>1. PICK s \in Sources : StoreReadCred(s)
    BY <1>16
  <2>2. Apart /\ UNCHANGED <<cred, clients>> /\ storePc = "read"
    BY <2>1 DEF StoreReadCred, Apart
  <2>3. read[s] = 0 /\ read' = [read EXCEPT ![s] = cred[s]]
    BY <2>1 DEF StoreReadCred
  <2> QED BY <2>2, <2>3 DEF Reads
<1>17. CASE StoreTimer \/ \E s \in Sources : TriggerList(s) \/ TriggerPatchFails(s)
  BY <1>17 DEF TriggerList, TriggerPatchFails, StoreTimer, Consumes, Apart
<1>18. CASE \E c \in Consumers : EsStep(c) \/ EsPoll(c) \/ EsFails(c)
  BY <1>18 DEF EsStep, EsBegin, EsGuardPasses, EsGuardRefuses, EsFill, EsBuild, EsRegister,
               EsSync, EsPoll, EsFails, Consumes, Apart
<1>19. CASE UNCHANGED vars
  BY <1>19 DEF vars, Consumes, Apart
<1> QED
  BY <1>2, <1>3, <1>4, <1>5, <1>6, <1>7, <1>8, <1>9, <1>10, <1>11, <1>12, <1>13, <1>14, <1>15,
     <1>16, <1>17, <1>18, <1>19
  DEF Next, Environment, Failure, Trigger, StoreStep

-----------------------------------------------------------------------------
(* At rest the status speaks of the spec that is there *)

\* Trigger values are unique: no copy holds one that is yet to be given out.
TriggersUsed == snap.trig <= clock /\ \A v \in Versions : v.trig <= clock

\* No copy's status is ahead of the API server's.
NewestStatus == \A v \in Versions : v.observed <= api.observed

\* A round that missed an edit or a trigger has another one queued behind it; a
\* trigger it knows may have been cleared by the round before.
RoundLags == InRound /\ ~storeQ => snap.gen = cache.gen /\ cache.trig \in {snap.trig, 0}

\* What the decision of the round says of the store it read.
Decision ==
  /\ InRound => (storePc = "invalid" <=> snap.gen \in InvalidGens)
  /\ storePc = "ready" => snap.trig = 0 /\ api.observed = snap.gen

\* The store needs no round, and when none is to come it says so.
Settled(v) == v.gen \notin InvalidGens /\ v.observed = v.gen /\ v.trig = 0
RestSettled == storePc = "idle" /\ ~storeQ => Settled(api) \/ StoreRelevant(cache, api)

RestInv ==
  /\ Informer /\ ObservedBehind /\ ClearPersisted
  /\ TriggersUsed /\ NewestStatus /\ RoundLags /\ Decision /\ RestSettled

\* The fields compared below are numbers, before and after the step.
LEMMA Fields ==
  ASSUME TypeOK
  PROVE  /\ clock \in Nat /\ api \in Versions /\ cache \in Versions
         /\ snap.gen \in Nat /\ snap.trig \in Nat /\ snap.cg \in Nat
         /\ \A v \in Versions : v.gen \in Nat /\ v.trig \in Nat /\ v.observed \in Nat /\ v.cg \in Nat
<1>1. snap \in Version /\ clock \in Nat
  BY DEF TypeOK
<1> QED BY <1>1, VersionFields, VersionsTyped

\* What the step lemmas below start from.
Step ==
  /\ TypeOK /\ TypeOK' /\ RestInv /\ Informer' /\ ClearPersisted'
  /\ cache.gen <= cache'.gen
  /\ \A w \in Versions' : w \in Versions \/ w = api'
  /\ \/ Apart \/ Edited \/ Triggered \/ Seen \/ Restarted \/ Finalizes \/ Decides \/ Advances
     \/ Reports \/ Clears \/ Keeps \/ Errs \/ Retries \/ Readies

LEMMA StepHolds ==
  ASSUME TypeOK, RestInv, [Next]_vars
  PROVE  Step
BY TypeInductive, CopiesMove, ClearPersistedStep, VersionsMove, Kinds
DEF Step, RestInv, Consumes, Rotates, Reads

\* The round keeps the copy it was started with, or starts with the informer's.
LEMMA SnapKept ==
  ASSUME Step
  PROVE  \/ Decides
         \/ snap' = snap /\ (InRound' => InRound)
BY DEF Step, InRound, RoundKept, Ends, Apart, Edited, Triggered, Seen, Restarted, Finalizes,
       Advances, Reports, Clears, Keeps, Errs, Retries, Readies

\* The status at the API server is kept, or is that of the round.
LEMMA StatusKept ==
  ASSUME Step
  PROVE  \/ api'.observed = api.observed
         \/ api'.observed = snap.gen /\ InRound
BY DEF Step, InRound, ApiFields, ApiKept, Apart, Edited, Triggered, Seen, Restarted, Finalizes, Decides,
       Advances, Reports, Clears, Keeps, Errs, Retries, Readies

LEMMA StatusOrderStep ==
  ASSUME Step
  PROVE  ObservedBehind' /\ NewestStatus'
<1> USE DEF Step, RestInv
<1>1. /\ cache.gen \in Nat /\ snap.gen \in Nat /\ api \in Versions
      /\ \A v \in Versions : v.observed \in Nat
  BY Fields
<1>2. cache'.gen \in Nat /\ snap'.gen \in Nat /\ \A v \in Versions' : v.observed \in Nat
  <2>1. snap' \in Version /\ cache' \in Version /\ \A v \in Versions' : v \in Version
    BY DEF TypeOK, Versions, Undelivered
  <2> QED BY <2>1, VersionFields
<1>3. api'.observed <= cache.gen /\ (InRound => api'.observed <= snap.gen) /\ api.observed <= api'.observed
  BY <1>1, StatusKept DEF ObservedBehind
<1>4. \A w \in Versions' : w.observed <= api'.observed
  <2>1. api' \in Versions'
    BY DEF Versions
  <2> QED BY <1>1, <1>2, <1>3, <2>1 DEF NewestStatus
<1>5. \A w \in Versions' : w.observed <= cache.gen /\ (InRound => w.observed <= snap.gen)
  BY <1>1, <1>2, <1>3, <1>4 DEF Versions
<1>6. CASE Decides
  <2>1. snap' = cache /\ cache' = cache
    BY <1>6 DEF Decides, Cached
  <2> QED BY <1>1, <1>2, <1>4, <1>5, <2>1 DEF ObservedBehind, NewestStatus
<1>7. CASE snap' = snap /\ (InRound' => InRound)
  <2>1. InRound' => snap'.gen <= cache'.gen
    BY <1>1, <1>2, <1>7 DEF ObservedBehind
  <2> QED BY <1>1, <1>2, <1>4, <1>5, <1>7, <2>1 DEF ObservedBehind, NewestStatus
<1> QED BY <1>6, <1>7, SnapKept

LEMMA TriggersUsedStep ==
  ASSUME Step
  PROVE  TriggersUsed'
<1> USE DEF Step, RestInv
<1>1. /\ clock \in Nat /\ api \in Versions /\ cache \in Versions /\ snap.trig \in Nat
      /\ \A v \in Versions : v.trig \in Nat
  BY Fields
<1>2. clock' \in {clock, clock + 1} /\ (api'.trig \in {api.trig, 0} \/ api'.trig = clock')
  BY DEF ApiFields, ApiKept, Cached, Apart, Edited, Triggered, Seen, Restarted, Finalizes, Decides,
         Advances, Reports, Clears, Keeps, Errs, Retries, Readies
<1>3. snap' \in {snap, cache}
  BY SnapKept DEF Decides
<1> QED BY <1>1, <1>2, <1>3 DEF TriggersUsed

LEMMA RoundLagsStep ==
  ASSUME Step
  PROVE  RoundLags'
<1> USE DEF Step, RestInv
<1>1. cache.gen \in Nat /\ cache.trig \in Nat /\ snap.trig \in Nat
  BY Fields
<1>2. CASE Decides
  BY <1>2 DEF Decides, Cached, RoundLags
<1>3. CASE Seen
  <2>1. ~storeQ' => ~storeQ /\ ~StoreRelevant(cache, cache')
    BY <1>3 DEF Seen
  <2>2. snap' = snap /\ (InRound' => InRound)
    BY <1>3 DEF Seen, InRound
  <2> QED BY <1>1, <2>1, <2>2 DEF RoundLags, StoreRelevant
<1>4. CASE Restarted \/ Finalizes \/ Clears \/ Keeps \/ Errs \/ Retries \/ Readies
  BY <1>4 DEF Restarted, Finalizes, Clears, Keeps, Errs, Retries, Readies, Ends, RoundLags, InRound
<1>5. CASE Apart \/ Edited \/ Triggered \/ Advances \/ Reports
  <2>1. /\ snap' = snap /\ cache' = cache /\ (InRound' => InRound)
        /\ storeQ => storeQ'
    BY <1>5 DEF Apart, Edited, Triggered, Advances, Reports, RoundKept, Cached, InRound
  <2> QED BY <2>1 DEF RoundLags
<1> QED BY <1>2, <1>3, <1>4, <1>5

LEMMA DecisionStep ==
  ASSUME Step
  PROVE  Decision'
<1> USE DEF Step, RestInv
<1>1. CASE Decides
  <2>1. /\ snap' = cache /\ api' = api /\ (storePc' = "invalid" <=> snap'.gen \in InvalidGens)
        /\ storePc' = "ready" => cache.trig = 0 /\ cache.observed = cache.gen
    BY <1>1 DEF Decides, Cached
  <2>2. cache.observed = cache.gen => api.observed = cache.gen
    BY Fields DEF ObservedBehind, NewestStatus
  <2> QED BY <2>1, <2>2 DEF Decision
<1>2. CASE Restarted \/ Finalizes \/ Clears \/ Keeps \/ Errs \/ Retries \/ Readies
  BY <1>2 DEF Restarted, Finalizes, Clears, Keeps, Errs, Retries, Readies, Ends, Decision, InRound
<1>3. CASE Advances \/ Reports
  BY <1>3 DEF Advances, Reports, Decision, InRound
<1>4. CASE Apart \/ Edited \/ Triggered \/ Seen
  <2>1. UNCHANGED <<storePc, snap>> /\ api'.observed = api.observed
    BY <1>4 DEF Apart, Edited, Triggered, Seen, RoundKept, ApiFields
  <2> QED BY <2>1 DEF Decision, InRound
<1> QED BY <1>1, <1>2, <1>3, <1>4

\* A round that ends without a retry leaves the status settled, unless it missed
\* something.
LEMMA EndSettled ==
  ASSUME Step, Reports \/ Clears \/ Keeps \/ Readies, storePc' = "idle", ~storeQ'
  PROVE  Settled(api)' \/ StoreRelevant(cache, api)'
<1> USE DEF Step, RestInv
<1>1. /\ ~storeQ /\ InRound /\ cache' = cache /\ snap.gen \notin InvalidGens
  BY DEF Reports, Clears, Keeps, Readies, Ends, Cached, InRound, Decision
<1>2. snap.gen = cache.gen /\ cache.trig \in {snap.trig, 0}
  BY <1>1 DEF RoundLags
<1>3. pending = <<>> => cache = api
  BY DEF Informer
<1>4. CASE Reports
  BY <1>1, <1>2, <1>3, <1>4 DEF Reports, ApiFields, Settled
<1>5. CASE Clears
  <2>1. api.observed = snap.gen
    BY <1>5 DEF Clears, ClearPersisted
  <2> QED BY <1>1, <1>2, <1>3, <1>5, <2>1 DEF Clears, ApiFields, Settled
<1>6. CASE Keeps
  <2>1. api.observed = snap.gen /\ api' = api /\ cache.trig = 0
    BY <1>2, <1>6 DEF Keeps, ClearPersisted
  <2> QED BY <1>1, <1>2, <2>1 DEF Settled, StoreRelevant
<1>7. CASE Readies
  <2>1. snap.trig = 0 /\ api.observed = snap.gen
    BY <1>7 DEF Readies, Decision
  <2> QED BY <1>1, <1>2, <1>3, <1>7, <2>1 DEF Readies, ApiFields, Settled, StoreRelevant
<1> QED BY <1>4, <1>5, <1>6, <1>7

LEMMA RestSettledStep ==
  ASSUME Step
  PROVE  RestSettled'
<1> USE DEF Step, RestInv
<1> SUFFICES ASSUME storePc' = "idle", ~storeQ'
             PROVE  Settled(api)' \/ StoreRelevant(cache, api)'
  BY DEF RestSettled
<1>1. /\ api.gen \in Nat /\ cache.gen \in Nat /\ cache.trig \in Nat /\ clock \in Nat
  BY Fields
<1>2. CASE Apart
  BY <1>2 DEF Apart, RoundKept, Cached, RestSettled, Settled, StoreRelevant
<1>3. CASE Edited
  BY <1>1, <1>3, InformerLeads DEF Edited, Cached, ApiFields, StoreRelevant
<1>4. CASE Triggered
  BY <1>1, <1>4, Fields DEF Triggered, ApiFields, StoreRelevant, TriggersUsed
<1>5. CASE Seen
  BY <1>5 DEF Seen, RestSettled, Settled, StoreRelevant
<1>6. CASE Restarted \/ Finalizes \/ Decides \/ Advances \/ Errs \/ Retries
  BY <1>6 DEF Restarted, Finalizes, Decides, Advances, Errs, Retries
<1> QED BY <1>2, <1>3, <1>4, <1>5, <1>6, EndSettled

LEMMA RestInvInit == Init => RestInv
<1> SUFFICES ASSUME Init PROVE RestInv
  OBVIOUS
<1>1. Versions = {NewStore} /\ NewStore.gen = 1 /\ NewStore.observed = 0 /\ NewStore.trig = 0
  BY DEF Init, Versions, Undelivered, NewStore
<1>2. ObservedBehind
  BY <1>1 DEF Init, ObservedBehind, InRound
<1>3. TriggersUsed /\ NewestStatus
  BY <1>1 DEF Init, TriggersUsed, NewestStatus
<1>4. Informer /\ ClearPersisted /\ RoundLags /\ Decision /\ RestSettled
  BY InformerInit DEF Init, ClearPersisted, RoundLags, Decision, RestSettled, InRound
<1> QED BY <1>2, <1>3, <1>4 DEF RestInv

LEMMA RestInvStep ==
  ASSUME TypeOK, RestInv, [Next]_vars
  PROVE  RestInv'
BY StepHolds, StatusOrderStep, TriggersUsedStep, RoundLagsStep, DecisionStep, RestSettledStep
DEF Step, RestInv

LEMMA RestInvSafe == TypeOK /\ RestInv => NoStuckGuard
<1> SUFFICES ASSUME TypeOK, RestInv, ~RebuildPending PROVE StoreClientFresh(api)
  BY DEF NoStuckGuard
<1>1. ~storeQ /\ storePc = "idle" /\ cache = api
  BY DEF RebuildPending, RestInv, Informer
<1> QED BY <1>1 DEF RestInv, RestSettled, Settled, StoreRelevant, StoreClientFresh

\* The freshness guard cannot refuse for ever: while the store looks mid rebuild,
\* its controller has a round queued, running or on its way, whatever races,
\* failures, skipped versions and restarts came before.
THEOREM NoStuckGuardHolds == Spec => []NoStuckGuard
<1>1. Init => TypeOK /\ RestInv
  BY InitType, RestInvInit
<1>2. TypeOK /\ RestInv /\ [Next]_vars => (TypeOK /\ RestInv)'
  BY TypeInductive, RestInvStep
<1> QED BY <1>1, <1>2, RestInvSafe, PTL DEF Spec

-----------------------------------------------------------------------------
(* A trigger is honoured before it is cleared *)

\* The round works for the trigger that is set at the API server.
Serving == storePc \in {"read", "status", "clear"} /\ snap.trig = api.trig /\ api.trig # 0

\* A client is only built when every credential object was read.
ReadAll == storePc \in {"status", "clear"} => \A s \in Sources : read[s] # 0

\* The credentials that set a trigger off are there; what the round that works
\* for it has read is not older.
AskedThere == \A s \in Sources : asked[s] <= cred[s]
ReadInTime == Serving => \A s \in Sources : read[s] # 0 => read[s] >= asked[s]

HonourInv == TypeOK /\ RestInv /\ ReadAll /\ AskedThere /\ ReadInTime

LEMMA CredFields ==
  ASSUME TypeOK
  PROVE  \A s \in Sources : cred[s] \in Nat /\ read[s] \in Nat /\ asked[s] \in Nat
BY DEF TypeOK, Creds

\* Credential objects only get newer.
LEMMA CredGrows ==
  ASSUME TypeOK, Rotates
  PROVE  \A s \in Sources : cred[s] <= cred'[s]
<1>1. PICK t \in Sources : Rotate(t)
  BY DEF Rotates
<1>2. cred' = [cred EXCEPT ![t] = cred[t] + 1] /\ cred \in [Sources -> Nat]
  BY <1>1 DEF Rotate, TypeOK, Creds
<1> QED BY <1>2

LEMMA AskedThereStep ==
  ASSUME HonourInv, [Next]_vars
  PROVE  AskedThere'
<1> USE DEF HonourInv, DataKept
<1>1. CASE Rotates
  <2>1. asked' = asked
    BY <1>1 DEF Rotates, Apart
  <2>2. \A s \in Sources : cred[s] \in Nat /\ asked[s] \in Nat /\ cred'[s] \in Nat
    BY CredFields, TypeInductive DEF TypeOK, Creds
  <2> QED BY <1>1, <2>1, <2>2, CredGrows DEF AskedThere
<1>2. CASE Triggered
  BY <1>2, CredFields DEF Triggered, AskedThere
<1>3. CASE \/ Consumes \/ Reads \/ Edited \/ Seen \/ Restarted \/ Finalizes \/ Decides \/ Advances
           \/ Reports \/ Clears \/ Keeps \/ Errs \/ Retries \/ Readies
  <2>1. asked' = asked /\ cred' = cred
    BY <1>3 DEF Consumes, Reads, Apart, Edited, Seen, Restarted, Finalizes, Decides, Advances,
                Reports, Clears, Keeps, Errs, Retries, Readies, Ends
  <2> QED BY <2>1 DEF AskedThere
<1> QED BY <1>1, <1>2, <1>3, Kinds

\* The round that works for a trigger after a step worked for it before, or
\* has read nothing yet.
LEMMA ServingKept ==
  ASSUME TypeOK, RestInv, [Next]_vars, Serving'
  PROVE  \/ Decides
         \/ /\ Serving /\ asked' = asked
            /\ \/ read' = read
               \/ Reads
<1> USE DEF RestInv, DataKept, RoundKept, Cached
<1>1. CASE Triggered
  <2>1. api'.trig = clock + 1 /\ snap' = snap /\ snap.trig <= clock /\ snap.trig \in Nat /\ clock \in Nat
    BY <1>1, Fields DEF Triggered, ApiFields, TriggersUsed
  <2> QED BY <2>1 DEF Serving
<1>2. CASE Consumes \/ Rotates \/ Reads
  BY <1>2 DEF Consumes, Rotates, Reads, Apart, Serving
<1>3. CASE Edited \/ Seen \/ Advances \/ Reports
  BY <1>3 DEF Edited, Seen, Advances, Reports, ApiFields, Serving
<1>4. CASE Restarted \/ Finalizes \/ Clears \/ Keeps \/ Errs \/ Retries \/ Readies
  BY <1>4 DEF Restarted, Finalizes, Clears, Keeps, Errs, Retries, Readies, Ends, Serving
<1> QED BY <1>1, <1>2, <1>3, <1>4, Kinds

LEMMA ReadInTimeStep ==
  ASSUME HonourInv, [Next]_vars
  PROVE  ReadInTime'
<1> USE DEF HonourInv
<1> SUFFICES ASSUME Serving', NEW s \in Sources, read'[s] # 0
             PROVE  read'[s] >= asked'[s]
  BY DEF ReadInTime
<1>1. CASE Decides
  BY <1>1 DEF Decides, Unread
<1>2. CASE Serving /\ asked' = asked /\ read' = read
  BY <1>2 DEF ReadInTime
<1>3. CASE Serving /\ asked' = asked /\ Reads
  <2>1. PICK t \in Sources : read' = [read EXCEPT ![t] = cred[t]]
    BY <1>3 DEF Reads
  <2>2. read'[s] = IF s = t THEN cred[s] ELSE read[s]
    BY <2>1 DEF TypeOK, Creds
  <2> QED BY <1>3, <2>2, CredFields DEF ReadInTime, AskedThere
<1> QED BY <1>1, <1>2, <1>3, ServingKept

LEMMA ReadAllStep ==
  ASSUME TypeOK, ReadAll, [Next]_vars
  PROVE  ReadAll'
<1> USE DEF DataKept, RoundKept
<1>1. CASE Consumes \/ Rotates \/ Edited \/ Triggered \/ Seen \/ Advances \/ Reports
  BY <1>1 DEF Consumes, Rotates, Apart, Edited, Triggered, Seen, Advances, Reports, ReadAll
<1>2. CASE \/ Reads \/ Restarted \/ Finalizes \/ Decides \/ Clears \/ Keeps \/ Errs \/ Retries \/ Readies
  BY <1>2 DEF Reads, Apart, Restarted, Finalizes, Decides, Clears, Keeps, Errs, Retries, Readies, Ends,
              ReadAll
<1> QED BY <1>1, <1>2, Kinds

\* The step that clears the trigger is that of the round that works for it.
LEMMA HonourSafe ==
  ASSUME HonourInv, [Next]_vars, TriggerCleared
  PROVE  \A s \in Sources : read[s] >= asked[s]
<1> USE DEF HonourInv, RestInv
<1>1. /\ storePc = "clear" /\ snap.trig = api.trig
  BY OnlyClearClears DEF TriggerCleared, ClearInv
<1> QED BY <1>1 DEF TriggerCleared, Serving, ReadAll, ReadInTime

LEMMA HonourInit == Init => HonourInv
<1> SUFFICES ASSUME Init PROVE HonourInv
  OBVIOUS
<1>1. TypeOK /\ RestInv
  BY InitType, RestInvInit
<1>2. storePc = "idle" /\ cred = [s \in Sources |-> 1] /\ asked = [s \in Sources |-> 0]
  BY DEF Init, Unread
<1>3. AskedThere
  <2> SUFFICES ASSUME NEW s \in Sources PROVE asked[s] <= cred[s]
    BY DEF AskedThere
  <2>1. cred[s] = 1 /\ asked[s] = 0
    BY <1>2
  <2> QED BY <2>1
<1>4. ReadAll /\ ReadInTime
  BY <1>2 DEF ReadAll, ReadInTime, Serving
<1> QED BY <1>1, <1>3, <1>4 DEF HonourInv

LEMMA HonourStep ==
  ASSUME HonourInv, [Next]_vars
  PROVE  HonourInv'
BY TypeInductive, RestInvStep, ReadAllStep, AskedThereStep, ReadInTimeStep DEF HonourInv

\* A trigger is honoured before it is cleared: the round that clears it has read
\* every credential object at or after the versions that set the trigger off.
THEOREM TriggerHonouredHolds == Spec => TriggerHonoured
<1>1. Init => HonourInv
  BY HonourInit
<1>2. HonourInv /\ [Next]_vars => HonourInv'
  BY HonourStep
<1>3. HonourInv /\ [Next]_vars
        => [TriggerCleared => \A s \in Sources : read[s] >= asked[s]]_vars
  BY HonourSafe
<1> QED BY <1>1, <1>2, <1>3, PTL DEF Spec, TriggerHonoured

-----------------------------------------------------------------------------
(* No rotation is lost *)

\* The registered client, or the client the round is about to build, holds an
\* older version of credential object s.
Behind(s) ==
  \/ clients # NoClient /\ clients.cred[s] # cred[s]
  \/ storePc = "read" /\ read[s] \notin {0, cred[s]}

\* The trigger is cleared at the API server, and some copy still shows one.
Cleared == api.trig = 0 /\ \E v \in Versions : v.trig # 0

\* Once the round that works for the trigger has read an object, it is ahead; so
\* is the client while a cleared trigger is still seen; otherwise a trigger is
\* set or on its way.
ServedCurrent(s) ==
  Serving /\ read[s] # 0 =>
    IF storePc = "read" THEN read[s] = cred[s]
                        ELSE clients # NoClient => clients.cred[s] = cred[s]
ClearedCurrent(s) == Cleared => ~Behind(s)
Noticed(s) == trigQ[s] \/ trigPc[s] = "patch"
Announced(s) == Behind(s) => Noticed(s) \/ api.trig # 0

RotationInv ==
  /\ TypeOK /\ RestInv /\ NoneUnregistered /\ ReadAll
  /\ \A s \in Sources : ServedCurrent(s) /\ ClearedCurrent(s) /\ Announced(s)

LEMMA CredMoves ==
  ASSUME TypeOK, [Next]_vars, NEW s \in Sources
  PROVE  cred'[s] = cred[s] \/ Rotate(s)
<1>1. CASE Rotates
  <2>1. PICK t \in Sources : Rotate(t)
    BY <1>1 DEF Rotates
  <2>2. cred' = [cred EXCEPT ![t] = cred[t] + 1] /\ cred \in [Sources -> Nat]
    BY <2>1 DEF Rotate, TypeOK, Creds
  <2> QED BY <2>1, <2>2
<1>2. CASE Consumes \/ Reads \/ Edited \/ Triggered \/ Seen \/ Restarted \/ Finalizes \/ Decides
  BY <1>2 DEF Consumes, Reads, Edited, Triggered, Seen, Restarted, Finalizes, Decides, DataKept
<1>3. CASE Advances \/ Reports \/ Clears \/ Keeps \/ Errs \/ Retries \/ Readies
  BY <1>3 DEF Advances, Reports, Clears, Keeps, Errs, Retries, Readies, Ends, DataKept
<1> QED BY <1>1, <1>2, <1>3, Kinds

\* A round that reads has read an object before, reads it now, or has not read it.
LEMMA ReadMoves ==
  ASSUME TypeOK, [Next]_vars, NEW s \in Sources, storePc' = "read"
  PROVE  read'[s] \in {0, cred[s]} \/ (storePc = "read" /\ read'[s] = read[s])
<1>1. CASE Reads
  <2>1. PICK t \in Sources : read' = [read EXCEPT ![t] = cred[t]]
    BY <1>1 DEF Reads
  <2> QED BY <1>1, <2>1 DEF Reads, TypeOK, Creds
<1>2. CASE Decides
  BY <1>2 DEF Decides, Unread
<1>3. CASE Consumes \/ Rotates \/ Edited \/ Triggered \/ Seen
  BY <1>3 DEF Consumes, Rotates, Apart, Edited, Triggered, Seen, DataKept, RoundKept
<1>4. CASE \/ Restarted \/ Finalizes \/ Advances \/ Reports \/ Clears \/ Keeps \/ Errs \/ Retries \/ Readies
  BY <1>4 DEF Restarted, Finalizes, Advances, Reports, Clears, Keeps, Errs, Retries, Readies, Ends
<1> QED BY <1>1, <1>2, <1>3, <1>4, Kinds

LEMMA ClientsMove ==
  ASSUME AtomicFill, TypeOK, NoneUnregistered, [Next]_vars
  PROVE  \/ clients' \in {clients, NoClient, ClientOf(cache)}
         \/ /\ storePc = "read" /\ clients' = [gen |-> snap.gen, cred |-> read]
            /\ \A s \in Sources : read[s] # 0
BY RoundSteps DEF Elsewhere, Filled, Restart, GoesOn, Requeues, RoundMoves, StoreDecide, StoreRegister

\* A round that has read everything builds its client of that.
LEMMA BuildMoves ==
  ASSUME AtomicFill, TypeOK, NoneUnregistered, [Next]_vars,
         storePc = "read", storePc' \in {"status", "clear"}
  PROVE  clients' = [gen |-> snap.gen, cred |-> read]
BY RoundSteps DEF Elsewhere, Filled, Restart, GoesOn, Requeues, RoundMoves, StoreDecide, StoreRegister

\* Only a rotation puts anybody behind.
LEMMA BehindMoves ==
  ASSUME AtomicFill, TypeOK, NoneUnregistered, [Next]_vars, NEW s \in Sources, Behind(s)'
  PROVE  Behind(s) \/ Rotate(s)
<1> SUFFICES ASSUME cred'[s] = cred[s] PROVE Behind(s)
  BY CredMoves
<1>1. CASE clients' # NoClient /\ clients'.cred[s] # cred[s]
  <2>1. ClientOf(cache).cred = cred /\ [gen |-> snap.gen, cred |-> read].cred = read
    BY DEF ClientOf
  <2> QED BY <1>1, <2>1, ClientsMove DEF Behind
<1>2. CASE storePc' = "read" /\ read'[s] \notin {0, cred[s]}
  BY <1>2, ReadMoves DEF Behind
<1>3. NoClient' = NoClient
  BY DEF NoClient, Unread
<1> QED BY <1>1, <1>2, <1>3 DEF Behind

\* A rotation that would be lost is not considered (see the theorem).
LEMMA RotateSafe ==
  ASSUME ~RotateInWindow, NEW s \in Sources, Rotate(s)
  PROVE  ~Cleared /\ ~(Serving /\ read[s] # 0)
<1>1. SkipIsSafe(s)
  BY DEF Rotate
<1> QED BY <1>1 DEF SkipIsSafe, Cleared, Serving, Versions

LEMMA ServedCurrentStep ==
  ASSUME AtomicFill, ~RotateInWindow, RotationInv, [Next]_vars, NEW s \in Sources
  PROVE  ServedCurrent(s)'
<1> USE DEF RotationInv
<1> SUFFICES ASSUME Serving', read'[s] # 0
             PROVE  IF storePc' = "read" THEN read'[s] = cred'[s]
                    ELSE clients' # NoClient => clients'.cred[s] = cred'[s]
  BY DEF ServedCurrent, NoClient, Unread
<1>1. CASE Rotate(s)
  <2>1. Serving /\ read' = read
    BY <1>1 DEF Rotate, roundVars, storeObject, Serving
  <2> QED BY <1>1, <2>1, RotateSafe
<1>2. CASE cred'[s] = cred[s]
  <2>1. CASE storePc' = "read"
    <3>1. read'[s] = cred[s] \/ (storePc = "read" /\ read'[s] = read[s])
      BY <2>1, ReadMoves
    <3>2. CASE storePc = "read" /\ read'[s] = read[s]
      <4>1. Serving
        BY <3>2, ServingKept DEF Decides
      <4> QED BY <1>2, <2>1, <3>2, <4>1 DEF ServedCurrent
    <3> QED BY <1>2, <2>1, <3>1, <3>2
  <2>2. CASE storePc' # "read"
    <3>1. Serving /\ read' = read
      BY <2>2, ServingKept DEF Decides, Reads, Apart, RoundKept, Serving
    <3>2. CASE storePc = "read"
      BY <1>2, <2>2, <3>1, <3>2, BuildMoves DEF ServedCurrent, Serving
    <3>3. CASE storePc # "read"
      <4>1. ClientOf(cache).cred = cred
        BY DEF ClientOf
      <4> QED BY <1>2, <2>2, <3>1, <3>3, <4>1, ClientsMove DEF ServedCurrent
    <3> QED BY <3>2, <3>3
  <2> QED BY <2>1, <2>2
<1> QED BY <1>1, <1>2, CredMoves

\* A trigger that disappears at the API server was cleared by the round that
\* worked for it.
LEMMA TriggerGone ==
  ASSUME TypeOK, RestInv, [Next]_vars, TriggerCleared
  PROVE  Serving /\ storePc = "clear"
BY OnlyClearClears DEF TriggerCleared, RestInv, Serving

LEMMA ClearedMoves ==
  ASSUME TypeOK, RestInv, [Next]_vars, Cleared'
  PROVE  Cleared \/ TriggerCleared
BY VersionsMove DEF RestInv, Cleared, TriggerCleared

\* When the trigger is cleared nobody is behind.
LEMMA GoneCurrent ==
  ASSUME AtomicFill, ~RotateInWindow, RotationInv, [Next]_vars, TriggerCleared, NEW s \in Sources
  PROVE  ~Behind(s)'
<1> USE DEF RotationInv
<1>1. Serving /\ storePc = "clear" /\ read[s] # 0
  BY TriggerGone DEF ReadAll
<1>2. ~Behind(s)
  BY <1>1 DEF ServedCurrent, Behind
<1> QED BY <1>1, <1>2, BehindMoves, RotateSafe

LEMMA ClearedCurrentStep ==
  ASSUME AtomicFill, ~RotateInWindow, RotationInv, [Next]_vars, NEW s \in Sources
  PROVE  ClearedCurrent(s)'
<1> SUFFICES ASSUME Cleared' PROVE ~Behind(s)'
  BY DEF ClearedCurrent
<1>1. CASE Cleared
  BY <1>1, BehindMoves, RotateSafe DEF RotationInv, ClearedCurrent
<1> QED BY <1>1, ClearedMoves, GoneCurrent DEF RotationInv

\* A noticed rotation ends in a trigger, unless one is seen to be set.
LEMMA NoticedMoves ==
  ASSUME TypeOK, [Next]_vars, NEW s \in Sources, Noticed(s)
  PROVE  Noticed(s)' \/ api'.trig # 0 \/ (TriggerList(s) /\ cache.trig # 0)
<1> USE DEF TypeOK, Noticed
<1>1. CASE UNCHANGED triggerVars
  BY <1>1 DEF triggerVars
<1>2. CASE Restart
  BY <1>2 DEF Restart
<1>3. CASE \E t \in Sources : Rotate(t)
  BY <1>3 DEF Rotate
<1>4. CASE \E t \in Sources : TriggerList(t)
  BY <1>4 DEF TriggerList
<1>5. CASE \E t \in Sources : TriggerPatch(t)
  <2>1. clock \in Nat /\ api \in Version /\ clock + 1 # 0
    OBVIOUS
  <2>2. [api EXCEPT !.trig = clock + 1].trig = clock + 1
    BY <2>1 DEF Version
  <2> QED BY <1>5, <2>1, <2>2 DEF TriggerPatch, Write
<1>6. CASE \E t \in Sources : TriggerPatchFails(t)
  BY <1>6 DEF TriggerPatchFails
<1>7. CASE \/ EditSpec \/ Relist \/ Deliver \/ StoreTimer \/ StoreStep \/ StoreBuildFails \/ StoreWriteFails
  BY <1>1, <1>7
  DEF EditSpec, Relist, Deliver, Observe, StoreTimer, StoreStep, StoreBuildFails, StoreWriteFails, StoreConflict,
      StoreAddFinalizer, StoreDecide, StoreRegister, StoreWriteRebuilt, StoreClearTrigger,
      StoreKeepTrigger, StoreWriteError, StoreReportReady, StoreReadCred
<1>8. CASE \E c \in Consumers : EsStep(c) \/ EsPoll(c) \/ EsFails(c)
  BY <1>1, <1>8 DEF EsStep, EsBegin, EsGuardPasses, EsGuardRefuses, EsFill, EsBuild, EsRegister,
              EsSync, EsPoll, EsFails
<1>9. CASE UNCHANGED vars
  BY <1>1, <1>9 DEF vars, triggerVars
<1> QED
  BY <1>2, <1>3, <1>4, <1>5, <1>6, <1>7, <1>8, <1>9 DEF Next, Environment, Failure, Trigger

LEMMA AnnouncedStep ==
  ASSUME AtomicFill, ~RotateInWindow, RotationInv, [Next]_vars, NEW s \in Sources
  PROVE  Announced(s)'
<1> USE DEF RotationInv
<1> SUFFICES ASSUME Behind(s)', api'.trig = 0, ~Noticed(s)' PROVE FALSE
  BY DEF Announced
<1>1. ~TriggerCleared /\ api.trig = 0
  BY GoneCurrent DEF TriggerCleared
<1>2. CASE Rotate(s)
  BY <1>2 DEF Rotate, Noticed, TypeOK
<1>3. CASE Behind(s)
  <2>1. Noticed(s)
    BY <1>1, <1>3 DEF Announced
  <2>2. cache.trig # 0
    BY <2>1, NoticedMoves
  <2> QED BY <1>1, <1>3, <2>2 DEF Cleared, Versions, ClearedCurrent
<1> QED BY <1>2, <1>3, BehindMoves

LEMMA RotationInit == Init => RotationInv
<1> SUFFICES ASSUME Init PROVE RotationInv
  OBVIOUS
<1>1. TypeOK /\ RestInv
  BY InitType, RestInvInit
<1>2. /\ storePc = "idle" /\ clients = NoClient /\ esPc = [c \in Consumers |-> "idle"]
      /\ \A s \in Sources : ~Behind(s)
  BY DEF Init, Behind
<1> QED
  BY <1>1, <1>2
  DEF RotationInv, NoneUnregistered, ReadAll, ServedCurrent, ClearedCurrent, Announced, Serving

LEMMA RotationStep ==
  ASSUME AtomicFill, ~RotateInWindow, RotationInv, [Next]_vars
  PROVE  RotationInv'
<1>1. TypeOK' /\ RestInv' /\ NoneUnregistered' /\ ReadAll'
  BY TypeInductive, RestInvStep, NoneUnregisteredStep, ReadAllStep DEF RotationInv
<1> QED BY <1>1, ServedCurrentStep, ClearedCurrentStep, AnnouncedStep DEF RotationInv

\* At rest no trigger is set, so whoever is behind has been noticed.
LEMMA RotationSafe == RotationInv => NoLostRotation
<1> SUFFICES ASSUME RotationInv, clients # NoClient, clients.cred # cred, ~RebuildPending
             PROVE  TriggerPending
  BY DEF NoLostRotation
<1> USE DEF RotationInv
<1>1. api.trig = 0
  BY DEF RebuildPending, RestInv, Informer, RestSettled, Settled, StoreRelevant
<1>2. clients.cred \in [Sources -> Nat] /\ cred \in [Sources -> Nat]
  BY DEF TypeOK, Client, Creds
<1>3. PICK s \in Sources : clients.cred[s] # cred[s]
  BY <1>2
<1> QED BY <1>1, <1>3 DEF Behind, Announced, Noticed, TriggerPending

\* A rotation of a credential object is never lost: while the registered client
\* holds an older version of one, a trigger or a rebuild is on its way.  Assumed:
\* nobody registers a client it built earlier, and no rotation meets a trigger
\* whose round has read the object or that is only seen by lagging caches.
THEOREM NoLostRotationHolds ==
  ASSUME AtomicFill, ~RotateInWindow
  PROVE  Spec => []NoLostRotation
<1>1. Init => RotationInv
  BY RotationInit
<1>2. RotationInv /\ [Next]_vars => RotationInv'
  BY RotationStep
<1> QED BY <1>1, <1>2, RotationSafe, PTL DEF Spec

-----------------------------------------------------------------------------
(* The counter that a round starts from *)

\* A round that is to write a status has started from the counter that every
\* copy of the store shows.
CounterKnown ==
  storePc \in {"read", "status", "ready", "failed", "invalid"} => \A v \in Versions : v.cg = snap.cg

CounterInv == TypeOK /\ RestInv /\ CounterKnown

LEMMA CounterKnownStep ==
  ASSUME ~LaggingStart, CounterInv, [Next]_vars
  PROVE  CounterKnown'
<1> USE DEF CounterInv, RestInv
<1> SUFFICES ASSUME storePc' \in {"read", "status", "ready", "failed", "invalid"}
             PROVE  \A v \in Versions' : v.cg = snap'.cg
  BY DEF CounterKnown
<1>1. CASE Decides
  <2>1. snap' = cache /\ api' = api /\ \A v \in Undelivered : v.cg = cache.cg
    BY <1>1 DEF Decides
  <2>2. api \in Undelivered \cup {cache}
    BY DEF Informer, Undelivered, TypeOK
  <2>3. \A v \in Versions : v.cg = cache.cg
    BY <2>1, <2>2 DEF Versions
  <2> QED BY <2>1, <2>3, Fields, VersionsMove
<1>2. CASE Consumes \/ Rotates \/ Reads \/ Edited \/ Triggered \/ Seen \/ Advances
  <2>1. /\ snap' = snap /\ api'.cg = api.cg
        /\ storePc \in {"read", "status", "ready", "failed", "invalid"}
    BY <1>2 DEF Consumes, Rotates, Reads, Apart, Edited, Triggered, Seen, Advances, RoundKept, ApiFields
  <2> QED BY <2>1, Fields, VersionsMove DEF CounterKnown
<1>3. CASE Restarted \/ Finalizes \/ Reports \/ Clears \/ Keeps \/ Errs \/ Retries \/ Readies
  BY <1>3 DEF Restarted, Finalizes, Reports, Clears, Keeps, Errs, Retries, Readies, Ends
<1> QED BY <1>1, <1>2, <1>3, Kinds

LEMMA CounterStep ==
  ASSUME ~LaggingStart, CounterInv, [Next]_vars
  PROVE  CounterInv'
BY CounterKnownStep, TypeInductive, RestInvStep DEF CounterInv

LEMMA CounterInit == Init => CounterInv
BY InitType, RestInvInit DEF Init, CounterInv, CounterKnown

-----------------------------------------------------------------------------
(* No rebuild signal is lost *)

\* The ExternalSecret is certain to take another client, or its last round failed.
Due(c) == esQ[c] \/ (esPc[c] = "idle" /\ failed[c]) \/ esPc[c] = "fill"

\* The client its Secret was written with, or is about to be.
Used(c) == IF esPc[c] = "idle" THEN synced[c] ELSE held[c]

\* A client of older credentials is only in use while the rotation is noticed or
\* a trigger set; once the round of that trigger has bumped clientGeneration the
\* informer is yet to see it, and once the trigger is cleared the ExternalSecret
\* is due.
UsesOld(c, s) == Used(c).cred[s] # cred[s]
SignalServed(c, s)  == Serving /\ storePc = "clear" /\ UsesOld(c, s) => Due(c) \/ api.cg # cache.cg
SignalCleared(c, s) == Cleared /\ UsesOld(c, s) => Due(c)
SignalDue(c, s)     == UsesOld(c, s) => Due(c) \/ Noticed(s) \/ api.trig # 0

\* A client of an older generation is only in use while the newer spec has no
\* valid status yet, or the bump of its rebuild is yet to be seen.
EditSignalled(c) ==
  Used(c).gen # cache.gen =>
    Due(c) \/ cache.gen \in InvalidGens \/ api.cg # cache.cg \/ api.observed # cache.gen

SignalInv ==
  /\ IInv /\ RotationInv /\ CounterInv /\ storePc # "failed"
  /\ \A c \in Consumers : /\ EditSignalled(c)
                          /\ \A s \in Sources : /\ SignalServed(c, s) /\ SignalCleared(c, s)
                                                /\ SignalDue(c, s)

\* An ExternalSecret that is not due after a step was not due before it and uses
\* the same client, or has just taken the registered one or one it built.
Takes(c) ==
  /\ UNCHANGED <<storeObject, cred, storePc, snap, read, triggerVars>>
  /\ \/ clients # NoClient /\ Used(c)' = clients
     \/ Used(c)' = ClientOf(cache)

LEMMA UsedMoves ==
  ASSUME AtomicFill, TypeOK, NoneUnregistered, [Next]_vars, NEW c \in Consumers, ~Due(c)'
  PROVE  (Used(c)' = Used(c) /\ ~Due(c)) \/ Takes(c)
<1> USE DEF TypeOK, Due, Used
<1>1. CASE UNCHANGED esVars /\ (esQ[c] => esQ'[c])
  BY <1>1 DEF esVars
<1>2. CASE Restart
  BY <1>2 DEF Restart
<1>3. CASE Deliver \/ Relist
  BY <1>1, <1>3 DEF Deliver, Relist, Observe
<1>4. CASE \E d \in Consumers : EsStep(d) \/ EsPoll(d) \/ EsFails(d)
  <2> PICK d \in Consumers : EsStep(d) \/ EsPoll(d) \/ EsFails(d)
    BY <1>4
  <2>1. CASE d # c
    BY <1>1, <2>1 DEF EsStep, EsBegin, EsGuardPasses, EsGuardRefuses, EsFill, EsBuild, EsRegister,
                EsSync, EsPoll, EsFails
  <2>2. CASE d = c /\ EsBegin(c)
    BY <2>2 DEF EsBegin, roundVars, Takes
  <2>3. CASE d = c /\ EsFill(c)
    BY <2>3 DEF EsFill, roundVars, Takes
  <2>4. CASE d = c /\ (EsGuardPasses(c) \/ EsSync(c))
    BY <2>4 DEF EsGuardPasses, EsSync
  <2>5. CASE d = c /\ (EsGuardRefuses(c) \/ EsPoll(c) \/ EsFails(c))
    BY <2>5 DEF EsGuardRefuses, EsPoll, EsFails
  <2> QED BY <2>1, <2>2, <2>3, <2>4, <2>5 DEF EsStep, EsBuild, EsRegister, NoneUnregistered
<1>5. CASE \/ EditSpec \/ StoreTimer \/ StoreStep \/ StoreBuildFails \/ StoreWriteFails
           \/ \E s \in Sources : Rotate(s) \/ Trigger(s) \/ TriggerPatchFails(s)
  BY <1>1, <1>5
  DEF EditSpec, StoreTimer, StoreStep, StoreBuildFails, StoreWriteFails, StoreConflict,
      Rotate, Trigger, TriggerList, TriggerPatch, TriggerPatchFails, StoreAddFinalizer, StoreDecide,
      StoreRegister, StoreWriteRebuilt, StoreClearTrigger, StoreKeepTrigger, StoreWriteError,
      StoreReportReady, StoreReadCred
<1>6. CASE UNCHANGED vars
  BY <1>1, <1>6 DEF vars, esVars
<1> QED
  BY <1>2, <1>3, <1>4, <1>5, <1>6 DEF Next, Environment, Failure

\* Nor has its informer seen an edit or a bump in that step.
LEMMA NothingSeen ==
  ASSUME TypeOK, [Next]_vars, NEW c \in Consumers, ~Due(c)'
  PROVE  cache'.gen = cache.gen /\ cache'.cg = cache.cg
<1>1. CASE Deliver \/ Relist
  BY <1>1 DEF Deliver, Relist, Observe, EsRelevant, Due
<1>2. CASE Restart
  BY <1>2 DEF Restart, Due
<1>3. CASE UNCHANGED storeObject
  BY <1>3 DEF storeObject
<1>4. CASE \E v \in Version : StoreWrite(v)
  BY <1>4 DEF StoreWrite, Write
<1> QED BY <1>1, <1>2, <1>3, <1>4, StoreMoves

\* The step that clears the trigger finds nothing undelivered.
LEMMA GoneSeen ==
  ASSUME TypeOK, RestInv, [Next]_vars, TriggerCleared
  PROVE  api.cg = cache.cg
<1>1. Clears
  <2>1. clock \in Nat /\ clock + 1 # 0
    BY DEF TypeOK
  <2>2. CASE Triggered
    BY <2>1, <2>2 DEF Triggered, ApiFields, TriggerCleared
  <2>3. CASE \/ Consumes \/ Rotates \/ Reads \/ Edited \/ Seen \/ Restarted \/ Finalizes \/ Decides
             \/ Advances \/ Reports \/ Keeps \/ Errs \/ Retries \/ Readies
    BY <2>3 DEF Consumes, Rotates, Reads, Apart, Edited, Seen, Restarted, Finalizes, Decides,
                Advances, Reports, Keeps, Errs, Retries, Readies, ApiFields, ApiKept, TriggerCleared
  <2> QED BY <2>2, <2>3, Kinds
<1> QED BY <1>1 DEF Clears, RestInv, Informer

\* Everything the registered client is known to satisfy, whoever takes it.
LEMMA TakesCurrent ==
  ASSUME SignalInv, NEW c \in Consumers, Takes(c)
  PROVE  EditSignalled(c)' /\ \A s \in Sources : SignalServed(c, s)' /\ SignalCleared(c, s)' /\ SignalDue(c, s)'
<1> USE DEF SignalInv, RotationInv
<1>1. /\ UNCHANGED <<api, cache, pending, cred, storePc, snap, read, trigQ, trigPc>>
      /\ Serving' <=> Serving
      /\ Cleared' <=> Cleared
      /\ \A s \in Sources : Noticed(s)' <=> Noticed(s)
  BY DEF Takes, storeObject, triggerVars, Serving, Cleared, Versions, Undelivered, Noticed
<1>2. CASE Used(c)' = ClientOf(cache)
  BY <1>1, <1>2 DEF ClientOf, EditSignalled, SignalServed, SignalCleared, SignalDue, UsesOld
<1>3. CASE clients # NoClient /\ Used(c)' = clients
  <2>1. EditSignalled(c)'
    <3>1. clients.gen \in Nat /\ cache.gen \in Nat /\ api \in Versions
      BY Numbers
    <3>2. clients.gen <= cache.gen /\ (api.observed \notin InvalidGens => api.observed <= clients.gen)
      BY <1>3, <3>1 DEF IInv, ClientBetween
    <3> QED BY <1>1, <1>3, <3>1, <3>2 DEF EditSignalled
  <2>2. ASSUME NEW s \in Sources
        PROVE  SignalServed(c, s)' /\ SignalCleared(c, s)' /\ SignalDue(c, s)'
    <3>1. Serving /\ storePc = "clear" => clients.cred[s] = cred[s]
      BY <1>3 DEF ServedCurrent, ReadAll
    <3>2. clients.cred[s] # cred[s] => ~Cleared /\ (Noticed(s) \/ api.trig # 0)
      BY <1>3 DEF ClearedCurrent, Announced, Behind
    <3> QED BY <1>1, <1>3, <3>1, <3>2 DEF SignalServed, SignalCleared, SignalDue, UsesOld
  <2> QED BY <2>1, <2>2
<1> QED BY <1>2, <1>3 DEF Takes

LEMMA SignalServedStep ==
  ASSUME AtomicFill, ~RotateInWindow, ~LaggingStart, SignalInv, [Next]_vars,
         NEW c \in Consumers, NEW s \in Sources
  PROVE  SignalServed(c, s)'
<1> USE DEF SignalInv, RotationInv
<1> SUFFICES ASSUME Serving', storePc' = "clear", UsesOld(c, s)', ~Due(c)', ~Takes(c)
             PROVE  api'.cg # cache'.cg
  BY TakesCurrent DEF SignalServed
<1>1. Used(c)' = Used(c) /\ ~Due(c) /\ cache'.cg = cache.cg
  BY UsedMoves, NothingSeen
<1>2. Serving /\ (read' = read \/ Reads)
  BY ServingKept DEF Decides
<1>3. CASE storePc = "clear"
  <2>1. UsesOld(c, s)
    BY <1>1, <1>2, <1>3, CredMoves, RotateSafe DEF ReadAll, UsesOld
  <2>2. api.cg # cache.cg
    BY <1>1, <1>2, <1>3, <2>1 DEF SignalServed
  <2>3. api'.cg = api.cg
    BY <1>3, Kinds
    DEF Consumes, Rotates, Reads, Apart, Edited, Triggered, Seen, Restarted, Finalizes, Decides,
        Advances, Reports, Clears, Keeps, Errs, Retries, Readies, ApiFields, ApiKept
  <2> QED BY <1>1, <2>2, <2>3
<1>4. CASE storePc # "clear"
  <2>1. Reports
    BY <1>4, Kinds
    DEF Consumes, Rotates, Reads, Apart, Edited, Triggered, Seen, Restarted, Finalizes, Decides,
        Advances, Clears, Keeps, Errs, Retries, Readies, RoundKept, Ends
  <2>2. api'.cg = Bumped(snap.cg) /\ cache.cg = snap.cg /\ snap.cg \in Nat
    BY <2>1, Fields DEF Reports, ApiFields, CounterInv, CounterKnown
  <2> QED BY <1>1, <2>2, BumpMoves
<1> QED BY <1>3, <1>4

\* When the trigger is cleared, whoever uses older credentials is due.
LEMMA GoneDue ==
  ASSUME AtomicFill, ~RotateInWindow, ~LaggingStart, SignalInv, [Next]_vars, TriggerCleared,
         NEW c \in Consumers, NEW s \in Sources, UsesOld(c, s)', ~Takes(c)
  PROVE  Due(c)'
<1> USE DEF SignalInv, RotationInv
<1> SUFFICES ASSUME ~Due(c)' PROVE FALSE
  OBVIOUS
<1>1. Used(c)' = Used(c) /\ ~Due(c) /\ api.cg = cache.cg /\ Serving /\ storePc = "clear"
  BY UsedMoves, GoneSeen, TriggerGone
<1>2. UsesOld(c, s)
  BY <1>1, CredMoves, RotateSafe DEF ReadAll, UsesOld
<1> QED BY <1>1, <1>2 DEF SignalServed

LEMMA SignalClearedStep ==
  ASSUME AtomicFill, ~RotateInWindow, ~LaggingStart, SignalInv, [Next]_vars,
         NEW c \in Consumers, NEW s \in Sources
  PROVE  SignalCleared(c, s)'
<1> USE DEF SignalInv, RotationInv
<1> SUFFICES ASSUME Cleared', UsesOld(c, s)', ~Due(c)', ~Takes(c)
             PROVE  FALSE
  BY TakesCurrent DEF SignalCleared
<1>1. Cleared
  BY ClearedMoves, GoneDue
<1>2. Used(c)' = Used(c) /\ ~Due(c)
  BY UsedMoves
<1>3. UsesOld(c, s)
  BY <1>1, <1>2, CredMoves, RotateSafe DEF UsesOld
<1> QED BY <1>1, <1>2, <1>3 DEF SignalCleared

LEMMA SignalDueStep ==
  ASSUME AtomicFill, ~RotateInWindow, ~LaggingStart, SignalInv, [Next]_vars,
         NEW c \in Consumers, NEW s \in Sources
  PROVE  SignalDue(c, s)'
<1> USE DEF SignalInv, RotationInv
<1> SUFFICES ASSUME UsesOld(c, s)', ~Due(c)', ~Noticed(s)', api'.trig = 0, ~Takes(c)
             PROVE  FALSE
  BY TakesCurrent DEF SignalDue
<1>1. Used(c)' = Used(c) /\ ~Due(c)
  BY UsedMoves
<1>2. api.trig = 0
  BY GoneDue DEF TriggerCleared
<1>3. UsesOld(c, s)
  <2>1. ~Rotate(s)
    BY DEF Rotate, Noticed, TypeOK
  <2> QED BY <1>1, <2>1, CredMoves DEF UsesOld
<1>4. cache.trig # 0
  BY <1>1, <1>2, <1>3, NoticedMoves DEF SignalDue
<1>5. Cleared
  BY <1>2, <1>4 DEF Cleared, Versions
<1> QED BY <1>1, <1>3, <1>5 DEF SignalCleared

LEMMA EditSignalledStep ==
  ASSUME AtomicFill, ~RotateInWindow, ~LaggingStart, SignalInv, [Next]_vars, NEW c \in Consumers
  PROVE  EditSignalled(c)'
<1> USE DEF SignalInv, RotationInv
<1> SUFFICES ASSUME Used(c)'.gen # cache'.gen, ~Due(c)', ~Takes(c), cache'.gen \notin InvalidGens,
                    api'.cg = cache'.cg, api'.observed = cache'.gen
             PROVE  FALSE
  BY TakesCurrent DEF EditSignalled
<1>1. Used(c)' = Used(c) /\ ~Due(c) /\ cache'.gen = cache.gen /\ cache'.cg = cache.cg
  BY UsedMoves, NothingSeen
<1>2. api.cg # cache.cg \/ api.observed # cache.gen
  BY <1>1 DEF EditSignalled
<1>3. api'.cg # api.cg \/ api'.observed # api.observed
  BY <1>1, <1>2
<1>4. CASE Reports
  <2>1. api'.cg = Bumped(snap.cg) /\ cache.cg = snap.cg /\ snap.cg \in Nat
    BY <1>4, Fields DEF Reports, ApiFields, CounterInv, CounterKnown
  <2> QED BY <1>1, <2>1, BumpMoves
<1>5. CASE Errs
  <2>1. api'.observed = snap.gen /\ snap.gen \in InvalidGens
    BY <1>5 DEF Errs, ApiFields, RestInv, Decision, InRound
  <2> QED BY <1>1, <2>1
<1>6. CASE Readies
  <2>1. api'.observed = api.observed /\ api'.cg = api.cg
    BY <1>6, Fields DEF Readies, ApiFields, RestInv, Decision, CounterInv, CounterKnown
  <2> QED BY <1>3, <2>1
<1>7. CASE \/ Consumes \/ Rotates \/ Reads \/ Edited \/ Triggered \/ Seen \/ Restarted \/ Finalizes
           \/ Decides \/ Advances \/ Clears \/ Keeps \/ Retries
  <2>1. api'.observed = api.observed /\ api'.cg = api.cg
    BY <1>7 DEF Consumes, Rotates, Reads, Apart, Edited, Triggered, Seen, Restarted, Finalizes,
                Decides, Advances, Clears, Keeps, Retries, ApiFields, ApiKept
  <2> QED BY <1>3, <2>1
<1> QED BY <1>4, <1>5, <1>6, <1>7, Kinds

LEMMA NoFailedBuild ==
  ASSUME ~FailedBuilds, TypeOK, storePc # "failed", [Next]_vars
  PROVE  storePc' # "failed"
BY Kinds
DEF Consumes, Rotates, Reads, Apart, Edited, Triggered, Seen, Restarted, Finalizes, Decides, Advances,
    Reports, Clears, Keeps, Errs, Retries, Readies, RoundKept, Ends

LEMMA SignalInit == Init => SignalInv
<1> SUFFICES ASSUME Init PROVE SignalInv
  OBVIOUS
<1>1. IInv /\ RotationInv /\ CounterInv /\ storePc = "idle"
  BY IInvInit, RotationInit, CounterInit DEF Init
<1>2. \A c \in Consumers : Due(c)
  BY DEF Init, Due
<1> QED BY <1>1, <1>2 DEF SignalInv, EditSignalled, SignalServed, SignalCleared, SignalDue

LEMMA SignalStep ==
  ASSUME AtomicFill, ~RotateInWindow, ~LaggingStart, ~FailedBuilds, SignalInv, [Next]_vars
  PROVE  SignalInv'
<1>1. IInv' /\ RotationInv' /\ CounterInv' /\ storePc' # "failed"
  BY IInvStep, RotationStep, CounterStep, NoFailedBuild DEF SignalInv, RotationInv
<1> QED BY <1>1, EditSignalledStep, SignalServedStep, SignalClearedStep, SignalDueStep DEF SignalInv

\* At rest whoever is not due uses the registered client: its spec and its
\* credentials are those the registered client was built from.
LEMMA SignalSafe == SignalInv => NoLostSignal
<1> SUFFICES ASSUME SignalInv, clients # NoClient, ~RebuildPending, ~TriggerPending,
                    NEW c \in Consumers, ~esQ[c], esPc[c] = "idle", ~failed[c]
             PROVE  synced[c] = clients
  BY DEF NoLostSignal
<1> USE DEF SignalInv, RotationInv
<1>1. cache = api /\ storePc = "idle" /\ Settled(api)
  BY DEF RebuildPending, RestInv, Informer, RestSettled, StoreRelevant
<1>2. ~Due(c) /\ Used(c) = synced[c] /\ api.trig = 0 /\ \A s \in Sources : ~Noticed(s)
  BY <1>1 DEF Due, Used, Settled, TriggerPending, Noticed
<1>3. synced[c].gen = api.gen /\ clients.gen = api.gen
  BY <1>1, <1>2, IInvSafe DEF EditSignalled, Settled, NoLostSpecEdit
<1>4. \A s \in Sources : synced[c].cred[s] = cred[s] /\ clients.cred[s] = cred[s]
  BY <1>2 DEF SignalDue, UsesOld, Announced, Behind
<1>5. synced[c] \in Client /\ clients \in Client
  BY DEF TypeOK
<1>6. synced[c].cred = clients.cred
  BY <1>4, <1>5 DEF Client, Creds
<1> QED BY <1>3, <1>5, <1>6 DEF Client

\* No rebuild signal is lost: an ExternalSecret whose Secret was written through
\* another client than the one registered now is due another round, or its last
\* round failed, also with --disable-polling.  Assumed, each because the code
\* loses a signal without it: a client is registered by whoever builds it at
\* once, no rotation meets a trigger that would swallow it, a store round starts
\* from a copy that shows the last round's status, and no store round fails to
\* build its client.
THEOREM NoLostSignalHolds ==
  ASSUME AtomicFill, ~RotateInWindow, ~LaggingStart, ~FailedBuilds
  PROVE  Spec => []NoLostSignal
<1>1. Init => SignalInv
  BY SignalInit
<1>2. SignalInv /\ [Next]_vars => SignalInv'
  BY SignalStep
<1> QED BY <1>1, <1>2, SignalSafe, PTL DEF Spec
=============================================================================
