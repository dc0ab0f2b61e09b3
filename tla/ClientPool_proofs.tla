------------------------- MODULE ClientPool_proofs -------------------------
(***************************************************************************)
(* Proofs about ClientPool: type correctness, that the registry of RAM     *)
(* providers names exactly the running refresh routines, and that a client *)
(* in the pool has its provider unless operations on its key overlapped.   *)
(***************************************************************************)
EXTENDS ClientPool, TLAPS

Working == {"stop", "build", "register"}

\* An actor is at a key exactly while it works on it; the store controller
\* builds under the plain key of its backend only.
AtKey ==
  /\ \A a \in Actors : IF pc[a] \in Working THEN at[a] \in Keys ELSE at[a] = NoKey
  /\ pc[Store] \in {"build", "register"} => at[Store] = <<StoreProvider, Plain>>

Paired(k) == pool[k] # None => pool[k] = ram[k]

\* A composite client is built only where there is none.
Missing(k) == k[2] # Plain => pool[k] = None

\* A key nobody raced on has at most one actor, and what that one is about to
\* do fits what is in pool and registry.
ServedKey(k) ==
  /\ \A a, b \in Actors : at[a] = k /\ at[b] = k => a = b
  /\ (\A a \in Actors : at[a] # k) => Paired(k)
  /\ \A a \in Actors : at[a] = k =>
       /\ pc[a] = "stop" => pool[k] = None
       /\ pc[a] = "build" => Paired(k) /\ Missing(k)
       /\ pc[a] = "register" => inst[a] = ram[k] /\ Missing(k)

Served == \A k \in Keys \ raced : ServedKey(k)

-----------------------------------------------------------------------------
(* Type correctness *)

LEMMA KeyFacts ==
  /\ NoKey \notin Keys /\ None \notin Instances /\ Store \in Actors
  /\ <<StoreProvider, Plain>> \in Keys
  /\ ExternalSecrets \subseteq Actors /\ Store \notin ExternalSecrets
BY PoolAssumption DEF Keys, Instances, None, Actors, NoKey

LEMMA SpecFacts ==
  ASSUME TypeOK, NEW e \in ExternalSecrets
  PROVE  /\ Composite(es[e].spec) \subseteq Endpoints /\ Composite(esSeen[e].spec) \subseteq Endpoints
         /\ {esSeen[e].spec.provider} \X esSeen[e].spec.uses \subseteq Keys
         /\ {esSeen[e].spec.provider} \X Stale(e) \subseteq Keys
         /\ {esSeen[e].spec.provider} \X Leaving(e) \subseteq Keys
<1>1. esSeen[e].spec \in EsSpecs
  BY DEF TypeOK, EsObject
<1>2. esSeen[e].spec.provider \in Providers /\ esSeen[e].spec.uses \subseteq Endpoints \cup {Plain}
  BY <1>1, PoolAssumption
<1>3. Stale(e) \subseteq Endpoints /\ Leaving(e) \subseteq Endpoints
  BY DEF TypeOK, Stale, Leaving, Composite
<1> QED BY <1>2, <1>3 DEF Composite, Keys

LEMMA SpecEdited ==
  ASSUME NEW o \in EsObject, NEW s \in EsSpecs
  PROVE  [o EXCEPT !.spec = s] \in EsObject
BY DEF EsObject

LEMMA PhaseChanged ==
  ASSUME NEW o \in EsObject, NEW p \in Phases
  PROVE  [o EXCEPT !.phase = p] \in EsObject
BY DEF EsObject

LEMMA FreshInstance ==
  ASSUME NEW k \in Keys, Fresh(k) # {}
  PROVE  (CHOOSE i \in Fresh(k) : TRUE) \in Instances \ InUse
BY DEF Fresh, Instances

LEMMA InitType == Init => TypeOK /\ AtKey
<1> SUFFICES ASSUME Init PROVE TypeOK /\ AtKey
  OBVIOUS
<1>1. es \in [ExternalSecrets -> EsObject]
  BY DEF Init, EsObject, Phases
<1>2. pool \in [Keys -> Instances \cup {None}] /\ ram \in [Keys -> Instances \cup {None}]
  BY DEF Init
<1>3. events \in 0..MaxEvents
  BY PoolAssumption DEF Init
<1>4. AtKey
  BY KeyFacts DEF Init, AtKey, Working
<1> QED BY <1>1, <1>2, <1>3, <1>4 DEF Init, TypeOK, Phases

LEMMA EventType == Event /\ TypeOK => events' \in 0..MaxEvents
BY PoolAssumption DEF Event, TypeOK

LEMMA TypeInductive == TypeOK /\ AtKey /\ [Next]_vars => TypeOK' /\ AtKey'
<1> SUFFICES ASSUME TypeOK, AtKey, [Next]_vars PROVE TypeOK' /\ AtKey'
  OBVIOUS
<1> USE KeyFacts DEF TypeOK, AtKey, Working, poolVars, objects, roundVars, Phases
<1>1. CASE EditStore \/ DeleteStore
  <2>1. events' \in 0..MaxEvents
    BY <1>1, EventType, PoolAssumption DEF EditStore, DeleteStore
  <2> QED BY <1>1, <2>1 DEF EditStore, DeleteStore
<1>2. CASE \E e \in ExternalSecrets : EditES(e) \/ DeleteES(e)
  <2> PICK e \in ExternalSecrets : EditES(e) \/ DeleteES(e)
    BY <1>2
  <2>1. es[e] \in EsObject /\ "terminating" \in Phases
    OBVIOUS
  <2>2. \E o \in EsObject : es' = [es EXCEPT ![e] = o]
    <3>1. CASE EditES(e)
      BY <2>1, <3>1, SpecEdited DEF EditES
    <3>2. CASE DeleteES(e)
      <4>1. [es[e] EXCEPT !.phase = "terminating"] \in EsObject
        BY <2>1, PhaseChanged
      <4> QED BY <3>2, <4>1 DEF DeleteES
    <3> QED BY <3>1, <3>2
  <2>3. es' \in [ExternalSecrets -> EsObject]
    BY <2>2
  <2>4. events' \in 0..MaxEvents
    BY EventType DEF EditES, DeleteES
  <2> QED BY <2>3, <2>4 DEF EditES, DeleteES
<1>3. CASE Informers
  <2>1. CASE DeliverStore
    BY <2>1 DEF DeliverStore
  <2>2. CASE \E e \in ExternalSecrets : DeliverES(e)
    BY <2>2 DEF DeliverES
  <2> QED BY <1>3, <2>1, <2>2 DEF Informers
<1>4. CASE Restart
  BY <1>4, EventType DEF Restart
<1>5. CASE \E a \in Actors : DropClient(a)
  <2> PICK a \in Actors : DropClient(a)
    BY <1>5
  <2>1. PICK k \in todo[a] : Arrive(a, k, None) /\ pool' = [pool EXCEPT ![k] = None]
    BY DEF DropClient
  <2>2. k \in Keys /\ raced' \subseteq Keys /\ at' \in [Actors -> Keys \cup {NoKey}]
    BY <2>1 DEF Arrive
  <2>3. TypeOK'
    BY <2>1, <2>2 DEF DropClient
  <2>4. AtKey'
    BY <2>1, <2>2 DEF DropClient, Arrive
  <2> QED BY <2>3, <2>4
<1>6. CASE \E a \in Actors : StopProvider(a)
  BY <1>6 DEF StopProvider, Leave, Stopped
<1>7. CASE \E a \in Actors : RegisterRam(a)
  <2> PICK a \in Actors : RegisterRam(a)
    BY <1>7
  <2> DEFINE i == CHOOSE i \in Fresh(at[a]) : TRUE
  <2>0. pc[a] = "build" /\ Fresh(at[a]) # {} /\ at[a] \in Keys
    BY DEF RegisterRam
  <2>1. i \in Instances
    BY <2>0, FreshInstance
  <2> HIDE DEF i
  <2>2. /\ ram' = [ram EXCEPT ![at[a]] = i] /\ inst' = [inst EXCEPT ![a] = i]
        /\ running' = (running \ {ram[at[a]]}) \cup {i}
    BY DEF RegisterRam, RamKey, Stopped, i
  <2>3. /\ pc' = [pc EXCEPT ![a] = "register"] /\ at' = at
        /\ UNCHANGED <<pool, objects, queued, mode, left, todo, want, at, tracked, raced, events>>
    BY DEF RegisterRam
  <2>4. AtKey'
    BY <2>0, <2>3
  <2>5. TypeOK'
    <3>1. ram' \in [Keys -> Instances \cup {None}] /\ running' \subseteq Instances
      BY <2>1, <2>0, <2>2
    <3>2. inst' \in [Actors -> Instances \cup {None}]
      BY <2>1, <2>2
    <3> QED BY <3>1, <3>2, <2>3
  <2> QED BY <2>4, <2>5
<1>8. CASE StoreBegin \/ StoreForget \/ StoreRange
  <2>1. CASE StoreBegin
    BY <2>1 DEF StoreBegin
  <2>2. CASE StoreForget
    BY <2>2 DEF StoreForget
  <2>3. CASE StoreRange
    BY <2>3 DEF StoreRange
  <2> QED BY <1>8, <2>1, <2>2, <2>3
<1>9. CASE StoreRebuild
  <2>1. raced' \subseteq Keys /\ at' = [at EXCEPT ![Store] = <<StoreProvider, Plain>>]
    BY <1>9 DEF StoreRebuild, Arrive
  <2> QED BY <1>9, <2>1 DEF StoreRebuild
<1>10. CASE StoreBuildFails
  BY <1>10, EventType DEF StoreBuildFails, Leave
<1>11. CASE StoreRegister
  BY <1>11 DEF StoreRegister, Leave
<1>12. CASE StoreFinalize \/ StoreFinalizeFails
  BY <1>12, EventType DEF StoreFinalize, StoreFinalizeFails, StoreDropped
<1>13. CASE \E e \in ExternalSecrets : EsBegin(e) \/ EsForget(e) \/ EsList(e) \/ EsListFails(e)
  <2> PICK e \in ExternalSecrets : EsBegin(e) \/ EsForget(e) \/ EsList(e) \/ EsListFails(e)
    BY <1>13
  <2>1. CASE EsBegin(e)
    <3>1. todo'[e] \subseteq Keys /\ todo' = [todo EXCEPT ![e] = todo'[e]]
      BY <2>1, SpecFacts DEF EsBegin
    <3>2. want'[e] \subseteq Keys /\ want' = [want EXCEPT ![e] = want'[e]]
      BY <2>1, SpecFacts DEF EsBegin
    <3>3. mode' \in [Actors -> Phases]
      BY <2>1 DEF EsBegin, EsObject
    <3> QED BY <2>1, <3>1, <3>2, <3>3 DEF EsBegin
  <2>2. CASE EsForget(e)
    BY <2>2 DEF EsForget
  <2>3. CASE EsList(e)
    BY <2>3 DEF EsList
  <2>4. CASE EsListFails(e)
    BY <2>4, EventType DEF EsListFails
  <2> QED BY <2>1, <2>2, <2>3, <2>4
<1>14. CASE \E e \in ExternalSecrets : EsReclaimed(e)
  <2> PICK e \in ExternalSecrets : EsReclaimed(e)
    BY <1>14
  <2>1. {k[2] : k \in want[e]} \ {Plain} \subseteq Endpoints
    BY DEF Keys
  <2>2. tracked' \in [ExternalSecrets -> SUBSET Endpoints]
    BY <2>1 DEF EsReclaimed
  <2>3. pc' = [pc EXCEPT ![e] = "sync"] /\ pc[e] = "drop" /\ at' = at
    BY DEF EsReclaimed
  <2>4. AtKey'
    BY <2>3
  <2>5. UNCHANGED <<poolVars, objects, queued, mode, left, todo, want, at, inst, raced, events>>
    BY DEF EsReclaimed
  <2>6. TypeOK'
    BY <2>2, <2>3, <2>5
  <2> QED BY <2>4, <2>6
<1>15. CASE \E e \in ExternalSecrets : EsFinalize(e)
  <2> PICK e \in ExternalSecrets : EsFinalize(e)
    BY <1>15
  <2>0. es[e] \in EsObject /\ "gone" \in Phases
    OBVIOUS
  <2>1. [es[e] EXCEPT !.phase = "gone"] \in EsObject
    BY <2>0, PhaseChanged
  <2>2. es' \in [ExternalSecrets -> EsObject]
    BY <2>1 DEF EsFinalize
  <2>3. events' \in 0..MaxEvents /\ queued' \in [Actors -> BOOLEAN]
    BY EventType DEF EsFinalize
  <2>4. /\ pc' = [pc EXCEPT ![e] = "idle"] /\ pc[e] = "drop" /\ mode' = [mode EXCEPT ![e] = "live"]
        /\ tracked' = [tracked EXCEPT ![e] = {}]
        /\ UNCHANGED <<poolVars, store, storeSeen, esSeen, left, todo, want, at, inst, raced>>
    BY DEF EsFinalize
  <2>5. AtKey'
    BY <2>4
  <2>6. TypeOK'
    BY <2>2, <2>3, <2>4
  <2> QED BY <2>5, <2>6
<1>16. CASE \E e \in ExternalSecrets : EsHit(e) \/ EsBuildFails(e) \/ EsEnd(e)
  <2> PICK e \in ExternalSecrets : EsHit(e) \/ EsBuildFails(e) \/ EsEnd(e)
    BY <1>16
  <2>1. CASE EsHit(e)
    BY <2>1 DEF EsHit
  <2>2. CASE EsBuildFails(e)
    BY <2>2, EventType DEF EsBuildFails, Leave
  <2>3. CASE EsEnd(e)
    BY <2>3 DEF EsEnd
  <2> QED BY <2>1, <2>2, <2>3
<1>17. CASE \E e \in ExternalSecrets : EsMiss(e)
  <2> PICK e \in ExternalSecrets : EsMiss(e)
    BY <1>17
  <2>1. PICK k \in want[e] : pool[k] = None /\ Arrive(e, k, None)
    BY DEF EsMiss
  <2>2. k \in Keys /\ raced' \subseteq Keys /\ at' = [at EXCEPT ![e] = k]
    BY <2>1 DEF Arrive
  <2> QED BY <2>1, <2>2 DEF EsMiss
<1>18. CASE \E e \in ExternalSecrets : EsRegister(e)
  BY <1>18 DEF EsRegister, Leave
<1>19. CASE UNCHANGED vars
  BY <1>19 DEF vars
<1> QED
  BY <1>1, <1>2, <1>3, <1>4, <1>5, <1>6, <1>7, <1>8, <1>9, <1>10, <1>11, <1>12, <1>13,
     <1>14, <1>15, <1>16, <1>17, <1>18, <1>19
  DEF Next, Users, OnKeys, StoreStep, EsStep

\* Every variable keeps its type, for any objects, backends, endpoints and bounds.
THEOREM TypeCorrect == Spec => []TypeOK
<1>1. Spec => [](TypeOK /\ AtKey)
  BY InitType, TypeInductive, PTL DEF Spec
<1> QED BY <1>1, PTL
-----------------------------------------------------------------------------
(* The registry and the running refresh routines *)

LEMMA RegistryStays ==
  RegistryExact /\ UNCHANGED <<ram, running>> => RegistryExact'
BY DEF RegistryExact, Held

LEMMA RegistryStep ==
  TypeOK /\ AtKey /\ RegistryExact /\ [Next]_vars => RegistryExact'
<1> SUFFICES ASSUME TypeOK, AtKey, RegistryExact, [Next]_vars PROVE RegistryExact'
  OBVIOUS
<1>1. CASE Restart
  BY <1>1 DEF Restart, RegistryExact, Held
<1>2. CASE \E a \in Actors : StopProvider(a)
  <2> PICK a \in Actors : StopProvider(a)
    BY <1>2
  <2>1. at[a] \in Keys
    BY DEF StopProvider, AtKey, Working
  <2>2. ram' = [ram EXCEPT ![at[a]] = None] /\ running' = running \ {ram[at[a]]}
    BY DEF StopProvider, Stopped
  <2> QED BY <2>1, <2>2 DEF RegistryExact, Held, TypeOK
<1>3. CASE \E a \in Actors : RegisterRam(a)
  <2> PICK a \in Actors : RegisterRam(a)
    BY <1>3
  <2> DEFINE i == CHOOSE i \in Fresh(at[a]) : TRUE
  <2>1. pc[a] = "build" /\ Fresh(at[a]) # {}
    BY DEF RegisterRam
  <2>2. at[a] \in Keys
    BY <2>1 DEF AtKey, Working
  <2>3. i \in Instances /\ i \notin running
    BY <2>1, <2>2, FreshInstance DEF InUse
  <2> HIDE DEF i
  <2>4. ram' = [ram EXCEPT ![at[a]] = i] /\ running' = (running \ {ram[at[a]]}) \cup {i}
    BY DEF RegisterRam, RamKey, Stopped, i
  <2> QED BY <2>2, <2>3, <2>4, KeyFacts DEF RegistryExact, Held, TypeOK
<1>4. CASE UNCHANGED vars
  BY <1>4, RegistryStays DEF vars
<1>5. CASE Users \/ Informers \/ \E a \in Actors : DropClient(a)
  BY <1>5, RegistryStays DEF Users, Informers, EditStore, DeleteStore, EditES, DeleteES,
     DeliverStore, DeliverES, DropClient, poolVars
<1>6. CASE StoreStep
  BY <1>6, RegistryStays DEF StoreStep, StoreBegin, StoreForget, StoreRange, StoreRebuild,
     StoreBuildFails, StoreRegister, StoreFinalize, StoreFinalizeFails, poolVars
<1>7. CASE \E e \in ExternalSecrets : EsStep(e)
  BY <1>7, RegistryStays DEF EsStep, EsBegin, EsForget, EsList, EsListFails, EsReclaimed,
     EsFinalize, EsHit, EsMiss, EsBuildFails, EsRegister, EsEnd, poolVars
<1> QED
  BY <1>1, <1>2, <1>3, <1>4, <1>5, <1>6, <1>7 DEF Next, OnKeys

LEMMA RegistryInit == Init => RegistryExact
BY DEF Init, RegistryExact, Held

\* Whoever races, and whatever fails: the running refresh routines are exactly
\* the registered ones, each under one key, so each can still be stopped.
THEOREM RegistryExactHolds == Spec => []RegistryExact
<1>1. Spec => [](TypeOK /\ AtKey /\ RegistryExact)
  BY InitType, TypeInductive, RegistryInit, RegistryStep, PTL DEF Spec
<1> QED BY <1>1, PTL

-----------------------------------------------------------------------------
(* Every client in the pool is served *)

LEMMA ServedInit == Init => Served
BY KeyFacts DEF Init, Served, ServedKey, Paired, Missing

\* A step that leaves the two maps and everybody's key alone.
LEMMA ServedStays ==
  ASSUME TypeOK, AtKey, Served, UNCHANGED <<pool, ram, at, inst, raced>>,
         \A a \in Actors : at[a] \in Keys => pc'[a] = pc[a]
  PROVE  Served'
<1>1. ASSUME NEW k \in Keys \ raced PROVE ServedKey(k)'
  BY <1>1 DEF Served, ServedKey, Paired, Missing
<1> QED BY <1>1 DEF Served

\* An actor arrives at a key, whose client it has just dropped or not touched.
LEMMA ServedArrival ==
  ASSUME TypeOK, AtKey, Served, NEW a \in Actors, NEW k \in Keys, NEW now,
         at[a] = NoKey, Arrive(a, k, now), UNCHANGED <<ram, inst>>,
         \/ pool' = [pool EXCEPT ![k] = None] /\ pc' = [pc EXCEPT ![a] = "stop"] /\ now = None
         \/ pool' = pool /\ pc' = [pc EXCEPT ![a] = "build"] /\ now = pool[k] /\ Missing(k)
  PROVE  Served'
<1>2. at' = [at EXCEPT ![a] = k] /\ raced' \subseteq raced \cup {k} /\ raced \subseteq raced' \cup {k}
  BY DEF Arrive
<1>3. ASSUME NEW l \in Keys \ raced', l # k PROVE ServedKey(l)'
  <2>1. ServedKey(l)
    BY <1>2, <1>3 DEF Served
  <2>2. pool'[l] = pool[l] /\ ram'[l] = ram[l]
    BY <1>3 DEF TypeOK
  <2>3. \A b \in Actors : (at'[b] = l <=> at[b] = l) /\ (at[b] = l => pc'[b] = pc[b] /\ inst'[b] = inst[b])
    BY <1>2, <1>3, KeyFacts DEF TypeOK
  <2> QED BY <2>1, <2>2, <2>3 DEF ServedKey, Paired, Missing
<1>4. ASSUME k \notin raced' PROVE ServedKey(k)'
  <2>1. \A b \in Actors \ {a} : at[b] # k
    BY <1>4 DEF Arrive
  <2>2. now = None \/ k \notin raced
    BY <1>4, <2>1 DEF Arrive
  <2>3. \A b \in Actors : at[b] # k
    BY <2>1, KeyFacts
  <2>4. Paired(k)'
    BY <2>2, <2>3 DEF Served, ServedKey, Paired, TypeOK
  <2>5. \A b \in Actors : at'[b] = k => b = a
    BY <1>2, <2>1 DEF TypeOK
  <2>6. pc'[a] = "stop" => pool'[k] = None
    BY DEF TypeOK
  <2>7. pc'[a] # "register" /\ (pc'[a] = "build" => Missing(k)')
    BY DEF TypeOK, Missing
  <2> QED BY <2>4, <2>5, <2>6, <2>7 DEF ServedKey
<1> QED BY <1>3, <1>4 DEF Served

\* An actor changes the maps at its own key only, and leaves or goes on.
LEMMA ServedAtKey ==
  ASSUME TypeOK, AtKey, Served, NEW a \in Actors, at[a] \in Keys,
         raced' = raced,
         \A l \in Keys : l # at[a] => pool'[l] = pool[l] /\ ram'[l] = ram[l],
         \A b \in Actors \ {a} : at'[b] = at[b] /\ pc'[b] = pc[b] /\ inst'[b] = inst[b],
         at[a] \notin raced =>
           \/ at'[a] = NoKey /\ (pool'[at[a]] # None => pool'[at[a]] = ram'[at[a]])
           \/ at'[a] = at[a] /\ pc'[a] = "register" /\ inst'[a] = ram'[at[a]] /\ (at[a][2] # Plain => pool'[at[a]] = None),
         at'[a] \in {NoKey, at[a]}
  PROVE  Served'
<1>1. ASSUME NEW l \in Keys \ raced, l # at[a] PROVE ServedKey(l)'
  <2>1. ServedKey(l)
    BY DEF Served
  <2>2. \A b \in Actors : (at'[b] = l <=> at[b] = l) /\ (at[b] = l => pc'[b] = pc[b] /\ inst'[b] = inst[b])
    BY <1>1, KeyFacts
  <2>3. pool'[l] = pool[l] /\ ram'[l] = ram[l]
    BY <1>1
  <2> QED BY <2>1, <2>2, <2>3 DEF ServedKey, Paired, Missing
<1>2. ASSUME at[a] \notin raced PROVE \A k \in {at[a]} : ServedKey(k)'
  <2>1. \A b \in Actors \ {a} : at[b] # at[a]
    BY <1>2 DEF Served, ServedKey
  <2>2. \A b \in Actors : at'[b] = at[a] => b = a
    BY <2>1
  <2>3. CASE at'[a] = NoKey /\ (pool'[at[a]] # None => pool'[at[a]] = ram'[at[a]])
    BY <2>2, <2>3, KeyFacts DEF ServedKey, Paired
  <2>4. CASE at'[a] = at[a] /\ pc'[a] = "register" /\ inst'[a] = ram'[at[a]] /\ (at[a][2] # Plain => pool'[at[a]] = None)
    BY <2>2, <2>4 DEF ServedKey, Paired, Missing
  <2> QED BY <1>2, <2>3, <2>4
<1> QED BY <1>1, <1>2 DEF Served

LEMMA ServedStep ==
  TypeOK /\ AtKey /\ Served /\ [Next]_vars => Served'
<1> SUFFICES ASSUME TypeOK, AtKey, Served, [Next]_vars PROVE Served'
  OBVIOUS
<1> USE KeyFacts
<1>1. CASE Restart
  BY <1>1 DEF Restart, Served, ServedKey, Paired, Missing
<1>2. CASE \E a \in Actors : DropClient(a)
  <2> PICK a \in Actors : DropClient(a)
    BY <1>2
  <2>1. PICK k \in todo[a] : Arrive(a, k, None) /\ pool' = [pool EXCEPT ![k] = None]
    BY DEF DropClient
  <2>2. k \in Keys /\ at[a] = NoKey
    BY DEF DropClient, TypeOK, AtKey, Working
  <2>3. pc' = [pc EXCEPT ![a] = "stop"] /\ UNCHANGED <<ram, inst>>
    BY DEF DropClient
  <2> QED BY <2>1, <2>2, <2>3, ServedArrival
<1>3. CASE StoreRebuild
  <2>1. at[Store] = NoKey
    BY <1>3 DEF StoreRebuild, StoreDropped, AtKey, Working
  <2>2. pc' = [pc EXCEPT ![Store] = "build"] /\ UNCHANGED <<pool, ram, inst>>
    BY <1>3 DEF StoreRebuild, poolVars
  <2>3. Arrive(Store, <<StoreProvider, Plain>>, pool[<<StoreProvider, Plain>>])
    BY <1>3 DEF StoreRebuild
  <2>4. Missing(<<StoreProvider, Plain>>)
    BY DEF Missing
  <2> QED BY <2>1, <2>2, <2>3, <2>4, ServedArrival
<1>4. CASE \E e \in ExternalSecrets : EsMiss(e)
  <2> PICK e \in ExternalSecrets : EsMiss(e)
    BY <1>4
  <2>1. PICK k \in want[e] : pool[k] = None /\ Arrive(e, k, None)
    BY DEF EsMiss
  <2>2. k \in Keys /\ at[e] = NoKey /\ e \in Actors
    BY DEF EsMiss, TypeOK, AtKey, Working
  <2>3. pc' = [pc EXCEPT ![e] = "build"] /\ UNCHANGED <<pool, ram, inst>>
    BY DEF EsMiss, poolVars
  <2>4. Missing(k)
    BY <2>1 DEF Missing
  <2> QED BY <2>1, <2>2, <2>3, <2>4, ServedArrival
<1>5. CASE \E a \in Actors : StopProvider(a)
  <2> PICK a \in Actors : StopProvider(a)
    BY <1>5
  <2>1. at[a] \in Keys
    BY DEF StopProvider, AtKey, Working
  <2>2. ram' = [ram EXCEPT ![at[a]] = None] /\ at' = [at EXCEPT ![a] = NoKey]
        /\ inst' = [inst EXCEPT ![a] = None] /\ pc' = [pc EXCEPT ![a] = "drop"]
        /\ UNCHANGED <<pool, raced>>
    BY DEF StopProvider, Leave
  <2>3. at[a] \notin raced => pool[at[a]] = None
    BY <2>1 DEF StopProvider, Served, ServedKey
  <2> QED BY <2>1, <2>2, <2>3, ServedAtKey DEF TypeOK
<1>6. CASE \E a \in Actors : RegisterRam(a)
  <2> PICK a \in Actors : RegisterRam(a)
    BY <1>6
  <2> DEFINE i == CHOOSE i \in Fresh(at[a]) : TRUE
  <2>1. at[a] \in Keys
    BY DEF RegisterRam, AtKey, Working
  <2>2. /\ ram' = [ram EXCEPT ![at[a]] = i] /\ inst' = [inst EXCEPT ![a] = i]
        /\ pc' = [pc EXCEPT ![a] = "register"] /\ UNCHANGED <<pool, at, raced>>
    BY DEF RegisterRam, RamKey
  <2> HIDE DEF i
  <2>3. at[a] \notin raced => Missing(at[a])
    BY <2>1 DEF RegisterRam, Served, ServedKey
  <2> QED BY <2>1, <2>2, <2>3, ServedAtKey DEF TypeOK, Missing
<1>7. CASE StoreBuildFails \/ \E e \in ExternalSecrets : EsBuildFails(e)
  <2> PICK a \in Actors : /\ pc[a] = "build" /\ Leave(a) /\ UNCHANGED <<pool, ram, raced>>
                         /\ \A b \in Actors \ {a} : pc'[b] = pc[b]
    BY <1>7 DEF StoreBuildFails, EsBuildFails, poolVars, TypeOK
  <2>1. at[a] \in Keys
    BY DEF AtKey, Working
  <2>2. at' = [at EXCEPT ![a] = NoKey] /\ inst' = [inst EXCEPT ![a] = None]
    BY DEF Leave
  <2>3. at[a] \notin raced => Paired(at[a])
    BY <2>1 DEF Served, ServedKey
  <2> QED BY <2>1, <2>2, <2>3, ServedAtKey DEF TypeOK, Paired
<1>8. CASE StoreRegister \/ \E e \in ExternalSecrets : EsRegister(e)
  <2> PICK a \in Actors :
        /\ pc[a] = "register" /\ Leave(a) /\ UNCHANGED <<ram, raced>>
        /\ \A b \in Actors \ {a} : pc'[b] = pc[b]
        /\ \/ pool' = [pool EXCEPT ![at[a]] = inst[a]]
           \/ at[a][2] # Plain /\ pool' = pool
    <3>1. CASE StoreRegister
      BY <3>1 DEF StoreRegister, TypeOK
    <3>2. CASE \E e \in ExternalSecrets : EsRegister(e)
      BY <3>2 DEF EsRegister, TypeOK
    <3> QED BY <1>8, <3>1, <3>2
  <2>1. at[a] \in Keys
    BY DEF AtKey, Working
  <2>2. at' = [at EXCEPT ![a] = NoKey] /\ inst' = [inst EXCEPT ![a] = None]
    BY DEF Leave
  <2>3. at[a] \notin raced => inst[a] = ram[at[a]] /\ Missing(at[a])
    BY <2>1 DEF Served, ServedKey
  <2>4. pool'[at[a]] # None /\ at[a] \notin raced => pool'[at[a]] = ram'[at[a]]
    BY <2>1, <2>3 DEF Missing, TypeOK
  <2> QED BY <2>1, <2>2, <2>4, ServedAtKey DEF TypeOK
<1>9. CASE Users \/ Informers \/ UNCHANGED vars
  BY <1>9, ServedStays DEF Users, Informers, EditStore, DeleteStore, EditES, DeleteES,
     DeliverStore, DeliverES, vars, poolVars, roundVars
<1>10. CASE StoreBegin \/ StoreForget \/ StoreRange \/ StoreFinalize \/ StoreFinalizeFails
  <2>1. UNCHANGED <<pool, ram, at, inst, raced>>
    BY <1>10 DEF StoreBegin, StoreForget, StoreRange, StoreFinalize, StoreFinalizeFails,
       poolVars, roundVars
  <2>2. pc' = pc \/ (pc[Store] \notin Working /\ \A b \in Actors \ {Store} : pc'[b] = pc[b])
    BY <1>10 DEF StoreBegin, StoreForget, StoreRange, StoreFinalize, StoreFinalizeFails,
       StoreDropped, roundVars, TypeOK, Working
  <2> QED BY <2>1, <2>2, ServedStays DEF AtKey
<1>11. CASE \E e \in ExternalSecrets : \/ EsBegin(e) \/ EsForget(e) \/ EsList(e) \/ EsListFails(e)
                                     \/ EsReclaimed(e) \/ EsFinalize(e) \/ EsHit(e) \/ EsEnd(e)
  <2> PICK e \in ExternalSecrets : \/ EsBegin(e) \/ EsForget(e) \/ EsList(e) \/ EsListFails(e)
                                  \/ EsReclaimed(e) \/ EsFinalize(e) \/ EsHit(e) \/ EsEnd(e)
    BY <1>11
  <2>1. UNCHANGED <<pool, ram, at, inst, raced>>
    BY DEF EsBegin, EsForget, EsList, EsListFails, EsReclaimed, EsFinalize, EsHit, EsEnd,
       poolVars, roundVars
  <2>2. pc' = pc \/ (pc[e] \notin Working /\ \A b \in Actors \ {e} : pc'[b] = pc[b])
    BY DEF EsBegin, EsForget, EsList, EsListFails, EsReclaimed, EsFinalize, EsHit, EsEnd,
       roundVars, TypeOK, Working
  <2> QED BY <2>1, <2>2, ServedStays DEF AtKey
<1> QED
  BY <1>1, <1>2, <1>3, <1>4, <1>5, <1>6, <1>7, <1>8, <1>9, <1>10, <1>11
  DEF Next, OnKeys, StoreStep, EsStep

LEMMA ServedSafe == AtKey /\ Served => ServedUnlessRaced
BY DEF Served, ServedKey, Paired, ServedUnlessRaced

\* For any number of ExternalSecrets, backends and endpoints: a client in the
\* pool has its own provider registered under its own key, unless somebody is
\* at that key or operations of two actors on it overlapped.
THEOREM ServedUnlessRacedHolds == Spec => []ServedUnlessRaced
<1>1. Spec => [](TypeOK /\ AtKey /\ Served)
  BY InitType, TypeInductive, ServedInit, ServedStep, PTL DEF Spec
<1> QED BY <1>1, ServedSafe, PTL
=============================================================================
