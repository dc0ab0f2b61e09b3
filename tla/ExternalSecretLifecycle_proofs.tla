------------------- MODULE ExternalSecretLifecycle_proofs -------------------
(***************************************************************************)
(* Proofs about ExternalSecretLifecycle, for any namespaces, scopes and    *)
(* bounds: type correctness, that it implements ManagedSecrets, and that   *)
(* without namespace exclusions no deletion is forgotten.  The facts about *)
(* one step are stated so that ClusterExternalSecret can use them too.     *)
(***************************************************************************)
EXTENDS ExternalSecretLifecycle, TLAPS

-----------------------------------------------------------------------------
(* Type correctness                                                        *)

LEMMA ObjectFacts ==
    /\ Absent \in Objects /\ ~Absent.fin
    /\ Created \in Objects /\ Created.st # "none"
    /\ \A e \in Objects : e.st # "none" => Deleted(e) \in Objects
    /\ \A e \in Objects : [st |-> e.st, fin |-> TRUE] \in Objects
BY DEF Absent, Created, Objects, Deleted

LEMMA PutTyped ==
    ASSUME LifecycleTypes, NEW n \in Namespaces, NEW e \in Objects, Put(n, e)
    PROVE  /\ es' \in [Namespaces -> Objects]
           /\ esCurrent' \in [Namespaces -> BOOLEAN] /\ esRv' \in [Namespaces -> BOOLEAN]
BY DEF Put, LifecycleTypes

LEMMA PutDeletedTyped ==
    ASSUME LifecycleTypes, NEW n \in Namespaces, PutDeleted(n)
    PROVE  /\ es' \in [Namespaces -> Objects]
           /\ esCurrent' \in [Namespaces -> BOOLEAN] /\ esRv' \in [Namespaces -> BOOLEAN]
<1>1. es[n] \in Objects /\ es[n].st # "none" /\ Put(n, Deleted(es[n]))
  BY DEF PutDeleted, LifecycleTypes
<1> QED  BY <1>1, ObjectFacts, PutTyped

LEMMA FirstStepTyped ==
    ASSUME NEW n \in Namespaces
    PROVE  FirstStep(n) \in {"idle", "addfin", "sync", "clean"}
BY DEF FirstStep

LEMMA ReportFacts ==
    ASSUME LifecycleTypes, NEW n \in Namespaces, ReportsDeletion(n)
    PROVE  /\ esCurrent' \in [Namespaces -> BOOLEAN]
           /\ esCurrent'[n] => esCurrent[n]
           /\ \A m \in Namespaces \ {n} : esCurrent'[m] = esCurrent[m]
BY DEF ReportsDeletion, LifecycleTypes

LEMMA RoundTyped ==
    ASSUME LifecycleTypes, NEW n \in Namespaces, EsRound(n) \/ CallFails(n) \/ Poll(n)
    PROVE  LifecycleTypes'
<1> USE DEF LifecycleTypes, bounds, secretVars
<1>1. CASE EsStart(n)
  BY <1>1, FirstStepTyped, ReportFacts DEF EsStart, GoTo
<1>2. CASE AddFinalizer(n)
  <2>1. es[n] \in Objects
    OBVIOUS
  <2>2. es' = [es EXCEPT ![n] = [st |-> es[n].st, fin |-> TRUE]]
    BY <1>2 DEF AddFinalizer
  <2>3. es' \in [Namespaces -> Objects]
    BY <2>1, <2>2, ObjectFacts
  <2> QED  BY <1>2, <2>3 DEF AddFinalizer, GoTo
<1>3. CASE Sync(n)
  BY <1>3 DEF Sync, Swallow, GoTo
<1>9. CASE WriteRefused(n) \/ SkipsWrite(n)
  BY <1>9 DEF WriteRefused, SkipsWrite, Retry, Swallow, GoTo
<1>4. CASE Clean(n)
  BY <1>4 DEF Clean, GoTo
<1>5. CASE RemoveFinalizer(n)
  BY <1>5, PutTyped, ObjectFacts DEF RemoveFinalizer, GoTo
<1>6. CASE Conflict(n)
  BY <1>6 DEF Conflict, Retry, GoTo
<1>7. CASE CallFails(n)
  BY <1>7, LifecycleAssumption DEF CallFails, Fault, Retry, GoTo
<1>8. CASE Poll(n)
  BY <1>8 DEF Poll
<1> QED  BY <1>1, <1>2, <1>3, <1>4, <1>5, <1>6, <1>7, <1>8, <1>9 DEF EsRound

LEMMA StepTyped ==
    ASSUME LifecycleTypes, NEW n \in Namespaces, LifecycleStep(n)
    PROVE  LifecycleTypes'
<1>1. CASE DeliverEs(n)
  BY <1>1 DEF DeliverEs, LifecycleTypes, bounds, secretVars
<1>6. CASE DeliverSecret(n)
  BY <1>6 DEF DeliverSecret, LifecycleTypes, bounds, process
<1>2. CASE EsRound(n) \/ CallFails(n) \/ Poll(n)
  BY <1>2, RoundTyped
<1>3. CASE UserDeletes(n)
  BY <1>3, PutDeletedTyped, LifecycleAssumption DEF UserDeletes, Event, LifecycleTypes, secretVars
<1>4. CASE NamespaceTerminates(n)
  BY <1>4, LifecycleAssumption DEF NamespaceTerminates, Event, LifecycleTypes, process, secretVars
<1>5. CASE Purge(n)
  <2>1. CASE PurgeSecret(n) \/ NamespaceGone(n)
    BY <2>1 DEF PurgeSecret, NamespaceGone, LifecycleTypes, process, bounds, secretVars
  <2>2. CASE PurgeEs(n)
    BY <2>2, PutDeletedTyped DEF PurgeEs, LifecycleTypes, bounds, secretVars
  <2> QED  BY <1>5, <2>1, <2>2 DEF Purge
<1> QED  BY <1>1, <1>2, <1>3, <1>4, <1>5, <1>6 DEF LifecycleStep

LEMMA ReturnsTyped ==
    ASSUME LifecycleTypes, NEW n \in Namespaces, NamespaceReturns(n)
    PROVE  LifecycleTypes'
BY LifecycleAssumption DEF NamespaceReturns, Event, LifecycleTypes, process, secretVars

LEMMA RestartTyped ==
    ASSUME LifecycleTypes, NEW s \in Scopes, RestartWith(s)
    PROVE  LifecycleTypes'
<1>1. esSeen' \in [Namespaces -> Objects]
  BY ObjectFacts DEF RestartWith, LifecycleTypes
<1>2. esQ' \in [Namespaces -> BOOLEAN]
  BY DEF RestartWith, Cached
<1>3. secretSeen' \in [Namespaces -> BOOLEAN]
  BY DEF RestartWith, Cached, LifecycleTypes
<1> QED  BY <1>1, <1>2, <1>3, LifecycleAssumption DEF RestartWith, Fault, LifecycleTypes

LEMMA InitTyped == LifecycleInit => LifecycleTypes
BY ObjectFacts, LifecycleAssumption DEF LifecycleInit, LifecycleTypes

LEMMA LifecycleTypesHold == LifecycleSpec => []LifecycleTypes
<1>1. LifecycleTypes /\ [LifecycleNext]_lifecycle => LifecycleTypes'
  <2> SUFFICES ASSUME LifecycleTypes, [LifecycleNext]_lifecycle PROVE LifecycleTypes'
    OBVIOUS
  <2>1. ASSUME NEW n \in Namespaces, UserCreates(n) PROVE LifecycleTypes'
    <3>1. Put(n, Created)
      BY <2>1 DEF UserCreates, PutApplied
    <3> QED  BY <2>1, <3>1, PutTyped, ObjectFacts, LifecycleAssumption DEF UserCreates, Event, LifecycleTypes, secretVars
  <2>2. CASE UNCHANGED lifecycle
    BY <2>2 DEF lifecycle, LifecycleTypes, secretVars
  <2> QED  BY <2>1, <2>2, StepTyped, ReturnsTyped, RestartTyped DEF LifecycleNext
<1> QED  BY <1>1, InitTyped, PTL DEF LifecycleSpec

-----------------------------------------------------------------------------
(* The finalizer holds what has a Secret                                   *)

Leaving == [st |-> "term", fin |-> TRUE]

LEMMA LeavingFacts == Leaving.st = "term" /\ Leaving # Absent /\ Leaving # Created
BY DEF Leaving, Absent, Created

\* A round about to write the Secret and a copy with the finalizer both mean
\* that the object has its finalizer.  What a round of a deletion finds is that
\* deletion, its end, or a new object that nobody has held yet; it has left no
\* Secret but one that it did not see.
Held(n) ==
    /\ es[n].fin => es[n].st # "none"
    /\ es[n].st = "term" => es[n].fin
    /\ esSeen[n].st = "live" /\ esSeen[n].fin => es[n].fin
    /\ esCurrent[n] => esSeen[n] \in {es[n], Absent}
    /\ esPc[n] = "addfin" /\ esRv[n] => es[n] = Created /\ esSeen[n] = Created
    /\ esPc[n] = "sync" => es[n].fin
    /\ esSeen[n] = Leaving \/ esPc[n] \in {"clean", "release"} => ~(es[n].st = "live" /\ es[n].fin)
    /\ esPc[n] \in {"clean", "release"} /\ esRv[n] => es[n] = Leaving /\ esSeen[n] = Leaving
    /\ esPc[n] = "release" => (secret[n] => n \in overlooked)

Same(n) ==
    /\ es'[n] = es[n] /\ esSeen'[n] = esSeen[n] /\ esCurrent'[n] = esCurrent[n]
    /\ esQ'[n] = esQ[n] /\ esPc'[n] = esPc[n] /\ esRv'[n] = esRv[n] /\ secret'[n] = secret[n]
    /\ n \in overlooked' <=> n \in overlooked

Elsewhere(n) == \A m \in Namespaces \ {n} : Same(m)

LEMMA SameHeld ==
    ASSUME NEW n \in Namespaces, Held(n), Same(n)
    PROVE  Held(n)'
BY DEF Held, Same

LEMMA AllHeld ==
    ASSUME NEW n \in Namespaces, \A m \in Namespaces : Held(m), Held(n)', Elsewhere(n)
    PROVE  \A m \in Namespaces : Held(m)'
BY SameHeld DEF Elsewhere

\* The object's own change, while rounds and copies stay.
PutOnly(n, e) ==
    /\ Put(n, e) /\ UNCHANGED <<esSeen, esQ, esPc, secretVars>>

LEMMA PutHeld ==
    ASSUME LifecycleTypes, NEW n \in Namespaces, Held(n), NEW e \in Objects, PutOnly(n, e),
           e.fin => e.st # "none",
           e.st = "live" => ~e.fin,
           e.st = "term" => e.fin,
           es[n].fin => e.fin
    PROVE  Held(n)' /\ Elsewhere(n)
<1>1. /\ es'[n] = e /\ ~esCurrent'[n] /\ ~esRv'[n]
      /\ esSeen' = esSeen /\ esQ' = esQ /\ esPc' = esPc /\ secret' = secret /\ overlooked' = overlooked
      /\ \A m \in Namespaces \ {n} : es'[m] = es[m] /\ esCurrent'[m] = esCurrent[m] /\ esRv'[m] = esRv[m]
  BY DEF PutOnly, Put, LifecycleTypes, secretVars
<1>2. Held(n)'
  BY <1>1 DEF Held
<1> QED  BY <1>1, <1>2 DEF Elsewhere, Same

LEMMA DeleteHeld ==
    ASSUME LifecycleTypes, NEW n \in Namespaces, Held(n), PutDeleted(n), UNCHANGED <<esSeen, esQ, esPc, secretVars>>
    PROVE  Held(n)' /\ Elsewhere(n)
<1>1. es[n] \in Objects /\ es[n].st = "live" /\ PutOnly(n, Deleted(es[n]))
  BY DEF PutDeleted, PutOnly, LifecycleTypes
<1>2. Deleted(es[n]) \in Objects
  BY <1>1, ObjectFacts
<1>3. /\ Deleted(es[n]).fin => Deleted(es[n]).st # "none"
      /\ Deleted(es[n]).st # "live"
      /\ Deleted(es[n]).st = "term" => Deleted(es[n]).fin
      /\ es[n].fin => Deleted(es[n]).fin
  BY DEF Deleted, Absent
<1> QED  BY <1>1, <1>2, <1>3, PutHeld

LEMMA ApplyHeld ==
    ASSUME LifecycleTypes, NEW n \in Namespaces, Held(n), PutApplied(n), UNCHANGED <<esSeen, esQ, esPc, secretVars>>
    PROVE  Held(n)' /\ Elsewhere(n)
<1>1. CASE es[n] = Absent
  <2>1. PutOnly(n, Created) /\ ~es[n].fin
    BY <1>1 DEF PutApplied, PutOnly, Absent
  <2>2. Created \in Objects /\ Created.st = "live" /\ ~Created.fin
    BY ObjectFacts DEF Created
  <2> QED  BY <2>1, <2>2, PutHeld
<1>2. CASE es[n] # Absent
  BY <1>2, SameHeld DEF PutApplied, Same, Elsewhere, secretVars
<1> QED  BY <1>1, <1>2

-----------------------------------------------------------------------------
(* Each step of a namespace                                                *)

LEMMA RoundHeld ==
    ASSUME LifecycleTypes, NEW n \in Namespaces, Held(n), EsRound(n) \/ CallFails(n) \/ Poll(n) \/ DeliverEs(n)
    PROVE  Held(n)' /\ Elsewhere(n)
<1> USE DEF LifecycleTypes
<1>1. CASE EsStart(n)
  <2>1. /\ esPc'[n] = FirstStep(n) /\ esRv'[n] = esCurrent[n]
        /\ es' = es /\ esSeen' = esSeen /\ secret' = secret /\ overlooked' = overlooked
        /\ esCurrent'[n] => esCurrent[n]
        /\ \A m \in Namespaces \ {n} :
              esCurrent'[m] = esCurrent[m] /\ esQ'[m] = esQ[m] /\ esPc'[m] = esPc[m] /\ esRv'[m] = esRv[m]
    BY <1>1, ReportFacts DEF EsStart, GoTo, secretVars
  <2>2. /\ FirstStep(n) = "addfin" => esSeen[n] = Created
        /\ FirstStep(n) = "sync" => esSeen[n].st = "live" /\ esSeen[n].fin
        /\ FirstStep(n) = "clean" => esSeen[n] = Leaving
        /\ FirstStep(n) # "release"
    BY DEF FirstStep, Created, Leaving, Objects
  <2>3. Created # Absent
    BY DEF Created, Absent
  <2>4. Held(n)'
    BY <2>1, <2>2, <2>3, LeavingFacts DEF Held
  <2> QED  BY <2>1, <2>4 DEF Elsewhere, Same
<1>2. CASE AddFinalizer(n)
  <2>1. es[n] = Created /\ esSeen[n] = Created /\ Created # Leaving /\ Created # Absent
    BY <1>2 DEF AddFinalizer, Held, Created, Leaving, Absent
  <2>2. /\ es'[n] = [st |-> "live", fin |-> TRUE] /\ ~esCurrent'[n] /\ esPc'[n] = "sync"
        /\ esSeen' = esSeen /\ esQ' = esQ /\ esRv' = esRv /\ secret' = secret /\ overlooked' = overlooked \ {n}
        /\ \A m \in Namespaces \ {n} :
              es'[m] = es[m] /\ esCurrent'[m] = esCurrent[m] /\ esPc'[m] = esPc[m]
              /\ (m \in overlooked' <=> m \in overlooked)
    BY <1>2, <2>1 DEF AddFinalizer, GoTo, Created
  <2>3. Held(n)'
    BY <2>1, <2>2 DEF Held
  <2> QED  BY <2>2, <2>3 DEF Elsewhere, Same
<1>3. CASE Sync(n)
  <2>1. /\ esPc[n] = "sync" /\ esPc'[n] = "idle"
        /\ es' = es /\ esSeen' = esSeen /\ esCurrent' = esCurrent /\ esRv' = esRv
        /\ \A m \in Namespaces \ {n} : esPc'[m] = esPc[m] /\ secret'[m] = secret[m]
        /\ esQ' = esQ /\ overlooked' = overlooked
    BY <1>3 DEF Sync, Swallow, GoTo
  <2>2. Held(n)'
    BY <2>1 DEF Held
  <2> QED  BY <2>1, <2>2 DEF Elsewhere, Same
<1>4. CASE Clean(n)
  <2>1. /\ esPc[n] = "clean" /\ esPc'[n] = "release" /\ (secret'[n] => n \in overlooked')
        /\ es' = es /\ esQ' = esQ /\ esSeen' = esSeen /\ esCurrent' = esCurrent /\ esRv' = esRv
        /\ \A m \in Namespaces \ {n} :
              esPc'[m] = esPc[m] /\ secret'[m] = secret[m] /\ (m \in overlooked' <=> m \in overlooked)
    BY <1>4 DEF Clean, GoTo
  <2>2. Held(n)'
    BY <2>1 DEF Held
  <2> QED  BY <2>1, <2>2 DEF Elsewhere, Same
<1>5. CASE RemoveFinalizer(n)
  <2>1. es[n] = Leaving /\ esSeen[n] = Leaving
    BY <1>5 DEF RemoveFinalizer, Held
  <2>2. /\ es'[n] = Absent /\ ~esCurrent'[n] /\ ~esRv'[n] /\ esPc'[n] = "idle"
        /\ esSeen' = esSeen /\ esQ' = esQ /\ secret' = secret /\ overlooked' = overlooked
        /\ \A m \in Namespaces \ {n} :
              es'[m] = es[m] /\ esCurrent'[m] = esCurrent[m] /\ esRv'[m] = esRv[m] /\ esPc'[m] = esPc[m]
    BY <1>5 DEF RemoveFinalizer, Put, GoTo, secretVars
  <2>3. Absent.st = "none" /\ ~Absent.fin
    BY DEF Absent
  <2>4. Held(n)'
    BY <2>1, <2>2, <2>3, LeavingFacts DEF Held
  <2> QED  BY <2>2, <2>4 DEF Elsewhere, Same
<1>6. CASE WriteRefused(n) \/ SkipsWrite(n) \/ Conflict(n) \/ CallFails(n)
  <2>1. /\ esPc[n] # "idle" /\ esPc'[n] = "idle"
        /\ es' = es /\ esSeen' = esSeen /\ esCurrent' = esCurrent /\ esRv' = esRv
        /\ secret' = secret /\ overlooked' = overlooked
        /\ \A m \in Namespaces \ {n} : esPc'[m] = esPc[m] /\ esQ'[m] = esQ[m]
    BY <1>6 DEF WriteRefused, SkipsWrite, Conflict, CallFails, Retry, Swallow, GoTo, secretVars
  <2>2. Held(n)'
    BY <2>1 DEF Held
  <2> QED  BY <2>1, <2>2 DEF Elsewhere, Same
<1>7. CASE Poll(n)
  <2>1. /\ es' = es /\ esSeen' = esSeen /\ esCurrent' = esCurrent /\ esPc' = esPc /\ esRv' = esRv
        /\ secret' = secret /\ overlooked' = overlooked
        /\ \A m \in Namespaces \ {n} : esQ'[m] = esQ[m]
    BY <1>7 DEF Poll, secretVars
  <2>2. Held(n)'
    BY <2>1 DEF Held
  <2> QED  BY <2>1, <2>2 DEF Elsewhere, Same
<1>8. CASE DeliverEs(n)
  <2>1. /\ ~esCurrent[n] /\ esSeen'[n] = es[n] /\ esCurrent'[n]
        /\ es' = es /\ esPc' = esPc /\ esRv' = esRv /\ secret' = secret /\ overlooked' = overlooked
        /\ \A m \in Namespaces \ {n} :
              esSeen'[m] = esSeen[m] /\ esCurrent'[m] = esCurrent[m] /\ esQ'[m] = esQ[m]
    BY <1>8 DEF DeliverEs, secretVars
  <2>2. Held(n)'
    BY <2>1, LeavingFacts DEF Held
  <2> QED  BY <2>1, <2>2 DEF Elsewhere, Same
<1> QED  BY <1>1, <1>2, <1>3, <1>4, <1>5, <1>6, <1>7, <1>8 DEF EsRound

LEMMA StepHeld ==
    ASSUME LifecycleTypes, NEW n \in Namespaces, Held(n), LifecycleStep(n)
    PROVE  Held(n)' /\ Elsewhere(n)
<1>1. CASE DeliverEs(n) \/ EsRound(n) \/ CallFails(n) \/ Poll(n)
  BY <1>1, RoundHeld
<1>2. CASE UserDeletes(n) \/ PurgeEs(n)
  BY <1>2, DeleteHeld DEF UserDeletes, PurgeEs
<1>3. CASE NamespaceTerminates(n) \/ NamespaceGone(n)
  BY <1>3, SameHeld DEF NamespaceTerminates, NamespaceGone, process, Same, Elsewhere, secretVars
<1>4. CASE PurgeSecret(n)
  <2>1. /\ ~secret'[n] /\ es' = es /\ esQ' = esQ /\ esSeen' = esSeen /\ esCurrent' = esCurrent /\ esPc' = esPc /\ esRv' = esRv
        /\ \A m \in Namespaces \ {n} : secret'[m] = secret[m] /\ (m \in overlooked' <=> m \in overlooked)
    BY <1>4 DEF PurgeSecret, process, LifecycleTypes
  <2>2. Held(n)'
    BY <2>1 DEF Held
  <2> QED  BY <2>1, <2>2 DEF Elsewhere, Same
<1>5. CASE DeliverSecret(n)
  BY <1>5, SameHeld DEF DeliverSecret, process, Same, Elsewhere
<1> QED  BY <1>1, <1>2, <1>3, <1>4, <1>5 DEF LifecycleStep, Purge

LEMMA ReturnsHeld ==
    ASSUME NEW n \in Namespaces, Held(n), NamespaceReturns(n)
    PROVE  Held(n)' /\ Elsewhere(n)
BY SameHeld DEF NamespaceReturns, process, Same, Elsewhere, secretVars

LEMMA RestartHeld ==
    ASSUME NEW s \in Scopes, RestartWith(s), NEW n \in Namespaces, Held(n)
    PROVE  Held(n)'
<1>1. /\ es' = es /\ secret' = secret /\ esPc'[n] = "idle" /\ ~esRv'[n]
      /\ esSeen'[n] \in {es[n], Absent} /\ esCurrent'[n]
  BY DEF RestartWith
<1> QED  BY <1>1, ObjectFacts, LeavingFacts DEF Held

LEMMA InitHeld == LifecycleInit => \A n \in Namespaces : Held(n)
BY DEF LifecycleInit, Held, Absent, Leaving

LEMMA HeldHolds == LifecycleSpec => [](\A n \in Namespaces : Held(n))
<1>1. LifecycleTypes /\ (\A n \in Namespaces : Held(n)) /\ [LifecycleNext]_lifecycle
        => (\A n \in Namespaces : Held(n))'
  <2> SUFFICES ASSUME LifecycleTypes, \A n \in Namespaces : Held(n), [LifecycleNext]_lifecycle
               PROVE  \A n \in Namespaces : Held(n)'
    OBVIOUS
  <2>1. ASSUME NEW n \in Namespaces, LifecycleStep(n) \/ NamespaceReturns(n) \/ UserCreates(n)
        PROVE  Held(n)' /\ Elsewhere(n)
    BY <2>1, StepHeld, ReturnsHeld, ApplyHeld DEF UserCreates
  <2>2. CASE UNCHANGED lifecycle
    BY <2>2, SameHeld DEF lifecycle, Same, secretVars
  <2> QED  BY <2>1, <2>2, AllHeld, RestartHeld DEF LifecycleNext
<1> QED  BY <1>1, InitHeld, LifecycleTypesHold, PTL DEF LifecycleSpec

\* No step leaves the sets the variables are meant to range over, and no object
\* that is not there gets a finalizer.
THEOREM LifecycleTypeCorrect == LifecycleSpec => []LifecycleTypeOK
<1>1. LifecycleTypes /\ (\A n \in Namespaces : Held(n)) => LifecycleTypeOK
  BY DEF LifecycleTypeOK, Held
<1> QED  BY <1>1, LifecycleTypesHold, HeldHolds, PTL

-----------------------------------------------------------------------------
(* Deletions without exclusions                                            *)

\* A deletion the process has not heard of is on its way; one it has heard of
\* is queued or in a round that will remove the finalizer or come back.
Pending(n) ==
    es[n].st = "term" => esQ[n] \/ ~esCurrent[n] \/ esPc[n] \in {"clean", "release"}

LEMMA EverywhereFacts ==
    ASSUME scope = Everywhere, NEW n \in Namespaces
    PROVE  /\ Cached(scope, n)
           /\ \A old, new : Passes(n, old, new) <=> new = Absent \/ ~FinalizerAdded(old, new)
BY DEF Everywhere, Cached, Passes

LEMMA PendingStep ==
    ASSUME LifecycleTypes, scope = Everywhere, NEW n \in Namespaces, Held(n), esCurrent[n] => esSeen[n] = es[n],
           Pending(n), LifecycleStep(n)
    PROVE  Pending(n)' /\ (esCurrent'[n] => esSeen'[n] = es'[n])
<1> USE DEF LifecycleTypes
<1>1. CASE EsStart(n)
  <2>1. esPc'[n] = FirstStep(n) /\ es' = es /\ esSeen' = esSeen /\ (esCurrent'[n] => esCurrent[n])
    BY <1>1, ReportFacts DEF EsStart, GoTo
  <2>2. es[n].st = "term" /\ esCurrent[n] => FirstStep(n) = "clean"
    BY DEF Held, FirstStep
  <2> QED  BY <2>1, <2>2 DEF Pending
<1>2. CASE AddFinalizer(n)
  <2>1. ~esCurrent'[n]
    BY <1>2 DEF AddFinalizer
  <2> QED  BY <2>1 DEF Pending
<1>3. CASE Sync(n)
  <2>1. esPc[n] = "sync" /\ es' = es /\ esSeen' = esSeen /\ esCurrent' = esCurrent /\ esQ' = esQ
    BY <1>3 DEF Sync, Swallow
  <2> QED  BY <2>1 DEF Pending
<1>10. CASE SkipsWrite(n)
  <2>1. esPc[n] = "sync" /\ es' = es /\ esSeen' = esSeen /\ esCurrent' = esCurrent /\ esQ' = esQ
    BY <1>10 DEF SkipsWrite, Swallow
  <2> QED  BY <2>1 DEF Pending
<1>4. CASE Clean(n)
  <2>1. esPc'[n] = "release" /\ es' = es /\ esSeen' = esSeen /\ esCurrent' = esCurrent
    BY <1>4 DEF Clean, GoTo
  <2> QED  BY <2>1 DEF Pending
<1>5. CASE RemoveFinalizer(n) \/ UserDeletes(n) \/ PurgeEs(n)
  <2>1. ~esCurrent'[n]
    BY <1>5 DEF RemoveFinalizer, UserDeletes, PurgeEs, PutDeleted, Put
  <2> QED  BY <2>1 DEF Pending
<1>6. CASE WriteRefused(n) \/ Conflict(n) \/ CallFails(n)
  <2>1. esQ'[n] /\ es' = es /\ esSeen' = esSeen /\ esCurrent' = esCurrent
    BY <1>6 DEF WriteRefused, Conflict, CallFails, Retry
  <2> QED  BY <2>1 DEF Pending
<1>7. CASE Poll(n)
  <2>1. esQ'[n] /\ es' = es /\ esSeen' = esSeen /\ esCurrent' = esCurrent
    BY <1>7 DEF Poll
  <2> QED  BY <2>1 DEF Pending
<1>8. CASE DeliverEs(n)
  <2>1. /\ esSeen'[n] = es[n] /\ es' = es
        /\ esQ'[n] = (esQ[n] \/ Passes(n, esSeen[n], es[n]))
    BY <1>8 DEF DeliverEs
  <2>2. es[n].st = "term" => ~FinalizerAdded(esSeen[n], es[n])
    BY DEF FinalizerAdded, Created
  <2>3. Passes(n, esSeen[n], es[n]) <=> es[n] = Absent \/ ~FinalizerAdded(esSeen[n], es[n])
    BY EverywhereFacts
  <2> QED  BY <2>1, <2>2, <2>3 DEF Pending
<1>9. CASE DeliverSecret(n) \/ NamespaceTerminates(n) \/ NamespaceGone(n) \/ PurgeSecret(n)
  BY <1>9 DEF DeliverSecret, NamespaceTerminates, NamespaceGone, PurgeSecret, process, Pending
<1> QED  BY <1>1, <1>2, <1>3, <1>4, <1>5, <1>6, <1>7, <1>8, <1>9, <1>10 DEF LifecycleStep, EsRound, Purge

\* All that is needed at every namespace of a process that excludes none.
Unforgotten ==
    /\ scope = Everywhere
    /\ \A n \in Namespaces : Held(n) /\ Pending(n) /\ (esCurrent[n] => esSeen[n] = es[n])

LEMMA InitUnforgotten == LifecycleInit => Unforgotten
BY InitHeld DEF LifecycleInit, Unforgotten, Pending, Absent

LEMMA UnforgottenElsewhere ==
    ASSUME Unforgotten, NEW n \in Namespaces, scope' = scope, Held(n)', Elsewhere(n),
           \A m \in Namespaces \ {n} : esQ'[m] = esQ[m],
           Pending(n)', esCurrent'[n] => esSeen'[n] = es'[n]
    PROVE  Unforgotten'
<1>1. \A m \in Namespaces : Held(m)'
  BY AllHeld DEF Unforgotten
<1>2. ASSUME NEW m \in Namespaces \ {n} PROVE Pending(m)' /\ (esCurrent'[m] => esSeen'[m] = es'[m])
  BY <1>2 DEF Unforgotten, Elsewhere, Same, Pending
<1> QED  BY <1>1, <1>2 DEF Unforgotten

LEMMA QueueElsewhere ==
    ASSUME LifecycleTypes, NEW n \in Namespaces, LifecycleStep(n)
    PROVE  scope' = scope /\ \A m \in Namespaces \ {n} : esQ'[m] = esQ[m]
<1> USE DEF LifecycleTypes
<1>1. CASE EsRound(n)
  BY <1>1 DEF EsRound, EsStart, AddFinalizer, Sync, WriteRefused, SkipsWrite, Clean, RemoveFinalizer, Conflict, Retry, Swallow
<1>2. CASE DeliverEs(n) \/ DeliverSecret(n) \/ CallFails(n) \/ Poll(n)
  BY <1>2 DEF DeliverEs, DeliverSecret, CallFails, Retry, Poll, process
<1>3. CASE UserDeletes(n) \/ NamespaceTerminates(n) \/ Purge(n)
  BY <1>3 DEF UserDeletes, NamespaceTerminates, Purge, PurgeSecret, PurgeEs, NamespaceGone, process
<1> QED  BY <1>1, <1>2, <1>3 DEF LifecycleStep

LEMMA StepUnforgotten ==
    ASSUME LifecycleTypes, Unforgotten, NEW n \in Namespaces, LifecycleStep(n)
    PROVE  Unforgotten'
<1>1. Held(n)' /\ Elsewhere(n)
  BY StepHeld DEF Unforgotten
<1>2. Pending(n)' /\ (esCurrent'[n] => esSeen'[n] = es'[n])
  BY PendingStep DEF Unforgotten
<1> QED  BY <1>1, <1>2, QueueElsewhere, UnforgottenElsewhere

\* The object is put in place or deleted by somebody else.
LEMMA ChangeUnforgotten ==
    ASSUME LifecycleTypes, Unforgotten, NEW n \in Namespaces, PutApplied(n) \/ PutDeleted(n),
           UNCHANGED <<scope, esSeen, esQ, esPc, secretVars>>
    PROVE  Unforgotten'
<1>1. Held(n)' /\ Elsewhere(n)
  BY ApplyHeld, DeleteHeld DEF Unforgotten
<1>2. Pending(n)' /\ (esCurrent'[n] => esSeen'[n] = es'[n])
  <2>1. CASE UNCHANGED <<es, esCurrent, esRv>>
    BY <2>1 DEF Unforgotten, Pending
  <2>2. CASE \E e : Put(n, e)
    <3>1. ~esCurrent'[n]
      BY <2>2 DEF Put, LifecycleTypes
    <3> QED  BY <3>1 DEF Pending
  <2> QED  BY <2>1, <2>2 DEF PutApplied, PutDeleted
<1> QED  BY <1>1, <1>2, UnforgottenElsewhere

LEMMA ReturnsUnforgotten ==
    ASSUME Unforgotten, NEW n \in Namespaces, NamespaceReturns(n)
    PROVE  Unforgotten'
<1>1. /\ es' = es /\ esSeen' = esSeen /\ esCurrent' = esCurrent /\ esPc' = esPc /\ esRv' = esRv
      /\ esQ' = esQ /\ secret' = secret /\ overlooked' = overlooked /\ scope' = scope
  BY DEF NamespaceReturns, process, secretVars
<1> QED  BY <1>1, SameHeld DEF Unforgotten, Same, Pending

LEMMA RestartUnforgotten ==
    ASSUME Unforgotten, Everywhere \in Scopes, RestartWith(Everywhere)
    PROVE  Unforgotten'
<1>1. \A n \in Namespaces : Held(n)'
  BY RestartHeld DEF Unforgotten
<1>2. \A n \in Namespaces : Cached(Everywhere, n) /\ n \notin Everywhere.exclude
  BY DEF Cached, Everywhere
<1>3. scope' = Everywhere /\ es' = es
  BY DEF RestartWith
<1>4. \A n \in Namespaces : esSeen'[n] = es[n] /\ (esQ'[n] <=> es[n] # Absent)
  BY <1>2 DEF RestartWith
<1>5. \A n \in Namespaces : Pending(n)'
  BY <1>3, <1>4 DEF Pending, Absent
<1> QED  BY <1>1, <1>3, <1>4, <1>5 DEF Unforgotten

LEMMA UnforgottenPending == Unforgotten => DeletionIsPending
BY DEF Unforgotten, Pending, DeletionIsPending, Cached, Everywhere

\* Without exclusions a deleted object that has its finalizer is always queued,
\* in a round, or its deletion is on the way to the queue, whatever fails.
THEOREM DeletionPendingHolds ==
    ASSUME Scopes = {Everywhere}
    PROVE  LifecycleSpec => []DeletionIsPending
<1>1. LifecycleTypes /\ Unforgotten /\ [LifecycleNext]_lifecycle => Unforgotten'
  <2> SUFFICES ASSUME LifecycleTypes, Unforgotten, [LifecycleNext]_lifecycle PROVE Unforgotten'
    OBVIOUS
  <2>1. ASSUME NEW n \in Namespaces, UserCreates(n) PROVE Unforgotten'
    BY <2>1, ChangeUnforgotten DEF UserCreates
  <2>2. ASSUME NEW s \in Scopes, RestartWith(s) PROVE Unforgotten'
    BY <2>2, RestartUnforgotten
  <2>3. CASE UNCHANGED lifecycle
    BY <2>3, SameHeld DEF lifecycle, Unforgotten, Same, Pending, secretVars
  <2> QED  BY <2>1, <2>2, <2>3, StepUnforgotten, ReturnsUnforgotten DEF LifecycleNext
<1> QED  BY <1>1, InitUnforgotten, UnforgottenPending, LifecycleTypesHold, PTL DEF LifecycleSpec

-----------------------------------------------------------------------------
(* What ManagedSecrets sees of a step                                      *)

Children == [n \in Namespaces |-> ChildOf(es[n])]
WithSecret == {n \in Namespaces : secret[n]}
Shown == {n \in Namespaces : secretSeen[n]}

ShownStays == Shown' = Shown /\ overlooked' = overlooked
Becomes(n, state) == Children' = [Children EXCEPT ![n] = state] /\ WithSecret' = WithSecret /\ ShownStays
Stays == Children' = Children /\ WithSecret' = WithSecret /\ ShownStays

\* A child is held from now on, and what an earlier one left is its own.
Takes(n) ==
    /\ Children' = [Children EXCEPT ![n] = "held"] /\ WithSecret' = WithSecret
    /\ Shown' = Shown /\ overlooked' = overlooked \ {n}
Removes(n) ==
    /\ WithSecret' = WithSecret \ (Shown \cap {n})
    /\ overlooked' = (overlooked \ {n}) \cup ((WithSecret \ Shown) \cap {n})
    /\ Children' = Children /\ Shown' = Shown
Erases(n) ==
    /\ WithSecret' = WithSecret \ {n} /\ overlooked' = overlooked \ {n}
    /\ Children' = Children /\ Shown' = Shown
Shows(n) ==
    /\ Shown' = (Shown \ {n}) \cup (WithSecret \cap {n})
    /\ Children' = Children /\ WithSecret' = WithSecret /\ overlooked' = overlooked

\* One step of ManagedSecrets other than Create, Restart and Close, or none.
Moves(n) ==
    \/ Stays
    \/ Children[n] = "new" /\ (Takes(n) \/ Becomes(n, "none"))
    \/ Children[n] = "held" /\ Becomes(n, "leaving")
    \/ Children[n] = "leaving" /\ (n \in WithSecret => n \in overlooked) /\ Becomes(n, "none")
    \/ Children[n] \in {"held", "leaving"} /\ WithSecret' = WithSecret \cup {n} /\ Children' = Children /\ ShownStays
    \/ Children[n] # "held" /\ Removes(n)
    \/ Erases(n)
    \/ Shows(n)

LEMMA ChildBecomes ==
    ASSUME NEW n \in Namespaces, UNCHANGED secretVars, \A m \in Namespaces \ {n} : es'[m] = es[m]
    PROVE  Becomes(n, ChildOf(es'[n]))
<1>1. Children' = [Children EXCEPT ![n] = ChildOf(es'[n])]
  BY DEF Children
<1> QED  BY <1>1 DEF Becomes, WithSecret, ShownStays, Shown, secretVars

LEMMA DeleteMoves ==
    ASSUME LifecycleTypes, NEW n \in Namespaces, PutDeleted(n), UNCHANGED secretVars
    PROVE  Moves(n)
<1>1. /\ es[n] \in Objects /\ es[n].st = "live" /\ es'[n] = Deleted(es[n])
      /\ \A m \in Namespaces \ {n} : es'[m] = es[m]
  BY DEF PutDeleted, Put, LifecycleTypes
<1>2. Becomes(n, ChildOf(Deleted(es[n])))
  BY <1>1, ChildBecomes
<1>3. CASE es[n].fin
  <2>1. ChildOf(Deleted(es[n])) = "leaving" /\ Children[n] = "held"
    BY <1>1, <1>3 DEF Deleted, ChildOf, Children
  <2> QED  BY <1>2, <2>1 DEF Moves
<1>4. CASE ~es[n].fin
  <2>1. ChildOf(Deleted(es[n])) = "none" /\ Children[n] = "new"
    BY <1>1, <1>4 DEF Deleted, Absent, ChildOf, Children
  <2> QED  BY <1>2, <2>1 DEF Moves
<1> QED  BY <1>3, <1>4

\* A write changes nothing that is visible, or creates the child.
LEMMA ApplyMoves ==
    ASSUME LifecycleTypes, NEW n \in Namespaces, PutApplied(n), UNCHANGED secretVars
    PROVE  Stays \/ (Children[n] = "none" /\ Becomes(n, "new"))
<1>1. CASE es[n] = Absent
  <2>1. es'[n] = Created /\ \A m \in Namespaces \ {n} : es'[m] = es[m]
    BY <1>1 DEF PutApplied, Put, LifecycleTypes
  <2>2. Becomes(n, ChildOf(Created))
    BY <2>1, ChildBecomes
  <2> QED  BY <1>1, <2>2 DEF ChildOf, Created, Absent, Children
<1>2. CASE es[n] # Absent
  BY <1>2 DEF PutApplied, Stays, Children, WithSecret, ShownStays, Shown, secretVars
<1> QED  BY <1>1, <1>2

LEMMA StepMoves ==
    ASSUME LifecycleTypes, NEW n \in Namespaces, Held(n), LifecycleStep(n)
    PROVE  Moves(n)
<1>1. CASE AddFinalizer(n)
  <2>1. es[n] = Created
    BY <1>1 DEF AddFinalizer, Held
  <2>2. /\ es'[n] = [st |-> "live", fin |-> TRUE] /\ secret' = secret /\ secretSeen' = secretSeen
        /\ overlooked' = overlooked \ {n}
        /\ \A m \in Namespaces \ {n} : es'[m] = es[m]
    BY <1>1, <2>1 DEF AddFinalizer, Created, LifecycleTypes
  <2>3. ChildOf(es'[n]) = "held" /\ Children[n] = "new"
    BY <2>1, <2>2 DEF ChildOf, Created, Children
  <2>4. Children' = [Children EXCEPT ![n] = "held"]
    BY <2>2, <2>3 DEF Children
  <2> QED  BY <2>2, <2>3, <2>4 DEF Moves, Takes, WithSecret, Shown
<1>2. CASE Sync(n)
  <2>1. es[n].fin /\ es[n] \in Objects /\ es' = es /\ secretSeen' = secretSeen /\ overlooked' = overlooked
    BY <1>2 DEF Sync, Held, LifecycleTypes
  <2>2. Children[n] \in {"held", "leaving"} /\ Children' = Children
    BY <2>1 DEF Held, Children, ChildOf, Objects
  <2>3. WithSecret' = WithSecret \cup {n}
    BY <1>2 DEF Sync, WithSecret, LifecycleTypes
  <2> QED  BY <2>1, <2>2, <2>3 DEF Moves, ShownStays, Shown
<1>3. CASE Clean(n)
  <2>1. /\ ~(es[n].st = "live" /\ es[n].fin) /\ es' = es /\ secret' = [secret EXCEPT ![n] = @ /\ ~secretSeen[n]]
        /\ secretSeen' = secretSeen
        /\ overlooked' = IF secret'[n] THEN overlooked \cup {n} ELSE overlooked \ {n}
    BY <1>3 DEF Clean, Held
  <2>2. Children[n] # "held" /\ Children' = Children
    BY <2>1 DEF Children, ChildOf, LifecycleTypes, Objects
  <2>3. secret'[n] = (secret[n] /\ ~secretSeen[n]) /\ \A m \in Namespaces \ {n} : secret'[m] = secret[m]
    BY <2>1 DEF LifecycleTypes
  <2>4. WithSecret' = WithSecret \ (Shown \cap {n})
    BY <2>3 DEF WithSecret, Shown
  <2>5. overlooked' = (overlooked \ {n}) \cup ((WithSecret \ Shown) \cap {n})
    BY <2>1, <2>3 DEF WithSecret, Shown
  <2> QED  BY <2>1, <2>2, <2>4, <2>5 DEF Moves, Removes, Shown
<1>4. CASE RemoveFinalizer(n)
  <2>1. es[n] = Leaving /\ (secret[n] => n \in overlooked)
    BY <1>4 DEF RemoveFinalizer, Held
  <2>2. /\ es'[n] = Absent /\ UNCHANGED secretVars
        /\ \A m \in Namespaces \ {n} : es'[m] = es[m]
    BY <1>4 DEF RemoveFinalizer, Put, LifecycleTypes
  <2>3. ChildOf(es'[n]) = "none" /\ Children[n] = "leaving" /\ (n \in WithSecret => n \in overlooked)
    BY <2>1, <2>2 DEF ChildOf, Absent, Leaving, Children, WithSecret
  <2> QED  BY <2>2, <2>3, ChildBecomes DEF Moves
<1>5. CASE UserDeletes(n) \/ PurgeEs(n)
  BY <1>5, DeleteMoves DEF UserDeletes, PurgeEs
<1>6. CASE PurgeSecret(n)
  <2>1. /\ es' = es /\ secret' = [secret EXCEPT ![n] = FALSE] /\ secretSeen' = secretSeen
        /\ overlooked' = overlooked \ {n}
    BY <1>6 DEF PurgeSecret
  <2>2. WithSecret' = WithSecret \ {n}
    BY <2>1 DEF WithSecret, LifecycleTypes
  <2> QED  BY <2>1, <2>2 DEF Moves, Erases, Children, Shown
<1>7. CASE DeliverSecret(n)
  <2>1. /\ es' = es /\ secret' = secret /\ secretSeen' = [secretSeen EXCEPT ![n] = secret[n]]
        /\ overlooked' = overlooked
    BY <1>7 DEF DeliverSecret
  <2>2. Shown' = (Shown \ {n}) \cup (WithSecret \cap {n})
    BY <2>1 DEF Shown, WithSecret, LifecycleTypes
  <2> QED  BY <2>1, <2>2 DEF Moves, Shows, Children, WithSecret
<1>8. CASE DeliverEs(n) \/ CallFails(n) \/ Poll(n) \/ NamespaceTerminates(n) \/ NamespaceGone(n)
  <2>1. es' = es /\ UNCHANGED secretVars
    BY <1>8 DEF DeliverEs, CallFails, Poll, NamespaceTerminates, NamespaceGone
  <2> QED  BY <2>1 DEF Moves, Stays, Children, WithSecret, ShownStays, Shown, secretVars
<1>9. CASE EsStart(n) \/ Conflict(n) \/ WriteRefused(n) \/ SkipsWrite(n)
  <2>1. es' = es /\ UNCHANGED secretVars
    BY <1>9 DEF EsStart, Conflict, WriteRefused, SkipsWrite
  <2> QED  BY <2>1 DEF Moves, Stays, Children, WithSecret, ShownStays, Shown, secretVars
<1> QED  BY <1>1, <1>2, <1>3, <1>4, <1>5, <1>6, <1>7, <1>8, <1>9 DEF LifecycleStep, EsRound, Purge

\* The operator starts again: children and Secrets stay.
LEMMA RestartShows ==
    ASSUME NEW s \in Scopes, RestartWith(s)
    PROVE  Shown' \in SUBSET WithSecret /\ es' = es /\ secret' = secret /\ overlooked' = overlooked
BY DEF RestartWith, Shown, WithSecret

LEMMA ManagedMoves ==
    ASSUME NEW n \in Namespaces, Moves(n) \/ (Children[n] = "none" /\ Becomes(n, "new"))
    PROVE  [Managed!Next]_(Managed!vars)
<1> USE DEF Children, WithSecret, Shown, ShownStays
<1>1. CASE Stays
  BY <1>1 DEF Stays, Managed!vars
<1>2. CASE \/ Children[n] = "none" /\ Becomes(n, "new")
           \/ Children[n] = "leaving" /\ (n \in WithSecret => n \in overlooked) /\ Becomes(n, "none")
  BY <1>2 DEF Becomes, Managed!Next, Managed!Create, Managed!Release
<1>3. CASE \/ Children[n] = "new" /\ (Takes(n) \/ Becomes(n, "none"))
           \/ Children[n] = "held" /\ Becomes(n, "leaving")
  BY <1>3 DEF Becomes, Takes, Managed!Next, Managed!Hold, Managed!Leave
<1>4. CASE \/ /\ Children[n] \in {"held", "leaving"} /\ WithSecret' = WithSecret \cup {n}
              /\ Children' = Children /\ ShownStays
           \/ Erases(n) \/ Shows(n)
           \/ Children[n] # "held" /\ Removes(n)
  BY <1>4 DEF Erases, Shows, Removes, Managed!Next, Managed!Write, Managed!Erase, Managed!Show, Managed!Remove
<1> QED  BY <1>1, <1>2, <1>3, <1>4 DEF Moves

\* Whoever creates and deletes ExternalSecrets, whatever fails and restarts: no
\* Secret is written that no finalizer holds, and the finalizer goes only when
\* the Secret has gone or when the informer did not show it to the cleanup.
THEOREM LifecycleManaged == LifecycleSpec => ManagedSpec
<1>1. LifecycleInit => Managed!Init
  BY DEF LifecycleInit, Managed!Init, ChildOf, Absent
<1>2. LifecycleTypes /\ (\A n \in Namespaces : Held(n)) /\ [LifecycleNext]_lifecycle => [Managed!Next]_(Managed!vars)
  <2> SUFFICES ASSUME LifecycleTypes, \A n \in Namespaces : Held(n), [LifecycleNext]_lifecycle
               PROVE  [Managed!Next]_(Managed!vars)
    OBVIOUS
  <2>1. ASSUME NEW n \in Namespaces, LifecycleStep(n) PROVE [Managed!Next]_(Managed!vars)
    BY <2>1, StepMoves, ManagedMoves
  <2>2. ASSUME NEW n \in Namespaces, UserCreates(n) PROVE [Managed!Next]_(Managed!vars)
    <3>1. Stays \/ (Children[n] = "none" /\ Becomes(n, "new"))
      BY <2>2, ApplyMoves DEF UserCreates
    <3> QED  BY <3>1, ManagedMoves DEF Moves
  <2>3. ASSUME NEW s \in Scopes, RestartWith(s) PROVE [Managed!Next]_(Managed!vars)
    BY <2>3, RestartShows DEF Shown, WithSecret, Managed!Next, Managed!Restart
  <2>4. CASE es' = es /\ UNCHANGED secretVars
    BY <2>4 DEF Managed!vars, secretVars
  <2> QED  BY <2>1, <2>2, <2>3, <2>4 DEF LifecycleNext, NamespaceReturns, lifecycle
<1> QED  BY <1>1, <1>2, LifecycleTypesHold, HeldHolds, PTL DEF LifecycleSpec, ManagedSpec, Managed!Spec
=============================================================================
