-------------------- MODULE ClusterExternalSecret_proofs --------------------
(***************************************************************************)
(* Proofs about ClusterExternalSecret, for any namespaces, labels,         *)
(* selections, access rules and bounds: type correctness, that no deletion *)
(* of an ExternalSecret is forgotten, that the controllers together        *)
(* implement ManagedSecrets, what the ledger knows, and that the status is *)
(* exact when nothing is left to do.                                       *)
(***************************************************************************)
EXTENDS ClusterExternalSecret, ExternalSecretLifecycle_proofs

-----------------------------------------------------------------------------
(* What a step does to the objects of the namespaces                       *)

Quiet == UNCHANGED <<process, ns, es, secretVars>>
Bounded == events' \in 0..MaxEvents /\ faults' \in 0..MaxFaults

LEMMA BoundFacts ==
    ASSUME LifecycleTypes
    PROVE  /\ Event => events' \in 0..MaxEvents
           /\ Fault => faults' \in 0..MaxFaults
           /\ events \in 0..MaxEvents /\ faults \in 0..MaxFaults
BY LifecycleAssumption DEF LifecycleTypes, Event, Fault

LEMMA DeleteChildKind ==
    ASSUME NEW n \in Namespaces, DeleteChild(n), UNCHANGED <<unwatched, events>>
    PROVE  /\ PutDeleted(n) \/ Quiet
           /\ faults' = faults \/ Fault
           /\ events' = events
BY DEF DeleteChild, unwatched, Quiet, process

LEMMA ProvisionKind ==
    ASSUME NEW n \in Namespaces, Provision(n)
    PROVE  /\ (PutApplied(n) /\ cesPc = "provision" /\ UNCHANGED unwatched) \/ (PutDeleted(n) /\ UNCHANGED unwatched) \/ Quiet
           /\ faults' = faults \/ Fault
           /\ events' = events /\ ces' = ces
<1>1. CASE ApplyChild(n)
  BY <1>1 DEF Provision, ApplyChild
<1>2. CASE ApplyFails(n)
  BY <1>2 DEF Provision, ApplyFails, unwatched, Quiet, process
<1>3. CASE LosesAccess(n)
  BY <1>3, DeleteChildKind DEF Provision, LosesAccess, unwatched, Quiet, process
<1> QED  BY <1>1, <1>2, <1>3 DEF Provision

LEMMA Kinds ==
    ASSUME LifecycleTypes, [Next]_vars
    PROVE  \/ Quiet /\ Bounded
           \/ \E n \in Namespaces : PutDeleted(n) /\ UNCHANGED unwatched /\ ces' = ces /\ Bounded
           \/ \E n \in Namespaces :
                 PutApplied(n) /\ cesPc = "provision" /\ UNCHANGED unwatched /\ ces' = ces /\ Bounded
           \/ \E n \in Namespaces : LifecycleStep(n) /\ ces' = ces
           \/ \E n \in Namespaces : NamespaceReturns(n) /\ ces' = ces
           \/ RestartWith(Everywhere) /\ ces' = ces
<1> USE BoundFacts DEF Bounded
<1>1. CASE UNCHANGED vars \/ CesStart \/ CesAddFinalizer \/ List \/ WriteStatus \/ CesRemoveFinalizer \/ CesConflict
             \/ DeliverCes \/ CesPoll
  <2>1. UNCHANGED lifecycle
    BY <1>1 DEF vars, CesStart, CesAddFinalizer, List, WriteStatus, CesRemoveFinalizer, CesConflict, DeliverCes, CesPoll
  <2> QED  BY <2>1 DEF lifecycle, Quiet, process
<1>2. CASE Sweep \/ ListFails \/ CesWriteFails
  <2>1. UNCHANGED <<unwatched, es, esCurrent, esRv, events>> /\ (faults' = faults \/ Fault)
    BY <1>2 DEF Sweep, ListFails, CesWriteFails
  <2> QED  BY <2>1 DEF unwatched, Quiet, process
<1>3. CASE Users
  <2>1. UNCHANGED <<process, ns, es, secretVars, faults>> /\ Event
    BY <1>3 DEF Users, EditSpec, DeleteCes, Relabel, EditStore
  <2> QED  BY <2>1 DEF Quiet
<1>4. CASE Restart
  BY <1>4 DEF Restart
<1>5. ASSUME NEW n \in Namespaces, Provision(n)
      PROVE  /\ (PutApplied(n) /\ cesPc = "provision" /\ UNCHANGED unwatched) \/ (PutDeleted(n) /\ UNCHANGED unwatched) \/ Quiet
             /\ Bounded /\ ces' = ces
  BY <1>5, ProvisionKind
<1>6. ASSUME NEW n \in Namespaces, CleanupOrphan(n) \/ SweepChild(n)
      PROVE  /\ (PutDeleted(n) /\ UNCHANGED unwatched) \/ Quiet
             /\ Bounded /\ ces' = ces
  <2>1. DeleteChild(n) /\ UNCHANGED <<unwatched, events, ces>>
    BY <1>6 DEF CleanupOrphan, SweepChild
  <2> QED  BY <2>1, DeleteChildKind
<1>7. ASSUME NEW n \in Namespaces, GarbageCollect(n)
      PROVE  PutDeleted(n) /\ UNCHANGED unwatched /\ ces' = ces /\ Bounded
  BY <1>7 DEF GarbageCollect, bounds, ownVars
<1>8. ASSUME NEW n \in Namespaces, DeliverNamespace(n) \/ Admit(n)
      PROVE  Quiet /\ Bounded
  BY <1>8 DEF DeliverNamespace, Admit, lifecycle, Quiet, process
<1>10. ASSUME NEW n \in Namespaces, DropNamespace(n)
       PROVE  Quiet /\ Bounded
  BY <1>10 DEF DropNamespace, unwatched, Quiet, process
<1>9. ASSUME NEW n \in Namespaces, Child(n) \/ Returns(n)
      PROVE  (LifecycleStep(n) \/ NamespaceReturns(n)) /\ ces' = ces
  BY <1>9 DEF Child, Returns, ownVars
<1> QED  BY <1>1, <1>2, <1>3, <1>4, <1>5, <1>6, <1>7, <1>8, <1>9, <1>10 DEF Next, CesRound

\* The facts of ExternalSecretLifecycle hold of the composition: nothing here
\* touches the objects of the namespaces but through the API server.
LEMMA LifecycleKept ==
    ASSUME LifecycleTypes, Unforgotten, [Next]_vars
    PROVE  LifecycleTypes' /\ Unforgotten'
<1>0. Everywhere \in Scopes
  BY LifecycleAssumption
<1>1. CASE Quiet /\ Bounded
  <2>1. LifecycleTypes'
    BY <1>1 DEF Quiet, Bounded, process, secretVars, LifecycleTypes
  <2>2. Unforgotten'
    BY <1>1, SameHeld DEF Quiet, process, secretVars, Unforgotten, Same, Pending
  <2> QED  BY <2>1, <2>2
<1>2. ASSUME NEW n \in Namespaces, PutDeleted(n) \/ PutApplied(n), UNCHANGED unwatched, Bounded
      PROVE  LifecycleTypes' /\ Unforgotten'
  <2>1. /\ es' \in [Namespaces -> Objects]
        /\ esCurrent' \in [Namespaces -> BOOLEAN] /\ esRv' \in [Namespaces -> BOOLEAN]
    <3>1. CASE PutDeleted(n)
      BY <3>1, PutDeletedTyped
    <3>2. CASE PutApplied(n) /\ Put(n, Created)
      BY <3>2, PutTyped, ObjectFacts
    <3>3. CASE UNCHANGED <<es, esCurrent, esRv>>
      BY <3>3 DEF LifecycleTypes
    <3> QED  BY <1>2, <3>1, <3>2, <3>3 DEF PutApplied
  <2>2. LifecycleTypes'
    BY <1>2, <2>1 DEF unwatched, secretVars, Bounded, LifecycleTypes
  <2>3. Unforgotten'
    BY <1>2, ChangeUnforgotten DEF unwatched
  <2> QED  BY <2>2, <2>3
<1>3. ASSUME NEW n \in Namespaces, LifecycleStep(n) PROVE LifecycleTypes' /\ Unforgotten'
  BY <1>3, StepTyped, StepUnforgotten
<1>4. ASSUME NEW n \in Namespaces, NamespaceReturns(n) PROVE LifecycleTypes' /\ Unforgotten'
  BY <1>4, ReturnsTyped, ReturnsUnforgotten
<1>5. CASE RestartWith(Everywhere)
  BY <1>0, <1>5, RestartTyped, RestartUnforgotten
<1> QED  BY <1>1, <1>2, <1>3, <1>4, <1>5, Kinds

LEMMA LifecycleHolds == Spec => [](LifecycleTypes /\ Unforgotten)
<1>1. Init => LifecycleTypes /\ Unforgotten
  BY InitTyped, InitUnforgotten DEF Init
<1> QED  BY <1>1, LifecycleKept, PTL DEF Spec

\* An ExternalSecret that is being deleted and has its finalizer is always
\* queued, in a round, or its deletion is on the way to the queue, while the
\* ClusterExternalSecret creates and deletes it.
THEOREM ChildDeletionPendingHolds == Spec => []DeletionIsPending
BY LifecycleHolds, UnforgottenPending, PTL

-----------------------------------------------------------------------------
(* The ClusterExternalSecret                                               *)

LEMMA VersionFacts ==
    /\ \A s \in Specs \cup {<<>>} : New(s) \in Versions /\ New(s).st = "live" /\ ~New(s).fin
    /\ \A c \in Versions : Gone(c) \in Versions /\ Gone(c).st = "gone" /\ ~Gone(c).fin
BY DEF New, Gone, Versions

LEMMA VersionChanges ==
    ASSUME NEW c \in Versions
    PROVE  /\ \A s \in Specs : [c EXCEPT !.spec = s] \in Versions
                 /\ [c EXCEPT !.spec = s].st = c.st /\ [c EXCEPT !.spec = s].fin = c.fin
           /\ [c EXCEPT !.fin = TRUE] \in Versions /\ [c EXCEPT !.fin = TRUE].st = c.st /\ [c EXCEPT !.fin = TRUE].fin
           /\ [c EXCEPT !.st = "term"] \in Versions
           /\ [c EXCEPT !.st = "term"].st = "term" /\ [c EXCEPT !.st = "term"].fin = c.fin
BY DEF Versions

LEMMA OutcomeFacts ==
    ASSUME OwnTypes
    PROVE  Outcome \in Versions /\ Outcome.st = base.st /\ Outcome.fin = base.fin
<1>1. Ready(fail) \in {"unknown", "true", "false"}
  BY DEF Ready
<1> QED  BY <1>1 DEF Outcome, Versions, OwnTypes

LEMMA ListFailureFacts ==
    ASSUME OwnTypes, NEW c,
           LET failed == [base EXCEPT !.ledger = LedgerAfterListFailure, !.failed = {ClusterWide}]
           IN  c \in {failed, [failed EXCEPT !.ready = "false"]}
    PROVE  c \in Versions /\ c.st = base.st /\ c.fin = base.fin
<1> DEFINE failed == [base EXCEPT !.ledger = LedgerAfterListFailure, !.failed = {ClusterWide}]
<1>1. failed \in Versions /\ failed.st = base.st /\ failed.fin = base.fin
  BY DEF LedgerAfterListFailure, Versions, OwnTypes
<1> HIDE DEF failed
<1>2. [failed EXCEPT !.ready = "false"] \in Versions
      /\ [failed EXCEPT !.ready = "false"].st = failed.st /\ [failed EXCEPT !.ready = "false"].fin = failed.fin
  BY <1>1 DEF Versions
<1> QED  BY <1>1, <1>2 DEF failed

LEMMA MatchingTyped == \A spec, views : Matching(spec, views) \subseteq Namespaces
BY DEF Matching

\* What becomes of the object in a step.
Evolves ==
    \/ ces' = ces
    \/ ces' \in Versions /\ ces'.st = ces.st /\ ces'.fin = ces.fin
    \/ ces' \in Versions /\ cesPc = "addfin" /\ ces.st = base.st /\ ces'.st = ces.st /\ ces'.fin
    \/ ces' \in Versions /\ ces.fin /\ ces.st = "live" /\ ces'.st = "term" /\ ces'.fin
    \/ ces' \in Versions /\ ~ces.fin /\ ces.st = "live" /\ ces'.st = "gone" /\ ~ces'.fin
    \/ ces' \in Versions /\ cesPc = "sweep" /\ ces'.st = "gone" /\ ~ces'.fin

LEMMA Evolution ==
    ASSUME LifecycleTypes, OwnTypes, [Next]_vars
    PROVE  Evolves
<1>0. ces \in Versions /\ base \in Versions
  BY DEF OwnTypes
<1>1. CASE CesAddFinalizer
  BY <1>0, <1>1, VersionChanges DEF CesAddFinalizer, Writable, Evolves
<1>2. CASE WriteStatus
  BY <1>2, OutcomeFacts DEF WriteStatus, Writable, Evolves
<1>3. CASE CesRemoveFinalizer
  BY <1>0, <1>3, VersionFacts DEF CesRemoveFinalizer, Evolves
<1>4. CASE ListFails
  <2>1. CASE ces' = ces
    BY <2>1 DEF Evolves
  <2>2. CASE ces' # ces
    <3>1. ces = base
      BY <1>4, <2>2 DEF ListFails, Writable
    <3>2. LET failed == [base EXCEPT !.ledger = LedgerAfterListFailure, !.failed = {ClusterWide}]
          IN  ces' \in {failed, [failed EXCEPT !.ready = "false"]}
      BY <1>4, <2>2 DEF ListFails
    <3>3. ces' \in Versions /\ ces'.st = base.st /\ ces'.fin = base.fin
      BY <3>2, ListFailureFacts
    <3> QED  BY <3>1, <3>3 DEF Evolves
  <2> QED  BY <2>1, <2>2
<1>5. ASSUME NEW s \in Specs, EditSpec(s) PROVE Evolves
  BY <1>0, <1>5, VersionChanges DEF EditSpec, Evolves
<1>6. CASE DeleteCes
  <2>1. CASE ces.fin
    BY <1>0, <1>6, <2>1, VersionChanges DEF DeleteCes, Evolves
  <2>2. CASE ~ces.fin
    BY <1>0, <1>6, <2>2, VersionFacts DEF DeleteCes, Evolves
  <2> QED  BY <2>1, <2>2
<1>7. CASE CesStart \/ List \/ Sweep \/ CesConflict \/ DeliverCes \/ CesPoll \/ CesWriteFails \/ Restart
  BY <1>7 DEF CesStart, List, Sweep, CesConflict, DeliverCes, CesPoll, CesWriteFails, Restart, Evolves
<1>8. ASSUME NEW n \in Namespaces,
             Admit(n) \/ Provision(n) \/ CleanupOrphan(n) \/ SweepChild(n) \/ Child(n) \/ Returns(n)
               \/ DeliverNamespace(n) \/ DropNamespace(n) \/ GarbageCollect(n) \/ (\E l \in Labels : Relabel(n, l))
      PROVE  Evolves
  BY <1>8 DEF Admit, Provision, CleanupOrphan, SweepChild, Child, Returns, DeliverNamespace, DropNamespace,
              GarbageCollect, Relabel, ownVars, Evolves
<1>9. CASE (\E s \in Stores \cup {NoStore} : EditStore(s)) \/ UNCHANGED vars
  BY <1>9 DEF EditStore, vars, ownVars, Evolves
<1> QED  BY <1>1, <1>2, <1>3, <1>4, <1>5, <1>6, <1>7, <1>8, <1>9 DEF Next, CesRound, Users

LEMMA EvolvesTyped ==
    ASSUME OwnTypes, Evolves
    PROVE  ces' \in Versions
BY DEF OwnTypes, Evolves

LEMMA RoundOver ==
    ASSUME OwnTypes, Done
    PROVE  /\ base' \in Versions /\ cesPc' = "idle"
           /\ todo' \subseteq Namespaces /\ orphans' \subseteq Namespaces
           /\ prov' \subseteq Namespaces /\ fail' \subseteq Namespaces \cup {ClusterWide}
           /\ admitted' \subseteq Namespaces
BY VersionFacts DEF Done, NoRound

LEMMA SlippedTyped ==
    ASSUME OwnTypes, NEW n \in Namespaces, DeleteChild(n)
    PROVE  slipped' \subseteq Namespaces
BY DEF DeleteChild, OwnTypes

LEMMA ViewTyped ==
    ASSUME OwnTypes
    PROVE  View \in [Namespaces -> Labels \cup {Nowhere}]
BY DEF OwnTypes, View

LEMMA ProvisionTyped ==
    ASSUME OwnTypes, NEW n \in Namespaces, Provision(n)
    PROVE  OwnTypes'
<1>1. /\ UNCHANGED <<label, nsSeen, store, ces, cesSeen, cesQ, cesPc, base, orphans>>
      /\ todo' \subseteq Namespaces
      /\ admitted' \subseteq Namespaces /\ missed' = missed
  BY DEF Provision, OwnTypes
<1>2. prov' \subseteq Namespaces /\ fail' \subseteq Namespaces \cup {ClusterWide} /\ slipped' \subseteq Namespaces
  <2>1. CASE ApplyChild(n) \/ ApplyFails(n)
    BY <2>1 DEF ApplyChild, ApplyFails, OwnTypes
  <2>2. CASE LosesAccess(n)
    BY <2>2, SlippedTyped DEF LosesAccess, OwnTypes
  <2> QED  BY <2>1, <2>2 DEF Provision
<1> QED  BY <1>1, <1>2 DEF OwnTypes

LEMMA RoundOwnTyped ==
    ASSUME OwnTypes, Evolves, CesRound
    PROVE  OwnTypes'
<1>0. ces' \in Versions
  BY EvolvesTyped
<1>1. CASE CesStart
  <2>1. /\ UNCHANGED <<label, nsSeen, store, cesSeen, todo, orphans, prov, fail, admitted, history>> /\ cesQ' = FALSE
        /\ cesPc' \in {"list", "addfin", "finalize", cesPc} /\ base' \in {base, cesSeen}
    BY <1>1 DEF CesStart
  <2> QED  BY <1>0, <2>1 DEF OwnTypes, history
<1>2. CASE CesAddFinalizer
  <2>1. /\ UNCHANGED <<label, nsSeen, store, cesSeen, cesQ, todo, orphans, prov, fail, admitted, history>>
        /\ cesPc' = "list" /\ base' = ces'
    BY <1>2 DEF CesAddFinalizer
  <2> QED  BY <1>0, <2>1 DEF OwnTypes, history
<1>3. CASE List
  <2>1. NoMatch(nsSeen) \subseteq Namespaces \cup {ClusterWide}
    BY DEF NoMatch
  <2>2. /\ UNCHANGED <<label, nsSeen, store, cesSeen, cesQ, base, prov, admitted, slipped>> /\ cesPc' = "provision"
        /\ missed' = FALSE
        /\ todo' = Matching(base.spec, nsSeen) /\ orphans' = base.ledger \ todo'
        /\ fail' = IF todo' = {} THEN NoMatch(nsSeen) ELSE {}
    BY <1>3 DEF List
  <2>3. todo' \subseteq Namespaces /\ fail' \subseteq Namespaces \cup {ClusterWide}
    BY <2>1, <2>2, MatchingTyped
  <2>4. orphans' \subseteq Namespaces
    BY <2>2 DEF OwnTypes, Versions
  <2> QED  BY <1>0, <2>2, <2>3, <2>4 DEF OwnTypes, history
<1>4. CASE WriteStatus
  <2>1. /\ UNCHANGED <<label, nsSeen, store, cesSeen, cesQ, missed>> /\ Done
        /\ slipped' = (slipped \ prov) \cup (prov \ ces'.ledger)
    BY <1>4 DEF WriteStatus
  <2>2. slipped' \subseteq Namespaces
    BY <2>1 DEF OwnTypes, history
  <2> QED  BY <1>0, <2>1, <2>2, RoundOver DEF OwnTypes, history
<1>5. CASE Sweep
  <2>1. /\ UNCHANGED <<label, nsSeen, store, cesSeen, cesQ, base, orphans, prov, fail, admitted, history>> /\ cesPc' = "sweep"
        /\ todo' = base.ledger \cup Matching(base.spec, nsSeen) \/ todo' = base.ledger
    BY <1>5 DEF Sweep
  <2>2. base.ledger \subseteq Namespaces
    BY DEF OwnTypes, Versions
  <2>3. todo' \subseteq Namespaces
    BY <2>1, <2>2, MatchingTyped
  <2> QED  BY <1>0, <2>1, <2>3 DEF OwnTypes, history
<1>6. CASE CesRemoveFinalizer
  <2>1. UNCHANGED <<label, nsSeen, store, cesSeen, cesQ, history>> /\ Done
    BY <1>6 DEF CesRemoveFinalizer
  <2> QED  BY <1>0, <2>1, RoundOver DEF OwnTypes, history
<1>7. CASE CesConflict
  <2>1. UNCHANGED <<label, nsSeen, store, cesSeen, missed>> /\ Done /\ cesQ' = TRUE /\ slipped' = slipped \cup (prov \ ces.ledger)
    BY <1>7 DEF CesConflict, Abandon
  <2>2. slipped' \subseteq Namespaces
    BY <2>1 DEF OwnTypes, history
  <2> QED  BY <1>0, <2>1, <2>2, RoundOver DEF OwnTypes, history
<1>8. ASSUME NEW n \in Namespaces, Provision(n) PROVE OwnTypes'
  BY <1>8, ProvisionTyped
<1>9. ASSUME NEW n \in Namespaces, CleanupOrphan(n) \/ SweepChild(n) PROVE OwnTypes'
  <2>1. /\ UNCHANGED <<label, nsSeen, store, ces, cesSeen, cesQ, cesPc, base, prov, fail, admitted, missed>> /\ DeleteChild(n)
        /\ todo' \in {todo, todo \ {n}} /\ orphans' \in {orphans, orphans \ {n}}
    BY <1>9 DEF CleanupOrphan, SweepChild
  <2>2. slipped' \subseteq Namespaces
    BY <2>1, SlippedTyped
  <2> QED  BY <2>1, <2>2 DEF OwnTypes, history
<1>10. ASSUME NEW n \in Namespaces, Admit(n) PROVE OwnTypes'
  <2>1. /\ UNCHANGED <<label, nsSeen, store, ces, cesSeen, cesQ, cesPc, base, todo, orphans, prov, fail, history>>
        /\ admitted' = {n}
    BY <1>10 DEF Admit
  <2> QED  BY <2>1 DEF OwnTypes, history
<1> QED  BY <1>1, <1>2, <1>3, <1>4, <1>5, <1>6, <1>7, <1>8, <1>9, <1>10 DEF CesRound

LEMMA OwnTyped ==
    ASSUME LifecycleTypes, OwnTypes, [Next]_vars
    PROVE  OwnTypes'
<1>0. Evolves /\ ces' \in Versions
  BY Evolution, EvolvesTyped
<1>1. CASE CesRound
  BY <1>0, <1>1, RoundOwnTyped
<1>2. CASE DeliverCes \/ CesPoll
  <2>1. /\ UNCHANGED <<label, nsSeen, store, ces, cesPc, working, history>>
        /\ cesSeen' \in {ces, cesSeen} /\ cesQ' \in BOOLEAN
    BY <1>2 DEF DeliverCes, CesPoll
  <2> QED  BY <2>1 DEF OwnTypes, working, history
<1>3. CASE ListFails \/ CesWriteFails
  <2>1. UNCHANGED <<label, nsSeen, store, cesSeen, missed>> /\ Done /\ cesQ' = TRUE /\ slipped' = slipped \cup (prov \ ces.ledger)
    BY <1>3 DEF ListFails, CesWriteFails, Abandon
  <2>2. slipped' \subseteq Namespaces
    BY <2>1 DEF OwnTypes
  <2> QED  BY <1>0, <2>1, <2>2, RoundOver DEF OwnTypes
<1>4. CASE Restart
  <2>1. /\ UNCHANGED <<label, store, ces, missed>> /\ Done /\ slipped' = slipped \cup (prov \ ces.ledger)
        /\ cesSeen' = ces /\ nsSeen' = View /\ cesQ' \in BOOLEAN
    BY <1>4 DEF Restart, Abandon
  <2>2. slipped' \subseteq Namespaces
    BY <2>1 DEF OwnTypes
  <2> QED  BY <2>1, <2>2, RoundOver, ViewTyped DEF OwnTypes
<1>5. CASE Users
  <2>1. /\ UNCHANGED <<nsSeen, cesSeen, cesQ, cesPc, working, history>>
        /\ label' \in [Namespaces -> Labels] /\ store' \in Stores \cup {NoStore}
    <3>1. CASE (\E s \in Specs : EditSpec(s)) \/ DeleteCes
      BY <3>1 DEF EditSpec, DeleteCes, OwnTypes
    <3>2. CASE \E n \in Namespaces, l \in Labels : Relabel(n, l)
      BY <3>2 DEF Relabel, OwnTypes
    <3>3. CASE \E s \in Stores \cup {NoStore} : EditStore(s)
      BY <3>3 DEF EditStore, OwnTypes
    <3> QED  BY <1>5, <3>1, <3>2, <3>3 DEF Users
  <2> QED  BY <1>0, <2>1 DEF OwnTypes, working, history
<1>6. ASSUME NEW n \in Namespaces, DeliverNamespace(n) \/ DropNamespace(n) PROVE OwnTypes'
  <2>1. /\ UNCHANGED <<label, store, ces, cesSeen, cesPc, base, todo, orphans, prov, fail, admitted, slipped>>
        /\ nsSeen' = [nsSeen EXCEPT ![n] = View[n]] /\ cesQ' \in BOOLEAN /\ missed' \in BOOLEAN
    BY <1>6 DEF DeliverNamespace, DropNamespace, Asked, MapNamespaceToCES, working, history, OwnTypes
  <2>2. nsSeen' \in [Namespaces -> Labels \cup {Nowhere}]
    BY <2>1, ViewTyped DEF OwnTypes
  <2> QED  BY <2>1, <2>2 DEF OwnTypes
<1>7. CASE UNCHANGED ownVars
  BY <1>7 DEF ownVars, OwnTypes
<1>8. ASSUME NEW n \in Namespaces, Child(n) \/ Returns(n) \/ GarbageCollect(n) PROVE UNCHANGED ownVars
  BY <1>8 DEF Child, Returns, GarbageCollect
<1> QED  BY <1>1, <1>2, <1>3, <1>4, <1>5, <1>6, <1>7, <1>8 DEF Next, vars

-----------------------------------------------------------------------------
(* The finalizer of the ClusterExternalSecret                              *)

\* A round that provisions has put its finalizer on the object and the object
\* is still there; only a round that has seen the deletion takes it off.
Guarded ==
    /\ ces.fin => ces.st # "gone"
    /\ cesPc \in {"list", "provision"} => ces.fin
    /\ cesSeen.st = "live" /\ cesSeen.fin => ces.fin
    /\ cesSeen.st # "live" => ces.st # "live"
    /\ cesPc \in {"finalize", "sweep"} => cesSeen.st # "live"
    /\ cesPc = "addfin" => base.st = "live"

LEMMA InitOwn == Init => OwnTypes /\ Guarded
<1> SUFFICES ASSUME Init PROVE OwnTypes /\ Guarded
  OBVIOUS
<1>1. PICK s \in Specs : ces = New(s) /\ cesSeen = New(s)
  BY DEF Init
<1>2. {ces, cesSeen, base} \subseteq Versions /\ ces.st = "live" /\ ~ces.fin /\ cesSeen = ces
  BY <1>1, VersionFacts DEF Init, NoRound
<1>3. View \in [Namespaces -> Labels \cup {Nowhere}]
  BY DEF Init, View
<1> QED  BY <1>2, <1>3 DEF Init, OwnTypes, Guarded

LEMMA GuardedByRound ==
    ASSUME OwnTypes, Guarded, CesRound
    PROVE  Guarded'
<1>1. CASE CesStart
  <2>1. /\ UNCHANGED <<ces, cesSeen>>
        /\ \/ cesSeen.st = "live" /\ cesSeen.fin /\ cesPc' = "list"
           \/ cesSeen.st = "live" /\ cesPc' = "addfin" /\ base' = cesSeen
           \/ cesSeen.st # "live" /\ cesPc' = "finalize"
           \/ cesPc' = cesPc /\ cesPc = "idle"
    BY <1>1 DEF CesStart
  <2> QED  BY <2>1 DEF Guarded
<1>2. CASE CesAddFinalizer
  <2>1. /\ ces = base /\ base.st = "live" /\ cesSeen' = cesSeen /\ cesPc' = "list"
        /\ ces' = [ces EXCEPT !.fin = TRUE]
    BY <1>2 DEF CesAddFinalizer, Writable, Guarded
  <2>2. ces'.fin /\ ces'.st = "live"
    BY <2>1, VersionChanges DEF OwnTypes
  <2> QED  BY <2>1, <2>2 DEF Guarded
<1>3. CASE List
  <2>1. cesPc = "list" /\ cesPc' = "provision" /\ UNCHANGED <<ces, cesSeen>>
    BY <1>3 DEF List
  <2> QED  BY <2>1 DEF Guarded
<1>4. CASE WriteStatus
  <2>1. cesPc' = "idle" /\ cesSeen' = cesSeen /\ ces'.st = ces.st /\ ces'.fin = ces.fin
    BY <1>4, OutcomeFacts DEF WriteStatus, Done, Writable
  <2> QED  BY <2>1 DEF Guarded
<1>5. CASE Sweep
  <2>1. cesPc = "finalize" /\ cesPc' = "sweep" /\ UNCHANGED <<ces, cesSeen>>
    BY <1>5 DEF Sweep
  <2> QED  BY <2>1 DEF Guarded
<1>6. CASE CesRemoveFinalizer
  <2>1. cesPc = "sweep" /\ cesPc' = "idle" /\ cesSeen' = cesSeen /\ ces'.st = "gone" /\ ~ces'.fin
    BY <1>6, VersionFacts DEF CesRemoveFinalizer, Done, OwnTypes
  <2> QED  BY <2>1 DEF Guarded
<1>7. CASE CesConflict
  <2>1. cesPc' = "idle" /\ UNCHANGED <<ces, cesSeen>>
    BY <1>7 DEF CesConflict, Abandon, Done
  <2> QED  BY <2>1 DEF Guarded
<1>8. ASSUME NEW n \in Namespaces, Admit(n) \/ Provision(n) \/ CleanupOrphan(n) \/ SweepChild(n) PROVE Guarded'
  BY <1>8 DEF Admit, Provision, CleanupOrphan, SweepChild, Guarded
<1> QED  BY <1>1, <1>2, <1>3, <1>4, <1>5, <1>6, <1>7, <1>8 DEF CesRound

LEMMA GuardedKept ==
    ASSUME OwnTypes, Guarded, [Next]_vars
    PROVE  Guarded'
<1>0. ces \in Versions
  BY DEF OwnTypes
<1>1. CASE CesRound
  BY <1>1, GuardedByRound
<1>2. CASE DeliverCes
  <2>1. cesSeen' = ces /\ UNCHANGED <<ces, cesPc, base>>
    BY <1>2 DEF DeliverCes, working
  <2> QED  BY <2>1 DEF Guarded
<1>3. CASE CesPoll
  BY <1>3 DEF CesPoll, working, Guarded
<1>4. CASE ListFails
  <2>1. cesPc' = "idle" /\ cesSeen' = cesSeen
    BY <1>4 DEF ListFails, Abandon, Done
  <2>2. ces'.st = ces.st /\ ces'.fin = ces.fin
    <3>1. CASE ces' = ces
      BY <3>1
    <3>2. CASE ces' # ces
      <4>1. ces = base
        BY <1>4, <3>2 DEF ListFails, Writable
      <4>2. LET failed == [base EXCEPT !.ledger = LedgerAfterListFailure, !.failed = {ClusterWide}]
            IN  ces' \in {failed, [failed EXCEPT !.ready = "false"]}
        BY <1>4, <3>2 DEF ListFails
      <4>3. ces'.st = base.st /\ ces'.fin = base.fin
        BY <4>2, ListFailureFacts
      <4> QED  BY <4>1, <4>3
    <3> QED  BY <3>1, <3>2
  <2> QED  BY <2>1, <2>2 DEF Guarded
<1>5. CASE CesWriteFails
  <2>1. cesPc' = "idle" /\ UNCHANGED <<ces, cesSeen>>
    BY <1>5 DEF CesWriteFails, Abandon, Done
  <2> QED  BY <2>1 DEF Guarded
<1>6. CASE Restart
  <2>1. cesPc' = "idle" /\ cesSeen' = ces /\ ces' = ces
    BY <1>6 DEF Restart, Abandon, Done
  <2> QED  BY <2>1 DEF Guarded
<1>7. ASSUME NEW s \in Specs, EditSpec(s) PROVE Guarded'
  <2>1. /\ UNCHANGED <<cesSeen, cesPc, base>> /\ ces' = [ces EXCEPT !.spec = s]
    BY <1>7 DEF EditSpec, working
  <2>2. ces'.st = ces.st /\ ces'.fin = ces.fin
    BY <1>0, <2>1, VersionChanges
  <2> QED  BY <2>1, <2>2 DEF Guarded
<1>8. CASE DeleteCes
  <2>1. UNCHANGED <<cesSeen, cesPc, base>> /\ ces.st = "live"
    BY <1>8 DEF DeleteCes, working
  <2>2. (ces.fin /\ ces'.st = "term" /\ ces'.fin) \/ (~ces.fin /\ ces'.st = "gone" /\ ~ces'.fin)
    BY <1>0, <1>8, VersionChanges, VersionFacts DEF DeleteCes
  <2> QED  BY <2>1, <2>2 DEF Guarded
<1>9. CASE UNCHANGED <<ces, cesSeen, cesPc, base>>
  BY <1>9 DEF Guarded
<1>10. ASSUME NEW n \in Namespaces,
              Child(n) \/ Returns(n) \/ DeliverNamespace(n) \/ DropNamespace(n) \/ GarbageCollect(n)
                \/ (\E l \in Labels : Relabel(n, l))
       PROVE  UNCHANGED <<ces, cesSeen, cesPc, base>>
  BY <1>10 DEF Child, Returns, DeliverNamespace, DropNamespace, GarbageCollect, Relabel, ownVars, working
<1>11. CASE (\E s \in Stores \cup {NoStore} : EditStore(s)) \/ UNCHANGED vars
  BY <1>11 DEF EditStore, working, vars, ownVars, Guarded
<1> QED  BY <1>1, <1>2, <1>3, <1>4, <1>5, <1>6, <1>7, <1>8, <1>9, <1>10, <1>11 DEF Next, Users

LEMMA OwnHolds == Spec => [](OwnTypes /\ Guarded)
BY InitOwn, OwnTyped, GuardedKept, LifecycleHolds, PTL DEF Spec

\* No step of either controller leaves the sets the variables are meant to
\* range over.
THEOREM TypeCorrect == Spec => []TypeOK
<1>1. LifecycleTypes /\ Unforgotten /\ OwnTypes => TypeOK
  BY DEF TypeOK, LifecycleTypeOK, Unforgotten, Held
<1> QED  BY <1>1, LifecycleHolds, OwnHolds, PTL

-----------------------------------------------------------------------------
(* The two controllers implement ManagedSecrets                            *)

LEMMA Moving ==
    ASSUME NEW n \in Namespaces, ces' = ces,
           Moves(n) \/ (ces.st # "gone" /\ Children[n] = "none" /\ Becomes(n, "new"))
    PROVE  [Provisions!Next]_(Provisions!vars)
<1> USE DEF Children, WithSecret, Shown, ShownStays
<1>1. CASE Stays
  BY <1>1 DEF Stays, Provisions!vars
<1>2. CASE \/ ces.st # "gone" /\ Children[n] = "none" /\ Becomes(n, "new")
           \/ Children[n] = "leaving" /\ (n \in WithSecret => n \in overlooked) /\ Becomes(n, "none")
  BY <1>2 DEF Becomes, Provisions!Next, Provisions!Create, Provisions!Release
<1>3. CASE \/ Children[n] = "new" /\ (Takes(n) \/ Becomes(n, "none"))
           \/ Children[n] = "held" /\ Becomes(n, "leaving")
  BY <1>3 DEF Becomes, Takes, Provisions!Next, Provisions!Hold, Provisions!Leave
<1>4. CASE \/ /\ Children[n] \in {"held", "leaving"} /\ WithSecret' = WithSecret \cup {n}
              /\ Children' = Children /\ ShownStays
           \/ Erases(n) \/ Shows(n)
           \/ Children[n] # "held" /\ Removes(n)
  BY <1>4 DEF Erases, Shows, Removes, Provisions!Next, Provisions!Write, Provisions!Erase, Provisions!Show,
              Provisions!Remove
<1> QED  BY <1>1, <1>2, <1>3, <1>4 DEF Moves

\* Once it is gone the ClusterExternalSecret does not come back.
LEMMA Closing ==
    ASSUME es' = es, UNCHANGED secretVars, ces.st = "gone" => ces'.st = "gone"
    PROVE  [Provisions!Next]_(Provisions!vars)
BY DEF Provisions!Next, Provisions!vars, Provisions!Close, secretVars

LEMMA GoneStays ==
    ASSUME Guarded, Evolves
    PROVE  ces.st = "gone" => ces'.st = "gone"
BY DEF Guarded, Evolves

\* Whatever is edited, relabelled, deleted, fails or restarts: no ExternalSecret
\* is created once its ClusterExternalSecret has gone, no Secret is written
\* that no finalizer holds, and the finalizer goes only when the Secret has gone
\* or when the informer did not show it to the cleanup.
THEOREM ManagedWhileThereHolds == Spec => ManagedWhileThere
<1>1. Init => Provisions!Init
  <2> SUFFICES ASSUME Init PROVE Provisions!Init
    OBVIOUS
  <2>1. ces.st # "gone"
    BY VersionFacts DEF Init
  <2> QED  BY <2>1 DEF Init, LifecycleInit, Provisions!Init, ChildOf, Absent
<1>2. LifecycleTypes /\ Unforgotten /\ OwnTypes /\ Guarded /\ [Next]_vars => [Provisions!Next]_(Provisions!vars)
  <2> SUFFICES ASSUME LifecycleTypes, Unforgotten, OwnTypes, Guarded, [Next]_vars
               PROVE  [Provisions!Next]_(Provisions!vars)
    OBVIOUS
  <2>1. ces.st = "gone" => ces'.st = "gone"
    BY Evolution, GoneStays
  <2>2. CASE Quiet
    BY <2>1, <2>2, Closing DEF Quiet
  <2>3. ASSUME NEW n \in Namespaces, PutDeleted(n), UNCHANGED unwatched, ces' = ces
        PROVE  [Provisions!Next]_(Provisions!vars)
    BY <2>3, DeleteMoves, Moving DEF unwatched
  <2>4. ASSUME NEW n \in Namespaces, PutApplied(n), cesPc = "provision", UNCHANGED unwatched, ces' = ces
        PROVE  [Provisions!Next]_(Provisions!vars)
    <3>1. ces.st # "gone"
      BY <2>4 DEF Guarded
    <3>2. Stays \/ (Children[n] = "none" /\ Becomes(n, "new"))
      BY <2>4, ApplyMoves DEF unwatched
    <3> QED  BY <2>4, <3>1, <3>2, Moving DEF Moves
  <2>5. ASSUME NEW n \in Namespaces, LifecycleStep(n), ces' = ces
        PROVE  [Provisions!Next]_(Provisions!vars)
    BY <2>5, StepMoves, Moving DEF Unforgotten
  <2>6. ASSUME NEW n \in Namespaces, NamespaceReturns(n)
        PROVE  [Provisions!Next]_(Provisions!vars)
    BY <2>1, <2>6, Closing DEF NamespaceReturns
  <2>7. CASE RestartWith(Everywhere) /\ ces' = ces
    <3>1. Everywhere \in Scopes
      BY LifecycleAssumption
    <3> QED  BY <2>7, <3>1, RestartShows DEF Shown, WithSecret, Provisions!Next, Provisions!Restart
  <2> QED  BY <2>2, <2>3, <2>4, <2>5, <2>6, <2>7, Kinds
<1> QED  BY <1>1, <1>2, LifecycleHolds, OwnHolds, PTL DEF Spec, ManagedWhileThere, Provisions!Spec

-----------------------------------------------------------------------------
(* The ledger                                                              *)

IsLive(n) == es[n].st = "live"

\* Of the ledger a provisioning round started from, every namespace whose
\* ExternalSecret is there is still to come, done, or accounted for.
Covered ==
    cesPc = "provision" =>
        \A n \in base.ledger : n \in Namespaces /\ IsLive(n) => n \in todo \cup orphans \cup prov \cup slipped

\* The two together are inductive.
Ledger == LedgerAccounts /\ Covered

\* Only a write puts an ExternalSecret in place.
LEMMA NoNewChild ==
    ASSUME LifecycleTypes, NEW n \in Namespaces, LifecycleStep(n) \/ PutDeleted(n), NEW m \in Namespaces, IsLive(m)'
    PROVE  IsLive(m)
<1> USE DEF LifecycleTypes, IsLive
<1>1. CASE PutDeleted(n)
  BY <1>1 DEF PutDeleted, Put, Deleted, Absent
<1>2. CASE AddFinalizer(n)
  <2>1. es' = [es EXCEPT ![n] = [st |-> es[n].st, fin |-> TRUE]]
    BY <1>2 DEF AddFinalizer
  <2> QED  BY <2>1
<1>3. CASE RemoveFinalizer(n)
  BY <1>3 DEF RemoveFinalizer, Put, Absent
<1>4. CASE UNCHANGED es
  BY <1>4
<1>5. LifecycleStep(n) => UNCHANGED es \/ AddFinalizer(n) \/ RemoveFinalizer(n) \/ PutDeleted(n)
  BY DEF LifecycleStep, DeliverEs, EsRound, EsStart, DeliverSecret, Sync, WriteRefused, SkipsWrite, Clean, Conflict,
         CallFails, Poll, UserDeletes,
         NamespaceTerminates, Purge, PurgeSecret, PurgeEs, NamespaceGone
<1> QED  BY <1>1, <1>2, <1>3, <1>4, <1>5

\* Steps after which no more children are there and no account is dropped.
LEMMA LedgerStays ==
    ASSUME Ledger, \A n \in Namespaces : IsLive(n)' => IsLive(n),
           ces'.st = "live" => ces.st = "live",
           ces'.ledger = ces.ledger, cesPc' = cesPc, UNCHANGED <<base, todo, orphans, prov, slipped>>
    PROVE  Ledger'
BY DEF Ledger, LedgerAccounts, Covered, IsLive

\* The round ends without having written the ledger.
LEMMA LedgerAbandoned ==
    ASSUME Ledger, Abandon, UNCHANGED es, ces'.st = ces.st, ces'.ledger = ces.ledger
    PROVE  Ledger'
<1>1. cesPc' = "idle" /\ slipped' = slipped \cup (prov \ ces.ledger)
  BY DEF Abandon, Done
<1> QED  BY <1>1 DEF Ledger, LedgerAccounts, Covered

\* A child is deleted, has gone before, or stays and is accounted for.
LEMMA ChildDeleted ==
    ASSUME LifecycleTypes, NEW n \in Namespaces, DeleteChild(n)
    PROVE  /\ IsLive(n)' => n \in slipped'
           /\ \A m \in Namespaces : IsLive(m)' => IsLive(m)
           /\ \A m \in Namespaces \ {n} : m \in slipped => m \in slipped'
<1> USE DEF IsLive
<1>1. CASE PutDeleted(n) /\ slipped' = slipped \ {n}
  <2>1. ~IsLive(n)'
    BY <1>1 DEF PutDeleted, Put, Deleted, Absent, LifecycleTypes
  <2> QED  BY <1>1, <2>1, NoNewChild
<1>2. CASE es[n].st # "live" /\ UNCHANGED <<es, slipped>>
  BY <1>2
<1>3. CASE slipped' = slipped \cup {n} /\ UNCHANGED es
  BY <1>3
<1> QED  BY <1>1, <1>2, <1>3 DEF DeleteChild

LEMMA ProvisionLedger ==
    ASSUME LifecycleTypes, OwnTypes, Ledger, NEW n \in Namespaces, Provision(n)
    PROVE  Ledger'
<1>0. /\ cesPc = "provision" /\ UNCHANGED <<ces, cesPc, base, orphans>> /\ todo' = todo \ {n}
  BY DEF Provision
<1>1. CASE ApplyChild(n)
  <2>1. prov' = prov \cup {n} /\ slipped' = slipped /\ \A m \in Namespaces \ {n} : es'[m] = es[m]
    BY <1>1 DEF ApplyChild, PutApplied, Put, LifecycleTypes
  <2> QED  BY <1>0, <2>1 DEF Ledger, LedgerAccounts, Covered, IsLive
<1>2. CASE ApplyFails(n)
  <2>1. es' = es /\ prov' = prov /\ slipped' = slipped \cup ({n} \cap {m \in Namespaces : es[m].st = "live"})
    BY <1>2 DEF ApplyFails
  <2>2. IsLive(n) => n \in slipped'
    BY <2>1 DEF IsLive
  <2> QED  BY <1>0, <2>1, <2>2 DEF Ledger, LedgerAccounts, Covered, IsLive
<1>3. CASE LosesAccess(n) /\ n \in base.ledger
  <2>1. DeleteChild(n) /\ prov' = prov
    BY <1>3 DEF LosesAccess
  <2>2. /\ IsLive(n)' => n \in slipped'
        /\ \A m \in Namespaces : IsLive(m)' => IsLive(m)
        /\ \A m \in Namespaces \ {n} : m \in slipped => m \in slipped'
    BY <2>1, ChildDeleted
  <2> QED  BY <1>0, <2>1, <2>2 DEF Ledger, LedgerAccounts, Covered, IsLive
<1>4. CASE LosesAccess(n) /\ n \notin base.ledger
  <2>1. es' = es /\ prov' = prov /\ slipped' = slipped
    BY <1>4 DEF LosesAccess
  <2> QED  BY <1>0, <1>4, <2>1 DEF Ledger, LedgerAccounts, Covered, IsLive
<1> QED  BY <1>1, <1>2, <1>3, <1>4 DEF Provision

LEMMA RoundLedger ==
    ASSUME LifecycleTypes, OwnTypes, Guarded, Ledger, CesRound
    PROVE  Ledger'
<1> USE DEF IsLive
<1>1. CASE CesStart
  <2>1. cesPc = "idle" /\ cesPc' # "provision" /\ UNCHANGED <<es, ces, slipped>>
    BY <1>1 DEF CesStart, lifecycle, history
  <2> QED  BY <2>1 DEF Ledger, LedgerAccounts, Covered
<1>2. CASE CesAddFinalizer
  <2>1. /\ cesPc = "addfin" /\ cesPc' = "list" /\ UNCHANGED <<es, slipped>>
        /\ ces' = [ces EXCEPT !.fin = TRUE]
    BY <1>2 DEF CesAddFinalizer, lifecycle, history
  <2>2. ces'.st = ces.st /\ ces'.ledger = ces.ledger
    BY <2>1 DEF OwnTypes, Versions
  <2> QED  BY <2>1, <2>2 DEF Ledger, LedgerAccounts, Covered
<1>3. CASE List
  <2>1. /\ cesPc = "list" /\ UNCHANGED <<es, ces, base, slipped>> /\ orphans' = base.ledger \ todo'
    BY <1>3 DEF List, lifecycle
  <2> QED  BY <2>1 DEF Ledger, LedgerAccounts, Covered
<1>4. CASE WriteStatus
  <2>1. /\ cesPc = "provision" /\ todo = {} /\ orphans = {} /\ cesPc' = "idle" /\ es' = es
        /\ slipped' = (slipped \ prov) \cup (prov \ ces'.ledger)
    BY <1>4 DEF WriteStatus, Provisioned, Done, lifecycle
  <2>2. CASE ces' = ces
    BY <2>1, <2>2 DEF Ledger, LedgerAccounts, Covered
  <2>3. CASE ces = base /\ ces' = Outcome
    <3>1. ces'.ledger = prov /\ ces'.st = ces.st
      BY <2>3 DEF Outcome, OwnTypes, Versions
    <3> QED  BY <2>1, <2>3, <3>1 DEF Ledger, LedgerAccounts, Covered
  <2> QED  BY <1>4, <2>2, <2>3 DEF WriteStatus, Writable
<1>5. CASE Sweep
  <2>1. cesPc = "finalize" /\ cesPc' = "sweep" /\ UNCHANGED <<es, ces, slipped>>
    BY <1>5 DEF Sweep, history
  <2> QED  BY <2>1 DEF Ledger, LedgerAccounts, Covered
<1>6. CASE CesRemoveFinalizer
  <2>1. cesPc' = "idle" /\ ces'.st = "gone"
    BY <1>6, VersionFacts DEF CesRemoveFinalizer, Done, OwnTypes
  <2> QED  BY <2>1 DEF Ledger, LedgerAccounts, Covered
<1>7. CASE CesConflict
  <2>1. Abandon /\ ces' = ces /\ es' = es
    BY <1>7 DEF CesConflict, lifecycle
  <2> QED  BY <2>1, LedgerAbandoned
<1>8. ASSUME NEW n \in Namespaces, Provision(n) PROVE Ledger'
  BY <1>8, ProvisionLedger
<1>9. ASSUME NEW n \in Namespaces, CleanupOrphan(n) PROVE Ledger'
  <2>1. /\ DeleteChild(n) /\ UNCHANGED <<ces, cesPc, base, todo, prov>> /\ orphans' = orphans \ {n}
    BY <1>9 DEF CleanupOrphan
  <2>2. /\ IsLive(n)' => n \in slipped'
        /\ \A m \in Namespaces : IsLive(m)' => IsLive(m)
        /\ \A m \in Namespaces \ {n} : m \in slipped => m \in slipped'
    BY <2>1, ChildDeleted
  <2> QED  BY <2>1, <2>2 DEF Ledger, LedgerAccounts, Covered
<1>10. ASSUME NEW n \in Namespaces, SweepChild(n) PROVE Ledger'
  <2>1. cesPc = "sweep" /\ UNCHANGED <<ces, cesPc>>
    BY <1>10 DEF SweepChild
  <2>2. ces.st # "live"
    BY <2>1 DEF Guarded
  <2> QED  BY <2>1, <2>2 DEF Ledger, LedgerAccounts, Covered
<1>11. ASSUME NEW n \in Namespaces, Admit(n) PROVE Ledger'
  <2>1. UNCHANGED <<es, ces, cesPc, base, todo, orphans, prov, slipped>>
    BY <1>11 DEF Admit, lifecycle, history
  <2> QED  BY <2>1, LedgerStays
<1> QED  BY <1>1, <1>2, <1>3, <1>4, <1>5, <1>6, <1>7, <1>8, <1>9, <1>10, <1>11 DEF CesRound

LEMMA LedgerKept ==
    ASSUME LifecycleTypes, OwnTypes, Guarded, Ledger, [Next]_vars
    PROVE  Ledger'
<1>0. ces \in Versions
  BY DEF OwnTypes
<1>1. CASE CesRound
  BY <1>1, RoundLedger
<1>2. CASE DeliverCes \/ CesPoll
  BY <1>2, LedgerStays DEF DeliverCes, CesPoll, lifecycle, working, history, IsLive
<1>3. CASE ListFails
  <2>1. Abandon /\ es' = es
    BY <1>3 DEF ListFails
  <2>2. ces'.st = ces.st /\ ces'.ledger = ces.ledger
    <3>1. CASE ces' # ces
      <4>1. ces = base
        BY <1>3, <3>1 DEF ListFails, Writable
      <4> DEFINE failed == [base EXCEPT !.ledger = LedgerAfterListFailure, !.failed = {ClusterWide}]
      <4>2. ces' \in {failed, [failed EXCEPT !.ready = "false"]}
        BY <1>3, <3>1 DEF ListFails
      <4>3. failed \in Versions /\ failed.st = base.st /\ failed.ledger = base.ledger
        BY DEF LedgerAfterListFailure, Versions, OwnTypes
      <4> HIDE DEF failed
      <4>4. [failed EXCEPT !.ready = "false"].st = failed.st /\ [failed EXCEPT !.ready = "false"].ledger = failed.ledger
        BY <4>3 DEF Versions
      <4> QED  BY <4>1, <4>2, <4>3, <4>4
    <3> QED  BY <3>1
  <2> QED  BY <2>1, <2>2, LedgerAbandoned
<1>4. CASE CesWriteFails \/ Restart
  <2>1. Abandon /\ ces' = ces /\ es' = es
    BY <1>4 DEF CesWriteFails, Restart, RestartWith
  <2> QED  BY <2>1, LedgerAbandoned
<1>5. CASE (\E s \in Specs : EditSpec(s)) \/ DeleteCes
  <2>1. UNCHANGED <<es, cesPc, base, todo, orphans, prov, slipped>> /\ ces.st = "live"
    BY <1>5 DEF EditSpec, DeleteCes, working, history
  <2>2. ces'.ledger = ces.ledger
    <3>1. CASE \E s \in Specs : EditSpec(s)
      BY <1>0, <3>1 DEF EditSpec, Versions
    <3>2. CASE DeleteCes
      BY <1>0, <3>2 DEF DeleteCes, Gone, Versions
    <3> QED  BY <1>5, <3>1, <3>2
  <2> QED  BY <2>1, <2>2, LedgerStays DEF IsLive
<1>6. CASE (\E n \in Namespaces, l \in Labels : Relabel(n, l)) \/ (\E s \in Stores \cup {NoStore} : EditStore(s))
  <2>1. UNCHANGED <<es, ces, cesPc, base, todo, orphans, prov, slipped>>
    BY <1>6 DEF Relabel, EditStore, working, history
  <2> QED  BY <2>1, LedgerStays DEF IsLive
<1>7. ASSUME NEW n \in Namespaces, Child(n) \/ GarbageCollect(n) PROVE Ledger'
  <2>1. UNCHANGED <<ces, cesPc, base, todo, orphans, prov, slipped>>
    BY <1>7 DEF Child, GarbageCollect, ownVars
  <2>2. \A m \in Namespaces : IsLive(m)' => IsLive(m)
    BY <1>7, NoNewChild DEF Child, GarbageCollect
  <2> QED  BY <2>1, <2>2, LedgerStays
<1>8. ASSUME NEW n \in Namespaces, Returns(n) \/ DeliverNamespace(n) \/ DropNamespace(n) PROVE Ledger'
  <2>1. UNCHANGED <<es, ces, cesPc, base, todo, orphans, prov, slipped>>
    BY <1>8 DEF Returns, NamespaceReturns, DeliverNamespace, DropNamespace, lifecycle, ownVars, working, history
  <2> QED  BY <2>1, LedgerStays DEF IsLive
<1>9. CASE UNCHANGED vars
  BY <1>9, LedgerStays DEF vars, lifecycle, ownVars, IsLive
<1> QED  BY <1>1, <1>2, <1>3, <1>4, <1>5, <1>6, <1>7, <1>8, <1>9 DEF Next, Users

\* While the ClusterExternalSecret is there, no ExternalSecret it has put in a
\* namespace is forgotten by its status, but through a failed call, a round that
\* was cut short, or a status that was not written.
THEOREM LedgerAccountsHolds == Spec => []LedgerAccounts
<1>1. Init => Ledger
  BY DEF Init, LifecycleInit, Absent, Ledger, LedgerAccounts, Covered
<1>2. Ledger => LedgerAccounts
  BY DEF Ledger
<1> QED  BY <1>1, <1>2, LedgerKept, LifecycleHolds, OwnHolds, PTL DEF Spec
-----------------------------------------------------------------------------
(* The status when nothing is left to do                                   *)

\* The status of c is that of a round over these copies of the namespaces.
Exact(c, views) ==
    LET selected == Matching(c.spec, views)
    IN  /\ c.ledger \subseteq selected /\ selected \subseteq c.ledger \cup c.failed
        /\ c.ledger \cap c.failed = {}
        /\ c.ready = Ready(c.failed)

SameStatus(c, d) == c.ledger = d.ledger /\ c.failed = d.failed /\ c.ready = d.ready
\* Versions that differ at most in the finalizer, which makes no event.
SameBut(c, d) == c.st = d.st /\ c.spec = d.spec /\ SameStatus(c, d)

\* With nothing queued the last status fits the copies it was made from, or
\* the informer is yet to show one that queues a round, or an event was dropped.
AtRest ==
    cesPc = "idle" /\ ~cesQ /\ ~missed /\ cesSeen.st = "live" =>
        Exact(cesSeen, nsSeen) \/ ~SameStatus(ces, cesSeen) \/ ces.st # "live"

\* A round nothing is queued behind works on what the informer shows.
RoundCurrent ==
    cesPc \in {"addfin", "list", "provision"} /\ ~cesQ => cesSeen.st = "live" /\ SameBut(cesSeen, base)

\* What a round has done and has still to do are the selected namespaces.
SortedOver(selected) == todo \cup prov \subseteq selected /\ selected \subseteq todo \cup prov \cup fail
Sorted ==
    /\ cesPc # "provision" => prov = {}
    /\ cesPc = "provision" => /\ prov \cap fail = {} /\ todo \cap (prov \cup fail) = {}
                              /\ ~cesQ /\ ~missed => SortedOver(Matching(base.spec, nsSeen))

\* The three together are inductive.
ExactInv == AtRest /\ RoundCurrent /\ Sorted

LEMMA OnlyTheFinalizer ==
    ASSUME NEW c \in Versions, NEW d \in Versions
    PROVE  c = [d EXCEPT !.fin = c.fin] <=> SameBut(c, d)
BY DEF Versions, SameBut, SameStatus

LEMMA SameExact ==
    ASSUME NEW c, NEW d, SameBut(c, d), NEW views, Exact(d, views)
    PROVE  Exact(c, views)
BY DEF SameBut, SameStatus, Exact

\* A change of a namespace that is not mapped to the object changes nothing of
\* what it selects.
LEMMA NotMapped ==
    ASSUME OwnTypes, NEW n \in Namespaces, nsSeen' = [nsSeen EXCEPT ![n] = View[n]], ~Asked(n), cesSeen.st # "gone"
    PROVE  Matching(cesSeen.spec, nsSeen') = Matching(cesSeen.spec, nsSeen)
<1>1. nsSeen'[n] = View[n] /\ \A m \in Namespaces \ {n} : nsSeen'[m] = nsSeen[m]
  BY DEF OwnTypes
<1>2. /\ ~(nsSeen[n] # Nowhere /\ Allowed(cesSeen.spec, n, nsSeen[n]))
      /\ ~(View[n] # Nowhere /\ Allowed(cesSeen.spec, n, View[n]))
  BY DEF Asked, MapNamespaceToCES
<1> HIDE DEF Allowed
<1> QED  BY <1>1, <1>2 DEF Matching

LEMMA ExactStays ==
    ASSUME ExactInv, UNCHANGED <<cesSeen, nsSeen, cesPc, base, todo, prov, fail, missed>>, cesQ' \in {cesQ, TRUE},
           ces'.st # "live" \/ (ces'.st = ces.st /\ SameStatus(ces', ces))
    PROVE  ExactInv'
BY DEF ExactInv, AtRest, RoundCurrent, Sorted, SortedOver, SameStatus

LEMMA ExactOver ==
    ASSUME Done, cesQ' \/ cesSeen'.st # "live"
    PROVE  ExactInv'
BY DEF Done, ExactInv, AtRest, RoundCurrent, Sorted

LEMMA ProvisionExact ==
    ASSUME OwnTypes, ExactInv, NEW n \in Namespaces, Provision(n)
    PROVE  ExactInv'
<1>1. /\ cesPc = "provision" /\ n \in todo /\ todo' = todo \ {n}
      /\ UNCHANGED <<nsSeen, ces, cesSeen, cesQ, cesPc, base, missed>>
  BY DEF Provision
<1>2. \/ prov' = prov \cup {n} /\ fail' = fail
      \/ prov' = prov /\ fail' = fail \cup {n}
  BY DEF Provision, ApplyChild, ApplyFails, LosesAccess
<1>3. prov' \cap fail' = {} /\ todo' \cap (prov' \cup fail') = {}
  BY <1>1, <1>2 DEF ExactInv, Sorted
<1>4. ASSUME NEW selected, SortedOver(selected) PROVE SortedOver(selected)'
  BY <1>1, <1>2, <1>4 DEF SortedOver
<1>5. Sorted'
  BY <1>1, <1>3, <1>4 DEF ExactInv, Sorted
<1> QED  BY <1>1, <1>5 DEF ExactInv, AtRest, RoundCurrent

LEMMA ListExact ==
    ASSUME OwnTypes, ExactInv, List
    PROVE  ExactInv'
<1>1. /\ cesPc = "list" /\ cesPc' = "provision" /\ prov' = {}
      /\ UNCHANGED <<nsSeen, ces, cesSeen, cesQ, base>>
      /\ todo' = Matching(base.spec, nsSeen)
  BY DEF List, ExactInv, Sorted
<1>2. todo' \cap fail' = {}
  BY DEF List
<1>3. Sorted'
  BY <1>1, <1>2 DEF Sorted, SortedOver
<1> QED  BY <1>1, <1>3 DEF ExactInv, AtRest, RoundCurrent

\* The status a round leaves, written or found as it was, is exact.
LEMMA WriteExact ==
    ASSUME OwnTypes, ExactInv, WriteStatus
    PROVE  ExactInv'
<1>1. /\ cesPc = "provision" /\ todo = {} /\ Done
      /\ UNCHANGED <<nsSeen, cesSeen, cesQ, missed>>
  BY DEF WriteStatus, Provisioned
<1>2. SUFFICES ASSUME ~cesQ, ~missed PROVE AtRest'
  BY <1>1 DEF ExactInv, AtRest, RoundCurrent, Sorted, Done
<1>3. cesSeen.st = "live" /\ SameBut(cesSeen, base)
  BY <1>1, <1>2 DEF ExactInv, RoundCurrent
<1>4. /\ Outcome.st = base.st /\ Outcome.fin = base.fin /\ Outcome.spec = base.spec
      /\ Outcome.ledger = prov /\ Outcome.failed = fail /\ Outcome.ready = Ready(fail)
  BY DEF Outcome, OwnTypes, Versions
<1>5. Exact(Outcome, nsSeen)
  BY <1>1, <1>2, <1>4 DEF ExactInv, Sorted, SortedOver, Exact
<1>6. CASE StatusChanged
  <2>1. ces' = Outcome /\ Outcome # base
    BY <1>6 DEF WriteStatus, StatusChanged
  <2>2. ~SameStatus(Outcome, base)
    <3>1. base = [base EXCEPT !.ledger = base.ledger, !.failed = base.failed, !.ready = base.ready]
      BY DEF OwnTypes, Versions
    <3> QED  BY <2>1, <3>1, <1>4 DEF Outcome, SameStatus
  <2> QED  BY <1>1, <1>3, <2>1, <2>2 DEF AtRest, SameBut, SameStatus
<1>7. CASE ~StatusChanged
  <2>1. Outcome = base
    BY <1>7 DEF StatusChanged
  <2>2. Exact(cesSeen, nsSeen)
    BY <1>3, <1>5, <2>1, SameExact
  <2> QED  BY <1>1, <2>2 DEF AtRest
<1> QED  BY <1>6, <1>7

LEMMA DeliverExact ==
    ASSUME OwnTypes, Guarded, ExactInv, DeliverCes
    PROVE  ExactInv'
<1>1. /\ cesSeen' = ces /\ cesQ' = (cesQ \/ ChangeMatters(cesSeen, ces))
      /\ UNCHANGED <<nsSeen, ces, cesPc, base, todo, prov, fail, missed>>
  BY DEF DeliverCes, working, history
<1>2. CASE cesQ'
  BY <1>1, <1>2 DEF ExactInv, AtRest, RoundCurrent, Sorted
<1>3. CASE ~cesQ'
  <2>1. ~cesQ /\ ces.st = "live" /\ ces = [cesSeen EXCEPT !.fin = ces.fin]
    BY <1>1, <1>3 DEF ChangeMatters, OwnTypes
  <2>2. SameBut(ces, cesSeen)
    BY <2>1, OnlyTheFinalizer DEF OwnTypes
  <2>3. AtRest'
    BY <1>1, <2>1, <2>2, SameExact DEF ExactInv, AtRest, SameBut
  <2>4. RoundCurrent'
    BY <1>1, <2>1, <2>2 DEF ExactInv, RoundCurrent, SameBut, SameStatus
  <2>5. Sorted'
    BY <1>1, <2>1 DEF ExactInv, Sorted, SortedOver
  <2> QED  BY <2>3, <2>4, <2>5 DEF ExactInv
<1> QED  BY <1>2, <1>3

LEMMA NamespaceExact ==
    ASSUME OwnTypes, ExactInv, NEW n \in Namespaces, DeliverNamespace(n) \/ DropNamespace(n)
    PROVE  ExactInv'
<1>1. /\ UNCHANGED <<ces, cesSeen, cesPc, base, todo, prov, fail>>
      /\ nsSeen' = [nsSeen EXCEPT ![n] = View[n]]
      /\ \/ cesQ' = (cesQ \/ Asked(n)) /\ missed' = missed
         \/ cesQ' = cesQ /\ missed' = (missed \/ Asked(n))
  BY DEF DeliverNamespace, DropNamespace, working, history
<1>2. CASE cesQ' \/ missed'
  <2>1. cesQ => cesQ'
    BY <1>1
  <2>2. AtRest'
    BY <1>2 DEF AtRest
  <2>3. RoundCurrent'
    BY <1>1, <2>1 DEF ExactInv, RoundCurrent
  <2>4. Sorted'
    <3>1. /\ cesPc' # "provision" => prov' = {}
          /\ cesPc' = "provision" => prov' \cap fail' = {} /\ todo' \cap (prov' \cup fail') = {}
      BY <1>1 DEF ExactInv, Sorted
    <3> QED  BY <1>2, <3>1 DEF Sorted
  <2> QED  BY <2>2, <2>3, <2>4 DEF ExactInv
<1>3. CASE ~cesQ' /\ ~missed'
  <2>1. ~cesQ /\ ~missed /\ ~Asked(n)
    BY <1>1, <1>3 DEF OwnTypes
  <2>2. cesSeen.st = "live" => Matching(cesSeen.spec, nsSeen') = Matching(cesSeen.spec, nsSeen)
    BY <1>1, <2>1, NotMapped
  <2>3. AtRest'
    BY <1>1, <2>1, <2>2 DEF ExactInv, AtRest, Exact
  <2>4. RoundCurrent'
    BY <1>1, <2>1 DEF ExactInv, RoundCurrent
  <2>5. Sorted'
    BY <1>1, <2>1, <2>2 DEF ExactInv, RoundCurrent, SameBut, Sorted, SortedOver
  <2> QED  BY <2>3, <2>4, <2>5 DEF ExactInv
<1> QED  BY <1>2, <1>3

LEMMA StartExact ==
    ASSUME OwnTypes, ExactInv, CesStart
    PROVE  ExactInv'
<1>1. /\ cesPc = "idle" /\ prov = {} /\ UNCHANGED <<ces, cesSeen, prov>>
  BY DEF CesStart, ExactInv, Sorted
<1>2. \/ cesSeen.st = "live" /\ cesPc' \in {"addfin", "list"} /\ base' = cesSeen
      \/ cesPc' = "finalize"
      \/ cesSeen.st = "gone" /\ cesPc' = cesPc
  BY DEF CesStart
<1> QED  BY <1>1, <1>2 DEF ExactInv, AtRest, RoundCurrent, Sorted, SameBut, SameStatus

LEMMA ExactKept ==
    ASSUME OwnTypes, Guarded, ExactInv, [Next]_vars
    PROVE  ExactInv'
<1>0. ces \in Versions
  BY DEF OwnTypes
<1>1. CASE CesStart
  BY <1>1, StartExact
<1>2. CASE CesAddFinalizer
  <2>1. /\ cesPc = "addfin" /\ cesPc' = "list" /\ UNCHANGED <<cesSeen, cesQ, prov>>
        /\ ces = base /\ base' = [ces EXCEPT !.fin = TRUE]
    BY <1>2 DEF CesAddFinalizer, Writable
  <2>2. SameBut(base', base)
    BY <1>0, <2>1 DEF Versions, SameBut, SameStatus
  <2> QED  BY <2>1, <2>2 DEF ExactInv, AtRest, RoundCurrent, Sorted, SameBut, SameStatus
<1>3. CASE List
  BY <1>3, ListExact
<1>4. CASE WriteStatus
  BY <1>4, WriteExact
<1>5. CASE Sweep \/ \E n \in Namespaces : SweepChild(n)
  <2>1. cesPc # "provision" /\ cesPc' = "sweep" /\ prov' = prov
    BY <1>5 DEF Sweep, SweepChild
  <2> QED  BY <2>1 DEF ExactInv, AtRest, RoundCurrent, Sorted
<1>6. CASE CesRemoveFinalizer
  <2>1. Done /\ cesSeen' = cesSeen /\ cesSeen.st # "live"
    BY <1>6 DEF CesRemoveFinalizer, Guarded
  <2> QED  BY <2>1, ExactOver
<1>7. CASE CesConflict \/ ListFails \/ CesWriteFails
  BY <1>7, ExactOver DEF CesConflict, ListFails, CesWriteFails, Abandon
<1>8. CASE Restart
  <2>1. Done /\ cesSeen' = ces /\ cesQ' = (ces.st # "gone")
    BY <1>8 DEF Restart, Abandon
  <2> QED  BY <2>1, ExactOver
<1>9. ASSUME NEW n \in Namespaces, Provision(n) PROVE ExactInv'
  BY <1>9, ProvisionExact
<1>10. ASSUME NEW n \in Namespaces, Admit(n) \/ CleanupOrphan(n) PROVE ExactInv'
  BY <1>10, ExactStays DEF Admit, CleanupOrphan, history, SameStatus
<1>11. CASE DeliverCes
  BY <1>11, DeliverExact
<1>12. ASSUME NEW n \in Namespaces, DeliverNamespace(n) \/ DropNamespace(n) PROVE ExactInv'
  BY <1>12, NamespaceExact
<1>13. CASE CesPoll
  BY <1>13, ExactStays DEF CesPoll, working, history, SameStatus
<1>14. CASE (\E s \in Specs : EditSpec(s)) \/ DeleteCes
  <2>1. UNCHANGED <<nsSeen, cesSeen, cesQ, cesPc, base, todo, prov, fail, missed>>
    BY <1>14 DEF EditSpec, DeleteCes, working, history
  <2>2. ces'.st # "live" \/ (ces'.st = ces.st /\ SameStatus(ces', ces))
    <3>1. CASE \E s \in Specs : EditSpec(s)
      BY <1>0, <3>1 DEF EditSpec, Versions, SameStatus
    <3>2. CASE DeleteCes
      BY <1>0, <3>2, VersionChanges, VersionFacts DEF DeleteCes
    <3> QED  BY <1>14, <3>1, <3>2
  <2> QED  BY <2>1, <2>2, ExactStays
<1>15. ASSUME NEW n \in Namespaces, Child(n) \/ Returns(n) \/ GarbageCollect(n) \/ (\E l \in Labels : Relabel(n, l))
       PROVE  ExactInv'
  BY <1>15, ExactStays DEF Child, Returns, GarbageCollect, Relabel, ownVars, working, history, SameStatus
<1>16. CASE (\E s \in Stores \cup {NoStore} : EditStore(s)) \/ UNCHANGED vars
  BY <1>16, ExactStays DEF EditStore, working, history, vars, ownVars, SameStatus
<1> QED
  BY <1>1, <1>2, <1>3, <1>4, <1>5, <1>6, <1>7, <1>8, <1>9, <1>10, <1>11, <1>12, <1>13, <1>14, <1>15, <1>16
     DEF Next, CesRound, Users

\* When no event is on its way and no round is queued or running, the status
\* speaks of exactly the namespaces that are selected: whatever was edited,
\* relabelled, deleted, created again, failed or restarted, in any order, with
\* or without polling, unless mapNamespaceToCES has dropped a namespace event
\* since the namespaces were last listed.
THEOREM StatusExactHolds == Spec => []StatusExact
<1>1. Init => ExactInv
  BY DEF Init, ExactInv, AtRest, RoundCurrent, Sorted
<1>2. ExactInv => StatusExact
  BY DEF ExactInv, AtRest, Exact, SameStatus, StatusExact, Settled
<1> QED  BY <1>1, <1>2, ExactKept, OwnHolds, PTL DEF Spec
=============================================================================
