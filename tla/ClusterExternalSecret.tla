----------------------- MODULE ClusterExternalSecret -----------------------
(***************************************************************************)
(* One ClusterExternalSecret (pkg/controller/clusterexternalsecret): it    *)
(* selects namespaces, keeps an ExternalSecret in each one that may use    *)
(* the ClusterSecretStore, records in its status where it has put one, and *)
(* takes them away again.  The ExternalSecrets live as in                  *)
(* ExternalSecretLifecycle; the controller of this module neither watches  *)
(* nor lists them, its status is all it knows of them.                     *)
(***************************************************************************)
EXTENDS ExternalSecretLifecycle, Sequences

CONSTANTS
    Labels,   \* what namespaces are labelled with
    Specs,    \* the selections the user switches between
    Stores    \* the access rules the ClusterSecretStore switches between

(***************************************************************************)
(* A selection or an access rule is the sequence of its checks in the      *)
(* order the code makes them: label selector, then names, then regular     *)
(* expressions of each condition.  A check matches labels or names; a bad  *)
(* one cannot be evaluated.                                                *)
(***************************************************************************)
Check == [bad : BOOLEAN, labels : SUBSET Labels, names : SUBSET Namespaces]
NoStore == <<[bad |-> TRUE, labels |-> {}, names |-> {}]>>   \* one that is missing, like one that cannot be read, admits nobody
Nowhere == "gone"      \* a namespace that is not there

ASSUME SelectionAssumption ==
    /\ Specs # {} /\ \A s \in Specs : s \in Seq(Check)
    /\ \A s \in Stores : s \in Seq(Check)
    /\ Nowhere \notin Labels

VARIABLES
    label,    \* labels of each namespace
    nsSeen,   \* the informer's copies of the namespaces
    store,    \* the ClusterSecretStore's access rule, or NoStore
    ces,      \* the ClusterExternalSecret at the API server
    cesSeen,  \* the informer's copy
    cesQ,     \* is it in the work queue?
    cesPc,    \* the step its round is at
    base,     \* the version the round works on
    todo,     \* namespaces the round has still to provision or delete in
    orphans,  \* namespaces of the ledger that are no longer selected
    prov, fail, \* what becomes of the ledgers
    admitted, \* the namespace that has passed the first of two access checks
    slipped,  \* history: children the ledger lost to a failed call, a failed round or an old copy
    missed    \* history: was a namespace event dropped since the last listing?

ownVars   == <<label, nsSeen, store, ces, cesSeen, cesQ, cesPc, base, todo, orphans, prov, fail, admitted, slipped, missed>>
working   == <<base, todo, orphans, prov, fail, admitted>>
history   == <<slipped, missed>>
unwatched == <<scope, ns, esSeen, esQ, esPc, secretVars>>   \* what a call on a child leaves alone
vars      == <<lifecycle, ownVars>>

-----------------------------------------------------------------------------
(* Selection (IsNamespaceAllowedForClusterExternalSecret and               *)
(* IsNamespaceAllowedForClusterSecretStore).                               *)

\* The first check that matches decides, unless one before it is bad.
Allowed(checks, n, l) ==
    \/ checks = <<>>
    \/ \E i \in DOMAIN checks :
          /\ l \in checks[i].labels \/ n \in checks[i].names
          /\ \A j \in 1..i : ~checks[j].bad

\* getMatchingNamespaces, over what is in the list.
Matching(spec, views) == {n \in Namespaces : views[n] # Nowhere /\ Allowed(spec, n, views[n])}

\* validateSecretStoreAccess
Accessible(n) == Allowed(store, n, nsSeen[n])

View == [n \in Namespaces |-> IF ns[n] = "gone" THEN Nowhere ELSE label[n]]

-----------------------------------------------------------------------------
(* The object, its events and its status                                   *)

ClusterWide == "<cluster-wide>"   \* the namespace of a failure without one

New(spec) == [st |-> "live", fin |-> FALSE, spec |-> spec, ledger |-> {}, failed |-> {}, ready |-> "unknown"]
Gone(c) == [c EXCEPT !.st = "gone", !.fin = FALSE]

\* ClusterExternalSecretPredicate: only a new finalizer on a live object
\* makes no event (the pointers of two deletion timestamps always differ).
ChangeMatters(old, new) == new.st # "live" \/ new # [old EXCEPT !.fin = new.fin]

DeliverCes ==
    /\ cesSeen # ces
    /\ cesSeen' = ces
    /\ cesQ' = (cesQ \/ ChangeMatters(cesSeen, ces))
    /\ UNCHANGED <<lifecycle, label, nsSeen, store, ces, cesPc, working, history>>

\* NamespaceWatchPredicate and mapNamespaceToCES: an update is mapped for the
\* old and for the new object.
MapsNewOnly(old, new, n) == new # Nowhere /\ Allowed(cesSeen.spec, n, new)
MapNamespaceToCES(old, new, n) ==
    \E l \in {old, new} \ {Nowhere} : Allowed(cesSeen.spec, n, l)

Asked(n) == cesSeen.st # "gone" /\ MapNamespaceToCES(nsSeen[n], View[n], n)
DeliverNamespace(n) ==
    /\ nsSeen[n] # View[n]
    /\ nsSeen' = [nsSeen EXCEPT ![n] = View[n]]
    /\ cesQ' = (cesQ \/ Asked(n))
    /\ UNCHANGED <<lifecycle, label, store, ces, cesSeen, cesPc, working, history>>

\* The list of ClusterExternalSecrets fails: the event is logged and dropped.
DropNamespace(n) ==
    /\ nsSeen[n] # View[n] /\ Fault
    /\ nsSeen' = [nsSeen EXCEPT ![n] = View[n]]
    /\ missed' = (missed \/ Asked(n))
    /\ UNCHANGED <<unwatched, es, esCurrent, esRv, events, label, store, ces, cesSeen, cesQ, cesPc, working, slipped>>

\* An update carries the resourceVersion of the version the round works on.
Writable == ces = base

\* The end of a round.  One that does not get through is tried again, and what
\* it has put in a namespace is then in no ledger.
NoRound == New(<<>>)
Done ==
    /\ cesPc' = "idle"
    /\ base' = NoRound /\ todo' = {} /\ orphans' = {} /\ prov' = {} /\ fail' = {} /\ admitted' = {}
Abandon ==
    /\ Done
    /\ slipped' = slipped \cup (prov \ ces.ledger)

-----------------------------------------------------------------------------
(* Reconcile                                                               *)

CesStart ==
    /\ cesQ /\ cesPc = "idle"
    /\ cesQ' = FALSE
    /\ \/ cesSeen.st = "live" /\ cesPc' = (IF cesSeen.fin THEN "list" ELSE "addfin") /\ base' = cesSeen
       \/ cesSeen.st = "term" /\ cesPc' = "finalize" /\ base' = cesSeen
       \/ cesSeen.st = "gone" /\ UNCHANGED <<cesPc, base>>
    /\ UNCHANGED <<lifecycle, label, nsSeen, store, ces, cesSeen, todo, orphans, prov, fail, admitted, history>>

CesAddFinalizer ==
    /\ cesPc = "addfin" /\ Writable
    /\ ces' = [ces EXCEPT !.fin = TRUE] /\ base' = ces'
    /\ cesPc' = "list"
    /\ UNCHANGED <<lifecycle, label, nsSeen, store, cesSeen, cesQ, todo, orphans, prov, fail, admitted, history>>

\* handleNoMatchingNamespaces: the namespaces there are, or the cluster.
NoMatch(views) ==
    LET there == {n \in Namespaces : views[n] # Nowhere}
    IN  IF there = {} THEN {ClusterWide} ELSE there

List ==
    /\ cesPc = "list"
    /\ todo' = Matching(base.spec, nsSeen)
    /\ orphans' = base.ledger \ todo'
    /\ fail' = IF todo' = {} THEN NoMatch(nsSeen) ELSE {}
    /\ cesPc' = "provision"
    /\ missed' = FALSE
    /\ UNCHANGED <<lifecycle, label, nsSeen, store, ces, cesSeen, cesQ, base, prov, admitted, slipped>>

\* The list fails: the ledger stays.  Two best-effort status writes, the first
\* without the condition.
LedgerWiped == {}
LedgerAfterListFailure == base.ledger
ListFails ==
    /\ cesPc = "list" /\ Fault
    /\ LET failed == [base EXCEPT !.ledger = LedgerAfterListFailure, !.failed = {ClusterWide}]
       IN  \/ UNCHANGED ces
           \/ Writable /\ ces' \in {failed, [failed EXCEPT !.ready = "false"]}
    /\ Abandon /\ cesQ' = TRUE
    /\ UNCHANGED <<unwatched, es, esCurrent, esRv, events, label, nsSeen, store, cesSeen, missed>>

\* deleteExternalSecret; a failure is only logged.
DeleteChild(n) ==
    \/ PutDeleted(n) /\ slipped' = slipped \ {n} /\ UNCHANGED faults
    \/ es[n].st # "live" /\ UNCHANGED <<es, esCurrent, esRv, faults, slipped>>
    \/ Fault /\ slipped' = slipped \cup {n} /\ UNCHANGED <<es, esCurrent, esRv>>

\* createOrUpdateExternalSecret: the store is asked once more, and may have
\* changed since.
Admit(n) ==
    /\ cesPc = "provision" /\ n \in todo /\ admitted = {}
    /\ Accessible(n)
    /\ admitted' = {n}
    /\ UNCHANGED <<lifecycle, label, nsSeen, store, ces, cesSeen, cesQ, cesPc, base, todo, orphans, prov, fail, history>>

ApplyChild(n) ==
    /\ Accessible(n) /\ Appliable(n) /\ PutApplied(n)
    /\ prov' = prov \cup {n}
    /\ UNCHANGED <<fail, faults, slipped>>

ApplyFails(n) ==
    /\ \/ ~(Accessible(n) /\ Appliable(n)) /\ UNCHANGED faults
       \/ Fault
    /\ fail' = fail \cup {n}
    /\ slipped' = slipped \cup ({n} \cap {m \in Namespaces : es[m].st = "live"})
    /\ UNCHANGED <<es, esCurrent, esRv, prov>>

LosesAccess(n) ==
    /\ ~Accessible(n)
    /\ fail' = fail \cup {n}
    /\ IF n \in base.ledger THEN DeleteChild(n) ELSE UNCHANGED <<es, esCurrent, esRv, faults, slipped>>
    /\ UNCHANGED prov

Provision(n) ==
    /\ cesPc = "provision" /\ n \in todo
    /\ todo' = todo \ {n} /\ admitted' = {}
    /\ \/ admitted = {n} /\ (ApplyChild(n) \/ ApplyFails(n))
       \/ admitted = {} /\ LosesAccess(n)
    /\ UNCHANGED <<unwatched, events, label, nsSeen, store, ces, cesSeen, cesQ, cesPc, base, orphans, missed>>

CleanupOrphan(n) ==
    /\ cesPc = "provision" /\ todo = {} /\ n \in orphans
    /\ orphans' = orphans \ {n}
    /\ DeleteChild(n)
    /\ UNCHANGED <<unwatched, events, label, nsSeen, store, ces, cesSeen, cesQ, cesPc, base, todo, prov, fail, admitted, missed>>

\* updateStatusIfNeeded compares with the snapshot taken before the ledgers
\* were rebuilt.
Ready(failures) == IF failures = {} THEN "true" ELSE "false"
Outcome == [base EXCEPT !.ledger = prov, !.failed = fail, !.ready = Ready(fail)]
ConditionChanged == Outcome.ready # base.ready
StatusChanged == Outcome # base

Provisioned == cesPc = "provision" /\ todo = {} /\ orphans = {}

WriteStatus ==
    /\ Provisioned
    /\ StatusChanged => Writable
    /\ ces' = IF StatusChanged THEN Outcome ELSE ces
    /\ slipped' = (slipped \ prov) \cup (prov \ ces'.ledger)
    /\ Done
    /\ UNCHANGED <<lifecycle, label, nsSeen, store, cesSeen, cesQ, missed>>

\* handleDeletion: the ledger, then every other namespace that matches now
\* (not when the list fails).
Sweep ==
    /\ cesPc = "finalize"
    /\ \/ todo' = base.ledger \cup Matching(base.spec, nsSeen) /\ UNCHANGED faults
       \/ todo' = base.ledger /\ Fault
    /\ cesPc' = "sweep"
    /\ UNCHANGED <<unwatched, es, esCurrent, esRv, events,
                   label, nsSeen, store, ces, cesSeen, cesQ, base, orphans, prov, fail, admitted, history>>

SweepChild(n) ==
    /\ cesPc = "sweep" /\ n \in todo
    /\ todo' = todo \ {n}
    /\ DeleteChild(n)
    /\ UNCHANGED <<unwatched, events, label, nsSeen, store, ces, cesSeen, cesQ, cesPc, base, orphans, prov, fail, admitted, missed>>

CesRemoveFinalizer ==
    /\ cesPc = "sweep" /\ todo = {} /\ Writable
    /\ ces' = Gone(ces)
    /\ Done
    /\ UNCHANGED <<lifecycle, label, nsSeen, store, cesSeen, cesQ, history>>

\* A write of the object or of its status is refused or fails.
Writing == cesPc = "addfin" \/ (cesPc = "sweep" /\ todo = {}) \/ (Provisioned /\ StatusChanged)
CesConflict ==
    /\ Writing /\ ~Writable
    /\ Abandon /\ cesQ' = TRUE
    /\ UNCHANGED <<lifecycle, label, nsSeen, store, ces, cesSeen, missed>>
CesWriteFails ==
    /\ Writing /\ Fault
    /\ Abandon /\ cesQ' = TRUE
    /\ UNCHANGED <<unwatched, es, esCurrent, esRv, events, label, nsSeen, store, ces, cesSeen, missed>>

PollsFailedOnly ==
    /\ Polling /\ cesPc = "idle" /\ ~cesQ /\ cesSeen.st = "live" /\ cesSeen.ready # "true"
    /\ cesQ' = TRUE
    /\ UNCHANGED <<lifecycle, label, nsSeen, store, ces, cesSeen, cesPc, working, history>>
CesPoll ==
    /\ Polling /\ cesPc = "idle" /\ ~cesQ /\ cesSeen.st = "live"
    /\ cesQ' = TRUE
    /\ UNCHANGED <<lifecycle, label, nsSeen, store, ces, cesSeen, cesPc, working, history>>

CesRound ==
    \/ CesStart \/ CesAddFinalizer \/ List \/ WriteStatus \/ Sweep \/ CesRemoveFinalizer \/ CesConflict
    \/ \E n \in Namespaces : Admit(n) \/ Provision(n) \/ CleanupOrphan(n) \/ SweepChild(n)

-----------------------------------------------------------------------------
(* The environment                                                         *)

\* Kubernetes deletes what an absent owner is the controller of.
GarbageCollect(n) ==
    /\ ces.st = "gone" /\ PutDeleted(n)
    /\ UNCHANGED <<unwatched, bounds, ownVars>>

EditSpec(s) ==
    /\ Event
    /\ ces.st = "live" /\ s # ces.spec
    /\ ces' = [ces EXCEPT !.spec = s]
    /\ UNCHANGED <<process, ns, es, secretVars, faults, label, nsSeen, store, cesSeen, cesQ, cesPc, working, history>>

DeleteCes ==
    /\ Event
    /\ ces.st = "live"
    /\ ces' = IF ces.fin THEN [ces EXCEPT !.st = "term"] ELSE Gone(ces)
    /\ UNCHANGED <<process, ns, es, secretVars, faults, label, nsSeen, store, cesSeen, cesQ, cesPc, working, history>>

Relabel(n, l) ==
    /\ Event
    /\ ns[n] # "gone" /\ l # label[n]
    /\ label' = [label EXCEPT ![n] = l]
    /\ UNCHANGED <<process, ns, es, secretVars, faults, nsSeen, store, ces, cesSeen, cesQ, cesPc, working, history>>

EditStore(s) ==
    /\ Event
    /\ s # store /\ store' = s
    /\ UNCHANGED <<process, ns, es, secretVars, faults, label, nsSeen, ces, cesSeen, cesQ, cesPc, working, history>>

\* The flags of one deployment: this controller runs without a scope only.
Restart ==
    /\ RestartWith(Everywhere)
    /\ cesSeen' = ces /\ nsSeen' = View
    /\ cesQ' = (ces.st # "gone")
    /\ Abandon
    /\ UNCHANGED <<label, store, ces, missed>>

Child(n) == LifecycleStep(n) /\ UNCHANGED ownVars

\* A namespace comes back only after its deletion was seen.
Returns(n) == nsSeen[n] = Nowhere /\ NamespaceReturns(n) /\ UNCHANGED ownVars

-----------------------------------------------------------------------------
Init ==
    /\ LifecycleInit
    /\ label \in [Namespaces -> Labels] /\ nsSeen = View
    /\ store \in Stores
    /\ \E s \in Specs : ces = New(s) /\ cesSeen = New(s)
    /\ cesQ = TRUE /\ cesPc = "idle"
    /\ base = NoRound /\ todo = {} /\ orphans = {} /\ prov = {} /\ fail = {}
    /\ admitted = {} /\ slipped = {} /\ missed = FALSE

Users ==
    \/ \E s \in Specs : EditSpec(s)
    \/ DeleteCes
    \/ \E n \in Namespaces, l \in Labels : Relabel(n, l)
    \/ \E s \in Stores \cup {NoStore} : EditStore(s)

Next ==
    \/ CesRound \/ DeliverCes \/ CesPoll \/ ListFails \/ CesWriteFails \/ Restart \/ Users
    \/ \E n \in Namespaces : Child(n) \/ Returns(n) \/ DeliverNamespace(n) \/ DropNamespace(n) \/ GarbageCollect(n)

Spec == Init /\ [][Next]_vars

\* Workers take what is queued, informers deliver, polling comes round, and
\* Kubernetes empties what is to go.
Fairness ==
    /\ WF_vars(CesRound) /\ WF_vars(DeliverCes) /\ WF_vars(CesPoll)
    /\ \A n \in Namespaces :
          /\ WF_vars(EsRound(n) /\ UNCHANGED ownVars) /\ WF_vars(DeliverEs(n) /\ UNCHANGED ownVars)
          /\ WF_vars(DeliverSecret(n) /\ UNCHANGED ownVars)
          /\ WF_vars(Purge(n) /\ UNCHANGED ownVars)
          /\ WF_vars(DeliverNamespace(n)) /\ WF_vars(GarbageCollect(n))
FairSpec == Spec /\ Fairness

-----------------------------------------------------------------------------
(* Properties                                                              *)

Versions == [
    st     : {"live", "term", "gone"},
    fin    : BOOLEAN,
    spec   : Specs \cup {<<>>},
    ledger : SUBSET Namespaces,
    failed : SUBSET (Namespaces \cup {ClusterWide}),
    ready  : {"unknown", "true", "false"} ]

OwnTypes ==
    /\ label \in [Namespaces -> Labels] /\ nsSeen \in [Namespaces -> Labels \cup {Nowhere}]
    /\ store \in Stores \cup {NoStore}
    /\ {ces, cesSeen, base} \subseteq Versions
    /\ cesQ \in BOOLEAN /\ cesPc \in {"idle", "addfin", "list", "provision", "finalize", "sweep"}
    /\ todo \subseteq Namespaces /\ orphans \subseteq Namespaces
    /\ prov \subseteq Namespaces /\ fail \subseteq Namespaces \cup {ClusterWide}
    /\ admitted \subseteq Namespaces /\ slipped \subseteq Namespaces /\ missed \in BOOLEAN
TypeOK == LifecycleTypeOK /\ OwnTypes

\* An ExternalSecret that was put in a namespace is in the ledger, or a round
\* is on its way to put it there: only a failed call, a round that was cut
\* short, or a status that was not written because it equals an old copy makes
\* the ledger forget one.  The ledger is all that later rounds know of it.
LedgerAccounts ==
    ces.st = "live" => \A n \in Namespaces : es[n].st = "live" =>
        n \in ces.ledger \/ n \in slipped \/ (cesPc = "provision" /\ n \in prov)

Settled ==
    /\ ~cesQ /\ cesPc = "idle"
    /\ cesSeen = ces /\ nsSeen = View

\* When nothing is left to do the status speaks of exactly the namespaces that
\* are selected now: each one provisioned or failed, and Ready only if none
\* failed.  No selector edit, label change, new or deleted namespace is missed,
\* with whatever copies the rounds were made from, and without any poll, but
\* for a namespace event that mapNamespaceToCES dropped: what that one meant
\* has to wait for the next round.
StatusExact ==
    Settled /\ ces.st = "live" /\ ~missed =>
        LET selected == Matching(ces.spec, View)
        IN  /\ ces.ledger \subseteq selected /\ selected \subseteq ces.ledger \cup ces.failed
            /\ ces.ledger \cap ces.failed = {}
            /\ ces.ready = Ready(ces.failed)

\* ManagedSecrets of what one ClusterExternalSecret creates: nothing is created
\* once it is gone, and no Secret the informer has shown outlives the finalizer
\* that cleans it up.
Provisions == INSTANCE ManagedSecrets WITH
    open <- ces.st # "gone",
    child <- [n \in Namespaces |-> ChildOf(es[n])],
    data <- {n \in Namespaces : secret[n]},
    shown <- {n \in Namespaces : secretSeen[n]}
ManagedWhileThere == Provisions!Spec

Wanted(n) ==
    /\ ces.st = "live" /\ ns[n] = "live"
    /\ Allowed(ces.spec, n, label[n])
    /\ Allowed(store, n, label[n])

\* A namespace that stays selected and allowed ends up with its ExternalSecret
\* and its Secret for good, even when the ExternalSecret was being deleted at
\* the time it was provisioned.
Provisioning == \A n \in Namespaces : <>[]Wanted(n) => <>[](es[n].st = "live" /\ secret[n])

\* Once the ClusterExternalSecret is gone, so are in the end all its
\* ExternalSecrets, those the ledger forgot included, and their Secrets but
\* for one that the informer did not show when it was to be deleted.
Reclaiming ==
    ces.st = "gone" ~> \A n \in Namespaces : es[n] = Absent /\ (secret[n] => n \in overlooked)
=============================================================================
