---------------------- MODULE ExternalSecretLifecycle ----------------------
(***************************************************************************)
(* The life of one ExternalSecret in each namespace, seen from the         *)
(* ExternalSecret controller (pkg/controller/externalsecret): the scope    *)
(* guards of the watch and of Reconcile, the finalizer, the Secret written *)
(* under it, deletion, and a namespace that terminates.  What a round      *)
(* fetches and merges is the subject of SecretSync.                        *)
(*                                                                         *)
(* One work queue entry per object; rounds read the informer's copy, which *)
(* may be old; writes of the object carry the resourceVersion they read.   *)
(***************************************************************************)
EXTENDS Naturals, FiniteSets

CONSTANTS
    Namespaces,
    Scopes,      \* what --watch-namespaces and --exclude-namespaces may say
    Polling,     \* FALSE under --disable-polling
    MaxEvents,   \* bound on what users and administrators do
    MaxFaults    \* bound on failed calls and restarts

Everywhere == [include |-> {}, exclude |-> {}]

ASSUME LifecycleAssumption ==
    /\ \A s \in Scopes : s.include \subseteq Namespaces /\ s.exclude \subseteq Namespaces /\ s.include \cap s.exclude = {}
    /\ Scopes \subseteq [include : SUBSET Namespaces, exclude : SUBSET Namespaces]
    /\ Everywhere \in Scopes
    /\ Polling \in BOOLEAN /\ MaxEvents \in Nat /\ MaxFaults \in Nat

VARIABLES
    scope,      \* the scope the running process was started with
    ns,         \* phase of each namespace
    es,         \* the ExternalSecret at the API server: deletion and finalizer
    esSeen,     \* the informer's copy ...
    esCurrent,  \* ... and whether it is the newest
    esQ,        \* is it in the work queue?
    esPc,       \* the step its round is at
    esRv,       \* is the copy the round works on the newest?
    secret,     \* is its Secret there?
    secretSeen, \* does the informer's copy say so?
    overlooked, \* history: namespaces with a Secret that the last cleanup did not see
    events, faults

secretVars == <<secret, secretSeen, overlooked>>
process == <<scope, esSeen, esCurrent, esQ, esPc, esRv>>
bounds  == <<events, faults>>
lifecycle == <<scope, ns, es, esSeen, esCurrent, esQ, esPc, esRv, secretVars, events, faults>>

Absent  == [st |-> "none", fin |-> FALSE]
Created == [st |-> "live", fin |-> FALSE]
Objects == [st : {"none", "live", "term"}, fin : BOOLEAN]

-----------------------------------------------------------------------------
(* Scope and events                                                        *)

\* IsNamespaceWatched
Watched(n) == IF scope.include # {} THEN n \in scope.include ELSE n \notin scope.exclude

\* An include list restricts the manager's cache itself.
Cached(s, n) == s.include = {} \/ n \in s.include

\* ExternalSecretsPredicate and namespaceExcludePredicate: only the removal of
\* the object passes from an excluded namespace; adding the finalizer changes
\* neither spec nor generation.
FinalizerAdded(old, new) == old = Created /\ new = [Created EXCEPT !.fin = TRUE]
UpdatesOnly(n, old, new) == n \notin scope.exclude /\ ~FinalizerAdded(old, new) /\ new.st # "term"
Passes(n, old, new) ==
    \/ new = Absent
    \/ n \notin scope.exclude /\ ~FinalizerAdded(old, new)

\* The API server's object changes under everybody's copies.
Put(n, new) ==
    /\ es' = [es EXCEPT ![n] = new]
    /\ esCurrent' = [esCurrent EXCEPT ![n] = FALSE]
    /\ esRv' = [esRv EXCEPT ![n] = FALSE]

\* A delete call: the object stays while it has a finalizer.
Deleted(e) == IF e.fin THEN [st |-> "term", fin |-> TRUE] ELSE Absent
PutDeleted(n) == es[n].st = "live" /\ Put(n, Deleted(es[n]))

\* Create, or server-side apply: a terminating namespace takes no new object,
\* and an object that exists, terminating or not, is only updated.
Appliable(n) == es[n] # Absent \/ ns[n] = "live"
PutApplied(n) == IF es[n] = Absent THEN Put(n, Created) ELSE UNCHANGED <<es, esCurrent, esRv>>

DeliverEs(n) ==
    /\ Cached(scope, n) /\ ~esCurrent[n]
    /\ esSeen' = [esSeen EXCEPT ![n] = es[n]]
    /\ esCurrent' = [esCurrent EXCEPT ![n] = TRUE]
    /\ esQ' = [esQ EXCEPT ![n] = @ \/ Passes(n, esSeen[n], es[n])]
    /\ UNCHANGED <<scope, ns, es, esPc, esRv, secretVars, bounds>>

\* Secrets are not watched for rounds: their events only renew the copy.
DeliverSecret(n) ==
    /\ Cached(scope, n) /\ secretSeen[n] # secret[n]
    /\ secretSeen' = [secretSeen EXCEPT ![n] = secret[n]]
    /\ UNCHANGED <<process, ns, es, secret, overlooked, bounds>>

-----------------------------------------------------------------------------
(* The round of one ExternalSecret                                         *)

GoTo(n, step) == esPc' = [esPc EXCEPT ![n] = step]
Swallow(n) == GoTo(n, "idle") /\ UNCHANGED esQ
Retry(n) == GoTo(n, "idle") /\ esQ' = [esQ EXCEPT ![n] = TRUE]
Fault == faults < MaxFaults /\ faults' = faults + 1

SyncsUnheld(n) ==
    LET e == esSeen[n]
    IN  IF e.st = "term" /\ e.fin THEN "clean" ELSE IF e.st = "live" /\ Watched(n) THEN "sync" ELSE "idle"
FirstStep(n) ==
    LET e == esSeen[n]
    IN  IF e.st = "term" /\ e.fin THEN "clean"
        ELSE IF e.st = "live" /\ Watched(n) THEN (IF e.fin THEN "sync" ELSE "addfin") ELSE "idle"

\* A round of a deletion first says so in the status, unless it stands there
\* or the copy is old: another event of the deleted object.  What other rounds
\* write in a status makes no event and is left out.
ReportsDeletion(n) ==
    \/ UNCHANGED esCurrent
    \/ FirstStep(n) = "clean" /\ esCurrent[n] /\ esCurrent' = [esCurrent EXCEPT ![n] = FALSE]

EsStart(n) ==
    /\ esQ[n] /\ esPc[n] = "idle"
    /\ esQ' = [esQ EXCEPT ![n] = FALSE]
    /\ GoTo(n, FirstStep(n))
    /\ esRv' = [esRv EXCEPT ![n] = esCurrent[n]]
    /\ ReportsDeletion(n)
    /\ UNCHANGED <<scope, ns, es, esSeen, secretVars, bounds>>

AddsBlindly(n) ==
    /\ esPc[n] = "addfin"
    /\ es' = [es EXCEPT ![n] = [st |-> @.st, fin |-> TRUE]]
    /\ esCurrent' = [esCurrent EXCEPT ![n] = FALSE]
    /\ GoTo(n, "sync")
    /\ overlooked' = overlooked \ {n}
    /\ UNCHANGED <<scope, ns, esSeen, esQ, esRv, secret, secretSeen, bounds>>
AddFinalizer(n) ==
    /\ esPc[n] = "addfin" /\ esRv[n]
    /\ es' = [es EXCEPT ![n] = [st |-> @.st, fin |-> TRUE]]
    /\ esCurrent' = [esCurrent EXCEPT ![n] = FALSE]
    /\ GoTo(n, "sync")
    /\ overlooked' = overlooked \ {n}
    /\ UNCHANGED <<scope, ns, esSeen, esQ, esRv, secret, secretSeen, bounds>>

\* The Secret is written past the copy of the object, but from the informer's
\* copy of the Secret: an update of one that has gone is refused, and so may
\* be the creation of one that is there.
Sync(n) ==
    /\ esPc[n] = "sync" /\ ns[n] = "live"
    /\ secretSeen[n] => secret[n]
    /\ secret' = [secret EXCEPT ![n] = TRUE]
    /\ Swallow(n)
    /\ UNCHANGED <<scope, ns, es, esSeen, esCurrent, esRv, secretSeen, overlooked, bounds>>

WriteRefused(n) ==
    /\ esPc[n] = "sync" /\ ns[n] = "live"
    /\ secretSeen[n] # secret[n]
    /\ Retry(n)
    /\ UNCHANGED <<scope, ns, es, esSeen, esCurrent, esRv, secretVars, bounds>>

\* isNamespaceTerminating: nothing is written any more.
SkipsWrite(n) ==
    /\ esPc[n] = "sync" /\ ns[n] # "live"
    /\ Swallow(n)
    /\ UNCHANGED <<scope, ns, es, esSeen, esCurrent, esRv, secretVars, bounds>>

\* finalizeExternalSecret looks for the Secret in the informer's copy: one that
\* it does not show counts as deleted, and stays.
Clean(n) ==
    /\ esPc[n] = "clean"
    /\ secret' = [secret EXCEPT ![n] = @ /\ ~secretSeen[n]]
    /\ overlooked' = IF secret'[n] THEN overlooked \cup {n} ELSE overlooked \ {n}
    /\ GoTo(n, "release")
    /\ UNCHANGED <<scope, ns, es, esSeen, esCurrent, esQ, esRv, secretSeen, bounds>>

RemoveFinalizer(n) ==
    /\ esPc[n] = "release" /\ esRv[n]
    /\ Put(n, Absent)
    /\ GoTo(n, "idle")
    /\ UNCHANGED <<scope, ns, esSeen, esQ, secretVars, bounds>>

\* The update was made from an old copy.
Conflict(n) ==
    /\ esPc[n] \in {"addfin", "release"} /\ ~esRv[n]
    /\ Retry(n)
    /\ UNCHANGED <<scope, ns, es, esSeen, esCurrent, esRv, secretVars, bounds>>

\* Any call of the round fails.
CallFails(n) ==
    /\ esPc[n] # "idle" /\ Fault
    /\ Retry(n)
    /\ UNCHANGED <<scope, ns, es, esSeen, esCurrent, esRv, secretVars, events>>

\* RequeueAfter of a round that got to its end.
Poll(n) ==
    /\ Polling /\ esPc[n] = "idle" /\ ~esQ[n]
    /\ Watched(n) /\ esSeen[n].st = "live"
    /\ esQ' = [esQ EXCEPT ![n] = TRUE]
    /\ UNCHANGED <<scope, ns, es, esSeen, esCurrent, esPc, esRv, secretVars, bounds>>

EsRound(n) ==
    \/ EsStart(n) \/ AddFinalizer(n) \/ Sync(n) \/ WriteRefused(n) \/ SkipsWrite(n) \/ Clean(n)
    \/ RemoveFinalizer(n) \/ Conflict(n)

-----------------------------------------------------------------------------
(* The environment                                                         *)

Event == events < MaxEvents /\ events' = events + 1

UserCreates(n) ==
    /\ Event
    /\ es[n] = Absent /\ Appliable(n) /\ PutApplied(n)
    /\ UNCHANGED <<scope, ns, esSeen, esQ, esPc, secretVars, faults>>

UserDeletes(n) ==
    /\ Event
    /\ PutDeleted(n)
    /\ UNCHANGED <<scope, ns, esSeen, esQ, esPc, secretVars, faults>>

\* Kubernetes empties a terminating namespace before it removes it.
NamespaceTerminates(n) ==
    /\ Event
    /\ ns[n] = "live" /\ ns' = [ns EXCEPT ![n] = "terminating"]
    /\ UNCHANGED <<process, es, secretVars, faults>>

PurgeSecret(n) ==
    /\ ns[n] = "terminating" /\ secret[n]
    /\ secret' = [secret EXCEPT ![n] = FALSE]
    /\ overlooked' = overlooked \ {n}
    /\ UNCHANGED <<process, ns, es, secretSeen, bounds>>

PurgeEs(n) ==
    /\ ns[n] = "terminating" /\ PutDeleted(n)
    /\ UNCHANGED <<scope, ns, esSeen, esQ, esPc, secretVars, bounds>>

NamespaceGone(n) ==
    /\ ns[n] = "terminating" /\ es[n] = Absent /\ ~secret[n]
    /\ ns' = [ns EXCEPT ![n] = "gone"]
    /\ UNCHANGED <<process, es, secretVars, bounds>>

NamespaceReturns(n) ==
    /\ Event
    /\ ns[n] = "gone" /\ ns' = [ns EXCEPT ![n] = "live"]
    /\ UNCHANGED <<process, es, secretVars, faults>>

Purge(n) == PurgeSecret(n) \/ PurgeEs(n) \/ NamespaceGone(n)

\* The process starts again, possibly with other flags: its rounds are lost,
\* its caches are read anew, and what they hold arrives as creations.
RestartWith(s) ==
    /\ Fault
    /\ scope' = s
    /\ esSeen' = [n \in Namespaces |-> IF Cached(s, n) THEN es[n] ELSE Absent]
    /\ esCurrent' = [n \in Namespaces |-> TRUE]
    /\ esQ' = [n \in Namespaces |-> Cached(s, n) /\ n \notin s.exclude /\ es[n] # Absent]
    /\ esPc' = [n \in Namespaces |-> "idle"]
    /\ esRv' = [n \in Namespaces |-> FALSE]
    /\ secretSeen' = [n \in Namespaces |-> Cached(s, n) /\ secret[n]]
    /\ UNCHANGED <<ns, es, secret, overlooked, events>>

-----------------------------------------------------------------------------
LifecycleInit ==
    /\ scope = Everywhere
    /\ ns \in [Namespaces -> {"live", "gone"}]
    /\ es = [n \in Namespaces |-> Absent] /\ esSeen = es
    /\ esCurrent = [n \in Namespaces |-> TRUE]
    /\ esQ = [n \in Namespaces |-> FALSE] /\ esPc = [n \in Namespaces |-> "idle"]
    /\ esRv = [n \in Namespaces |-> FALSE] /\ secret = [n \in Namespaces |-> FALSE]
    /\ secretSeen = secret /\ overlooked = {}
    /\ events = 0 /\ faults = 0

LifecycleStep(n) ==
    \/ DeliverEs(n) \/ DeliverSecret(n) \/ EsRound(n) \/ CallFails(n) \/ Poll(n)
    \/ UserDeletes(n) \/ NamespaceTerminates(n) \/ Purge(n)

LifecycleNext ==
    \/ \E n \in Namespaces : LifecycleStep(n) \/ NamespaceReturns(n) \/ UserCreates(n)
    \/ \E s \in Scopes : RestartWith(s)

LifecycleSpec == LifecycleInit /\ [][LifecycleNext]_lifecycle

-----------------------------------------------------------------------------
(* Properties                                                              *)

LifecycleTypes ==
    /\ scope \in Scopes
    /\ ns \in [Namespaces -> {"live", "terminating", "gone"}]
    /\ es \in [Namespaces -> Objects] /\ esSeen \in [Namespaces -> Objects]
    /\ esCurrent \in [Namespaces -> BOOLEAN] /\ esQ \in [Namespaces -> BOOLEAN] /\ esRv \in [Namespaces -> BOOLEAN]
    /\ esPc \in [Namespaces -> {"idle", "addfin", "sync", "clean", "release"}]
    /\ secret \in [Namespaces -> BOOLEAN] /\ secretSeen \in [Namespaces -> BOOLEAN] /\ overlooked \subseteq Namespaces
    /\ events \in 0..MaxEvents /\ faults \in 0..MaxFaults

LifecycleTypeOK ==
    /\ LifecycleTypes
    /\ \A n \in Namespaces : es[n].fin => es[n].st # "none"

\* An ExternalSecret that is being deleted and still has its finalizer will be
\* looked at again: it is queued, in a round, or its change is on the way to
\* the queue.  Otherwise nobody ever removes the finalizer
\* (namespaceExcludePredicate: "must still reach the reconciler to have their
\* finalizer removed").
DeletionIsPending ==
    \A n \in Namespaces : es[n].st = "term" =>
        esQ[n] \/ esPc[n] # "idle" \/ (Cached(scope, n) /\ ~esCurrent[n])

\* The ExternalSecrets and Secrets of every namespace, as ManagedSecrets sees
\* them: no Secret is written that no finalizer holds, and none is left behind
\* but one that the informer did not show when it was to be deleted.
ChildOf(e) ==
    IF e.st = "none" THEN "none"
    ELSE IF e.st = "term" THEN "leaving"
    ELSE IF e.fin THEN "held" ELSE "new"
Managed == INSTANCE ManagedSecrets WITH
    open <- TRUE,
    child <- [n \in Namespaces |-> ChildOf(es[n])],
    data <- {n \in Namespaces : secret[n]},
    shown <- {n \in Namespaces : secretSeen[n]}
ManagedSpec == Managed!Spec
=============================================================================
