---------------------------- MODULE StoreRebuild ----------------------------
(***************************************************************************)
(* How a change to a SecretStore reaches the ExternalSecrets that use it.  *)
(*                                                                         *)
(* Three kinds of controllers meet on one SecretStore object:              *)
(*   - the Secret and ServiceAccount controllers put a trigger annotation  *)
(*     on the store when a credential object it references changes;        *)
(*   - the SecretStore controller rebuilds the provider client, publishes  *)
(*     status.clientGeneration and clears the annotation;                  *)
(*   - the ExternalSecret controller takes the client from the shared      *)
(*     registry, asks the freshness guard, and fetches with it.            *)
(* They run concurrently, read the store from an informer cache that lags  *)
(* behind the API server, and write with or without a resourceVersion      *)
(* check.  The ClusterSecretStore controller is the same code path.        *)
(*                                                                         *)
(* The store object is kept at three places: "api" at the API server,      *)
(* "cache" in the informer, and "pending" the versions in between, oldest  *)
(* first.  A read-then-write with a resourceVersion check succeeds exactly *)
(* when the copy it read is the API server's, that is when nothing is      *)
(* pending, and is a conflict, as often as that happens, otherwise.        *)
(***************************************************************************)
EXTENDS Naturals, Sequences

CONSTANTS
  Sources,      \* Secrets and ServiceAccounts the store's auth block references
  Consumers,    \* ExternalSecrets that use the store
  InvalidGens,  \* generations whose spec fails validation
  MaxGen,       \* bound: spec generations
  MaxCred,      \* bound: versions of a credential object
  MaxFaults,    \* bound: failed calls, relists and restarts (conflicts are unbounded)
  CounterSpan,  \* number of values of clientGeneration before it wraps (int64: 2^64)
  RotateInWindow, \* may a credential rotate while a skipped trigger would lose it
  AtomicFill,     \* is a client built by an ExternalSecret registered at once
  FailedBuilds,   \* may store rounds fail to build their client, however often
  LaggingStart,   \* may a store round start before it sees the last round's status
  DisablePolling  \* the --disable-polling flag

ASSUME ConstantsAssumption ==
  /\ MaxGen \in Nat /\ MaxCred \in Nat /\ MaxFaults \in Nat
  /\ CounterSpan \in Nat /\ CounterSpan > 1
  /\ InvalidGens \subseteq Nat
  /\ RotateInWindow \in BOOLEAN
  /\ AtomicFill \in BOOLEAN /\ FailedBuilds \in BOOLEAN /\ LaggingStart \in BOOLEAN
  /\ DisablePolling \in BOOLEAN

VARIABLES
  api, cache, pending,      \* the store object: API server, informer, undelivered
  cred,                     \* version of each credential object
  trigQ, trigPc,            \* per source: trigger controller's queue and step
  storeQ, storeTimer,       \* SecretStore controller's queue and delayed requeue
  storePc, snap, read,      \* its round: step, store as read, credentials as read
  clients,                  \* the client registered under the store's key
  esQ, esPc, held,          \* per ExternalSecret: queue, step, client in hand
  synced, failed,           \* client the target Secret was written with; last round failed
  clock,                    \* source of the unique trigger values
  asked,                    \* history: credential versions when the trigger was last set
  faults                    \* faults so far

storeObject == <<api, cache, pending>>
triggerVars == <<trigQ, trigPc>>
roundVars   == <<storeTimer, storePc, snap, read>>
esVars      == <<esPc, held, synced, failed>>
vars == <<api, cache, pending, cred, trigQ, trigPc, storeQ, storeTimer, storePc, snap,
          read, clients, esQ, esPc, held, synced, failed, clock, asked, faults>>

Conditions == {"none", "ready", "failed", "invalid"}

\* What the controllers read of a store: generation, trigger annotation (0: absent),
\* finalizer, Ready condition and its observedGeneration, status.clientGeneration.
Version == [gen : Nat, trig : Nat, fin : BOOLEAN,
            cond : Conditions, observed : Nat, cg : Nat]

Creds  == [Sources -> Nat]
Client == [gen : Nat, cred : Creds]
Unread == [s \in Sources |-> 0]
NoClient == [gen |-> 0, cred |-> Unread]

\* The client a construction started now yields from store copy v.
ClientOf(v) == [gen |-> v.gen, cred |-> cred]

TypeOK ==
  /\ api \in Version /\ cache \in Version /\ pending \in Seq(Version)
  /\ cred \in Creds
  /\ trigQ \in [Sources -> BOOLEAN] /\ trigPc \in [Sources -> {"idle", "patch"}]
  /\ storeQ \in BOOLEAN /\ storeTimer \in BOOLEAN
  /\ storePc \in {"idle", "refetch", "read", "status", "clear", "ready", "failed", "invalid"}
  /\ snap \in Version /\ read \in Creds
  /\ clients \in Client
  /\ esQ \in [Consumers -> BOOLEAN]
  /\ esPc \in [Consumers -> {"idle", "guard", "fill", "register", "fetch"}]
  /\ held \in [Consumers -> Client] /\ synced \in [Consumers -> Client]
  /\ failed \in [Consumers -> BOOLEAN]
  /\ clock \in Nat /\ asked \in Creds /\ faults \in Nat

NewStore == [gen |-> 1, trig |-> 0, fin |-> FALSE,
             cond |-> "none", observed |-> 0, cg |-> 0]

\* The operator starts with the store just created: the initial lists put
\* every object into its controller's queue.
Init ==
  /\ api = NewStore /\ cache = NewStore /\ pending = <<>>
  /\ cred = [s \in Sources |-> 1]
  /\ trigQ = [s \in Sources |-> TRUE] /\ trigPc = [s \in Sources |-> "idle"]
  /\ storeQ = TRUE /\ storeTimer = FALSE
  /\ storePc = "idle" /\ snap = NewStore /\ read = Unread
  /\ clients = NoClient
  /\ esQ = [c \in Consumers |-> TRUE] /\ esPc = [c \in Consumers |-> "idle"]
  /\ held = [c \in Consumers |-> NoClient] /\ synced = [c \in Consumers |-> NoClient]
  /\ failed = [c \in Consumers |-> FALSE]
  /\ clock = 0 /\ asked = Unread /\ faults = 0

-----------------------------------------------------------------------------
(* API server and informer *)

Undelivered == {pending[i] : i \in DOMAIN pending}

\* A write that changes nothing makes no new version.
Write(v) ==
  /\ api' = v
  /\ pending' = IF v = api THEN pending ELSE Append(pending, v)
  /\ UNCHANGED cache

\* An Update or Patch that carries the resourceVersion of the cached copy.
GuardedWrite(v) == pending = <<>> /\ Write(v)

\* One more call fails: an API error, a failed construction.
Fault == faults < MaxFaults /\ faults' = faults + 1

\* Variants with a bug, for the mutants: spec changes, or trigger changes, dropped.
TriggerChangesOnly(old, new) == old.trig # new.trig /\ new.trig # 0
SpecChangesOnly(old, new) == old.gen # new.gen

\* Update filter of the SecretStore controller.
StoreRelevant(old, new) ==
  \/ old.gen # new.gen
  \/ old.trig # new.trig /\ new.trig # 0

\* Update filter of the ExternalSecret controller's reverse watch.
EsRelevant(old, new) == old.gen # new.gen \/ old.cg # new.cg

Observe(new) ==
  /\ cache' = new
  /\ storeQ' = (storeQ \/ StoreRelevant(cache, new))
  /\ esQ' = [c \in Consumers |-> esQ[c] \/ EsRelevant(cache, new)]
  /\ UNCHANGED <<api, cred, triggerVars, roundVars, clients, esVars, clock, asked>>

\* The informer receives the next version.
Deliver ==
  /\ pending # <<>>
  /\ Observe(Head(pending)) /\ pending' = Tail(pending)
  /\ UNCHANGED faults

\* The watch breaks and the informer lists again: versions in between are skipped.
Relist ==
  /\ Len(pending) > 1 /\ Fault
  /\ Observe(api) /\ pending' = <<>>

\* A user edits the store's spec.
EditSpec ==
  /\ api.gen < MaxGen
  /\ Write([api EXCEPT !.gen = @ + 1])
  /\ UNCHANGED <<cred, triggerVars, storeQ, roundVars, clients, esQ, esVars, clock, asked, faults>>

\* Would a trigger skipped because one is already set still be honoured?  Not
\* when the round of that trigger has read source s, or its annotation is
\* already cleared at the API server and only seen by lagging caches.
SkipIsSafe(s) ==
  (\E v \in Undelivered \cup {api, cache} : v.trig # 0) =>
     /\ api.trig # 0
     /\ ~ /\ storePc \in {"read", "status", "clear"}
          /\ snap.trig = api.trig
          /\ read[s] # 0

\* A credential object changes; its informer event queues the trigger controller.
Rotate(s) ==
  /\ cred[s] < MaxCred
  /\ RotateInWindow \/ SkipIsSafe(s)
  /\ cred' = [cred EXCEPT ![s] = @ + 1]
  /\ trigQ' = [trigQ EXCEPT ![s] = TRUE]
  /\ UNCHANGED <<storeObject, trigPc, storeQ, roundVars, clients, esQ, esVars, clock, asked, faults>>

\* The operator process restarts: queues, rounds and the client registry are
\* lost, and the initial lists put every object back into its queue.
Restart ==
  /\ Fault
  /\ cache' = api /\ pending' = <<>>
  /\ trigQ' = [s \in Sources |-> TRUE] /\ trigPc' = [s \in Sources |-> "idle"]
  /\ storeQ' = TRUE /\ storeTimer' = FALSE /\ storePc' = "idle"
  /\ clients' = NoClient
  /\ esQ' = [c \in Consumers |-> TRUE] /\ esPc' = [c \in Consumers |-> "idle"]
  /\ UNCHANGED <<api, cred, snap, read, held, synced, failed, clock, asked>>

-----------------------------------------------------------------------------
(* Secret and ServiceAccount controllers: one reconcile per credential object *)

\* Reconcile lists the stores; one that already carries a trigger is skipped.
TriggerList(s) ==
  /\ trigQ[s] /\ trigPc[s] = "idle"
  /\ trigQ' = [trigQ EXCEPT ![s] = FALSE]
  /\ trigPc' = [trigPc EXCEPT ![s] = IF cache.trig # 0 THEN "idle" ELSE "patch"]
  /\ UNCHANGED <<storeObject, cred, storeQ, roundVars, clients, esQ, esVars, clock, asked, faults>>

\* PatchTriggerAnnotation: a fresh value, no resourceVersion check.
TriggerPatch(s) ==
  /\ trigPc[s] = "patch"
  /\ trigPc' = [trigPc EXCEPT ![s] = "idle"]
  /\ clock' = clock + 1
  /\ Write([api EXCEPT !.trig = clock + 1])
  /\ asked' = cred
  /\ UNCHANGED <<cred, trigQ, storeQ, roundVars, clients, esQ, esVars, faults>>

\* Variant with a bug: the failure is logged and swallowed.
PatchFailureSwallowed(s) ==
  /\ trigPc[s] = "patch" /\ Fault
  /\ trigPc' = [trigPc EXCEPT ![s] = "idle"]
  /\ UNCHANGED <<storeObject, cred, trigQ, storeQ, roundVars, clients, esQ, esVars, clock, asked>>

\* The patch fails: the whole reconcile is retried.
TriggerPatchFails(s) ==
  /\ trigPc[s] = "patch" /\ Fault
  /\ trigPc' = [trigPc EXCEPT ![s] = "idle"]
  /\ trigQ' = [trigQ EXCEPT ![s] = TRUE]
  /\ UNCHANGED <<storeObject, cred, storeQ, roundVars, clients, esQ, esVars, clock, asked>>

-----------------------------------------------------------------------------
(* SecretStore controller: one round at a time *)

\* A round that returns an error is queued again (with backoff).
Requeue == storePc' = "idle" /\ storeQ' = TRUE

\* The store has no finalizer yet: add it, then read the store again.  When the
\* update conflicts the round is queued again and nothing has changed.
StoreAddFinalizer ==
  /\ storePc = "idle" /\ storeQ /\ ~ cache.fin
  /\ GuardedWrite([api EXCEPT !.fin = TRUE])
  /\ storePc' = "refetch" /\ storeQ' = FALSE
  /\ UNCHANGED <<cred, triggerVars, storeTimer, snap, read, clients, esQ, esVars, clock, asked, faults>>

\* Variant with a bug: a changed spec does not ask for a new client.
RecreateIgnoresSpec(v) == v.trig # 0 \/ clients = NoClient \/ v.cond = "none"

\* Must the client be built anew?  (validation has passed)
NeedRecreate(v) ==
  \/ v.trig # 0
  \/ clients = NoClient
  \/ v.cond = "none"
  \/ v.gen # v.observed

\* The round reads the store and decides.  A rebuild first deletes the client
\* and its endpoint variants.
StoreDecide ==
  /\ \/ storePc = "idle" /\ storeQ /\ cache.fin /\ storeQ' = FALSE
     \/ storePc = "refetch" /\ UNCHANGED storeQ
  /\ LaggingStart \/ \A v \in Undelivered : v.cg = cache.cg
  /\ snap' = cache
  /\ read' = Unread
  /\ IF cache.gen \in InvalidGens
       THEN storePc' = "invalid" /\ UNCHANGED clients
       ELSE IF NeedRecreate(cache)
              THEN storePc' = "read" /\ clients' = NoClient
              ELSE storePc' = "ready" /\ UNCHANGED clients
  /\ UNCHANGED <<storeObject, cred, triggerVars, storeTimer, esQ, esVars, clock, asked, faults>>

\* BuildAuthConfig reads the credential objects one after the other.
StoreReadCred(s) ==
  /\ storePc = "read" /\ read[s] = 0
  /\ read' = [read EXCEPT ![s] = cred[s]]
  /\ UNCHANGED <<storeObject, cred, triggerVars, storeQ, storeTimer, storePc, snap, clients, esQ, esVars, clock, asked, faults>>

\* Variant with a bug: the trigger is cleared before the status is written.
ClearBeforeStatus ==
  /\ storePc = "read" /\ \A s \in Sources : read[s] # 0
  /\ clients' = [gen |-> snap.gen, cred |-> read]
  /\ storePc' = IF snap.trig # 0 THEN "clear" ELSE "status"
  /\ UNCHANGED <<storeObject, cred, triggerVars, storeQ, storeTimer, snap, read, esQ, esVars, clock, asked, faults>>

\* The client is built from the spec and credentials that were read, and registered.
StoreRegister ==
  /\ storePc = "read" /\ \A s \in Sources : read[s] # 0
  /\ clients' = [gen |-> snap.gen, cred |-> read]
  /\ storePc' = "status"
  /\ UNCHANGED <<storeObject, cred, triggerVars, storeQ, storeTimer, snap, read, esQ, esVars, clock, asked, faults>>

StoreBuildFails ==
  /\ storePc = "read" /\ FailedBuilds
  /\ storePc' = "failed"
  /\ UNCHANGED <<storeObject, cred, triggerVars, storeQ, storeTimer, snap, read, clients, esQ, esVars, clock, asked, faults>>

\* The next value of clientGeneration.
Bumped(g) == IF g + 1 = CounterSpan THEN 0 ELSE g + 1

\* Variant with a bug: the counter is taken back on an error.
StatusTakesBack(v, cond, bump) ==
  [v EXCEPT !.cond = cond, !.observed = snap.gen,
            !.cg = IF bump THEN Bumped(snap.cg) ELSE snap.cg - 1]

\* updateStatus computes the status from the store as read at the start of the
\* round, and writes it over the object it reads now.
NewStatus(v, cond, bump) ==
  [v EXCEPT !.cond = cond, !.observed = snap.gen,
            !.cg = IF bump THEN Bumped(snap.cg) ELSE snap.cg]

SameStatus(cond) == snap.cond = cond /\ snap.observed = snap.gen

\* After a rebuild: Ready, with clientGeneration one higher than at the start.
StoreWriteRebuilt ==
  /\ storePc = "status"
  /\ GuardedWrite(NewStatus(api, "ready", TRUE))
  /\ storePc' = IF snap.trig # 0 THEN "clear" ELSE "idle"
  /\ UNCHANGED <<cred, triggerVars, storeQ, storeTimer, snap, read, clients, esQ, esVars, clock, asked, faults>>

\* Variant with a bug: whatever trigger is there is cleared, without a lock.
ClearAnyTrigger ==
  /\ storePc = "clear"
  /\ Write([api EXCEPT !.trig = 0])
  /\ storePc' = "idle"
  /\ UNCHANGED <<cred, triggerVars, storeQ, storeTimer, snap, read, clients, esQ, esVars, clock, asked, faults>>

\* Clear the trigger this round was started with.
StoreClearTrigger ==
  /\ storePc = "clear"
  /\ cache.trig = snap.trig
  /\ GuardedWrite([api EXCEPT !.trig = 0])
  /\ storePc' = "idle"
  /\ UNCHANGED <<cred, triggerVars, storeQ, storeTimer, snap, read, clients, esQ, esVars, clock, asked, faults>>

\* Another trigger value has appeared: keep it for the next round.
StoreKeepTrigger ==
  /\ storePc = "clear"
  /\ cache.trig # snap.trig
  /\ storePc' = "idle" /\ storeTimer' = TRUE
  /\ UNCHANGED <<storeObject, cred, triggerVars, storeQ, snap, read, clients, esQ, esVars, clock, asked, faults>>

\* The informer has not delivered the last write when the round reads the store
\* again to write its status or to clear the trigger, often its own status
\* write: the API server answers with a conflict, and the whole round, its
\* rebuild included, is run again.
StoreConflict ==
  /\ pending # <<>>
  /\ \/ storePc = "status"
     \/ storePc = "clear" /\ cache.trig = snap.trig
     \/ storePc = "ready" /\ ~ SameStatus("ready")
  /\ Requeue
  /\ UNCHANGED <<storeObject, cred, triggerVars, storeTimer, snap, read, clients, esQ, esVars, clock, asked, faults>>

\* The status write, or the patch that clears the trigger, fails.
StoreWriteFails ==
  /\ storePc \in {"status", "clear", "ready", "failed", "invalid"} /\ Fault
  /\ Requeue
  /\ UNCHANGED <<storeObject, cred, triggerVars, storeTimer, snap, read, clients, esQ, esVars, clock, asked>>

\* Validation or construction failed: record it, and return the error whether
\* or not the status could be written.
StoreWriteError ==
  /\ storePc \in {"failed", "invalid"}
  /\ \/ ~ SameStatus(storePc) /\ GuardedWrite(NewStatus(api, storePc, FALSE))
     \/ /\ SameStatus(storePc) \/ pending # <<>>
        /\ UNCHANGED storeObject
  /\ Requeue
  /\ UNCHANGED <<cred, triggerVars, storeTimer, snap, read, clients, esQ, esVars, clock, asked, faults>>

\* Nothing to rebuild: report Ready, unless the status already says so.
StoreReportReady ==
  /\ storePc = "ready"
  /\ IF SameStatus("ready") THEN UNCHANGED storeObject
                            ELSE GuardedWrite(NewStatus(api, "ready", FALSE))
  /\ storePc' = "idle" /\ storeTimer' = TRUE
  /\ UNCHANGED <<cred, triggerVars, storeQ, snap, read, clients, esQ, esVars, clock, asked, faults>>

\* The delayed requeue (RequeueAfter: ReconciliationPeriod) is due.
StoreTimer ==
  /\ storeTimer
  /\ storeTimer' = FALSE /\ storeQ' = TRUE
  /\ UNCHANGED <<storeObject, cred, triggerVars, storePc, snap, read, clients, esQ, esVars, clock, asked, faults>>

-----------------------------------------------------------------------------
(* ExternalSecret controller: getOrCreateClient, then fetch and write *)

EsBegin(c) ==
  /\ esPc[c] = "idle" /\ esQ[c]
  /\ esQ' = [esQ EXCEPT ![c] = FALSE]
  /\ held' = [held EXCEPT ![c] = clients]
  /\ esPc' = [esPc EXCEPT ![c] = IF clients = NoClient THEN "fill" ELSE "guard"]
  /\ UNCHANGED <<storeObject, cred, triggerVars, storeQ, roundVars, clients, synced, failed, clock, asked, faults>>

\* ensureStoreClientFresh: is the store mid rebuild, as far as store copy v tells?
StoreClientFresh(v) == v.cond = "none" \/ (v.observed = v.gen /\ v.trig = 0)

EsGuardPasses(c) ==
  /\ esPc[c] = "guard" /\ StoreClientFresh(cache)
  /\ esPc' = [esPc EXCEPT ![c] = "fetch"]
  /\ UNCHANGED <<storeObject, cred, triggerVars, storeQ, roundVars, clients, esQ, held, synced, failed, clock, asked, faults>>

\* Stale: the whole round is retried after storeClientStaleRetryInterval, also
\* when polling is disabled.
EsGuardRefuses(c) ==
  /\ esPc[c] = "guard" /\ ~ StoreClientFresh(cache)
  /\ esPc' = [esPc EXCEPT ![c] = "idle"]
  /\ esQ' = [esQ EXCEPT ![c] = TRUE]
  /\ UNCHANGED <<storeObject, cred, triggerVars, storeQ, roundVars, clients, held, synced, failed, clock, asked, faults>>

\* No client registered: build one from the store and credentials as cached
\* (no freshness guard on this path) and register it, over whatever is there.
EsFill(c) ==
  /\ AtomicFill
  /\ esPc[c] = "fill"
  /\ held' = [held EXCEPT ![c] = ClientOf(cache)]
  /\ clients' = ClientOf(cache)
  /\ esPc' = [esPc EXCEPT ![c] = "fetch"]
  /\ UNCHANGED <<storeObject, cred, triggerVars, storeQ, roundVars, esQ, synced, failed, clock, asked, faults>>

EsBuild(c) ==
  /\ ~ AtomicFill
  /\ esPc[c] = "fill"
  /\ held' = [held EXCEPT ![c] = ClientOf(cache)]
  /\ esPc' = [esPc EXCEPT ![c] = "register"]
  /\ UNCHANGED <<storeObject, cred, triggerVars, storeQ, roundVars, clients, esQ, synced, failed, clock, asked, faults>>

EsRegister(c) ==
  /\ esPc[c] = "register"
  /\ clients' = held[c]
  /\ esPc' = [esPc EXCEPT ![c] = "fetch"]
  /\ UNCHANGED <<storeObject, cred, triggerVars, storeQ, roundVars, esQ, held, synced, failed, clock, asked, faults>>

\* Construction or fetch fails: recorded in the status, the round returns no error.
EsFails(c) ==
  /\ esPc[c] \in {"fill", "fetch"} /\ Fault
  /\ esPc' = [esPc EXCEPT ![c] = "idle"]
  /\ failed' = [failed EXCEPT ![c] = TRUE]
  /\ UNCHANGED <<storeObject, cred, triggerVars, storeQ, roundVars, clients, esQ, held, synced, clock, asked>>

\* The fetch succeeds and the target Secret is written.
EsSync(c) ==
  /\ esPc[c] = "fetch"
  /\ synced' = [synced EXCEPT ![c] = held[c]]
  /\ failed' = [failed EXCEPT ![c] = FALSE]
  /\ esPc' = [esPc EXCEPT ![c] = "idle"]
  /\ UNCHANGED <<storeObject, cred, triggerVars, storeQ, roundVars, clients, esQ, held, clock, asked, faults>>

\* The rotation interval is over.
EsPoll(c) ==
  /\ ~ DisablePolling
  /\ esPc[c] = "idle" /\ ~ esQ[c]
  /\ esQ' = [esQ EXCEPT ![c] = TRUE]
  /\ UNCHANGED <<storeObject, cred, triggerVars, storeQ, roundVars, clients, esVars, clock, asked, faults>>

-----------------------------------------------------------------------------
Environment == EditSpec \/ Restart \/ Relist \/ \E s \in Sources : Rotate(s)

Trigger(s) == TriggerList(s) \/ TriggerPatch(s)

StoreStep ==
  \/ StoreAddFinalizer \/ StoreDecide \/ StoreRegister
  \/ StoreWriteRebuilt \/ StoreClearTrigger \/ StoreKeepTrigger
  \/ StoreWriteError \/ StoreReportReady \/ StoreConflict
  \/ \E s \in Sources : StoreReadCred(s)

EsStep(c) ==
  \/ EsBegin(c) \/ EsGuardPasses(c) \/ EsGuardRefuses(c)
  \/ EsFill(c) \/ EsBuild(c) \/ EsRegister(c) \/ EsSync(c)

Failure ==
  \/ StoreBuildFails \/ StoreWriteFails
  \/ \E s \in Sources : TriggerPatchFails(s)
  \/ \E c \in Consumers : EsFails(c)

Next ==
  \/ Environment \/ Deliver \/ Failure
  \/ \E s \in Sources : Trigger(s)
  \/ StoreStep \/ StoreTimer
  \/ \E c \in Consumers : EsStep(c) \/ EsPoll(c)

Spec == Init /\ [][Next]_vars

\* The informer delivers, and every controller's queue is served: workers of a
\* controller never stop taking requests.  The informer is also not late every
\* time a round is about to clear a trigger, or every clear would be a conflict
\* (the pauses between the rounds do not help: each writes a status of its own
\* just before).  Nothing is assumed of the users, of failures, or of the
\* delayed requeue of the store.
Fairness ==
  /\ WF_vars(Deliver)
  /\ SF_vars(storePc = "clear" /\ Deliver)
  /\ \A s \in Sources : WF_vars(Trigger(s))
  /\ WF_vars(StoreStep)
  /\ \A c \in Consumers : WF_vars(EsStep(c)) /\ WF_vars(EsPoll(c))

FairSpec == Spec /\ Fairness

-----------------------------------------------------------------------------
(* Properties *)

\* The SecretStore controller has, or is certain to get, another round to run.
RebuildPending == storeQ \/ storePc # "idle" \/ pending # <<>>

TriggerPending == \E s \in Sources : trigQ[s] \/ trigPc[s] = "patch"

\* An edit of the store's spec is never lost: while the registered client was
\* built from another generation of the spec, the SecretStore controller is not
\* at rest (secretstore_controller.go Reconcile, predicates.go).
NoLostSpecEdit ==
  clients # NoClient /\ clients.gen # api.gen => RebuildPending

\* A rotation of a credential object is never lost: while the registered client
\* holds an older version of one, a trigger or a rebuild is on its way
\* (secret_controller.go and serviceaccount_controller.go Reconcile).
NoLostRotation ==
  clients # NoClient /\ clients.cred # cred => RebuildPending \/ TriggerPending

\* The guard cannot refuse for ever: while the store looks mid rebuild, its
\* controller is not at rest, so that nobody waits for a rebuild that will not
\* come (ensureStoreClientFresh, externalsecret_controller.go).
NoStuckGuard == ~ StoreClientFresh(api) => RebuildPending

\* An ExternalSecret whose Secret was written through another client than the
\* one registered now is due another round, or its last round failed, also with
\* --disable-polling: the reverse watch loses no rebuild (store_watch.go,
\* predicates.go of the ExternalSecret controller).
NoLostSignal ==
  \A c \in Consumers :
    clients # NoClient /\ synced[c] # clients =>
      esQ[c] \/ esPc[c] # "idle" \/ failed[c] \/ RebuildPending \/ TriggerPending

TriggerCleared == api.trig # 0 /\ api'.trig = 0

\* A trigger is only cleared by the round it started, after the bump of
\* clientGeneration was persisted ("a cleared annotation always implies the bump
\* was persisted", common.go updateStatus), and never a newer trigger.
ClearedAfterSignal ==
  [][TriggerCleared => /\ storePc = "clear" /\ api.trig = snap.trig
                       /\ api.cg = Bumped(snap.cg) /\ api.cond = "ready"
                       /\ api.observed = snap.gen]_vars

\* A trigger is honoured before it is cleared: the credentials the clearing round
\* read, one object after the other, are at least as new as those that set the
\* trigger off (PatchTriggerAnnotation in util.go and the clear in Reconcile).
TriggerHonoured ==
  [][TriggerCleared => \A s \in Sources : read[s] >= asked[s]]_vars

\* clientGeneration never goes back, whatever status a round writes ("a
\* monotonically increasing client-rebuild counter", docs/crd_resources_guide.md).
MonotoneGeneration == [][api'.cg >= api.cg]_vars

Current == [gen |-> api.gen, cred |-> cred]

\* Once the users and the failures stop, every Secret ends up written through a
\* client of the current spec and the current credentials, or its ExternalSecret
\* reports a failure (the purpose of the trigger, rebuild and reverse-watch chain).
Converges == <>[](\A c \in Consumers : synced[c] = Current \/ failed[c])
=============================================================================
