# ack-secret-manager: TLA+ specifications

ack-secret-manager is a Kubernetes operator. An `ExternalSecret` names entries
in a backend (Alibaba Cloud KMS Secrets Manager or OOS parameters); the operator
fetches them through a client built from a `SecretStore` or
`ClusterSecretStore`, and keeps a Kubernetes `Secret` in step with them. These
modules specify the parts of it where several actors meet, where a cached copy
is old, or where one of several steps fails, and check what must not go wrong
there. Paths below are relative to `src/`.

## 1. Inventory

| Component | State it keeps | Operations | Talks to | Hard because | Correct when |
|---|---|---|---|---|---|
| SecretStore and ClusterSecretStore controllers (`pkg/controller/secretstore`) | the store object (spec, trigger annotation, finalizer, status with `clientGeneration`), a work queue | reconcile round: validate, rebuild and register the client, write the status, clear the trigger; deletion | client pool, API server | reads come from a lagging cache, two writes that must happen in order, retries | no edit and no rotation is lost; a trigger is cleared only when it has been honoured; every rebuild reaches its consumers |
| Secret and ServiceAccount trigger controllers (`pkg/controller/secret`, `serviceaccount`) | a work queue | list stores, patch the trigger annotation | store objects | skip decisions on a lagging list; one patch of several fails | every rotation leads to a rebuild that reads it |
| ExternalSecret event routing and freshness guard (`externalsecret/predicates.go`, `store_watch.go`, `getOrCreateClient`) | a work queue, the cached client | reverse watch, guard, build on a miss, register | client pool, store objects | guard and fetch are two steps; two builders of one client; polling may be off | nobody waits for ever; every rebuild reaches every consumer |
| ExternalSecret round (`externalsecret_controller.go` `syncIfNeedUpdate` and its helpers) | `status.dataSyncResults`, the target Secret | fetch, count failures, render, report, write, merge or delete | backend, API server | partial failure, duplicates of a backend key, status and Secret written apart, cached and uncached reads | nothing is destroyed or turned back by a partial failure; the status tells the truth; the Secret converges |
| ExternalSecret lifecycle (`Reconcile`, `predicates.go`) | the finalizer, the work queue | add and remove the finalizer, write and delete the Secret, scope checks at three places | API server, composite clients | the order of guards, finalizer and writes; deletions that arrive as other events | no object is left terminating; no Secret is written that no finalizer holds |
| Composite endpoint clients (`compositeKeys`, lines 389-564) | key set per ExternalSecret UID | track, reclaim what nobody uses | client pool, list of ExternalSecrets | last user is judged by a lagging list | a client in use is not removed; an unused one is |
| Client pool and RAM providers (`pkg/backend/provider`) | client map, registry of refresh providers | register, delete, delete by prefix, build | auth chain | two maps changed apart, concurrent builders | a cached client has a running provider; no provider runs without a client |
| Auth chain and token (`pkg/backend/auth`) | cached token and credential, a mutex | choose the tiers, refresh | STS, ServiceAccount tokens | expiry arithmetic, fail-closed rules, a refresh that fails under the mutex | never a degraded tier; never an expired credential |
| ENV client (`pkg/backend/provider.go`) | negative cache, a mutex | lazy initialisation of all backends at once | client pool | one backend's failure is every worker's error; cached failure | a backend that can be used is used |
| Backend calls and retry (`kms_service.go`, `oos_service.go`, `RetryOnTransient`) | none | call, back off | KMS, OOS | cancellation and the last attempt | bounded attempts |
| ClusterExternalSecret (`pkg/controller/clusterexternalsecret`) | the status: ledger of provisioned namespaces, failed ones, Ready; the finalizer; a work queue | select, check access, apply, delete orphans, write the status, finalise | ExternalSecrets (neither watched nor listed), namespaces, ClusterSecretStore | one namespace of several fails; labels change; the ledger is all it knows | exactly the selected namespaces end up provisioned; the ledger forgets nothing unless a call fails; nothing stays when it goes |
| Template engine (`template_processor.go`) | none | render into the data map and metadata | round | modes, failing keys | rendered keys and the deletion contract agree |
| Namespace scope (`pkg/utils`, `cmd/manager`) | include and exclude lists | restrict the cache, the watch, the round | every controller | the three places disagree | deletions pass whatever the scope |
| Flags, generated types, CA table, charts, tests | configuration | | | | |

`PROJECT.json` lists every component with its status, and every hazard of this
code with its line and the properties that would catch it.

## 2. Plan

Most important behaviour first; 1 to 6 are done, each with its proofs.

1. `StoreRebuild`: the chain from a changed credential or store to a written
   Secret (stores, triggers, guard, pool slot).
2. `SecretSync`: one ExternalSecret's round, from fetch to deletion.
3. `ClientPool`: client map and RAM provider registry under concurrent builders,
   `DeletePrefixed`, store deletion, and the tracking and reclaiming of clients
   with a custom endpoint.
4. `ManagedSecrets`, the abstract specification of the objects in a namespace, and
   `ExternalSecretLifecycle`, which implements it: scope, finalizer, deletion.
5. `ClusterExternalSecret`, which extends 4 by the controller that creates the
   ExternalSecrets, and implements `ManagedSecrets` in its turn.
6. `AuthChain` and `BackendCalls`: identity, credential, ENV clients, retries.

Left, in this order: an abstract `SecretMirror` (a Secret that only takes whole
steps towards the backend, or keeps what failed) for `SecretSync`;
`templateFrom` sources in `SecretSync`.

## 3. Modules

### StoreRebuild

One store, the credential objects its auth block names (`Sources`), the
ExternalSecrets that use it (`Consumers`).

| Variables | Code |
|---|---|
| `api`, `cache`, `pending` | the store object at the API server, in the informer, and the versions in between; a version has generation, trigger annotation, finalizer, Ready condition with `observedGeneration`, and `clientGeneration` |
| `cred` | the version of each referenced Secret or ServiceAccount |
| `trigQ`, `trigPc` | queue and step of the Secret and ServiceAccount controllers |
| `storeQ`, `storeTimer`, `storePc`, `snap`, `read` | queue, delayed requeue and running round of the store controller, with what it has read |
| `clients` | the client registered in the pool under the store's key |
| `esQ`, `esPc`, `held`, `synced`, `failed` | queue and round of each ExternalSecret, the client it holds and the one its Secret was written with |
| `clock`, `asked` | unique trigger values; history: the credentials when the trigger was last set |

Every action names its function in its comment and its lines in `PROJECT.json`.
A write with a resourceVersion check (`Update`, `MergeFromWithOptimisticLock`)
succeeds exactly when the cached copy it was made from is the API server's, that
is when nothing is `pending` (`GuardedWrite`). Made any earlier it is refused, and the
whole round, its rebuild and its bump included, starts again (`StoreConflict`): as often
as the informer is late, and not counted as a fault. A round that has just written its
status and reads the store again to clear the trigger is the usual case. A patch without
the check (`PatchTriggerAnnotation`) always succeeds. `Observe` applies both controllers' update predicates to what the
informer saw before and sees now, so `Relist`, which skips versions, also merges
their events. `Restart` empties queues, rounds and pool; the initial lists then
put every object, the referenced Secrets included, into its queue.

Not obvious in the code, and modelled as it is:
- a rebuild round ends with an empty `Result`: nothing but events, or the timer of
  an earlier round, starts the next one;
- lines 166-173 of `secretstore_controller.go` cannot be reached, because
  `needRecreateClient` already asks for a rebuild when there is no condition;
- an ExternalSecret whose client is not registered builds it without the
  freshness guard and without looking at the store's status (`EsFill`);
- a round whose trigger clear is refused has bumped `clientGeneration` already, and the
  repeated one bumps it again; the model counts it modulo `CounterSpan`, as an `int64`
  does modulo 2^64, so that repeated rounds keep the state space finite;
- with polling off a failed fetch is not retried: only an event starts another
  round (`failed` in the properties).

Abstracted: condition messages (`SameStatus` compares what the model keeps);
which field references which object; the `ClusterSecretStore` kind (same code);
deletion of the store. One store: a credential that several stores name is a hazard
here only as far as a retry skips the stores that were patched before.

Four constants name behaviours of the environment that break a property, so
that runs can show both sides, and theorems name the ones they exclude:
`RotateInWindow` (a rotation may come while a skipped trigger would lose it),
`AtomicFill` (an ExternalSecret registers a client in the step that builds it),
`LaggingStart` (a store round may start from a copy older than its last status),
`FailedBuilds` (store rounds may fail to build their client, any number of times;
the other failures are counted by `MaxFaults`).

### SecretSync

One ExternalSecret, its target Secret, one round at a time (controller-runtime
never hands one object to two workers).

| Variables | Code |
|---|---|
| `backend`, `time` | documents of KMS or OOS; a value is the pair of backend key and the time its document was set, a document a set of fields |
| `spec`, `status` | the ExternalSecret: entries and template; the keys of `status.dataSyncResults` (backend keys, `Succeeded`, placeholders) |
| `esSeen`, `esCurrent`, `seen`, `seenCurrent` | the informer's copies of the ExternalSecret and of the Secret |
| `secret` | the target Secret: data, managed template keys, template label |
| `pc`, `snap`, `mine`, `rvOk`, `got`, `current`, `plan` | the round: its copies of spec and status, what each fetch returned, the Secret as read, secretMap after the template |
| `told`, `verdict`, `owns` | history: were all status writes of the round accepted, how did the last round end, which Secret keys has each entry delivered |

Steps follow `syncIfNeedUpdate`: pull limiter, one step per entry, stale client,
uncached read, zero-output guards, template, deferred status, write decision,
`HandleSecretOperation` (reads the cache), final status. Maps keyed by backend
key in the code (`errorsMap`, `succeededKeys`) are sets of backend keys here, so
entries that share a key share their fate as they do there. A status write is
skipped when nothing changed, refused when the object has moved on, and a failed
one is only logged. An entry with paths may come through whole, in part (paths that
the document lacks) or not at all; `CameWhole` says which.

Left out: the notice about a disabled ClusterSecretStore controller,
`templateFrom`, creation in a terminating namespace (which returns no error),
`replaceKey` rules, two ExternalSecrets with one target, context cancellation
(the same as `Restart` for the state). The user's meddling with the Secret is its
deletion. Specs are chosen by the MC module: twins of one backend key (by path
and raw) with paths that a document covers only in part, extracts, no source at
all, and templates that replace the data, render nothing, or cannot be parsed. A template without any data source is left
out of the runs; the theorems cover it.

### ClientPool

The keys of one store: the plain one of each backend and one per custom
endpoint. Two kinds of actor, the store controller (`Store`) and ExternalSecret
workers.

| Variables | Code |
|---|---|
| `pool` | `KmsClientMap` and `OosClientMap`; a client is represented by the provider instance it was built with |
| `ram`, `running` | `RamProvider` of the backend's `Manager`; the instances whose refresh routine runs |
| `store`, `storeSeen`, `es`, `esSeen` | phase of the store, spec and phase of each ExternalSecret, at the API server and in the informer |
| `queued`, `pc`, `mode`, `left`, `todo`, `want`, `at`, `inst` | queue and running round of each actor: keys still to drop or to get, the key at hand and the instance just made for it |
| `tracked` | `compositeKeysByES` |
| `raced` | history: keys on which two actors' operations overlapped since it was last put in order |

Whatever the code does under one lock or with one map call is one step; the
client map and the registry are changed by different ones. `Delete` takes the
client out of the map (`DropClient`), then its provider out of the registry and
stops it (`StopProvider`; the code stops it outside the lock, when nobody else
can reach it any more). `NewClient` first reads credentials, which may fail, then
registers the provider (`RegisterRam`), then validates the endpoint, which may
refuse it (an outcome of `EsRegister`); `Register` follows. `DeletePrefixed`
collects its keys at one moment (`StoreRange`) and deletes them one by one. A round of an ExternalSecret reads the object, lists
the others, reclaims, and then asks for a client for each entry.

The store controller is asked for a rebuild by `EditStore`; when the code asks
for one is the subject of `StoreRebuild`. The freshness guard only decides whether
a client found is used, which changes nothing here. A hit and its use are
therefore one step (`EsHit`).

Left out: the ENV store and a second store (other keys), a store created again
under the same name, the unknown provider name of
`deleteUnreferencedCompositeClients`, `Range` missing or seeing a client
registered while it walks, a `Stop` that runs into its timeout, and the Secret's
deletion before `cleanupEndpointClients` (its failure is that of the list).

`MergedEdits` names a behaviour that breaks a property: with `FALSE`, an
ExternalSecret is edited only after a round has tracked the spec before.
`TimedRounds` (rounds that start without an event, from polling) breaks none and
only costs states: the run has it off, the theorems hold for both values. The
store's deletion counts as two of the bounded events, its failed finalizer
update as none, because it leaves the round where it was.

### ManagedSecrets, ExternalSecretLifecycle

`ManagedSecrets` is the promise made about one namespace, without
any controller: an ExternalSecret is absent, new, held by its finalizer or
leaving; a Secret is written only while it is held or leaving; it leaves only
after a removal (`Remove`) that left no Secret but one that the operator was not shown
(`shown`, `overlooked`); and once the source has gone (`Close`) none is created.

`ExternalSecretLifecycle` is the controller that keeps the promise, for one
ExternalSecret in each namespace.

| Variables | Code |
|---|---|
| `scope` | `--watch-namespaces` and `--exclude-namespaces` of the running process |
| `ns`, `es`, `secret` | phase of each namespace, its ExternalSecret (deletion timestamp, finalizer), whether its Secret is there |
| `esSeen`, `esCurrent` | the informer's copy, and whether it is the newest |
| `secretSeen` | does the informer's copy of the Secret say that it is there |
| `overlooked` | history: namespaces where the last cleanup left a Secret, because the informer did not show it |
| `esQ`, `esPc`, `esRv` | queue, step of the round, and whether the copy the round holds is the newest |

`Watched` is the check in `Reconcile`, `Passes` the predicates of the watch and
`Cached` the restriction of the manager's cache: three places that do not agree
(see *What the violation runs show*). `Sync` stands for the round `SecretSync`
describes: the Secret is written, created or updated as the informer's copy of it says,
and refused when that copy is wrong (`WriteRefused`); in a terminating namespace it is
not written. `Clean` is `finalizeExternalSecret`: it deletes the Secret that the informer
shows, and takes one that it does not show for deleted. A deletion round reports the
deletion in the status first (`ReportsDeletion`), which is one more event of the object,
so that a further round may run on an old copy after the finalizer has gone; the
status writes of other rounds change neither spec nor generation and make no event.
An update of the object succeeds from the newest copy only. A restart may come with
another scope, and delivers what the caches hold as creations.

### ClusterExternalSecret

Extends the lifecycle: its variables are those of the ExternalSecrets the
controller creates, its steps are among the steps of this module.

| Variables | Code |
|---|---|
| `label`, `store` | labels of the namespaces, access rule of the ClusterSecretStore |
| `ces` | the object: deletion, finalizer, selection, `status.provisionedNamespaces` (`ledger`), `status.failedNamespaces`, the Ready condition |
| `nsSeen`, `cesSeen` | the informer's copies |
| `cesQ`, `cesPc`, `base`, `todo`, `orphans`, `prov`, `fail` | queue and running round: the version it works on, namespaces still to do, new ledgers |
| `admitted` | the namespace that has passed the first access check (`handleMatchingNamespaces`); `createOrUpdateExternalSecret` makes it again |
| `slipped` | history: children the ledger lost through a failed call, a round cut short, or a status not written |
| `missed` | history: has `mapNamespaceToCES` dropped an event since the last listing |

A selection, like an access rule, is the sequence of its checks in the order the
code makes them (`Allowed`): the first that matches decides unless one before it
cannot be evaluated, as in `IsNamespaceAllowedForClusterExternalSecret`. A namespace
may be absent at first. `DropNamespace` is `mapNamespaceToCES` when its `List` fails: the
event is logged and dropped.

Abstractions: a write is accepted when the object still equals the version the
round works on (`Writable`), where the API server compares resourceVersions: a
write that changes the object and back is not told apart, which is a write that
the server would refuse and that would then be made again. `Provision` reads the
ClusterSecretStore as it is, not from the cache; nothing watches it here, so an old
copy adds only a delay before the next round. Namespaces are provisioned in any
order. One object, whose `spec.externalSecretName` does not change.

### AuthChain, BackendCalls

`AuthChain` is the pure part of `GetAuthCred`: which tiers a configuration yields,
in which order, and which it refuses. `BackendCalls` is a worker on its way to
an answer.

| Variables | Code |
|---|---|
| `env`, `bad`, `ready`, `age` | the environment's auth configuration, backends whose default endpoint is refused, registered ENV clients, age of `envInitFailure` |
| `mu`, `began`, `todo`, `failed`, `progress` | the running `EnsureENVClient`: its mutex, when it began, backends left, what happened |
| `auth`, `client`, `tok`, `cred`, `tmu` | a store's configuration and client, its ServiceAccount token, the credential bought with it, the mutex |
| `pc`, `way`, `calls`, `cancelled`, `late` | each worker: its step, the client it goes through, attempts, cancellation, attempts after it |

Moments are kept as what is left of them or as their age, and `Tick` may come
between any two steps, so a credential can expire between a check and its use.
Which errors `JudgeNeedRetry` takes for transient is the environment's choice in
`Call`: every answer may be either. The configuration of a process does not change
while it runs, so a backend's ENV client can be built or it cannot (`CanBuild`).
A client may fail to be built for any reason of its own (a referenced object
that cannot be read, a refused endpoint, a uid that is no number).
Left out: the remote role (one more assumed role after any tier).

## 4. Runs

| Run | Question | Bounds |
|---|---|---|
| `store_settled` | is any edit, rotation or rebuild signal lost when polling is off? | 3 generations of which one is invalid, 2 credential versions, 1 fault, no failed build |
| `store_races` | what holds under every race? | 2 generations, 2 credential versions, late registration, lagging starts, rotations at any time, any number of failed builds |
| `store_liveness` | does every Secret end up on the current spec and credentials, however often a write is refused? | 2 generations, 2 credential versions, lagging starts, polling on |
| `store_lost_trigger` | violation: "already guarantees a pending rebuild" | 1 rotation suffices |
| `store_stale_fill` | violation: "keeps reconciles off stale cached clients" | 1 edit suffices |
| `store_counter_back` | violation: "a monotonically increasing client-rebuild counter" | no edit, 1 credential version, lagging starts |
| `sync_rounds` | does a round destroy, lose or turn back data, or leave a false status, and does the Secret converge? | 6 specs, 1 backend change, 1 user action, 1 failed call or restart, cleanup on |
| `pool_races` | do concurrent builders, droppers and reclaimers leave the two maps in order, also when an endpoint is refused? | store controller and 2 ExternalSecrets (symmetric), one backend, one custom endpoint, 2 edits, deletions, failures or restarts |
| `ces_rounds` | without any poll: is every event seen, is the status exact, does the ledger forget nothing, is `ManagedSecrets` implemented? | 1 namespace, 2 labels, 2 selections, the store there or missing, 2 events of users, 1 failed call or restart |
| `ces_liveness` | does a selected namespace end up provisioned, does everything go? | 1 namespace, 1 selection, 1 event, 1 failed call or restart, polling on |
| `es_excluded_delete` | violation: "must still reach the reconciler" | 1 namespace, 2 events, 1 restart with other flags |
| `env_calls` | do two workers get a client, a live credential of the right identity, and an end? | 2 workers, 2 backends, 7 kinds of store configuration, 2 of the environment, lifetimes of 2 and 5 ticks, failure cached for 2, 3 attempts |

Why the bounds are enough. `StoreRebuild`: three generations give an edit during a
round that already serves an edit, with a failing validation between them; two
versions of a credential and one fault give every order of one rotation, one
failure and one rebuild; a lost signal needs one missed event, which one fault or
one race produces. One consumer and one credential object are enough for the
runs because `StoreSignals_proofs` proves their properties for any number of
both; two consumers with two generations were checked by hand before. That a
second consumer can matter is shown by the failed build below. `CounterSpan = 2` is
the narrowest counter, which is back where it was after two bumps; the theorems
hold for every span above 1, and the violation run has 9, more than it can bump.
`SecretSync`: two keys and two fields are the smallest with a twin,
a partly covered document and an unrelated entry; two rounds separated by one
change of each kind (backend, spec, failure) reach every retained, stale or
half-reported state. With two faults, or two edits, the same properties were
checked by hand in longer runs. `ClientPool`: two ExternalSecrets and the store
controller are the three parties that meet on a key (a last user, another that
may count as one, and the owner of all keys). With two events one of them
leaves while another leaves, is edited, fails or restarts; the store is deleted
only when nothing else happens. The same run with timed rounds and the deletion
as one event (5.8 million states) was checked once by hand. Six slots are enough
instances per key (`PoolAssumption`), so a step never lacks one.
`ClusterExternalSecret`: two events are one during the round
that serves the other, and the failed call or restart may come between any two
steps of either; the second selection holds a condition that cannot be
evaluated after one that decides. Rounds with a second namespace at hand differ in the sets that
`todo`, `prov` and `fail` are: namespaces do not read each other's state, and the theorems
cover any number of them. Two namespaces, without failed calls, were checked by
hand before. In `ces_liveness` one event and one failure separate what was done from what the ledger says.
`BackendCalls`: two
workers and two backends are the one that fails and the one that is hurt by it;
a lifetime of two ticks has a window of nothing but the floor of one, one of five
a fifth; three attempts are a first, a middle and a last one.

TLC's sizes (two workers): `store_races` 6.3 million states, `store_settled` 5.0
million, `env_calls` 3.7 million, `ces_rounds` 1.9 million, `pool_races` 1.0 million,
`sync_rounds` 0.7 million, `store_liveness` 0.5 million and `ces_liveness` 0.2 million, each in
less than two minutes.

In `store_settled`, `store_races`, `pool_races`, the runs of `ClusterExternalSecret` and the
violation runs TLC does not report deadlock: with polling off, or all objects
deleted, the operator rests when everything is done.

### Fairness

`StoreRebuild!FairSpec` has weak fairness of the informer's delivery, of each
trigger controller, of the store controller and of each ExternalSecret's steps
and poll: workers take requests as long as the process runs, and polling puts
the object back after the rotation interval. One assumption is stronger: the
delivery while a round is about to clear its trigger is strongly fair, that is, the
informer is not late every single time. Without it the operator may go round for
ever: rebuild, status, refused clear, and again (TLC shows that cycle). The code has
nothing against it but the backoff of its queue, which grows while an informer's
delay does not. Faults, users and the store's
delayed requeue have none. `SecretSync!FairSpec` has weak fairness of the round
(polling starts it, a worker runs it), which waits for the object's newest copy and so
takes its delivery as one of its steps, and of the Secret's informer.
`ClusterExternalSecret!FairSpec` has weak fairness of the rounds of both
controllers, of the informers (that of Secrets included) and of this controller's poll, and of Kubernetes'
own work: the garbage collector and the emptying of a terminating namespace.
Users, failed calls and restarts have none.

### What the violation runs show

- **A rotation can be lost** (`store_lost_trigger`). The Secret controller skips a
  store that carries a trigger. The rebuild of that trigger may have read the
  credential before it rotated; it then clears the trigger and with polling off
  the old credential stays in the client.
- **A stale client can be registered for good** (`store_stale_fill`). An
  ExternalSecret that missed the cache builds its client from the store it read
  and registers it after the rebuild's. The guard looks at the store's status,
  which is settled.
- **`clientGeneration` can go back** (`store_counter_back`). `updateStatus` computes it from
  the store as read at the start of the round, and writes it over the newest object.
  A round that starts before the informer shows the status of the round before it, and
  whose client cannot be built, writes the old value back; one that rebuilds writes
  the same value twice. A consumer whose event is judged by that counter
  (`externalsecret/predicates.go`) may miss the rebuild.
- **A deletion can be dropped** (`es_excluded_delete`). When a namespace is excluded
  by a restart, an ExternalSecret there that has its finalizer and is being
  deleted reaches the watch as a creation or an update, never as the `Delete` the
  predicate lets pass. It stays terminating, and its namespace with it.

Six more disagreements met while modelling are recorded here. Where a property
speaks against them it names the exception, or the bounds keep the case out:

- "When a SecretStore/ClusterSecretStore rebuilds its backend client, all ExternalSecrets
  referencing it are automatically triggered to resync" (`docs/crd_resources_guide.md:62`)
  fails after a build that fails. ES2 holds the old client and is about to ask the
  guard. The spec is edited; the store's round drops the client, its build fails,
  and the status says so of the new generation. ES1 misses the cache and registers
  a client of the new spec. The store's retry finds a client, a condition and no
  newer generation, so it reports Ready without a rebuild and without a bump. Now
  ES2 passes the guard and writes its Secret through the old client, and nothing
  tells it to run again. `NoLostSignal` is violated with `FailedBuilds = TRUE` and two
  consumers, or with one consumer and one fault.

- "When an ExternalSecret is deleted, the finalizer unconditionally deletes the target
  Secret" (`docs/crd_resources_guide.md:268`) fails for a Secret that was just created.
  `finalizeExternalSecret` (`externalsecret_controller.go:326-352`) reads it through
  the manager's cache; `NotFound` counts as deleted, the finalizer is removed, and
  nothing owns the Secret: it stays. The passing runs contain this: `ManagedSecrets`
  and `Reclaiming` except exactly the Secrets in `overlooked`. The invariant
  `\A n \in Namespaces : es[n] = Absent => ~secret[n]`, added to `ces_rounds`, is violated:
  create, finalizer, Secret, delete, cleanup before the Secret's event, finalizer off.
- "Partial failures never delete the Secret" (`docs/template_processing_guide.md:270`)
  fails for path twins. Entry 1 reads `k1` through the paths f→a, g→b of a document
  that has only f, and gets `a`. Entry 2 reads `k1` raw and its call fails. Entry 1's
  error exemption fails too (its targets are not all produced), both count as failed,
  and with cleanup on the Secret is deleted although `a` was fetched. `sync_rounds` has
  such rounds (`Twins`): `WholeEntryProtects` says what does hold, that the Secret is
  deleted only if a call failed for every entry's key and no entry came through whole.
- "Skipped rounds report via status, so no error is returned"
  (`pkg/controller/externalsecret/externalsecret_controller.go:1331`; likewise
  `docs/template_processing_guide.md:269`) fails for twins under a template. Two
  entries read one key under one name, one call fails, the other succeeds. The
  status exempts the failure (`docs/advanced_usage.md:261`) and says `Succeeded`;
  `shouldSkipSecretWrite` counts it, finds a template, and skips the write: the
  Secret stays as it was and nothing says so. Two extracts of one key whose
  document has become empty do the same without a template: the plan is empty, so
  the write is skipped. Both violate `NoFalseSuccess`; the specs of `sync_rounds`
  have no such twins, and `NoFalseSuccessHolds` excludes exactly these
  (`NoHidingTwins`).
- A backend secret named like an entry of the status that is about no secret
  (`rate_limit`, `update_operation` and the others of `resourceManagementStatusKeys`)
  is taken for one: a later placeholder removes its failure from the status.
  `StatusMatchesRound` is violated; `KeysAreNoPlaceholders` excludes it.
- A deleted store can leave a client. A worker misses the cache and reads the
  store while it is still in the informer. The store's controller drops all
  clients and removes the finalizer; then the worker registers its own. No round
  of the store follows, and the client and its refresh routine stay until the
  process stops or the store is created again. `UnusedReclaimed` speaks only of
  custom endpoints that no ExternalSecret asks for.

Two more ways to leave a client of a custom endpoint behind are excluded from the
passing runs and listed as hazards. With `MergedEdits = TRUE` an endpoint that is
added and removed between two rounds is never tracked, while it may have made
another ExternalSecret keep the client. And when `spec.provider` changes or two
backends are used with one store and endpoint (`MCClientPool!TwoBackends`), a
client is dropped from the wrong backend, because keys and references do not
name it. Both violate `UnusedReclaimed`.

With `LaggingStart = TRUE`, `StatusMatchesRound` of `SecretSync` is violated as
well: a round that starts from an older copy compares its results with that copy
and may skip the write of a status that did change. The runs therefore start
rounds from the newest copy, and the hazard is listed with that note.

## 5. Proofs

`StoreRebuild_proofs` holds, for every value of the constants:

- `TypeCorrect`: `Spec => []TypeOK`.
- `ClearedAfterSignalHolds`: a trigger is cleared only by the round it started,
  after that round persisted `clientGeneration`. No assumption beyond the
  types of the constants: all races are included. The argument needs only
  that a round in its clear step has its status at the API server
  (`ClearPersisted`), and that a write that is not refused finds nothing pending.
- `NoLostSpecEditHolds`: assuming `AtomicFill`, while the registered client is of
  another generation than the store, the store controller has work queued,
  running or on its way.

`NoLostSpecEdit` is not inductive: it says nothing of why a round that ends leaves
the right client. The inductive invariant `IInv` adds: what the informer has to
deliver leads in order from its copy to the API server's (`Informer`); no
status speaks of a generation its round had not read (`ObservedBehind`); the
registered client is not newer than the informer's copy and not older than what
any status or the running round speaks of (`ClientBetween`); a round that missed
an edit, and whoever registered a client before one, has another round queued
(`RoundCurrent`, `ClientCurrent`); nobody holds a client it has not registered
(`NoneUnregistered`, where `AtomicFill` is used). `store_stale_fill` shows that
the assumption is needed. `IInv` was checked by TLC before it was proved.

`StoreSignals_proofs` holds what the store's controller owes to others. Each step is
put into one of a dozen kinds by what it does to the store object, the queue, the
round and the trigger controllers (`Kinds`); the lemmas after that see only the
kind. Layers of invariants build on each other:

| Invariant | Says | Gives | Assuming |
|---|---|---|---|
| `RestInv` | a store that looks mid rebuild has a round to come (`RestSettled`), since no copy's status is ahead of the object's (`NewestStatus`), a round lags only with a further round queued (`RoundLags`), is at a step that fits what it read (`Decision`), and a trigger value is never used twice (`TriggersUsed`) | `NoStuckGuardHolds` | nothing |
| `HonourInv` | a rebuild past its credential read has read every object (`ReadAll`), not before the versions its trigger was set for (`AskedThere`, `ReadInTime`) | `TriggerHonouredHolds` | nothing |
| `RotationInv` | the round that works for the trigger has read the current version, and so has the client it registered until the trigger is seen cleared (`ServedCurrent`, `ClearedCurrent`); a client behind a credential has a trigger set or on its way (`Announced`) | `NoLostRotationHolds` | `AtomicFill`, `~RotateInWindow` |
| `CounterInv` | a round that is to write a status has started from the counter that every copy of the store shows (`CounterKnown`) | what `SignalInv` needs of the counter | `~LaggingStart` |
| `SignalInv` | for each consumer: a client replaced after an edit or a rotation has a rebuild, a status or an event to come that puts the consumer back into its queue (`EditSignalled`, `SignalServed`, `SignalCleared`, `SignalDue`) | `NoLostSignalHolds` | all of these, `~FailedBuilds` |

`SignalInv` contains the others and `IInv`: a consumer is told by the increment of
`clientGeneration`, so one must know that the increment happens, that the informer
brings it, and that the old client was replaced for a reason that leads to one.
With any of these four constants the other way TLC finds `NoLostSignal` violated.

`SecretSync_proofs` puts the steps into kinds as well (`Kinds`: the world outside,
the steps of a round, the ways to give up, the writes). `RoundInv` holds what a round
knows, and each theorem adds what it needs:

- `TypeCorrect`: types, shapes of data, plans and outcomes (`Types`).
- `FailedEntriesKeepTheirKeysHolds`: no assumption. An entry has delivered only keys it
  may write (`OwnsTargets`), what an entry fetched has only its targets
  (`FetchedFromEntries`), the Secret is what the round read or the user has
  deleted it (`SecretAsRead`), and a round with failures that writes merges
  (`FailureMerges`, from `Decided`).
- `NoValueRegressesHolds`: no assumption. What the Secret has of a document is not newer
  than the document (`Aged`), what a running round has fetched is not older than
  what the Secret has (`NotOlder`), and a plan has only fetched or rendered values
  (`PlanFetched`). `ReadFromCache`, the mutant, breaks `SecretAsRead`.
- `WholeEntryProtectsHolds`: no assumption, on specs or on anything else. A write of an
  empty dataset is a total failure or finds an empty Secret (`EmptyWriteDeletes`, from
  the guards the round has passed, `Planned`); with cleanup on there is no empty Secret
  (`Filled`); and a round that counts as total failure has a failed call for every
  entry's key and no entry that came through whole (`TotalFailure`).
- `StatusMatchesRoundHolds`, `NoFalseSuccessHolds`: assuming `~LaggingStart` and
  `KeysAreNoPlaceholders`, the second also `NoHidingTwins`; each is false without
  (section 4). `StatusInv` follows the round's copy of the status: it is the
  object's as long as every write was accepted (`CopyNewest`, `CopyTold`), and from
  the decision on it names the failures (`FailuresReported`). That a skipped write
  leaves a failure in the status is `SkipReported`.

All of these invariants were checked by TLC on the specs of `sync_rounds` before
they were proved. `FiniteSetsExt!Max` is a CHOOSE: `MaxBelow` shows with
well-foundedness of the naturals that it is there.

`ClientPool_proofs` assumes only `PoolAssumption`:

- `TypeCorrect`: `Spec => []TypeOK`, together with `AtKey`: an actor is at a key
  exactly while it works on one, the store controller only at the plain key of its
  backend when it builds.
- `RegistryExactHolds`: the running refresh routines are those in the registry,
  each under one key. It is inductive with `AtKey`: a new instance is neither
  running nor registered, and what a step takes out of the registry it stops.
- `ServedUnlessRacedHolds`: a pooled client has its own provider unless an actor is
  at its key or operations on it overlapped. The invariant `Served` says for each
  key without a race that at most one actor is there, and what pool and registry
  hold at each of its steps (`ServedKey`), and that a refused endpoint never has a
  client. Three lemmas cover the steps: those that touch neither map
  (`ServedStays`), arrivals at a key (`ServedArrival`) and changes at the actor's
  own key (`ServedAtKey`). `AtKey` and `Served` were checked by TLC first.

`ClientReclaim_proofs` proves `UnusedReclaimedHolds`: at rest nothing is left under a
custom endpoint that no ExternalSecret asks for, for any number of them, with or
without rounds by time. The invariant `Reclaim` has two parts.

- `Minded`: every composite key that has a client or a provider is minded by an
  ExternalSecret whose finalizer is there. It minds the keys its round has yet to
  drop, and, unless it is being deleted, the endpoints it tracks or will track (`Aim`)
  and those the informer's copy asks for (`Seen`). Who has dropped a client and is
  about to stop its provider does not mind a client another puts there
  meanwhile (`MindsClient`). What a round leaves out of its list because another
  asks for it, the other minds (`ListReclaim`); what is built, its builder tracks
  (`BuilderMinds`).
- `Fit(o)`, about one ExternalSecret: of tracker, round, informer and API server at
  most one neighbouring pair differs (`OneLag`), a deletion is seen after it
  happened (`InOrder`), a round works on keys of its backend and builds only what
  is tracked (`AtWork`), and with nothing queued the last round has read what the
  informer has (`UpToDate`).

A step of one ExternalSecret leaves the others as they are (`ApartStays`), so each action
has a lemma about one of them. The theorem assumes `MergedEdits = FALSE`, which `OneLag`
needs, and that all specs name one backend (`OneProvider`), because reclaiming goes by
the backend of the spec at hand; section 4 says what happens otherwise. TLC
checked `Reclaim` on the instance of `pool_races` with `TimedRounds = TRUE`, that is, on
every step the model has, before it was proved.

`ExternalSecretLifecycle_proofs` assumes only `LifecycleAssumption`:

- `LifecycleTypeCorrect`: types, and that no absent object gets a finalizer. This
  second half is not a matter of types: a round adds a finalizer to the object it
  read some steps ago. The inductive invariant `Held(n)` says that a Secret, a round
  about to write one and a copy with the finalizer all mean that the object has
  its finalizer; that a round about to add or remove it works on the object
  as it is, unless that has changed since its copy; that a deletion round, however
  old its copy, never meets an object held by a finalizer that is not being deleted;
  and that after the cleanup no Secret is there but an overlooked one.
- `LifecycleManaged`: the controller implements `ManagedSecrets`. Every step is a
  step of one namespace (`StepMoves`): it leaves child and Secret as they are, or it
  is the `Create`, `Hold`, `Write`, `Remove`, `Erase`, `Leave`, `Release` or `Show` of that
  namespace, which `Held` enables. What it says of deletion is as much as the code does: the finalizer
  goes after a cleanup that left no Secret that the informer showed.
- `DeletionPendingHolds`: under `Scopes = {Everywhere}`, no deletion is forgotten. The
  invariant `Unforgotten` adds to `Held` that the informer's newest copy is the object,
  and that a deletion it has shown is queued or in a round; a step at one
  namespace is shown not to disturb the others (`UnforgottenElsewhere`).
  `es_excluded_delete` shows that the assumption is needed.

`ClusterExternalSecret_proofs` builds on these: `Kinds` shows that a step of the whole
is, for the lifecycle, a step of one namespace, an application, a restart or
nothing, so `LifecycleTypes`, `Unforgotten` and `Held` carry over.

- `TypeCorrect`, `ChildDeletionPendingHolds`: as above, for both controllers.
- `ManagedWhileThereHolds`: the refinement. What is new is that nothing is created once
  the object has gone: `Guarded` says that a round that provisions has put its
  finalizer on an object that is there, and that only a round that has seen the
  deletion takes it off.
- `LedgerAccountsHolds`: inductive with `Covered`: what is there of the ledger a round
  started from is still to come (`todo`, `orphans`), in the new ledger, or accounted for. `Evolves` lists the ways the object itself can change.
- `StatusExactHolds`: no assumption on the constants; failed calls are included, and the
  property itself excepts an event that `mapNamespaceToCES` has dropped since the last
  listing (`missed`). With nothing queued or running and nothing missed, the status the informer shows fits its copies of the namespaces, or a
  status that differs, or a deletion, is on its way and will queue a round
  (`AtRest`). That takes `RoundCurrent` (a round with nothing queued behind it works on
  what the informer shows, up to the finalizer, the one change that makes no event)
  and `Sorted` (what it has done, failed and has still to do are the namespaces
  selected). `NotMapped` is why both versions of a namespace must be mapped: with the
  new one only (`MapsNewOnly`, the mutant) this step of the proof fails.

`BackendCalls_proofs` assumes only `CallsAssumption`:

- `TypeCorrect`; `MutexesOwnedHolds`, inductive as it stands.
- `IdentityKeptHolds`: rests on `FirstTier`, a lemma about the pure operators: for every
  configuration a store can have, `GetAuthCred` refuses or the head of the chain is
  the identity the documentation asks for.
- `ServesLiveCredentialHolds`: every way into `call` finds a live credential, because the
  refresh window is never empty (`WindowNotEmpty`) and what is issued is alive.
- `WorkingProviderServedHolds`: the invariant `EnvSettled` says that while a failure is
  cached every backend that can be built has its client, and so has each one a
  running initialisation has gone past.
- `RetriesBoundedHolds`: with `Counts`, which relates a worker's attempts to the step
  it is at.

Every invariant and action property of the passing runs is stated by a theorem. Only
model-checked is liveness (`Converges`, `Provisioning`, `Reclaiming`), which is outside the
prover's reach.

## 6. Not modelled

- Generated code, the API group, charts and tests; `kms/private_ca.go`, a table of
  certificates, and the validation of endpoints, a regular expression: no state.
- The text functions of templates and the formatting of messages, metrics and logs.
- In `SecretSync`: `templateFrom`, `replaceKey` rules, two ExternalSecrets with one
  target. In `ClusterExternalSecret`: a change of `spec.externalSecretName`, which leaves
  the ExternalSecret of the old name to the garbage collector (listed as a hazard).
  In `ClientPool`: `NewClientByENV` (its registration is in `BackendCalls`), two backends
  under one store and endpoint (listed as a hazard).
- Leader election and start-up wiring: one process runs the controllers.
