----------------------------- MODULE ClientPool -----------------------------
(***************************************************************************)
(* The clients of one store and the RAM credential providers behind them.  *)
(*                                                                         *)
(* The pool maps a client key to a client; the RAM registry maps the same  *)
(* key to the provider instance whose refresh routine feeds that client.   *)
(* The two maps are changed by separate steps of several goroutines:       *)
(*   - the store controller drops all clients of the store and builds the  *)
(*     plain one again, or drops them when the store is deleted;           *)
(*   - every ExternalSecret worker builds the clients it misses, under the *)
(*     plain key or under a composite key of its own endpoint, and drops   *)
(*     composite clients nobody refers to any more.                        *)
(*                                                                         *)
(* A client is represented by the provider instance it was built with.     *)
(* StoreRebuild says when a store is rebuilt and whose spec a client has.  *)
(***************************************************************************)
EXTENDS Naturals, FiniteSets

CONSTANTS
    ExternalSecrets,
    Store,          \* the store controller, an actor beside them
    Providers,      \* backends (kms, oos)
    StoreProvider,  \* the backend the store's spec configures
    Endpoints,      \* custom endpoints
    EsSpecs,        \* what an ExternalSecret may ask for: [provider, uses]
    Slots,          \* enough to tell the provider instances of one key apart
    MergedEdits,    \* may an edit follow before a round has seen the one before?
    TimedRounds,    \* may a round begin without an event (rotation interval, retry of a refused client)?
    MaxEvents       \* bound on user actions, failed calls and restarts; deletion of the store counts as two

Actors == ExternalSecrets \cup {Store}
Plain == "plain"
Keys == Providers \X (Endpoints \cup {Plain})
NoKey == <<"none", "none">>

\* A provider instance is named by the key it was made for and a slot.
Instances == Keys \X Slots
None == <<NoKey, 0>>

ASSUME PoolAssumption ==
    /\ Store \notin ExternalSecrets /\ Plain \notin Endpoints /\ NoKey \notin Keys
    \* Of one key's instances one is registered, one in the pool, one per actor in hand.
    /\ IsFiniteSet(ExternalSecrets)
    /\ Slots \subseteq Nat /\ IsFiniteSet(Slots) /\ Cardinality(Slots) >= Cardinality(Actors) + 3
    /\ StoreProvider \in Providers
    /\ \A s \in EsSpecs : s.provider \in Providers /\ s.uses \subseteq Endpoints \cup {Plain}
    /\ MergedEdits \in BOOLEAN /\ TimedRounds \in BOOLEAN /\ MaxEvents \in Nat

VARIABLES
    pool,      \* KmsClientMap and OosClientMap: the instance a key's client uses
    ram,       \* RamProvider: the instance registered under a key
    running,   \* instances whose refresh routine runs
    store, storeSeen,   \* phase of the store: at the API server, in the informer
    es, esSeen,         \* spec and phase of each ExternalSecret, likewise
    queued,    \* [Actors -> BOOLEAN]: has the actor's queue an item?
    pc,        \* the step of the actor's round ...
    mode,      \* ... and the phase of the object it read
    left,      \* backends the store controller has yet to range over
    todo,      \* keys to drop
    want,      \* keys to get a client for
    at, inst,  \* key at hand, and the instance just made for it
    tracked,   \* compositeKeysByES: endpoints of the last round; {} is no entry
    raced,     \* history: keys on which two actors' operations overlapped
    events

poolVars  == <<pool, ram, running>>
objects   == <<store, storeSeen, es, esSeen>>
roundVars == <<pc, mode, left, todo, want, at, inst>>
vars == <<pool, ram, running, store, storeSeen, es, esSeen, queued, pc, mode, left, todo,
          want, at, inst, tracked, raced, events>>

Phases == {"live", "terminating", "gone"}
EsObject == [spec : EsSpecs, phase : Phases]

\* compositeClientKeysFromSpec: only custom endpoints make composite keys.
Composite(spec) == spec.uses \cap Endpoints

Held(f) == {f[k] : k \in Keys} \ {None}
InUse == running \cup Held(pool) \cup {inst[a] : a \in Actors}
Fresh(k) == ({k} \X Slots) \ InUse

-----------------------------------------------------------------------------
(* The environment                                                         *)

Init ==
    /\ pool = [k \in Keys |-> None] /\ ram = [k \in Keys |-> None] /\ running = {}
    /\ store = "live" /\ storeSeen = "live"
    /\ es \in [ExternalSecrets -> [spec : EsSpecs, phase : {"live"}]] /\ esSeen = es
    /\ queued = [a \in Actors |-> TRUE]
    /\ pc = [a \in Actors |-> "idle"]
    /\ mode = [a \in Actors |-> "live"]
    /\ left = {}
    /\ todo = [a \in Actors |-> {}] /\ want = [e \in ExternalSecrets |-> {}]
    /\ at = [a \in Actors |-> NoKey] /\ inst = [a \in Actors |-> None]
    /\ tracked = [e \in ExternalSecrets |-> {}]
    /\ raced = {}
    /\ events = 0

Event == events < MaxEvents /\ events' = events + 1

\* A new spec or trigger of the store: its controller has a rebuild to do.
EditStore ==
    /\ Event /\ store = "live"
    /\ queued' = [queued EXCEPT ![Store] = TRUE]
    /\ UNCHANGED <<poolVars, objects, roundVars, tracked, raced>>

DeleteStore ==
    /\ store = "live"
    /\ events + 2 <= MaxEvents /\ events' = events + 2
    /\ store' = "terminating"
    /\ UNCHANGED <<poolVars, storeSeen, es, esSeen, queued, roundVars, tracked, raced>>

EditES(e) ==
    /\ Event /\ es[e].phase = "live"
    /\ MergedEdits \/ tracked[e] = Composite(es[e].spec)
    /\ \E s \in EsSpecs \ {es[e].spec} : es' = [es EXCEPT ![e].spec = s]
    /\ UNCHANGED <<poolVars, store, storeSeen, esSeen, queued, roundVars, tracked, raced>>

DeleteES(e) ==
    /\ Event /\ es[e].phase = "live"
    /\ es' = [es EXCEPT ![e].phase = "terminating"]
    /\ UNCHANGED <<poolVars, store, storeSeen, esSeen, queued, roundVars, tracked, raced>>

\* The informers deliver; a store's deletion reaches its ExternalSecrets too.
DeliverStore ==
    /\ storeSeen # store
    /\ storeSeen' = store
    /\ queued' = [a \in Actors |-> TRUE]
    /\ UNCHANGED <<poolVars, store, es, esSeen, roundVars, tracked, raced, events>>

DeliverES(e) ==
    /\ esSeen[e] # es[e]
    /\ esSeen' = [esSeen EXCEPT ![e] = es[e]]
    /\ queued' = [queued EXCEPT ![e] = TRUE]
    /\ UNCHANGED <<poolVars, store, storeSeen, es, roundVars, tracked, raced, events>>

\* The process restarts: pool, registry and trackers are memory only.
Restart ==
    /\ Event
    /\ pool' = [k \in Keys |-> None] /\ ram' = [k \in Keys |-> None] /\ running' = {}
    /\ storeSeen' = store /\ esSeen' = es
    /\ queued' = [a \in Actors |-> TRUE]
    /\ pc' = [a \in Actors |-> "idle"] /\ mode' = [a \in Actors |-> "live"]
    /\ left' = {} /\ todo' = [a \in Actors |-> {}] /\ want' = [e \in ExternalSecrets |-> {}]
    /\ at' = [a \in Actors |-> NoKey] /\ inst' = [a \in Actors |-> None]
    /\ tracked' = [e \in ExternalSecrets |-> {}]
    /\ raced' = {}
    /\ UNCHANGED <<store, es>>

-----------------------------------------------------------------------------
(* Operations on a key.  Each begins with its actor arriving `at' the key. *)

\* Two operations on one key overlap when an actor arrives while another is
\* there.  One that has the key to itself and begins without a client (now) puts
\* it in order again.
Arrive(a, k, now) ==
    /\ at' = [at EXCEPT ![a] = k]
    /\ raced' = IF \E b \in Actors \ {a} : at[b] = k THEN raced \cup {k}
                ELSE IF now = None THEN raced \ {k} ELSE raced

Leave(a) == at' = [at EXCEPT ![a] = NoKey] /\ inst' = [inst EXCEPT ![a] = None]

\* Delete: the client leaves the map first, if it is there ...
DropPooledOnly(a) ==
    /\ pc[a] = "drop"
    /\ \E k \in todo[a] :
          IF pool[k] = None
          THEN /\ todo' = [todo EXCEPT ![a] = @ \ {k}]
               /\ UNCHANGED <<pool, pc, at, raced>>
          ELSE /\ Arrive(a, k, None) /\ pool' = [pool EXCEPT ![k] = None]
               /\ pc' = [pc EXCEPT ![a] = "stop"] /\ UNCHANGED todo
    /\ UNCHANGED <<ram, running, objects, queued, mode, left, want, inst, tracked, events>>

DropClient(a) ==
    /\ pc[a] = "drop"
    /\ \E k \in todo[a] : Arrive(a, k, None) /\ pool' = [pool EXCEPT ![k] = None]
    /\ pc' = [pc EXCEPT ![a] = "stop"]
    /\ UNCHANGED <<ram, running, objects, queued, mode, left, todo, want, inst, tracked, events>>

\* Whoever is registered under a key is stopped when it is taken out of the
\* registry or replaced there.
StopsNone(k) == {}
Stopped(k) == {ram[k]}

\* ... then StopProvider takes the provider out of the registry and stops it.
StopProvider(a) ==
    /\ pc[a] = "stop"
    /\ ram' = [ram EXCEPT ![at[a]] = None] /\ running' = running \ Stopped(at[a])
    /\ todo' = [todo EXCEPT ![a] = @ \ {at[a]}]
    /\ pc' = [pc EXCEPT ![a] = "drop"]
    /\ Leave(a)
    /\ UNCHANGED <<pool, objects, queued, mode, left, want, tracked, raced, events>>

\* GetAuthCred builds the credential chain and registers it, as the provider
\* of key k; the one it replaces is stopped.
UnderPlainKey(k) == <<k[1], Plain>>
RamKey(k) == k

RegisterRam(a) ==
    /\ pc[a] = "build" /\ Fresh(at[a]) # {}
    /\ LET i == CHOOSE i \in Fresh(at[a]) : TRUE
       IN /\ ram' = [ram EXCEPT ![RamKey(at[a])] = i]
          /\ running' = (running \ Stopped(RamKey(at[a]))) \cup {i}
          /\ inst' = [inst EXCEPT ![a] = i]
    /\ pc' = [pc EXCEPT ![a] = "register"]
    /\ UNCHANGED <<pool, objects, queued, mode, left, todo, want, at, tracked, raced, events>>

-----------------------------------------------------------------------------
(* SecretStore controller                                                  *)

\* A rebuild and a deletion both begin with DeletePrefixed of every backend.
StoreBegin ==
    /\ pc[Store] = "idle" /\ queued[Store] /\ storeSeen # "gone"
    /\ queued' = [queued EXCEPT ![Store] = FALSE]
    /\ pc' = [pc EXCEPT ![Store] = "drop"]
    /\ mode' = [mode EXCEPT ![Store] = storeSeen] /\ left' = Providers
    /\ UNCHANGED <<poolVars, objects, todo, want, at, inst, tracked, raced, events>>

\* The store is gone: nothing to do.
StoreForget ==
    /\ pc[Store] = "idle" /\ storeSeen = "gone" /\ queued[Store]
    /\ queued' = [queued EXCEPT ![Store] = FALSE]
    /\ UNCHANGED <<poolVars, objects, roundVars, tracked, raced, events>>

\* Range: the keys in the map now (kms before oos in the code; any order here).
StoreRange ==
    /\ pc[Store] = "drop" /\ todo[Store] = {}
    /\ \E p \in left :
          /\ left' = left \ {p}
          /\ todo' = [todo EXCEPT ![Store] = {k \in Keys : k[1] = p /\ pool[k] # None}]
    /\ UNCHANGED <<poolVars, objects, queued, pc, mode, want, at, inst, tracked, raced, events>>

StoreDropped == pc[Store] = "drop" /\ left = {} /\ todo[Store] = {}

StoreRebuild ==
    /\ StoreDropped /\ mode[Store] = "live"
    /\ Arrive(Store, <<StoreProvider, Plain>>, pool[<<StoreProvider, Plain>>])
    /\ pc' = [pc EXCEPT ![Store] = "build"]
    /\ UNCHANGED <<poolVars, objects, queued, mode, left, todo, want, inst, tracked, events>>

\* The credentials cannot be read: the round is retried.
StoreBuildFails ==
    /\ pc[Store] = "build" /\ Event
    /\ Leave(Store)
    /\ pc' = [pc EXCEPT ![Store] = "idle"] /\ queued' = [queued EXCEPT ![Store] = TRUE]
    /\ UNCHANGED <<poolVars, objects, mode, left, todo, want, tracked, raced>>

\* Register, then the status write that wakes the ExternalSecrets.
StoreRegister ==
    /\ pc[Store] = "register"
    /\ pool' = [pool EXCEPT ![at[Store]] = inst[Store]]
    /\ Leave(Store)
    /\ pc' = [pc EXCEPT ![Store] = "idle"]
    /\ queued' = [a \in Actors |-> queued[a] \/ a # Store]
    /\ UNCHANGED <<ram, running, objects, mode, left, todo, want, tracked, raced, events>>

\* The finalizer goes once the clients are dropped.
StoreFinalize ==
    /\ StoreDropped /\ mode[Store] = "terminating"
    /\ store' = "gone"
    /\ pc' = [pc EXCEPT ![Store] = "idle"]
    /\ UNCHANGED <<poolVars, storeSeen, es, esSeen, queued, mode, left, todo, want, at, inst, tracked, raced, events>>

StoreFinalizeFails ==
    /\ StoreDropped /\ mode[Store] = "terminating"
    /\ pc' = [pc EXCEPT ![Store] = "idle"] /\ queued' = [queued EXCEPT ![Store] = TRUE]
    /\ UNCHANGED <<poolVars, objects, mode, left, todo, want, at, inst, tracked, raced, events>>

-----------------------------------------------------------------------------
(* ExternalSecret controller                                               *)

\* The endpoints a round has to reclaim: those dropped from the spec since the
\* last round, or on deletion all it has and had.
Stale(e) == tracked[e] \ Composite(esSeen[e].spec)
Leaving(e) == tracked[e] \cup Composite(esSeen[e].spec)

\* A round starts when an event is queued, or by time.
\* Whatever it reclaims, it reclaims from the backend its spec names.
EsBegin(e) ==
    /\ pc[e] = "idle" /\ esSeen[e].phase # "gone"
    /\ TimedRounds \/ queued[e]
    /\ queued' = [queued EXCEPT ![e] = FALSE]
    /\ mode' = [mode EXCEPT ![e] = esSeen[e].phase]
    /\ LET provider == {esSeen[e].spec.provider}
           live == esSeen[e].phase = "live"
       IN /\ todo' = [todo EXCEPT ![e] = provider \X (IF live THEN Stale(e) ELSE Leaving(e))]
          /\ want' = [want EXCEPT ![e] = IF live THEN provider \X esSeen[e].spec.uses ELSE {}]
    /\ pc' = [pc EXCEPT ![e] = "list"]
    /\ UNCHANGED <<poolVars, objects, left, at, inst, tracked, raced, events>>

\* The object is gone: nothing to do.
EsForget(e) ==
    /\ pc[e] = "idle" /\ esSeen[e].phase = "gone" /\ queued[e]
    /\ queued' = [queued EXCEPT ![e] = FALSE]
    /\ UNCHANGED <<poolVars, objects, roundVars, tracked, raced, events>>

\* deleteUnreferencedCompositeClients: keys of the listed ones, itself and
\* those being deleted left out.  A reference counts whatever its backend.
TerminatingCounts(e) == {o \in ExternalSecrets \ {e} : esSeen[o].phase # "gone"}
Listed(e) == {o \in ExternalSecrets \ {e} : esSeen[o].phase = "live"}

EsList(e) ==
    /\ pc[e] = "list"
    /\ todo' = [todo EXCEPT ![e] =
           {k \in @ : \A o \in Listed(e) : k[2] \notin Composite(esSeen[o].spec)}]
    /\ pc' = [pc EXCEPT ![e] = "drop"]
    /\ UNCHANGED <<poolVars, objects, queued, mode, left, want, at, inst, tracked, raced, events>>

\* Listing fails: nothing is dropped or forgotten, and the round is retried.
EsListFails(e) ==
    /\ pc[e] = "list" /\ todo[e] # {} /\ Event
    /\ pc' = [pc EXCEPT ![e] = "idle"] /\ queued' = [queued EXCEPT ![e] = TRUE]
    /\ todo' = [todo EXCEPT ![e] = {}] /\ want' = [want EXCEPT ![e] = {}]
    /\ UNCHANGED <<poolVars, objects, mode, left, at, inst, tracked, raced>>

\* Everything reclaimed: the tracker takes the spec's endpoints, and every
\* entry of the spec asks for its client.
TrackEveryKey(e) ==
    /\ pc[e] = "drop" /\ todo[e] = {} /\ mode[e] = "live"
    /\ tracked' = [tracked EXCEPT ![e] = {k[2] : k \in want[e]}]
    /\ pc' = [pc EXCEPT ![e] = "sync"]
    /\ UNCHANGED <<poolVars, objects, queued, mode, left, todo, want, at, inst, raced, events>>

EsReclaimed(e) ==
    /\ pc[e] = "drop" /\ todo[e] = {} /\ mode[e] = "live"
    /\ tracked' = [tracked EXCEPT ![e] = {k[2] : k \in want[e]} \ {Plain}]
    /\ pc' = [pc EXCEPT ![e] = "sync"]
    /\ UNCHANGED <<poolVars, objects, queued, mode, left, todo, want, at, inst, raced, events>>

\* On deletion the tracker forgets, and the finalizer goes.
EsFinalize(e) ==
    /\ pc[e] = "drop" /\ todo[e] = {} /\ mode[e] = "terminating"
    /\ tracked' = [tracked EXCEPT ![e] = {}]
    /\ pc' = [pc EXCEPT ![e] = "idle"] /\ mode' = [mode EXCEPT ![e] = "live"]
    /\ \/ es' = [es EXCEPT ![e].phase = "gone"] /\ UNCHANGED <<queued, events>>
       \/ Event /\ queued' = [queued EXCEPT ![e] = TRUE] /\ UNCHANGED es
    /\ UNCHANGED <<poolVars, store, storeSeen, esSeen, left, todo, want, at, inst, raced>>

\* getOrCreateClient: a client in the pool is used, or refused by the guard; on
\* a miss it is built, if the store is still to be found.
EsHit(e) ==
    /\ pc[e] = "sync"
    /\ \E k \in want[e] :
          /\ pool[k] # None \/ storeSeen = "gone"
          /\ want' = [want EXCEPT ![e] = @ \ {k}]
    /\ UNCHANGED <<poolVars, objects, queued, pc, mode, left, todo, at, inst, tracked, raced, events>>

EsMiss(e) ==
    /\ pc[e] = "sync" /\ storeSeen # "gone"
    /\ \E k \in want[e] : pool[k] = None /\ Arrive(e, k, None)
    /\ pc' = [pc EXCEPT ![e] = "build"]
    /\ UNCHANGED <<poolVars, objects, queued, mode, left, todo, want, inst, tracked, events>>

\* The credentials cannot be read: this entry fails, the others go on.
EsBuildFails(e) ==
    /\ pc[e] = "build" /\ Event
    /\ want' = [want EXCEPT ![e] = @ \ {at[e]}]
    /\ Leave(e)
    /\ pc' = [pc EXCEPT ![e] = "sync"]
    /\ UNCHANGED <<poolVars, objects, queued, mode, left, todo, tracked, raced>>

\* The endpoint is validated after the provider was registered: a custom one
\* may be refused, and leaves its provider without a client.
EsRegister(e) ==
    /\ pc[e] = "register"
    /\ \/ pool' = [pool EXCEPT ![at[e]] = inst[e]]
       \/ at[e][2] # Plain /\ UNCHANGED pool
    /\ want' = [want EXCEPT ![e] = @ \ {at[e]}]
    /\ Leave(e)
    /\ pc' = [pc EXCEPT ![e] = "sync"]
    /\ UNCHANGED <<ram, running, objects, queued, mode, left, todo, tracked, raced, events>>

EsEnd(e) ==
    /\ pc[e] = "sync" /\ want[e] = {}
    /\ pc' = [pc EXCEPT ![e] = "idle"]
    /\ UNCHANGED <<poolVars, objects, queued, mode, left, todo, want, at, inst, tracked, raced, events>>

-----------------------------------------------------------------------------
Users ==
    \/ EditStore \/ DeleteStore
    \/ \E e \in ExternalSecrets : EditES(e) \/ DeleteES(e)
Informers == DeliverStore \/ \E e \in ExternalSecrets : DeliverES(e)
OnKeys == \E a \in Actors : DropClient(a) \/ StopProvider(a) \/ RegisterRam(a)
StoreStep ==
    \/ StoreBegin \/ StoreForget \/ StoreRange \/ StoreRebuild \/ StoreBuildFails
    \/ StoreRegister \/ StoreFinalize \/ StoreFinalizeFails
EsStep(e) ==
    \/ EsBegin(e) \/ EsForget(e) \/ EsList(e) \/ EsListFails(e) \/ EsReclaimed(e) \/ EsFinalize(e)
    \/ EsHit(e) \/ EsMiss(e) \/ EsBuildFails(e) \/ EsRegister(e) \/ EsEnd(e)

Next ==
    \/ Users \/ Informers \/ Restart \/ OnKeys \/ StoreStep
    \/ \E e \in ExternalSecrets : EsStep(e)
Spec == Init /\ [][Next]_vars

-----------------------------------------------------------------------------
(* Properties                                                              *)

TypeOK ==
    /\ pool \in [Keys -> Instances \cup {None}] /\ ram \in [Keys -> Instances \cup {None}]
    /\ running \subseteq Instances
    /\ store \in Phases /\ storeSeen \in Phases /\ mode \in [Actors -> Phases]
    /\ es \in [ExternalSecrets -> EsObject] /\ esSeen \in [ExternalSecrets -> EsObject]
    /\ queued \in [Actors -> BOOLEAN]
    /\ pc \in [Actors -> {"idle", "list", "drop", "stop", "build", "register", "sync"}]
    /\ left \subseteq Providers /\ todo \in [Actors -> SUBSET Keys]
    /\ want \in [ExternalSecrets -> SUBSET Keys]
    /\ at \in [Actors -> Keys \cup {NoKey}] /\ inst \in [Actors -> Instances \cup {None}]
    /\ tracked \in [ExternalSecrets -> SUBSET Endpoints]
    /\ raced \subseteq Keys
    /\ events \in 0..MaxEvents

\* Every refresh routine that runs can be stopped by its key, and what is
\* registered runs, whoever raced (RegisterRamProvider, StopProvider).
RegistryExact ==
    /\ running = Held(ram)
    /\ \A k, l \in Keys : ram[k] = ram[l] /\ ram[k] # None => k = l

\* A client in the pool has its own provider running under its own key, unless
\* somebody is at that key or two operations on it overlapped.  Rebuilding one
\* client never stops the provider of another ("Key alignment", NewClient).
ServedUnlessRaced ==
    \A k \in Keys \ raced :
        pool[k] # None /\ (\A a \in Actors : at[a] # k) => pool[k] = ram[k]

AtRest ==
    /\ \A a \in Actors : pc[a] = "idle" /\ ~queued[a]
    /\ storeSeen = store /\ esSeen = es

Referenced == UNION {Composite(es[e].spec) : e \in {x \in ExternalSecrets : es[x].phase = "live"}}

\* At rest a composite client, or the provider of one, is there only for an
\* ExternalSecret that asks for it: the last one to leave has reclaimed it
\* (cleanupEndpointClients, reconcileStaleCompositeClients), whatever failed,
\* raced or was built meanwhile.
UnusedReclaimed ==
    AtRest => \A k \in Keys : k[2] # Plain /\ (pool[k] # None \/ ram[k] # None) => k[2] \in Referenced
=============================================================================
