---------------------------- MODULE BackendCalls ----------------------------
(***************************************************************************)
(* How a worker of the ExternalSecret controller comes to an answer of the *)
(* backend: the shared ENV clients (EnsureENVClient, pkg/backend), the     *)
(* credential of a store's ServiceAccount (TokenOIDCProvider, backend/     *)
(* auth), and the retries of the call itself (RetryOnTransient, utils).    *)
(*                                                                         *)
(* Time passes by ticks.  Every moment is kept as what is left of it, or   *)
(* as its age, so the clock itself needs no bound; the tick stands for the *)
(* nanosecond of the code.  The default endpoint and the environment of a  *)
(* process do not change: a provider's ENV client can be built or cannot.  *)
(***************************************************************************)
EXTENDS AuthChain, Integers

Nobody == "nobody"
Store == "store"

CONSTANTS
    Workers, Providers,
    EnvAuths,      \* what the environment may configure
    StoreAuths,    \* what the store may configure
    BadEndpoints,  \* the sets of providers whose default endpoint may be refused
    Lifetimes,     \* validities of the tokens and credentials handed out
    DefaultLife,   \* assumed of a token without one
    TTL,           \* envInitFailureTTL
    MaxAttempts

ASSUME CallsAssumption ==
    /\ BadEndpoints \subseteq SUBSET Providers
    /\ EnvAuths \subseteq EnvConfigs /\ StoreAuths \subseteq StoreConfigs
    /\ Lifetimes \subseteq Nat \ {0} /\ DefaultLife \in Nat \ {0}
    /\ TTL \in Nat \ {0} /\ MaxAttempts \in Nat \ {0}
    /\ Nobody \notin Workers /\ Store \notin Providers

Unknown == 0     \* an issue time that is not known, a credential that is not there

VARIABLES
    env, bad,     \* the ENV configuration, and the providers with a refused default endpoint
    ready,        \* providers with a registered ENV client
    age,          \* of the cached failure; TTL: there is none
    mu, began, todo, failed, progress,   \* the running EnsureENVClient
    auth,         \* the store's configuration
    client,       \* the store's client
    tok,          \* its ServiceAccount token: what is left of it, its validity if known
    cred,         \* the cached credential, likewise
    tmu,          \* the mutex of the TokenOIDCProvider
    pc, way, calls, cancelled, late

envVars   == <<env, bad, ready, age, mu, began, todo, failed, progress>>
tokenVars == <<auth, client, tok, cred, tmu>>
callVars  == <<pc, way, calls, cancelled, late>>
vars      == <<envVars, tokenVars, callVars>>

GoTo(w, step) == pc' = [pc EXCEPT ![w] = step]
End(w) ==
    /\ GoTo(w, "idle")
    /\ calls' = [calls EXCEPT ![w] = 0] /\ late' = [late EXCEPT ![w] = 0]
    /\ cancelled' = [cancelled EXCEPT ![w] = FALSE]
    /\ UNCHANGED way
On(w, step) == GoTo(w, step) /\ UNCHANGED <<way, calls, cancelled, late>>

-----------------------------------------------------------------------------
(* The client (getOrCreateClient, EnsureENVClient)                         *)

Start(w) ==
    /\ pc[w] = "idle"
    /\ \E c \in Providers \cup {Store} :
          /\ way' = [way EXCEPT ![w] = c]
          /\ GoTo(w, IF c = Store THEN "build" ELSE IF c \in ready THEN "fetch" ELSE "ensure")
    /\ UNCHANGED <<envVars, tokenVars, calls, cancelled, late>>

LockEnv(w) ==
    /\ pc[w] = "ensure" /\ mu = Nobody
    /\ IF age < TTL
       THEN On(w, "probe") /\ UNCHANGED <<age, mu, began, todo, failed, progress>>
       ELSE /\ age' = TTL /\ mu' = w /\ began' = 0
            /\ todo' = Providers /\ failed' = FALSE /\ progress' = FALSE
            /\ On(w, "init")
    /\ UNCHANGED <<env, bad, ready, tokenVars>>

CanBuild(p) == ~Refused(env) /\ p \notin bad

\* One provider of the Range, in any order.
StopsAtFailure(w, p) ==
    /\ pc[w] = "init" /\ p \in todo
    /\ failed' = (failed \/ (p \notin ready /\ ~CanBuild(p)))
    /\ progress' = (progress \/ (p \notin ready /\ CanBuild(p)))
    /\ ready' = IF CanBuild(p) THEN ready \cup {p} ELSE ready
    /\ todo' = IF failed' THEN {} ELSE todo \ {p}
    /\ UNCHANGED <<env, bad, age, mu, began, tokenVars, callVars>>
InitProvider(w, p) ==
    /\ pc[w] = "init" /\ p \in todo
    /\ failed' = (failed \/ (p \notin ready /\ ~CanBuild(p)))
    /\ progress' = (progress \/ (p \notin ready /\ CanBuild(p)))
    /\ ready' = IF CanBuild(p) THEN ready \cup {p} ELSE ready
    /\ todo' = todo \ {p}
    /\ UNCHANGED <<env, bad, age, mu, began, tokenVars, callVars>>

\* The failure is dated from the beginning of the attempt.
InitEnds(w) ==
    /\ pc[w] = "init" /\ todo = {}
    /\ mu' = Nobody
    /\ age' = IF failed /\ ~progress THEN began ELSE TTL
    /\ began' = 0 /\ failed' = FALSE /\ progress' = FALSE
    /\ On(w, "probe")
    /\ UNCHANGED <<env, bad, ready, todo, tokenVars>>

\* The error may be another provider's.
Probe(w) ==
    /\ pc[w] = "probe"
    /\ IF way[w] \in ready THEN On(w, "fetch") ELSE End(w)
    /\ UNCHANGED <<envVars, tokenVars>>

\* The first use builds the store's client; a dynamic one asks for a token.  A
\* referenced object that cannot be read, or a refused endpoint, builds none.
BuildStoreClient(w) ==
    /\ pc[w] = "build"
    /\ \/ client # "none" /\ On(w, "fetch") /\ UNCHANGED <<client, tok>>
       \/ client = "none" /\ End(w) /\ UNCHANGED <<client, tok>>
       \/ /\ client = "none" /\ ~Refused(auth)
          /\ client' = Identity(auth)
          /\ IF client' = "dynamic"
             THEN \E left \in Lifetimes \cup {DefaultLife} : tok' = [left |-> left, total |-> Unknown]
             ELSE UNCHANGED tok
          /\ On(w, "fetch")
    /\ UNCHANGED <<envVars, auth, cred, tmu>>

-----------------------------------------------------------------------------
(* The credential (GetCredential)                                          *)

\* refreshWindow: the last fifth of the validity, of what is left while that is
\* unknown, and always something.
FifthOnly(left, total) == (IF total = Unknown THEN left ELSE total) \div 5
RefreshWindow(left, total) ==
    LET fifth == (IF total = Unknown THEN left ELSE total) \div 5
    IN  IF left <= 0 \/ fifth <= 0 THEN 1 ELSE fifth
NeedsRefresh(t) == t.left < RefreshWindow(t.left, t.total)
NoCred == [left |-> 0, total |-> Unknown]

LockToken(w) ==
    /\ pc[w] = "creds" /\ tmu = Nobody
    /\ LET step == IF NeedsRefresh(tok) THEN "token"
                   ELSE IF cred = NoCred \/ NeedsRefresh(cred) THEN "assume" ELSE "call"
       IN  On(w, step) /\ tmu' = IF step = "call" THEN Nobody ELSE w
    /\ UNCHANGED <<envVars, auth, client, tok, cred>>

SwappedIssue(life) == [left |-> life, total |-> 0 - life]
Issued(life) == [left |-> life, total |-> life]

\* A cached credential that is still valid is good enough without a new token.
KeepsLock(w) == IF cred.left > 0 THEN On(w, "call") /\ UNCHANGED tmu ELSE End(w) /\ tmu' = Nobody
TokenRefused(w) == tmu' = Nobody /\ IF cred.left > 0 THEN On(w, "call") ELSE End(w)

RefreshToken(w) ==
    /\ pc[w] = "token"
    /\ \/ /\ \E life \in Lifetimes \cup {DefaultLife} : tok' = Issued(life)
          /\ On(w, "assume") /\ UNCHANGED tmu
       \/ TokenRefused(w) /\ UNCHANGED tok
    /\ UNCHANGED <<envVars, auth, client, cred>>

\* The cache is replaced only when the expiration could be read.
AssumeRole(w) ==
    /\ pc[w] = "assume"
    /\ tmu' = Nobody
    /\ \/ On(w, "call") /\ \E life \in Lifetimes : cred' = Issued(life)
       \/ End(w) /\ UNCHANGED cred
    /\ UNCHANGED <<envVars, auth, client, tok>>

-----------------------------------------------------------------------------
(* The call and its retries (RetryOnTransient)                             *)

Fetch(w) ==
    /\ pc[w] = "fetch"
    /\ calls' = [calls EXCEPT ![w] = @ + 1]
    /\ late' = [late EXCEPT ![w] = IF cancelled[w] THEN @ + 1 ELSE @]
    /\ GoTo(w, IF way[w] = Store /\ client = "dynamic" THEN "creds" ELSE "call")
    /\ UNCHANGED <<envVars, tokenVars, way, cancelled>>

\* An answer or a lasting error ends it; a transient error is tried again.
SleepsOn(w) == calls[w] = MaxAttempts
Stops(w) == calls[w] = MaxAttempts \/ cancelled[w]
Call(w) ==
    /\ pc[w] = "call"
    /\ End(w) \/ (~Stops(w) /\ On(w, "wait"))
    /\ UNCHANGED <<envVars, tokenVars>>

\* Of the timer and the context either may win.
Wait(w) ==
    /\ pc[w] = "wait"
    /\ On(w, "fetch") \/ (cancelled[w] /\ End(w))
    /\ UNCHANGED <<envVars, tokenVars>>

Cancel(w) ==
    /\ pc[w] # "idle" /\ ~cancelled[w]
    /\ cancelled' = [cancelled EXCEPT ![w] = TRUE]
    /\ UNCHANGED <<envVars, tokenVars, pc, way, calls, late>>

-----------------------------------------------------------------------------
Less(n) == IF n > 0 THEN n - 1 ELSE 0
Tick ==
    /\ age' = IF age < TTL THEN age + 1 ELSE age
    /\ began' = IF mu # Nobody /\ began < TTL THEN began + 1 ELSE began
    /\ tok' = [tok EXCEPT !.left = Less(@)]
    /\ cred' = [cred EXCEPT !.left = Less(@)]
    /\ UNCHANGED <<env, bad, ready, mu, todo, failed, progress, auth, client, tmu, callVars>>

Init ==
    /\ env \in EnvAuths /\ bad \in BadEndpoints /\ auth \in StoreAuths
    /\ ready = {} /\ age = TTL
    /\ mu = Nobody /\ began = 0 /\ todo = {} /\ failed = FALSE /\ progress = FALSE
    /\ client = "none" /\ tok = NoCred /\ cred = NoCred /\ tmu = Nobody
    /\ pc = [w \in Workers |-> "idle"] /\ way = [w \in Workers |-> Store]
    /\ calls = [w \in Workers |-> 0] /\ late = [w \in Workers |-> 0]
    /\ cancelled = [w \in Workers |-> FALSE]

Step(w) ==
    \/ LockEnv(w) \/ InitEnds(w) \/ Probe(w) \/ BuildStoreClient(w) \/ LockToken(w) \/ RefreshToken(w) \/ AssumeRole(w)
    \/ Fetch(w) \/ Call(w) \/ Wait(w)
    \/ \E p \in Providers : InitProvider(w, p)

Next == Tick \/ \E w \in Workers : Start(w) \/ Step(w) \/ Cancel(w)

Spec == Init /\ [][Next]_vars

-----------------------------------------------------------------------------
(* Properties                                                              *)

Steps == {"idle", "ensure", "init", "probe", "build", "creds", "token", "assume", "fetch", "call", "wait"}
TypeOK ==
    /\ env \in EnvAuths /\ auth \in StoreAuths /\ bad \subseteq Providers
    /\ ready \subseteq Providers /\ todo \subseteq Providers
    /\ age \in 0..TTL /\ began \in 0..TTL
    /\ mu \in Workers \cup {Nobody} /\ tmu \in Workers \cup {Nobody}
    /\ failed \in BOOLEAN /\ progress \in BOOLEAN
    /\ client \in {"none", "dynamic", "file", "assume", "key", "worker"}
    /\ {tok, cred} \subseteq [left : Nat, total : Nat]
    /\ pc \in [Workers -> Steps] /\ way \in [Workers -> Providers \cup {Store}]
    /\ calls \in [Workers -> Nat] /\ late \in [Workers -> Nat]
    /\ cancelled \in [Workers -> BOOLEAN]

\* A provider whose ENV client can be built is never refused to a worker, by
\* the failure of another provider or by a failure cached before.
WorkingProviderServed ==
    [][\A w \in Workers : pc[w] = "probe" /\ pc'[w] = "idle" => ~CanBuild(way[w])]_vars

\* What a worker is given to authenticate with has not expired, whether it was
\* cached, kept because no new token was to be had, or just issued.
ServesLiveCredential ==
    [][\A w \in Workers : pc[w] \in {"creds", "token", "assume"} /\ pc'[w] = "call" => cred'.left > 0]_vars

\* The identity the configuration asks for (docs/auth_guide.md): an explicit
\* ServiceAccount, or an explicit OIDC provider with its role, is never traded
\* for another identity, and a derived one does not go before a complete access
\* key.  A provider without a role lacks its prerequisites and stands aside.
Intended(a) ==
    CASE a.sa                                              -> "dynamic"
      [] ~a.sa /\ a.role /\ a.oidc = "explicit"            -> "file"
      [] ~a.sa /\ a.role /\ a.oidc # "explicit" /\ a.ak = "pair" -> "assume"
      [] ~a.sa /\ a.role /\ a.oidc = "derived" /\ a.ak # "pair"  -> "file"
      [] ~a.sa /\ ~a.role /\ a.ak = "pair"                -> "key"
      [] ~a.sa /\ (~a.role \/ a.oidc = "none") /\ a.ak # "pair"  -> "worker"
IdentityKept == client \in {"none", Intended(auth)}

\* A call is tried MaxAttempts times at most, and once more at most after its
\* context was cancelled.
RetriesBounded == \A w \in Workers : calls[w] <= MaxAttempts /\ late[w] <= 1

\* A mutex is held by a worker that is between taking and releasing it, and by
\* nobody else: no early return of a refresh keeps the others out for ever.
MutexesOwned ==
    /\ mu # Nobody <=> \E w \in Workers : pc[w] = "init"
    /\ tmu # Nobody <=> \E w \in Workers : pc[w] \in {"token", "assume"}
    /\ \A w \in Workers : (pc[w] = "init" => mu = w) /\ (pc[w] \in {"token", "assume"} => tmu = w)
=============================================================================
