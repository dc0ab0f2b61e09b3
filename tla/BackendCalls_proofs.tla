------------------------ MODULE BackendCalls_proofs ------------------------
(***************************************************************************)
(* Proofs about BackendCalls: its type invariant and every property that   *)
(* MCBackendCalls checks, for any workers, providers, configurations,      *)
(* lifetimes and limits.                                                   *)
(***************************************************************************)
EXTENDS BackendCalls, TLAPS

-----------------------------------------------------------------------------
(* The identity of a client                                                *)

\* The first tier of the chain is what the configuration asks for.
LEMMA FirstTier ==
    ASSUME NEW a \in StoreConfigs, ~Refused(a)
    PROVE  Identity(a) = Intended(a)
<1> USE DEF StoreConfigs, AuthConfigs, Refused, Identity, Chain, Tier, Intended, OidcTierAllowed
<1>1. CASE a.sa
  BY <1>1
<1>2. CASE ~a.sa /\ OidcTierAllowed(a)
  BY <1>2
<1>3. CASE ~a.sa /\ ~OidcTierAllowed(a) /\ a.ak = "pair" /\ a.role
  BY <1>3
<1>4. CASE ~a.sa /\ ~OidcTierAllowed(a) /\ a.ak = "pair" /\ ~a.role
  BY <1>4
<1>5. CASE ~a.sa /\ ~OidcTierAllowed(a) /\ a.ak # "pair"
  BY <1>5
<1> QED  BY <1>1, <1>2, <1>3, <1>4, <1>5

-----------------------------------------------------------------------------
(* Type correctness                                                        *)

LEMMA LifeFacts ==
    /\ TTL \in Nat /\ TTL > 0 /\ MaxAttempts \in Nat /\ MaxAttempts > 0
    /\ \A life \in Lifetimes \cup {DefaultLife} : life \in Nat /\ life > 0
BY CallsAssumption

LEMMA IdentityTyped ==
    ASSUME TypeOK, ~Refused(auth)
    PROVE  /\ Identity(auth) = Intended(auth)
           /\ Identity(auth) \in {"none", "dynamic", "file", "assume", "key", "worker"}
<1>1. auth \in StoreConfigs
  BY CallsAssumption DEF TypeOK
<1>2. Identity(auth) = Intended(auth)
  BY <1>1, FirstTier
<1> QED  BY <1>1, <1>2 DEF Intended, StoreConfigs, AuthConfigs

\* What moves a worker keeps the types of all that is a worker's own.
LEMMA WorkersStep ==
    ASSUME TypeOK, NEW w \in Workers,
           \/ \E s \in Steps : On(w, s)
           \/ End(w)
    PROVE  /\ pc' \in [Workers -> Steps] /\ way' \in [Workers -> Providers \cup {Store}]
           /\ calls' \in [Workers -> Nat] /\ late' \in [Workers -> Nat]
           /\ cancelled' \in [Workers -> BOOLEAN]
<1> USE LifeFacts DEF TypeOK
<1>1. CASE \E s \in Steps : On(w, s)
  BY <1>1 DEF On, GoTo
<1>2. CASE End(w)
  BY <1>2 DEF End, GoTo, Steps
<1> QED  BY <1>1, <1>2

\* The steps that leave the ENV registry alone.
LEMMA CallStepTyped ==
    ASSUME TypeOK, NEW w \in Workers,
           Probe(w) \/ BuildStoreClient(w) \/ LockToken(w) \/ RefreshToken(w) \/ AssumeRole(w)
             \/ Fetch(w) \/ Call(w) \/ Wait(w)
    PROVE  TypeOK'
<1> USE LifeFacts DEF TypeOK, envVars, tokenVars
<1>1. CASE Probe(w)
  BY <1>1, WorkersStep DEF Probe, Steps
<1>2. CASE BuildStoreClient(w)
  <2>1. \/ On(w, "fetch") \/ End(w)
    BY <1>2 DEF BuildStoreClient
  <2>2. client' = client \/ (~Refused(auth) /\ client' = Identity(auth))
    BY <1>2 DEF BuildStoreClient
  <2>3. tok' = tok \/ \E left \in Lifetimes \cup {DefaultLife} : tok' = [left |-> left, total |-> Unknown]
    BY <1>2 DEF BuildStoreClient
  <2>4. tok' \in [left : Nat, total : Nat]
    BY <2>3 DEF Unknown
  <2> QED  BY <1>2, <2>1, <2>2, <2>4, WorkersStep, IdentityTyped DEF BuildStoreClient, Steps
<1>3. CASE LockToken(w)
  <2>1. \E s \in {"token", "assume", "call"} : On(w, s) /\ tmu' = IF s = "call" THEN Nobody ELSE w
    BY <1>3 DEF LockToken
  <2> QED  BY <1>3, <2>1, WorkersStep DEF LockToken, Steps
<1>4. CASE RefreshToken(w)
  <2>1. (\E s \in {"assume", "call"} : On(w, s)) \/ End(w)
    BY <1>4 DEF RefreshToken, TokenRefused
  <2>2. tmu' \in {tmu, Nobody}
    BY <1>4 DEF RefreshToken, TokenRefused
  <2>3. tok' = tok \/ \E life \in Lifetimes \cup {DefaultLife} : tok' = Issued(life)
    BY <1>4 DEF RefreshToken
  <2>4. tok' \in [left : Nat, total : Nat]
    BY <2>3 DEF Issued
  <2> QED  BY <1>4, <2>1, <2>2, <2>4, WorkersStep DEF RefreshToken, Steps
<1>5. CASE AssumeRole(w)
  <2>1. On(w, "call") \/ End(w)
    BY <1>5 DEF AssumeRole
  <2>2. cred' = cred \/ \E life \in Lifetimes : cred' = Issued(life)
    BY <1>5 DEF AssumeRole
  <2>3. cred' \in [left : Nat, total : Nat]
    BY <2>2 DEF Issued
  <2> QED  BY <1>5, <2>1, <2>3, WorkersStep DEF AssumeRole, Steps
<1>6. CASE Fetch(w)
  BY <1>6 DEF Fetch, GoTo, Steps
<1>7. CASE Call(w)
  BY <1>7, WorkersStep DEF Call, Steps
<1>8. CASE Wait(w)
  BY <1>8, WorkersStep DEF Wait, Steps
<1> QED  BY <1>1, <1>2, <1>3, <1>4, <1>5, <1>6, <1>7, <1>8

\* The steps of the ENV registry.
LEMMA EnvStepTyped ==
    ASSUME TypeOK, NEW w \in Workers,
           LockEnv(w) \/ InitEnds(w) \/ \E p \in Providers : InitProvider(w, p)
    PROVE  TypeOK'
<1> USE LifeFacts DEF TypeOK, tokenVars, callVars
<1>1. CASE LockEnv(w)
  <2>1. CASE age < TTL
    BY <1>1, <2>1, WorkersStep DEF LockEnv, Steps
  <2>2. CASE ~(age < TTL)
    <3>1. On(w, "init")
      BY <1>1, <2>2 DEF LockEnv
    <3>2. age' \in 0..TTL /\ began' \in 0..TTL
      BY <1>1, <2>2 DEF LockEnv
    <3> QED  BY <1>1, <2>2, <3>1, <3>2, WorkersStep DEF LockEnv, Steps
  <2> QED  BY <2>1, <2>2
<1>2. CASE InitEnds(w)
  <2>1. On(w, "probe")
    BY <1>2 DEF InitEnds
  <2>2. age' \in 0..TTL /\ began' \in 0..TTL
    BY <1>2 DEF InitEnds
  <2> QED  BY <1>2, <2>1, <2>2, WorkersStep DEF InitEnds, Steps
<1>3. CASE \E p \in Providers : InitProvider(w, p)
  BY <1>3 DEF InitProvider
<1> QED  BY <1>1, <1>2, <1>3

LEMMA LessTyped == \A n \in Nat : Less(n) \in Nat
BY DEF Less

\* No step leaves the sets the variables are meant to range over.
THEOREM TypeCorrect == Spec => []TypeOK
<1>1. Init => TypeOK
  <2> SUFFICES ASSUME Init PROVE TypeOK
    OBVIOUS
  <2>1. NoCred \in [left : Nat, total : Nat]
    BY DEF NoCred, Unknown
  <2>2. bad \subseteq Providers /\ age \in 0..TTL /\ began \in 0..TTL
    BY LifeFacts, CallsAssumption DEF Init
  <2>3. /\ pc \in [Workers -> Steps] /\ way \in [Workers -> Providers \cup {Store}]
        /\ calls \in [Workers -> Nat] /\ late \in [Workers -> Nat]
        /\ cancelled \in [Workers -> BOOLEAN]
    BY DEF Init, Steps
  <2> QED  BY <2>1, <2>2, <2>3 DEF Init, TypeOK
<1>2. TypeOK /\ [Next]_vars => TypeOK'
  <2> SUFFICES ASSUME TypeOK, [Next]_vars PROVE TypeOK'
    OBVIOUS
  <2>1. CASE Tick
    BY <2>1, LifeFacts, LessTyped DEF Tick, TypeOK, callVars
  <2>2. ASSUME NEW w \in Workers, Start(w) PROVE TypeOK'
    BY <2>2 DEF Start, TypeOK, GoTo, Steps, envVars, tokenVars
  <2>3. ASSUME NEW w \in Workers, Cancel(w) PROVE TypeOK'
    BY <2>3 DEF Cancel, TypeOK, envVars, tokenVars
  <2>4. ASSUME NEW w \in Workers, Step(w) PROVE TypeOK'
    BY <2>4, CallStepTyped, EnvStepTyped DEF Step
  <2>5. CASE UNCHANGED vars
    BY <2>5 DEF vars, envVars, tokenVars, callVars, TypeOK
  <2> QED  BY <2>1, <2>2, <2>3, <2>4, <2>5 DEF Next
<1> QED  BY <1>1, <1>2, PTL DEF Spec

-----------------------------------------------------------------------------
(* What a step does to a worker's own state                                *)

LEMMA Moved ==
    ASSUME TypeOK, NEW w \in Workers, NEW s, GoTo(w, s)
    PROVE  pc'[w] = s /\ \A v \in Workers \ {w} : pc'[v] = pc[v]
BY DEF GoTo, TypeOK

LEMMA Ended ==
    ASSUME TypeOK, NEW w \in Workers, End(w)
    PROVE  /\ pc'[w] = "idle" /\ calls'[w] = 0 /\ late'[w] = 0 /\ cancelled'[w] = FALSE /\ way' = way
           /\ \A v \in Workers \ {w} :
                 /\ pc'[v] = pc[v] /\ calls'[v] = calls[v]
                 /\ late'[v] = late[v] /\ cancelled'[v] = cancelled[v]
BY DEF End, GoTo, TypeOK

LEMMA Went ==
    ASSUME TypeOK, NEW w \in Workers, NEW s, On(w, s)
    PROVE  /\ pc'[w] = s /\ way' = way /\ calls' = calls /\ late' = late /\ cancelled' = cancelled
           /\ \A v \in Workers \ {w} : pc'[v] = pc[v]
BY DEF On, GoTo, TypeOK

-----------------------------------------------------------------------------
(* The two mutexes                                                         *)

\* A step that is at neither end of a mutex leaves both as they are.
LEMMA OutsideMutexes ==
    ASSUME TypeOK, MutexesOwned, NEW w \in Workers,
           mu' = mu, tmu' = tmu,
           pc[w] \notin {"init", "token", "assume"}, pc'[w] \notin {"init", "token", "assume"},
           \A v \in Workers \ {w} : pc'[v] = pc[v]
    PROVE  MutexesOwned'
BY DEF MutexesOwned

LEMMA MutexStep ==
    ASSUME TypeOK, MutexesOwned, NEW w \in Workers, Step(w)
    PROVE  MutexesOwned'
<1> USE CallsAssumption
<1>1. CASE LockEnv(w)
  <2>1. CASE age < TTL
    BY <1>1, <2>1, Went, OutsideMutexes DEF LockEnv, tokenVars
  <2>2. CASE ~(age < TTL)
    <3>1. mu' = w /\ tmu' = tmu /\ On(w, "init") /\ mu = Nobody /\ pc[w] = "ensure"
      BY <1>1, <2>2 DEF LockEnv, tokenVars
    <3> QED  BY <3>1, Went DEF MutexesOwned
  <2> QED  BY <2>1, <2>2
<1>2. CASE InitEnds(w)
  <2>1. mu' = Nobody /\ tmu' = tmu /\ On(w, "probe") /\ pc[w] = "init"
    BY <1>2 DEF InitEnds, tokenVars
  <2> QED  BY <2>1, Went DEF MutexesOwned
<1>3. CASE Probe(w)
  <2>1. /\ mu' = mu /\ tmu' = tmu /\ pc[w] = "probe"
        /\ On(w, "fetch") \/ End(w)
    BY <1>3 DEF Probe, envVars, tokenVars
  <2>2. pc'[w] \in {"fetch", "idle"} /\ \A v \in Workers \ {w} : pc'[v] = pc[v]
    BY <2>1, Went, Ended
  <2> QED  BY <2>1, <2>2, OutsideMutexes
<1>4. CASE BuildStoreClient(w)
  <2>1. /\ mu' = mu /\ tmu' = tmu /\ pc[w] = "build"
        /\ On(w, "fetch") \/ End(w)
    BY <1>4 DEF BuildStoreClient, envVars
  <2>2. pc'[w] \in {"fetch", "idle"} /\ \A v \in Workers \ {w} : pc'[v] = pc[v]
    BY <2>1, Went, Ended
  <2> QED  BY <2>1, <2>2, OutsideMutexes
<1>5. CASE LockToken(w)
  <2>1. PICK s \in {"token", "assume", "call"} : On(w, s) /\ tmu' = IF s = "call" THEN Nobody ELSE w
    BY <1>5 DEF LockToken
  <2>2. mu' = mu /\ tmu = Nobody /\ pc[w] = "creds"
    BY <1>5 DEF LockToken, envVars
  <2>3. pc'[w] = s /\ \A v \in Workers \ {w} : pc'[v] = pc[v]
    BY <2>1, Went
  <2> QED  BY <2>1, <2>2, <2>3 DEF MutexesOwned
<1>6. CASE RefreshToken(w)
  <2>1. mu' = mu /\ pc[w] = "token"
    BY <1>6 DEF RefreshToken, envVars
  <2>2. CASE On(w, "assume") /\ tmu' = tmu
    BY <2>1, <2>2, Went DEF MutexesOwned
  <2>3. CASE tmu' = Nobody /\ (On(w, "call") \/ End(w))
    <3>1. pc'[w] \in {"call", "idle"} /\ \A v \in Workers \ {w} : pc'[v] = pc[v]
      BY <2>3, Went, Ended
    <3> QED  BY <2>1, <2>3, <3>1 DEF MutexesOwned
  <2> QED  BY <1>6, <2>2, <2>3 DEF RefreshToken, TokenRefused
<1>7. CASE AssumeRole(w)
  <2>1. mu' = mu /\ tmu' = Nobody /\ pc[w] = "assume" /\ (On(w, "call") \/ End(w))
    BY <1>7 DEF AssumeRole, envVars
  <2>2. pc'[w] \in {"call", "idle"} /\ \A v \in Workers \ {w} : pc'[v] = pc[v]
    BY <2>1, Went, Ended
  <2> QED  BY <2>1, <2>2 DEF MutexesOwned
<1>8. CASE Fetch(w)
  BY <1>8, Moved, OutsideMutexes DEF Fetch, envVars, tokenVars
<1>9. CASE Call(w)
  <2>1. /\ mu' = mu /\ tmu' = tmu /\ pc[w] = "call"
        /\ On(w, "wait") \/ End(w)
    BY <1>9 DEF Call, envVars, tokenVars
  <2>2. pc'[w] \in {"wait", "idle"} /\ \A v \in Workers \ {w} : pc'[v] = pc[v]
    BY <2>1, Went, Ended
  <2> QED  BY <2>1, <2>2, OutsideMutexes
<1>10. CASE Wait(w)
  <2>1. /\ mu' = mu /\ tmu' = tmu /\ pc[w] = "wait"
        /\ On(w, "fetch") \/ End(w)
    BY <1>10 DEF Wait, envVars, tokenVars
  <2>2. pc'[w] \in {"fetch", "idle"} /\ \A v \in Workers \ {w} : pc'[v] = pc[v]
    BY <2>1, Went, Ended
  <2> QED  BY <2>1, <2>2, OutsideMutexes
<1>11. CASE \E p \in Providers : InitProvider(w, p)
  BY <1>11 DEF InitProvider, tokenVars, callVars, MutexesOwned
<1> QED  BY <1>1, <1>2, <1>3, <1>4, <1>5, <1>6, <1>7, <1>8, <1>9, <1>10, <1>11 DEF Step

\* Each mutex is held by the worker that is between taking and releasing it
\* and by nobody else, whichever way the refresh or the initialisation ends.
THEOREM MutexesOwnedHolds == Spec => []MutexesOwned
<1>1. Init => MutexesOwned
  BY DEF Init, MutexesOwned
<1>2. TypeOK /\ MutexesOwned /\ [Next]_vars => MutexesOwned'
  <2> SUFFICES ASSUME TypeOK, MutexesOwned, [Next]_vars PROVE MutexesOwned'
    OBVIOUS
  <2>1. CASE Tick
    BY <2>1 DEF Tick, callVars, MutexesOwned
  <2>2. ASSUME NEW w \in Workers, Start(w) PROVE MutexesOwned'
    BY <2>2, Moved, OutsideMutexes DEF Start, envVars, tokenVars
  <2>3. ASSUME NEW w \in Workers, Cancel(w) PROVE MutexesOwned'
    BY <2>3 DEF Cancel, envVars, tokenVars, MutexesOwned
  <2>4. ASSUME NEW w \in Workers, Step(w) PROVE MutexesOwned'
    BY <2>4, MutexStep
  <2>5. CASE UNCHANGED vars
    BY <2>5 DEF vars, envVars, tokenVars, callVars, MutexesOwned
  <2> QED  BY <2>1, <2>2, <2>3, <2>4, <2>5 DEF Next
<1> QED  BY <1>1, <1>2, TypeCorrect, PTL DEF Spec

-----------------------------------------------------------------------------
(* Identities                                                              *)

\* Every client authenticates as what its configuration asks for.
THEOREM IdentityKeptHolds == Spec => []IdentityKept
<1>1. Init => IdentityKept
  BY DEF Init, IdentityKept
<1>2. TypeOK /\ IdentityKept /\ [Next]_vars => IdentityKept'
  <2> SUFFICES ASSUME TypeOK, IdentityKept, [Next]_vars PROVE IdentityKept'
    OBVIOUS
  <2>1. auth' = auth
    BY DEF Next, Tick, Start, Cancel, Step, LockEnv, InitEnds, Probe, BuildStoreClient, LockToken, RefreshToken,
           AssumeRole, Fetch, Call, Wait, InitProvider, vars, tokenVars
  <2>2. client' = client \/ (~Refused(auth) /\ client' = Identity(auth))
    BY DEF Next, Tick, Start, Cancel, Step, LockEnv, InitEnds, Probe, BuildStoreClient, LockToken, RefreshToken,
           AssumeRole, Fetch, Call, Wait, InitProvider, vars, tokenVars
  <2>3. CASE client' = client
    BY <2>1, <2>3 DEF IdentityKept, Intended
  <2>4. CASE ~Refused(auth) /\ client' = Identity(auth)
    <3>1. client' = Intended(auth)
      BY <2>4, IdentityTyped
    <3> QED  BY <2>1, <3>1 DEF IdentityKept, Intended
  <2> QED  BY <2>2, <2>3, <2>4
<1> QED  BY <1>1, <1>2, TypeCorrect, PTL DEF Spec

-----------------------------------------------------------------------------
(* Credentials                                                             *)

\* The window is never empty, so what is outside of it has not expired.
LEMMA WindowNotEmpty ==
    ASSUME NEW left \in Nat, NEW total \in Nat
    PROVE  RefreshWindow(left, total) \in Int /\ RefreshWindow(left, total) > 0
<1>1. (IF total = Unknown THEN left ELSE total) \div 5 \in Int
  BY DEF Unknown
<1> QED  BY <1>1 DEF RefreshWindow

LEMMA FreshIsLive ==
    ASSUME NEW t \in [left : Nat, total : Nat], ~NeedsRefresh(t)
    PROVE  t.left > 0
<1>1. t.left \in Nat /\ t.total \in Nat
  OBVIOUS
<1> QED  BY <1>1, WindowNotEmpty DEF NeedsRefresh

LEMMA ToCall ==
    ASSUME TypeOK, NEW w \in Workers, pc[w] \in {"creds", "token", "assume"}, pc'[w] = "call", Step(w)
    PROVE  cred'.left > 0
<1>1. LockToken(w) \/ RefreshToken(w) \/ AssumeRole(w)
  BY DEF Step, LockEnv, InitEnds, Probe, BuildStoreClient, Fetch, Call, Wait, InitProvider
<1>2. CASE LockToken(w)
  <2>1. ~NeedsRefresh(cred)
    BY <1>2, Went DEF LockToken
  <2>2. cred' = cred
    BY <1>2 DEF LockToken
  <2> QED  BY <2>1, <2>2, FreshIsLive DEF TypeOK
<1>3. CASE RefreshToken(w)
  <2>1. cred' = cred /\ (On(w, "assume") \/ (cred.left > 0 /\ On(w, "call")) \/ End(w))
    BY <1>3 DEF RefreshToken, TokenRefused
  <2>2. On(w, "assume") => pc'[w] = "assume"
    BY Went
  <2>3. End(w) => pc'[w] = "idle"
    BY Ended
  <2>4. "assume" # "call" /\ "idle" # "call"
    OBVIOUS
  <2>5. ~On(w, "assume")
    BY <2>2, <2>4
  <2>6. ~End(w)
    BY <2>3, <2>4
  <2>7. cred.left > 0
    BY <2>1, <2>5, <2>6
  <2> QED  BY <2>1, <2>7
<1>4. CASE AssumeRole(w)
  <2>1. End(w) \/ \E life \in Lifetimes : cred' = Issued(life)
    BY <1>4 DEF AssumeRole
  <2>2. ~End(w)
    BY Ended
  <2>3. PICK life \in Lifetimes : cred' = Issued(life)
    BY <2>1, <2>2
  <2> QED  BY <2>3, LifeFacts DEF Issued
<1> QED  BY <1>1, <1>2, <1>3, <1>4

LEMMA OthersStay ==
    ASSUME TypeOK, NEW w \in Workers, Start(w) \/ Step(w) \/ Cancel(w), NEW v \in Workers \ {w}
    PROVE  pc'[v] = pc[v]
<1>1. \/ pc' = pc
      \/ \E s : GoTo(w, s)
  BY DEF Start, Cancel, Step, LockEnv, InitEnds, Probe, BuildStoreClient, LockToken, RefreshToken, TokenRefused,
         AssumeRole, Fetch, Call, Wait, InitProvider, On, End, callVars
<1> QED  BY <1>1, Moved

\* No worker goes on to its call with a credential that has expired.
THEOREM ServesLiveCredentialHolds == Spec => ServesLiveCredential
<1>1. TypeOK /\ [Next]_vars =>
        [\A w \in Workers : pc[w] \in {"creds", "token", "assume"} /\ pc'[w] = "call" => cred'.left > 0]_vars
  <2> SUFFICES ASSUME TypeOK, Next, NEW v \in Workers, pc[v] \in {"creds", "token", "assume"}, pc'[v] = "call"
               PROVE  cred'.left > 0
    OBVIOUS
  <2>1. pc'[v] # pc[v]
    OBVIOUS
  <2>2. PICK w \in Workers : Start(w) \/ Step(w) \/ Cancel(w)
    BY <2>1 DEF Next, Tick, callVars
  <2>3. v = w
    BY <2>1, <2>2, OthersStay
  <2>4. Step(w)
    BY <2>1, <2>2, <2>3 DEF Start, Cancel
  <2> QED  BY <2>3, <2>4, ToCall
<1> QED  BY <1>1, TypeCorrect, PTL DEF Spec, ServesLiveCredential

-----------------------------------------------------------------------------
(* ENV clients                                                             *)

ServedOrBroken(p) == p \in ready \/ ~CanBuild(p)

\* While a failure is cached every provider that can be built has its client,
\* and so have those a running initialisation has gone past: with it a worker
\* is only sent away for a client that cannot be built.
EnvSettled ==
    /\ age < TTL => \A p \in Providers : ServedOrBroken(p)
    /\ mu # Nobody => \A p \in Providers \ todo : ServedOrBroken(p)
    /\ \A w \in Workers : pc[w] \in {"ensure", "init", "probe"} => way[w] \in Providers
    /\ \A w \in Workers : pc[w] = "probe" => ServedOrBroken(way[w])

\* Clients are never taken back.
LEMMA ServedStays ==
    ASSUME NEW p, ServedOrBroken(p), env' = env, bad' = bad, ready \subseteq ready'
    PROVE  ServedOrBroken(p)'
BY DEF ServedOrBroken, CanBuild

\* The steps that do not touch the ENV registry.
NoNewProbe(v) ==
    \/ pc'[v] \notin {"ensure", "init", "probe"}
    \/ pc'[v] = "ensure" /\ way'[v] \in Providers
    \/ pc'[v] = pc[v] /\ way'[v] = way[v]
LEMMA RegistryUntouched ==
    ASSUME EnvSettled, envVars' = envVars,
           \A v \in Workers : NoNewProbe(v)
    PROVE  EnvSettled'
<1>1. \A p : ServedOrBroken(p) => ServedOrBroken(p)'
  BY DEF envVars, ServedOrBroken, CanBuild
<1>2. age' = age /\ mu' = mu /\ todo' = todo
  BY DEF envVars
<1> QED  BY <1>1, <1>2 DEF EnvSettled, NoNewProbe

LEMMA EnvStep ==
    ASSUME TypeOK, MutexesOwned, EnvSettled, NEW w \in Workers,
           LockEnv(w) \/ InitEnds(w) \/ \E p \in Providers : InitProvider(w, p)
    PROVE  EnvSettled'
<1>0. env' = env /\ bad' = bad /\ ready \subseteq ready'
  BY DEF LockEnv, InitEnds, InitProvider
<1>1. \A p : ServedOrBroken(p) => ServedOrBroken(p)'
  BY <1>0 DEF ServedOrBroken, CanBuild
<1>2. CASE LockEnv(w)
  <2>1. CASE age < TTL
    <3>1. On(w, "probe") /\ age' = age /\ mu' = mu /\ todo' = todo /\ pc[w] = "ensure"
      BY <1>2, <2>1 DEF LockEnv
    <3>2. way[w] \in Providers /\ ServedOrBroken(way[w])
      BY <2>1, <3>1 DEF EnvSettled
    <3> QED  BY <1>1, <3>1, <3>2, Went DEF EnvSettled
  <2>2. CASE ~(age < TTL)
    <3>1. On(w, "init") /\ age' = TTL /\ todo' = Providers /\ pc[w] = "ensure"
      BY <1>2, <2>2 DEF LockEnv
    <3>2. ~(age' < TTL)
      BY <3>1, LifeFacts
    <3> QED  BY <1>1, <3>1, <3>2, Went DEF EnvSettled
  <2> QED  BY <2>1, <2>2
<1>3. CASE InitEnds(w)
  <2>1. On(w, "probe") /\ mu' = Nobody /\ pc[w] = "init" /\ todo = {}
    BY <1>3 DEF InitEnds
  <2>2. \A p \in Providers : ServedOrBroken(p)
    BY <2>1, CallsAssumption DEF MutexesOwned, EnvSettled
  <2>3. way[w] \in Providers
    BY <2>1 DEF EnvSettled
  <2> QED  BY <1>1, <2>1, <2>2, <2>3, Went DEF EnvSettled
<1>4. ASSUME NEW p \in Providers, InitProvider(w, p) PROVE EnvSettled'
  <2>1. age' = age /\ mu' = mu /\ pc' = pc /\ way' = way /\ todo' = todo \ {p}
    BY <1>4 DEF InitProvider, callVars
  <2>2. ServedOrBroken(p)'
    BY <1>0, <1>4 DEF InitProvider, ServedOrBroken, CanBuild
  <2> QED  BY <1>1, <2>1, <2>2 DEF EnvSettled
<1> QED  BY <1>2, <1>3, <1>4

LEMMA EnvSettledHolds == Spec => []EnvSettled
<1>1. Init => EnvSettled
  BY LifeFacts DEF Init, EnvSettled
<1>2. TypeOK /\ MutexesOwned /\ EnvSettled /\ [Next]_vars => EnvSettled'
  <2> SUFFICES ASSUME TypeOK, MutexesOwned, EnvSettled, [Next]_vars PROVE EnvSettled'
    OBVIOUS
  <2>1. CASE Tick
    <3>1. \A p : ServedOrBroken(p) => ServedOrBroken(p)'
      BY <2>1 DEF Tick, ServedOrBroken, CanBuild
    <3>2. age' < TTL => age < TTL
      BY <2>1, LifeFacts DEF Tick, TypeOK
    <3>3. mu' = mu /\ todo' = todo /\ pc' = pc /\ way' = way
      BY <2>1 DEF Tick, callVars
    <3> QED  BY <3>1, <3>2, <3>3 DEF EnvSettled
  <2>2. ASSUME NEW w \in Workers, Start(w) PROVE EnvSettled'
    <3>1. envVars' = envVars
      BY <2>2 DEF Start
    <3>2. PICK c \in Providers \cup {Store} :
             /\ way' = [way EXCEPT ![w] = c]
             /\ GoTo(w, IF c = Store THEN "build" ELSE IF c \in ready THEN "fetch" ELSE "ensure")
      BY <2>2 DEF Start
    <3>3. way'[w] = c /\ \A v \in Workers \ {w} : way'[v] = way[v]
      BY <3>2 DEF TypeOK
    <3>4. pc'[w] = (IF c = Store THEN "build" ELSE IF c \in ready THEN "fetch" ELSE "ensure")
          /\ \A v \in Workers \ {w} : pc'[v] = pc[v]
      BY <3>2, Moved
    <3>5. \/ pc'[w] \notin {"ensure", "init", "probe"}
          \/ pc'[w] = "ensure" /\ way'[w] \in Providers
      BY <3>3, <3>4
    <3>6. \A v \in Workers : NoNewProbe(v)
      BY <3>3, <3>4, <3>5 DEF NoNewProbe
    <3> QED  BY <3>1, <3>6, RegistryUntouched
  <2>3. ASSUME NEW w \in Workers, Cancel(w) PROVE EnvSettled'
    BY <2>3, RegistryUntouched DEF Cancel, NoNewProbe
  <2>4. ASSUME NEW w \in Workers, Step(w) PROVE EnvSettled'
    <3>1. CASE LockEnv(w) \/ InitEnds(w) \/ \E p \in Providers : InitProvider(w, p)
      BY <3>1, EnvStep
    <3>2. CASE Probe(w) \/ BuildStoreClient(w) \/ LockToken(w) \/ RefreshToken(w) \/ AssumeRole(w)
                 \/ Fetch(w) \/ Call(w) \/ Wait(w)
      <4>1. envVars' = envVars /\ way' = way
        BY <3>2 DEF Probe, BuildStoreClient, LockToken, RefreshToken, TokenRefused, AssumeRole,
                    Fetch, Call, Wait, On, End
      <4>2. \E s \in {"fetch", "idle", "token", "assume", "call", "creds", "wait"} : GoTo(w, s)
        BY <3>2 DEF Probe, BuildStoreClient, LockToken, RefreshToken, TokenRefused, AssumeRole,
                    Fetch, Call, Wait, On, End
      <4>3. pc'[w] \in {"fetch", "idle", "token", "assume", "call", "creds", "wait"}
            /\ \A v \in Workers \ {w} : pc'[v] = pc[v]
        BY <4>2, Moved
      <4>4. pc'[w] \notin {"ensure", "init", "probe"}
        BY <4>3
      <4>5. \A v \in Workers : NoNewProbe(v)
        BY <4>1, <4>3, <4>4 DEF NoNewProbe
      <4> QED  BY <4>1, <4>5, RegistryUntouched
    <3> QED  BY <2>4, <3>1, <3>2 DEF Step
  <2>5. CASE UNCHANGED vars
    BY <2>5, RegistryUntouched DEF vars, envVars, callVars, NoNewProbe
  <2> QED  BY <2>1, <2>2, <2>3, <2>4, <2>5 DEF Next
<1> QED  BY <1>1, <1>2, TypeCorrect, MutexesOwnedHolds, PTL DEF Spec

\* A worker is sent away without a client only if the ENV client of its
\* provider cannot be built, whatever failed or was cached before.
THEOREM WorkingProviderServedHolds == Spec => WorkingProviderServed
<1>1. TypeOK /\ EnvSettled /\ [Next]_vars =>
        [\A w \in Workers : pc[w] = "probe" /\ pc'[w] = "idle" => ~CanBuild(way[w])]_vars
  <2> SUFFICES ASSUME TypeOK, EnvSettled, Next, NEW v \in Workers, pc[v] = "probe", pc'[v] = "idle"
               PROVE  ~CanBuild(way[v])
    OBVIOUS
  <2>1. pc'[v] # pc[v]
    OBVIOUS
  <2>2. PICK w \in Workers : Start(w) \/ Step(w) \/ Cancel(w)
    BY <2>1 DEF Next, Tick, callVars
  <2>3. v = w
    BY <2>1, <2>2, OthersStay
  <2>4. Probe(v)
    BY <2>1, <2>2, <2>3 DEF Start, Cancel, Step, LockEnv, InitEnds, BuildStoreClient, LockToken, RefreshToken,
                            AssumeRole, Fetch, Call, Wait, InitProvider
  <2>5. way[v] \notin ready
    BY <2>4, Went DEF Probe
  <2> QED  BY <2>5 DEF EnvSettled, ServedOrBroken
<1> QED  BY <1>1, TypeCorrect, EnvSettledHolds, PTL DEF Spec, WorkingProviderServed

-----------------------------------------------------------------------------
(* Retries                                                                 *)

\* Before its first call a worker has made none; between two calls it has one
\* left and none was late; a late one was made after a cancellation.
Counted(w) ==
    /\ pc[w] \in {"idle", "ensure", "init", "probe", "build"} => calls[w] = 0
    /\ pc[w] \in {"fetch", "wait"} => calls[w] < MaxAttempts
    /\ pc[w] \in {"idle", "ensure", "init", "probe", "build", "fetch", "wait"} => late[w] = 0
    /\ late[w] > 0 => cancelled[w]
    /\ calls[w] <= MaxAttempts /\ late[w] <= 1

Counts == \A w \in Workers : Counted(w)

LEMMA CountedStays ==
    ASSUME NEW v \in Workers, Counted(v), pc'[v] = pc[v], calls'[v] = calls[v], late'[v] = late[v],
           cancelled'[v] = cancelled[v]
    PROVE  Counted(v)'
BY DEF Counted

\* Whatever ends a worker's task, or takes it on without a call.
LEMMA EndCounted ==
    ASSUME TypeOK, Counts, NEW w \in Workers, End(w)
    PROVE  Counts'
<1>1. Counted(w)'
  <2>1. pc'[w] = "idle" /\ calls'[w] = 0 /\ late'[w] = 0
    BY Ended
  <2> QED  BY <2>1, LifeFacts DEF Counted
<1>2. ASSUME NEW v \in Workers \ {w} PROVE Counted(v)'
  BY <1>2, Ended, CountedStays DEF Counts
<1> QED  BY <1>1, <1>2 DEF Counts

LEMMA OnCounted ==
    ASSUME TypeOK, Counts, NEW w \in Workers, NEW s \in Steps, On(w, s),
           s \in {"ensure", "init", "probe", "build"} => pc[w] \in {"idle", "ensure", "init", "probe", "build"},
           s = "idle" => FALSE,
           s \in {"fetch", "wait"} => calls[w] < MaxAttempts /\ late[w] = 0
    PROVE  Counts'
<1>1. Counted(w)'
  <2>1. pc'[w] = s /\ calls'[w] = calls[w] /\ late'[w] = late[w] /\ cancelled'[w] = cancelled[w]
    BY Went
  <2>2. Counted(w)
    BY DEF Counts
  <2> QED  BY <2>1, <2>2 DEF Counted
<1>2. ASSUME NEW v \in Workers \ {w} PROVE Counted(v)'
  BY <1>2, Went, CountedStays DEF Counts
<1> QED  BY <1>1, <1>2 DEF Counts

LEMMA CountStep ==
    ASSUME TypeOK, Counts, NEW w \in Workers, Step(w)
    PROVE  Counts'
<1>0. Counted(w) /\ calls[w] \in Nat /\ late[w] \in Nat
  BY DEF Counts, TypeOK
<1> USE LifeFacts DEF Steps
<1>1. CASE LockEnv(w) \/ InitEnds(w)
  <2>1. (On(w, "init") \/ On(w, "probe")) /\ pc[w] \in {"ensure", "init"}
    BY <1>1 DEF LockEnv, InitEnds
  <2> QED  BY <2>1, OnCounted
<1>2. CASE Probe(w) \/ BuildStoreClient(w)
  <2>1. pc[w] \in {"probe", "build"} /\ (On(w, "fetch") \/ End(w))
    BY <1>2 DEF Probe, BuildStoreClient
  <2>2. calls[w] < MaxAttempts /\ late[w] = 0
    BY <1>0, <2>1 DEF Counted
  <2> QED  BY <2>1, <2>2, OnCounted, EndCounted
<1>3. CASE LockToken(w) \/ RefreshToken(w) \/ AssumeRole(w)
  <2>1. End(w) \/ \E s \in {"token", "assume", "call"} : On(w, s)
    BY <1>3 DEF LockToken, RefreshToken, TokenRefused, AssumeRole
  <2> QED  BY <2>1, OnCounted, EndCounted
<1>4. CASE Fetch(w)
  <2>1. /\ calls'[w] = calls[w] + 1 /\ late'[w] = IF cancelled[w] THEN late[w] + 1 ELSE late[w]
        /\ pc'[w] \in {"creds", "call"} /\ cancelled' = cancelled
        /\ pc[w] = "fetch"
        /\ \A v \in Workers \ {w} : pc'[v] = pc[v] /\ calls'[v] = calls[v] /\ late'[v] = late[v]
    BY <1>4 DEF Fetch, GoTo, TypeOK
  <2>2. calls[w] < MaxAttempts /\ late[w] = 0
    BY <1>0, <2>1 DEF Counted
  <2>3. Counted(w)'
    BY <1>0, <2>1, <2>2 DEF Counted
  <2>4. ASSUME NEW v \in Workers \ {w} PROVE Counted(v)'
    BY <2>1, <2>4, CountedStays DEF Counts
  <2> QED  BY <2>3, <2>4 DEF Counts
<1>5. CASE Call(w)
  <2>1. End(w) \/ (~Stops(w) /\ On(w, "wait"))
    BY <1>5 DEF Call
  <2>2. ~Stops(w) => calls[w] < MaxAttempts /\ late[w] = 0
    BY <1>0 DEF Counted, Stops
  <2> QED  BY <2>1, <2>2, OnCounted, EndCounted
<1>6. CASE Wait(w)
  <2>1. pc[w] = "wait" /\ (On(w, "fetch") \/ End(w))
    BY <1>6 DEF Wait
  <2>2. calls[w] < MaxAttempts /\ late[w] = 0
    BY <1>0, <2>1 DEF Counted
  <2> QED  BY <2>1, <2>2, OnCounted, EndCounted
<1>7. CASE \E p \in Providers : InitProvider(w, p)
  BY <1>7, CountedStays DEF InitProvider, callVars, Counts
<1> QED  BY <1>1, <1>2, <1>3, <1>4, <1>5, <1>6, <1>7 DEF Step

\* A call is tried MaxAttempts times at most, and at most once more after its
\* context was cancelled.
THEOREM RetriesBoundedHolds == Spec => []RetriesBounded
<1>1. Init => Counts
  BY LifeFacts DEF Init, Counts, Counted
<1>2. TypeOK /\ Counts /\ [Next]_vars => Counts'
  <2> SUFFICES ASSUME TypeOK, Counts, [Next]_vars PROVE Counts'
    OBVIOUS
  <2>1. CASE Tick
    BY <2>1, CountedStays DEF Tick, callVars, Counts
  <2>2. ASSUME NEW w \in Workers, Start(w) PROVE Counts'
    <3>1. /\ pc[w] = "idle" /\ calls' = calls /\ late' = late /\ cancelled' = cancelled
          /\ pc'[w] \in {"build", "fetch", "ensure"} /\ \A v \in Workers \ {w} : pc'[v] = pc[v]
      BY <2>2 DEF Start, GoTo, TypeOK
    <3>2. Counted(w)'
      BY <3>1, LifeFacts DEF Counts, Counted
    <3>3. ASSUME NEW v \in Workers \ {w} PROVE Counted(v)'
      BY <3>1, <3>3, CountedStays DEF Counts
    <3> QED  BY <3>2, <3>3 DEF Counts
  <2>3. ASSUME NEW w \in Workers, Cancel(w) PROVE Counts'
    <3>1. /\ cancelled'[w] = TRUE /\ pc' = pc /\ calls' = calls /\ late' = late
          /\ \A v \in Workers \ {w} : cancelled'[v] = cancelled[v]
      BY <2>3 DEF Cancel, TypeOK
    <3>2. Counted(w)'
      BY <3>1 DEF Counts, Counted
    <3>3. ASSUME NEW v \in Workers \ {w} PROVE Counted(v)'
      BY <3>1, <3>3, CountedStays DEF Counts
    <3> QED  BY <3>2, <3>3 DEF Counts
  <2>4. ASSUME NEW w \in Workers, Step(w) PROVE Counts'
    BY <2>4, CountStep
  <2>5. CASE UNCHANGED vars
    BY <2>5, CountedStays DEF vars, callVars, Counts
  <2> QED  BY <2>1, <2>2, <2>3, <2>4, <2>5 DEF Next
<1>3. Counts => RetriesBounded
  BY DEF Counts, Counted, RetriesBounded
<1> QED  BY <1>1, <1>2, <1>3, TypeCorrect, PTL DEF Spec
=============================================================================
