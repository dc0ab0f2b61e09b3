------------------------ MODULE ClientReclaim_proofs ------------------------
(***************************************************************************)
(* A custom endpoint nobody asks for leaves nothing behind: the proof of   *)
(* UnusedReclaimed.  Every composite key that has a client or a provider   *)
(* is minded by an ExternalSecret, which either has a use for it or will   *)
(* come back for it: the endpoint is tracked, or asked for by the spec its *)
(* next round reads, or on the list its present round drops from.          *)
(***************************************************************************)
EXTENDS ClientPool_proofs

-----------------------------------------------------------------------------
(* The inductive invariant                                                 *)

Custom(keys) == {k[2] : k \in keys} \ {Plain}

Reclaiming(o) == pc[o] \in {"list", "drop", "stop"}

\* A round that read a deleted object: it drops all the object has and had.
Departing(o) == Reclaiming(o) /\ mode[o] # "live"

\* The endpoints the object will track when its present round has reclaimed.
Aim(o) == IF Reclaiming(o) /\ mode[o] = "live" THEN Custom(want[o]) ELSE tracked[o]
Seen(o) == Composite(esSeen[o].spec)
Asked(o) == Composite(es[o].spec)

\* Of tracker, round, informer and API server no two neighbouring pairs differ:
\* nobody edits a spec before a round has read the edit before.
OneLag(o) ==
  /\ tracked[o] # Aim(o) => Aim(o) = Seen(o) /\ Seen(o) = Asked(o)
  /\ Seen(o) # Asked(o) => Aim(o) = Seen(o)

\* A deletion is seen after it happened, and the finalizer goes after that.
InOrder(o) ==
  /\ es[o].phase = "gone" => esSeen[o].phase # "live" /\ tracked[o] = {}
  /\ esSeen[o].phase # "live" => es[o].phase # "live" /\ es[o].spec = esSeen[o].spec
  /\ Departing(o) => mode[o] = "terminating" /\ esSeen[o].phase # "live"
  /\ pc[o] # "idle" /\ ~Departing(o) => mode[o] = "live" /\ es[o].phase # "gone"

\* What a round works on: keys of its backend, and what it builds is tracked.
AtWork(o) ==
  /\ ~Reclaiming(o) => todo[o] = {}
  /\ \A k \in todo[o] \cup want[o] : k[1] = esSeen[o].spec.provider
  /\ pc[o] = "list" =>
       \A k \in todo[o] : k[2] \in tracked[o] \cup (IF mode[o] = "live" THEN {} ELSE Seen(o))
  /\ pc[o] \in {"sync", "build", "register"} => Custom(want[o]) \subseteq tracked[o]
  /\ pc[o] \in {"build", "register"} => at[o] \in want[o]

\* Nothing queued: the last round read what the informer has, or took the
\* finalizer away.
UpToDate(o) ==
  ~queued[o] /\ esSeen[o].phase # "gone" /\ ~Departing(o) =>
     es[o].phase = "gone" \/ (esSeen[o].phase = "live" /\ Aim(o) = Seen(o))

Fit(o) == OneLag(o) /\ InOrder(o) /\ AtWork(o) /\ UpToDate(o)
AllFit == \A o \in ExternalSecrets : Fit(o)

Keeps(o, k) ==
  ~Departing(o) /\ k[1] = esSeen[o].spec.provider /\ k[2] \in Aim(o) \cup Seen(o)
Minds(o, k) == es[o].phase # "gone" /\ (k \in todo[o] \/ Keeps(o, k))

\* Whoever has dropped the client and is about to stop the provider does not
\* come back for a client another puts there meanwhile.
MindsClient(o, k) ==
  es[o].phase # "gone" /\ ((k \in todo[o] /\ ~(pc[o] = "stop" /\ at[o] = k)) \/ Keeps(o, k))

CompositeKeys == {k \in Keys : k[2] # Plain}

Minded == \A k \in CompositeKeys :
  /\ pool[k] # None => \E o \in ExternalSecrets : MindsClient(o, k)
  /\ ram[k] # None => \E o \in ExternalSecrets : Minds(o, k)

Reclaim == TypeOK /\ AtKey /\ AllFit /\ Minded

\* The two assumptions under which the passing runs check the property.
OneProvider == \A s, t \in EsSpecs : s.provider = t.provider

-----------------------------------------------------------------------------
(* Frames *)

View(o) == <<pc[o], mode[o], todo[o], want[o], at[o], tracked[o], es[o], esSeen[o]>>

\* A step leaves an object alone that at most gets queued.
Apart(o) == UNCHANGED View(o) /\ (queued[o] => queued'[o])

LEMMA ApartStays ==
  ASSUME NEW o \in ExternalSecrets, Apart(o)
  PROVE  /\ Fit(o) => Fit(o)'
         /\ \A k \in CompositeKeys : /\ Minds(o, k) => Minds(o, k)'
                                     /\ MindsClient(o, k) => MindsClient(o, k)'
<1> USE DEF Apart, View
<1>1. /\ Reclaiming(o)' = Reclaiming(o) /\ Departing(o)' = Departing(o) /\ Aim(o)' = Aim(o)
      /\ Seen(o)' = Seen(o) /\ Asked(o)' = Asked(o)
  BY DEF Reclaiming, Departing, Aim, Seen, Asked, Custom
<1>2. Fit(o) => Fit(o)'
  BY <1>1 DEF Fit, OneLag, InOrder, AtWork, UpToDate, Custom
<1> QED BY <1>1, <1>2 DEF Minds, MindsClient, Keeps

\* No client and no provider appears under a composite key.
NoMore == \A k \in CompositeKeys :
  (pool'[k] # None => pool[k] # None) /\ (ram'[k] # None => ram[k] # None)

LEMMA NoStep ==
  ASSUME AllFit, Minded, \A o \in ExternalSecrets : Apart(o), NoMore
  PROVE  AllFit' /\ Minded'
<1>1. AllFit'
  BY ApartStays DEF AllFit
<1>2. ASSUME NEW k \in CompositeKeys, pool'[k] # None
      PROVE  \E o \in ExternalSecrets : MindsClient(o, k)'
  BY <1>2, ApartStays DEF Minded, NoMore
<1>3. ASSUME NEW k \in CompositeKeys, ram'[k] # None
      PROVE  \E o \in ExternalSecrets : Minds(o, k)'
  BY <1>3, ApartStays DEF Minded, NoMore
<1> QED BY <1>1, <1>2, <1>3 DEF Minded, CompositeKeys

\* One object moves, and goes on minding what it minded.
LEMMA OneStep ==
  ASSUME AllFit, Minded, NEW e \in ExternalSecrets, Fit(e)', NoMore,
         \A o \in ExternalSecrets \ {e} : Apart(o),
         \A k \in CompositeKeys : /\ Minds(e, k) => Minds(e, k)'
                                  /\ MindsClient(e, k) => MindsClient(e, k)'
  PROVE  AllFit' /\ Minded'
<1>1. AllFit'
  BY ApartStays DEF AllFit
<1>2. ASSUME NEW k \in CompositeKeys, pool'[k] # None
      PROVE  \E o \in ExternalSecrets : MindsClient(o, k)'
  BY <1>2, ApartStays DEF Minded, NoMore
<1>3. ASSUME NEW k \in CompositeKeys, ram'[k] # None
      PROVE  \E o \in ExternalSecrets : Minds(o, k)'
  BY <1>3, ApartStays DEF Minded, NoMore
<1> QED BY <1>1, <1>2, <1>3 DEF Minded, CompositeKeys

-----------------------------------------------------------------------------
(* Users and informers *)

LEMMA SeenSpec ==
  ASSUME TypeOK, NEW e \in ExternalSecrets
  PROVE  /\ esSeen[e].spec \in EsSpecs /\ es[e].spec \in EsSpecs
         /\ esSeen[e].phase \in Phases /\ es[e].phase \in Phases
         /\ Seen(e) \subseteq Endpoints /\ Plain \notin Endpoints
BY PoolAssumption DEF TypeOK, EsObject, Seen, Composite

LEMMA InitReclaim == Init => AllFit /\ Minded
<1> SUFFICES ASSUME Init PROVE AllFit /\ Minded
  OBVIOUS
<1>1. ASSUME NEW o \in ExternalSecrets PROVE Fit(o)
  <2>1. /\ pc[o] = "idle" /\ todo[o] = {} /\ want[o] = {} /\ tracked[o] = {} /\ queued[o]
        /\ esSeen[o] = es[o] /\ es[o].phase = "live"
    BY KeyFacts DEF Init
  <2>2. ~Reclaiming(o) /\ ~Departing(o) /\ Aim(o) = tracked[o] /\ Seen(o) = Asked(o)
    BY <2>1 DEF Reclaiming, Departing, Aim, Seen, Asked
  <2> QED BY <2>1, <2>2 DEF Fit, OneLag, InOrder, AtWork, UpToDate
<1>2. Minded
  BY DEF Init, Minded, CompositeKeys
<1> QED BY <1>1, <1>2 DEF AllFit

LEMMA RestartReclaim ==
  ASSUME TypeOK, AllFit, Restart
  PROVE  AllFit' /\ Minded'
<1>1. ASSUME NEW o \in ExternalSecrets PROVE Fit(o)'
  <2>1. /\ pc'[o] = "idle" /\ todo'[o] = {} /\ want'[o] = {} /\ tracked'[o] = {} /\ queued'[o]
        /\ esSeen'[o] = es'[o]
    BY KeyFacts DEF Restart
  <2>2. ~Reclaiming(o)' /\ ~Departing(o)' /\ Aim(o)' = tracked'[o] /\ Seen(o)' = Asked(o)'
    BY <2>1 DEF Reclaiming, Departing, Aim, Seen, Asked
  <2> QED BY <2>1, <2>2 DEF Fit, OneLag, InOrder, AtWork, UpToDate
<1>2. Minded'
  BY DEF Restart, Minded, CompositeKeys
<1> QED BY <1>1, <1>2 DEF AllFit

LEMMA EditReclaim ==
  ASSUME MergedEdits = FALSE, TypeOK, AllFit, Minded, NEW e \in ExternalSecrets, EditES(e)
  PROVE  AllFit' /\ Minded'
<1>1. PICK s \in EsSpecs : es' = [es EXCEPT ![e].spec = s]
  BY DEF EditES
<1>2. /\ UNCHANGED <<poolVars, esSeen, queued, roundVars, tracked>>
      /\ es[e].phase = "live" /\ tracked[e] = Asked(e)
  BY DEF EditES, Asked
<1>3. es'[e].phase = "live" /\ \A o \in ExternalSecrets \ {e} : es'[o] = es[o]
  BY <1>1, <1>2 DEF TypeOK, EsObject
<1>4. \A o \in ExternalSecrets \ {e} : Apart(o)
  BY <1>2, <1>3 DEF Apart, View, roundVars
<1>5. /\ Reclaiming(e)' = Reclaiming(e) /\ Departing(e)' = Departing(e) /\ Aim(e)' = Aim(e)
      /\ Seen(e)' = Seen(e)
  BY <1>2 DEF Reclaiming, Departing, Aim, Seen, Custom, roundVars
<1>6. Fit(e)
  BY DEF AllFit
<1>7. tracked[e] = Aim(e) /\ Aim(e) = Seen(e)
  BY <1>2, <1>6 DEF Fit, OneLag
<1>8. esSeen[e].phase = "live"
  BY <1>2, <1>6 DEF Fit, InOrder
<1>9. Fit(e)'
  <2>1. OneLag(e)'
    BY <1>2, <1>5, <1>7 DEF OneLag
  <2>2. InOrder(e)'
    BY <1>2, <1>3, <1>5, <1>6, <1>8 DEF Fit, InOrder, roundVars
  <2>3. AtWork(e)' /\ UpToDate(e)'
    BY <1>2, <1>5, <1>6, <1>7, <1>8 DEF Fit, AtWork, UpToDate, roundVars, Custom
  <2> QED BY <2>1, <2>2, <2>3 DEF Fit
<1>10. \A k \in CompositeKeys : Minds(e, k)' = Minds(e, k) /\ MindsClient(e, k)' = MindsClient(e, k)
  BY <1>2, <1>3, <1>5 DEF Minds, MindsClient, Keeps, roundVars
<1> QED BY <1>2, <1>4, <1>9, <1>10, OneStep DEF NoMore, poolVars

LEMMA DeleteReclaim ==
  ASSUME TypeOK, AllFit, Minded, NEW e \in ExternalSecrets, DeleteES(e)
  PROVE  AllFit' /\ Minded'
<1>1. /\ UNCHANGED <<poolVars, esSeen, queued, roundVars, tracked>>
      /\ es[e].phase = "live" /\ es' = [es EXCEPT ![e].phase = "terminating"]
  BY DEF DeleteES
<1>2. /\ es'[e].phase = "terminating" /\ es'[e].spec = es[e].spec
      /\ \A o \in ExternalSecrets \ {e} : es'[o] = es[o]
  BY <1>1 DEF TypeOK, EsObject
<1>3. \A o \in ExternalSecrets \ {e} : Apart(o)
  BY <1>1, <1>2 DEF Apart, View, roundVars
<1>4. /\ Reclaiming(e)' = Reclaiming(e) /\ Departing(e)' = Departing(e) /\ Aim(e)' = Aim(e)
      /\ Seen(e)' = Seen(e) /\ Asked(e)' = Asked(e)
  BY <1>1, <1>2 DEF Reclaiming, Departing, Aim, Seen, Asked, Custom, roundVars
<1>5. Fit(e)
  BY DEF AllFit
<1>6. esSeen[e].phase = "live"
  BY <1>1, <1>5 DEF Fit, InOrder
<1>7. Fit(e)'
  <2>1. OneLag(e)'
    BY <1>1, <1>4, <1>5 DEF Fit, OneLag
  <2>2. InOrder(e)'
    BY <1>1, <1>2, <1>4, <1>5, <1>6 DEF Fit, InOrder, roundVars
  <2>3. AtWork(e)' /\ UpToDate(e)'
    BY <1>1, <1>2, <1>4, <1>5, <1>6 DEF Fit, AtWork, UpToDate, roundVars, Custom
  <2> QED BY <2>1, <2>2, <2>3 DEF Fit
<1>8. \A k \in CompositeKeys : Minds(e, k)' = Minds(e, k) /\ MindsClient(e, k)' = MindsClient(e, k)
  BY <1>1, <1>2, <1>4 DEF Minds, MindsClient, Keeps, roundVars
<1> QED BY <1>1, <1>3, <1>7, <1>8, OneStep DEF NoMore, poolVars

\* What the informer's copy loses with an edit, the round behind still aims at.
LEMMA DeliverReclaim ==
  ASSUME OneProvider, TypeOK, AllFit, Minded, NEW e \in ExternalSecrets, DeliverES(e)
  PROVE  AllFit' /\ Minded'
<1>1. /\ UNCHANGED <<poolVars, es, roundVars, tracked>>
      /\ esSeen' = [esSeen EXCEPT ![e] = es[e]] /\ queued' = [queued EXCEPT ![e] = TRUE]
  BY DEF DeliverES
<1>2. esSeen'[e] = es[e] /\ queued'[e] = TRUE
  BY <1>1, KeyFacts DEF TypeOK
<1>3. \A o \in ExternalSecrets \ {e} : Apart(o)
  BY <1>1, KeyFacts DEF Apart, View, roundVars, TypeOK
<1>4. /\ Reclaiming(e)' = Reclaiming(e) /\ Departing(e)' = Departing(e) /\ Aim(e)' = Aim(e)
      /\ Seen(e)' = Asked(e) /\ Asked(e)' = Asked(e)
  BY <1>1, <1>2 DEF Reclaiming, Departing, Aim, Seen, Asked, Custom, roundVars
<1>5. Fit(e)
  BY DEF AllFit
<1>6. esSeen'[e].spec.provider = esSeen[e].spec.provider
  BY <1>2, SeenSpec DEF OneProvider
<1>7. Fit(e)'
  <2>1. OneLag(e)'
    BY <1>1, <1>4, <1>5 DEF Fit, OneLag
  <2>2. InOrder(e)'
    BY <1>1, <1>2, <1>4, <1>5 DEF Fit, InOrder, roundVars
  <2>3. Departing(e) => Seen(e)' = Seen(e)
    BY <1>4, <1>5 DEF Fit, InOrder, Seen, Asked
  <2>4. AtWork(e)'
    BY <1>1, <1>4, <1>5, <1>6, <2>3 DEF Fit, AtWork, roundVars, Custom, Departing, Reclaiming
  <2>5. UpToDate(e)'
    BY <1>2 DEF UpToDate
  <2> QED BY <2>1, <2>2, <2>4, <2>5 DEF Fit
<1>8. ASSUME NEW k \in CompositeKeys, Keeps(e, k) PROVE Keeps(e, k)'
  <2>1. Seen(e) # Asked(e) => Aim(e) = Seen(e)
    BY <1>5 DEF Fit, OneLag
  <2> QED BY <1>8, <1>4, <1>6, <2>1 DEF Keeps
<1>9. \A k \in CompositeKeys : /\ Minds(e, k) => Minds(e, k)'
                               /\ MindsClient(e, k) => MindsClient(e, k)'
  BY <1>1, <1>8 DEF Minds, MindsClient, roundVars
<1> QED BY <1>1, <1>3, <1>7, <1>9, OneStep DEF NoMore, poolVars

-----------------------------------------------------------------------------
(* Steps of a round *)

LEMMA OthersApart ==
  ASSUME TypeOK, NEW e \in ExternalSecrets,
         \/ EsStep(e) \/ DropClient(e) \/ StopProvider(e) \/ RegisterRam(e)
  PROVE  \A o \in ExternalSecrets \ {e} : Apart(o)
<1> USE KeyFacts DEF Apart, View, TypeOK, objects, roundVars
<1>1. CASE EsBegin(e) \/ EsForget(e) \/ EsList(e) \/ EsListFails(e)
  BY <1>1 DEF EsBegin, EsForget, EsList, EsListFails
<1>2. CASE EsReclaimed(e) \/ EsFinalize(e) \/ EsHit(e) \/ EsEnd(e)
  BY <1>2 DEF EsReclaimed, EsFinalize, EsHit, EsEnd
<1>3. CASE EsMiss(e)
  BY <1>3 DEF EsMiss, Arrive
<1>4. CASE EsBuildFails(e) \/ EsRegister(e) \/ StopProvider(e)
  BY <1>4 DEF EsBuildFails, EsRegister, StopProvider, Leave
<1>5. CASE DropClient(e)
  BY <1>5 DEF DropClient, Arrive
<1>6. CASE RegisterRam(e)
  BY <1>6 DEF RegisterRam
<1> QED BY <1>1, <1>2, <1>3, <1>4, <1>5, <1>6 DEF EsStep

\* A round that begins aims at what it read, and has everything else it minds
\* on its list.
LEMMA BeginReclaim ==
  ASSUME TypeOK, AllFit, Minded, NEW e \in ExternalSecrets, EsBegin(e)
  PROVE  AllFit' /\ Minded'
<1> DEFINE p == esSeen[e].spec.provider
           live == esSeen[e].phase = "live"
<1>1. /\ pc[e] = "idle" /\ esSeen[e].phase \in {"live", "terminating"}
      /\ pc'[e] = "list" /\ mode'[e] = esSeen[e].phase
      /\ UNCHANGED <<pool, ram, es, esSeen, at, tracked>>
  BY KeyFacts, SeenSpec DEF EsBegin, TypeOK, Phases, poolVars, objects
<1>2. /\ todo'[e] = {p} \X (IF live THEN Stale(e) ELSE Leaving(e))
      /\ want'[e] = IF live THEN {p} \X esSeen[e].spec.uses ELSE {}
  BY KeyFacts DEF EsBegin, TypeOK
<1>3. Custom({p} \X esSeen[e].spec.uses) = Seen(e)
  <2> DEFINE uses == esSeen[e].spec.uses
  <2>1. uses \subseteq Endpoints \cup {Plain} /\ Plain \notin Endpoints
    BY SeenSpec, PoolAssumption
  <2>2. ASSUME NEW u \in uses PROVE u \in {k[2] : k \in {p} \X uses}
    <3>1. <<p, u>> \in {p} \X uses /\ <<p, u>>[2] = u
      OBVIOUS
    <3> QED BY <3>1
  <2>3. {k[2] : k \in {p} \X uses} = uses
    BY <2>2
  <2> QED BY <2>1, <2>3 DEF Custom, Seen, Composite
<1>4. /\ Reclaiming(e)' /\ Seen(e)' = Seen(e) /\ Asked(e)' = Asked(e)
      /\ (Departing(e)' <=> ~live)
      /\ Aim(e)' = IF live THEN Seen(e) ELSE tracked[e]
  BY <1>1, <1>2, <1>3 DEF Reclaiming, Departing, Aim, Seen, Asked, Custom
<1>5. ~Reclaiming(e) /\ ~Departing(e) /\ Aim(e) = tracked[e]
  BY <1>1 DEF Reclaiming, Departing, Aim
<1>6. Fit(e)
  BY DEF AllFit
<1>7. Fit(e)'
  <2>1. OneLag(e)'
    BY <1>1, <1>4, <1>5, <1>6 DEF Fit, OneLag
  <2>2. InOrder(e)'
    BY <1>1, <1>4, <1>6 DEF Fit, InOrder
  <2>3. AtWork(e)'
    <3>1. Stale(e) \subseteq tracked[e] /\ Leaving(e) \subseteq tracked[e] \cup Seen(e)
      BY DEF Stale, Leaving, Seen
    <3>2. \A k \in todo'[e] : k[1] = p /\ k[2] \in tracked[e] \cup (IF live THEN {} ELSE Seen(e))
      BY <1>2, <3>1
    <3>3. \A k \in want'[e] : k[1] = p
      BY <1>2
    <3> QED BY <1>1, <1>4, <3>2, <3>3 DEF AtWork
  <2>4. UpToDate(e)'
    BY <1>1, <1>4 DEF UpToDate
  <2> QED BY <2>1, <2>2, <2>3, <2>4 DEF Fit
<1>8. ASSUME NEW k \in CompositeKeys, k \in todo[e] \/ Keeps(e, k)
      PROVE  k \in todo'[e] \/ Keeps(e, k)'
  <2>1. k[1] = p /\ k[2] \in tracked[e] \cup Seen(e)
    BY <1>5, <1>6, <1>8 DEF Fit, AtWork, Keeps
  <2>2. k = <<k[1], k[2]>>
    BY DEF CompositeKeys, Keys
  <2>3. k[2] \in (IF live THEN Stale(e) ELSE Leaving(e)) => k \in todo'[e]
    BY <1>2, <2>1, <2>2
  <2>4. CASE live /\ k[2] \in Seen(e)
    BY <1>1, <1>4, <2>1, <2>4 DEF Keeps
  <2>5. CASE ~live \/ k[2] \notin Seen(e)
    BY <2>1, <2>3, <2>5 DEF Stale, Leaving, Seen
  <2> QED BY <2>4, <2>5
<1>9. \A k \in CompositeKeys : /\ Minds(e, k) => Minds(e, k)'
                               /\ MindsClient(e, k) => MindsClient(e, k)'
  BY <1>1, <1>8 DEF Minds, MindsClient
<1> QED BY <1>1, <1>7, <1>9, OneStep, OthersApart DEF NoMore, EsStep

LEMMA ForgetReclaim ==
  ASSUME TypeOK, AllFit, Minded, NEW e \in ExternalSecrets, EsForget(e)
  PROVE  AllFit' /\ Minded'
<1>1. /\ UNCHANGED <<poolVars, objects, roundVars, tracked>> /\ esSeen[e].phase = "gone"
  BY DEF EsForget
<1>2. /\ Reclaiming(e)' = Reclaiming(e) /\ Departing(e)' = Departing(e) /\ Aim(e)' = Aim(e)
      /\ Seen(e)' = Seen(e) /\ Asked(e)' = Asked(e)
  BY <1>1 DEF Reclaiming, Departing, Aim, Seen, Asked, Custom, objects, roundVars
<1>3. Fit(e)'
  BY <1>1, <1>2 DEF AllFit, Fit, OneLag, InOrder, AtWork, UpToDate, Custom, objects, roundVars
<1>4. \A k \in CompositeKeys : Minds(e, k)' = Minds(e, k) /\ MindsClient(e, k)' = MindsClient(e, k)
  BY <1>1, <1>2 DEF Minds, MindsClient, Keeps, objects, roundVars
<1> QED BY <1>1, <1>3, <1>4, OneStep, OthersApart DEF NoMore, EsStep, poolVars

\* What a round leaves to another, the other asks for and therefore minds.
LEMMA ListReclaim ==
  ASSUME OneProvider, TypeOK, AllFit, Minded, NEW e \in ExternalSecrets, EsList(e)
  PROVE  AllFit' /\ Minded'
<1>1. /\ pc[e] = "list" /\ pc'[e] = "drop"
      /\ todo'[e] = {k \in todo[e] : \A o \in Listed(e) : k[2] \notin Composite(esSeen[o].spec)}
      /\ UNCHANGED <<pool, ram, es, esSeen, queued, mode, want, at, tracked>>
  BY KeyFacts DEF EsList, TypeOK, poolVars, objects
<1>2. /\ Reclaiming(e) /\ Reclaiming(e)' /\ Departing(e)' = Departing(e) /\ Aim(e)' = Aim(e)
      /\ Seen(e)' = Seen(e) /\ Asked(e)' = Asked(e)
  BY <1>1 DEF Reclaiming, Departing, Aim, Seen, Asked, Custom
<1>3. Fit(e)'
  BY <1>1, <1>2 DEF AllFit, Fit, OneLag, InOrder, AtWork, UpToDate, Custom
<1>4. AllFit'
  BY <1>3, OthersApart, ApartStays DEF AllFit, EsStep
<1>5. ASSUME NEW k \in CompositeKeys, k \in todo[e] \ todo'[e]
      PROVE  \E o \in ExternalSecrets \ {e} : Minds(o, k) /\ MindsClient(o, k)
  <2>1. PICK o \in Listed(e) : k[2] \in Composite(esSeen[o].spec)
    BY <1>1, <1>5
  <2>2. o \in ExternalSecrets \ {e} /\ esSeen[o].phase = "live"
    BY <2>1 DEF Listed
  <2>3. es[o].phase # "gone" /\ ~Departing(o)
    BY <2>2 DEF AllFit, Fit, InOrder
  <2>4. k[1] = esSeen[o].spec.provider
    BY <1>5, <2>2, SeenSpec DEF AllFit, Fit, AtWork, OneProvider
  <2>5. Keeps(o, k)
    BY <2>1, <2>3, <2>4 DEF Keeps, Seen
  <2> QED BY <2>2, <2>3, <2>5 DEF Minds, MindsClient
<1>6. ASSUME NEW k \in CompositeKeys, k \notin todo[e] \ todo'[e]
      PROVE  (Minds(e, k) => Minds(e, k)') /\ (MindsClient(e, k) => MindsClient(e, k)')
  BY <1>1, <1>2, <1>6 DEF Minds, MindsClient, Keeps
<1>7. \A o \in ExternalSecrets \ {e}, k \in CompositeKeys :
        (Minds(o, k) => Minds(o, k)') /\ (MindsClient(o, k) => MindsClient(o, k)')
  BY OthersApart, ApartStays DEF EsStep
<1>8. ASSUME NEW k \in CompositeKeys, pool'[k] # None
      PROVE  \E o \in ExternalSecrets : MindsClient(o, k)'
  BY <1>1, <1>5, <1>6, <1>7, <1>8 DEF Minded
<1>9. ASSUME NEW k \in CompositeKeys, ram'[k] # None
      PROVE  \E o \in ExternalSecrets : Minds(o, k)'
  BY <1>1, <1>5, <1>6, <1>7, <1>9 DEF Minded
<1> QED BY <1>4, <1>8, <1>9 DEF Minded, CompositeKeys

LEMMA ListFailsReclaim ==
  ASSUME TypeOK, AllFit, Minded, NEW e \in ExternalSecrets, EsListFails(e)
  PROVE  AllFit' /\ Minded'
<1>1. /\ pc[e] = "list" /\ pc'[e] = "idle" /\ queued'[e] /\ todo'[e] = {} /\ want'[e] = {}
      /\ UNCHANGED <<pool, ram, es, esSeen, mode, at, tracked>>
  BY KeyFacts DEF EsListFails, TypeOK, poolVars, objects
<1>2. /\ Reclaiming(e) /\ ~Reclaiming(e)' /\ ~Departing(e)' /\ Aim(e)' = tracked[e]
      /\ Seen(e)' = Seen(e) /\ Asked(e)' = Asked(e)
  BY <1>1 DEF Reclaiming, Departing, Aim, Seen, Asked
<1>3. Fit(e)
  BY DEF AllFit
<1>4. Fit(e)'
  <2>1. OneLag(e)'
    BY <1>1, <1>2, <1>3 DEF Fit, OneLag
  <2>2. InOrder(e)' /\ AtWork(e)' /\ UpToDate(e)'
    BY <1>1, <1>2, <1>3 DEF Fit, InOrder, AtWork, UpToDate
  <2> QED BY <2>1, <2>2 DEF Fit
<1>5. ASSUME NEW k \in CompositeKeys, k \in todo[e] \/ Keeps(e, k)
      PROVE  Keeps(e, k)'
  <2>1. k[1] = esSeen[e].spec.provider /\ k[2] \in tracked[e] \cup Aim(e) \cup Seen(e)
    BY <1>1, <1>3, <1>5 DEF Fit, AtWork, Keeps
  <2>2. Aim(e) \subseteq tracked[e] \cup Seen(e)
    BY <1>3 DEF Fit, OneLag
  <2> QED BY <1>1, <1>2, <2>1, <2>2 DEF Keeps
<1>6. \A k \in CompositeKeys : /\ Minds(e, k) => Minds(e, k)'
                               /\ MindsClient(e, k) => MindsClient(e, k)'
  BY <1>1, <1>5 DEF Minds, MindsClient
<1> QED BY <1>1, <1>4, <1>6, OneStep, OthersApart DEF NoMore, EsStep

LEMMA ReclaimedReclaim ==
  ASSUME TypeOK, AllFit, Minded, NEW e \in ExternalSecrets, EsReclaimed(e)
  PROVE  AllFit' /\ Minded'
<1>1. /\ pc[e] = "drop" /\ pc'[e] = "sync" /\ todo[e] = {} /\ mode[e] = "live"
      /\ tracked'[e] = Custom(want[e])
      /\ UNCHANGED <<pool, ram, es, esSeen, queued, mode, todo, want, at>>
  BY KeyFacts DEF EsReclaimed, TypeOK, poolVars, objects, Custom
<1>2. /\ Reclaiming(e) /\ ~Reclaiming(e)' /\ ~Departing(e) /\ ~Departing(e)'
      /\ Aim(e) = Custom(want[e]) /\ Aim(e)' = Aim(e)
      /\ Seen(e)' = Seen(e) /\ Asked(e)' = Asked(e)
  BY <1>1 DEF Reclaiming, Departing, Aim, Seen, Asked
<1>3. Fit(e)
  BY DEF AllFit
<1>4. Fit(e)'
  <2>1. OneLag(e)' /\ InOrder(e)'
    BY <1>1, <1>2, <1>3 DEF Fit, OneLag, InOrder
  <2>2. AtWork(e)' /\ UpToDate(e)'
    BY <1>1, <1>2, <1>3 DEF Fit, AtWork, UpToDate, Custom
  <2> QED BY <2>1, <2>2 DEF Fit
<1>5. \A k \in CompositeKeys : /\ Minds(e, k) => Minds(e, k)'
                               /\ MindsClient(e, k) => MindsClient(e, k)'
  BY <1>1, <1>2 DEF Minds, MindsClient, Keeps
<1> QED BY <1>1, <1>4, <1>5, OneStep, OthersApart DEF NoMore, EsStep

\* An object that lets its finalizer go minds nothing any more.
LEMMA FinalizeReclaim ==
  ASSUME TypeOK, AllFit, Minded, NEW e \in ExternalSecrets, EsFinalize(e)
  PROVE  AllFit' /\ Minded'
<1>1. /\ pc[e] = "drop" /\ pc'[e] = "idle" /\ todo[e] = {} /\ mode[e] = "terminating"
      /\ tracked'[e] = {}
      /\ UNCHANGED <<pool, ram, esSeen, todo, want, at>>
  BY KeyFacts DEF EsFinalize, TypeOK, poolVars
<1>2. /\ es'[e].spec = es[e].spec
      /\ es'[e].phase = "gone" \/ (es'[e].phase = es[e].phase /\ queued'[e])
  BY KeyFacts DEF EsFinalize, TypeOK, EsObject
<1>3. /\ Reclaiming(e) /\ ~Reclaiming(e)' /\ Departing(e) /\ ~Departing(e)' /\ Aim(e)' = tracked'[e]
      /\ Seen(e)' = Seen(e) /\ Asked(e)' = Asked(e)
  BY <1>1, <1>2 DEF Reclaiming, Departing, Aim, Seen, Asked
<1>4. Fit(e) /\ esSeen[e].phase # "live" /\ Seen(e) = Asked(e)
  BY <1>3 DEF AllFit, Fit, InOrder, Seen, Asked
<1>5. Fit(e)'
  <2>1. OneLag(e)'
    BY <1>3, <1>4 DEF OneLag
  <2>2. InOrder(e)'
    BY <1>1, <1>2, <1>3, <1>4 DEF Fit, InOrder
  <2>3. AtWork(e)'
    BY <1>1, <1>3, <1>4 DEF Fit, AtWork
  <2>4. UpToDate(e)'
    BY <1>2 DEF UpToDate
  <2> QED BY <2>1, <2>2, <2>3, <2>4 DEF Fit
<1>6. \A k \in CompositeKeys : ~Minds(e, k) /\ ~MindsClient(e, k)
  BY <1>1, <1>3 DEF Minds, MindsClient, Keeps
<1> QED BY <1>1, <1>5, <1>6, OneStep, OthersApart DEF NoMore, EsStep

\* Between the reclaim and the end of a round only what is still wanted
\* changes: what the object minds is what it tracks or asks for.
LEMMA SyncStep ==
  ASSUME TypeOK, AllFit, NEW e \in ExternalSecrets,
         pc[e] \in {"sync", "build", "register"}, pc'[e] \in {"sync", "build", "register", "idle"},
         UNCHANGED <<es, esSeen, queued, mode, todo, tracked>>,
         want'[e] \subseteq want[e], pc'[e] \in {"build", "register"} => at'[e] \in want'[e]
  PROVE  /\ Fit(e)'
         /\ \A k \in CompositeKeys : /\ Minds(e, k) => Minds(e, k)'
                                     /\ MindsClient(e, k) => MindsClient(e, k)'
<1>1. /\ ~Reclaiming(e) /\ ~Reclaiming(e)' /\ ~Departing(e) /\ ~Departing(e)'
      /\ Aim(e)' = Aim(e) /\ Seen(e)' = Seen(e) /\ Asked(e)' = Asked(e)
  BY DEF Reclaiming, Departing, Aim, Seen, Asked
<1>2. Fit(e)
  BY DEF AllFit
<1>3. Fit(e)'
  <2>1. OneLag(e)' /\ InOrder(e)' /\ UpToDate(e)'
    BY <1>1, <1>2 DEF Fit, OneLag, InOrder, UpToDate
  <2>2. Custom(want[e])' \subseteq Custom(want[e])
    BY DEF Custom
  <2>3. AtWork(e)'
    BY <1>1, <1>2, <2>2 DEF Fit, AtWork
  <2> QED BY <2>1, <2>3 DEF Fit
<1>4. todo[e] = {}
  BY <1>1, <1>2 DEF Fit, AtWork
<1> QED BY <1>1, <1>3, <1>4 DEF Minds, MindsClient, Keeps

\* What is being built is tracked, so its builder minds it.
LEMMA BuilderMinds ==
  ASSUME AllFit, NEW e \in ExternalSecrets, pc[e] \in {"build", "register"},
         at[e] \in CompositeKeys
  PROVE  Minds(e, at[e]) /\ MindsClient(e, at[e])
<1>1. ~Reclaiming(e) /\ ~Departing(e) /\ Aim(e) = tracked[e]
  BY DEF Reclaiming, Departing, Aim
<1>2. at[e] \in want[e] /\ Custom(want[e]) \subseteq tracked[e] /\ at[e][2] # Plain
  BY DEF AllFit, Fit, AtWork, CompositeKeys
<1>3. at[e][2] \in tracked[e]
  BY <1>2 DEF Custom
<1>4. at[e][1] = esSeen[e].spec.provider /\ es[e].phase # "gone"
  BY <1>1, <1>2 DEF AllFit, Fit, AtWork, InOrder
<1> QED BY <1>1, <1>3, <1>4 DEF Minds, MindsClient, Keeps

LEMMA ServeReclaim ==
  ASSUME TypeOK, AtKey, AllFit, Minded, NEW e \in ExternalSecrets,
         EsHit(e) \/ EsMiss(e) \/ EsBuildFails(e) \/ EsEnd(e)
  PROVE  AllFit' /\ Minded'
<1>1. /\ pc[e] \in {"sync", "build"} /\ pc'[e] \in {"sync", "build", "idle"}
      /\ UNCHANGED <<es, esSeen, queued, mode, todo, tracked, pool, ram>>
  BY KeyFacts DEF EsHit, EsMiss, EsBuildFails, EsEnd, TypeOK, poolVars, objects
<1>2. want'[e] \subseteq want[e] /\ (pc'[e] \in {"build", "register"} => at'[e] \in want'[e])
  <2>1. CASE EsMiss(e)
    BY <2>1, KeyFacts DEF EsMiss, Arrive, TypeOK
  <2>2. CASE EsHit(e) \/ EsBuildFails(e) \/ EsEnd(e)
    BY <2>2, KeyFacts DEF EsHit, EsBuildFails, EsEnd, TypeOK
  <2> QED BY <2>1, <2>2
<1> QED BY <1>1, <1>2, SyncStep, OneStep, OthersApart DEF NoMore, EsStep

LEMMA RegisterReclaim ==
  ASSUME TypeOK, AtKey, AllFit, Minded, NEW e \in ExternalSecrets, EsRegister(e)
  PROVE  AllFit' /\ Minded'
<1>1. /\ pc[e] = "register" /\ pc'[e] = "sync" /\ want'[e] \subseteq want[e]
      /\ UNCHANGED <<es, esSeen, queued, mode, todo, tracked, ram>>
  BY KeyFacts DEF EsRegister, TypeOK, objects
<1>2. \A k \in Keys : k # at[e] => pool'[k] = pool[k]
  BY DEF EsRegister, TypeOK
<1>3. /\ Fit(e)'
      /\ \A k \in CompositeKeys : /\ Minds(e, k) => Minds(e, k)'
                                  /\ MindsClient(e, k) => MindsClient(e, k)'
  BY <1>1, SyncStep
<1>4. \A o \in ExternalSecrets \ {e} : Apart(o)
  BY OthersApart DEF EsStep
<1>5. AllFit'
  BY <1>3, <1>4, ApartStays DEF AllFit
<1>6. ASSUME NEW k \in CompositeKeys, pool'[k] # None
      PROVE  \E o \in ExternalSecrets : MindsClient(o, k)'
  <2>1. CASE k = at[e]
    BY <1>1, <1>3, <2>1, BuilderMinds
  <2>2. CASE k # at[e]
    BY <1>2, <1>3, <1>4, <1>6, <2>2, ApartStays DEF Minded, CompositeKeys
  <2> QED BY <2>1, <2>2
<1>7. ASSUME NEW k \in CompositeKeys, ram'[k] # None
      PROVE  \E o \in ExternalSecrets : Minds(o, k)'
  BY <1>1, <1>3, <1>4, <1>7, ApartStays DEF Minded
<1> QED BY <1>5, <1>6, <1>7 DEF Minded, CompositeKeys

-----------------------------------------------------------------------------
(* Operations on a key and steps of the store controller *)

LEMMA DropReclaim ==
  ASSUME TypeOK, AllFit, Minded, NEW a \in Actors, DropClient(a)
  PROVE  AllFit' /\ Minded'
<1>1. PICK k \in todo[a] : at' = [at EXCEPT ![a] = k] /\ pool' = [pool EXCEPT ![k] = None]
  BY DEF DropClient, Arrive
<1>2. /\ pc[a] = "drop" /\ pc' = [pc EXCEPT ![a] = "stop"]
      /\ UNCHANGED <<ram, es, esSeen, queued, mode, todo, want, tracked>>
  BY DEF DropClient, objects
<1>3. /\ \A l \in CompositeKeys : pool'[l] # None => pool[l] # None /\ l # k
      /\ k \in Keys /\ at'[a] = k /\ pc'[a] = "stop"
  BY <1>1, <1>2 DEF TypeOK, CompositeKeys
<1>4. CASE a \notin ExternalSecrets
  <2>1. \A o \in ExternalSecrets : Apart(o)
    BY <1>1, <1>2, <1>4, KeyFacts DEF Apart, View, TypeOK
  <2> QED BY <1>2, <1>3, <2>1, NoStep DEF NoMore
<1>5. CASE a \in ExternalSecrets
  <2>1. /\ Reclaiming(a) /\ Reclaiming(a)' /\ Departing(a)' = Departing(a) /\ Aim(a)' = Aim(a)
        /\ Seen(a)' = Seen(a) /\ Asked(a)' = Asked(a)
    BY <1>2, <1>3 DEF Reclaiming, Departing, Aim, Seen, Asked, Custom
  <2>2. Fit(a)'
    BY <1>2, <1>3, <1>5, <2>1 DEF AllFit, Fit, OneLag, InOrder, AtWork, UpToDate, Custom
  <2>3. \A o \in ExternalSecrets \ {a} : Apart(o)
    BY <1>5, OthersApart
  <2>4. AllFit'
    BY <2>2, <2>3, ApartStays DEF AllFit
  <2>5. \A l \in CompositeKeys : /\ Minds(a, l) => Minds(a, l)'
                                 /\ l # k /\ MindsClient(a, l) => MindsClient(a, l)'
    BY <1>2, <1>3, <2>1 DEF Minds, MindsClient, Keeps
  <2>6. ASSUME NEW l \in CompositeKeys, pool'[l] # None
        PROVE  \E o \in ExternalSecrets : MindsClient(o, l)'
    BY <1>3, <2>3, <2>5, <2>6, ApartStays DEF Minded
  <2>7. ASSUME NEW l \in CompositeKeys, ram'[l] # None
        PROVE  \E o \in ExternalSecrets : Minds(o, l)'
    BY <1>2, <2>3, <2>5, <2>7, ApartStays DEF Minded
  <2> QED BY <2>4, <2>6, <2>7 DEF Minded, CompositeKeys
<1> QED BY <1>4, <1>5

LEMMA StopReclaim ==
  ASSUME TypeOK, AtKey, AllFit, Minded, NEW a \in Actors, StopProvider(a)
  PROVE  AllFit' /\ Minded'
<1>1. /\ pc[a] = "stop" /\ pc' = [pc EXCEPT ![a] = "drop"]
      /\ ram' = [ram EXCEPT ![at[a]] = None]
      /\ todo' = [todo EXCEPT ![a] = @ \ {at[a]}] /\ at' = [at EXCEPT ![a] = NoKey]
      /\ UNCHANGED <<pool, es, esSeen, queued, mode, want, tracked>>
  BY DEF StopProvider, Leave, objects
<1>2. /\ \A l \in CompositeKeys : ram'[l] # None => ram[l] # None /\ l # at[a]
      /\ pc'[a] = "drop" /\ todo'[a] = todo[a] \ {at[a]}
  BY <1>1 DEF TypeOK, CompositeKeys
<1>3. CASE a \notin ExternalSecrets
  <2>1. \A o \in ExternalSecrets : Apart(o)
    BY <1>1, <1>3, KeyFacts DEF Apart, View, TypeOK
  <2> QED BY <1>1, <1>2, <2>1, NoStep DEF NoMore
<1>4. CASE a \in ExternalSecrets
  <2>1. /\ Reclaiming(a) /\ Reclaiming(a)' /\ Departing(a)' = Departing(a) /\ Aim(a)' = Aim(a)
        /\ Seen(a)' = Seen(a) /\ Asked(a)' = Asked(a)
    BY <1>1, <1>2 DEF Reclaiming, Departing, Aim, Seen, Asked, Custom
  <2>2. Fit(a)'
    BY <1>1, <1>2, <1>4, <2>1 DEF AllFit, Fit, OneLag, InOrder, AtWork, UpToDate, Custom
  <2>3. \A o \in ExternalSecrets \ {a} : Apart(o)
    BY <1>4, OthersApart
  <2>4. AllFit'
    BY <2>2, <2>3, ApartStays DEF AllFit
  <2>5. \A l \in CompositeKeys : /\ l # at[a] /\ Minds(a, l) => Minds(a, l)'
                                 /\ MindsClient(a, l) => MindsClient(a, l)'
    BY <1>1, <1>2, <2>1 DEF Minds, MindsClient, Keeps
  <2>6. ASSUME NEW l \in CompositeKeys, pool'[l] # None
        PROVE  \E o \in ExternalSecrets : MindsClient(o, l)'
    BY <1>1, <2>3, <2>5, <2>6, ApartStays DEF Minded
  <2>7. ASSUME NEW l \in CompositeKeys, ram'[l] # None
        PROVE  \E o \in ExternalSecrets : Minds(o, l)'
    BY <1>2, <2>3, <2>5, <2>7, ApartStays DEF Minded
  <2> QED BY <2>4, <2>6, <2>7 DEF Minded, CompositeKeys
<1> QED BY <1>3, <1>4

LEMMA RamReclaim ==
  ASSUME TypeOK, AtKey, AllFit, Minded, NEW a \in Actors, RegisterRam(a)
  PROVE  AllFit' /\ Minded'
<1>1. /\ pc[a] = "build" /\ pc' = [pc EXCEPT ![a] = "register"]
      /\ \A k \in Keys : k # at[a] => ram'[k] = ram[k]
      /\ UNCHANGED <<pool, es, esSeen, queued, mode, todo, want, at, tracked>>
  BY DEF RegisterRam, RamKey, TypeOK, objects
<1>2. CASE a \notin ExternalSecrets
  <2>1. a = Store /\ at[a] \notin CompositeKeys
    BY <1>1, <1>2 DEF Actors, AtKey, CompositeKeys
  <2>2. \A o \in ExternalSecrets : Apart(o)
    BY <1>1, <1>2, KeyFacts DEF Apart, View, TypeOK
  <2>3. NoMore
    BY <1>1, <2>1 DEF NoMore, CompositeKeys
  <2> QED BY <2>2, <2>3, NoStep
<1>3. CASE a \in ExternalSecrets
  <2>1. pc'[a] = "register" /\ (pc'[a] \in {"build", "register"} => at'[a] \in want'[a])
    BY <1>1, <1>3 DEF TypeOK, AllFit, Fit, AtWork
  <2>2. /\ Fit(a)'
        /\ \A k \in CompositeKeys : /\ Minds(a, k) => Minds(a, k)'
                                    /\ MindsClient(a, k) => MindsClient(a, k)'
    BY <1>1, <1>3, <2>1, SyncStep
  <2>3. \A o \in ExternalSecrets \ {a} : Apart(o)
    BY <1>3, OthersApart
  <2>4. AllFit'
    BY <2>2, <2>3, ApartStays DEF AllFit
  <2>5. ASSUME NEW k \in CompositeKeys, pool'[k] # None
        PROVE  \E o \in ExternalSecrets : MindsClient(o, k)'
    BY <1>1, <2>2, <2>3, <2>5, ApartStays DEF Minded
  <2>6. ASSUME NEW k \in CompositeKeys, ram'[k] # None
        PROVE  \E o \in ExternalSecrets : Minds(o, k)'
    <3>1. CASE k = at[a]
      BY <1>1, <1>3, <2>2, <3>1, BuilderMinds
    <3>2. CASE k # at[a]
      BY <1>1, <2>2, <2>3, <2>6, <3>2, ApartStays DEF Minded, CompositeKeys
    <3> QED BY <3>1, <3>2
  <2> QED BY <2>4, <2>5, <2>6 DEF Minded, CompositeKeys
<1> QED BY <1>2, <1>3

\* The store controller builds the plain client only.
LEMMA StoreReclaim ==
  ASSUME TypeOK, AtKey, AllFit, Minded, StoreStep
  PROVE  AllFit' /\ Minded'
<1> USE KeyFacts DEF Apart, View, TypeOK, objects, roundVars, poolVars, NoMore
<1>1. CASE StoreBegin \/ StoreForget \/ StoreRange \/ StoreFinalize \/ StoreFinalizeFails
  <2>1. \A o \in ExternalSecrets : Apart(o)
    BY <1>1 DEF StoreBegin, StoreForget, StoreRange, StoreFinalize, StoreFinalizeFails
  <2>2. NoMore
    BY <1>1 DEF StoreBegin, StoreForget, StoreRange, StoreFinalize, StoreFinalizeFails
  <2> QED BY <2>1, <2>2, NoStep
<1>2. CASE StoreRebuild
  <2>1. \A o \in ExternalSecrets : Apart(o)
    BY <1>2 DEF StoreRebuild, Arrive
  <2> QED BY <1>2, <2>1, NoStep DEF StoreRebuild
<1>3. CASE StoreBuildFails
  <2>1. \A o \in ExternalSecrets : Apart(o)
    BY <1>3 DEF StoreBuildFails, Leave
  <2> QED BY <1>3, <2>1, NoStep DEF StoreBuildFails
<1>4. CASE StoreRegister
  <2>1. \A o \in ExternalSecrets : Apart(o)
    BY <1>4 DEF StoreRegister, Leave
  <2>2. at[Store] \notin CompositeKeys
    BY <1>4 DEF StoreRegister, AtKey, CompositeKeys
  <2>3. pool' = [pool EXCEPT ![at[Store]] = inst[Store]] /\ ram' = ram
    BY <1>4 DEF StoreRegister
  <2>4. NoMore
    BY <2>2, <2>3 DEF CompositeKeys
  <2> QED BY <2>1, <2>4, NoStep
<1> QED BY <1>1, <1>2, <1>3, <1>4 DEF StoreStep

-----------------------------------------------------------------------------
(* The theorem *)

LEMMA ReclaimStep ==
  ASSUME MergedEdits = FALSE, OneProvider
  PROVE  Reclaim /\ [Next]_vars => Reclaim'
<1> SUFFICES ASSUME Reclaim, [Next]_vars PROVE AllFit' /\ Minded'
  BY TypeInductive DEF Reclaim
<1> USE DEF Reclaim
<1>1. CASE EditStore \/ DeleteStore \/ DeliverStore \/ UNCHANGED vars
  <2>1. \A o \in ExternalSecrets : Apart(o)
    BY <1>1, KeyFacts DEF EditStore, DeleteStore, DeliverStore, vars, Apart, View, objects,
       roundVars, TypeOK
  <2>2. NoMore
    BY <1>1 DEF EditStore, DeleteStore, DeliverStore, vars, NoMore, poolVars
  <2> QED BY <2>1, <2>2, NoStep
<1>2. CASE \E e \in ExternalSecrets : EditES(e) \/ DeleteES(e) \/ DeliverES(e)
  BY <1>2, EditReclaim, DeleteReclaim, DeliverReclaim
<1>3. CASE Restart
  BY <1>3, RestartReclaim
<1>4. CASE OnKeys
  BY <1>4, DropReclaim, StopReclaim, RamReclaim DEF OnKeys
<1>5. CASE StoreStep
  BY <1>5, StoreReclaim
<1>6. CASE \E e \in ExternalSecrets : EsStep(e)
  BY <1>6, BeginReclaim, ForgetReclaim, ListReclaim, ListFailsReclaim, ReclaimedReclaim,
     FinalizeReclaim, ServeReclaim, RegisterReclaim DEF EsStep
<1> QED BY <1>1, <1>2, <1>3, <1>4, <1>5, <1>6 DEF Next, Users, Informers

\* At rest whoever minds a key asks for its endpoint.
LEMMA ReclaimSafe == Reclaim => UnusedReclaimed
<1> SUFFICES ASSUME Reclaim, AtRest, NEW k \in Keys, k[2] # Plain, pool[k] # None \/ ram[k] # None
             PROVE  k[2] \in Referenced
  BY DEF UnusedReclaimed
<1>1. PICK o \in ExternalSecrets : Minds(o, k)
  BY DEF Reclaim, Minded, CompositeKeys, Minds, MindsClient
<1>2. pc[o] = "idle" /\ ~queued[o] /\ esSeen[o] = es[o]
  BY KeyFacts DEF AtRest
<1>3. Fit(o) /\ es[o].phase # "gone" /\ ~Reclaiming(o) /\ ~Departing(o)
  BY <1>1, <1>2 DEF Reclaim, AllFit, Minds, Reclaiming, Departing
<1>4. es[o].phase = "live" /\ Aim(o) = Seen(o)
  BY <1>2, <1>3 DEF Fit, UpToDate
<1>5. k[2] \in Composite(es[o].spec)
  BY <1>1, <1>2, <1>3, <1>4 DEF Minds, Keeps, Fit, AtWork, Seen
<1> QED BY <1>4, <1>5 DEF Referenced

\* For any number of ExternalSecrets and endpoints, with or without rounds by
\* time, whatever fails, races or restarts: at rest nothing is left under a
\* custom endpoint no ExternalSecret asks for.  Of the two assumptions each is
\* needed: the code loses a client when an edit is overtaken by the next one,
\* and when ExternalSecrets of one store name different backends.
THEOREM UnusedReclaimedHolds ==
  ASSUME MergedEdits = FALSE, OneProvider
  PROVE  Spec => []UnusedReclaimed
<1>1. Init => Reclaim
  BY InitType, InitReclaim DEF Reclaim
<1>2. Reclaim /\ [Next]_vars => Reclaim'
  BY ReclaimStep
<1>3. Spec => []Reclaim
  BY <1>1, <1>2, PTL DEF Spec
<1> QED BY <1>3, ReclaimSafe, PTL
=============================================================================
