----------------------------- MODULE SecretSync -----------------------------
(***************************************************************************)
(* One reconcile round of the ExternalSecret controller, end to end        *)
(* (pkg/controller/externalsecret): fetch every declared entry, read the   *)
(* target Secret, count what failed, render the template, persist          *)
(* status.dataSyncResults, decide whether to write, and write, merge or    *)
(* delete the Secret.                                                      *)
(*                                                                         *)
(* One ExternalSecret and its Secret; one round at a time (the work queue  *)
(* never hands one object to two workers).  Around it move the backend     *)
(* (documents set and removed), the user (spec edits, deletion of the      *)
(* Secret), the informer caches (late), and failures of any call.          *)
(*                                                                         *)
(* A value is the pair of the backend key it came from and the time that   *)
(* document was set.  A document is the set of its top-level fields.       *)
(***************************************************************************)
EXTENDS Integers, Sequences, FiniteSets, FiniteSetsExt, Functions

CONSTANTS
    Keys,           \* backend keys (data.Key)
    Fields,         \* fields a document may have
    Specs,          \* the specs the user switches between
    CleanUp,        \* --cleanup-secret-on-failure
    LaggingStart,   \* may a round start from an old copy of the ExternalSecret?
    MaxTime,        \* bound on changes of the backend
    MaxEdits,       \* bound on user actions (spec edits, Secret deletions)
    MaxFaults       \* bound on failed calls and controller restarts

(***************************************************************************)
(* A spec is a sequence of entries, spec.data before spec.dataProcess, and *)
(* a template.  An entry writes `name' (ResolveTargetKey) unless its jmes  *)
(* paths say otherwise.  keys are the inline data templates; label stands  *)
(* for template.metadata; broken is a parse error.                         *)
(***************************************************************************)
IsEntry(e) ==
    /\ e.kind \in {"data", "extract"} /\ e.key \in Keys /\ e.name \in STRING
    /\ e.paths \in [DOMAIN e.paths -> STRING] /\ DOMAIN e.paths \subseteq Fields
NoTemplate == [kind |-> "none"]
IsTemplate(t) ==
    \/ t = NoTemplate
    \/ t \in [kind : {"inline"}, keys : SUBSET STRING, replace : BOOLEAN, failing : SUBSET STRING, label : BOOLEAN, broken : BOOLEAN]

ASSUME SpecsAssumption ==
    /\ IsFiniteSet(Keys) /\ IsFiniteSet(Fields)
    /\ \A s \in Specs :
          /\ s.entries \in Seq(Range(s.entries)) /\ IsTemplate(s.template)
          /\ \A i \in DOMAIN s.entries : IsEntry(s.entries[i])
          /\ \A i, j \in DOMAIN s.entries : s.entries[i].kind = "extract" /\ i < j => s.entries[j].kind = "extract"
ASSUME SyncBounds == MaxTime \in Nat /\ MaxEdits \in Nat /\ MaxFaults \in Nat
ASSUME SyncFlags == CleanUp \in BOOLEAN /\ LaggingStart \in BOOLEAN

VARIABLES
    backend,   \* [Keys -> document]
    time,      \* the last change of the backend
    spec,      \* the ExternalSecret's spec
    status,    \* the keys of its status.dataSyncResults
    esSeen,    \* the controller's cached copy of the ExternalSecret ...
    esCurrent, \* ... and whether it is the newest
    secret,    \* the target Secret, or NoSecret
    seen,      \* the controller's cached copy of it ...
    seenCurrent,
    edits, faults,
    \* the round
    pc,
    snap,      \* the spec it works on
    mine,      \* the status of its copy
    rvOk,      \* is its copy's resourceVersion still the newest?
    got,       \* what each entry's fetch returned, in order
    current,   \* the Secret's data and metadata as read
    plan,      \* secretMap and metadata targets after the template
    \* history
    told,      \* did every status write of the last round get through?
    verdict,   \* how the last finished round ended
    owns       \* the Secret keys each entry last delivered

env    == <<backend, time, spec, secret>>
esVars == <<status, esSeen, esCurrent>>
round  == <<snap, mine, rvOk, got, current, plan>>
vars   == <<backend, time, spec, status, esSeen, esCurrent, secret, seen, seenCurrent, edits, faults,
            pc, snap, mine, rvOk, got, current, plan, told, verdict, owns>>

-----------------------------------------------------------------------------
(* Documents and what an entry makes of one.                               *)

Empty == <<>>                        \* the map without keys
\* Map f laid over g.
Over(f, g) == [x \in DOMAIN f \cup DOMAIN g |-> IF x \in DOMAIN f THEN f[x] ELSE g[x]]
NoSecret == [there |-> FALSE, data |-> Empty, managed |-> {}, label |-> FALSE]
NoPlan == [data |-> Empty, managed |-> {}, label |-> FALSE, templated |-> FALSE, noted |-> FALSE]

\* spec.data: the aliases of the paths the document has, else the raw value.
\* spec.dataProcess: every field, under its alias where a path names it.
Produce(e, d) ==
    LET value == <<e.key, d.time>>
        hits  == d.fields \cap DOMAIN e.paths
        alias(f) == IF f \in DOMAIN e.paths THEN e.paths[f] ELSE f
    IN  IF e.kind = "extract" THEN [t \in {alias(f) : f \in d.fields} |-> value]
        ELSE IF hits = {} THEN [t \in {e.name} |-> value]
        ELSE [t \in {e.paths[f] : f \in hits} |-> value]

\* Every Secret key a spec.data entry may write.
TargetKeys(e) == Range(e.paths) \cup {e.name}

AllEntries == UNION {{s.entries[i] : i \in DOMAIN s.entries} : s \in Specs}
Entries == snap.entries
Indices(kind) == {i \in DOMAIN got : Entries[i].kind = kind}

\* secretMap before the template: a later entry overwrites an earlier one.
Fetched ==
    [t \in UNION {DOMAIN got[i].map : i \in DOMAIN got} |->
        got[Max({i \in DOMAIN got : t \in DOMAIN got[i].map})].map[t]]

\* The maps errorsMap and succeededKeys are keyed by the backend key.
ErrorKeys(kind) == {Entries[i].key : i \in {j \in Indices(kind) : got[j].result # "ok"}}
SucceededKeys(kind) == {Entries[i].key : i \in {j \in Indices(kind) : got[j].result = "ok"}}

-----------------------------------------------------------------------------
(* Counting failures (partial_failure.go, countFailedSources).             *)

\* A failed spec.data entry is exempt when a twin fetched its key and its
\* target keys carry output of this round.
Covered(e) ==
    /\ e.key \in SucceededKeys("data")
    /\ \/ e.paths # Empty /\ Range(e.paths) \subseteq DOMAIN Fetched
       \/ e.name \in DOMAIN Fetched

FailedUncovered == {i \in Indices("data") : Entries[i].key \in ErrorKeys("data") /\ ~Covered(Entries[i])}
FailedExtracts == {i \in Indices("extract") : Entries[i].key \in ErrorKeys("extract") \ SucceededKeys("extract")}
FailedKeys == ErrorKeys("data") \cup ErrorKeys("extract")
AllFailed == got # <<>> /\ FailedUncovered \cup FailedExtracts = DOMAIN got

ZeroOutput == got # <<>> /\ FailedKeys = {} /\ Fetched = Empty
NoSourceButData(data) == got = <<>> /\ snap.template = NoTemplate /\ data # Empty
NoRenderGuard(rendered) == FALSE
RenderedNothing(rendered) == FailedKeys = {} /\ rendered = Empty /\ (Fetched # Empty \/ current.data # Empty)

\* Failures worth reporting: the keys of uncovered entries, and extract keys
\* no twin fetched.
ReportedKeys ==
    {Entries[i].key : i \in FailedUncovered} \cup (ErrorKeys("extract") \ SucceededKeys("extract"))

-----------------------------------------------------------------------------
(* status.dataSyncResults                                                  *)

Succeeded == "Succeeded"
Placeholders ==
    {"rate_limit", "state_retrieval", "zero_output_guard", "template_zero_output_guard", "update_operation",
     "template_processing_errors", "template_processing_fatal", "template_processing_warnings"}

\* A new placeholder replaces earlier ones and the Succeeded entry; failures
\* of backend keys stay.
PlaceholderKeepsSuccess(p) == (mine \ Placeholders) \cup {p}
WithPlaceholder(p) == (mine \ (Placeholders \cup {Succeeded})) \cup {p}

ResultsKeepOldFailures ==
    (IF ReportedKeys = {} THEN {Succeeded} ELSE ReportedKeys) \cup (mine \cap Keys)
DataSyncResults ==
    (IF ReportedKeys = {} THEN {Succeeded} ELSE ReportedKeys)
        \cup (IF plan.noted THEN mine \cap Placeholders ELSE {})

\* Status().Update of the round's copy: skipped when nothing changed, refused
\* when the object has moved on, and only logged when it fails.  spent counts
\* the fault the step itself is about.
PutStatus(new, force, spent) ==
    /\ mine' = new
    /\ UNCHANGED <<esSeen, rvOk>>
    /\ \/ /\ ~force /\ new = mine
          /\ faults' = faults + spent
          /\ UNCHANGED <<status, esCurrent, told>>
       \/ /\ force \/ new # mine
          /\ rvOk
          /\ status' = new /\ esCurrent' = FALSE
          /\ faults' = faults + spent
          /\ UNCHANGED told
       \/ /\ force \/ new # mine
          /\ told' = FALSE
          /\ faults' = faults + spent + (IF rvOk THEN 1 ELSE 0)
          /\ UNCHANGED <<status, esCurrent>>
    /\ faults' <= MaxFaults

-----------------------------------------------------------------------------
(* The environment                                                         *)

Init ==
    /\ backend = [k \in Keys |-> [time |-> 0, there |-> TRUE, fields |-> Fields]]
    /\ time = 0
    /\ spec \in Specs
    /\ status = {} /\ esSeen = [spec |-> spec, status |-> {}] /\ esCurrent = TRUE
    /\ secret = NoSecret /\ seen = NoSecret /\ seenCurrent = TRUE
    /\ edits = 0 /\ faults = 0
    /\ pc = "idle" /\ snap = spec /\ mine = {} /\ rvOk = FALSE
    /\ got = <<>> /\ current = NoSecret /\ plan = NoPlan
    /\ told = TRUE /\ verdict = [full |-> FALSE, failed |-> {}, synced |-> FALSE]
    /\ owns = [e \in AllEntries |-> {}]

\* The backend's owner sets or removes a document.
SetDocument(k) ==
    /\ time < MaxTime
    /\ time' = time + 1
    /\ \/ \E F \in SUBSET Fields : backend' = [backend EXCEPT ![k] = [time |-> time', there |-> TRUE, fields |-> F]]
       \/ backend' = [backend EXCEPT ![k].there = FALSE]
    /\ UNCHANGED <<spec, secret, esVars, seen, seenCurrent, edits, faults, pc, round, told, verdict, owns>>

\* The user edits the spec: every copy of the object is old from here on.
EditSpec(s) ==
    /\ edits < MaxEdits /\ s # spec
    /\ spec' = s /\ edits' = edits + 1
    /\ esCurrent' = FALSE /\ rvOk' = FALSE
    /\ UNCHANGED <<backend, time, secret, status, esSeen, seen, seenCurrent, faults, pc,
                   snap, mine, got, current, plan, told, verdict, owns>>

\* The user deletes the Secret.
DeleteSecret ==
    /\ edits < MaxEdits /\ secret.there
    /\ secret' = NoSecret /\ edits' = edits + 1 /\ seenCurrent' = FALSE
    /\ owns' = [e \in AllEntries |-> {}]
    /\ UNCHANGED <<backend, time, spec, esVars, seen, faults, pc, round, told, verdict>>

\* The informers catch up.
DeliverNothing ==
    /\ ~seenCurrent
    /\ seenCurrent' = TRUE
    /\ UNCHANGED <<seen, env, esVars, edits, faults, pc, round, told, verdict, owns>>

DeliverSecret ==
    /\ ~seenCurrent
    /\ seen' = secret /\ seenCurrent' = TRUE
    /\ UNCHANGED <<env, esVars, edits, faults, pc, round, told, verdict, owns>>

DeliverES ==
    /\ ~esCurrent
    /\ esSeen' = [spec |-> spec, status |-> status] /\ esCurrent' = TRUE
    /\ UNCHANGED <<env, status, seen, seenCurrent, edits, faults, pc, round, told, verdict, owns>>

-----------------------------------------------------------------------------
(* The round                                                               *)

RetriesFailedOnly ==
    /\ pc = "idle" /\ esCurrent /\ Succeeded \notin esSeen.status
    /\ pc' = "fetch"
    /\ snap' = esSeen.spec /\ mine' = esSeen.status /\ rvOk' = TRUE
    /\ told' = TRUE
    /\ UNCHANGED <<env, esVars, seen, seenCurrent, edits, faults, got, current, plan, verdict, owns>>

\* Reconcile reads the object from the cache; a timer, an event or a retry
\* started it.
StartRound ==
    /\ pc = "idle"
    /\ LaggingStart \/ esCurrent
    /\ pc' = "fetch"
    /\ snap' = esSeen.spec /\ mine' = esSeen.status /\ rvOk' = esCurrent
    /\ told' = TRUE
    /\ UNCHANGED <<env, esVars, seen, seenCurrent, edits, faults, got, current, plan, verdict, owns>>

\* The round is over; full says that it got as far as its data status.
End(full, synced) ==
    /\ pc' = "idle"
    /\ verdict' = [full |-> full, failed |-> ReportedKeys, synced |-> synced]
    /\ got' = <<>> /\ current' = NoSecret /\ plan' = NoPlan
    /\ UNCHANGED snap

Idle == UNCHANGED <<env, seen, seenCurrent, edits>>

LimiterTimesOut ==
    /\ pc = "fetch" /\ got = <<>>
    /\ PutStatus(WithPlaceholder("rate_limit"), FALSE, 1)
    /\ End(FALSE, FALSE)
    /\ Idle /\ UNCHANGED owns

\* getExternalSecret and getExternalSecretWithExtract, one entry per step.
\* stale: the freshness guard refused the client.
Fetch ==
    /\ pc = "fetch" /\ Len(got) < Len(Entries)
    /\ LET e == Entries[Len(got) + 1]
           d == backend[e.key]
       IN  \/ /\ d.there
              /\ got' = Append(got, [result |-> "ok", map |-> Produce(e, d)])
              /\ UNCHANGED faults
           \/ /\ ~d.there
              /\ got' = Append(got, [result |-> "error", map |-> Empty])
              /\ UNCHANGED faults
           \/ \E r \in {"error", "stale"} :
              /\ faults < MaxFaults /\ faults' = faults + 1
              /\ got' = Append(got, [result |-> r, map |-> Empty])
    /\ Idle
    /\ UNCHANGED <<esVars, pc, snap, mine, rvOk, current, plan, told, verdict, owns>>

FetchesDone == pc = "fetch" /\ Len(got) = Len(Entries)
Stale == \E i \in DOMAIN got : got[i].result = "stale"

\* A stale client: the round is dropped without a trace and retried soon.
AbandonStale ==
    /\ FetchesDone /\ Stale
    /\ pc' = "idle" /\ got' = <<>>
    /\ told' = FALSE
    /\ Idle
    /\ UNCHANGED <<esVars, faults, snap, mine, rvOk, current, plan, verdict, owns>>

ReadFails ==
    /\ FetchesDone /\ ~Stale
    /\ PutStatus(WithPlaceholder("state_retrieval"), FALSE, 1)
    /\ End(FALSE, FALSE)
    /\ Idle /\ UNCHANGED owns

\* getCurrentData reads past the cache.
ReadFromCache == seen
ReadSecret == secret

Guarded(data) == ZeroOutput \/ NoSourceButData(data)

ZeroOutputGuard ==
    /\ FetchesDone /\ ~Stale
    /\ Guarded(ReadSecret.data)
    /\ PutStatus(WithPlaceholder("zero_output_guard"), FALSE, 0)
    /\ End(FALSE, FALSE)
    /\ Idle /\ UNCHANGED owns

ReadCurrent ==
    /\ FetchesDone /\ ~Stale
    /\ ~Guarded(ReadSecret.data)
    /\ current' = ReadSecret
    /\ plan' = [NoPlan EXCEPT !.data = Fetched]
    /\ pc' = IF snap.template = NoTemplate THEN "status" ELSE "render"
    /\ Idle
    /\ UNCHANGED <<esVars, faults, snap, mine, rvOk, got, told, verdict, owns>>

(* Templates (ProcessAllTemplates).                                        *)

\* What a template that parses makes of the fetched data.  In Replace mode
\* inline templates clear it first; failing ones render nothing.
Rendering ==
    LET t      == snap.template
        done   == t.keys \ t.failing
        newest == Max({0} \cup {v[2] : v \in Range(Fetched)})
    IN  [data      |-> Over([x \in done |-> <<"template", newest>>],
                              IF t.replace /\ t.keys # {} THEN Empty ELSE Fetched),
         managed   |-> done,
         label     |-> t.label,
         templated |-> TRUE,
         noted     |-> t.failing # {}]

\* The warnings placeholder is written before the guard is evaluated; the
\* guard's own placeholder replaces it, so its step shows the second write.
Render ==
    /\ pc = "render" /\ ~snap.template.broken
    /\ IF RenderedNothing(Rendering.data)
       THEN /\ PutStatus(WithPlaceholder("template_zero_output_guard"), FALSE, 0)
            /\ End(FALSE, FALSE)
       ELSE /\ PutStatus(IF Rendering.noted THEN WithPlaceholder("template_processing_warnings") ELSE mine, FALSE, 0)
            /\ plan' = Rendering
            /\ pc' = "status"
            /\ UNCHANGED <<snap, got, current, verdict>>
    /\ Idle /\ UNCHANGED owns

\* A template that does not parse ends the round, unless data sources failed
\* too: then their contract decides, and nothing of the template is used.
RenderFails ==
    /\ pc = "render" /\ snap.template.broken
    /\ IF FailedKeys = {}
       THEN /\ PutStatus(WithPlaceholder("template_processing_fatal"), FALSE, 0)
            /\ End(FALSE, FALSE)
       ELSE /\ PutStatus(WithPlaceholder("template_processing_errors"), FALSE, 0)
            /\ plan' = [plan EXCEPT !.templated = TRUE, !.noted = TRUE]
            /\ pc' = "status"
            /\ UNCHANGED <<snap, got, current, verdict>>
    /\ Idle /\ UNCHANGED owns

-----------------------------------------------------------------------------
(* Deciding what to write.                                                 *)

SkipWrite ==
    /\ FailedKeys # {}
    /\ ~(AllFailed /\ CleanUp)
    /\ plan.data = Empty \/ plan.templated

\* The Secret keys failed entries would have written; a failed extract may
\* have written any.
RawTargetsOnly ==
    {Entries[i].name : i \in {j \in Indices("data") : Entries[j].key \in ErrorKeys("data")}}
FailedTargets ==
    UNION {TargetKeys(Entries[i]) : i \in {j \in Indices("data") : Entries[j].key \in ErrorKeys("data")}}
Retained == IF ErrorKeys("extract") # {} THEN DOMAIN current.data ELSE FailedTargets \cap DOMAIN current.data

Merge == Over(plan.data, [t \in Retained |-> current.data[t]])

Deletes == AllFailed /\ CleanUp

WriteData ==
    CASE Deletes -> Empty
      [] ~Deletes /\ FailedKeys # {} /\ plan.data # Empty /\ ~plan.templated -> Merge
      [] OTHER -> plan.data

MetadataApplied ==
    /\ plan.managed # {} => current.managed = plan.managed
    /\ plan.label => current.label

\* A nil dataset never equals the one that was read.
Unchanged == ~Deletes /\ WriteData = current.data /\ MetadataApplied

\* What each entry now has in the Secret, if this round's data is in it.
Delivered ==
    IF plan.templated THEN [e \in AllEntries |-> {}]
    ELSE [e \in AllEntries |->
            (UNION {DOMAIN got[i].map : i \in {j \in DOMAIN got : Entries[j] = e /\ got[j].result = "ok"}})
                \cup (IF \E i \in DOMAIN got : Entries[i] = e /\ got[i].result = "ok" THEN {}
                      ELSE owns[e] \cap DOMAIN WriteData)]

\* The deferred status write, then the decision.
ReportAndDecide ==
    /\ pc = "status"
    /\ PutStatus(DataSyncResults, FALSE, 0)
    /\ CASE SkipWrite -> End(TRUE, FALSE) /\ UNCHANGED owns
         [] ~SkipWrite /\ Unchanged -> End(TRUE, TRUE) /\ owns' = Delivered
         [] OTHER -> pc' = "write" /\ UNCHANGED <<snap, got, current, plan, verdict, owns>>
    /\ Idle

(* HandleSecretOperation.  It reads the Secret from the cache; an update   *)
(* carries the resourceVersion of what it read.                            *)

Overlay(old) ==
    [there |-> TRUE, data |-> WriteData,
     managed |-> IF plan.managed # {} THEN plan.managed ELSE old.managed,
     label |-> plan.label \/ old.label]

WroteSecret(new) ==
    /\ secret' = new /\ seenCurrent' = FALSE
    /\ owns' = Delivered
    /\ pc' = "wrote"
    /\ UNCHANGED <<backend, time, spec, esVars, seen, edits, faults, round, told, verdict>>

WriteFailed(spent) ==
    /\ pc' = "unwritten"
    /\ faults' = faults + spent /\ faults' <= MaxFaults
    /\ Idle /\ UNCHANGED <<esVars, round, told, verdict, owns>>

ProviderDeletion == CleanUp /\ WriteData = Empty

DeleteOnFailure ==
    /\ pc = "write" /\ ProviderDeletion
    /\ CASE ~seen.there -> /\ pc' = "wrote"
                           /\ Idle /\ UNCHANGED <<esVars, faults, round, told, verdict, owns>>
         [] seen.there /\ secret.there -> WroteSecret(NoSecret)
         [] OTHER -> WriteFailed(0)

UpdateSecret ==
    /\ pc = "write" /\ ~ProviderDeletion /\ seen.there
    /\ IF seenCurrent THEN WroteSecret(Overlay(seen)) ELSE WriteFailed(0)

\* A Secret the cache does not show yet: Create reports AlreadyExists, and the
\* second read may or may not find it.
CreateSecret ==
    /\ pc = "write" /\ ~ProviderDeletion /\ ~seen.there
    /\ \/ WroteSecret(Overlay(NoSecret))
       \/ secret.there /\ WriteFailed(0)

WriteCallFails == pc = "write" /\ WriteFailed(1)

\* A write forces the status out once more; a failed one leaves a placeholder.
ReportWrite ==
    /\ pc = "wrote"
    /\ PutStatus(DataSyncResults, TRUE, 0)
    /\ End(TRUE, TRUE)
    /\ Idle /\ UNCHANGED owns

ReportWriteFailure ==
    /\ pc = "unwritten"
    /\ PutStatus(WithPlaceholder("update_operation"), FALSE, 0)
    /\ End(TRUE, FALSE)
    /\ Idle /\ UNCHANGED owns

\* The controller restarts: the round is lost, the caches are read anew.
Restart ==
    /\ pc # "idle" /\ faults < MaxFaults
    /\ faults' = faults + 1
    /\ pc' = "idle" /\ got' = <<>> /\ current' = NoSecret /\ plan' = NoPlan
    /\ esSeen' = [spec |-> spec, status |-> status] /\ esCurrent' = TRUE
    /\ seen' = secret /\ seenCurrent' = TRUE
    /\ told' = FALSE
    /\ UNCHANGED <<env, status, edits, snap, mine, rvOk, verdict, owns>>

Round ==
    \/ StartRound \/ Fetch \/ AbandonStale \/ ZeroOutputGuard \/ ReadCurrent
    \/ Render \/ RenderFails \/ ReportAndDecide
    \/ DeleteOnFailure \/ UpdateSecret \/ CreateSecret \/ ReportWrite \/ ReportWriteFailure
Failures == LimiterTimesOut \/ ReadFails \/ WriteCallFails \/ Restart
Informers == DeliverSecret \/ DeliverES
Users == (\E k \in Keys : SetDocument(k)) \/ (\E s \in Specs : EditSpec(s)) \/ DeleteSecret

Next == Round \/ Failures \/ Informers \/ Users
Spec == Init /\ [][Next]_vars

\* Polling starts rounds, the worker runs them, and the watches deliver: a
\* round that waits for the newest copy of the object gets it.
FairSpec == Spec /\ WF_vars(Round \/ DeliverES) /\ WF_vars(DeliverSecret)

-----------------------------------------------------------------------------
(* Properties                                                              *)

Value == (Keys \cup {"template"}) \X (0..MaxTime)
IsData(f) == Range(f) \subseteq Value
IsSecret(s) == s.there \in BOOLEAN /\ IsData(s.data) /\ s.label \in BOOLEAN /\ (~s.there => s = NoSecret)

\* The shape of every variable (the records above).
TypeOK ==
    /\ \A k \in Keys : backend[k].time \in 0..MaxTime /\ backend[k].there \in BOOLEAN /\ backend[k].fields \subseteq Fields
    /\ time \in 0..MaxTime /\ spec \in Specs /\ snap \in Specs /\ esSeen.spec \in Specs
    /\ status \cup mine \cup esSeen.status \subseteq Keys \cup Placeholders \cup {Succeeded}
    /\ esCurrent \in BOOLEAN /\ rvOk \in BOOLEAN /\ seenCurrent \in BOOLEAN /\ told \in BOOLEAN
    /\ IsSecret(secret) /\ IsSecret(seen) /\ IsSecret(current)
    /\ edits \in 0..MaxEdits /\ faults \in 0..MaxFaults
    /\ pc \in {"idle", "fetch", "render", "status", "write", "wrote", "unwritten"}
    /\ Len(got) <= Len(Entries)
    /\ \A i \in DOMAIN got : got[i].result \in {"ok", "error", "stale"} /\ IsData(got[i].map)
    /\ IsData(plan.data) /\ plan.templated \in BOOLEAN /\ plan.noted \in BOOLEAN
    /\ seenCurrent => seen = secret

Destroyed(old, new) ==
    \/ old.there /\ ~new.there
    \/ old.data # Empty /\ new.data = Empty

\* An entry came through whole: its call succeeded and its output is under its
\* name, under the alias of every path, or is a whole extract.
CameWhole(i) ==
    LET e == Entries[i]
        written == DOMAIN got[i].map
    IN  /\ got[i].result = "ok"
        /\ e.kind = "extract" \/ e.name \in written \/ (e.paths # Empty /\ Range(e.paths) \subseteq written)
CallFailed(key) == \E i \in DOMAIN got : Entries[i].key = key /\ got[i].result # "ok"

\* A round takes data out of the cluster, by deleting the Secret or by writing
\* it empty, only if cleanup is on, a call failed for the key of every entry,
\* and not one entry came through whole (handleProviderDeletion: "on the
\* total-failure path ... and not from any other round type").  Neither an
\* emptied document, nor a template that renders nothing, nor one failed twin
\* of several may.  What came through in part beside a failed twin is lost:
\* countFailedSources takes that for a total failure.
WholeEntryProtects ==
    [][pc = "write" /\ pc' = "wrote" /\ Destroyed(secret, secret')
        => CleanUp /\ got # <<>> /\ \A i \in DOMAIN got : ~CameWhole(i) /\ CallFailed(Entries[i].key)]_vars

\* Whatever a failed entry last delivered is still in the Secret after a
\* round writes it (mergeWithFailedKeys), even when twins, aliases or the raw
\* fallback decided under which keys it had been delivered.
FailedEntriesKeepTheirKeys ==
    [][pc = "write" /\ secret'.there =>
        \A i \in DOMAIN got : got[i].result = "error" =>
            owns[Entries[i]] \cap DOMAIN secret.data \subseteq DOMAIN secret'.data]_vars

\* No key goes back to an older document of the backend key it comes from:
\* retained values are never older than what the Secret already has.
NoValueRegresses ==
    [][pc = "write" /\ secret'.there =>
        \A t \in DOMAIN secret.data \cap DOMAIN secret'.data :
            LET old == secret.data[t]  new == secret'.data[t]
            IN  old[1] = new[1] /\ old[1] # "template" => old[2] <= new[2]]_vars

\* Between rounds a Succeeded entry is true: the last round reported no
\* failure and its data is in the Secret.  The data status is written before
\* the Secret is.
NoFalseSuccess ==
    pc = "idle" /\ told /\ Succeeded \in status => verdict.failed = {} /\ verdict.synced

\* A finished round leaves exactly its own failed keys in the status.
StatusMatchesRound ==
    pc = "idle" /\ told /\ verdict.full => status \cap Keys = verdict.failed

\* What the spec asks of the backend as it is now, and whether nothing stands
\* in the way of writing it.
Wanted ==
    LET made(i) == Produce(spec.entries[i], backend[spec.entries[i].key])
    IN  [t \in UNION {DOMAIN made(i) : i \in DOMAIN spec.entries} |->
            made(Max({i \in DOMAIN spec.entries : t \in DOMAIN made(i)}))[t]]
Healthy ==
    /\ spec.template = NoTemplate
    /\ \A i \in DOMAIN spec.entries : backend[spec.entries[i].key].there
    /\ Wanted # Empty

\* Once the user and the backend stop, polling brings the Secret to exactly
\* what the spec asks for and the status to a plain success, whatever rounds,
\* failures and restarts came before.
Converges == <>[]Healthy => <>[](secret.data = Wanted /\ status = {Succeeded})
=============================================================================
