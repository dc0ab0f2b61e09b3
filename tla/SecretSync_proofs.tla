-------------------------- MODULE SecretSync_proofs --------------------------
(***************************************************************************)
(* What a round of the ExternalSecret controller may do to the Secret and  *)
(* say in the status, for every set of specs, documents and bounds.        *)
(*                                                                         *)
(* The first part holds without any assumption on the specs: types, and    *)
(* what a round that writes keeps (FailedEntriesKeepTheirKeys,             *)
(* NoValueRegresses).  The deletion contract and the status are right only *)
(* for specs without certain twins; each theorem names what it excludes.   *)
(***************************************************************************)
EXTENDS SecretSync, FiniteSetTheorems, SequenceTheorems, WellFoundedInduction, TLAPS

-----------------------------------------------------------------------------
(* The inductive invariants                                                *)

Documents == [time : 0..MaxTime, there : BOOLEAN, fields : SUBSET Fields]

\* The records the values are in; a round starts empty.
Shapes ==
    /\ backend \in [Keys -> Documents]
    /\ \A k \in Keys : backend[k].time <= time
    /\ got \in Seq(Range(got))
    /\ plan \in [data : {plan.data}, managed : {plan.managed}, label : BOOLEAN, templated : BOOLEAN, noted : BOOLEAN]
    /\ pc = "idle" => got = <<>>
    /\ pc \in {"idle", "fetch"} => current = NoSecret /\ plan = NoPlan
    /\ pc = "render" => snap.template # NoTemplate

Types == TypeOK /\ Shapes

\* A fetch that succeeded wrote keys its entry may write, one of them at
\* least for spec.data, with values of the entry's document as it was then.
FromEntry(i) ==
    got[i].result = "ok" =>
        LET e == Entries[i]  out == got[i].map
        IN  /\ e.kind = "data" =>
                  /\ DOMAIN out \subseteq TargetKeys(e)
                  /\ e.name \in DOMAIN out \/ Range(e.paths) \cap DOMAIN out # {}
            /\ \A t \in DOMAIN out : out[t][1] = e.key /\ out[t][2] <= backend[e.key].time
FetchedFromEntries ==
    \A i \in DOMAIN got : FromEntry(i) /\ (got[i].result # "ok" => got[i].map = Empty)

\* The Secret is what the round read, or the user has deleted it since.
SecretAsRead == pc \in {"render", "status", "write"} => secret = current \/ secret = NoSecret

\* With cleanup on, no round writes an empty Secret: it deletes it.
Filled == CleanUp /\ secret.there => secret.data # Empty

\* An entry of spec.data has delivered only keys it may write.
OwnsTargets == \A e \in AllEntries : e.kind = "data" => owns[e] \subseteq TargetKeys(e)

\* What a round that writes has decided.
Decided == pc = "write" => ~SkipWrite /\ ~Unchanged

\* Values are not newer than their documents, and what a round has fetched is
\* not older than what the Secret has of the same document.
Aged(f) == \A t \in DOMAIN f : f[t][1] # "template" => f[t][2] <= backend[f[t][1]].time
NotOlder(v) == \A u \in DOMAIN secret.data : secret.data[u][1] = v[1] /\ v[1] # "template" => secret.data[u][2] <= v[2]
FetchedNotOlder ==
    pc \in {"fetch", "render", "status", "write"} =>
        \A i \in DOMAIN got : \A t \in DOMAIN got[i].map : NotOlder(got[i].map[t])
PlanFetched ==
    \A t \in DOMAIN plan.data :
        plan.data[t][1] = "template" \/ \E i \in DOMAIN got : plan.data[t] \in Range(got[i].map)

Values == Aged(secret.data) /\ Aged(current.data) /\ FetchedNotOlder /\ PlanFetched

\* Past its fetches a round has an outcome for every entry, has passed the
\* guards, and plans what it fetched or what its template made of that.
Fetches == [NoPlan EXCEPT !.data = Fetched]
Planned ==
    /\ pc \notin {"idle", "fetch"} => Len(got) = Len(Entries)
    /\ pc \in {"render", "status", "write"} => ~Guarded(current.data)
    /\ pc = "render" => plan = Fetches
    /\ pc \in {"status", "write"} =>
          \/ snap.template = NoTemplate /\ plan = Fetches
          \/ snap.template # NoTemplate /\ plan.templated /\ ~RenderedNothing(plan.data)

\* The cached copy, when it is the newest; the round's copy of the status,
\* while every write got through; and what that says of failed keys.
CopyNewest == esCurrent => esSeen = [spec |-> spec, status |-> status]
CopyTold == told => mine = status
FailuresReported == pc \in {"write", "wrote", "unwritten"} => mine \cap Keys = ReportedKeys

(* What some theorems exclude.                                             *)

\* No two extracts, and under a template no two entries of one kind, share a key.
Twin(s, i, j) == i # j /\ s.entries[i].kind = s.entries[j].kind /\ s.entries[i].key = s.entries[j].key
NoHidingTwins == \A s \in Specs : \A i, j \in DOMAIN s.entries :
    Twin(s, i, j) => s.template = NoTemplate /\ s.entries[i].kind = "data"
\* A backend key is not taken for an entry of the status that is about none.
KeysAreNoPlaceholders == Keys \cap (Placeholders \cup {Succeeded}) = {}

-----------------------------------------------------------------------------
(* Lemmas about the operators                                              *)

\* A bounded set of naturals that is not empty has a greatest element.
LEMMA MaxBelow ==
    ASSUME NEW n \in Nat, NEW S, S \subseteq 0..n, S # {}
    PROVE  Max(S) \in S /\ \A y \in S : Max(S) >= y
<1> DEFINE T == {n - x : x \in S}
           R == {ss \in Nat \X Nat : ss[1] < ss[2]}
<1>1. T \subseteq Nat /\ T # {}
  <2>1. \A x \in S : n - x \in Nat  OBVIOUS
  <2>2. PICK x \in S : TRUE  OBVIOUS
  <2>3. n - x \in T  OBVIOUS
  <2> QED  BY <2>1, <2>3
<1>2. IsWellFoundedOn(R, Nat)  BY NatLessThanWellFounded DEF OpToRel
<1>3. PICK m \in T : \A y \in T : ~(<<y, m>> \in R)
  <2> HIDE DEF T, R
  <2> QED  BY <1>1, <1>2, WFMin
<1>4. \A y \in T : ~(y < m)
  <2> SUFFICES ASSUME NEW y \in T, y < m PROVE FALSE  OBVIOUS
  <2>1. <<y, m>> \in R  BY <1>1
  <2> QED  BY <1>3, <2>1
<1>5. PICK x \in S : m = n - x  OBVIOUS
<1>6. \A y \in S : x >= y
  <2> SUFFICES ASSUME NEW y \in S PROVE x >= y  OBVIOUS
  <2>1. n - y \in T /\ ~(n - y < m)  BY <1>4
  <2> QED  BY <2>1, <1>5
<1> QED  BY <1>6 DEF Max

\* What Append does, without naming a set of elements.
LEMMA Appended ==
    ASSUME NEW s, s \in Seq(Range(s)), NEW x, NEW s2, s2 = Append(s, x)
    PROVE  /\ s2 \in Seq(Range(s2))
           /\ Len(s) \in Nat /\ DOMAIN s = 1..Len(s)
           /\ Len(s2) = Len(s) + 1 /\ DOMAIN s2 = 1..(Len(s) + 1)
           /\ s2[Len(s) + 1] = x
           /\ \A i \in 1..Len(s) : s2[i] = s[i]
<1> DEFINE S == Range(s) \cup {x}
<1>1. s \in Seq(S)
  <2>1. Range(s) \subseteq S  OBVIOUS
  <2> HIDE DEF S
  <2> QED  BY <2>1, SeqMonotonic
<1>2. /\ s2 \in Seq(S) /\ Len(s2) = Len(s) + 1
      /\ \A i \in 1..Len(s) : s2[i] = s[i]
      /\ s2[Len(s) + 1] = x
  <2> x \in S  OBVIOUS
  <2> HIDE DEF S
  <2> QED  BY <1>1, AppendProperties
<1>3. Len(s) \in Nat /\ DOMAIN s = 1..Len(s) /\ DOMAIN s2 = 1..Len(s2)
  <2> HIDE DEF S
  <2> QED  BY <1>1, <1>2, LenProperties
<1>4. s2 \in Seq(Range(s2))
  <2>1. \A i \in 1..Len(s2) : s2[i] \in Range(s2)  BY <1>3 DEF Range
  <2> HIDE DEF S
  <2> QED  BY <2>1, <1>2, IsASeq, LenProperties
<1> QED  BY <1>2, <1>3, <1>4

LEMMA SpecEntries ==
    ASSUME NEW s \in Specs
    PROVE  /\ Len(s.entries) \in Nat /\ DOMAIN s.entries = 1..Len(s.entries)
           /\ \A i \in DOMAIN s.entries : IsEntry(s.entries[i]) /\ s.entries[i] \in AllEntries
<1>1. s.entries \in Seq(Range(s.entries)) /\ \A i \in DOMAIN s.entries : IsEntry(s.entries[i])
  BY SpecsAssumption
<1>2. \A i \in DOMAIN s.entries : s.entries[i] \in AllEntries  BY DEF AllEntries
<1> QED  BY <1>1, <1>2, LenProperties

LEMMA RoundEntries ==
    ASSUME Types
    PROVE  /\ snap \in Specs /\ Len(got) \in Nat /\ DOMAIN got = 1..Len(got)
           /\ Len(Entries) \in Nat /\ DOMAIN Entries = 1..Len(Entries) /\ DOMAIN got \subseteq DOMAIN Entries
           /\ \A i \in DOMAIN Entries : IsEntry(Entries[i]) /\ Entries[i] \in AllEntries
<1>1. snap \in Specs /\ got \in Seq(Range(got)) /\ Len(got) <= Len(Entries)  BY DEF Types, TypeOK, Shapes
<1>2. Len(got) \in Nat /\ DOMAIN got = 1..Len(got)  BY <1>1, LenProperties
<1>3. /\ Len(Entries) \in Nat /\ DOMAIN Entries = 1..Len(Entries)
      /\ \A i \in DOMAIN Entries : IsEntry(Entries[i]) /\ Entries[i] \in AllEntries
  BY <1>1, SpecEntries DEF Entries
<1> QED  BY <1>1, <1>2, <1>3

\* Every key of the merged map comes from the outcome of some fetch.
LEMMA FetchedOutcome ==
    ASSUME got \in Seq(Range(got))
    PROVE  /\ \A t \in DOMAIN Fetched : \E i \in DOMAIN got : t \in DOMAIN got[i].map /\ Fetched[t] = got[i].map[t]
           /\ \A i \in DOMAIN got : DOMAIN got[i].map \subseteq DOMAIN Fetched
<1>1. Len(got) \in Nat /\ DOMAIN got = 1..Len(got)  BY LenProperties
<1>2. DOMAIN Fetched = UNION {DOMAIN got[i].map : i \in DOMAIN got}  BY DEF Fetched
<1>3. ASSUME NEW t \in DOMAIN Fetched
      PROVE  \E i \in DOMAIN got : t \in DOMAIN got[i].map /\ Fetched[t] = got[i].map[t]
  <2> DEFINE S == {i \in DOMAIN got : t \in DOMAIN got[i].map}
  <2>1. S # {}  BY <1>2, <1>3
  <2>2. S \subseteq 0..Len(got)  BY <1>1
  <2>3. Max(S) \in S  BY <1>1, <2>1, <2>2, MaxBelow
  <2>4. Fetched[t] = got[Max(S)].map[t]  BY <1>2, <1>3 DEF Fetched
  <2> QED  BY <2>3, <2>4
<1> QED  BY <1>2, <1>3

LEMMA FetchedData ==
    ASSUME Types
    PROVE  IsData(Fetched)
<1>1. \A i \in DOMAIN got : IsData(got[i].map)  BY DEF Types, TypeOK
<1>2. \A t \in DOMAIN Fetched : \E i \in DOMAIN got : t \in DOMAIN got[i].map /\ Fetched[t] = got[i].map[t]
  BY FetchedOutcome DEF Types, Shapes
<1> QED  BY <1>1, <1>2 DEF IsData, Range

\* What an entry makes of a document: values of the document, under keys it
\* may write.
LEMMA Produced ==
    ASSUME NEW e, IsEntry(e), NEW d \in Documents
    PROVE  LET out == Produce(e, d)
           IN  /\ IsData(out)
               /\ \A t \in DOMAIN out : out[t] = <<e.key, d.time>>
               /\ e.kind = "data" => /\ DOMAIN out \subseteq TargetKeys(e)
                                     /\ e.name \in DOMAIN out \/ Range(e.paths) \cap DOMAIN out # {}
<1> DEFINE out == Produce(e, d)
<1>1. \A t \in DOMAIN out : out[t] = <<e.key, d.time>>  BY DEF Produce
<1>2. IsData(out)  BY <1>1 DEF IsData, Range, Value, Documents, IsEntry
<1>3. ASSUME e.kind = "data"
      PROVE  DOMAIN out \subseteq TargetKeys(e) /\ (e.name \in DOMAIN out \/ Range(e.paths) \cap DOMAIN out # {})
  BY <1>3 DEF Produce, TargetKeys, Range
<1> QED  BY <1>1, <1>2, <1>3

LEMMA RenderingTypes ==
    ASSUME Types, snap.template # NoTemplate
    PROVE  /\ IsData(Rendering.data) /\ Rendering.templated
           /\ Rendering \in [data : {Rendering.data}, managed : {Rendering.managed},
                             label : BOOLEAN, templated : BOOLEAN, noted : BOOLEAN]
           /\ \A t \in DOMAIN Rendering.data :
                 Rendering.data[t][1] = "template" \/ (t \in DOMAIN Fetched /\ Rendering.data[t] = Fetched[t])
<1> DEFINE T == snap.template
           times == {0} \cup {v[2] : v \in Range(Fetched)}
           newest == Max(times)
           done == T.keys \ T.failing
           templates == [x \in done |-> <<"template", newest>>]
           rest == IF T.replace /\ T.keys # {} THEN Empty ELSE Fetched
<1>1. IsData(Fetched)  BY FetchedData
<1>2. newest \in 0..MaxTime
  <2>1. times \subseteq 0..MaxTime /\ times # {}  BY <1>1, SyncBounds DEF IsData, Value
  <2> HIDE DEF times
  <2> QED  BY <2>1, SyncBounds, MaxBelow
<1>3. T.label \in BOOLEAN  BY SpecsAssumption, RoundEntries DEF IsTemplate
<1>4. Rendering = [data |-> Over(templates, rest), managed |-> done, label |-> T.label,
                   templated |-> TRUE, noted |-> T.failing # {}]
  BY DEF Rendering
<1> HIDE DEF newest
<1>5. \A t \in DOMAIN Over(templates, rest) :
         \/ Over(templates, rest)[t] = <<"template", newest>>
         \/ t \in DOMAIN Fetched /\ Over(templates, rest)[t] = Fetched[t]
  BY DEF Over, Empty
<1>6. IsData(Over(templates, rest))
  <2>1. <<"template", newest>> \in Value  BY <1>2 DEF Value
  <2>2. \A t \in DOMAIN Fetched : Fetched[t] \in Value  BY <1>1 DEF IsData, Range
  <2> QED  BY <1>5, <2>1, <2>2 DEF IsData, Range
<1> HIDE DEF templates, rest, done
<1> QED  BY <1>3, <1>4, <1>5, <1>6

LEMMA WriteDataTypes ==
    ASSUME Types
    PROVE  IsData(WriteData)
<1>1. IsData(plan.data) /\ IsData(current.data)  BY DEF Types, TypeOK, IsSecret
<1>2. \A t \in Retained : t \in DOMAIN current.data  BY DEF Retained
<1>3. IsData(Merge)  BY <1>1, <1>2 DEF Merge, Over, IsData, Range
<1>4. IsData(Empty)  BY DEF IsData, Range, Empty
<1> QED  BY <1>1, <1>3, <1>4 DEF WriteData

LEMMA ReportedAreKeys ==
    ASSUME Types
    PROVE  ReportedKeys \subseteq Keys
<1>1. \A i \in DOMAIN got : Entries[i].key \in Keys  BY RoundEntries DEF IsEntry
<1> QED  BY <1>1 DEF ReportedKeys, FailedUncovered, ErrorKeys, Indices

\* A status write, if told is still true afterwards, has left exactly the
\* round's copy; and a copy that is still the newest shows the old one.
AllKeys == Keys \cup Placeholders \cup {Succeeded}
LEMMA StatusWritten ==
    ASSUME Types, NEW new, NEW force \in BOOLEAN, NEW spent \in {0, 1}, PutStatus(new, force, spent)
    PROVE  /\ mine' = new /\ UNCHANGED <<esSeen, rvOk>>
           /\ status' \in {status, new} /\ faults' \in 0..MaxFaults
           /\ told' \in BOOLEAN /\ esCurrent' \in BOOLEAN
           /\ esCurrent' => esCurrent /\ status' = status
           /\ CopyTold /\ told' => status' = new
<1>1. faults \in 0..MaxFaults /\ told \in BOOLEAN /\ esCurrent \in BOOLEAN  BY DEF Types, TypeOK
<1>2. faults' \in 0..MaxFaults  BY <1>1, SyncBounds DEF PutStatus
<1>3. mine' = new /\ UNCHANGED <<esSeen, rvOk>>  BY DEF PutStatus
<1>4. \/ new = mine /\ UNCHANGED <<status, esCurrent, told>>
      \/ status' = new /\ esCurrent' = FALSE /\ told' = told
      \/ told' = FALSE /\ UNCHANGED <<status, esCurrent>>
  BY DEF PutStatus
<1>5. told' \in BOOLEAN /\ esCurrent' \in BOOLEAN /\ (esCurrent' => esCurrent /\ status' = status)
  <2>1. CASE new = mine /\ UNCHANGED <<status, esCurrent, told>>  BY <1>1, <2>1
  <2>2. CASE status' = new /\ esCurrent' = FALSE /\ told' = told  BY <1>1, <2>2
  <2>3. CASE told' = FALSE /\ UNCHANGED <<status, esCurrent>>  BY <1>1, <2>3
  <2> QED  BY <1>4, <2>1, <2>2, <2>3
<1>6. CopyTold /\ told' => status' = new
  <2>1. CASE new = mine /\ UNCHANGED <<status, esCurrent, told>>  BY <2>1 DEF CopyTold
  <2>2. CASE status' = new /\ esCurrent' = FALSE /\ told' = told  BY <2>2
  <2>3. CASE told' = FALSE /\ UNCHANGED <<status, esCurrent>>  BY <2>3
  <2> QED  BY <1>4, <2>1, <2>2, <2>3
<1> QED  BY <1>2, <1>3, <1>4, <1>5, <1>6

LEMMA StatusValues ==
    ASSUME Types
    PROVE  DataSyncResults \subseteq AllKeys /\ \A p \in Placeholders : WithPlaceholder(p) \subseteq AllKeys
<1>1. mine \subseteq AllKeys  BY DEF Types, TypeOK, AllKeys
<1> QED  BY <1>1, ReportedAreKeys DEF DataSyncResults, WithPlaceholder, AllKeys

-----------------------------------------------------------------------------
(* The kinds of steps                                                      *)

\* A step of the user, the backend or an informer leaves the round alone.
Outside ==
    \/ \E k \in Keys : SetDocument(k)
    \/ \E s \in Specs : EditSpec(s)
    \/ DeleteSecret \/ DeliverSecret \/ DeliverES
    \/ UNCHANGED vars

\* A round that ends before its data status leaves a placeholder.
GivesUp ==
    /\ pc \in {"fetch", "render"}
    /\ \E p \in Placeholders, spent \in {0, 1} : PutStatus(WithPlaceholder(p), FALSE, spent)
    /\ End(FALSE, FALSE)
    /\ Idle /\ UNCHANGED owns

\* A round that goes on past its template.
Renders ==
    /\ pc = "render" /\ pc' = "status"
    /\ \E new \in {mine} \cup {WithPlaceholder(p) : p \in Placeholders} : PutStatus(new, FALSE, 0)
    /\ \/ plan' = Rendering /\ ~RenderedNothing(Rendering.data)
       \/ plan' = [plan EXCEPT !.templated = TRUE, !.noted = TRUE] /\ FailedKeys # {}
    /\ Idle /\ UNCHANGED <<snap, got, current, verdict, owns>>

\* A call that writes or deletes the Secret, or fails to.
Writes == DeleteOnFailure \/ UpdateSecret \/ CreateSecret \/ WriteCallFails

LEMMA Kinds ==
    ASSUME [Next]_vars
    PROVE  \/ Outside \/ StartRound \/ Fetch \/ AbandonStale \/ GivesUp \/ ReadCurrent \/ Renders
           \/ ReportAndDecide \/ Writes \/ ReportWrite \/ ReportWriteFailure \/ Restart
<1>1. CASE LimiterTimesOut
  <2>1. "rate_limit" \in Placeholders  BY DEF Placeholders
  <2>2. GivesUp  BY <1>1, <2>1 DEF LimiterTimesOut, GivesUp
  <2> QED  BY <2>2
<1>2. CASE ReadFails
  <2>1. "state_retrieval" \in Placeholders  BY DEF Placeholders
  <2>2. GivesUp  BY <1>2, <2>1 DEF ReadFails, FetchesDone, GivesUp
  <2> QED  BY <2>2
<1>3. CASE ZeroOutputGuard
  <2>1. "zero_output_guard" \in Placeholders  BY DEF Placeholders
  <2>2. GivesUp  BY <1>3, <2>1 DEF ZeroOutputGuard, FetchesDone, GivesUp
  <2> QED  BY <2>2
<1>4. CASE Render
  <2>1. "template_zero_output_guard" \in Placeholders /\ "template_processing_warnings" \in Placeholders
    BY DEF Placeholders
  <2>2. CASE RenderedNothing(Rendering.data)
    <3>1. GivesUp  BY <1>4, <2>1, <2>2 DEF Render, GivesUp
    <3> QED  BY <3>1
  <2>3. CASE ~RenderedNothing(Rendering.data)
    <3>1. \E new \in {mine} \cup {WithPlaceholder(p) : p \in Placeholders} : PutStatus(new, FALSE, 0)
      <4> DEFINE new == IF Rendering.noted THEN WithPlaceholder("template_processing_warnings") ELSE mine
      <4>1. new \in {mine} \cup {WithPlaceholder(p) : p \in Placeholders}  BY <2>1
      <4>2. PutStatus(new, FALSE, 0)  BY <1>4, <2>3 DEF Render
      <4> HIDE DEF new
      <4> QED  BY <4>1, <4>2
    <3>2. Renders  BY <1>4, <2>3, <3>1 DEF Render, Renders
    <3> QED  BY <3>2
  <2> QED  BY <2>2, <2>3
<1>5. CASE RenderFails
  <2>1. "template_processing_fatal" \in Placeholders /\ "template_processing_errors" \in Placeholders
    BY DEF Placeholders
  <2>2. CASE FailedKeys = {}
    <3>1. GivesUp  BY <1>5, <2>1, <2>2 DEF RenderFails, GivesUp
    <3> QED  BY <3>1
  <2>3. CASE FailedKeys # {}
    <3>1. Renders  BY <1>5, <2>1, <2>3 DEF RenderFails, Renders
    <3> QED  BY <3>1
  <2> QED  BY <2>2, <2>3
<1> QED  BY <1>1, <1>2, <1>3, <1>4, <1>5 DEF Next, Round, Failures, Informers, Users, Outside, Writes

\* Steps of the round other than its writes and a restart leave the world
\* around the controller alone.
LEMMA RoundIsIdle ==
    ASSUME \/ StartRound \/ Fetch \/ AbandonStale \/ GivesUp \/ ReadCurrent \/ Renders
           \/ ReportAndDecide \/ ReportWrite \/ ReportWriteFailure
    PROVE  UNCHANGED <<backend, time, spec, secret, seen, seenCurrent, edits>>
<1>1. CASE StartRound  BY <1>1 DEF StartRound, env
<1>2. CASE Fetch  BY <1>2 DEF Fetch, Idle, env
<1>3. CASE AbandonStale  BY <1>3 DEF AbandonStale, Idle, env
<1>4. CASE GivesUp  BY <1>4 DEF GivesUp, Idle, env
<1>5. CASE ReadCurrent  BY <1>5 DEF ReadCurrent, Idle, env
<1>6. CASE Renders  BY <1>6 DEF Renders, Idle, env
<1>7. CASE ReportAndDecide  BY <1>7 DEF ReportAndDecide, Idle, env
<1>8. CASE ReportWrite  BY <1>8 DEF ReportWrite, Idle, env
<1>9. CASE ReportWriteFailure  BY <1>9 DEF ReportWriteFailure, Idle, env
<1> QED  BY <1>1, <1>2, <1>3, <1>4, <1>5, <1>6, <1>7, <1>8, <1>9

LEMMA OutsideFrame ==
    ASSUME Outside
    PROVE  UNCHANGED <<pc, snap, mine, got, current, plan, told, verdict>>
  BY DEF Outside, SetDocument, EditSpec, DeleteSecret, DeliverSecret, DeliverES, vars, round

\* A write changes nothing but the Secret and what it was known to deliver.
LEMMA WritesFrame ==
    ASSUME Writes
    PROVE  /\ pc = "write" /\ pc' \in {"wrote", "unwritten"}
           /\ UNCHANGED <<backend, time, spec, esVars, seen, edits, round, told, verdict>>
           /\ \/ UNCHANGED <<secret, seenCurrent, owns>>
              \/ /\ secret' \in {NoSecret, Overlay(seen), Overlay(NoSecret)}
                 /\ seenCurrent' = FALSE /\ owns' = Delivered
           /\ pc' = "unwritten" => UNCHANGED <<secret, owns>>
<1>1. CASE DeleteOnFailure  BY <1>1 DEF DeleteOnFailure, WroteSecret, WriteFailed, Idle, env, esVars, round
<1>2. CASE UpdateSecret  BY <1>2 DEF UpdateSecret, WroteSecret, WriteFailed, Idle, env, esVars, round
<1>3. CASE CreateSecret  BY <1>3 DEF CreateSecret, WroteSecret, WriteFailed, Idle, env, esVars, round
<1>4. CASE WriteCallFails  BY <1>4 DEF WriteCallFails, WriteFailed, Idle, env, esVars, round
<1> QED  BY <1>1, <1>2, <1>3, <1>4 DEF Writes

-----------------------------------------------------------------------------
(* Type correctness                                                        *)

BackendTypes ==
    time \in 0..MaxTime /\ backend \in [Keys -> Documents] /\ \A k \in Keys : backend[k].time <= time
CopyTypes ==
    /\ spec \in Specs /\ esSeen.spec \in Specs
    /\ status \subseteq AllKeys /\ mine \subseteq AllKeys /\ esSeen.status \subseteq AllKeys
    /\ esCurrent \in BOOLEAN /\ rvOk \in BOOLEAN /\ told \in BOOLEAN
SecretTypes ==
    IsSecret(secret) /\ IsSecret(seen) /\ seenCurrent \in BOOLEAN /\ (seenCurrent => seen = secret)
CountTypes == edits \in 0..MaxEdits /\ faults \in 0..MaxFaults
GotTypes ==
    /\ snap \in Specs /\ pc \in {"idle", "fetch", "render", "status", "write", "wrote", "unwritten"}
    /\ got \in Seq(Range(got)) /\ Len(got) <= Len(Entries)
    /\ \A i \in DOMAIN got : got[i].result \in {"ok", "error", "stale"} /\ IsData(got[i].map)
PlanTypes ==
    /\ plan \in [data : {plan.data}, managed : {plan.managed}, label : BOOLEAN, templated : BOOLEAN, noted : BOOLEAN]
    /\ IsData(plan.data) /\ IsSecret(current)
    /\ pc = "idle" => got = <<>>
    /\ pc \in {"idle", "fetch"} => current = NoSecret /\ plan = NoPlan
    /\ pc = "render" => snap.template # NoTemplate

LEMMA TypeGroups ==
    Types <=> BackendTypes /\ CopyTypes /\ SecretTypes /\ CountTypes /\ GotTypes /\ PlanTypes
<1>1. ASSUME Types PROVE BackendTypes /\ CopyTypes /\ SecretTypes /\ CountTypes /\ GotTypes /\ PlanTypes
  BY <1>1 DEF Types, TypeOK, Shapes, BackendTypes, CopyTypes, SecretTypes, CountTypes, GotTypes, PlanTypes, AllKeys
<1>2. ASSUME BackendTypes, CopyTypes, SecretTypes, CountTypes, GotTypes, PlanTypes PROVE Types
  <2>1. \A k \in Keys : backend[k].time \in 0..MaxTime /\ backend[k].there \in BOOLEAN /\ backend[k].fields \subseteq Fields
    BY <1>2 DEF BackendTypes, Documents
  <2>2. plan.templated \in BOOLEAN /\ plan.noted \in BOOLEAN  BY <1>2 DEF PlanTypes
  <2> QED
    BY <1>2, <2>1, <2>2 DEF Types, TypeOK, Shapes, BackendTypes, CopyTypes, SecretTypes, CountTypes, GotTypes, PlanTypes, AllKeys
<1> QED  BY <1>1, <1>2

LEMMA EmptyTypes == IsData(Empty) /\ IsSecret(NoSecret) /\ DOMAIN Empty = {} /\ Empty = <<>>
<1>1. DOMAIN Empty = {} /\ Empty = <<>>  BY DEF Empty
<1>2. IsData(Empty)  BY <1>1 DEF IsData, Range
<1> QED  BY <1>1, <1>2 DEF IsSecret, NoSecret

LEMMA InitTypes == ASSUME Init PROVE Types
<1>1. BackendTypes  BY SyncBounds DEF Init, BackendTypes, Documents
<1>2. CopyTypes  BY DEF Init, CopyTypes
<1>3. SecretTypes  BY EmptyTypes DEF Init, SecretTypes
<1>4. CountTypes  BY SyncBounds DEF Init, CountTypes
<1>5. GotTypes
  <2>1. snap \in Specs /\ got = <<>> /\ pc = "idle"  BY DEF Init
  <2>2. Len(Entries) \in Nat  BY <2>1, SpecEntries DEF Entries
  <2>3. got \in Seq(Range(got)) /\ Len(got) = 0 /\ DOMAIN got = {}  BY <2>1, EmptySeq
  <2> QED  BY <2>1, <2>2, <2>3 DEF GotTypes
<1>6. PlanTypes  BY EmptyTypes DEF Init, PlanTypes, NoPlan
<1> QED  BY <1>1, <1>2, <1>3, <1>4, <1>5, <1>6, TypeGroups

LEMMA BackendTypesKept == ASSUME Types, [Next]_vars PROVE BackendTypes'
<1>1. BackendTypes  BY TypeGroups
<1>2. CASE \E k \in Keys : SetDocument(k)
  <2>1. PICK k \in Keys : SetDocument(k)  BY <1>2
  <2>2. time' = time + 1 /\ time' \in 0..MaxTime  BY <1>1, <2>1, SyncBounds DEF SetDocument, BackendTypes
  <2>3. CASE \E F \in SUBSET Fields : backend' = [backend EXCEPT ![k] = [time |-> time', there |-> TRUE, fields |-> F]]
    <3>1. PICK F \in SUBSET Fields : backend' = [backend EXCEPT ![k] = [time |-> time', there |-> TRUE, fields |-> F]]
      BY <2>3
    <3>2. [time |-> time', there |-> TRUE, fields |-> F] \in Documents  BY <2>2 DEF Documents
    <3>3. backend' \in [Keys -> Documents]  BY <1>1, <3>1, <3>2 DEF BackendTypes
    <3>4. \A j \in Keys : backend'[j].time <= time'
      BY <1>1, <2>2, <3>1, SyncBounds DEF BackendTypes, Documents
    <3> QED  BY <2>2, <3>3, <3>4 DEF BackendTypes
  <2>4. CASE backend' = [backend EXCEPT ![k].there = FALSE]
    <3>1. backend' \in [Keys -> Documents]  BY <1>1, <2>4 DEF BackendTypes, Documents
    <3>2. \A j \in Keys : backend'[j].time = backend[j].time  BY <1>1, <2>4 DEF BackendTypes, Documents
    <3>3. \A j \in Keys : backend'[j].time <= time'
      BY <1>1, <2>2, <3>2, SyncBounds DEF BackendTypes, Documents
    <3> QED  BY <2>2, <3>1, <3>3 DEF BackendTypes
  <2> QED  BY <2>1, <2>3, <2>4 DEF SetDocument
<1>3. CASE UNCHANGED <<backend, time>>  BY <1>1, <1>3 DEF BackendTypes
<1>4. (\E k \in Keys : SetDocument(k)) \/ UNCHANGED <<backend, time>>
  <2>1. CASE Outside
    BY <2>1 DEF Outside, EditSpec, DeleteSecret, DeliverSecret, DeliverES, env, vars
  <2>2. CASE Writes  BY <2>2, WritesFrame
  <2>3. CASE Restart  BY <2>3 DEF Restart, env
  <2> QED  BY <2>1, <2>2, <2>3, Kinds, RoundIsIdle
<1> QED  BY <1>2, <1>3, <1>4

\* The steps that write the status, and what becomes of the copies.
Reports == GivesUp \/ Renders \/ ReportAndDecide \/ ReportWrite \/ ReportWriteFailure

LEMMA ReportsStatus ==
    ASSUME Types, Reports
    PROVE  \E new \in SUBSET AllKeys, force \in BOOLEAN, spent \in {0, 1} : PutStatus(new, force, spent)
<1>1. mine \in SUBSET AllKeys  BY DEF Types, TypeOK, AllKeys
<1>2. DataSyncResults \in SUBSET AllKeys /\ \A p \in Placeholders : WithPlaceholder(p) \in SUBSET AllKeys
  BY StatusValues
<1>3. CASE GivesUp  BY <1>2, <1>3 DEF GivesUp
<1>4. CASE Renders  BY <1>1, <1>2, <1>4 DEF Renders
<1>5. CASE ReportAndDecide  BY <1>2, <1>5 DEF ReportAndDecide
<1>6. CASE ReportWrite  BY <1>2, <1>6 DEF ReportWrite
<1>7. CASE ReportWriteFailure
  <2>1. "update_operation" \in Placeholders  BY DEF Placeholders
  <2> QED  BY <1>2, <1>7, <2>1 DEF ReportWriteFailure
<1> QED  BY <1>3, <1>4, <1>5, <1>6, <1>7 DEF Reports

LEMMA CopyTypesKept == ASSUME Types, [Next]_vars PROVE CopyTypes'
<1>1. CopyTypes  BY TypeGroups
<1>2. CASE Outside
  <2>1. CASE \E k \in Keys : SetDocument(k)  BY <1>1, <2>1 DEF SetDocument, CopyTypes, esVars, round
  <2>2. CASE \E s \in Specs : EditSpec(s)  BY <1>1, <2>2 DEF EditSpec, CopyTypes
  <2>3. CASE DeleteSecret  BY <1>1, <2>3 DEF DeleteSecret, CopyTypes, esVars, round
  <2>4. CASE DeliverSecret  BY <1>1, <2>4 DEF DeliverSecret, CopyTypes, env, esVars, round
  <2>5. CASE DeliverES  BY <1>1, <2>5 DEF DeliverES, CopyTypes, env, round
  <2>6. CASE UNCHANGED vars  BY <1>1, <2>6 DEF vars, CopyTypes
  <2> QED  BY <1>2, <2>1, <2>2, <2>3, <2>4, <2>5, <2>6 DEF Outside
<1>3. CASE StartRound  BY <1>1, <1>3 DEF StartRound, CopyTypes, env, esVars
<1>4. CASE Fetch \/ AbandonStale \/ ReadCurrent
  <2>1. UNCHANGED <<esVars, mine, rvOk>> /\ told' \in {told, FALSE}
    BY <1>4 DEF Fetch, AbandonStale, ReadCurrent
  <2>2. told' \in BOOLEAN  BY <1>1, <1>4 DEF Fetch, AbandonStale, ReadCurrent, CopyTypes
  <2> QED  BY <1>1, <1>4, <2>1, <2>2, RoundIsIdle DEF CopyTypes, esVars
<1>5. CASE Reports
  <2>1. PICK new \in SUBSET AllKeys, force \in BOOLEAN, spent \in {0, 1} : PutStatus(new, force, spent)
    BY <1>5, ReportsStatus
  <2>2. /\ mine' = new /\ UNCHANGED <<esSeen, rvOk>> /\ status' \in {status, new}
        /\ told' \in BOOLEAN /\ esCurrent' \in BOOLEAN
    BY <2>1, StatusWritten
  <2>3. spec' = spec  BY <1>5, RoundIsIdle DEF Reports
  <2> QED  BY <1>1, <2>2, <2>3 DEF CopyTypes
<1>6. CASE Writes  BY <1>1, <1>6, WritesFrame DEF CopyTypes, esVars, round
<1>7. CASE Restart  BY <1>1, <1>7 DEF Restart, CopyTypes, env
<1> QED  BY <1>2, <1>3, <1>4, <1>5, <1>6, <1>7, Kinds DEF Reports

LEMMA CountTypesKept == ASSUME Types, [Next]_vars PROVE CountTypes'
<1>1. CountTypes  BY TypeGroups
<1>2. CASE Outside
  <2>1. CASE \E k \in Keys : SetDocument(k)  BY <1>1, <2>1 DEF SetDocument, CountTypes
  <2>2. CASE \E s \in Specs : EditSpec(s)  BY <1>1, <2>2, SyncBounds DEF EditSpec, CountTypes
  <2>3. CASE DeleteSecret  BY <1>1, <2>3, SyncBounds DEF DeleteSecret, CountTypes
  <2>4. CASE DeliverSecret  BY <1>1, <2>4 DEF DeliverSecret, CountTypes
  <2>5. CASE DeliverES  BY <1>1, <2>5 DEF DeliverES, CountTypes
  <2>6. CASE UNCHANGED vars  BY <1>1, <2>6 DEF vars, CountTypes
  <2> QED  BY <1>2, <2>1, <2>2, <2>3, <2>4, <2>5, <2>6 DEF Outside
<1>3. CASE StartRound  BY <1>1, <1>3 DEF StartRound, CountTypes
<1>4. CASE Fetch
  <2>1. faults' = faults \/ (faults < MaxFaults /\ faults' = faults + 1)  BY <1>4 DEF Fetch
  <2> QED  BY <1>1, <1>4, <2>1, RoundIsIdle, SyncBounds DEF CountTypes
<1>5. CASE AbandonStale  BY <1>1, <1>5, RoundIsIdle DEF AbandonStale, CountTypes
<1>6. CASE ReadCurrent  BY <1>1, <1>6, RoundIsIdle DEF ReadCurrent, CountTypes
<1>7. CASE Reports
  <2>1. faults' \in 0..MaxFaults  BY <1>7, ReportsStatus, StatusWritten
  <2>2. edits' = edits  BY <1>7, RoundIsIdle DEF Reports
  <2> QED  BY <1>1, <2>1, <2>2 DEF CountTypes
<1>8. CASE Writes
  <2>1. UNCHANGED faults \/ \E n \in {0, 1} : faults' = faults + n /\ faults' <= MaxFaults
    BY <1>8 DEF Writes, DeleteOnFailure, UpdateSecret, CreateSecret, WriteCallFails, WroteSecret, WriteFailed
  <2> QED  BY <1>1, <1>8, <2>1, WritesFrame, SyncBounds DEF CountTypes
<1>9. CASE Restart  BY <1>1, <1>9, SyncBounds DEF Restart, CountTypes
<1> QED  BY <1>2, <1>3, <1>4, <1>5, <1>6, <1>7, <1>8, <1>9, Kinds DEF Reports

LEMMA SecretTypesKept == ASSUME Types, [Next]_vars PROVE SecretTypes'
<1>1. SecretTypes  BY TypeGroups
<1>2. CASE Outside
  <2>1. CASE \E k \in Keys : SetDocument(k)  BY <1>1, <2>1 DEF SetDocument, SecretTypes
  <2>2. CASE \E s \in Specs : EditSpec(s)  BY <1>1, <2>2 DEF EditSpec, SecretTypes
  <2>3. CASE DeleteSecret  BY <1>1, <2>3, EmptyTypes DEF DeleteSecret, SecretTypes
  <2>4. CASE DeliverSecret  BY <1>1, <2>4 DEF DeliverSecret, SecretTypes, env
  <2>5. CASE DeliverES  BY <1>1, <2>5 DEF DeliverES, SecretTypes, env
  <2>6. CASE UNCHANGED vars  BY <1>1, <2>6 DEF vars, SecretTypes
  <2> QED  BY <1>2, <2>1, <2>2, <2>3, <2>4, <2>5, <2>6 DEF Outside
<1>3. CASE UNCHANGED <<secret, seen, seenCurrent>>  BY <1>1, <1>3 DEF SecretTypes
<1>4. CASE Writes
  <2>1. plan.label \in BOOLEAN /\ seen.label \in BOOLEAN
    BY <1>1, TypeGroups DEF PlanTypes, SecretTypes, IsSecret
  <2>2. IsSecret(Overlay(seen))
    BY <2>1, WriteDataTypes DEF Overlay, IsSecret
  <2>3. IsSecret(Overlay(NoSecret))
    BY <2>1, WriteDataTypes DEF Overlay, IsSecret, NoSecret
  <2>4. IsSecret(secret')  BY <1>1, <1>4, <2>2, <2>3, EmptyTypes, WritesFrame DEF SecretTypes
  <2>5. CASE UNCHANGED <<secret, seenCurrent>>  BY <1>3, <1>4, <2>5, WritesFrame
  <2>6. CASE seenCurrent' = FALSE  BY <1>1, <1>4, <2>4, <2>6, WritesFrame DEF SecretTypes
  <2> QED  BY <1>4, <2>5, <2>6, WritesFrame
<1>5. CASE Restart  BY <1>1, <1>5 DEF Restart, SecretTypes, env
<1> QED  BY <1>2, <1>3, <1>4, <1>5, Kinds, RoundIsIdle

LEMMA NothingGot == ASSUME snap' \in Specs, pc' \in {"idle", "fetch"}, got' = <<>> PROVE GotTypes'
<1>1. Len(snap'.entries) \in Nat  BY SpecEntries
<1>2. got' \in Seq(Range(got')) /\ Len(got') = 0 /\ DOMAIN got' = {}  BY EmptySeq
<1> QED  BY <1>1, <1>2 DEF GotTypes, Entries

LEMMA GotKept ==
    ASSUME GotTypes, UNCHANGED <<snap, got>>,
           pc' \in {"idle", "fetch", "render", "status", "write", "wrote", "unwritten"}
    PROVE  GotTypes'
  BY DEF GotTypes, Entries

\* The outcome of one fetch, put after those before it.
LEMMA OneFetch ==
    ASSUME Types, Fetch
    PROVE  LET i == Len(got) + 1
           IN  /\ got' \in Seq(Range(got')) /\ Len(got') = i /\ DOMAIN got' = 1..i /\ DOMAIN got = 1..(i - 1)
               /\ i <= Len(Entries) /\ i \in DOMAIN Entries /\ Len(got) \in Nat
               /\ \A j \in DOMAIN got : got'[j] = got[j]
               /\ \/ got'[i] = [result |-> "ok", map |-> Produce(Entries[i], backend[Entries[i].key])]
                  \/ got'[i] \in [result : {"error", "stale"}, map : {Empty}]
<1> DEFINE i == Len(got) + 1
           outcomes == {[result |-> "ok", map |-> Produce(Entries[i], backend[Entries[i].key])]}
                           \cup [result : {"error", "stale"}, map : {Empty}]
<1>1. PICK x \in outcomes : got' = Append(got, x)
  <2>1. \E x \in outcomes : got' = Append(got, x)
    <3>1. \/ got' = Append(got, [result |-> "ok", map |-> Produce(Entries[i], backend[Entries[i].key])])
          \/ \E r \in {"error", "stale"} : got' = Append(got, [result |-> r, map |-> Empty])
      BY DEF Fetch
    <3> QED  BY <3>1
  <2> QED  BY <2>1
<1>2. got \in Seq(Range(got))  BY DEF Types, Shapes
<1>3. Len(got) \in Nat /\ Len(Entries) \in Nat /\ DOMAIN Entries = 1..Len(Entries)  BY RoundEntries
<1>4. Len(got) < Len(Entries)  BY DEF Fetch
<1>5. i <= Len(Entries) /\ i \in DOMAIN Entries /\ i - 1 = Len(got)  BY <1>3, <1>4
<1>6. /\ got' \in Seq(Range(got')) /\ DOMAIN got = 1..Len(got)
      /\ Len(got') = i /\ DOMAIN got' = 1..i /\ got'[i] = x
      /\ \A j \in 1..Len(got) : got'[j] = got[j]
  <2> HIDE DEF outcomes
  <2>1. /\ got' \in Seq(Range(got')) /\ DOMAIN got = 1..Len(got)
        /\ Len(got') = Len(got) + 1 /\ DOMAIN got' = 1..(Len(got) + 1) /\ got'[Len(got) + 1] = x
        /\ \A j \in 1..Len(got) : got'[j] = got[j]
    <3> HIDE DEF i
    <3>1. got' \in Seq(Range(got')) /\ DOMAIN got = 1..Len(got)  BY <1>1, <1>2, Appended
    <3>2. Len(got') = Len(got) + 1 /\ DOMAIN got' = 1..(Len(got) + 1)  BY <1>1, <1>2, Appended
    <3>3. got'[Len(got) + 1] = x  BY <1>1, <1>2, Appended
    <3>4. \A j \in 1..Len(got) : got'[j] = got[j]  BY <1>1, <1>2, Appended
    <3> QED  BY <3>1, <3>2, <3>3, <3>4
  <2> QED  BY <2>1
<1>7. \/ x = [result |-> "ok", map |-> Produce(Entries[i], backend[Entries[i].key])]
      \/ x \in [result : {"error", "stale"}, map : {Empty}]
  BY <1>1
<1> HIDE DEF outcomes
<1> QED  BY <1>3, <1>5, <1>6, <1>7

LEMMA GotTypesKept == ASSUME Types, [Next]_vars PROVE GotTypes'
<1>1. GotTypes /\ PlanTypes /\ CopyTypes /\ BackendTypes  BY TypeGroups
<1>2. snap \in Specs  BY <1>1 DEF GotTypes
<1>3. CASE Outside
  <2>1. UNCHANGED <<snap, got, pc>>  BY <1>3, OutsideFrame
  <2> QED  BY <1>1, <2>1, GotKept DEF GotTypes
<1>4. CASE StartRound
  <2>1. snap' \in Specs /\ got' = <<>> /\ pc' = "fetch"
    BY <1>1, <1>4 DEF StartRound, CopyTypes, PlanTypes
  <2> QED  BY <2>1, NothingGot
<1>5. CASE Fetch
  <2> DEFINE i == Len(got) + 1
  <2>1. /\ got' \in Seq(Range(got')) /\ Len(got') = i /\ DOMAIN got' = 1..i /\ DOMAIN got = 1..(i - 1)
        /\ i <= Len(Entries) /\ i \in DOMAIN Entries /\ Len(got) \in Nat
        /\ \A j \in DOMAIN got : got'[j] = got[j]
        /\ \/ got'[i] = [result |-> "ok", map |-> Produce(Entries[i], backend[Entries[i].key])]
           \/ got'[i] \in [result : {"error", "stale"}, map : {Empty}]
    BY <1>5, OneFetch
  <2>2. IsEntry(Entries[i])  BY <2>1, RoundEntries
  <2>3. backend[Entries[i].key] \in Documents  BY <1>1, <2>2 DEF IsEntry, BackendTypes
  <2>4. IsData(Produce(Entries[i], backend[Entries[i].key]))  BY <2>2, <2>3, Produced
  <2>5. got'[i].result \in {"ok", "error", "stale"} /\ IsData(got'[i].map)
    BY <2>1, <2>4, EmptyTypes
  <2>6. \A j \in DOMAIN got' : got'[j].result \in {"ok", "error", "stale"} /\ IsData(got'[j].map)
    <3> SUFFICES ASSUME NEW j \in DOMAIN got'
                 PROVE  got'[j].result \in {"ok", "error", "stale"} /\ IsData(got'[j].map)
      OBVIOUS
    <3>1. j = i \/ j \in DOMAIN got  BY <2>1
    <3> QED  BY <1>1, <2>1, <2>5, <3>1 DEF GotTypes
  <2>7. snap' = snap /\ pc' = pc  BY <1>5 DEF Fetch
  <2> HIDE DEF i
  <2> QED  BY <1>1, <2>1, <2>6, <2>7 DEF GotTypes, Entries
<1>6. CASE AbandonStale
  <2>1. snap' = snap /\ got' = <<>> /\ pc' = "idle"  BY <1>6 DEF AbandonStale
  <2> QED  BY <1>2, <2>1, NothingGot
<1>7. CASE GivesUp \/ ReportWrite \/ ReportWriteFailure \/ Restart
  <2>1. snap' = snap /\ got' = <<>> /\ pc' = "idle"
    BY <1>7 DEF GivesUp, ReportWrite, ReportWriteFailure, Restart, End
  <2> QED  BY <1>2, <2>1, NothingGot
<1>8. CASE ReadCurrent
  <2>1. UNCHANGED <<snap, got>> /\ pc' \in {"render", "status"}  BY <1>8 DEF ReadCurrent
  <2> QED  BY <1>1, <2>1, GotKept
<1>9. CASE Renders
  <2>1. UNCHANGED <<snap, got>> /\ pc' = "status"  BY <1>9 DEF Renders
  <2> QED  BY <1>1, <2>1, GotKept
<1>10. CASE ReportAndDecide
  <2>1. \/ snap' = snap /\ got' = <<>> /\ pc' = "idle"
        \/ UNCHANGED <<snap, got>> /\ pc' = "write"
    BY <1>10 DEF ReportAndDecide, End
  <2> QED  BY <1>1, <1>2, <2>1, NothingGot, GotKept
<1>11. CASE Writes
  <2>1. UNCHANGED <<snap, got>> /\ pc' \in {"wrote", "unwritten"}  BY <1>11, WritesFrame DEF round
  <2> QED  BY <1>1, <2>1, GotKept
<1> QED  BY <1>3, <1>4, <1>5, <1>6, <1>7, <1>8, <1>9, <1>10, <1>11, Kinds

LEMMA FetchesShape ==
    /\ Fetches = [data |-> Fetched, managed |-> {}, label |-> FALSE, templated |-> FALSE, noted |-> FALSE]
    /\ NoPlan = [data |-> Empty, managed |-> {}, label |-> FALSE, templated |-> FALSE, noted |-> FALSE]
<1>1. NoPlan = [data |-> Empty, managed |-> {}, label |-> FALSE, templated |-> FALSE, noted |-> FALSE]
  BY DEF NoPlan
<1>2. NoPlan \in [data : {Empty}, managed : {{}}, label : {FALSE}, templated : {FALSE}, noted : {FALSE}]  BY <1>1
<1>3. Fetches \in [data : {Fetched}, managed : {{}}, label : {FALSE}, templated : {FALSE}, noted : {FALSE}]
  BY <1>2 DEF Fetches
<1> QED  BY <1>1, <1>3

LEMMA PlanTypesKept == ASSUME Types, [Next]_vars PROVE PlanTypes'
<1>1. PlanTypes /\ GotTypes /\ SecretTypes  BY TypeGroups
<1>2. ASSUME pc' = "idle", got' = <<>>, current' = NoSecret, plan' = NoPlan PROVE PlanTypes'
  BY <1>2, EmptyTypes, FetchesShape DEF PlanTypes
<1>3. CASE Outside  BY <1>1, <1>3, OutsideFrame DEF PlanTypes
<1>4. CASE StartRound  BY <1>1, <1>4 DEF StartRound, PlanTypes
<1>5. CASE Fetch  BY <1>1, <1>5 DEF Fetch, PlanTypes
<1>6. CASE AbandonStale  BY <1>1, <1>2, <1>6 DEF AbandonStale, FetchesDone, PlanTypes
<1>7. CASE GivesUp \/ ReportWrite \/ ReportWriteFailure \/ Restart
  BY <1>2, <1>7 DEF GivesUp, ReportWrite, ReportWriteFailure, Restart, End
<1>8. CASE ReadCurrent
  <2>1. plan' = Fetches /\ current' = secret /\ pc' \in {"render", "status"}
    BY <1>8 DEF ReadCurrent, ReadSecret, Fetches
  <2>2. pc' = "render" => snap'.template # NoTemplate  BY <1>8 DEF ReadCurrent
  <2> QED  BY <1>1, <2>1, <2>2, FetchedData, FetchesShape DEF PlanTypes, SecretTypes
<1>9. CASE Renders
  <2>1. current' = current /\ pc' = "status"  BY <1>9 DEF Renders
  <2>2. CASE plan' = [plan EXCEPT !.templated = TRUE, !.noted = TRUE]
    BY <1>1, <2>1, <2>2 DEF PlanTypes
  <2>3. CASE plan' = Rendering 
    <3> snap.template # NoTemplate  BY <1>1, <1>9 DEF Renders, PlanTypes
    <3>1. IsData(plan'.data)  BY <2>3, RenderingTypes
    <3>2. plan' \in [data : {plan'.data}, managed : {plan'.managed}, label : BOOLEAN, templated : BOOLEAN, noted : BOOLEAN]
      BY <2>3, RenderingTypes
    <3> QED  BY <1>1, <2>1, <3>1, <3>2 DEF PlanTypes
  <2> QED  BY <1>9, <2>2, <2>3 DEF Renders
<1>10. CASE ReportAndDecide
  <2>1. CASE pc' = "write" /\ UNCHANGED <<got, current, plan>>  BY <1>1, <2>1 DEF PlanTypes
  <2> QED  BY <1>2, <1>10, <2>1 DEF ReportAndDecide, End
<1>11. CASE Writes  BY <1>1, <1>11, WritesFrame DEF PlanTypes, round
<1> QED  BY <1>3, <1>4, <1>5, <1>6, <1>7, <1>8, <1>9, <1>10, <1>11, Kinds

LEMMA TypesKept == ASSUME Types, [Next]_vars PROVE Types'
<1>1. BackendTypes' /\ CopyTypes' /\ SecretTypes' /\ CountTypes' /\ GotTypes' /\ PlanTypes'
  BY BackendTypesKept, CopyTypesKept, SecretTypesKept, CountTypesKept, GotTypesKept, PlanTypesKept
<1> QED  BY <1>1, TypeGroups, PTL

\* Every variable keeps the shape the code's records have, for all specs.
THEOREM TypeCorrect == Spec => []TypeOK
<1>1. Init => Types  BY InitTypes
<1>2. Types /\ [Next]_vars => Types'  BY TypesKept
<1>3. Types => TypeOK  BY DEF Types
<1> QED  BY <1>1, <1>2, <1>3, PTL DEF Spec

-----------------------------------------------------------------------------
(* What a round holds                                                      *)

LEMMA GotMoves ==
    ASSUME Types, [Next]_vars
    PROVE  got' = <<>> \/ Fetch \/ UNCHANGED <<snap, got>>
<1>1. CASE Outside  BY <1>1, OutsideFrame
<1>2. CASE StartRound  BY <1>2, TypeGroups DEF StartRound, PlanTypes
<1>3. CASE AbandonStale  BY <1>3 DEF AbandonStale
<1>4. CASE GivesUp \/ ReportWrite \/ ReportWriteFailure \/ Restart
  BY <1>4 DEF GivesUp, ReportWrite, ReportWriteFailure, Restart, End
<1>5. CASE ReadCurrent  BY <1>5 DEF ReadCurrent
<1>6. CASE Renders  BY <1>6 DEF Renders
<1>7. CASE ReportAndDecide  BY <1>7 DEF ReportAndDecide, End
<1>8. CASE Writes  BY <1>8, WritesFrame DEF round
<1> QED  BY <1>1, <1>2, <1>3, <1>4, <1>5, <1>6, <1>7, <1>8, Kinds

LEMMA BackendAges ==
    ASSUME Types, [Next]_vars
    PROVE  \A k \in Keys : /\ backend[k].time \in Nat /\ backend'[k].time \in Nat
                           /\ backend[k].time <= backend'[k].time
<1>1. BackendTypes /\ BackendTypes'  BY TypeGroups, BackendTypesKept
<1>2. \A k \in Keys : backend[k].time \in Nat /\ backend'[k].time \in Nat
  BY <1>1, SyncBounds DEF BackendTypes, Documents
<1>3. CASE \E j \in Keys : SetDocument(j)
  <2>1. PICK j \in Keys : SetDocument(j)  BY <1>3
  <2>2. \A k \in Keys : backend[k].time <= time /\ time \in Nat  BY <1>1, SyncBounds DEF BackendTypes
  <2> QED  BY <1>1, <1>2, <2>1, <2>2 DEF SetDocument, BackendTypes, Documents
<1>4. CASE UNCHANGED backend  BY <1>2, <1>4
<1>5. (\E k \in Keys : SetDocument(k)) \/ UNCHANGED backend
  <2>1. CASE Outside
    BY <2>1 DEF Outside, EditSpec, DeleteSecret, DeliverSecret, DeliverES, env, vars
  <2>2. CASE Writes  BY <2>2, WritesFrame
  <2>3. CASE Restart  BY <2>3 DEF Restart, env
  <2> QED  BY <2>1, <2>2, <2>3, Kinds, RoundIsIdle
<1> QED  BY <1>2, <1>3, <1>4, <1>5

LEMMA FetchedFromEntriesKept ==
    ASSUME Types, [Next]_vars, FetchedFromEntries
    PROVE  FetchedFromEntries'
<1>1. \A k \in Keys : /\ backend[k].time \in Nat /\ backend'[k].time \in Nat
                      /\ backend[k].time <= backend'[k].time
  BY BackendAges
<1>2. ASSUME NEW i \in DOMAIN got, snap' = snap, i \in DOMAIN got', got'[i] = got[i]
      PROVE  FromEntry(i)' /\ (got'[i].result # "ok" => got'[i].map = Empty)
  <2>1. FromEntry(i) /\ (got[i].result # "ok" => got[i].map = Empty)  BY DEF FetchedFromEntries
  <2>2. Entries[i].key \in Keys  BY RoundEntries DEF IsEntry
  <2>3. \A t \in DOMAIN got[i].map : got[i].map[t][2] \in Nat
    BY SyncBounds DEF Types, TypeOK, IsData, Range, Value
  <2>4. Entries' = Entries  BY <1>2 DEF Entries
  <2>5. ASSUME got[i].result = "ok", NEW t \in DOMAIN got[i].map
        PROVE  got[i].map[t][1] = Entries[i].key /\ got[i].map[t][2] <= backend'[Entries[i].key].time
    BY <1>1, <2>1, <2>2, <2>3, <2>5 DEF FromEntry
  <2> QED  BY <1>2, <2>1, <2>4, <2>5 DEF FromEntry
<1>3. CASE got' = <<>>
  <2>1. DOMAIN got' = {}  BY <1>3
  <2> QED  BY <2>1 DEF FetchedFromEntries
<1>4. CASE UNCHANGED <<snap, got>>  BY <1>2, <1>4 DEF FetchedFromEntries
<1>5. CASE Fetch
  <2>0. PICK i \in Nat : i = Len(got) + 1  BY RoundEntries
  <2> DEFINE e == Entries[i]
  <2>1. /\ DOMAIN got' = 1..i /\ DOMAIN got = 1..(i - 1) /\ i \in DOMAIN Entries /\ Len(got) \in Nat
        /\ \A j \in DOMAIN got : got'[j] = got[j]
        /\ \/ got'[i] = [result |-> "ok", map |-> Produce(e, backend[e.key])]
           \/ got'[i] \in [result : {"error", "stale"}, map : {Empty}]
    BY <1>5, <2>0, OneFetch
  <2>2. snap' = snap /\ backend' = backend  BY <1>5, RoundIsIdle DEF Fetch
  <2>3. IsEntry(e) /\ backend[e.key] \in Documents
    BY <2>1, RoundEntries, TypeGroups DEF IsEntry, BackendTypes
  <2>4. FromEntry(i)' /\ (got'[i].result # "ok" => got'[i].map = Empty)
    <3>1. CASE got'[i] = [result |-> "ok", map |-> Produce(e, backend[e.key])]
      <4>1. e.key \in Keys /\ backend[e.key].time \in Nat  BY <1>1, <2>3 DEF IsEntry
      <4>2. e = Entries'[i]  BY <2>2 DEF Entries
      <4>3. LET out == got'[i].map
            IN  /\ \A t \in DOMAIN out : out[t] = <<e.key, backend[e.key].time>>
                /\ e.kind = "data" => /\ DOMAIN out \subseteq TargetKeys(e)
                                      /\ e.name \in DOMAIN out \/ Range(e.paths) \cap DOMAIN out # {}
        BY <2>3, <3>1, Produced
      <4> HIDE DEF e
      <4> QED  BY <2>2, <3>1, <4>1, <4>2, <4>3 DEF FromEntry
    <3>2. CASE got'[i] \in [result : {"error", "stale"}, map : {Empty}]
      BY <3>2 DEF FromEntry
    <3> QED  BY <2>1, <3>1, <3>2
  <2>5. ASSUME NEW j \in DOMAIN got' PROVE FromEntry(j)' /\ (got'[j].result # "ok" => got'[j].map = Empty)
    <3>1. j = i \/ j \in DOMAIN got  BY <2>1
    <3> QED  BY <1>2, <2>1, <2>2, <2>4, <3>1
  <2> QED  BY <2>5 DEF FetchedFromEntries
<1> QED  BY <1>3, <1>4, <1>5, GotMoves

LEMMA SecretAsReadKept ==
    ASSUME Types, [Next]_vars, SecretAsRead
    PROVE  SecretAsRead'
<1>1. CASE Outside
  <2>1. UNCHANGED <<pc, current>> /\ secret' \in {secret, NoSecret}
    BY <1>1, OutsideFrame DEF Outside, SetDocument, EditSpec, DeleteSecret, DeliverSecret, DeliverES, vars, env
  <2> QED  BY <2>1 DEF SecretAsRead
<1>2. CASE StartRound \/ Fetch \/ AbandonStale
  <2>1. pc' \notin {"render", "status", "write"}  BY <1>2 DEF StartRound, Fetch, AbandonStale
  <2> QED  BY <2>1 DEF SecretAsRead
<1>3. CASE GivesUp \/ ReportWrite \/ ReportWriteFailure \/ Restart
  <2>1. pc' = "idle"  BY <1>3 DEF GivesUp, ReportWrite, ReportWriteFailure, Restart, End
  <2> QED  BY <2>1 DEF SecretAsRead
<1>4. CASE ReadCurrent
  <2>1. current' = secret'  BY <1>4, RoundIsIdle DEF ReadCurrent, ReadSecret
  <2> QED  BY <2>1 DEF SecretAsRead
<1>5. CASE Renders
  <2>1. pc = "render" /\ UNCHANGED <<current, secret>>  BY <1>5, RoundIsIdle DEF Renders
  <2> QED  BY <2>1 DEF SecretAsRead
<1>6. CASE ReportAndDecide
  <2>1. pc' = "idle" \/ (pc = "status" /\ UNCHANGED <<current, secret>>)
    BY <1>6, RoundIsIdle DEF ReportAndDecide, End
  <2> QED  BY <2>1 DEF SecretAsRead
<1>7. CASE Writes
  <2>1. pc' \in {"wrote", "unwritten"}  BY <1>7, WritesFrame
  <2> QED  BY <2>1 DEF SecretAsRead
<1> QED  BY <1>1, <1>2, <1>3, <1>4, <1>5, <1>6, <1>7, Kinds

LEMMA FilledKept ==
    ASSUME Types, [Next]_vars, Filled
    PROVE  Filled'
<1>1. CASE Outside
  <2>1. secret' \in {secret, NoSecret}
    BY <1>1 DEF Outside, SetDocument, EditSpec, DeleteSecret, DeliverSecret, DeliverES, vars, env
  <2> QED  BY <2>1, EmptyTypes DEF Filled, NoSecret
<1>2. CASE UpdateSecret
  <2>1. secret' = secret \/ secret' = Overlay(seen)
    BY <1>2 DEF UpdateSecret, WroteSecret, WriteFailed, Idle, env
  <2>2. CleanUp => WriteData # Empty  BY <1>2 DEF UpdateSecret, ProviderDeletion
  <2> QED  BY <2>1, <2>2 DEF Filled, Overlay
<1>3. CASE CreateSecret
  <2>1. secret' = secret \/ secret' = Overlay(NoSecret)
    BY <1>3 DEF CreateSecret, WroteSecret, WriteFailed, Idle, env
  <2>2. CleanUp => WriteData # Empty  BY <1>3 DEF CreateSecret, ProviderDeletion
  <2> QED  BY <2>1, <2>2 DEF Filled, Overlay
<1>4. CASE DeleteOnFailure \/ WriteCallFails
  <2>1. secret' \in {secret, NoSecret}
    BY <1>4 DEF DeleteOnFailure, WriteCallFails, WroteSecret, WriteFailed, Idle, env
  <2> QED  BY <2>1, EmptyTypes DEF Filled, NoSecret
<1>5. CASE Restart  BY <1>5 DEF Restart, env, Filled
<1> QED  BY <1>1, <1>2, <1>3, <1>4, <1>5, Kinds, RoundIsIdle DEF Writes, Filled

LEMMA DeliveredTargets ==
    ASSUME Types, FetchedFromEntries, OwnsTargets
    PROVE  \A e \in AllEntries : e.kind = "data" => Delivered[e] \subseteq TargetKeys(e)
<1> SUFFICES ASSUME NEW e \in AllEntries, e.kind = "data", NEW t \in Delivered[e] PROVE t \in TargetKeys(e)
  OBVIOUS
<1>1. CASE plan.templated  BY <1>1 DEF Delivered
<1>2. CASE ~plan.templated
  <2>1. \/ \E i \in DOMAIN got : Entries[i] = e /\ got[i].result = "ok" /\ t \in DOMAIN got[i].map
        \/ t \in owns[e]
    BY <1>2 DEF Delivered
  <2>2. ASSUME NEW i \in DOMAIN got, Entries[i] = e, got[i].result = "ok"
        PROVE  DOMAIN got[i].map \subseteq TargetKeys(e)
    BY <2>2 DEF FetchedFromEntries, FromEntry
  <2> QED  BY <2>1, <2>2 DEF OwnsTargets
<1> QED  BY <1>1, <1>2

LEMMA OwnsTargetsKept ==
    ASSUME Types, [Next]_vars, FetchedFromEntries, OwnsTargets
    PROVE  OwnsTargets'
<1>1. CASE owns' = owns  BY <1>1 DEF OwnsTargets
<1>2. CASE owns' = Delivered  BY <1>2, DeliveredTargets DEF OwnsTargets
<1>3. CASE owns' = [e \in AllEntries |-> {}]  BY <1>3 DEF OwnsTargets
<1>4. owns' = owns \/ owns' = Delivered \/ owns' = [e \in AllEntries |-> {}]
  <2>1. CASE Outside
    BY <2>1 DEF Outside, SetDocument, EditSpec, DeleteSecret, DeliverSecret, DeliverES, vars
  <2>2. CASE StartRound \/ Fetch \/ AbandonStale \/ ReadCurrent  BY <2>2 DEF StartRound, Fetch, AbandonStale, ReadCurrent
  <2>3. CASE GivesUp \/ Renders \/ ReportWrite \/ ReportWriteFailure \/ Restart
    BY <2>3 DEF GivesUp, Renders, ReportWrite, ReportWriteFailure, Restart
  <2>4. CASE ReportAndDecide  BY <2>4 DEF ReportAndDecide
  <2>5. CASE Writes  BY <2>5, WritesFrame
  <2> QED  BY <2>1, <2>2, <2>3, <2>4, <2>5, Kinds
<1> QED  BY <1>1, <1>2, <1>3, <1>4

\* What a round decides depends on nothing that moves while it decides.
LEMMA DecisionStands ==
    ASSUME UNCHANGED <<snap, got, current, plan>>
    PROVE  SkipWrite' = SkipWrite /\ Unchanged' = Unchanged /\ WriteData' = WriteData /\ Deletes' = Deletes
<1>1. FailedKeys' = FailedKeys  BY DEF FailedKeys, ErrorKeys, Indices, Entries
<1>2. AllFailed' = AllFailed
  BY DEF AllFailed, FailedUncovered, FailedExtracts, ErrorKeys, SucceededKeys, Indices, Entries, Covered, Fetched
<1>3. Deletes' = Deletes  BY <1>2 DEF Deletes
<1>4. SkipWrite' = SkipWrite  BY <1>1, <1>2 DEF SkipWrite
<1>5. Retained' = Retained  BY DEF Retained, FailedTargets, ErrorKeys, Indices, Entries
<1>6. Merge' = Merge  BY <1>5 DEF Merge
<1>7. WriteData' = WriteData  BY <1>1, <1>3, <1>6 DEF WriteData
<1>8. MetadataApplied' = MetadataApplied  BY DEF MetadataApplied
<1>9. Unchanged' = Unchanged  BY <1>3, <1>7, <1>8 DEF Unchanged
<1> QED  BY <1>3, <1>4, <1>7, <1>9

LEMMA DecidedKept ==
    ASSUME Types, [Next]_vars, Decided
    PROVE  Decided'
<1>1. CASE pc' # "write"  BY <1>1 DEF Decided
<1>2. CASE Outside
  <2>1. UNCHANGED <<pc, snap, got, current, plan>>  BY <1>2, OutsideFrame
  <2> QED  BY <2>1, DecisionStands DEF Decided
<1>3. CASE ReportAndDecide /\ pc' = "write"
  <2>1. ~SkipWrite /\ ~Unchanged /\ UNCHANGED <<snap, got, current, plan>>
    BY <1>3 DEF ReportAndDecide, End
  <2> QED  BY <2>1, DecisionStands DEF Decided
<1>4. Outside \/ (ReportAndDecide /\ pc' = "write") \/ pc' # "write"
  <2>1. CASE StartRound \/ AbandonStale \/ ReadCurrent  BY <2>1 DEF StartRound, AbandonStale, ReadCurrent
  <2>2. CASE Fetch  BY <2>2 DEF Fetch
  <2>3. CASE GivesUp \/ Renders \/ ReportWrite \/ ReportWriteFailure \/ Restart
    BY <2>3 DEF GivesUp, Renders, ReportWrite, ReportWriteFailure, Restart, End
  <2>4. CASE Writes  BY <2>4, WritesFrame
  <2> QED  BY <2>1, <2>2, <2>3, <2>4, Kinds
<1> QED  BY <1>1, <1>2, <1>3, <1>4

RoundInv == Types /\ FetchedFromEntries /\ SecretAsRead /\ Filled /\ OwnsTargets /\ Decided

LEMMA RoundInvInit == ASSUME Init PROVE RoundInv
<1>1. Types  BY InitTypes
<1>2. DOMAIN got = {}  BY DEF Init
<1>3. pc = "idle" /\ \A e \in AllEntries : owns[e] = {}  BY DEF Init
<1>4. ~secret.there  BY DEF Init, NoSecret
<1> QED  BY <1>1, <1>2, <1>3, <1>4 DEF RoundInv, FetchedFromEntries, SecretAsRead, Filled, OwnsTargets, Decided

LEMMA RoundInvKept == ASSUME RoundInv, [Next]_vars PROVE RoundInv'
  BY TypesKept, FetchedFromEntriesKept, SecretAsReadKept, FilledKept, OwnsTargetsKept, DecidedKept DEF RoundInv

\* What a step does to the Secret while a round is about to write it.
LEMMA SecretMoves ==
    ASSUME [Next]_vars, pc = "write"
    PROVE  \/ secret' = secret
           \/ DeleteSecret /\ secret' = NoSecret /\ pc' = pc
           \/ DeleteOnFailure /\ secret' = NoSecret
           \/ Writes /\ ~ProviderDeletion /\ secret'.there /\ secret'.data = WriteData
<1>1. CASE Outside
  BY <1>1 DEF Outside, SetDocument, EditSpec, DeleteSecret, DeliverSecret, DeliverES, vars, env
<1>2. CASE DeleteOnFailure  BY <1>2 DEF DeleteOnFailure, WroteSecret, WriteFailed, Idle, env
<1>3. CASE UpdateSecret  BY <1>3 DEF UpdateSecret, WroteSecret, WriteFailed, Idle, env, Overlay, Writes
<1>4. CASE CreateSecret  BY <1>4 DEF CreateSecret, WroteSecret, WriteFailed, Idle, env, Overlay, Writes
<1>5. CASE WriteCallFails  BY <1>5 DEF WriteCallFails, WriteFailed, Idle, env
<1>6. CASE Restart  BY <1>6 DEF Restart, env
<1> QED  BY <1>1, <1>2, <1>3, <1>4, <1>5, <1>6, Kinds, RoundIsIdle DEF Writes

\* A round with a failure that does not delete merges what it fetched with
\* what the failed entries may have delivered.
LEMMA FailureMerges ==
    ASSUME Types, Decided, pc = "write", ~Deletes, FailedKeys # {}
    PROVE  plan.data # Empty /\ ~plan.templated /\ WriteData = Merge
<1>1. plan.data # Empty /\ ~plan.templated  BY DEF Decided, SkipWrite, Deletes
<1> QED  BY <1>1 DEF WriteData

LEMMA FailedOutcome ==
    ASSUME Types, NEW i \in DOMAIN got, got[i].result # "ok"
    PROVE  /\ Entries[i].kind \in {"data", "extract"} /\ i \in Indices(Entries[i].kind)
           /\ Entries[i].key \in ErrorKeys(Entries[i].kind) /\ FailedKeys # {}
<1>1. Entries[i].kind \in {"data", "extract"}  BY RoundEntries DEF IsEntry
<1>2. i \in Indices(Entries[i].kind)  BY DEF Indices
<1>3. Entries[i].key \in ErrorKeys(Entries[i].kind)  BY <1>2 DEF ErrorKeys
<1> QED  BY <1>1, <1>2, <1>3 DEF FailedKeys

LEMMA FailedEntryKept ==
    ASSUME RoundInv, pc = "write", ~ProviderDeletion,
           NEW i \in DOMAIN got, got[i].result = "error"
    PROVE  owns[Entries[i]] \cap DOMAIN secret.data \subseteq DOMAIN WriteData
<1> DEFINE e == Entries[i]
<1>1. Types /\ SecretAsRead /\ OwnsTargets /\ Decided  BY DEF RoundInv
<1>2. e.kind \in {"data", "extract"} /\ i \in Indices(e.kind) /\ e.key \in ErrorKeys(e.kind) /\ FailedKeys # {}
  BY <1>1, FailedOutcome
<1>3. ~Deletes  BY DEF Deletes, ProviderDeletion, WriteData
<1>4. WriteData = Merge  BY <1>1, <1>2, <1>3, FailureMerges
<1>5. Retained \subseteq DOMAIN Merge  BY DEF Merge, Over
<1>6. CASE secret = NoSecret  BY <1>6, EmptyTypes DEF NoSecret
<1>7. CASE secret = current
  <2>1. CASE ErrorKeys("extract") # {}  BY <1>4, <1>5, <1>7, <2>1 DEF Retained
  <2>2. CASE ErrorKeys("extract") = {}
    <3>1. e.kind = "data"  BY <1>2, <2>2
    <3>2. TargetKeys(e) \subseteq FailedTargets
      <4>1. i \in {j \in Indices("data") : Entries[j].key \in ErrorKeys("data")}  BY <1>2, <3>1
      <4> QED  BY <4>1 DEF FailedTargets
    <3>3. owns[e] \subseteq TargetKeys(e)  BY <1>1, <3>1, RoundEntries DEF OwnsTargets
    <3> QED  BY <1>4, <1>5, <1>7, <2>2, <3>2, <3>3 DEF Retained
  <2> QED  BY <2>1, <2>2
<1> QED  BY <1>1, <1>6, <1>7 DEF SecretAsRead

\* What a failed entry last delivered is still there after the round has
\* written the Secret (mergeWithFailedKeys), for all specs: with twins,
\* aliases, the raw fallback and extracts.
THEOREM FailedEntriesKeepTheirKeysHolds == Spec => FailedEntriesKeepTheirKeys
<1>1. Init => RoundInv  BY RoundInvInit
<1>2. RoundInv /\ [Next]_vars => RoundInv'  BY RoundInvKept
<1>3. RoundInv /\ [Next]_vars =>
        [pc = "write" /\ secret'.there =>
            \A i \in DOMAIN got : got[i].result = "error" =>
                owns[Entries[i]] \cap DOMAIN secret.data \subseteq DOMAIN secret'.data]_vars
  <2> SUFFICES ASSUME RoundInv, [Next]_vars, pc = "write", secret'.there,
                      NEW i \in DOMAIN got, got[i].result = "error"
               PROVE  owns[Entries[i]] \cap DOMAIN secret.data \subseteq DOMAIN secret'.data
    OBVIOUS
  <2>1. CASE secret' = secret  BY <2>1
  <2>2. CASE secret' = NoSecret  BY <2>2 DEF NoSecret
  <2>3. CASE ~ProviderDeletion /\ secret'.data = WriteData  BY <2>3, FailedEntryKept
  <2> QED  BY <2>1, <2>2, <2>3, SecretMoves
<1> QED  BY <1>1, <1>2, <1>3, PTL DEF Spec, FailedEntriesKeepTheirKeys

-----------------------------------------------------------------------------
(* The deletion contract                                                   *)

LEMMA PlanStands ==
    ASSUME UNCHANGED <<snap, got>>
    PROVE  /\ Fetched' = Fetched /\ Fetches' = Fetches /\ FailedKeys' = FailedKeys /\ Entries' = Entries
           /\ ZeroOutput' = ZeroOutput
<1>1. Fetched' = Fetched  BY DEF Fetched
<1>2. FailedKeys' = FailedKeys  BY DEF FailedKeys, ErrorKeys, Indices, Entries
<1>3. ZeroOutput' = ZeroOutput  BY <1>1, <1>2 DEF ZeroOutput
<1>4. Fetches' = Fetches  BY <1>1 DEF Fetches, NoPlan
<1>5. Entries' = Entries  BY DEF Entries
<1> QED  BY <1>1, <1>2, <1>3, <1>4, <1>5

\* The parts of Planned, so that each step shows those it can disturb.
Passed == pc \notin {"idle", "fetch"} => Len(got) = Len(Entries)
Allowed == pc \in {"render", "status", "write"} => ~Guarded(current.data)
Made ==
    /\ pc = "render" => plan = Fetches
    /\ pc \in {"status", "write"} =>
          \/ snap.template = NoTemplate /\ plan = Fetches
          \/ snap.template # NoTemplate /\ plan.templated /\ ~RenderedNothing(plan.data)

LEMMA PlannedParts == Planned <=> Passed /\ Allowed /\ Made
  BY DEF Planned, Passed, Allowed, Made

LEMMA PlannedStays ==
    ASSUME Planned, UNCHANGED <<snap, got, current, plan>>,
           pc' = pc \/ (pc = "status" /\ pc' = "write") \/ (pc' \in {"wrote", "unwritten"} /\ pc = "write")
    PROVE  Planned'
<1>1. /\ Fetched' = Fetched /\ Fetches' = Fetches /\ FailedKeys' = FailedKeys /\ Entries' = Entries
      /\ ZeroOutput' = ZeroOutput
  BY PlanStands
<1>2. Passed /\ Allowed /\ Made  BY PlannedParts
<1>3. Passed'  BY <1>1, <1>2 DEF Passed
<1>4. Allowed'  BY <1>1, <1>2 DEF Allowed, Guarded, NoSourceButData
<1>5. Made'  BY <1>1, <1>2 DEF Made, RenderedNothing
<1> QED  BY <1>3, <1>4, <1>5, PlannedParts, PTL

LEMMA PlannedKept ==
    ASSUME Types, [Next]_vars, Planned
    PROVE  Planned'
<1>1. Passed /\ Allowed /\ Made  BY PlannedParts
<1>2. CASE pc' \in {"idle", "fetch"}  BY <1>2 DEF Planned
<1>3. CASE Outside  BY <1>3, OutsideFrame, PlannedStays
<1>4. CASE StartRound \/ Fetch \/ AbandonStale \/ GivesUp \/ ReportWrite \/ ReportWriteFailure \/ Restart
  BY <1>2, <1>4 DEF StartRound, Fetch, AbandonStale, GivesUp, ReportWrite, ReportWriteFailure, Restart, End
<1>5. CASE ReadCurrent
  <2>1. /\ UNCHANGED <<snap, got>> /\ Len(got) = Len(Entries) /\ current' = secret /\ plan' = Fetches
        /\ ~Guarded(secret.data)
        /\ pc' = IF snap.template = NoTemplate THEN "status" ELSE "render"
    BY <1>5 DEF ReadCurrent, FetchesDone, ReadSecret, Fetches
  <2>2. Fetches' = Fetches /\ Entries' = Entries /\ ZeroOutput' = ZeroOutput  BY <2>1, PlanStands
  <2>3. Passed'  BY <2>1, <2>2 DEF Passed
  <2>4. Allowed'  BY <2>1, <2>2 DEF Allowed, Guarded, NoSourceButData
  <2>5. Made'  BY <2>1, <2>2 DEF Made
  <2> QED  BY <2>3, <2>4, <2>5, PlannedParts, PTL
<1>6. CASE Renders
  <2>1. UNCHANGED <<snap, got, current>> /\ pc = "render" /\ pc' = "status"  BY <1>6 DEF Renders
  <2>2. Fetched' = Fetched /\ Entries' = Entries /\ ZeroOutput' = ZeroOutput /\ FailedKeys' = FailedKeys
    BY <2>1, PlanStands
  <2>3. snap.template # NoTemplate  BY <2>1, TypeGroups DEF PlanTypes
  <2>4. plan'.templated /\ ~RenderedNothing(plan'.data)
    <3>1. CASE plan' = Rendering /\ ~RenderedNothing(Rendering.data)  BY <2>3, <3>1, RenderingTypes
    <3>2. CASE plan' = [plan EXCEPT !.templated = TRUE, !.noted = TRUE] /\ FailedKeys # {}
      BY <3>2, TypeGroups DEF PlanTypes, RenderedNothing
    <3> QED  BY <1>6, <3>1, <3>2 DEF Renders
  <2>5. Passed'  BY <1>1, <2>1, <2>2 DEF Passed
  <2>6. Allowed'  BY <1>1, <2>1, <2>2 DEF Allowed, Guarded, NoSourceButData
  <2>7. Made'  BY <2>1, <2>2, <2>3, <2>4 DEF Made, RenderedNothing
  <2> QED  BY <2>5, <2>6, <2>7, PlannedParts, PTL
<1>7. CASE ReportAndDecide
  <2>1. pc' = "idle" \/ (pc = "status" /\ pc' = "write" /\ UNCHANGED <<snap, got, current, plan>>)
    BY <1>7 DEF ReportAndDecide, End
  <2> QED  BY <1>2, <2>1, PlannedStays
<1>8. CASE Writes  BY <1>8, WritesFrame, PlannedStays DEF round
<1> QED  BY <1>3, <1>4, <1>5, <1>6, <1>7, <1>8, Kinds

LEMMA FetchedEmpty == DOMAIN Fetched = {} => Fetched = Empty
<1>1. Fetched = [t \in DOMAIN Fetched |-> Fetched[t]]  BY DEF Fetched
<1> QED  BY <1>1 DEF Empty

\* A round that writes an empty dataset is one in which everything failed,
\* and cleanup is on, or it found no data: all other ways to an empty dataset
\* end before the write.
LEMMA EmptyWriteDeletes ==
    ASSUME RoundInv, Planned, pc = "write", WriteData = Empty
    PROVE  Deletes \/ current.data = Empty
<1> SUFFICES ASSUME ~Deletes, current.data # Empty PROVE FALSE  OBVIOUS
<1>1. Types /\ Decided  BY DEF RoundInv
<1>2. CASE FailedKeys # {}
  <2>1. plan.data # Empty /\ ~plan.templated /\ WriteData = Merge  BY <1>1, <1>2, FailureMerges
  <2>2. plan.data = Fetched  BY <2>1, FetchesShape DEF Planned
  <2>3. DOMAIN Merge = {}  BY <2>1 DEF Empty
  <2>4. DOMAIN Fetched = {}  BY <2>2, <2>3 DEF Merge, Over
  <2> QED  BY <2>1, <2>2, <2>4, FetchedEmpty
<1>3. CASE FailedKeys = {}
  <2>1. plan.data = Empty  BY <1>3 DEF WriteData
  <2>2. ~ZeroOutput /\ ~NoSourceButData(current.data)  BY DEF Planned, Guarded
  <2>3. CASE snap.template = NoTemplate /\ plan = Fetches
    <3>1. plan.data = Fetched /\ plan.managed = {} /\ plan.label = FALSE  BY <2>3, FetchesShape
    <3>2. got = <<>>  BY <1>3, <2>1, <2>2, <3>1 DEF ZeroOutput
    <3>3. current.data = Empty  BY <2>2, <2>3, <3>2 DEF NoSourceButData
    <3>4. Unchanged  BY <3>1, <3>3 DEF Unchanged, MetadataApplied
    <3> QED  BY <1>1, <3>4 DEF Decided
  <2>4. CASE snap.template # NoTemplate /\ ~RenderedNothing(plan.data)
    BY <1>3, <2>1, <2>4 DEF RenderedNothing
  <2> QED  BY <2>3, <2>4 DEF Planned
<1> QED  BY <1>2, <1>3

\* What counts as total failure: a call failed for every key, and an entry that
\* came through whole would cover itself.
LEMMA TotalFailure ==
    ASSUME Types, AllFailed
    PROVE  got # <<>> /\ \A i \in DOMAIN got : ~CameWhole(i) /\ CallFailed(Entries[i].key)
<1>1. got # <<>>  BY DEF AllFailed
<1> SUFFICES ASSUME NEW i \in DOMAIN got PROVE ~CameWhole(i) /\ CallFailed(Entries[i].key)  BY <1>1
<1> DEFINE e == Entries[i]
<1>2. i \in FailedUncovered \cup FailedExtracts  BY DEF AllFailed
<1>3. CallFailed(e.key)
  <2>1. e.key \in ErrorKeys("data") \cup ErrorKeys("extract")  BY <1>2 DEF FailedUncovered, FailedExtracts
  <2> QED  BY <2>1 DEF ErrorKeys, Indices, CallFailed
<1>4. ~CameWhole(i)
  <2> SUFFICES ASSUME CameWhole(i) PROVE FALSE  OBVIOUS
  <2>1. got[i].result = "ok"  BY DEF CameWhole
  <2>2. e.key \in SucceededKeys(e.kind)  BY <2>1 DEF SucceededKeys, Indices
  <2>3. CASE i \in FailedExtracts
    <3>1. e.kind = "extract" /\ e.key \notin SucceededKeys("extract")  BY <2>3 DEF FailedExtracts, Indices
    <3> QED  BY <2>2, <3>1
  <2>4. CASE i \in FailedUncovered
    <3>1. e.kind = "data" /\ ~Covered(e)  BY <2>4 DEF FailedUncovered, Indices
    <3>2. DOMAIN got[i].map \subseteq DOMAIN Fetched  BY FetchedOutcome DEF Types, Shapes
    <3>3. e.name \in DOMAIN Fetched \/ (e.paths # Empty /\ Range(e.paths) \subseteq DOMAIN Fetched)
      BY <3>1, <3>2 DEF CameWhole
    <3> QED  BY <2>2, <3>1, <3>3 DEF Covered
  <2> QED  BY <1>2, <2>3, <2>4
<1> QED  BY <1>3, <1>4

\* Data leaves the cluster only when cleanup is on, a call failed for the key of
\* every entry of the round and none came through whole (handleProviderDeletion,
\* resolveWriteData), for any specs.
THEOREM WholeEntryProtectsHolds == Spec => WholeEntryProtects
<1> DEFINE Lost == CleanUp /\ got # <<>> /\ \A i \in DOMAIN got : ~CameWhole(i) /\ CallFailed(Entries[i].key)
<1>1. Init => RoundInv /\ Planned  BY RoundInvInit DEF Init, Planned
<1>2. RoundInv /\ Planned /\ [Next]_vars => RoundInv' /\ Planned'
  BY RoundInvKept, PlannedKept DEF RoundInv
<1>3. RoundInv /\ Planned /\ [Next]_vars =>
        [pc = "write" /\ pc' = "wrote" /\ Destroyed(secret, secret') => Lost]_vars
  <2> SUFFICES ASSUME RoundInv, Planned, [Next]_vars, pc = "write", pc' = "wrote", Destroyed(secret, secret')
               PROVE  Lost
    OBVIOUS
  <2>0. current.data = Empty => secret.data = Empty
    BY EmptyTypes DEF RoundInv, SecretAsRead, NoSecret
  <2>1. ASSUME Deletes PROVE Lost
    BY <2>1, TotalFailure DEF Deletes, RoundInv
  <2> HIDE DEF Lost
  <2>2. CASE secret' = secret  BY <2>2 DEF Destroyed
  <2>3. CASE DeleteOnFailure
    <3>1. WriteData = Empty /\ CleanUp  BY <2>3 DEF DeleteOnFailure, ProviderDeletion
    <3>2. ASSUME current.data = Empty PROVE FALSE
      <4>1. secret.data = Empty  BY <2>0, <3>2
      <4> QED  BY <3>1, <4>1 DEF RoundInv, Filled, Destroyed
    <3> QED  BY <2>1, <3>1, <3>2, EmptyWriteDeletes
  <2>4. CASE secret'.there /\ secret'.data = WriteData
    <3>1. WriteData = Empty /\ secret.data # Empty  BY <2>4 DEF Destroyed
    <3> QED  BY <2>0, <2>1, <3>1, EmptyWriteDeletes
  <2> QED  BY <2>2, <2>3, <2>4, SecretMoves
<1> QED  BY <1>1, <1>2, <1>3, PTL DEF Spec, WholeEntryProtects

-----------------------------------------------------------------------------
(* Values only move forward                                                *)

LEMMA SecretChanges ==
    ASSUME [Next]_vars
    PROVE  \/ UNCHANGED secret
           \/ secret' = NoSecret
           \/ pc = "write" /\ pc' \in {"wrote", "unwritten"} /\ secret'.there /\ secret'.data = WriteData
<1>1. CASE pc = "write"  BY <1>1, SecretMoves, WritesFrame
<1>2. CASE pc # "write"
  <2>1. CASE Outside
    BY <2>1 DEF Outside, SetDocument, EditSpec, DeleteSecret, DeliverSecret, DeliverES, vars, env
  <2>2. CASE Restart  BY <2>2 DEF Restart, env
  <2> QED  BY <1>2, <2>1, <2>2, Kinds, RoundIsIdle, WritesFrame
<1> QED  BY <1>1, <1>2

LEMMA StaysAged ==
    ASSUME Types, [Next]_vars, NEW f, IsData(f),
           \A t \in DOMAIN f : f[t][1] # "template" => f[t][2] <= backend[f[t][1]].time
    PROVE  \A t \in DOMAIN f : f[t][1] # "template" => f[t][2] <= backend'[f[t][1]].time
<1> SUFFICES ASSUME NEW t \in DOMAIN f, f[t][1] # "template" PROVE f[t][2] <= backend'[f[t][1]].time  OBVIOUS
<1>1. f[t] \in Value  BY DEF IsData, Range
<1>2. f[t][1] \in Keys /\ f[t][2] \in Nat  BY <1>1, SyncBounds DEF Value
<1> QED  BY <1>2, BackendAges

LEMMA FetchedAged ==
    ASSUME Types, FetchedFromEntries, NEW i \in DOMAIN got, NEW t \in DOMAIN got[i].map
    PROVE  /\ got[i].map[t][1] = Entries[i].key /\ Entries[i].key \in Keys
           /\ got[i].map[t][2] <= backend[Entries[i].key].time
<1>1. got[i].result = "ok"  BY EmptyTypes DEF FetchedFromEntries
<1>2. Entries[i].key \in Keys  BY RoundEntries DEF IsEntry
<1> QED  BY <1>1, <1>2 DEF FetchedFromEntries, FromEntry

LEMMA WriteAged ==
    ASSUME Types, FetchedFromEntries, Aged(current.data), PlanFetched
    PROVE  Aged(WriteData)
<1>1. Aged(plan.data)
  <2> SUFFICES ASSUME NEW t \in DOMAIN plan.data, plan.data[t][1] # "template"
               PROVE  plan.data[t][2] <= backend[plan.data[t][1]].time
    BY DEF Aged
  <2>1. PICK i \in DOMAIN got : plan.data[t] \in Range(got[i].map)  BY DEF PlanFetched
  <2>2. PICK u \in DOMAIN got[i].map : plan.data[t] = got[i].map[u]  BY <2>1 DEF Range
  <2> QED  BY <2>2, FetchedAged
<1>2. Aged(Empty)  BY EmptyTypes DEF Aged
<1>3. \A t \in DOMAIN Merge : \/ t \in DOMAIN plan.data /\ Merge[t] = plan.data[t]
                              \/ t \in DOMAIN current.data /\ Merge[t] = current.data[t]
  BY DEF Merge, Over, Retained
<1>4. Aged(Merge)  BY <1>1, <1>3 DEF Aged
<1> QED  BY <1>1, <1>2, <1>4 DEF WriteData

LEMMA AgedKept ==
    ASSUME Types, [Next]_vars, FetchedFromEntries, Values
    PROVE  Aged(secret.data)' /\ Aged(current.data)'
<1>1. Aged(secret.data) /\ Aged(current.data) /\ PlanFetched  BY DEF Values
<1>2. IsData(secret.data) /\ IsData(current.data)  BY DEF Types, TypeOK, IsSecret
<1>3. IsData(WriteData) /\ Aged(WriteData)  BY <1>1, WriteDataTypes, WriteAged
<1>4. ASSUME NEW f, IsData(f), \A t \in DOMAIN f : f[t][1] # "template" => f[t][2] <= backend[f[t][1]].time
      PROVE  \A t \in DOMAIN f : f[t][1] # "template" => f[t][2] <= backend'[f[t][1]].time
  BY <1>4, StaysAged
<1>5. DOMAIN NoSecret.data = {}  BY EmptyTypes DEF NoSecret
<1>6. secret'.data \in {secret.data, WriteData, NoSecret.data}  BY SecretChanges
<1>7. Aged(secret.data)'
  <2>1. CASE secret'.data = secret.data  BY <1>1, <1>2, <1>4, <2>1 DEF Aged
  <2>2. CASE secret'.data = WriteData  BY <1>3, <1>4, <2>2 DEF Aged
  <2>3. CASE secret'.data = NoSecret.data  BY <1>5, <2>3 DEF Aged
  <2> QED  BY <1>6, <2>1, <2>2, <2>3
<1>8. current' \in {current, NoSecret, secret}
  <2>1. CASE StartRound \/ Fetch \/ AbandonStale \/ ReadCurrent \/ Renders
    BY <2>1 DEF StartRound, Fetch, AbandonStale, ReadCurrent, ReadSecret, Renders
  <2>2. CASE GivesUp \/ ReportWrite \/ ReportWriteFailure \/ Restart \/ ReportAndDecide
    BY <2>2 DEF GivesUp, ReportWrite, ReportWriteFailure, Restart, ReportAndDecide, End
  <2> QED  BY <2>1, <2>2, Kinds, OutsideFrame, WritesFrame DEF round
<1>9. Aged(current.data)'
  <2>1. CASE current' = current  BY <1>1, <1>2, <1>4, <2>1 DEF Aged
  <2>2. CASE current' = secret  BY <1>1, <1>2, <1>4, <2>2 DEF Aged
  <2>3. CASE current' = NoSecret  BY <1>5, <2>3 DEF Aged
  <2> QED  BY <1>8, <2>1, <2>2, <2>3
<1> QED  BY <1>7, <1>9

LEMMA PlanFetchedKept ==
    ASSUME Types, [Next]_vars, PlanFetched
    PROVE  PlanFetched'
<1>1. CASE UNCHANGED <<got, plan>>  BY <1>1 DEF PlanFetched
<1>2. CASE plan' = NoPlan
  <2>1. DOMAIN plan'.data = {}  BY <1>2, EmptyTypes, FetchesShape
  <2> QED  BY <2>1 DEF PlanFetched
<1>3. CASE got' = got /\ \A t \in DOMAIN plan'.data :
              plan'.data[t][1] = "template" \/ (t \in DOMAIN Fetched /\ plan'.data[t] = Fetched[t])
  <2> SUFFICES ASSUME NEW t \in DOMAIN plan'.data, plan'.data[t][1] # "template"
               PROVE  \E i \in DOMAIN got : plan'.data[t] \in Range(got[i].map)
    BY <1>3 DEF PlanFetched
  <2>1. t \in DOMAIN Fetched /\ plan'.data[t] = Fetched[t]  BY <1>3
  <2>2. PICK i \in DOMAIN got : t \in DOMAIN got[i].map /\ Fetched[t] = got[i].map[t]
    BY <2>1, FetchedOutcome DEF Types, Shapes
  <2> QED  BY <2>1, <2>2 DEF Range
<1>4. CASE Outside  BY <1>1, <1>4, OutsideFrame
<1>5. CASE StartRound \/ Fetch \/ AbandonStale
  <2>1. plan' = plan /\ plan = NoPlan
    BY <1>5, TypeGroups DEF StartRound, Fetch, AbandonStale, FetchesDone, PlanTypes
  <2> QED  BY <1>2, <2>1
<1>6. CASE GivesUp \/ ReportWrite \/ ReportWriteFailure \/ Restart
  BY <1>2, <1>6 DEF GivesUp, ReportWrite, ReportWriteFailure, Restart, End
<1>7. CASE ReadCurrent
  <2>1. got' = got /\ plan' = Fetches  BY <1>7 DEF ReadCurrent, Fetches
  <2> QED  BY <1>3, <2>1, FetchesShape
<1>8. CASE Renders
  <2>1. got' = got /\ snap.template # NoTemplate  BY <1>8, TypeGroups DEF Renders, PlanTypes
  <2>2. CASE plan' = Rendering  BY <1>3, <2>1, <2>2, RenderingTypes
  <2>3. CASE plan' = [plan EXCEPT !.templated = TRUE, !.noted = TRUE]
    <3>1. plan'.data = plan.data  BY <2>3, TypeGroups DEF PlanTypes
    <3> QED  BY <2>1, <3>1 DEF PlanFetched
  <2> QED  BY <1>8, <2>2, <2>3 DEF Renders
<1>9. CASE ReportAndDecide  BY <1>1, <1>2, <1>9 DEF ReportAndDecide, End
<1>10. CASE Writes  BY <1>1, <1>10, WritesFrame DEF round
<1> QED  BY <1>4, <1>5, <1>6, <1>7, <1>8, <1>9, <1>10, Kinds

LEMMA FetchedNotOlderKept ==
    ASSUME Types, [Next]_vars, FetchedFromEntries, Values
    PROVE  FetchedNotOlder'
<1>1. FetchedNotOlder /\ Aged(secret.data) /\ IsData(secret.data)  BY DEF Values, Types, TypeOK, IsSecret
<1>2. CASE got' = <<>>
  <2>1. DOMAIN got' = {}  BY <1>2
  <2> QED  BY <2>1 DEF FetchedNotOlder
<1>3. CASE pc' \notin {"fetch", "render", "status", "write"}  BY <1>3 DEF FetchedNotOlder
<1>4. ASSUME pc \in {"fetch", "render", "status", "write"}, secret'.data \in {secret.data, NoSecret.data},
             NEW i \in DOMAIN got, NEW t \in DOMAIN got[i].map
      PROVE  \A u \in DOMAIN secret'.data : secret'.data[u][1] = got[i].map[t][1] /\ got[i].map[t][1] # "template"
                 => secret'.data[u][2] <= got[i].map[t][2]
  <2>1. NotOlder(got[i].map[t])  BY <1>1, <1>4 DEF FetchedNotOlder
  <2>2. CASE secret'.data = secret.data  BY <2>1, <2>2 DEF NotOlder
  <2>3. CASE secret'.data = NoSecret.data  BY <2>3, EmptyTypes DEF NoSecret
  <2> QED  BY <1>4, <2>2, <2>3
<1>5. CASE UNCHANGED got /\ pc \in {"fetch", "render", "status", "write"} /\ secret'.data \in {secret.data, NoSecret.data}
  BY <1>4, <1>5 DEF FetchedNotOlder, NotOlder
<1>6. CASE Fetch
  <2>0. PICK i \in Nat : i = Len(got) + 1  BY RoundEntries
  <2> DEFINE e == Entries[i]
  <2>1. /\ DOMAIN got' = 1..i /\ DOMAIN got = 1..(i - 1) /\ i \in DOMAIN Entries /\ Len(got) \in Nat
        /\ \A j \in DOMAIN got : got'[j] = got[j]
        /\ \/ got'[i] = [result |-> "ok", map |-> Produce(e, backend[e.key])]
           \/ got'[i] \in [result : {"error", "stale"}, map : {Empty}]
    BY <1>6, <2>0, OneFetch
  <2>2. secret' = secret /\ pc = "fetch"  BY <1>6, RoundIsIdle DEF Fetch
  <2>3. IsEntry(e) /\ e.key \in Keys /\ backend[e.key] \in Documents
    BY <2>1, RoundEntries, TypeGroups DEF IsEntry, BackendTypes
  <2>4. ASSUME NEW t \in DOMAIN got'[i].map, NEW u \in DOMAIN secret.data,
               secret.data[u][1] = got'[i].map[t][1], got'[i].map[t][1] # "template"
        PROVE  secret.data[u][2] <= got'[i].map[t][2]
    <3>1. got'[i].map = Produce(e, backend[e.key])  BY <2>1, <2>4, EmptyTypes
    <3>2. got'[i].map[t] = <<e.key, backend[e.key].time>>  BY <2>3, <2>4, <3>1, Produced
    <3> QED  BY <1>1, <2>4, <3>2 DEF Aged
  <2>5. ASSUME NEW j \in DOMAIN got', NEW t \in DOMAIN got'[j].map, NEW u \in DOMAIN secret.data,
               secret.data[u][1] = got'[j].map[t][1], got'[j].map[t][1] # "template"
        PROVE  secret.data[u][2] <= got'[j].map[t][2]
    <3>1. j = i \/ j \in DOMAIN got  BY <2>1
    <3>2. CASE j \in DOMAIN got  BY <1>1, <2>1, <2>2, <2>5, <3>2 DEF FetchedNotOlder, NotOlder
    <3> QED  BY <2>4, <2>5, <3>1, <3>2
  <2> QED  BY <2>2, <2>5 DEF FetchedNotOlder, NotOlder
<1>7. CASE ~Fetch
  <2>1. got' = <<>> \/ UNCHANGED got  BY <1>7, GotMoves
  <2>2. \/ got' = <<>> \/ pc' \notin {"fetch", "render", "status", "write"}
        \/ pc \in {"fetch", "render", "status", "write"} /\ pc' \notin {"wrote", "unwritten"}
    <3>1. CASE StartRound \/ AbandonStale  BY <3>1, TypeGroups DEF StartRound, AbandonStale, PlanTypes
    <3>2. CASE ReadCurrent \/ Renders \/ ReportAndDecide
      BY <3>2 DEF ReadCurrent, FetchesDone, Renders, ReportAndDecide, End
    <3>3. CASE GivesUp \/ ReportWrite \/ ReportWriteFailure \/ Restart
      BY <3>3 DEF GivesUp, ReportWrite, ReportWriteFailure, Restart, End
    <3> QED  BY <1>7, <3>1, <3>2, <3>3, Kinds, OutsideFrame, WritesFrame
  <2>3. secret'.data \in {secret.data, NoSecret.data} \/ pc' \in {"wrote", "unwritten"}  BY SecretChanges
  <2> QED  BY <1>2, <1>3, <1>5, <2>1, <2>2, <2>3
<1> QED  BY <1>6, <1>7

LEMMA ValuesKept ==
    ASSUME Types, [Next]_vars, FetchedFromEntries, Values
    PROVE  Values'
  BY AgedKept, FetchedNotOlderKept, PlanFetchedKept DEF Values

\* No key of the Secret goes back to an older document of the backend key it
\* comes from: what a round fetches is not older than what is there, and what
\* it retains is what it read past the cache (getCurrentData).
THEOREM NoValueRegressesHolds == Spec => NoValueRegresses
<1>1. Init => RoundInv /\ Values
  <2> SUFFICES ASSUME Init PROVE Values  BY RoundInvInit
  <2>1. DOMAIN got = {} /\ DOMAIN secret.data = {} /\ DOMAIN current.data = {} /\ DOMAIN plan.data = {}
    BY EmptyTypes, FetchesShape DEF Init, NoSecret
  <2> QED  BY <2>1 DEF Values, Aged, FetchedNotOlder, PlanFetched
<1>2. RoundInv /\ Values /\ [Next]_vars => RoundInv' /\ Values'
  BY RoundInvKept, ValuesKept DEF RoundInv
<1>3. RoundInv /\ Values /\ [Next]_vars =>
        [pc = "write" /\ secret'.there =>
            \A t \in DOMAIN secret.data \cap DOMAIN secret'.data :
                LET old == secret.data[t]  new == secret'.data[t]
                IN  old[1] = new[1] /\ old[1] # "template" => old[2] <= new[2]]_vars
  <2> SUFFICES ASSUME RoundInv, Values, [Next]_vars, pc = "write", secret'.there,
                      NEW t \in DOMAIN secret.data, t \in DOMAIN secret'.data,
                      secret.data[t][1] = secret'.data[t][1], secret.data[t][1] # "template"
               PROVE  secret.data[t][2] <= secret'.data[t][2]
    OBVIOUS
  <2>1. Types /\ FetchedNotOlder /\ PlanFetched  BY DEF RoundInv, Values
  <2>2. secret.data[t][2] \in Nat
    <3>1. secret.data[t] \in Value  BY <2>1 DEF Types, TypeOK, IsSecret, IsData, Range
    <3> QED  BY <3>1, SyncBounds DEF Value
  <2>3. CASE secret' = secret  BY <2>2, <2>3
  <2>4. CASE secret' = NoSecret  BY <2>4 DEF NoSecret
  <2>5. CASE secret'.data = WriteData
    <3>1. \/ t \in DOMAIN plan.data /\ WriteData[t] = plan.data[t]
          \/ t \in DOMAIN current.data /\ WriteData[t] = current.data[t]
      <4>1. \A u \in DOMAIN Merge : \/ u \in DOMAIN plan.data /\ Merge[u] = plan.data[u]
                                    \/ u \in DOMAIN current.data /\ Merge[u] = current.data[u]
        BY DEF Merge, Over, Retained
      <4>2. WriteData \in {Empty, Merge, plan.data}  BY DEF WriteData
      <4> QED  BY <2>5, <4>1, <4>2, EmptyTypes
    <3>2. CASE t \in DOMAIN plan.data /\ WriteData[t] = plan.data[t]
      <4>1. PICK i \in DOMAIN got : plan.data[t] \in Range(got[i].map)  BY <2>1, <2>5, <3>2 DEF PlanFetched
      <4>2. PICK u \in DOMAIN got[i].map : plan.data[t] = got[i].map[u]  BY <4>1 DEF Range
      <4>3. NotOlder(got[i].map[u])  BY <2>1 DEF FetchedNotOlder
      <4> QED  BY <2>5, <3>2, <4>2, <4>3 DEF NotOlder
    <3>3. CASE t \in DOMAIN current.data /\ WriteData[t] = current.data[t]
      <4>1. secret = current \/ secret = NoSecret  BY DEF RoundInv, SecretAsRead
      <4>2. secret = current  BY <4>1, EmptyTypes DEF NoSecret
      <4> QED  BY <2>2, <2>5, <3>3, <4>2
    <3> QED  BY <3>1, <3>2, <3>3
  <2> QED  BY <2>3, <2>4, <2>5, SecretChanges
<1> QED  BY <1>1, <1>2, <1>3, PTL DEF Spec, NoValueRegresses

-----------------------------------------------------------------------------
(* The status tells the truth                                              *)

LEMMA StatusKeys ==
    ASSUME Types, KeysAreNoPlaceholders
    PROVE  /\ DataSyncResults \cap Keys = ReportedKeys
           /\ Succeeded \in DataSyncResults => ReportedKeys = {}
           /\ \A p \in Placeholders : WithPlaceholder(p) \cap Keys = mine \cap Keys /\ Succeeded \notin WithPlaceholder(p)
<1>1. ReportedKeys \subseteq Keys  BY ReportedAreKeys
<1>2. Succeeded \notin Placeholders  BY DEF Succeeded, Placeholders
<1> HIDE DEF Succeeded, Placeholders
<1>3. DataSyncResults \cap Keys = ReportedKeys  BY <1>1 DEF DataSyncResults, KeysAreNoPlaceholders
<1>4. Succeeded \in DataSyncResults => ReportedKeys = {}
  BY <1>1, <1>2 DEF DataSyncResults, KeysAreNoPlaceholders
<1> QED  BY <1>2, <1>3, <1>4 DEF WithPlaceholder, KeysAreNoPlaceholders

LEMMA ReportsStand == UNCHANGED <<snap, got>> => ReportedKeys' = ReportedKeys
  BY DEF ReportedKeys, FailedUncovered, Indices, Entries, ErrorKeys, SucceededKeys, Covered, Fetched

LEMMA CopyNewestKept ==
    ASSUME Types, [Next]_vars, CopyNewest
    PROVE  CopyNewest'
<1>1. CASE UNCHANGED <<spec, status, esSeen, esCurrent>>  BY <1>1 DEF CopyNewest
<1>2. CASE Outside
  <2>1. CASE \E s \in Specs : EditSpec(s)  BY <2>1 DEF EditSpec, CopyNewest
  <2>2. CASE DeliverES  BY <2>2 DEF DeliverES, CopyNewest, env
  <2>3. CASE (\E k \in Keys : SetDocument(k)) \/ DeleteSecret \/ DeliverSecret \/ UNCHANGED vars
    BY <1>1, <2>3 DEF SetDocument, DeleteSecret, DeliverSecret, env, esVars, vars
  <2> QED  BY <1>2, <2>1, <2>2, <2>3 DEF Outside
<1>3. CASE StartRound \/ Fetch \/ AbandonStale \/ ReadCurrent
  BY <1>1, <1>3, RoundIsIdle DEF StartRound, Fetch, AbandonStale, ReadCurrent, esVars
<1>4. CASE Reports
  <2>1. UNCHANGED esSeen /\ (esCurrent' => esCurrent /\ status' = status)
    BY <1>4, ReportsStatus, StatusWritten
  <2>2. spec' = spec  BY <1>4, RoundIsIdle DEF Reports
  <2> QED  BY <2>1, <2>2 DEF CopyNewest
<1>5. CASE Writes  BY <1>1, <1>5, WritesFrame DEF esVars
<1>6. CASE Restart  BY <1>6 DEF Restart, CopyNewest, env
<1> QED  BY <1>2, <1>3, <1>4, <1>5, <1>6, Kinds DEF Reports

LEMMA CopyToldKept ==
    ASSUME Types, [Next]_vars, ~LaggingStart, CopyNewest, CopyTold
    PROVE  CopyTold'
<1>1. CASE UNCHANGED <<told, mine, status>>  BY <1>1 DEF CopyTold
<1>2. CASE Outside
  <2>1. status' = status
    BY <1>2 DEF Outside, SetDocument, EditSpec, DeleteSecret, DeliverSecret, DeliverES, env, esVars, vars
  <2> QED  BY <1>1, <1>2, <2>1, OutsideFrame
<1>3. CASE StartRound
  <2>1. mine' = status /\ status' = status  BY <1>3 DEF StartRound, CopyNewest, esVars
  <2> QED  BY <2>1 DEF CopyTold
<1>4. CASE Fetch \/ ReadCurrent  BY <1>1, <1>4 DEF Fetch, ReadCurrent, esVars
<1>5. CASE AbandonStale \/ Restart
  <2>1. told' = FALSE  BY <1>5 DEF AbandonStale, Restart
  <2> QED  BY <2>1 DEF CopyTold
<1>6. CASE Reports
  <2>1. PICK new \in SUBSET AllKeys, force \in BOOLEAN, spent \in {0, 1} : PutStatus(new, force, spent)
    BY <1>6, ReportsStatus
  <2>2. mine' = new /\ (told' => status' = new)  BY <2>1, StatusWritten
  <2> QED  BY <2>2 DEF CopyTold
<1>7. CASE Writes  BY <1>1, <1>7, WritesFrame DEF esVars, round
<1> QED  BY <1>2, <1>3, <1>4, <1>5, <1>6, <1>7, Kinds DEF Reports

LEMMA FailuresReportedKept ==
    ASSUME Types, [Next]_vars, KeysAreNoPlaceholders, FailuresReported
    PROVE  FailuresReported'
<1>1. CASE pc' \notin {"write", "wrote", "unwritten"}  BY <1>1 DEF FailuresReported
<1>2. CASE UNCHANGED <<snap, got, mine>> /\ pc \in {"write", "wrote", "unwritten"}
  BY <1>2, ReportsStand DEF FailuresReported
<1>3. CASE Outside  BY <1>1, <1>2, <1>3, OutsideFrame
<1>4. CASE ReportAndDecide
  <2>1. CASE pc' = "write" /\ UNCHANGED <<snap, got>>
    <3>1. mine' = DataSyncResults  BY <1>4 DEF ReportAndDecide, PutStatus
    <3> QED  BY <2>1, <3>1, StatusKeys, ReportsStand DEF FailuresReported
  <2> QED  BY <1>1, <1>4, <2>1 DEF ReportAndDecide, End
<1>5. CASE Writes  BY <1>2, <1>5, WritesFrame DEF round
<1>6. CASE StartRound \/ AbandonStale \/ ReadCurrent \/ Renders
  BY <1>1, <1>6 DEF StartRound, AbandonStale, ReadCurrent, Renders
<1>7. CASE Fetch  BY <1>1, <1>7 DEF Fetch
<1>8. CASE GivesUp \/ ReportWrite \/ ReportWriteFailure \/ Restart
  BY <1>1, <1>8 DEF GivesUp, ReportWrite, ReportWriteFailure, Restart, End
<1> QED  BY <1>3, <1>4, <1>5, <1>6, <1>7, <1>8, Kinds

StatusInv == CopyNewest /\ CopyTold /\ FailuresReported /\ StatusMatchesRound

LEMMA StatusMatchesRoundKept ==
    ASSUME Types, [Next]_vars, KeysAreNoPlaceholders, StatusInv
    PROVE  StatusMatchesRound'
<1>1. CopyTold /\ FailuresReported /\ StatusMatchesRound  BY DEF StatusInv
<1>2. CASE pc' # "idle" \/ ~told'  BY <1>2 DEF StatusMatchesRound
<1>3. CASE Outside
  <2>1. status' = status
    BY <1>3 DEF Outside, SetDocument, EditSpec, DeleteSecret, DeliverSecret, DeliverES, env, esVars, vars
  <2> QED  BY <1>1, <1>3, <2>1, OutsideFrame DEF StatusMatchesRound
<1>4. CASE StartRound \/ AbandonStale \/ ReadCurrent \/ Renders \/ Restart
  BY <1>2, <1>4 DEF StartRound, AbandonStale, ReadCurrent, Renders, Restart
<1>5. CASE Fetch  BY <1>2, <1>5 DEF Fetch
<1>6. CASE Writes  BY <1>2, <1>6, WritesFrame
<1>7. CASE GivesUp
  <2>1. verdict'.full = FALSE  BY <1>7 DEF GivesUp, End
  <2> QED  BY <2>1 DEF StatusMatchesRound
<1>8. ASSUME ReportAndDecide \/ ReportWrite, pc' = "idle", told'
      PROVE  status' \cap Keys = verdict'.failed
  <2>1. \E synced \in BOOLEAN : End(TRUE, synced)
    <3>1. CASE ReportWrite  BY <3>1 DEF ReportWrite
    <3>2. CASE ReportAndDecide /\ SkipWrite  BY <3>2 DEF ReportAndDecide
    <3>3. CASE ReportAndDecide /\ ~SkipWrite /\ Unchanged  BY <3>3 DEF ReportAndDecide
    <3>4. CASE ReportAndDecide /\ ~SkipWrite /\ ~Unchanged
      <4>1. pc' = "write"  BY <3>4 DEF ReportAndDecide
      <4> QED  BY <1>8, <4>1
    <3> QED  BY <1>8, <3>1, <3>2, <3>3, <3>4
  <2>2. verdict'.failed = ReportedKeys  BY <2>1 DEF End
  <2>3. \E force \in BOOLEAN : PutStatus(DataSyncResults, force, 0)
    BY <1>8 DEF ReportAndDecide, ReportWrite
  <2>4. status' = DataSyncResults  BY <1>1, <1>8, <2>3, StatusWritten
  <2> QED  BY <2>2, <2>4, StatusKeys
<1>9. ASSUME ReportWriteFailure, told'
      PROVE  status' \cap Keys = verdict'.failed
  <2>1. verdict'.failed = ReportedKeys /\ pc = "unwritten"  BY <1>9 DEF ReportWriteFailure, End
  <2>2. "update_operation" \in Placeholders  BY DEF Placeholders
  <2>3. status' = WithPlaceholder("update_operation")
    BY <1>1, <1>9, StatusWritten DEF ReportWriteFailure
  <2> QED  BY <1>1, <2>1, <2>2, <2>3, StatusKeys DEF FailuresReported
<1> QED  BY <1>2, <1>3, <1>4, <1>5, <1>6, <1>7, <1>8, <1>9, Kinds DEF StatusMatchesRound

LEMMA StatusInvKept ==
    ASSUME Types, [Next]_vars, ~LaggingStart, KeysAreNoPlaceholders, StatusInv
    PROVE  StatusInv'
  BY CopyNewestKept, CopyToldKept, FailuresReportedKept, StatusMatchesRoundKept DEF StatusInv

LEMMA StatusInvInit == ASSUME Init PROVE StatusInv
  BY DEF Init, StatusInv, CopyNewest, CopyTold, FailuresReported, StatusMatchesRound

\* After a round that went through, the status names exactly the backend keys
\* that failed in it and no twin stood in for: if rounds start from the newest
\* copy of the object and no backend key has the name of a placeholder.
THEOREM StatusMatchesRoundHolds ==
    ASSUME ~LaggingStart, KeysAreNoPlaceholders
    PROVE  Spec => []StatusMatchesRound
<1>1. Init => Types /\ StatusInv  BY InitTypes, StatusInvInit
<1>2. Types /\ StatusInv /\ [Next]_vars => Types' /\ StatusInv'  BY TypesKept, StatusInvKept
<1>3. StatusInv => StatusMatchesRound  BY DEF StatusInv
<1> QED  BY <1>1, <1>2, <1>3, PTL DEF Spec

\* A round that skips its write reports some key, unless twins hide the
\* failure: a template's write is skipped for them, and an extract's twin may
\* have delivered nothing.
LEMMA SkipReported ==
    ASSUME Types, Planned, NoHidingTwins, pc = "status", SkipWrite
    PROVE  ReportedKeys # {}
<1> SUFFICES ASSUME ReportedKeys = {} PROVE FALSE  OBVIOUS
<1>1. FailedUncovered = {} /\ ErrorKeys("extract") \subseteq SucceededKeys("extract")  BY DEF ReportedKeys
<1>2. ASSUME NEW i \in DOMAIN got, got[i].result # "ok", Entries[i].key \in SucceededKeys(Entries[i].kind)
      PROVE  snap.template = NoTemplate /\ Entries[i].kind = "data"
  <2>1. PICK j \in DOMAIN got : /\ Entries[j].kind = Entries[i].kind /\ Entries[j].key = Entries[i].key
                                /\ got[j].result = "ok"
    BY <1>2 DEF SucceededKeys, Indices
  <2>2. Twin(snap, i, j)  BY <1>2, <2>1 DEF Twin, Entries
  <2>3. snap \in Specs /\ i \in DOMAIN snap.entries /\ j \in DOMAIN snap.entries  BY RoundEntries DEF Entries
  <2> QED  BY <2>2, <2>3 DEF NoHidingTwins, Entries
<1>3. ErrorKeys("extract") = {}
  <2> SUFFICES ASSUME ErrorKeys("extract") # {} PROVE FALSE  OBVIOUS
  <2>1. PICK i \in DOMAIN got : Entries[i].kind = "extract" /\ got[i].result # "ok"
                                /\ Entries[i].key \in ErrorKeys("extract")
    BY DEF ErrorKeys, Indices
  <2> QED  BY <1>1, <1>2, <2>1
<1>4. PICK i \in DOMAIN got : Entries[i].kind = "data" /\ got[i].result # "ok" /\ Entries[i].key \in ErrorKeys("data")
  <2>1. ErrorKeys("data") # {}  BY <1>3 DEF SkipWrite, FailedKeys
  <2> QED  BY <2>1 DEF ErrorKeys, Indices
<1>5. Covered(Entries[i])  BY <1>1, <1>4 DEF FailedUncovered, Indices
<1>6. snap.template = NoTemplate  BY <1>2, <1>4, <1>5 DEF Covered
<1>7. plan.data = Fetched /\ plan.templated = FALSE  BY <1>6, FetchesShape DEF Planned
<1>8. Fetched = Empty  BY <1>7 DEF SkipWrite
<1>9. Range(Entries[i].paths) # {} \/ Entries[i].paths = Empty
  <2>1. Entries[i].paths \in [DOMAIN Entries[i].paths -> STRING]  BY RoundEntries DEF IsEntry
  <2>2. ASSUME DOMAIN Entries[i].paths = {} PROVE Entries[i].paths = Empty  BY <2>1, <2>2 DEF Empty
  <2> QED  BY <2>2 DEF Range
<1> QED  BY <1>5, <1>8, <1>9, EmptyTypes DEF Covered

LEMMA NoFalseSuccessKept ==
    ASSUME Types, [Next]_vars, KeysAreNoPlaceholders, NoHidingTwins, StatusInv, Planned, NoFalseSuccess
    PROVE  NoFalseSuccess'
<1>1. CopyTold  BY DEF StatusInv
<1>2. CASE pc' # "idle" \/ ~told'  BY <1>2 DEF NoFalseSuccess
<1>3. CASE Outside
  <2>1. status' = status
    BY <1>3 DEF Outside, SetDocument, EditSpec, DeleteSecret, DeliverSecret, DeliverES, env, esVars, vars
  <2> QED  BY <1>3, <2>1, OutsideFrame DEF NoFalseSuccess
<1>4. CASE StartRound \/ AbandonStale \/ ReadCurrent \/ Renders \/ Restart
  BY <1>2, <1>4 DEF StartRound, AbandonStale, ReadCurrent, Renders, Restart
<1>5. CASE Fetch  BY <1>2, <1>5 DEF Fetch
<1>6. CASE Writes  BY <1>2, <1>6, WritesFrame
<1>7. ASSUME GivesUp \/ ReportWriteFailure, told' PROVE Succeeded \notin status'
  <2>1. "update_operation" \in Placeholders  BY DEF Placeholders
  <2>2. PICK p \in Placeholders, spent \in {0, 1} : PutStatus(WithPlaceholder(p), FALSE, spent)
    BY <1>7, <2>1 DEF GivesUp, ReportWriteFailure
  <2>3. status' = WithPlaceholder(p)  BY <1>1, <1>7, <2>2, StatusWritten
  <2> QED  BY <2>3, StatusKeys
<1>8. ASSUME ReportAndDecide \/ ReportWrite, pc' = "idle", told', Succeeded \in status'
      PROVE  verdict'.failed = {} /\ verdict'.synced
  <2>1. \E force \in BOOLEAN : PutStatus(DataSyncResults, force, 0)
    BY <1>8 DEF ReportAndDecide, ReportWrite
  <2>2. status' = DataSyncResults  BY <1>1, <1>8, <2>1, StatusWritten
  <2>3. ReportedKeys = {}  BY <1>8, <2>2, StatusKeys
  <2>4. CASE End(TRUE, TRUE)  BY <2>3, <2>4 DEF End
  <2>5. CASE ReportAndDecide /\ SkipWrite
    <3>1. pc = "status"  BY <2>5 DEF ReportAndDecide
    <3> QED  BY <2>3, <2>5, <3>1, SkipReported
  <2>6. CASE ReportWrite  BY <2>4, <2>6 DEF ReportWrite
  <2>7. CASE ReportAndDecide /\ ~SkipWrite /\ Unchanged  BY <2>4, <2>7 DEF ReportAndDecide
  <2>8. CASE ReportAndDecide /\ ~SkipWrite /\ ~Unchanged
    <3>1. pc' = "write"  BY <2>8 DEF ReportAndDecide
    <3> QED  BY <1>8, <3>1
  <2> QED  BY <1>8, <2>5, <2>6, <2>7, <2>8
<1> QED  BY <1>2, <1>3, <1>4, <1>5, <1>6, <1>7, <1>8, Kinds DEF NoFalseSuccess

\* Between rounds, Succeeded in the status means that the last round reported
\* no failure and that its data is in the Secret: for specs without twins that
\* hide a failure from the status and yet keep the Secret from being written.
THEOREM NoFalseSuccessHolds ==
    ASSUME ~LaggingStart, KeysAreNoPlaceholders, NoHidingTwins
    PROVE  Spec => []NoFalseSuccess
<1>1. Init => Types /\ StatusInv /\ Planned /\ NoFalseSuccess
  BY InitTypes, StatusInvInit DEF Init, Planned, NoFalseSuccess
<1>2. Types /\ StatusInv /\ Planned /\ NoFalseSuccess /\ [Next]_vars
        => Types' /\ StatusInv' /\ Planned' /\ NoFalseSuccess'
  BY TypesKept, StatusInvKept, PlannedKept, NoFalseSuccessKept
<1> QED  BY <1>1, <1>2, PTL DEF Spec
==============================================================================
