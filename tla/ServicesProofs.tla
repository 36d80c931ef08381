---------------------------- MODULE ServicesProofs ------------------------------
(***************************************************************************)
(* What holds of the services beside the order's path, for any number of   *)
(* threads, subjects, preferences and records: the study material, the     *)
(* market report, the alerts, the state of the ecosystem, the records of   *)
(* operations and the rate limit.                                          *)
(***************************************************************************)
EXTENDS LearningLibrary, MarketReport, Alerts, EcosystemState, OperationRecords, RateLimit,
        FiniteSetTheorems, TLAPS

(* LearningLibrary: what is admitted was checked, and an observation rests
   on the url its resource was screened for.                               *)

LibrarySpec == LibraryInit /\ [][LibraryNext]_libraryVars

(* A source object no handler could have spoiled. The property asks it of
   the dictionary alone and is not inductive: what a handler looked up some
   time ago is written back as well.                                       *)
Sound(source) ==
    /\ DOMAIN source = {"uri", "status", "checked", "admitted"}
    /\ source.status \in {"ABSENT", "QUARANTINED", "BLOCKED", "VALIDATED"}
    /\ source.status \in {"QUARANTINED", "VALIDATED"} => source.uri = "https"
    /\ source.status = "VALIDATED" => source.checked
    /\ source.admitted => source.status = "VALIDATED"

VisitFields == {"pc", "id", "uri", "kind", "source"}

SourcesSound == \A s \in Subjects : Sound(sources[s])

VisitsSound == \A t \in LibraryThreads :
    /\ DOMAIN visit[t] = VisitFields /\ DOMAIN visit[t].id = {"subject", "padded"}
    /\ Sound(visit[t].source)
    /\ visit[t].pc = "judge" => visit[t].source.status # "ABSENT"

LibraryInv ==
    /\ sources = [s \in Subjects |-> sources[s]]
    /\ visit = [t \in LibraryThreads |-> visit[t]]
    /\ SourcesSound /\ VisitsSound

LEMMA NoSourceIsSound == Sound(NoSource)
  BY DEF Sound, NoSource

(* LearningSourceGate: what it makes of a sound source is sound.           *)
LEMMA GateKeepsSound ==
    ASSUME NEW source, Sound(source), NEW ok \in BOOLEAN, source.status # "ABSENT"
    PROVE  Sound(ValidatedContent(source, ok)) /\ Sound(AdmittedKnowledge(source, ok))
  BY DEF Sound, ValidatedContent, AdmittedKnowledge

LEMMA IntakeIsSound == ASSUME NEW uri PROVE Sound(Intake(uri))
  BY DEF Sound, Intake, NoSource

(* A thread that goes on with a sound visit keeps the visits sound.        *)
LEMMA VisitsKeep ==
    ASSUME LibraryInv, NEW t \in LibraryThreads, NEW v, Visits(t, v),
           DOMAIN v = VisitFields, DOMAIN v.id = {"subject", "padded"}, Sound(v.source),
           v.pc = "judge" => v.source.status # "ABSENT"
    PROVE  VisitsSound' /\ visit' = [u \in LibraryThreads |-> visit'[u]]
  BY DEF LibraryInv, VisitsSound, Visits

LEMMA NoVisitIsSound ==
    /\ DOMAIN NoVisit = VisitFields /\ DOMAIN NoVisit.id = {"subject", "padded"}
    /\ NoVisit.source = NoSource /\ NoVisit.pc = "idle"
  BY DEF NoVisit, VisitFields

LEMMA DoneKeeps ==
    ASSUME LibraryInv, NEW t \in LibraryThreads, Done(t)
    PROVE  VisitsSound' /\ visit' = [u \in LibraryThreads |-> visit'[u]]
  BY VisitsKeep, NoVisitIsSound, NoSourceIsSound DEF Done

(* A source that is replaced by a sound one keeps the dictionary sound.    *)
LEMMA SourcesKeep ==
    ASSUME LibraryInv, NEW s, NEW source, Sound(source),
           sources' = [sources EXCEPT ![s] = source]
    PROVE  SourcesSound' /\ sources' = [u \in Subjects |-> sources'[u]]
  BY DEF LibraryInv, SourcesSound

LEMMA UnchangedSources ==
    ASSUME LibraryInv, UNCHANGED sources
    PROVE  SourcesSound' /\ sources' = [u \in Subjects |-> sources'[u]]
  BY DEF LibraryInv, SourcesSound

-----------------------------------------------------------------------------

LEMMA StepKeeps ==
    ASSUME LibraryInv, LibraryNext
    PROVE  LibraryInv'
  <1>1. ASSUME NEW t \in LibraryThreads, BeginScreening(t) PROVE LibraryInv'
    <2>1. ASSUME NEW id \in ResourceIds, NEW uri,
                 Visits(t, [NoVisit EXCEPT !.pc = "screen", !.id = id, !.uri = uri])
          PROVE  LibraryInv'
      <3> DEFINE v == [NoVisit EXCEPT !.pc = "screen", !.id = id, !.uri = uri]
      <3>1. /\ DOMAIN v = VisitFields /\ DOMAIN v.id = {"subject", "padded"}
            /\ v.source = NoSource /\ v.pc # "judge"
        BY NoVisitIsSound DEF ResourceIds, VisitFields
      <3>2. Visits(t, v)
        BY <2>1
      <3> HIDE DEF v
      <3> QED
        BY <1>1, <3>1, <3>2, VisitsKeep, UnchangedSources, NoSourceIsSound
        DEF BeginScreening, LibraryInv
    <2>2. ASSUME NEW id \in ResourceIds, NEW uri,
                 Visits(t, [NoVisit EXCEPT !.pc = IF uri = "none" THEN "register" ELSE "screen",
                                           !.id = id, !.uri = uri, !.kind = "resource"])
          PROVE  LibraryInv'
      <3> DEFINE v == [NoVisit EXCEPT !.pc = IF uri = "none" THEN "register" ELSE "screen",
                                           !.id = id, !.uri = uri, !.kind = "resource"]
      <3>1. /\ DOMAIN v = VisitFields /\ DOMAIN v.id = {"subject", "padded"}
            /\ v.source = NoSource /\ v.pc # "judge"
        BY NoVisitIsSound DEF ResourceIds, VisitFields
      <3>2. Visits(t, v)
        BY <2>2
      <3> HIDE DEF v
      <3> QED
        BY <1>1, <3>1, <3>2, VisitsKeep, UnchangedSources, NoSourceIsSound
        DEF BeginScreening, LibraryInv
    <2> QED
      BY <1>1, <2>1, <2>2 DEF BeginScreening
  <1>2. ASSUME NEW t \in LibraryThreads, Screen(t) PROVE LibraryInv'
    <2>1. CASE Visits(t, [visit[t] EXCEPT !.pc = "insert"])
      <3> DEFINE v == [visit[t] EXCEPT !.pc = "insert"]
      <3>1. /\ DOMAIN v = VisitFields /\ DOMAIN v.id = {"subject", "padded"}
            /\ Sound(v.source) /\ v.pc # "judge"
        BY DEF LibraryInv, VisitsSound, VisitFields
      <3> QED
        BY <1>2, <2>1, <3>1, VisitsKeep, UnchangedSources DEF Screen, LibraryInv
    <2>2. CASE Done(t)
      BY <1>2, <2>2, DoneKeeps, UnchangedSources DEF Screen, LibraryInv
    <2> QED
      BY <1>2, <2>1, <2>2 DEF Screen
  <1>3. ASSUME NEW t \in LibraryThreads, InsertSource(t) PROVE LibraryInv'
    <2>1. SourcesSound' /\ sources' = [u \in Subjects |-> sources'[u]]
      BY <1>3, IntakeIsSound, SourcesKeep DEF InsertSource
    <2>2. CASE Visits(t, [visit[t] EXCEPT !.pc = "register"])
      <3> DEFINE v == [visit[t] EXCEPT !.pc = "register"]
      <3>1. /\ DOMAIN v = VisitFields /\ DOMAIN v.id = {"subject", "padded"}
            /\ Sound(v.source) /\ v.pc # "judge"
        BY DEF LibraryInv, VisitsSound, VisitFields
      <3> QED
        BY <2>1, <2>2, <3>1, VisitsKeep DEF LibraryInv
    <2>3. CASE Done(t)
      BY <2>1, <2>3, DoneKeeps DEF LibraryInv
    <2> QED
      BY <1>3, <2>2, <2>3 DEF InsertSource
  <1>4. ASSUME NEW t \in LibraryThreads, RegisterResource(t) PROVE LibraryInv'
    BY <1>4, DoneKeeps, UnchangedSources DEF RegisterResource, LibraryInv
  <1>5. ASSUME NEW t \in LibraryThreads, LookUpSource(t) PROVE LibraryInv'
    <2>1. PICK s \in Subjects, kind \in {"validate", "admit"} :
             /\ sources[s].status # "ABSENT"
             /\ Visits(t, [NoVisit EXCEPT !.pc = "judge", !.kind = kind, !.id.subject = s,
                                          !.source = sources[s]])
      BY <1>5 DEF LookUpSource
    <2> DEFINE v == [NoVisit EXCEPT !.pc = "judge", !.kind = kind, !.id.subject = s,
                                    !.source = sources[s]]
    <2>2. /\ DOMAIN v = VisitFields /\ DOMAIN v.id = {"subject", "padded"}
          /\ v.source = sources[s]
      BY NoVisitIsSound DEF VisitFields
    <2>3. Sound(v.source) /\ v.source.status # "ABSENT"
      BY <2>1, <2>2 DEF LibraryInv, SourcesSound
    <2> QED
      BY <1>5, <2>1, <2>2, <2>3, VisitsKeep, UnchangedSources DEF LookUpSource, LibraryInv
  <1>6. ASSUME NEW t \in LibraryThreads, JudgeSource(t) PROVE LibraryInv'
    <2>1. PICK ok \in BOOLEAN :
             sources' = [sources EXCEPT ![visit[t].id.subject] =
                IF visit[t].kind = "validate" THEN ValidatedContent(visit[t].source, ok)
                ELSE AdmittedKnowledge(visit[t].source, ok)]
      BY <1>6 DEF JudgeSource
    <2>2. Sound(ValidatedContent(visit[t].source, ok)) /\ Sound(AdmittedKnowledge(visit[t].source, ok))
      BY <1>6, GateKeepsSound DEF JudgeSource, LibraryInv, VisitsSound
    <2>3. SourcesSound' /\ sources' = [u \in Subjects |-> sources'[u]]
      BY <2>1, <2>2, SourcesKeep
    <2> QED
      BY <1>6, <2>3, DoneKeeps DEF JudgeSource, LibraryInv
  <1>7. CASE Observe
    BY <1>7, UnchangedSources DEF Observe, LibraryInv, VisitsSound
  <1> QED
    BY <1>1, <1>2, <1>3, <1>4, <1>5, <1>6, <1>7 DEF LibraryNext

(* Knowledge is admitted of checked https sources alone, whatever the
   threads that validate and admit them hold: see AdmittedWasChecked.      *)
THEOREM AdmissionsWereChecked == LibrarySpec => []AdmittedWasChecked
  <1>1. LibraryInit => LibraryInv
    BY NoSourceIsSound, NoVisitIsSound
    DEF LibraryInit, LibraryInv, SourcesSound, VisitsSound
  <1>2. LibraryInv /\ [LibraryNext]_libraryVars => LibraryInv'
    <2>1. LibraryInv /\ UNCHANGED libraryVars => LibraryInv'
      BY DEF libraryVars, LibraryInv, SourcesSound, VisitsSound
    <2> QED
      BY <2>1, StepKeeps
  <1>3. LibraryInv => AdmittedWasChecked
    BY DEF LibraryInv, SourcesSound, Sound, AdmittedWasChecked
  <1> QED
    BY <1>1, <1>2, <1>3, PTL DEF LibrarySpec

-----------------------------------------------------------------------------
(* What an observation rests on, as long as screenings keep apart.         *)

(* The source was screened for this url.                                   *)
Screened(source, uri) == source.status # "ABSENT" /\ source.uri = uri

VisitFits(v, known, quiet) ==
    /\ v.pc # "idle" => v.id \in ResourceIds
    /\ v.pc = "judge" => known[v.id.subject].status # "ABSENT"
    /\ quiet /\ v.pc = "insert" => known[v.id.subject].status = "ABSENT"
    /\ quiet /\ v.pc = "judge" => known[v.id.subject].uri = v.source.uri
    /\ quiet /\ v.pc = "register" /\ v.uri # "none" => Screened(known[v.id.subject], v.uri)

ResourcesFit(stock, known, quiet) ==
    \A r \in stock : /\ r.id \in ResourceIds
                     /\ quiet /\ r.uri # "none" => Screened(known[r.id.subject], r.uri)

InsertsApart ==
    \A t, u \in LibraryThreads :
       t # u /\ visit[t].pc = "insert" /\ visit[u].pc = "insert" =>
          visit[t].id.subject # visit[u].id.subject

(* The property looks at an observation when it is made and later; that the
   resource has the url its source was screened for comes from every visit
   between the screening, the dictionary of sources and the resource.      *)
ScreenInv ==
    /\ LibraryInv
    /\ \A t \in LibraryThreads : VisitFits(visit[t], sources, apart)
    /\ ResourcesFit(resources, sources, apart)
    /\ apart => InsertsApart
    /\ ObservedWasAdmitted

LEMMA VisitIs ==
    ASSUME ScreenInv, NEW t \in LibraryThreads
    PROVE  /\ VisitFits(visit[t], sources, apart) /\ ResourcesFit(resources, sources, apart)
           /\ DOMAIN visit[t] = VisitFields /\ DOMAIN visit[t].id = {"subject", "padded"}
           /\ visit = [u \in LibraryThreads |-> visit[u]]
           /\ sources = [s \in Subjects |-> sources[s]]
           /\ Sound(visit[t].source)
  BY DEF ScreenInv, LibraryInv, VisitsSound

(* A step of one thread.                                                   *)
LEMMA VisitStep ==
    ASSUME ScreenInv, LibraryInv', NEW t \in LibraryThreads, NEW v, Visits(t, v),
           VisitFits(v, sources', apart'), apart' => apart,
           apart' /\ v.pc = "insert" =>
              \A u \in LibraryThreads \ {t} :
                 visit[u].pc = "insert" => visit[u].id.subject # v.id.subject,
           \A u \in LibraryThreads \ {t} : VisitFits(visit[u], sources', apart'),
           ResourcesFit(resources', sources', apart'), UNCHANGED observations
    PROVE  ScreenInv'
  <1>1. visit'[t] = v /\ \A u \in LibraryThreads \ {t} : visit'[u] = visit[u]
    BY VisitIs DEF Visits
  <1>2. \A u \in LibraryThreads : VisitFits(visit'[u], sources', apart')
    BY <1>1
  <1>3. apart' => InsertsApart'
    BY <1>1 DEF ScreenInv, InsertsApart
  <1>4. ObservedWasAdmitted'
    BY DEF ScreenInv, ObservedWasAdmitted, Passed
  <1> QED
    BY <1>2, <1>3, <1>4 DEF ScreenInv, VisitFits, ResourcesFit, Screened

(* A step of one thread that leaves the sources alone.                     *)
LEMMA PlainVisit ==
    ASSUME ScreenInv, LibraryInv', NEW t \in LibraryThreads, NEW v, Visits(t, v),
           VisitFits(v, sources, apart), v.pc # "insert",
           UNCHANGED <<sources, resources, observations, apart>>
    PROVE  ScreenInv'
  <1>1. ResourcesFit(resources', sources', apart')
    BY VisitIs
  <1>2. \A u \in LibraryThreads \ {t} : VisitFits(visit[u], sources', apart')
    BY VisitIs
  <1> QED
    BY <1>1, <1>2, VisitStep

(* What becomes of the others when one source is replaced.                 *)
LEMMA SourceStep ==
    ASSUME ScreenInv, NEW s \in Subjects, NEW new, sources' = [sources EXCEPT ![s] = new],
           new.status # "ABSENT", UNCHANGED apart,
           apart => sources[s].status = "ABSENT" \/ new.uri = sources[s].uri
    PROVE  /\ ResourcesFit(resources, sources', apart')
           /\ \A u \in LibraryThreads :
                 \/ VisitFits(visit[u], sources', apart')
                 \/ visit[u].pc = "insert" /\ visit[u].id.subject = s
  <1>1. \A q \in Subjects : sources'[q] = IF q = s THEN new ELSE sources[q]
    BY DEF ScreenInv, LibraryInv
  <1>2. \A id \in ResourceIds : id.subject \in Subjects
    BY DEF ResourceIds
  <1>3. ResourcesFit(resources, sources', apart')
    BY <1>1, <1>2 DEF ScreenInv, ResourcesFit, Screened
  <1>4. ASSUME NEW u \in LibraryThreads, ~(visit[u].pc = "insert" /\ visit[u].id.subject = s)
        PROVE  VisitFits(visit[u], sources', apart')
    BY <1>1, <1>2, <1>4, VisitIs DEF VisitFits, Screened
  <1> QED
    BY <1>3, <1>4

(* The gate gives a source no other url.                                   *)
LEMMA GateKeepsUri ==
    ASSUME NEW source, Sound(source), NEW ok \in BOOLEAN, source.status # "ABSENT",
           NEW new \in {ValidatedContent(source, ok), AdmittedKnowledge(source, ok)}
    PROVE  new.uri = source.uri /\ new.status # "ABSENT"
  BY DEF Sound, ValidatedContent, AdmittedKnowledge

LEMMA NoVisitFits == \A known, quiet : VisitFits(NoVisit, known, quiet)
  BY NoVisitIsSound DEF VisitFits

LEMMA BeginFits ==
    ASSUME ScreenInv, LibraryInv', NEW t \in LibraryThreads, BeginScreening(t) \/ LookUpSource(t)
    PROVE  ScreenInv'
  <1>1. UNCHANGED <<sources, resources, observations, apart>>
    BY DEF BeginScreening, LookUpSource
  <1>2. ASSUME NEW id \in ResourceIds, NEW uri,
               Visits(t, [NoVisit EXCEPT !.pc = "screen", !.id = id, !.uri = uri])
        PROVE  ScreenInv'
    <2>1. PICK v : v = [NoVisit EXCEPT !.pc = "screen", !.id = id, !.uri = uri] /\ Visits(t, v)
      BY <1>2
    <2>2. v.pc = "screen" /\ v.id = id
      BY <2>1, NoVisitIsSound DEF VisitFields
    <2>3. VisitFits(v, sources, apart)
      BY <2>2 DEF VisitFits
    <2> QED
      BY <1>1, <2>1, <2>2, <2>3, PlainVisit
  <1>3. ASSUME NEW id \in ResourceIds, NEW uri,
               Visits(t, [NoVisit EXCEPT !.pc = IF uri = "none" THEN "register" ELSE "screen",
                                         !.id = id, !.uri = uri, !.kind = "resource"])
        PROVE  ScreenInv'
    <2>1. PICK v : v = [NoVisit EXCEPT !.pc = IF uri = "none" THEN "register" ELSE "screen",
                                       !.id = id, !.uri = uri, !.kind = "resource"] /\ Visits(t, v)
      BY <1>3
    <2>2. v.pc = (IF uri = "none" THEN "register" ELSE "screen") /\ v.id = id /\ v.uri = uri
      BY <2>1, NoVisitIsSound DEF VisitFields
    <2>3. VisitFits(v, sources, apart) /\ v.pc # "insert"
      BY <2>2 DEF VisitFits
    <2> QED
      BY <1>1, <2>1, <2>3, PlainVisit
  <1>4. ASSUME NEW s \in Subjects, NEW kind, sources[s].status # "ABSENT",
               Visits(t, [NoVisit EXCEPT !.pc = "judge", !.kind = kind, !.id.subject = s,
                                         !.source = sources[s]])
        PROVE  ScreenInv'
    <2>1. PICK v : v = [NoVisit EXCEPT !.pc = "judge", !.kind = kind, !.id.subject = s,
                                       !.source = sources[s]] /\ Visits(t, v)
      BY <1>4
    <2>2. v.pc = "judge" /\ v.id = [NoVisit.id EXCEPT !.subject = s] /\ v.source = sources[s]
      BY <2>1, NoVisitIsSound DEF VisitFields
    <2>3. v.id = [subject |-> s, padded |-> FALSE] /\ v.id \in ResourceIds /\ v.id.subject = s
      BY <2>2 DEF NoVisit, ResourceIds
    <2>4. VisitFits(v, sources, apart)
      BY <1>4, <2>2, <2>3 DEF VisitFits
    <2> QED
      BY <1>1, <2>1, <2>2, <2>4, PlainVisit
  <1> QED
    BY <1>2, <1>3, <1>4 DEF BeginScreening, LookUpSource

LEMMA ScreenFits ==
    ASSUME ScreenInv, LibraryInv', NEW t \in LibraryThreads, Screen(t)
    PROVE  ScreenInv'
  <1>1. /\ visit[t].pc = "screen" /\ UNCHANGED <<sources, resources, observations>>
        /\ apart' => /\ apart
                     /\ \A u \in LibraryThreads \ {t} :
                           visit[u].pc = "insert" => visit[u].id.subject # visit[t].id.subject
    BY DEF Screen
  <1>2. ResourcesFit(resources', sources', apart')
    BY <1>1, VisitIs DEF ResourcesFit
  <1>3. \A u \in LibraryThreads \ {t} : VisitFits(visit[u], sources', apart')
    BY <1>1, VisitIs DEF VisitFits
  <1>4. CASE /\ Visits(t, [visit[t] EXCEPT !.pc = "insert"])
             /\ sources[visit[t].id.subject].status = "ABSENT"
    <2>1. PICK v : v = [visit[t] EXCEPT !.pc = "insert"] /\ Visits(t, v)
      BY <1>4
    <2>2. v.pc = "insert" /\ v.id = visit[t].id /\ v.uri = visit[t].uri
      BY <2>1, VisitIs DEF VisitFields
    <2>3. VisitFits(v, sources', apart')
      BY <1>1, <1>4, <2>2, VisitIs DEF VisitFits
    <2> QED
      BY <1>1, <1>2, <1>3, <2>1, <2>2, <2>3, VisitStep
  <1>5. CASE Done(t)
    BY <1>1, <1>2, <1>3, <1>5, NoVisitFits, NoVisitIsSound, VisitStep DEF Done
  <1> QED
    BY <1>4, <1>5 DEF Screen

LEMMA InsertFits ==
    ASSUME ScreenInv, LibraryInv', NEW t \in LibraryThreads, InsertSource(t)
    PROVE  ScreenInv'
  <1>1. PICK s, new :
           /\ s = visit[t].id.subject /\ new = Intake(visit[t].uri)
           /\ sources' = [sources EXCEPT ![s] = new]
    BY DEF InsertSource
  <1>2. visit[t].pc = "insert" /\ UNCHANGED <<resources, observations, apart>>
    BY DEF InsertSource
  <1>3. s \in Subjects /\ (apart => sources[s].status = "ABSENT")
    BY <1>1, <1>2, VisitIs DEF VisitFits, ResourceIds
  <1>4. new.status # "ABSENT" /\ new.uri = visit[t].uri
    BY <1>1 DEF Intake, NoSource
  <1>5. ResourcesFit(resources', sources', apart')
    BY <1>1, <1>2, <1>3, <1>4, SourceStep
  <1>6. ASSUME NEW u \in LibraryThreads \ {t}
        PROVE  VisitFits(visit[u], sources', apart')
    <2>1. CASE VisitFits(visit[u], sources', apart')
      BY <2>1
    <2>2. CASE visit[u].pc = "insert" /\ visit[u].id.subject = s
      <3>1. ~apart'
        BY <1>1, <1>2, <2>2 DEF ScreenInv, InsertsApart
      <3> QED
        BY <2>2, <3>1, VisitIs DEF VisitFits
    <2> QED
      BY ZenonT(40), <1>1, <1>2, <1>3, <1>4, <2>1, <2>2, SourceStep
  <1>7. CASE Done(t)
    BY <1>2, <1>5, <1>6, <1>7, NoVisitFits, NoVisitIsSound, VisitStep DEF Done
  <1>8. CASE Visits(t, [visit[t] EXCEPT !.pc = "register"])
    <2>1. PICK v : v = [visit[t] EXCEPT !.pc = "register"] /\ Visits(t, v)
      BY <1>8
    <2>2. v.pc = "register" /\ v.id = visit[t].id /\ v.uri = visit[t].uri
      BY <2>1, VisitIs DEF VisitFields
    <2>3. sources'[s] = new
      BY <1>1, <1>3, VisitIs
    <2>4. VisitFits(v, sources', apart')
      BY <1>1, <1>2, <1>4, <2>2, <2>3, VisitIs DEF VisitFits, Screened
    <2> QED
      BY <1>2, <1>5, <1>6, <2>1, <2>2, <2>4, VisitStep
  <1> QED
    BY <1>7, <1>8 DEF InsertSource

LEMMA RegisterFits ==
    ASSUME ScreenInv, LibraryInv', NEW t \in LibraryThreads, RegisterResource(t)
    PROVE  ScreenInv'
  <1>1. /\ visit[t].pc = "register" /\ UNCHANGED <<sources, observations, apart>> /\ Done(t)
        /\ resources' = {r \in resources : r.id # visit[t].id}
                           \cup {[id |-> visit[t].id, uri |-> visit[t].uri]}
    BY DEF RegisterResource
  <1>2. ResourcesFit(resources', sources', apart')
    BY <1>1, VisitIs DEF ResourcesFit, VisitFits
  <1>3. \A u \in LibraryThreads \ {t} : VisitFits(visit[u], sources', apart')
    BY <1>1, VisitIs
  <1> QED
    BY <1>1, <1>2, <1>3, NoVisitFits, NoVisitIsSound, VisitStep DEF Done

LEMMA JudgeFits ==
    ASSUME ScreenInv, LibraryInv', NEW t \in LibraryThreads, JudgeSource(t)
    PROVE  ScreenInv'
  <1>1. PICK ok \in BOOLEAN :
           sources' = [sources EXCEPT ![visit[t].id.subject] =
              IF visit[t].kind = "validate" THEN ValidatedContent(visit[t].source, ok)
              ELSE AdmittedKnowledge(visit[t].source, ok)]
    BY DEF JudgeSource
  <1>2. visit[t].pc = "judge" /\ UNCHANGED <<resources, observations, apart>> /\ Done(t)
    BY DEF JudgeSource
  <1>3. PICK s, new :
           /\ s = visit[t].id.subject /\ sources' = [sources EXCEPT ![s] = new]
           /\ new \in {ValidatedContent(visit[t].source, ok), AdmittedKnowledge(visit[t].source, ok)}
    BY <1>1
  <1>4. /\ Sound(visit[t].source) /\ visit[t].source.status # "ABSENT"
        /\ s \in Subjects /\ sources[s].status # "ABSENT"
        /\ apart => sources[s].uri = visit[t].source.uri
    BY <1>2, <1>3, VisitIs DEF VisitFits, ResourceIds, ScreenInv, LibraryInv, VisitsSound
  <1>5. new.uri = visit[t].source.uri /\ new.status # "ABSENT"
    BY <1>3, <1>4, GateKeepsUri
  <1>6. /\ ResourcesFit(resources', sources', apart')
        /\ \A u \in LibraryThreads :
              \/ VisitFits(visit[u], sources', apart')
              \/ visit[u].pc = "insert" /\ visit[u].id.subject = s
    <2>1. apart => new.uri = sources[s].uri
      BY <1>4, <1>5
    <2> QED
      BY <1>2, <1>3, <1>4, <1>5, <2>1, SourceStep
  <1>7. ASSUME NEW u \in LibraryThreads \ {t}
        PROVE  VisitFits(visit[u], sources', apart')
    <2>1. CASE VisitFits(visit[u], sources', apart')
      BY <2>1
    <2>2. CASE visit[u].pc = "insert" /\ visit[u].id.subject = s
      <3>1. ~apart'
        BY <1>2, <1>4, <2>2, VisitIs DEF VisitFits
      <3> QED
        BY <2>2, <3>1, VisitIs DEF VisitFits
    <2> QED
      BY <1>6, <2>1, <2>2
  <1> QED
    BY <1>2, <1>6, <1>7, NoVisitFits, NoVisitIsSound, VisitStep DEF Done

LEMMA ObserveFits ==
    ASSUME ScreenInv, LibraryInv', Observe
    PROVE  ScreenInv'
  <1>1. PICK r \in resources :
           /\ MayObserve(r.id)
           /\ observations' = observations \cup {[resource |-> r, source |-> sources[r.id.subject]]}
    BY DEF Observe
  <1>2. UNCHANGED <<sources, resources, visit, apart>>
    BY DEF Observe
  <1>3. ASSUME apart, r.uri # "none", ~r.id.padded
        PROVE  Passed(sources[r.id.subject]) /\ sources[r.id.subject].uri = r.uri
    <2>1. Screened(sources[r.id.subject], r.uri)
      BY <1>1, <1>3 DEF ScreenInv, ResourcesFit
    <2>2. SourceOf(r.id) = sources[r.id.subject]
      BY <1>3 DEF SourceOf
    <2> QED
      BY <1>1, <2>1, <2>2 DEF Screened, MayObserve, Passed
  <1>4. ObservedWasAdmitted'
    BY <1>1, <1>2, <1>3 DEF ScreenInv, ObservedWasAdmitted, Passed
  <1> QED
    BY <1>2, <1>4 DEF ScreenInv, VisitFits, ResourcesFit, Screened, InsertsApart

(* A validated observation of a resource with a url rests on that url,
   validated and admitted, whatever was screened before and is judged at
   the same time: see ObservedWasAdmitted.                                 *)
THEOREM ObservationsWereAdmitted == LibrarySpec => []ObservedWasAdmitted
  <1>1. LibraryInit => ScreenInv
    <2> SUFFICES ASSUME LibraryInit PROVE ScreenInv
      OBVIOUS
    <2>1. LibraryInv /\ \A t \in LibraryThreads : visit[t] = NoVisit
      BY NoSourceIsSound, NoVisitIsSound
      DEF LibraryInit, LibraryInv, SourcesSound, VisitsSound
    <2>2. /\ \A t \in LibraryThreads : VisitFits(visit[t], sources, apart)
          /\ InsertsApart
      BY <2>1, NoVisitFits, NoVisitIsSound DEF InsertsApart
    <2> QED
      BY <2>1, <2>2 DEF LibraryInit, ScreenInv, ResourcesFit, ObservedWasAdmitted
  <1>2. ScreenInv /\ [LibraryNext]_libraryVars => ScreenInv'
    <2> SUFFICES ASSUME ScreenInv, [LibraryNext]_libraryVars PROVE ScreenInv'
      OBVIOUS
    <2>1. CASE UNCHANGED libraryVars
      BY <2>1 DEF libraryVars, ScreenInv, LibraryInv, SourcesSound, VisitsSound, VisitFits,
                  ResourcesFit, Screened, InsertsApart, ObservedWasAdmitted, Passed
    <2>2. CASE LibraryNext
      <3>1. LibraryInv'
        BY <2>2, StepKeeps DEF ScreenInv
      <3> QED
        BY <2>2, <3>1, BeginFits, ScreenFits, InsertFits, RegisterFits, JudgeFits, ObserveFits
        DEF LibraryNext
    <2> QED
      BY <2>1, <2>2
  <1>3. ScreenInv => ObservedWasAdmitted
    BY DEF ScreenInv
  <1> QED
    BY <1>1, <1>2, <1>3, PTL DEF LibrarySpec

-----------------------------------------------------------------------------
(* MarketReport: an order rests on candles its own cycle judged, and on a
   healthy report of its symbol.                                           *)

MarketSpec == MarketInit /\ [][MarketNext]_marketVars

ReadingFields == {"pc", "kind", "symbol", "timeframe", "at", "candles", "passed"}

Flaws == {"NONE", "GAP", "INVALID"}

(* Past readiness the candles in hand are those readiness judged; a reading
   keeps its own time and candles, whatever becomes of the report.         *)
ReadingFits(r) ==
    /\ DOMAIN r = ReadingFields
    /\ r.at \in Int /\ r.timeframe \in Nat \ {0}
    /\ r.candles.last \in Int /\ r.candles.flaw \in Flaws
    /\ r.pc \in {"gate", "order"} =>
          r.candles.flaw = "NONE" /\ r.candles.last \in (r.at - MaxAge)..r.at
    /\ r.pc = "order" => \A x \in r.passed : x.health = "HEALTHY" /\ x.symbol = r.symbol

MarketInv ==
    /\ now \in Nat
    /\ DOMAIN reading = MarketThreads
    /\ \A t \in MarketThreads : ReadingFits(reading[t])

LEMMA NoReadingFits ==
    /\ DOMAIN NoReading = ReadingFields /\ ReadingFits(NoReading)
    /\ NoReading.pc = "idle" /\ NoReading.candles = NoCandles
  BY DEF NoReading, NoCandles, ReadingFields, ReadingFits, Flaws

LEMMA ReadingStep ==
    ASSUME MarketInv, NEW t \in MarketThreads, NEW r, Reads(t, r), ReadingFits(r), UNCHANGED now
    PROVE  MarketInv'
  BY DEF MarketInv, Reads

LEMMA FetchedFits ==
    ASSUME NEW timeframe \in Nat \ {0}, NEW candles \in Fetchable(timeframe), now \in Nat
    PROVE  candles.last \in Int /\ candles.flaw \in Flaws
  <1>1. PICK lag \in 0..MaxLag : candles.last = LastClosed(timeframe, lag)
    BY DEF Fetchable
  <1>2. now \div timeframe \in Int
    OBVIOUS
  <1>3. lag \in Int
    BY MarketAssumption
  <1>4. LastClosed(timeframe, lag) \in Int
    BY <1>2, <1>3 DEF LastClosed
  <1> QED
    BY <1>1, <1>4 DEF Fetchable, Flaws

(* HEALTHY means none of the things Assess looks for, in its order.        *)
LEMMA HealthyCandles ==
    ASSUME NEW candles, candles.last \in Int, candles.flaw \in Flaws, NEW at \in Int,
           Assess(candles, at) = "HEALTHY"
    PROVE  candles.flaw = "NONE" /\ candles.last \in (at - MaxAge)..at
  BY MarketAssumption DEF Assess, Flaws

LEMMA MarketKeeps ==
    ASSUME MarketInv, MarketNext
    PROVE  MarketInv'
  <1>1. ASSUME NEW t \in MarketThreads, BeginReading(t) PROVE MarketInv'
    <2>1. PICK kind \in {"analysis", "cycle"}, s \in Symbols, f \in Timeframes :
             Reads(t, [NoReading EXCEPT !.pc = "fetch", !.kind = kind, !.symbol = s,
                                        !.timeframe = f, !.at = now])
      BY <1>1 DEF BeginReading
    <2>2. ReadingFits([NoReading EXCEPT !.pc = "fetch", !.kind = kind, !.symbol = s,
                                        !.timeframe = f, !.at = now])
      BY MarketAssumption, NoReadingFits DEF MarketInv, ReadingFits, ReadingFields
    <2> QED
      BY <1>1, <2>1, <2>2, ReadingStep DEF BeginReading
  <1>2. ASSUME NEW t \in MarketThreads, Fetch(t) PROVE MarketInv'
    <2>1. PICK candles \in Fetchable(reading[t].timeframe) :
             Reads(t, [reading[t] EXCEPT !.pc = "report", !.candles = candles])
      BY <1>2 DEF Fetch
    <2>2. ReadingFits(reading[t]) /\ now \in Nat
      BY DEF MarketInv
    <2>3. candles.last \in Int /\ candles.flaw \in Flaws
      BY <2>2, FetchedFits DEF ReadingFits
    <2>4. ReadingFits([reading[t] EXCEPT !.pc = "report", !.candles = candles])
      BY <2>2, <2>3 DEF ReadingFits, ReadingFields
    <2> QED
      BY <1>2, <2>1, <2>4, ReadingStep DEF Fetch
  <1>3. ASSUME NEW t \in MarketThreads, FetchFails(t) PROVE MarketInv'
    BY <1>3, NoReadingFits, ReadingStep DEF FetchFails, Stops
  <1>4. ASSUME NEW t \in MarketThreads, UpdateReport(t) PROVE MarketInv'
    <2>1. ReadingFits([reading[t] EXCEPT !.pc = "readiness"])
      BY DEF MarketInv, ReadingFits, ReadingFields
    <2> QED
      BY <1>4, <2>1, NoReadingFits, ReadingStep DEF UpdateReport, Stops
  <1>5. ASSUME NEW t \in MarketThreads, JudgeReadiness(t) PROVE MarketInv'
    <2>1. CASE /\ ReadinessHealth(reading[t]) = "HEALTHY"
               /\ Reads(t, [reading[t] EXCEPT !.pc = "gate"])
      <3>1. ReadingFits(reading[t])
        BY DEF MarketInv
      <3>2. /\ reading[t].candles.flaw = "NONE"
            /\ reading[t].candles.last \in (reading[t].at - MaxAge)..reading[t].at
        BY <2>1, <3>1, HealthyCandles DEF ReadinessHealth, ReadingFits
      <3>3. ReadingFits([reading[t] EXCEPT !.pc = "gate"])
        BY <3>1, <3>2 DEF ReadingFits, ReadingFields
      <3> QED
        BY <1>5, <2>1, <3>3, ReadingStep DEF JudgeReadiness
    <2> QED
      BY <1>5, <2>1, NoReadingFits, ReadingStep DEF JudgeReadiness, Stops
  <1>6. ASSUME NEW t \in MarketThreads, PassReport(t) PROVE MarketInv'
    <2>1. PICK passed :
             passed = {x \in report : x.health = "HEALTHY" /\ x.symbol = reading[t].symbol}
      OBVIOUS
    <2>2. ReadingFits(reading[t]) /\ reading[t].pc = "gate"
      BY <1>6 DEF MarketInv, PassReport
    <2>3. ReadingFits([reading[t] EXCEPT !.pc = "order", !.passed = passed])
      BY <2>1, <2>2 DEF ReadingFits, ReadingFields
    <2>4. Stops(t) \/ Reads(t, [reading[t] EXCEPT !.pc = "order", !.passed = passed])
      BY <1>6, <2>1 DEF PassReport
    <2> QED
      BY <1>6, <2>3, <2>4, NoReadingFits, ReadingStep DEF PassReport, Stops
  <1>7. ASSUME NEW t \in MarketThreads, OrderSent(t) PROVE MarketInv'
    BY <1>7, NoReadingFits, ReadingStep DEF OrderSent, Stops
  <1>8. CASE Tick
    BY <1>8 DEF Tick, MarketInv
  <1> QED
    BY <1>1, <1>2, <1>3, <1>4, <1>5, <1>6, <1>7, <1>8 DEF MarketNext

(* Whoever writes the report between readiness and gateway, an order rests
   on sound candles of its own cycle: see OrdersRestOnSoundCandles.        *)
THEOREM OrdersHaveSoundCandles == MarketSpec => []OrdersRestOnSoundCandles
  <1>1. MarketInit => MarketInv
    BY NoReadingFits DEF MarketInit, MarketInv
  <1>2. MarketInv /\ [MarketNext]_marketVars => MarketInv'
    <2>1. MarketInv /\ UNCHANGED marketVars => MarketInv'
      BY DEF marketVars, MarketInv
    <2> QED
      BY <2>1, MarketKeeps
  <1>3. MarketInv => OrdersRestOnSoundCandles
    BY DEF MarketInv, ReadingFits, OrdersRestOnSoundCandles
  <1> QED
    BY <1>1, <1>2, <1>3, PTL DEF MarketSpec

-----------------------------------------------------------------------------
(* Alerts: a standing alert has been told, and told again only after the
   sink raised.                                                            *)

AlertsSpec == AlertsInit /\ [][AlertsNext]_alertVars

(* No alert comes twice in a sequence.                                     *)
NoneTwice(s) == \A i, j \in DOMAIN s : s[i] = s[j] => i = j

(* An alert that will not be suppressed has reached the sink at most once
   for every dispatch that raised, and once more when this dispatch has
   passed it; one that will be suppressed has reached it.                  *)
AlertsInv ==
    /\ notified \in [Alert -> Nat] /\ sinkFaults \in Nat
    /\ lastKeys \subseteq Alert
    /\ alerts \in Seq(Alert) /\ left \in Seq(Alert)
    /\ NoneTwice(left) /\ Keys(left) \subseteq Keys(alerts)
    /\ dispatching \in {"dispatching", "done", "raised"}
    /\ dispatching = "done" => lastKeys = Keys(alerts)
    /\ \A a \in lastKeys : notified[a] \in 1..(1 + sinkFaults)
    /\ \A a \in Alert \ lastKeys :
          IF dispatching = "dispatching" /\ a \in Keys(alerts) \ Keys(left)
          THEN notified[a] \in 1..(1 + sinkFaults)
          ELSE notified[a] \in 0..sinkFaults

(* What the handlers use of sequences.                                     *)
LEMMA HeadAndTail ==
    ASSUME NEW S, NEW s \in Seq(S), s # <<>>, NoneTwice(s)
    PROVE  /\ Head(s) \in S /\ Head(s) \in Keys(s)
           /\ Tail(s) \in Seq(S) /\ NoneTwice(Tail(s))
           /\ Keys(Tail(s)) = Keys(s) \ {Head(s)}
  <1>1. /\ Len(s) \in Nat \ {0} /\ DOMAIN s = 1..Len(s) /\ Head(s) = s[1]
        /\ Tail(s) \in Seq(S) /\ Len(Tail(s)) = Len(s) - 1
        /\ DOMAIN Tail(s) = 1..(Len(s) - 1)
        /\ \A i \in 1..(Len(s) - 1) : Tail(s)[i] = s[i + 1]
    OBVIOUS
  <1>2. NoneTwice(Tail(s))
    <2>1. SUFFICES ASSUME NEW i \in 1..(Len(s) - 1), NEW j \in 1..(Len(s) - 1),
                          Tail(s)[i] = Tail(s)[j]
                   PROVE  i = j
      BY <1>1 DEF NoneTwice
    <2>2. s[i + 1] = s[j + 1] /\ i + 1 \in DOMAIN s /\ j + 1 \in DOMAIN s
      BY <1>1, <2>1
    <2> QED
      BY <1>1, <2>2 DEF NoneTwice
  <1>3. Head(s) \in S /\ 1 \in DOMAIN s
    BY <1>1
  <1>4. ASSUME NEW a \in Keys(Tail(s)) PROVE a \in Keys(s) /\ a # Head(s)
    <2>1. PICK i \in 1..(Len(s) - 1) : a = s[i + 1]
      BY <1>1, <1>4 DEF Keys
    <2>2. i + 1 \in DOMAIN s /\ i + 1 # 1
      BY <1>1
    <2> QED
      BY <1>1, <1>3, <2>1, <2>2 DEF Keys, NoneTwice
  <1>5. ASSUME NEW a \in Keys(s), a # Head(s) PROVE a \in Keys(Tail(s))
    <2>1. PICK i \in DOMAIN s : a = s[i]
      BY <1>5 DEF Keys
    <2>2. i - 1 \in 1..(Len(s) - 1)
      BY <1>1, <1>5, <2>1
    <2> QED
      BY <1>1, <2>1, <2>2 DEF Keys
  <1> QED
    BY <1>1, <1>2, <1>3, <1>4, <1>5 DEF Keys

LEMMA Concatenated ==
    ASSUME NEW S, NEW s \in Seq(S), NEW t \in Seq(S), NoneTwice(s), NoneTwice(t),
           Keys(s) \cap Keys(t) = {}
    PROVE  s \o t \in Seq(S) /\ NoneTwice(s \o t) /\ Keys(s \o t) \subseteq Keys(s) \cup Keys(t)
  <1>1. /\ Len(s) \in Nat /\ Len(t) \in Nat
        /\ DOMAIN s = 1..Len(s) /\ DOMAIN t = 1..Len(t)
        /\ s \o t \in Seq(S) /\ DOMAIN (s \o t) = 1..(Len(s) + Len(t))
        /\ \A i \in 1..(Len(s) + Len(t)) :
              (s \o t)[i] = IF i <= Len(s) THEN s[i] ELSE t[i - Len(s)]
    OBVIOUS
  <1>2. ASSUME NEW i \in DOMAIN (s \o t)
        PROVE  \/ i \in DOMAIN s /\ (s \o t)[i] = s[i]
               \/ i - Len(s) \in DOMAIN t /\ (s \o t)[i] = t[i - Len(s)]
    BY <1>1
  <1>3. Keys(s \o t) \subseteq Keys(s) \cup Keys(t)
    BY <1>2 DEF Keys
  <1>4. ASSUME NEW i \in DOMAIN (s \o t), NEW j \in DOMAIN (s \o t), (s \o t)[i] = (s \o t)[j]
        PROVE  i = j
    <2>1. CASE i \in DOMAIN s /\ j \in DOMAIN s
      BY <1>1, <1>4, <2>1 DEF NoneTwice
    <2>2. CASE i \notin DOMAIN s /\ j \notin DOMAIN s
      <3>1. i - Len(s) \in DOMAIN t /\ j - Len(s) \in DOMAIN t
        BY <1>1, <2>2
      <3>2. t[i - Len(s)] = t[j - Len(s)]
        BY <1>1, <1>4, <2>2
      <3>3. i - Len(s) = j - Len(s)
        BY <3>1, <3>2 DEF NoneTwice
      <3> QED
        BY <1>1, <3>3
    <2>3. CASE i \in DOMAIN s /\ j \notin DOMAIN s
      <3>1. s[i] = t[j - Len(s)] /\ j - Len(s) \in DOMAIN t
        BY <1>1, <1>4, <2>3
      <3> QED
        BY <2>3, <3>1 DEF Keys
    <2>4. CASE i \notin DOMAIN s /\ j \in DOMAIN s
      <3>1. s[j] = t[i - Len(s)] /\ i - Len(s) \in DOMAIN t
        BY <1>1, <1>4, <2>4
      <3> QED
        BY <2>4, <3>1 DEF Keys
    <2> QED
      BY <2>1, <2>2, <2>3, <2>4
  <1> QED
    BY <1>1, <1>3, <1>4 DEF NoneTwice

LEMMA AlarmIs ==
    ASSUME NEW due, NEW source, NEW says, NEW S, [source |-> source, says |-> says] \in S
    PROVE  /\ Alarm(due, source, says) \in Seq(S) /\ NoneTwice(Alarm(due, source, says))
           /\ \A a \in Keys(Alarm(due, source, says)) : a.source = source
  <1>1. PICK x : x = [source |-> source, says |-> says]
    OBVIOUS
  <1>2. <<x>> \in Seq(S) /\ DOMAIN <<x>> = {1} /\ <<x>>[1] = x /\ x.source = source
    BY <1>1
  <1>3. <<>> \in Seq(S) /\ DOMAIN <<>> = {}
    OBVIOUS
  <1>4. Alarm(due, source, says) = <<x>> \/ Alarm(due, source, says) = <<>>
    BY <1>1 DEF Alarm
  <1>5. CASE Alarm(due, source, says) = <<x>>
    BY <1>2, <1>5 DEF NoneTwice, Keys
  <1>6. CASE Alarm(due, source, says) = <<>>
    BY <1>3, <1>6 DEF NoneTwice, Keys
  <1> QED
    BY <1>4, <1>5, <1>6

(* The three alerts of a report have three sources.                        *)
LEMMA ReportIs ==
    ASSUME NEW assessed \in AlertReports
    PROVE  assessed \in Seq(Alert) /\ NoneTwice(assessed)
  <1>1. PICK r \in RuntimeHealths, m \in MarketHealths, k \in BOOLEAN : assessed = Assessed(r, m, k)
    BY DEF AlertReports
  <1>2. PICK reasons : reasons = ({r, m} \ {"HEALTHY"}) \cup (IF k THEN {"KILLED"} ELSE {})
    OBVIOUS
  <1>3. PICK a : a = Alarm(r # "HEALTHY", "runtime", {r})
    OBVIOUS
  <1>4. PICK b : b = Alarm(m \in {"INVALID", "STALE", "GAP"}, "market_data", {m})
    OBVIOUS
  <1>5. PICK c : c = Alarm(reasons # {}, "safety_gate", reasons)
    OBVIOUS
  <1>6. assessed = a \o b \o c
    BY <1>1, <1>2, <1>3, <1>4, <1>5 DEF Assessed
  <1>7. PICK S : S = {[source |-> "runtime", says |-> {r}], [source |-> "market_data", says |-> {m}],
                      [source |-> "safety_gate", says |-> reasons]}
    OBVIOUS
  <1>8. /\ a \in Seq(S) /\ NoneTwice(a) /\ \A x \in Keys(a) : x.source = "runtime"
        /\ b \in Seq(S) /\ NoneTwice(b) /\ \A x \in Keys(b) : x.source = "market_data"
        /\ c \in Seq(S) /\ NoneTwice(c) /\ \A x \in Keys(c) : x.source = "safety_gate"
    BY ZenonT(30), <1>3, <1>4, <1>5, <1>7, AlarmIs
  <1>9. a \o b \in Seq(S) /\ NoneTwice(a \o b) /\ Keys(a \o b) \subseteq Keys(a) \cup Keys(b)
    <2>1. Keys(a) \cap Keys(b) = {}
      BY <1>8
    <2> QED
      BY <1>8, <2>1, Concatenated
  <1>10. assessed \in Seq(S) /\ NoneTwice(assessed)
    <2>1. Keys(a \o b) \cap Keys(c) = {}
      BY <1>8, <1>9
    <2> QED
      BY <1>6, <1>8, <1>9, <2>1, Concatenated
  <1>11. Keys(assessed) \subseteq Alert
    BY DEF Alert
  <1>12. assessed \in Seq(Alert)
    <2>1. /\ Len(assessed) \in Nat /\ DOMAIN assessed = 1..Len(assessed)
          /\ assessed = [i \in 1..Len(assessed) |-> assessed[i]]
      BY <1>10
    <2>2. \A i \in 1..Len(assessed) : assessed[i] \in Alert
      BY <1>11, <2>1 DEF Keys
    <2> QED
      BY <2>1, <2>2
  <1> QED
    BY <1>10, <1>12

(* One alert of the dispatch is passed: suppressed, or told once more.     *)
LEMMA AlertsKeep ==
    ASSUME AlertsInv, AlertsNext
    PROVE  AlertsInv'
  <1>1. CASE BeginDispatch
    <2>1. alerts' \in Seq(Alert) /\ NoneTwice(alerts') /\ left' = alerts'
      BY <1>1, ReportIs DEF BeginDispatch
    <2>2. \A a \in Alert \ lastKeys : notified[a] \in 0..sinkFaults
      BY <1>1 DEF BeginDispatch, AlertsInv
    <2>3. NoneTwice(left') /\ Keys(left)' \subseteq Keys(alerts)'
      BY <2>1 DEF NoneTwice, Keys
    <2>4. Keys(alerts)' \ Keys(left)' = {}
      BY <2>1 DEF Keys
    <2> QED
      BY <1>1, <2>1, <2>2, <2>3, <2>4 DEF BeginDispatch, AlertsInv
  <1>2. CASE Suppress \/ Deliver
    <2>1. /\ dispatching = "dispatching" /\ left # <<>> /\ left \in Seq(Alert) /\ NoneTwice(left)
          /\ left' = Tail(left)
          /\ UNCHANGED <<alerts, lastKeys, dispatching, sinkFaults>>
      BY <1>2 DEF Suppress, Deliver, Pending, AlertsInv
    <2>2. PICK next : next = Head(left)
      OBVIOUS
    <2>3. /\ next \in Alert /\ next \in Keys(left) /\ next \in Keys(alerts)
          /\ left' \in Seq(Alert) /\ NoneTwice(left') /\ Keys(left)' = Keys(left) \ {next}
      <3>1. /\ Head(left) \in Alert /\ Head(left) \in Keys(left)
            /\ Tail(left) \in Seq(Alert) /\ NoneTwice(Tail(left))
            /\ Keys(Tail(left)) = Keys(left) \ {Head(left)}
        BY <2>1, HeadAndTail
      <3> QED
        BY <2>1, <2>2, <3>1 DEF AlertsInv, Keys
    <2>4. /\ NoneTwice(left)' /\ Keys(left)' \subseteq Keys(alerts)'
          /\ Keys(alerts)' = Keys(alerts)
      <3>1. Keys(alerts)' = Keys(alerts)
        BY <2>1 DEF Keys
      <3>2. Keys(left) \subseteq Keys(alerts)
        BY DEF AlertsInv
      <3>3. NoneTwice(left)'
        BY <2>3 DEF NoneTwice
      <3> QED
        BY <2>3, <3>1, <3>2, <3>3
    <2>5. CASE Suppress
      <3>1. next \in lastKeys /\ notified' = notified
        BY <2>2, <2>5 DEF Suppress
      <3>2. \A a \in Alert \ lastKeys :
               a \in Keys(alerts)' \ Keys(left)' <=> a \in Keys(alerts) \ Keys(left)
        BY <2>3, <2>4, <3>1
      <3> QED
        BY <2>1, <2>3, <2>4, <3>1, <3>2 DEF AlertsInv
    <2>6. CASE Deliver
      <3>1. next \notin lastKeys /\ notified' = [notified EXCEPT ![next] = @ + 1]
        BY <2>2, <2>6 DEF Deliver
      <3>2. notified[next] \in 0..sinkFaults
        BY <2>1, <2>3, <3>1 DEF AlertsInv
      <3>3. /\ notified' \in [Alert -> Nat]
            /\ notified'[next] \in 1..(1 + sinkFaults)
            /\ \A a \in Alert \ {next} : notified'[a] = notified[a]
        BY <2>3, <3>1, <3>2 DEF AlertsInv
      <3>4. \A a \in Alert \ {next} :
               a \in Keys(alerts)' \ Keys(left)' <=> a \in Keys(alerts) \ Keys(left)
        BY <2>3, <2>4
      <3>5. \A a \in lastKeys' : notified'[a] \in 1..(1 + sinkFaults')
        BY <2>1, <3>1, <3>3 DEF AlertsInv
      <3>6. ASSUME NEW a \in Alert \ lastKeys'
            PROVE  IF dispatching' = "dispatching" /\ a \in Keys(alerts)' \ Keys(left)'
                   THEN notified'[a] \in 1..(1 + sinkFaults')
                   ELSE notified'[a] \in 0..sinkFaults'
        <4>1. CASE a = next
          BY <2>1, <2>3, <2>4, <3>3, <4>1
        <4>2. CASE a # next
          BY <2>1, <3>3, <3>4, <4>2 DEF AlertsInv
        <4> QED
          BY <4>1, <4>2
      <3> QED
        BY <2>1, <2>3, <2>4, <3>3, <3>5, <3>6 DEF AlertsInv
    <2> QED
      BY <1>2, <2>5, <2>6
  <1>3. CASE SinkRaises
    <2>1. /\ dispatching = "dispatching" /\ left # <<>> /\ left \in Seq(Alert) /\ NoneTwice(left)
          /\ sinkFaults' = sinkFaults + 1 /\ Head(left) \notin lastKeys
          /\ UNCHANGED <<alerts, lastKeys>>
          /\ left' = <<>> /\ dispatching' = "raised"
      BY <1>3 DEF SinkRaises, Pending, AlertsInv
    <2>2. Head(left) \in Alert /\ Head(left) \in Keys(left)
      BY <2>1, HeadAndTail
    <2>3. PICK reached \in {0, 1} : notified' = [notified EXCEPT ![Head(left)] = @ + reached]
      BY <1>3 DEF SinkRaises
    <2>4. notified[Head(left)] \in 0..sinkFaults /\ sinkFaults \in Nat
      BY <2>1, <2>2 DEF AlertsInv
    <2>5. /\ notified' \in [Alert -> Nat]
          /\ notified'[Head(left)] \in 0..sinkFaults'
          /\ \A a \in Alert \ {Head(left)} : notified'[a] = notified[a]
      BY <2>1, <2>2, <2>3, <2>4 DEF AlertsInv
    <2>6. NoneTwice(left)' /\ Keys(left)' \subseteq Keys(alerts)' /\ left' \in Seq(Alert)
      BY <2>1 DEF NoneTwice, Keys
    <2>7. \A a \in lastKeys' : notified'[a] \in 1..(1 + sinkFaults')
      <3>1. \A a \in lastKeys : a \in Alert /\ notified[a] \in 1..(1 + sinkFaults)
        BY DEF AlertsInv
      <3> QED
        BY <2>1, <2>4, <2>5, <3>1
    <2>8. \A a \in Alert \ lastKeys' : notified'[a] \in 0..sinkFaults'
      <3>1. \A a \in Alert \ lastKeys : notified[a] \in 0..(1 + sinkFaults)
        BY <2>4 DEF AlertsInv
      <3> QED
        BY <2>1, <2>4, <2>5, <3>1
    <2> QED
      BY <2>1, <2>4, <2>5, <2>6, <2>7, <2>8 DEF AlertsInv
  <1>4. CASE EndDispatch
    <2>1. /\ dispatching = "dispatching" /\ left = <<>> /\ Keys(left) = {}
          /\ lastKeys' = Keys(alerts) /\ dispatching' = "done"
          /\ notified' = [a \in Alert |-> IF a \in Keys(alerts) THEN notified[a] ELSE 0]
          /\ UNCHANGED <<alerts, left, sinkFaults>>
      BY <1>4 DEF EndDispatch, Keys
    <2>2. Keys(alerts) \subseteq Alert
      BY DEF AlertsInv, Keys
    <2>3. \A a \in Keys(alerts) : notified[a] \in 1..(1 + sinkFaults)
      BY <2>1, <2>2 DEF AlertsInv
    <2>4. /\ notified' \in [Alert -> Nat] /\ Keys(alerts)' = Keys(alerts) /\ Keys(left)' = {}
          /\ NoneTwice(left)'
      BY <2>1 DEF AlertsInv, Keys, NoneTwice
    <2>5. \A a \in lastKeys' : notified'[a] \in 1..(1 + sinkFaults')
      BY <2>1, <2>2, <2>3
    <2>6. \A a \in Alert \ lastKeys' : notified'[a] \in 0..sinkFaults'
      BY <2>1, <2>2 DEF AlertsInv
    <2> QED
      BY <2>1, <2>2, <2>4, <2>5, <2>6 DEF AlertsInv
  <1> QED
    BY <1>1, <1>2, <1>3, <1>4 DEF AlertsNext

(* Whatever the sink did before, a report that has been dispatched has told
   each of its alerts: see StandingAlertsAreTold.                          *)
THEOREM AlertsAreTold == AlertsSpec => []StandingAlertsAreTold
  <1>1. AlertsInit => AlertsInv
    BY DEF AlertsInit, AlertsInv, NoneTwice, Keys
  <1>2. AlertsInv /\ [AlertsNext]_alertVars => AlertsInv'
    <2>1. AlertsInv /\ UNCHANGED alertVars => AlertsInv'
      <3>1. SUFFICES ASSUME AlertsInv, UNCHANGED alertVars PROVE AlertsInv'
        OBVIOUS
      <3>2. UNCHANGED <<alerts, left, lastKeys, dispatching, notified, sinkFaults>>
        BY <3>1 DEF alertVars
      <3>3. Keys(alerts)' = Keys(alerts) /\ Keys(left)' = Keys(left)
        BY <3>2 DEF Keys
      <3>4. NoneTwice(left)'
        BY <3>1, <3>2 DEF AlertsInv, NoneTwice
      <3> QED
        BY <3>1, <3>2, <3>3, <3>4 DEF AlertsInv
    <2> QED
      BY <2>1, AlertsKeep
  <1>3. AlertsInv => StandingAlertsAreTold
    BY DEF AlertsInv, StandingAlertsAreTold
  <1> QED
    BY <1>1, <1>2, <1>3, PTL DEF AlertsSpec

-----------------------------------------------------------------------------
(* EcosystemState: what a caller was told is stored, and the service starts
   again with what it stored.                                              *)

StateSpec == StateInit /\ [][StateNext]_stateVars

Notices == [number : Nat, event : Nat]

Updates ==
    [pc : {"idle", "append", "list", "assign", "take", "save"}, notice : Notices,
     field : Fields, of : {"events", "preferences"},
     values : [Fields -> PreferenceValues], list : Seq(Notices)]

StateTypes ==
    /\ center \in Seq(Notices) /\ preferences \in [Fields -> PreferenceValues]
    /\ stored \in [center : Seq(Notices), preferences : [Fields -> PreferenceValues]]
    /\ update \in [StateThreads -> Updates]
    /\ stateCalls \in Nat /\ kept \subseteq Fields
    /\ foreign \in BOOLEAN /\ serial \in BOOLEAN /\ running \in BOOLEAN

(* Every value that is or may come to be stored is one from_dict takes.    *)
RestorableInv ==
    ~foreign => /\ running /\ Restorable(stored.preferences) /\ Restorable(preferences)
                /\ \A t \in StateThreads : Restorable(update[t].values)

Numbered(list) == \A i \in DOMAIN list : list[i].number = i

(* A call between two of its steps, when nobody else came in between. The
   property sees only memory and store; what a call carries is theirs.     *)
CallFits(u, list, values, answered) ==
    /\ u.pc = "append" => u.of = "events" /\ u.notice.number = Len(list) + 1
    /\ u.pc = "list" => u.of = "events" /\ u.notice \in Range(list)
    /\ u.pc = "save" /\ u.of = "events" => u.list = list /\ u.notice \in Range(list)
    /\ u.pc = "assign" => u.of = "preferences" /\ \A f \in answered : u.values[f] = values[f]
    /\ u.pc = "take" => u.of = "preferences"
    /\ u.pc = "save" /\ u.of = "preferences" => u.values = values

StoreFits(list, values, saved, events, answered) ==
    /\ Numbered(list) /\ Numbered(saved.center)
    /\ Range(saved.center) \subseteq Range(list) /\ events \subseteq Range(saved.center)
    /\ \A f \in answered : saved.preferences[f] = values[f]

OneCall == \A t, u \in StateThreads : t # u => update[t].pc = "idle" \/ update[u].pc = "idle"

SerialInv ==
    serial /\ running =>
       /\ OneCall
       /\ \A t \in StateThreads : CallFits(update[t], center, preferences, kept)
       /\ StoreFits(center, preferences, stored, told, kept)

StateInv == StateTypes /\ RestorableInv /\ SerialInv

LEMMA NoUpdateIs ==
    /\ NoUpdate \in Updates /\ NoUpdate.pc = "idle" /\ NoUpdate.values = Defaults
    /\ NoUpdate.of = "events"
  <1>1. <<>> \in Seq(Notices) /\ Defaults \in [Fields -> PreferenceValues] /\ NoEvent \in Notices
    BY DEF Defaults, PreferenceValues, NoEvent, Notices
  <1>2. PICK field : field = CHOOSE f \in Fields : TRUE
    OBVIOUS
  <1>3. field \in Fields
    BY <1>2, StateAssumption
  <1> QED
    BY <1>1, <1>2, <1>3 DEF NoUpdate, Updates

LEMMA DefaultsRestore == Restorable(Defaults)
  BY DEF Restorable, Defaults

(* What one thread's step does to the calls of all.                        *)
LEMMA UpdateStep ==
    ASSUME StateTypes, NEW t \in StateThreads, NEW new \in Updates, Continues(t, new)
    PROVE  /\ update' \in [StateThreads -> Updates] /\ update'[t] = new
           /\ \A u \in StateThreads \ {t} : update'[u] = update[u]
  BY DEF StateTypes, Continues

LEMMA RestorableStep ==
    ASSUME StateTypes, RestorableInv, NEW t \in StateThreads, NEW new \in Updates, Continues(t, new),
           ~foreign' => /\ ~foreign /\ running' /\ Restorable(new.values)
                        /\ Restorable(stored'.preferences) /\ Restorable(preferences')
    PROVE  RestorableInv'
  BY UpdateStep DEF RestorableInv

LEMMA SerialStep ==
    ASSUME StateTypes, SerialInv, NEW t \in StateThreads, NEW new \in Updates, Continues(t, new),
           serial' /\ running' =>
              /\ serial /\ running /\ \A u \in StateThreads \ {t} : update[u].pc = "idle"
              /\ CallFits(new, center', preferences', kept')
              /\ StoreFits(center', preferences', stored', told', kept')
    PROVE  SerialInv'
  <1>1. SUFFICES ASSUME serial', running' PROVE SerialInv'
    BY DEF SerialInv
  <1>2. \A u \in StateThreads \ {t} : update'[u].pc = "idle"
    BY <1>1, UpdateStep
  <1>3. OneCall'
    BY <1>2 DEF OneCall
  <1>4. \A u \in StateThreads : CallFits(update'[u], center', preferences', kept')
    <2>1. ASSUME NEW u \in StateThreads \ {t}
          PROVE  CallFits(update'[u], center', preferences', kept')
      BY <1>2, <2>1 DEF CallFits
    <2>2. CallFits(update'[t], center', preferences', kept')
      BY <1>1, UpdateStep
    <2> QED
      BY <2>1, <2>2
  <1> QED
    BY <1>1, <1>3, <1>4 DEF SerialInv

(* A call under way is the only one as long as none overlapped.            *)
LEMMA Alone ==
    ASSUME SerialInv, NEW t \in StateThreads, update[t].pc # "idle", serial, running
    PROVE  /\ \A u \in StateThreads \ {t} : update[u].pc = "idle"
           /\ CallFits(update[t], center, preferences, kept)
           /\ StoreFits(center, preferences, stored, told, kept)
  BY DEF SerialInv, OneCall

(* And one that begins is, if it counts as not overlapping.                *)
LEMMA BeginsAlone ==
    ASSUME SerialInv, NEW t \in StateThreads, Calls(t), serial'
    PROVE  /\ serial /\ running /\ \A u \in StateThreads : update[u].pc = "idle"
           /\ StoreFits(center, preferences, stored, told, kept)
  BY DEF SerialInv, Calls

LEMMA CallsTypes ==
    ASSUME StateTypes, NEW t \in StateThreads, Calls(t)
    PROVE  stateCalls' \in Nat /\ serial' \in BOOLEAN /\ (serial' => serial)
  BY DEF StateTypes, Calls

LEMMA Appended ==
    ASSUME NEW list \in Seq(Notices), NEW notice \in Notices
    PROVE  /\ Append(list, notice) \in Seq(Notices)
           /\ Range(Append(list, notice)) = Range(list) \cup {notice}
           /\ Numbered(list) /\ notice.number = Len(list) + 1 => Numbered(Append(list, notice))
  <1>1. /\ Len(list) \in Nat /\ DOMAIN list = 1..Len(list)
        /\ Append(list, notice) \in Seq(Notices)
        /\ DOMAIN Append(list, notice) = 1..(Len(list) + 1)
        /\ \A i \in 1..Len(list) : Append(list, notice)[i] = list[i]
        /\ Append(list, notice)[Len(list) + 1] = notice
    OBVIOUS
  <1>2. \A i \in 1..(Len(list) + 1) : i \in 1..Len(list) \/ i = Len(list) + 1
    BY <1>1
  <1>3. Range(Append(list, notice)) = Range(list) \cup {notice}
    BY <1>1, <1>2 DEF Range
  <1>4. Numbered(list) /\ notice.number = Len(list) + 1 => Numbered(Append(list, notice))
    BY <1>1, <1>2 DEF Numbered
  <1> QED
    BY <1>1, <1>3, <1>4

-----------------------------------------------------------------------------

LEMMA NumberKeeps ==
    ASSUME StateInv, NEW t \in StateThreads, NumberEvent(t)
    PROVE  StateInv'
  <1>1. PICK new : new = [NoUpdate EXCEPT !.pc = "append",
                             !.notice = [number |-> Len(center) + 1, event |-> stateCalls']]
    OBVIOUS
  <1>2. stateCalls' \in Nat /\ serial' \in BOOLEAN /\ (serial' => serial)
    BY CallsTypes DEF StateInv, NumberEvent
  <1>3. Len(center) + 1 \in Nat
    BY DEF StateInv, StateTypes
  <1>4. /\ new \in Updates /\ new.pc = "append" /\ new.of = "events" /\ new.values = Defaults
        /\ new.notice.number = Len(center) + 1
    BY <1>1, <1>2, <1>3, NoUpdateIs DEF Updates, Notices
  <1>5. Continues(t, new) /\ UNCHANGED <<center, preferences, stored, told, kept, foreign, running>>
    BY <1>1 DEF NumberEvent
  <1>6. StateTypes'
    BY <1>2, <1>4, <1>5, UpdateStep DEF StateInv, StateTypes
  <1>7. RestorableInv'
    BY <1>4, <1>5, DefaultsRestore, RestorableStep DEF StateInv, RestorableInv
  <1>8. CallFits(new, center', preferences', kept')
    BY <1>4, <1>5 DEF CallFits
  <1>9. serial' => /\ serial /\ running /\ \A u \in StateThreads : update[u].pc = "idle"
                   /\ StoreFits(center, preferences, stored, told, kept)
    BY BeginsAlone DEF StateInv, NumberEvent
  <1>10. SerialInv'
    BY <1>4, <1>5, <1>8, <1>9, SerialStep DEF StateInv
  <1> QED
    BY <1>6, <1>7, <1>10 DEF StateInv

LEMMA AppendKeeps ==
    ASSUME StateInv, NEW t \in StateThreads, AppendEvent(t)
    PROVE  StateInv'
  <1>1. PICK old : old = update[t]
    OBVIOUS
  <1>2. PICK new : new = [old EXCEPT !.pc = "list"]
    OBVIOUS
  <1>3. old \in Updates /\ old.pc = "append" /\ center \in Seq(Notices) /\ old.notice \in Notices
    BY <1>1 DEF StateInv, StateTypes, AppendEvent, Updates
  <1>4. /\ new \in Updates /\ new.pc = "list" /\ new.of = old.of /\ new.values = old.values
        /\ new.notice = old.notice
    BY <1>2, <1>3 DEF Updates
  <1>5. /\ Continues(t, new) /\ center' = Append(center, old.notice)
        /\ UNCHANGED <<preferences, stored, stateCalls, told, kept, foreign, serial, running>>
    BY <1>1, <1>2 DEF AppendEvent
  <1>6. /\ center' \in Seq(Notices) /\ Range(center') = Range(center) \cup {old.notice}
        /\ Numbered(center) /\ old.notice.number = Len(center) + 1 => Numbered(center')
    BY <1>3, <1>5, Appended
  <1>7. StateTypes'
    BY <1>4, <1>5, <1>6, UpdateStep DEF StateInv, StateTypes
  <1>8. RestorableInv'
    BY <1>1, <1>4, <1>5, RestorableStep DEF StateInv, RestorableInv
  <1>9. ASSUME serial, running
        PROVE  /\ \A u \in StateThreads \ {t} : update[u].pc = "idle"
               /\ CallFits(new, center', preferences', kept')
               /\ StoreFits(center', preferences', stored', told', kept')
    <2>1. /\ \A u \in StateThreads \ {t} : update[u].pc = "idle"
          /\ CallFits(old, center, preferences, kept)
          /\ StoreFits(center, preferences, stored, told, kept)
      BY <1>1, <1>3, <1>9, Alone DEF StateInv
    <2>2. CallFits(new, center', preferences', kept')
      BY <1>3, <1>4, <1>5, <1>6, <2>1 DEF CallFits
    <2>3. StoreFits(center', preferences', stored', told', kept')
      BY <1>3, <1>5, <1>6, <2>1 DEF CallFits, StoreFits
    <2> QED
      BY <2>1, <2>2, <2>3
  <1>10. SerialInv'
    BY <1>4, <1>5, <1>9, SerialStep DEF StateInv
  <1> QED
    BY <1>7, <1>8, <1>10 DEF StateInv

(* The steps that only take what is in memory into the call.               *)
LEMMA TakeKeeps ==
    ASSUME StateInv, NEW t \in StateThreads, ListEvents(t) \/ TakePreferences(t)
    PROVE  StateInv'
  <1>1. PICK old : old = update[t]
    OBVIOUS
  <1>2. PICK new : new = IF old.pc = "list" THEN [old EXCEPT !.pc = "save", !.list = center]
                         ELSE [old EXCEPT !.pc = "save", !.values = preferences]
    OBVIOUS
  <1>3. old \in Updates /\ old.pc \in {"list", "take"}
    BY <1>1 DEF StateInv, StateTypes, ListEvents, TakePreferences
  <1>4. /\ Continues(t, new)
        /\ UNCHANGED <<center, preferences, stored, stateCalls, told, kept, foreign, serial, running>>
    BY <1>1, <1>2 DEF ListEvents, TakePreferences
  <1>5. /\ new \in Updates /\ new.pc = "save" /\ new.of = old.of /\ new.notice = old.notice
        /\ old.pc = "list" => new.list = center /\ new.values = old.values
        /\ old.pc = "take" => new.values = preferences
    BY <1>2, <1>3 DEF StateInv, StateTypes, Updates
  <1>6. StateTypes'
    BY <1>4, <1>5, UpdateStep DEF StateInv, StateTypes
  <1>7. RestorableInv'
    BY <1>1, <1>3, <1>4, <1>5, RestorableStep DEF StateInv, RestorableInv
  <1>8. ASSUME serial, running
        PROVE  /\ \A u \in StateThreads \ {t} : update[u].pc = "idle"
               /\ CallFits(new, center', preferences', kept')
               /\ StoreFits(center', preferences', stored', told', kept')
    <2>1. /\ \A u \in StateThreads \ {t} : update[u].pc = "idle"
          /\ CallFits(old, center, preferences, kept)
          /\ StoreFits(center, preferences, stored, told, kept)
      BY <1>1, <1>3, <1>8, Alone DEF StateInv
    <2>2. CallFits(new, center', preferences', kept')
      BY <1>3, <1>4, <1>5, <2>1 DEF CallFits
    <2> QED
      BY <1>4, <2>1, <2>2
  <1>9. SerialInv'
    BY <1>4, <1>5, <1>8, SerialStep DEF StateInv
  <1> QED
    BY <1>6, <1>7, <1>9 DEF StateInv

LEMMA AcceptedRestores ==
    ASSUME NEW value \in PreferenceValues, Accepted(value), value # "NOT TEXT",
           NEW f, NEW p \in [Fields -> PreferenceValues], Restorable(p)
    PROVE  Restorable([p EXCEPT ![f] = value])
  BY DEF Accepted, PreferenceValues, Restorable

LEMMA ReplaceKeeps ==
    ASSUME StateInv, NEW t \in StateThreads, ReplacePreference(t)
    PROVE  StateInv'
  <1>1. PICK f \in Fields, value \in PreferenceValues :
           /\ Accepted(value)
           /\ Continues(t, [NoUpdate EXCEPT !.pc = "assign", !.of = "preferences", !.field = f,
                                            !.values = [preferences EXCEPT ![f] = value]])
           /\ foreign' = (foreign \/ value = "NOT TEXT")
           /\ kept' = kept \ {f}
    BY DEF ReplacePreference
  <1>2. PICK values : values = [preferences EXCEPT ![f] = value]
    OBVIOUS
  <1>3. PICK new : new = [NoUpdate EXCEPT !.pc = "assign", !.of = "preferences", !.field = f,
                                          !.values = values]
    OBVIOUS
  <1>4. /\ values \in [Fields -> PreferenceValues]
        /\ \A g \in Fields \ {f} : values[g] = preferences[g]
    BY <1>2 DEF StateInv, StateTypes
  <1>5. new \in Updates /\ new.pc = "assign" /\ new.of = "preferences" /\ new.values = values
    BY <1>3, <1>4, NoUpdateIs DEF Updates
  <1>6. /\ Continues(t, new) /\ stateCalls' \in Nat /\ serial' \in BOOLEAN /\ (serial' => serial)
        /\ UNCHANGED <<center, preferences, stored, told, running>>
    BY <1>1, <1>2, <1>3, CallsTypes DEF StateInv, ReplacePreference
  <1>7. foreign' \in BOOLEAN /\ kept \subseteq Fields /\ kept' \subseteq Fields
    BY <1>1 DEF StateInv, StateTypes
  <1>8. StateTypes'
    BY <1>5, <1>6, <1>7, UpdateStep DEF StateInv, StateTypes
  <1>9. ASSUME ~foreign' PROVE ~foreign /\ Restorable(values)
    <2>1. ~foreign /\ value # "NOT TEXT"
      BY <1>1, <1>9
    <2>2. preferences \in [Fields -> PreferenceValues] /\ Restorable(preferences)
      BY <2>1 DEF StateInv, StateTypes, RestorableInv
    <2> QED
      BY <1>1, <1>2, <2>1, <2>2, AcceptedRestores
  <1>10. RestorableInv'
    BY <1>5, <1>6, <1>9, RestorableStep DEF StateInv, RestorableInv
  <1>11. ASSUME serial'
         PROVE  /\ serial /\ running /\ \A u \in StateThreads : update[u].pc = "idle"
                /\ CallFits(new, center', preferences', kept')
                /\ StoreFits(center', preferences', stored', told', kept')
    <2>1. /\ serial /\ running /\ \A u \in StateThreads : update[u].pc = "idle"
          /\ StoreFits(center, preferences, stored, told, kept)
      BY <1>11, BeginsAlone DEF StateInv, ReplacePreference
    <2>2. StoreFits(center', preferences', stored', told', kept')
      BY <1>1, <1>6, <2>1 DEF StoreFits
    <2>3. \A g \in kept' : values[g] = preferences'[g]
      BY <1>1, <1>2, <1>6, <1>7 DEF StateInv, StateTypes
    <2>4. CallFits(new, center', preferences', kept')
      BY <1>5, <2>3 DEF CallFits
    <2> QED
      BY <2>1, <2>2, <2>4
  <1>12. SerialInv'
    BY <1>5, <1>6, <1>11, SerialStep DEF StateInv
  <1> QED
    BY <1>8, <1>10, <1>12 DEF StateInv

LEMMA AssignKeeps ==
    ASSUME StateInv, NEW t \in StateThreads, AssignPreferences(t)
    PROVE  StateInv'
  <1>1. PICK old : old = update[t]
    OBVIOUS
  <1>2. PICK new : new = [old EXCEPT !.pc = "take"]
    OBVIOUS
  <1>3. old \in Updates /\ old.pc = "assign" /\ old.values \in [Fields -> PreferenceValues]
    BY <1>1 DEF StateInv, StateTypes, AssignPreferences, Updates
  <1>4. new \in Updates /\ new.pc = "take" /\ new.of = old.of /\ new.values = old.values
    BY <1>2, <1>3 DEF Updates
  <1>5. /\ Continues(t, new) /\ preferences' = old.values
        /\ UNCHANGED <<center, stored, stateCalls, told, kept, foreign, serial, running>>
    BY <1>1, <1>2 DEF AssignPreferences
  <1>6. StateTypes'
    BY <1>3, <1>4, <1>5, UpdateStep DEF StateInv, StateTypes
  <1>7. RestorableInv'
    BY <1>1, <1>4, <1>5, RestorableStep DEF StateInv, RestorableInv
  <1>8. ASSUME serial, running
        PROVE  /\ \A u \in StateThreads \ {t} : update[u].pc = "idle"
               /\ CallFits(new, center', preferences', kept')
               /\ StoreFits(center', preferences', stored', told', kept')
    <2>1. /\ \A u \in StateThreads \ {t} : update[u].pc = "idle"
          /\ CallFits(old, center, preferences, kept)
          /\ StoreFits(center, preferences, stored, told, kept)
      BY <1>1, <1>3, <1>8, Alone DEF StateInv
    <2>2. CallFits(new, center', preferences', kept')
      BY <1>3, <1>4, <1>5, <2>1 DEF CallFits
    <2>3. StoreFits(center', preferences', stored', told', kept')
      BY <1>3, <1>5, <2>1 DEF CallFits, StoreFits
    <2> QED
      BY <2>1, <2>2, <2>3
  <1>9. SerialInv'
    BY <1>4, <1>5, <1>8, SerialStep DEF StateInv
  <1> QED
    BY <1>6, <1>7, <1>9 DEF StateInv

LEMMA SaveKeeps ==
    ASSUME StateInv, NEW t \in StateThreads, SaveState(t)
    PROVE  StateInv'
  <1>1. PICK old : old = update[t]
    OBVIOUS
  <1>2. /\ old \in Updates /\ old.pc = "save" /\ old.list \in Seq(Notices)
        /\ old.values \in [Fields -> PreferenceValues] /\ old.of \in {"events", "preferences"}
        /\ old.field \in Fields
    BY <1>1 DEF StateInv, StateTypes, SaveState, Updates
  <1>3. /\ Continues(t, NoUpdate)
        /\ UNCHANGED <<center, preferences, stateCalls, foreign, serial, running>>
    BY DEF SaveState, Answered
  <1>4. CASE old.of = "events"
    <2>1. /\ stored' = [stored EXCEPT !.center = old.list]
          /\ told' = told \cup {old.notice} /\ kept' = kept
      BY <1>1, <1>4 DEF SaveState
    <2>2. stored'.center = old.list /\ stored'.preferences = stored.preferences
      BY <2>1 DEF StateInv, StateTypes
    <2>3. StateTypes'
      BY <1>2, <1>3, <2>1, NoUpdateIs, UpdateStep DEF StateInv, StateTypes
    <2>4. RestorableInv'
      BY <1>3, <2>2, NoUpdateIs, DefaultsRestore, RestorableStep DEF StateInv, RestorableInv
    <2>5. ASSUME serial, running
          PROVE  /\ \A u \in StateThreads \ {t} : update[u].pc = "idle"
                 /\ StoreFits(center', preferences', stored', told', kept')
      <3>1. /\ \A u \in StateThreads \ {t} : update[u].pc = "idle"
            /\ old.list = center /\ old.notice \in Range(center)
            /\ StoreFits(center, preferences, stored, told, kept)
        BY <1>1, <1>2, <1>4, <2>5, Alone DEF StateInv, CallFits
      <3> QED
        BY <1>3, <2>1, <2>2, <3>1 DEF StoreFits
    <2>6. CallFits(NoUpdate, center', preferences', kept')
      BY NoUpdateIs DEF CallFits
    <2>7. SerialInv'
      BY <1>3, <2>5, <2>6, NoUpdateIs, SerialStep DEF StateInv
    <2> QED
      BY <2>3, <2>4, <2>7 DEF StateInv
  <1>5. CASE old.of = "preferences"
    <2>1. /\ stored' = [stored EXCEPT !.preferences = old.values]
          /\ kept' = kept \cup {old.field} /\ told' = told
      BY <1>1, <1>5 DEF SaveState
    <2>2. stored'.preferences = old.values /\ stored'.center = stored.center
      BY <2>1 DEF StateInv, StateTypes
    <2>3. StateTypes'
      BY <1>2, <1>3, <2>1, NoUpdateIs, UpdateStep DEF StateInv, StateTypes
    <2>4. RestorableInv'
      BY <1>1, <1>3, <2>2, NoUpdateIs, DefaultsRestore, RestorableStep DEF StateInv, RestorableInv
    <2>5. ASSUME serial, running
          PROVE  /\ \A u \in StateThreads \ {t} : update[u].pc = "idle"
                 /\ StoreFits(center', preferences', stored', told', kept')
      <3>1. /\ \A u \in StateThreads \ {t} : update[u].pc = "idle"
            /\ old.values = preferences
            /\ StoreFits(center, preferences, stored, told, kept)
        BY <1>1, <1>2, <1>5, <2>5, Alone DEF StateInv, CallFits
      <3> QED
        BY <1>3, <2>1, <2>2, <3>1 DEF StoreFits
    <2>6. CallFits(NoUpdate, center', preferences', kept')
      BY NoUpdateIs DEF CallFits
    <2>7. SerialInv'
      BY <1>3, <2>5, <2>6, NoUpdateIs, SerialStep DEF StateInv
    <2> QED
      BY <2>3, <2>4, <2>7 DEF StateInv
  <1> QED
    BY <1>2, <1>4, <1>5

LEMMA SaveFailureKeeps ==
    ASSUME StateInv, NEW t \in StateThreads, SaveStateFails(t)
    PROVE  StateInv'
  <1>1. /\ Continues(t, NoUpdate) /\ update[t].pc = "save"
        /\ UNCHANGED <<center, preferences, stored, stateCalls, told, kept, foreign, serial, running>>
    BY DEF SaveStateFails, Answered
  <1>2. StateTypes'
    BY <1>1, NoUpdateIs, UpdateStep DEF StateInv, StateTypes
  <1>3. RestorableInv'
    BY <1>1, NoUpdateIs, DefaultsRestore, RestorableStep DEF StateInv, RestorableInv
  <1>4. ASSUME serial, running
        PROVE  /\ \A u \in StateThreads \ {t} : update[u].pc = "idle"
               /\ StoreFits(center', preferences', stored', told', kept')
    BY <1>1, <1>4, Alone DEF StateInv
  <1>5. CallFits(NoUpdate, center', preferences', kept')
    BY NoUpdateIs DEF CallFits
  <1>6. SerialInv'
    BY <1>1, <1>4, <1>5, NoUpdateIs, SerialStep DEF StateInv
  <1> QED
    BY <1>2, <1>3, <1>6 DEF StateInv

LEMMA RestartKeeps ==
    ASSUME StateInv, StateRestart
    PROVE  StateInv'
  <1>1. /\ update' = [t \in StateThreads |-> NoUpdate]
        /\ UNCHANGED <<stored, stateCalls, told, kept, foreign, serial>>
        /\ running
    BY DEF StateRestart
  <1>2. /\ stored.center \in Seq(Notices) /\ stored.preferences \in [Fields -> PreferenceValues]
        /\ center \in Seq(Notices) /\ preferences \in [Fields -> PreferenceValues]
    BY DEF StateInv, StateTypes
  <1>3. CASE Restorable(stored.preferences)
    <2>1. center' = stored.center /\ preferences' = stored.preferences /\ running' = running
      BY <1>3 DEF StateRestart
    <2>2. StateTypes'
      BY <1>1, <1>2, <2>1, NoUpdateIs DEF StateInv, StateTypes
    <2>3. RestorableInv'
      BY <1>1, <1>3, <2>1, NoUpdateIs, DefaultsRestore DEF RestorableInv
    <2>4. SerialInv'
      <3>1. SUFFICES ASSUME serial PROVE SerialInv'
        BY <1>1 DEF SerialInv
      <3>2. StoreFits(center, preferences, stored, told, kept)
        BY <1>1, <3>1 DEF StateInv, SerialInv
      <3>3. StoreFits(center', preferences', stored', told', kept')
        BY <1>1, <2>1, <3>2 DEF StoreFits
      <3>4. \A t \in StateThreads : update'[t] = NoUpdate
        BY <1>1
      <3>5. OneCall' /\ \A t \in StateThreads : CallFits(update'[t], center', preferences', kept')
        BY <3>4, NoUpdateIs DEF OneCall, CallFits
      <3> QED
        BY <3>3, <3>5 DEF SerialInv
    <2> QED
      BY <2>2, <2>3, <2>4 DEF StateInv
  <1>4. CASE ~Restorable(stored.preferences)
    <2>1. running' = FALSE /\ UNCHANGED <<center, preferences>>
      BY <1>4 DEF StateRestart
    <2>2. StateTypes'
      BY <1>1, <1>2, <2>1, NoUpdateIs DEF StateInv, StateTypes
    <2>3. foreign
      BY <1>4 DEF StateInv, RestorableInv
    <2>4. RestorableInv' /\ SerialInv'
      BY <1>1, <2>1, <2>3 DEF RestorableInv, SerialInv
    <2> QED
      BY <2>2, <2>4 DEF StateInv
  <1> QED
    BY <1>3, <1>4

LEMMA StateInvHolds == StateSpec => []StateInv
  <1>1. StateInit => StateInv
    <2>1. SUFFICES ASSUME StateInit PROVE StateInv
      OBVIOUS
    <2>2. <<>> \in Seq(Notices) /\ Defaults \in [Fields -> PreferenceValues]
      BY DEF Defaults, PreferenceValues
    <2>3. StateTypes
      BY <2>1, <2>2, NoUpdateIs DEF StateInit, StateTypes
    <2>4. RestorableInv
      BY <2>1, NoUpdateIs, DefaultsRestore DEF StateInit, RestorableInv
    <2>5. StoreFits(center, preferences, stored, told, kept)
      BY <2>1 DEF StateInit, StoreFits, Numbered, Range
    <2>6. OneCall /\ \A t \in StateThreads : CallFits(update[t], center, preferences, kept)
      BY <2>1, NoUpdateIs DEF StateInit, OneCall, CallFits
    <2> QED
      BY <2>3, <2>4, <2>5, <2>6 DEF StateInv, SerialInv
  <1>2. StateInv /\ [StateNext]_stateVars => StateInv'
    <2>1. StateInv /\ UNCHANGED stateVars => StateInv'
      BY DEF stateVars, StateInv, StateTypes, RestorableInv, SerialInv, OneCall
    <2>2. StateInv /\ StateNext => StateInv'
      BY NumberKeeps, AppendKeeps, TakeKeeps, ReplaceKeeps, AssignKeeps, SaveKeeps,
         SaveFailureKeeps, RestartKeeps DEF StateNext
    <2> QED
      BY <2>1, <2>2
  <1> QED
    BY <1>1, <1>2, PTL DEF StateSpec

(* The event a caller was told of and the preference it set are there for
   every client: see AnsweredIsStored.                                     *)
THEOREM AnswersAreStored == StateSpec => []AnsweredIsStored
  <1>1. StateInv => AnsweredIsStored
    BY DEF StateInv, SerialInv, StoreFits, Numbered, AnsweredIsStored
  <1> QED
    BY <1>1, StateInvHolds, PTL

(* The service starts with what it stored, whatever saves failed before:
   see ServiceStartsAgain.                                                 *)
THEOREM ServiceRestarts == StateSpec => []ServiceStartsAgain
  <1>1. StateInv => ServiceStartsAgain
    BY DEF StateInv, RestorableInv, ServiceStartsAgain
  <1> QED
    BY <1>1, StateInvHolds, PTL

-----------------------------------------------------------------------------
(* OperationRecords: two files written at different times never contradict
   each other, nor what was acknowledged.                                  *)

RecordsSpec == RecordsInit /\ [][RecordsNext]_recordVars

(* Times in order; the last is no smaller than their number, which bounds
   the length of what a bounded clock has named.                           *)
TimesUpTo(c) ==
    {r \in Seq(1..c) : /\ \A i \in 1..(Len(r) - 1) : r[i] < r[i + 1]
                       /\ r # <<>> => Len(r) <= r[Len(r)]}

Payloads(c) == [audit : TimesUpTo(c), switch : BOOLEAN]

RecordCalls ==
    [pc : {"idle", "decide", "state", "payload", "replace safety", "gate", "operate", "compose",
           "replace memory", "acknowledge"},
     at : Nat, switch : BOOLEAN, then : {"idle", "gate", "acknowledge"}]

RecordTypes ==
    /\ clock \in 0..MaxRecords
    /\ audit \in TimesUpTo(clock) /\ memory \in TimesUpTo(clock)
    /\ memoryFile \in [saved : TimesUpTo(clock), temp : SUBSET TimesUpTo(clock)]
    /\ safetyFile \in [saved : Payloads(clock), temp : SUBSET Payloads(clock)]
    /\ call \in [RecordThreads -> RecordCalls]
    /\ switch \in BOOLEAN /\ acknowledged \in BOOLEAN /\ calm \in BOOLEAN
    /\ recordFaults \in 0..MaxRecordFaults

SafetySteps == {"state", "payload", "replace safety"}

(* A cycle that has a decision of its own under way, and none of its
   operation yet.                                                          *)
Deciding(c) ==
    \/ c.pc \in {"decide", "gate", "operate"}
    \/ c.pc \in SafetySteps /\ c.then = "gate"

(* The time of a cycle is its own, and is in no record before the cycle puts
   it there: what Chronological lets pass is later, not merely no earlier. *)
FreshTimes ==
    /\ \A t \in RecordThreads : call[t].at <= clock
    /\ \A t, u \in RecordThreads : t # u /\ call[t].at # 0 => call[t].at # call[u].at
    /\ \A t \in RecordThreads :
          /\ Deciding(call[t]) => call[t].at # 0 /\ call[t].at \notin Range(memory)
          /\ call[t].pc = "decide" => call[t].at \notin Range(audit)

(* s is where t begins.                                                    *)
Begins(s, t) == Len(s) <= Len(t) /\ \A i \in 1..Len(s) : s[i] = t[i]

OneSaver ==
    \A t, u \in RecordThreads : t # u =>
       /\ ~(SavingSafety(t) /\ SavingSafety(u))
       /\ ~(call[t].pc = "replace memory" /\ call[u].pc = "replace memory")

(* What a call has been promised of the safety file: its decision is in
   memory, then in the temporary file it wrote, then saved. That file is
   between what is saved and what is in memory.                            *)
SafetyFits(c, file, records, upTo) ==
    /\ c.pc \in {"state", "payload"} /\ c.then = "gate" => c.at \in Range(records)
    /\ c.pc \in {"gate", "operate"} => c.at \in Range(file.saved.audit)
    /\ c.pc = "replace safety" =>
          \E p \in Payloads(upTo) :
             /\ file.temp = {p} /\ p.switch = c.switch
             /\ Begins(file.saved.audit, p.audit) /\ Begins(p.audit, records)
             /\ c.then = "gate" => c.at \in Range(p.audit)

MemoryFits(c, file, records, upTo) ==
    c.pc = "replace memory" =>
       \E p \in TimesUpTo(upTo) :
          file.temp = {p} /\ Begins(file.saved, p) /\ Begins(p, records)

(* A decision is saved before the operation that rests on it is in memory
   at all, which is more than the property asks of the two files.          *)
FilesFit ==
    /\ Begins(safetyFile.saved.audit, audit) /\ Begins(memoryFile.saved, memory)
    /\ Range(memory) \subseteq Range(safetyFile.saved.audit)

AuditedInv ==
    calm =>
       /\ OneSaver /\ FilesFit
       /\ \A t \in RecordThreads : /\ SafetyFits(call[t], safetyFile, audit, clock)
                                   /\ MemoryFits(call[t], memoryFile, memory, clock)

(* An activation is in force from the save on, before it returns; while it
   is, whoever saves has taken the switch as active.                       *)
InForce ==
    \/ acknowledged
    \/ \E t \in RecordThreads : call[t].pc = "acknowledge" /\ call[t].then = "acknowledge"

SwitchInv ==
    calm =>
       /\ InForce => /\ switch /\ safetyFile.saved.switch
                     /\ \A t \in RecordThreads : SavingSafety(t) => call[t].switch
       /\ \A t \in RecordThreads :
             call[t].pc \in SafetySteps /\ call[t].then = "acknowledge" =>
                switch /\ (SavingSafety(t) => call[t].switch)

RecordsInv == RecordTypes /\ FreshTimes /\ AuditedInv /\ SwitchInv

(* What the proof uses of sequences.                                       *)
LEMMA SequenceOf ==
    ASSUME NEW c \in Nat, NEW r \in TimesUpTo(c)
    PROVE  /\ Len(r) \in Nat /\ DOMAIN r = 1..Len(r) /\ r \in Seq(1..c)
           /\ \A i \in 1..Len(r) : r[i] \in 1..c
           /\ \A i \in 1..(Len(r) - 1) : r[i] < r[i + 1]
           /\ Len(r) > 0 => Len(r) <= r[Len(r)]
           /\ Range(r) \subseteq 1..c
  <1>1. r \in Seq(1..c) /\ \A i \in 1..(Len(r) - 1) : r[i] < r[i + 1]
    BY DEF TimesUpTo
  <1>2. Len(r) \in Nat /\ DOMAIN r = 1..Len(r) /\ \A i \in 1..Len(r) : r[i] \in 1..c
    BY <1>1
  <1>3. Len(r) > 0 => Len(r) <= r[Len(r)]
    BY <1>1 DEF TimesUpTo
  <1> QED
    BY <1>1, <1>2, <1>3 DEF Range

LEMMA TimesGrow ==
    ASSUME NEW c \in Nat, NEW d \in Nat, c <= d
    PROVE  TimesUpTo(c) \subseteq TimesUpTo(d) /\ Payloads(c) \subseteq Payloads(d)
  <1>1. ASSUME NEW r \in TimesUpTo(c) PROVE r \in TimesUpTo(d)
    <2>1. /\ Len(r) \in Nat /\ DOMAIN r = 1..Len(r) /\ r \in Seq(1..c)
          /\ \A i \in 1..Len(r) : r[i] \in 1..c
      BY <1>1, SequenceOf
    <2>2. \A i \in 1..Len(r) : r[i] \in 1..d
      BY <2>1
    <2>3. r = [i \in 1..Len(r) |-> r[i]]
      BY <2>1
    <2>4. r \in Seq(1..d)
      BY <2>1, <2>2, <2>3
    <2> QED
      BY <1>1, <2>4 DEF TimesUpTo
  <1> QED
    BY <1>1 DEF Payloads

LEMMA BeginsItself == ASSUME NEW c \in Nat, NEW r \in TimesUpTo(c) PROVE Begins(r, r)
  BY SequenceOf DEF Begins

LEMMA BeginsOn ==
    ASSUME NEW c \in Nat, NEW r \in TimesUpTo(c), NEW s \in TimesUpTo(c), NEW t \in TimesUpTo(c),
           Begins(r, s), Begins(s, t)
    PROVE  Begins(r, t)
  <1>1. Len(r) \in Nat /\ Len(s) \in Nat /\ Len(t) \in Nat
    BY SequenceOf
  <1> QED
    BY <1>1 DEF Begins

LEMMA BeginsRange ==
    ASSUME NEW c \in Nat, NEW r \in TimesUpTo(c), NEW s \in TimesUpTo(c), Begins(r, s)
    PROVE  Range(r) \subseteq Range(s)
  <1>1. Len(r) \in Nat /\ Len(s) \in Nat /\ DOMAIN r = 1..Len(r) /\ DOMAIN s = 1..Len(s)
    BY SequenceOf
  <1>2. \A i \in 1..Len(r) : i \in 1..Len(s) /\ r[i] = s[i]
    BY <1>1 DEF Begins
  <1> QED
    BY <1>1, <1>2 DEF Range

LEMMA BeginsIsPrefix ==
    ASSUME NEW c \in Nat, NEW r \in TimesUpTo(c), NEW s \in TimesUpTo(c), Begins(r, s)
    PROVE  IsPrefix(r, s)
  <1>1. /\ Len(r) \in Nat /\ Len(s) \in Nat /\ Len(r) <= Len(s)
        /\ \A i \in 1..Len(r) : r[i] = s[i]
        /\ r \in Seq(1..c) /\ s \in Seq(1..c)
    BY SequenceOf DEF Begins
  <1>2. SubSeq(r, 1, Len(r)) = [i \in 1..Len(r) |-> r[i]]
    BY <1>1
  <1>3. SubSeq(s, 1, Len(r)) = [i \in 1..Len(r) |-> s[i]]
    BY <1>1
  <1> QED
    BY <1>1, <1>2, <1>3 DEF IsPrefix

(* A time that is not in the record and not before its last is after it.   *)
LEMMA Chronicled ==
    ASSUME NEW c \in Nat, NEW r \in TimesUpTo(c), NEW at \in 1..c, at \notin Range(r),
           Chronological(r, at)
    PROVE  /\ Append(r, at) \in TimesUpTo(c) /\ Range(Append(r, at)) = Range(r) \cup {at}
           /\ Begins(r, Append(r, at))
  <1>1. /\ Len(r) \in Nat /\ DOMAIN r = 1..Len(r) /\ r \in Seq(1..c)
        /\ \A i \in 1..Len(r) : r[i] \in 1..c
        /\ \A i \in 1..(Len(r) - 1) : r[i] < r[i + 1]
        /\ Len(r) > 0 => Len(r) <= r[Len(r)]
    BY SequenceOf
  <1>2. PICK s : s = Append(r, at)
    OBVIOUS
  <1>3. /\ s \in Seq(1..c) /\ Len(s) = Len(r) + 1 /\ DOMAIN s = 1..(Len(r) + 1)
        /\ \A i \in 1..Len(r) : s[i] = r[i]
        /\ s[Len(r) + 1] = at
    BY <1>1, <1>2
  <1>4. Len(r) > 0 => r[Len(r)] < at
    <2>1. SUFFICES ASSUME Len(r) > 0 PROVE r[Len(r)] < at
      OBVIOUS
    <2>2. r # <<>> /\ Len(r) \in DOMAIN r
      BY <1>1, <2>1
    <2>3. r[Len(r)] <= at
      BY <2>2 DEF Chronological, Last
    <2>4. r[Len(r)] # at
      BY <2>2 DEF Range
    <2> QED
      BY <1>1, <2>1, <2>3, <2>4
  <1>5. \A i \in 1..(Len(s) - 1) : s[i] < s[i + 1]
    <2>1. ASSUME NEW i \in 1..Len(r) PROVE s[i] < s[i + 1]
      <3>1. CASE i = Len(r)
        BY <1>3, <1>4, <2>1, <3>1
      <3>2. CASE i # Len(r)
        <4>1. PICK n \in Nat : n = Len(r)
          BY <1>1
        <4>2. i \in 1..n /\ i # n
          BY <2>1, <3>2, <4>1
        <4>3. i \in 1..(n - 1) /\ i + 1 \in 1..n
          BY <4>2
        <4> QED
          BY SMTT(20), <1>1, <1>3, <4>1, <4>3
      <3> QED
        BY <3>1, <3>2
    <2> QED
      BY <1>1, <1>3, <2>1
  <1>6. Len(s) <= s[Len(s)]
    BY <1>1, <1>3, <1>4
  <1>7. s \in TimesUpTo(c)
    BY <1>3, <1>5, <1>6 DEF TimesUpTo
  <1>8. Range(s) = Range(r) \cup {at}
    <2>1. ASSUME NEW x \in Range(s) PROVE x \in Range(r) \cup {at}
      <3>1. PICK i \in 1..(Len(r) + 1) : x = s[i]
        BY <1>3, <2>1 DEF Range
      <3>2. i \in 1..Len(r) \/ i = Len(r) + 1
        BY <1>1
      <3> QED
        BY <1>1, <1>3, <3>1, <3>2 DEF Range
    <2>2. ASSUME NEW i \in 1..Len(r) PROVE r[i] \in Range(s)
      <3>1. i \in DOMAIN s /\ s[i] = r[i]
        BY <1>1, <1>3
      <3> QED
        BY <3>1 DEF Range
    <2>3. at \in Range(s)
      <3>1. Len(r) + 1 \in DOMAIN s
        BY <1>1, <1>3
      <3> QED
        BY <1>3, <3>1 DEF Range
    <2> QED
      BY <1>1, <2>1, <2>2, <2>3 DEF Range
  <1>9. Begins(r, s)
    BY <1>1, <1>3 DEF Begins
  <1> QED
    BY <1>2, <1>7, <1>8, <1>9

(* What is in memory and in a file stays a promise when more is recorded.  *)
LEMMA SafetyStillFits ==
    ASSUME NEW c, NEW upTo \in Nat, NEW later \in Nat, upTo <= later,
           NEW file \in [saved : Payloads(upTo), temp : SUBSET Payloads(upTo)],
           NEW records \in TimesUpTo(upTo), NEW more \in TimesUpTo(later), Begins(records, more),
           SafetyFits(c, file, records, upTo)
    PROVE  SafetyFits(c, file, more, later)
  <1>1. records \in TimesUpTo(later) /\ Payloads(upTo) \subseteq Payloads(later)
    BY TimesGrow
  <1>2. Range(records) \subseteq Range(more)
    BY <1>1, BeginsRange
  <1>3. \A p \in Payloads(upTo) : Begins(p.audit, records) => Begins(p.audit, more)
    <2>1. \A p \in Payloads(upTo) : p.audit \in TimesUpTo(later)
      BY <1>1 DEF Payloads
    <2> QED
      BY <1>1, <2>1, BeginsOn
  <1> QED
    BY <1>1, <1>2, <1>3 DEF SafetyFits

LEMMA MemoryStillFits ==
    ASSUME NEW c, NEW upTo \in Nat, NEW later \in Nat, upTo <= later, NEW file,
           NEW records \in TimesUpTo(upTo), NEW more \in TimesUpTo(later), Begins(records, more),
           MemoryFits(c, file, records, upTo)
    PROVE  MemoryFits(c, file, more, later)
  <1>1. records \in TimesUpTo(later) /\ TimesUpTo(upTo) \subseteq TimesUpTo(later)
    BY TimesGrow
  <1>2. \A p \in TimesUpTo(upTo) : Begins(p, records) => Begins(p, more)
    BY <1>1, BeginsOn
  <1> QED
    BY <1>1, <1>2 DEF MemoryFits

-----------------------------------------------------------------------------
(* One thread goes on with c, and the others stay where they are.          *)
Goes(t, c) ==
    /\ call' \in [RecordThreads -> RecordCalls] /\ call'[t] = c
    /\ \A u \in RecordThreads \ {t} : call'[u] = call[u]

LEMMA NoRecordCallIs ==
    /\ NoRecordCall \in RecordCalls /\ NoRecordCall.pc = "idle" /\ NoRecordCall.at = 0
    /\ NoRecordCall.then = "idle"
  BY DEF NoRecordCall, RecordCalls

LEMMA CallGoes ==
    ASSUME RecordTypes, NEW t \in RecordThreads, NEW c \in RecordCalls, call' = [call EXCEPT ![t] = c]
    PROVE  Goes(t, c)
  BY DEF RecordTypes, Goes

LEMMA LeavesGoes ==
    ASSUME RecordTypes, NEW t \in RecordThreads, Leaves(t)
    PROVE  Goes(t, NoRecordCall)
  BY CallGoes, NoRecordCallIs DEF Leaves

Pcs == {"idle", "decide", "state", "payload", "replace safety", "gate", "operate", "compose",
        "replace memory", "acknowledge"}

LEMMA MovesGoes ==
    ASSUME RecordTypes, NEW t \in RecordThreads, NEW pc \in Pcs, Moves(t, pc)
    PROVE  \E c \in RecordCalls : /\ Goes(t, c) /\ c.pc = pc /\ c.at = call[t].at
                                  /\ c.switch = call[t].switch /\ c.then = call[t].then
  <1>1. PICK c : c = [call[t] EXCEPT !.pc = pc]
    OBVIOUS
  <1>2. /\ c \in RecordCalls /\ c.pc = pc /\ c.at = call[t].at
        /\ c.switch = call[t].switch /\ c.then = call[t].then
    BY <1>1 DEF RecordTypes, RecordCalls, Pcs
  <1>3. call' = [call EXCEPT ![t] = c]
    BY <1>1 DEF Moves
  <1> QED
    BY <1>2, <1>3, CallGoes

(* A record is written into by the cycle whose time it takes, and by no
   other: the times of the others stay out of it.                          *)
LEMMA FreshStep ==
    ASSUME RecordTypes, FreshTimes, NEW t \in RecordThreads, NEW c, Goes(t, c), UNCHANGED clock,
           c.at \in {0, call[t].at},
           Range(memory') \subseteq Range(memory) \cup ({call[t].at} \ {0}),
           Range(audit') \subseteq Range(audit) \cup ({call[t].at} \ {0}),
           Deciding(c) => c.at # 0 /\ c.at \notin Range(memory'),
           c.pc = "decide" => c.at \notin Range(audit')
    PROVE  FreshTimes'
  <1>1. \A u \in RecordThreads : call'[u].at \in {0, call[u].at} /\ call'[u].at <= clock'
    BY DEF Goes, FreshTimes, RecordTypes
  <1>2. \A u, v \in RecordThreads : u # v /\ call'[u].at # 0 => call'[u].at # call'[v].at
    BY <1>1 DEF FreshTimes
  <1>3. ASSUME NEW u \in RecordThreads
        PROVE  /\ Deciding(call'[u]) => call'[u].at # 0 /\ call'[u].at \notin Range(memory')
               /\ call'[u].pc = "decide" => call'[u].at \notin Range(audit')
    <2>1. CASE u = t
      BY <2>1 DEF Goes
    <2>2. CASE u # t
      <3>1. call'[u] = call[u]
        BY <2>2 DEF Goes
      <3>2. Deciding(call[u]) => call[u].at # 0 /\ call[u].at \notin Range(memory')
        BY <2>2 DEF FreshTimes
      <3>3. call[u].pc = "decide" => Deciding(call[u]) /\ call[u].at \notin Range(audit')
        BY <2>2, <3>2 DEF FreshTimes, Deciding
      <3> QED
        BY <3>1, <3>2, <3>3
    <2> QED
      BY <2>1, <2>2
  <1>4. \A u \in RecordThreads : call'[u].at <= clock'
    BY <1>1
  <1> QED
    BY <1>2, <1>3, <1>4 DEF FreshTimes

(* A thread that is not saving begins to save only while nobody is.        *)
LEMMA OneSaverStep ==
    ASSUME RecordTypes, NEW t \in RecordThreads, NEW c, Goes(t, c), OneSaver,
           c.pc \in {"payload", "replace safety"} =>
              SavingSafety(t) \/ \A u \in RecordThreads \ {t} : ~SavingSafety(u),
           c.pc = "replace memory" =>
              \/ call[t].pc = "replace memory"
              \/ \A u \in RecordThreads \ {t} : call[u].pc # "replace memory"
    PROVE  OneSaver'
  BY DEF Goes, OneSaver, SavingSafety

LEMMA AuditedStep ==
    ASSUME RecordTypes, AuditedInv, NEW t \in RecordThreads, NEW c, Goes(t, c),
           calm' =>
              /\ calm
              /\ c.pc \in {"payload", "replace safety"} =>
                    SavingSafety(t) \/ \A u \in RecordThreads \ {t} : ~SavingSafety(u)
              /\ c.pc = "replace memory" =>
                    \/ call[t].pc = "replace memory"
                    \/ \A u \in RecordThreads \ {t} : call[u].pc # "replace memory"
              /\ FilesFit'
              /\ SafetyFits(c, safetyFile', audit', clock')
              /\ MemoryFits(c, memoryFile', memory', clock')
              /\ \A u \in RecordThreads \ {t} : /\ SafetyFits(call[u], safetyFile', audit', clock')
                                                /\ MemoryFits(call[u], memoryFile', memory', clock')
    PROVE  AuditedInv'
  <1>1. SUFFICES ASSUME calm' PROVE AuditedInv'
    BY DEF AuditedInv
  <1>2. OneSaver'
    BY <1>1, OneSaverStep DEF AuditedInv
  <1>3. ASSUME NEW u \in RecordThreads
        PROVE  /\ SafetyFits(call'[u], safetyFile', audit', clock')
               /\ MemoryFits(call'[u], memoryFile', memory', clock')
    BY <1>1 DEF Goes
  <1> QED
    BY <1>1, <1>2, <1>3 DEF AuditedInv

(* The switch, its place in the file and the answers stay, and the thread
   saves on with what it took or is not on the way to an answer.           *)
LEMMA SwitchQuiet ==
    ASSUME RecordTypes, SwitchInv, NEW t \in RecordThreads, NEW c, Goes(t, c),
           calm' => calm, UNCHANGED <<switch, acknowledged>>,
           safetyFile'.saved.switch = safetyFile.saved.switch,
           c.pc # "acknowledge",
           c.pc \in {"payload", "replace safety"} =>
              SavingSafety(t) /\ c.switch = call[t].switch /\ c.then = call[t].then,
           c.pc = "state" => c.then # "acknowledge"
    PROVE  SwitchInv'
  <1>1. SUFFICES ASSUME calm' PROVE SwitchInv'
    BY DEF SwitchInv
  <1>2. InForce' => InForce
    BY DEF InForce, Goes
  <1>3. ASSUME NEW u \in RecordThreads, SavingSafety(u)'
        PROVE  SavingSafety(u) /\ call'[u].switch = call[u].switch
    BY <1>3 DEF SavingSafety, Goes
  <1>4. ASSUME NEW u \in RecordThreads, call'[u].pc \in SafetySteps, call'[u].then = "acknowledge"
        PROVE  call[u].pc \in SafetySteps /\ call[u].then = "acknowledge"
    BY <1>4 DEF SafetySteps, SavingSafety, Goes
  <1>5. InForce' => /\ switch' /\ safetyFile'.saved.switch
                    /\ \A u \in RecordThreads : SavingSafety(u)' => call'[u].switch
    BY <1>1, <1>2, <1>3 DEF SwitchInv
  <1>6. ASSUME NEW u \in RecordThreads, call'[u].pc \in SafetySteps, call'[u].then = "acknowledge"
        PROVE  switch' /\ (SavingSafety(u)' => call'[u].switch)
    BY <1>1, <1>3, <1>4, <1>6 DEF SwitchInv
  <1> QED
    BY <1>5, <1>6 DEF SwitchInv

-----------------------------------------------------------------------------
(* One lemma for each action.                                              *)
LEMMA RecordFacts ==
    ASSUME RecordTypes
    PROVE  /\ clock \in Nat /\ MaxRecords \in Nat /\ clock <= MaxRecords
           /\ Range(audit) \subseteq 1..clock /\ Range(memory) \subseteq 1..clock
           /\ \A t \in RecordThreads : call[t] \in RecordCalls /\ call[t].at \in Nat
           /\ safetyFile.saved \in Payloads(clock) /\ safetyFile.saved.audit \in TimesUpTo(clock)
           /\ memoryFile.saved \in TimesUpTo(clock)
  <1>1. clock \in Nat /\ MaxRecords \in Nat /\ clock <= MaxRecords
    BY RecordsAssumption DEF RecordTypes
  <1>2. Range(audit) \subseteq 1..clock /\ Range(memory) \subseteq 1..clock
    BY <1>1, SequenceOf DEF RecordTypes
  <1> QED
    BY <1>1, <1>2 DEF RecordTypes, RecordCalls, Payloads

LEMMA CallsGo ==
    ASSUME RecordTypes, NEW t \in RecordThreads, NEW c, Goes(t, c)
    PROVE  call' \in [RecordThreads -> RecordCalls]
  BY DEF Goes

(* The records, the files and the clock stay: what was promised stays.     *)
LEMMA NothingRecorded ==
    ASSUME RecordTypes, AuditedInv, NEW t \in RecordThreads, NEW c, Goes(t, c),
           UNCHANGED <<clock, audit, memory, safetyFile, memoryFile>>,
           calm' =>
              /\ calm
              /\ c.pc \in {"payload", "replace safety"} =>
                    SavingSafety(t) \/ \A u \in RecordThreads \ {t} : ~SavingSafety(u)
              /\ c.pc = "replace memory" =>
                    \/ call[t].pc = "replace memory"
                    \/ \A u \in RecordThreads \ {t} : call[u].pc # "replace memory"
              /\ SafetyFits(c, safetyFile, audit, clock)
              /\ MemoryFits(c, memoryFile, memory, clock)
    PROVE  AuditedInv'
  <1>1. ASSUME calm'
        PROVE  /\ FilesFit'
               /\ \A u \in RecordThreads : /\ SafetyFits(call[u], safetyFile', audit', clock')
                                           /\ MemoryFits(call[u], memoryFile', memory', clock')
    BY <1>1 DEF AuditedInv, FilesFit
  <1> QED
    BY <1>1, AuditedStep

(* A thread that leaves takes nothing along.                               *)
LEMMA LeavingKeeps ==
    ASSUME RecordsInv, NEW t \in RecordThreads, Goes(t, NoRecordCall),
           UNCHANGED <<clock, audit, memory, switch, safetyFile, memoryFile, acknowledged, calm>>,
           recordFaults' \in 0..MaxRecordFaults
    PROVE  RecordsInv'
  <1> USE DEF RecordsInv
  <1>1. RecordTypes'
    BY DEF RecordTypes, Goes
  <1>2. FreshTimes'
    BY NoRecordCallIs, FreshStep DEF Deciding, SafetySteps
  <1>3. AuditedInv'
    <2>1. /\ SafetyFits(NoRecordCall, safetyFile, audit, clock)
          /\ MemoryFits(NoRecordCall, memoryFile, memory, clock)
      BY NoRecordCallIs DEF SafetyFits, MemoryFits
    <2> QED
      BY <2>1, NoRecordCallIs, NothingRecorded
  <1>4. SwitchInv'
    BY NoRecordCallIs, SwitchQuiet
  <1> QED
    BY <1>1, <1>2, <1>3, <1>4

LEMMA BeginCycleKeeps ==
    ASSUME RecordsInv, NEW w \in RecordThreads, BeginCycle(w)
    PROVE  RecordsInv'
  <1> USE DEF RecordsInv
  <1>1. PICK c : c = [call[w] EXCEPT !.pc = "decide", !.at = clock']
    OBVIOUS
  <1>2. clock \in Nat /\ clock' = clock + 1 /\ clock' \in 0..MaxRecords /\ clock <= clock'
    BY RecordFacts DEF BeginCycle
  <1>3. c \in RecordCalls /\ c.pc = "decide" /\ c.at = clock'
    <2>1. call[w] \in RecordCalls /\ clock' \in Nat
      BY <1>2, RecordFacts
    <2> QED
      BY <1>1, <2>1 DEF RecordCalls
  <1>4. Goes(w, c)
    <2>1. call' = [call EXCEPT ![w] = c]
      BY <1>1 DEF BeginCycle
    <2> QED
      BY <1>3, <2>1, CallGoes
  <1>5. RecordTypes'
    <2>1. TimesUpTo(clock) \subseteq TimesUpTo(clock') /\ Payloads(clock) \subseteq Payloads(clock')
      BY <1>2, TimesGrow
    <2>2. UNCHANGED <<audit, memory, switch, safetyFile, memoryFile, acknowledged, calm, recordFaults>>
      BY DEF BeginCycle
    <2>3. /\ memoryFile' \in [saved : TimesUpTo(clock'), temp : SUBSET TimesUpTo(clock')]
          /\ safetyFile' \in [saved : Payloads(clock'), temp : SUBSET Payloads(clock')]
      BY <2>1, <2>2 DEF RecordTypes
    <2> QED
      BY <1>2, <1>4, <2>1, <2>2, <2>3 DEF RecordTypes, Goes
  <1>6. FreshTimes'
    <2>1. \A u \in RecordThreads \ {w} : call'[u] = call[u] /\ call[u].at \in Nat /\ call[u].at <= clock
      BY <1>4, RecordFacts DEF Goes, FreshTimes
    <2>2. call'[w].at = clock + 1 /\ call'[w] = c
      BY <1>2, <1>3, <1>4 DEF Goes
    <2>3. clock + 1 \notin Range(memory) /\ clock + 1 \notin Range(audit)
      BY RecordFacts
    <2>4. memory' = memory /\ audit' = audit
      BY DEF BeginCycle
    <2>5. \A u \in RecordThreads : call'[u].at <= clock'
      BY <1>2, <2>1, <2>2
    <2>6. ASSUME NEW u \in RecordThreads, NEW v \in RecordThreads, u # v, call'[u].at # 0
          PROVE  call'[u].at # call'[v].at
      <3>1. CASE u = w
        BY <1>2, <2>1, <2>2, <2>6, <3>1
      <3>2. CASE v = w
        BY <1>2, <2>1, <2>2, <2>6, <3>2
      <3>3. CASE u # w /\ v # w
        BY <2>1, <2>6, <3>3 DEF FreshTimes
      <3> QED
        BY <3>1, <3>2, <3>3
    <2>7. ASSUME NEW u \in RecordThreads
          PROVE  /\ Deciding(call'[u]) => call'[u].at # 0 /\ call'[u].at \notin Range(memory')
                 /\ call'[u].pc = "decide" => call'[u].at \notin Range(audit')
      <3>1. CASE u = w
        BY <1>2, <2>2, <2>3, <2>4, <3>1
      <3>2. CASE u # w
        BY <2>1, <2>4, <3>2 DEF FreshTimes
      <3> QED
        BY <3>1, <3>2
    <2> QED
      BY <2>5, <2>6, <2>7 DEF FreshTimes
  <1>7. AuditedInv'
    <2>1. UNCHANGED <<audit, memory, safetyFile, memoryFile, calm>>
      BY DEF BeginCycle
    <2>2. SafetyFits(c, safetyFile', audit', clock') /\ MemoryFits(c, memoryFile', memory', clock')
      BY <1>3 DEF SafetyFits, MemoryFits
    <2>3. audit' \in TimesUpTo(clock') /\ memory' \in TimesUpTo(clock')
      BY <1>5 DEF RecordTypes
    <2>4. Begins(audit, audit') /\ Begins(memory, memory')
      BY <1>2, <2>1, BeginsItself DEF RecordTypes
    <2>5. ASSUME NEW u \in RecordThreads, calm
          PROVE  /\ SafetyFits(call[u], safetyFile', audit', clock')
                 /\ MemoryFits(call[u], memoryFile', memory', clock')
      <3>1. SafetyFits(call[u], safetyFile, audit, clock) /\ MemoryFits(call[u], memoryFile, memory, clock)
        BY <2>5 DEF AuditedInv
      <3>2. SafetyFits(call[u], safetyFile, audit', clock')
        BY <1>2, <2>3, <2>4, <3>1, SafetyStillFits DEF RecordTypes
      <3>3. MemoryFits(call[u], memoryFile, memory', clock')
        BY <1>2, <2>3, <2>4, <3>1, MemoryStillFits DEF RecordTypes
      <3> QED
        BY <2>1, <3>2, <3>3
    <2>6. calm => FilesFit'
      BY <2>1 DEF AuditedInv, FilesFit
    <2> QED
      BY <1>3, <1>4, <2>1, <2>2, <2>5, <2>6, AuditedStep
  <1>8. SwitchInv'
    <2>1. UNCHANGED <<switch, acknowledged, calm, safetyFile>>
      BY DEF BeginCycle
    <2> QED
      BY <1>3, <1>4, <2>1, SwitchQuiet
  <1> QED
    BY <1>5, <1>6, <1>7, <1>8

LEMMA RecordDecisionKeeps ==
    ASSUME RecordsInv, NEW w \in RecordThreads, RecordDecision(w)
    PROVE  RecordsInv'
  <1> USE DEF RecordsInv
  <1>a. /\ call[w].pc = "decide"
        /\ UNCHANGED <<clock, memory, switch, safetyFile, memoryFile, acknowledged, calm, recordFaults>>
    BY DEF RecordDecision
  <1>b. /\ clock \in Nat /\ call[w] \in RecordCalls /\ call[w].at \in 1..clock
        /\ call[w].at \notin Range(audit) /\ call[w].at \notin Range(memory)
    <2>1. clock \in Nat /\ call[w] \in RecordCalls /\ call[w].at \in Nat
      BY RecordFacts
    <2>2. call[w].at # 0 /\ call[w].at <= clock
      BY <1>a DEF FreshTimes, Deciding
    <2> QED
      BY <1>a, <2>1, <2>2 DEF FreshTimes, Deciding
  <1>1. CASE ~Chronological(audit, call[w].at)
    <2>1. Goes(w, NoRecordCall) /\ audit' = audit
      BY <1>1, LeavesGoes DEF RecordDecision
    <2>2. recordFaults' \in 0..MaxRecordFaults
      BY <1>a DEF RecordTypes
    <2> QED
      BY <1>a, <2>1, <2>2, LeavingKeeps
  <1>2. CASE Chronological(audit, call[w].at)
    <2>1. PICK c : c = [call[w] EXCEPT !.pc = "state", !.then = "gate"]
      OBVIOUS
    <2>2. c \in RecordCalls /\ c.pc = "state" /\ c.then = "gate" /\ c.at = call[w].at
      BY <1>b, <2>1 DEF RecordCalls
    <2>3. Goes(w, c)
      <3>1. call' = [call EXCEPT ![w] = c]
        BY <1>2, <2>1 DEF RecordDecision
      <3> QED
        BY <2>2, <3>1, CallGoes
    <2>4. audit' = Append(audit, call[w].at)
      BY <1>2 DEF RecordDecision
    <2>5. /\ audit' \in TimesUpTo(clock) /\ Range(audit') = Range(audit) \cup {call[w].at}
          /\ Begins(audit, audit')
      BY <1>b, <1>2, <2>4, Chronicled DEF RecordTypes
    <2>6. RecordTypes'
      BY <1>a, <2>3, <2>5 DEF RecordTypes, Goes
    <2>7. FreshTimes'
      <3>1. /\ Range(audit') \subseteq Range(audit) \cup ({call[w].at} \ {0})
            /\ Range(memory') \subseteq Range(memory) \cup ({call[w].at} \ {0})
        BY <1>a, <1>b, <2>5
      <3>2. c.at # 0 /\ c.at \notin Range(memory') /\ c.at \in {0, call[w].at} /\ c.pc # "decide"
        BY <1>a, <1>b, <2>2
      <3> QED
        BY <1>a, <2>3, <3>1, <3>2, FreshStep
    <2>8. AuditedInv'
      <3>1. SafetyFits(c, safetyFile', audit', clock') /\ MemoryFits(c, memoryFile', memory', clock')
        BY <2>2, <2>5 DEF SafetyFits, MemoryFits
      <3>2. ASSUME NEW u \in RecordThreads, calm
            PROVE  /\ SafetyFits(call[u], safetyFile', audit', clock')
                   /\ MemoryFits(call[u], memoryFile', memory', clock')
        <4>1. /\ SafetyFits(call[u], safetyFile, audit, clock)
              /\ MemoryFits(call[u], memoryFile, memory, clock)
          BY <3>2 DEF AuditedInv
        <4>2. SafetyFits(call[u], safetyFile, audit', clock)
          BY <1>b, <2>5, <4>1, SafetyStillFits DEF RecordTypes
        <4> QED
          BY <1>a, <4>1, <4>2
      <3>3. calm => FilesFit'
        <4>1. calm => Begins(safetyFile.saved.audit, audit) /\ FilesFit
          BY DEF AuditedInv, FilesFit
        <4>2. calm => Begins(safetyFile.saved.audit, audit')
          BY <1>b, <2>5, <4>1, BeginsOn, RecordFacts DEF RecordTypes
        <4> QED
          BY <1>a, <4>1, <4>2 DEF FilesFit
      <3> QED
        BY <1>a, <2>2, <2>3, <3>1, <3>2, <3>3, AuditedStep
    <2>9. SwitchInv'
      BY <1>a, <2>2, <2>3, SwitchQuiet
    <2> QED
      BY <2>6, <2>7, <2>8, <2>9
  <1> QED
    BY <1>1, <1>2

LEMMA PassGateKeeps ==
    ASSUME RecordsInv, NEW w \in RecordThreads, PassGate(w)
    PROVE  RecordsInv'
  <1> USE DEF RecordsInv
  <1>a. /\ call[w].pc = "gate"
        /\ UNCHANGED <<clock, audit, memory, switch, safetyFile, memoryFile, acknowledged, calm,
                       recordFaults>>
    BY DEF PassGate
  <1>1. CASE Leaves(w)
    <2>1. Goes(w, NoRecordCall) /\ recordFaults' \in 0..MaxRecordFaults
      BY <1>a, <1>1, LeavesGoes DEF RecordTypes
    <2> QED
      BY <1>a, <2>1, LeavingKeeps
  <1>2. CASE Moves(w, "operate")
    <2>1. "operate" \in Pcs
      BY DEF Pcs
    <2>2. PICK c \in RecordCalls : Goes(w, c) /\ c.pc = "operate" /\ c.at = call[w].at
      BY <1>2, <2>1, MovesGoes
    <2>3. RecordTypes'
      BY <1>a, <2>2 DEF RecordTypes, Goes
    <2>4. FreshTimes'
      <3>1. call[w].at # 0 /\ call[w].at \notin Range(memory)
        BY <1>a DEF FreshTimes, Deciding
      <3> QED
        BY <1>a, <2>2, <3>1, FreshStep
    <2>5. AuditedInv'
      <3>1. calm => SafetyFits(c, safetyFile, audit, clock)
        BY <1>a, <2>2 DEF AuditedInv, SafetyFits
      <3>2. MemoryFits(c, memoryFile, memory, clock)
        BY <2>2 DEF MemoryFits
      <3> QED
        BY <1>a, <2>2, <3>1, <3>2, NothingRecorded
    <2>6. SwitchInv'
      BY <1>a, <2>2, SwitchQuiet
    <2> QED
      BY <2>3, <2>4, <2>5, <2>6
  <1> QED
    BY <1>1, <1>2 DEF PassGate

LEMMA RecordOperationKeeps ==
    ASSUME RecordsInv, NEW w \in RecordThreads, RecordOperation(w)
    PROVE  RecordsInv'
  <1> USE DEF RecordsInv
  <1>a. /\ call[w].pc = "operate"
        /\ UNCHANGED <<clock, audit, switch, safetyFile, memoryFile, acknowledged, calm, recordFaults>>
    BY DEF RecordOperation
  <1>b. clock \in Nat /\ call[w].at \in 1..clock /\ call[w].at \notin Range(memory)
    <2>1. clock \in Nat /\ call[w].at \in Nat
      BY RecordFacts
    <2> QED
      BY <1>a, <2>1 DEF FreshTimes, Deciding
  <1>1. CASE ~Chronological(memory, call[w].at)
    <2>1. Goes(w, NoRecordCall) /\ memory' = memory
      BY <1>1, LeavesGoes DEF RecordOperation
    <2>2. recordFaults' \in 0..MaxRecordFaults
      BY <1>a DEF RecordTypes
    <2> QED
      BY <1>a, <2>1, <2>2, LeavingKeeps
  <1>2. CASE Chronological(memory, call[w].at)
    <2>1. memory' = Append(memory, call[w].at) /\ Moves(w, "compose")
      BY <1>2 DEF RecordOperation
    <2>2. "compose" \in Pcs
      BY DEF Pcs
    <2>3. PICK c \in RecordCalls : Goes(w, c) /\ c.pc = "compose" /\ c.at = call[w].at
      BY <2>1, <2>2, MovesGoes
    <2>4. /\ memory' \in TimesUpTo(clock) /\ Range(memory') = Range(memory) \cup {call[w].at}
          /\ Begins(memory, memory')
      BY <1>b, <1>2, <2>1, Chronicled DEF RecordTypes
    <2>5. RecordTypes'
      BY <1>a, <2>3, <2>4 DEF RecordTypes, Goes
    <2>6. FreshTimes'
      <3>1. /\ Range(audit') \subseteq Range(audit) \cup ({call[w].at} \ {0})
            /\ Range(memory') \subseteq Range(memory) \cup ({call[w].at} \ {0})
        BY <1>a, <1>b, <2>4
      <3> QED
        BY <1>a, <2>3, <3>1, FreshStep DEF Deciding, SafetySteps
    <2>7. AuditedInv'
      <3>1. SafetyFits(c, safetyFile', audit', clock') /\ MemoryFits(c, memoryFile', memory', clock')
        BY <2>3 DEF SafetyFits, MemoryFits
      <3>2. ASSUME NEW u \in RecordThreads, calm
            PROVE  /\ SafetyFits(call[u], safetyFile', audit', clock')
                   /\ MemoryFits(call[u], memoryFile', memory', clock')
        <4>1. /\ SafetyFits(call[u], safetyFile, audit, clock)
              /\ MemoryFits(call[u], memoryFile, memory, clock)
          BY <3>2 DEF AuditedInv
        <4>2. MemoryFits(call[u], memoryFile, memory', clock)
          BY <1>b, <2>4, <4>1, MemoryStillFits DEF RecordTypes
        <4> QED
          BY <1>a, <4>1, <4>2
      <3>3. calm => FilesFit'
        <4>1. calm => FilesFit /\ call[w].at \in Range(safetyFile.saved.audit)
          BY <1>a DEF AuditedInv, SafetyFits
        <4>2. calm => Begins(memoryFile.saved, memory')
          BY <1>b, <2>4, <4>1, BeginsOn, RecordFacts DEF RecordTypes, FilesFit
        <4> QED
          BY <1>a, <2>4, <4>1, <4>2 DEF FilesFit
      <3> QED
        BY <1>a, <2>3, <3>1, <3>2, <3>3, AuditedStep
    <2>8. SwitchInv'
      BY <1>a, <2>3, SwitchQuiet
    <2> QED
      BY <2>5, <2>6, <2>7, <2>8
  <1> QED
    BY <1>1, <1>2

LEMMA ThrowKeeps ==
    ASSUME RecordsInv, NEW o \in RecordThreads, Throw(o)
    PROVE  RecordsInv'
  <1> USE DEF RecordsInv
  <1>a. /\ call[o].pc = "idle" /\ switch' = TRUE
        /\ UNCHANGED <<clock, audit, memory, safetyFile, memoryFile, acknowledged, calm, recordFaults>>
    BY DEF Throw
  <1>1. PICK c : c = [call[o] EXCEPT !.pc = "state", !.then = "acknowledge"]
    OBVIOUS
  <1>2. c \in RecordCalls /\ c.pc = "state" /\ c.then = "acknowledge" /\ c.at = call[o].at
    BY <1>1, RecordFacts DEF RecordCalls
  <1>3. Goes(o, c)
    <2>1. call' = [call EXCEPT ![o] = c]
      BY <1>1 DEF Throw
    <2> QED
      BY <1>2, <2>1, CallGoes
  <1>4. RecordTypes'
    BY <1>a, <1>3 DEF RecordTypes, Goes
  <1>5. FreshTimes'
    BY <1>a, <1>2, <1>3, FreshStep DEF Deciding, SafetySteps
  <1>6. AuditedInv'
    <2>1. SafetyFits(c, safetyFile, audit, clock) /\ MemoryFits(c, memoryFile, memory, clock)
      BY <1>2 DEF SafetyFits, MemoryFits
    <2> QED
      BY <1>a, <1>2, <1>3, <2>1, NothingRecorded
  <1>7. SwitchInv'
    <2>1. InForce' => InForce
      BY <1>a, <1>2, <1>3 DEF InForce, Goes
    <2>2. ASSUME NEW u \in RecordThreads, SavingSafety(u)'
          PROVE  u # o /\ SavingSafety(u) /\ call'[u] = call[u]
      BY <1>2, <1>3, <2>2 DEF SavingSafety, Goes
    <2>3. ASSUME calm', NEW u \in RecordThreads, SavingSafety(u)', call'[u].then = "acknowledge"
          PROVE  call'[u].switch
      BY <1>a, <2>2, <2>3 DEF SwitchInv, SavingSafety, SafetySteps
    <2>4. calm' /\ InForce' => /\ safetyFile'.saved.switch
                               /\ \A u \in RecordThreads : SavingSafety(u)' => call'[u].switch
      BY <1>a, <2>1, <2>2 DEF SwitchInv
    <2> QED
      BY <1>a, <2>3, <2>4 DEF SwitchInv
  <1> QED
    BY <1>4, <1>5, <1>6, <1>7

(* A reset takes every answer back that is on its way.                     *)
LEMMA OvertakenIs ==
    ASSUME NEW c \in RecordCalls
    PROVE  /\ Overtaken(c) \in RecordCalls /\ Overtaken(c).pc = c.pc /\ Overtaken(c).at = c.at
           /\ Overtaken(c).switch = c.switch /\ Overtaken(c).then # "acknowledge"
           /\ Overtaken(c).then = "gate" <=> c.then = "gate"
  BY DEF RecordCalls, Overtaken

LEMMA ResetSwitchKeeps ==
    ASSUME RecordsInv, NEW o \in RecordThreads, ResetSwitch(o)
    PROVE  RecordsInv'
  <1> USE DEF RecordsInv
  <1>a. /\ call[o].pc = "idle" /\ switch' = FALSE /\ acknowledged' = FALSE
        /\ UNCHANGED <<clock, audit, memory, safetyFile, memoryFile, calm, recordFaults>>
    BY DEF ResetSwitch
  <1>1. PICK c : c = [call[o] EXCEPT !.pc = "state", !.then = "idle"]
    OBVIOUS
  <1>2. c \in RecordCalls /\ c.pc = "state" /\ c.then = "idle" /\ c.at = call[o].at
    BY <1>1, RecordFacts DEF RecordCalls
  <1>3. /\ call' = [u \in RecordThreads |-> IF u = o THEN c ELSE Overtaken(call[u])]
        /\ call'[o] = c
        /\ \A u \in RecordThreads : u # o => call'[u] = Overtaken(call[u])
    BY <1>1 DEF ResetSwitch
  <1>4. ASSUME NEW u \in RecordThreads
        PROVE  call'[u] \in RecordCalls /\ call'[u].at = call[u].at /\ call'[u].then # "acknowledge"
    BY <1>2, <1>3, OvertakenIs, RecordFacts
  <1>5. ASSUME NEW u \in RecordThreads, u # o
        PROVE  /\ call'[u].pc = call[u].pc /\ call'[u].switch = call[u].switch
               /\ call'[u].then = "gate" <=> call[u].then = "gate"
    BY <1>3, <1>5, OvertakenIs, RecordFacts
  <1>6. RecordTypes'
    <2>1. call' \in [RecordThreads -> RecordCalls]
      BY <1>3, <1>4
    <2> QED
      BY <1>a, <2>1 DEF RecordTypes
  <1>7. FreshTimes'
    <2>1. ASSUME NEW u \in RecordThreads
          PROVE  /\ Deciding(call'[u]) => call'[u].at # 0 /\ call'[u].at \notin Range(memory')
                 /\ call'[u].pc = "decide" => call'[u].at \notin Range(audit')
      <3>1. CASE u = o
        BY <1>2, <1>3, <3>1 DEF Deciding, SafetySteps
      <3>2. CASE u # o
        <4>1. Deciding(call'[u]) => Deciding(call[u])
          BY <1>5, <3>2 DEF Deciding
        <4> QED
          BY <1>a, <1>4, <1>5, <3>2, <4>1 DEF FreshTimes
      <3> QED
        BY <3>1, <3>2
    <2> QED
      BY <1>a, <1>4, <2>1 DEF FreshTimes
  <1>8. AuditedInv'
    <2>1. SUFFICES ASSUME calm' PROVE AuditedInv'
      BY DEF AuditedInv
    <2>2. FilesFit' /\ OneSaver /\ calm
      BY <1>a, <2>1 DEF AuditedInv, FilesFit
    <2>3. OneSaver'
      <3>1. \A u \in RecordThreads : /\ SavingSafety(u)' => SavingSafety(u)
                                     /\ call'[u].pc = "replace memory" => call[u].pc = "replace memory"
        BY <1>2, <1>3, <1>5 DEF SavingSafety
      <3> QED
        BY <2>2, <3>1 DEF OneSaver
    <2>4. ASSUME NEW u \in RecordThreads
          PROVE  /\ SafetyFits(call'[u], safetyFile', audit', clock')
                 /\ MemoryFits(call'[u], memoryFile', memory', clock')
      <3>1. CASE u = o
        BY <1>2, <1>3, <3>1 DEF SafetyFits, MemoryFits
      <3>2. CASE u # o
        <4>1. /\ SafetyFits(call[u], safetyFile, audit, clock)
              /\ MemoryFits(call[u], memoryFile, memory, clock)
          BY <2>2 DEF AuditedInv
        <4>2. /\ SafetyFits(call'[u], safetyFile, audit, clock)
              /\ MemoryFits(call'[u], memoryFile, memory, clock)
          BY <1>4, <1>5, <3>2, <4>1 DEF SafetyFits, MemoryFits
        <4> QED
          BY <1>a, <4>2
      <3> QED
        BY <3>1, <3>2
    <2> QED
      BY <2>2, <2>3, <2>4 DEF AuditedInv
  <1>9. SwitchInv'
    BY <1>a, <1>4 DEF SwitchInv, InForce
  <1> QED
    BY <1>6, <1>7, <1>8, <1>9

LEMMA AcknowledgeKeeps ==
    ASSUME RecordsInv, NEW o \in RecordThreads, Acknowledge(o)
    PROVE  RecordsInv'
  <1> USE DEF RecordsInv
  <1>a. /\ call[o].pc = "acknowledge"
        /\ acknowledged' = (acknowledged \/ call[o].then = "acknowledge")
        /\ UNCHANGED <<clock, audit, memory, switch, safetyFile, memoryFile, calm, recordFaults>>
    BY DEF Acknowledge
  <1>1. Goes(o, NoRecordCall)
    BY LeavesGoes DEF Acknowledge
  <1>2. RecordTypes'
    BY <1>a, <1>1 DEF RecordTypes, Goes
  <1>3. FreshTimes'
    BY <1>a, <1>1, NoRecordCallIs, FreshStep DEF Deciding, SafetySteps
  <1>4. AuditedInv'
    <2>1. /\ SafetyFits(NoRecordCall, safetyFile, audit, clock)
          /\ MemoryFits(NoRecordCall, memoryFile, memory, clock)
      BY NoRecordCallIs DEF SafetyFits, MemoryFits
    <2> QED
      BY <1>a, <1>1, <2>1, NoRecordCallIs, NothingRecorded
  <1>5. SwitchInv'
    <2>1. InForce' => InForce
      BY <1>a, <1>1, NoRecordCallIs DEF InForce, Goes
    <2>2. ASSUME NEW u \in RecordThreads
          PROVE  /\ SavingSafety(u)' => SavingSafety(u) /\ call'[u] = call[u]
                 /\ call'[u].pc \in SafetySteps => call'[u] = call[u]
      BY <1>1, NoRecordCallIs DEF SavingSafety, SafetySteps, Goes
    <2>3. calm' /\ InForce' => /\ switch' /\ safetyFile'.saved.switch
                               /\ \A u \in RecordThreads : SavingSafety(u)' => call'[u].switch
      BY <1>a, <2>1, <2>2 DEF SwitchInv
    <2>4. ASSUME calm', NEW u \in RecordThreads, call'[u].pc \in SafetySteps,
                 call'[u].then = "acknowledge"
          PROVE  switch' /\ (SavingSafety(u)' => call'[u].switch)
      BY <1>a, <2>2, <2>4 DEF SwitchInv
    <2> QED
      BY <2>3, <2>4 DEF SwitchInv
  <1> QED
    BY <1>2, <1>3, <1>4, <1>5

LEMMA TakeSwitchKeeps ==
    ASSUME RecordsInv, NEW t \in RecordThreads, TakeSwitch(t)
    PROVE  RecordsInv'
  <1> USE DEF RecordsInv
  <1>a. /\ call[t].pc = "state" /\ calm' = (calm /\ \A u \in RecordThreads : ~SavingSafety(u))
        /\ UNCHANGED <<clock, audit, memory, switch, safetyFile, memoryFile, acknowledged, recordFaults>>
    BY DEF TakeSwitch
  <1>1. PICK c : c = [call[t] EXCEPT !.pc = "payload", !.switch = switch]
    OBVIOUS
  <1>2. /\ c \in RecordCalls /\ c.pc = "payload" /\ c.then = call[t].then /\ c.at = call[t].at
        /\ c.switch = switch
    BY <1>1, RecordFacts DEF RecordCalls, RecordTypes
  <1>3. Goes(t, c)
    <2>1. call' = [call EXCEPT ![t] = c]
      BY <1>1 DEF TakeSwitch
    <2> QED
      BY <1>2, <2>1, CallGoes
  <1>4. RecordTypes'
    BY <1>a, <1>3 DEF RecordTypes, Goes
  <1>5. FreshTimes'
    <2>1. Deciding(c) => Deciding(call[t])
      BY <1>a, <1>2 DEF Deciding, SafetySteps
    <2>2. Deciding(c) => c.at # 0 /\ c.at \notin Range(memory')
      BY <1>a, <1>2, <2>1 DEF FreshTimes
    <2> QED
      BY <1>a, <1>2, <1>3, <2>2, FreshStep
  <1>6. AuditedInv'
    <2>1. calm => SafetyFits(c, safetyFile, audit, clock)
      BY <1>a, <1>2 DEF AuditedInv, SafetyFits
    <2>2. MemoryFits(c, memoryFile, memory, clock)
      BY <1>2 DEF MemoryFits
    <2> QED
      BY <1>a, <1>2, <1>3, <2>1, <2>2, NothingRecorded
  <1>7. SwitchInv'
    <2>1. InForce' => InForce
      BY <1>a, <1>2, <1>3 DEF InForce, Goes
    <2>2. call'[t] = c /\ \A u \in RecordThreads : u # t => call'[u] = call[u]
      BY <1>3 DEF Goes
    <2>3. calm' /\ InForce' => /\ switch' /\ safetyFile'.saved.switch
                               /\ \A u \in RecordThreads : SavingSafety(u)' => call'[u].switch
      BY <1>a, <1>2, <2>1, <2>2 DEF SwitchInv, SavingSafety
    <2>4. ASSUME calm', NEW u \in RecordThreads, call'[u].pc \in SafetySteps,
                 call'[u].then = "acknowledge"
          PROVE  switch' /\ (SavingSafety(u)' => call'[u].switch)
      <3>1. call[u].pc \in SafetySteps /\ call[u].then = "acknowledge"
        BY <1>a, <1>2, <2>2, <2>4 DEF SafetySteps
      <3>2. switch /\ (SavingSafety(u) => call[u].switch)
        BY <1>a, <2>4, <3>1 DEF SwitchInv
      <3> QED
        BY <1>a, <1>2, <2>2, <3>2 DEF SavingSafety
    <2> QED
      BY <2>3, <2>4 DEF SwitchInv
  <1> QED
    BY <1>4, <1>5, <1>6, <1>7

LEMMA WriteSafetyKeeps ==
    ASSUME RecordsInv, NEW t \in RecordThreads, WriteSafety(t)
    PROVE  RecordsInv'
  <1> USE DEF RecordsInv
  <1>a. /\ call[t].pc = "payload" /\ Moves(t, "replace safety")
        /\ UNCHANGED <<clock, audit, memory, switch, memoryFile, acknowledged, calm, recordFaults>>
    BY DEF WriteSafety
  <1>1. "replace safety" \in Pcs
    BY DEF Pcs
  <1>2. PICK c \in RecordCalls : /\ Goes(t, c) /\ c.pc = "replace safety" /\ c.at = call[t].at
                                 /\ c.switch = call[t].switch /\ c.then = call[t].then
    BY <1>a, <1>1, MovesGoes
  <1>3. PICK p : p = [audit |-> audit, switch |-> call[t].switch]
    OBVIOUS
  <1>4. p \in Payloads(clock) /\ p.audit = audit /\ p.switch = call[t].switch
    BY <1>3 DEF RecordTypes, RecordCalls, Payloads
  <1>5. /\ safetyFile' = [safetyFile EXCEPT !.temp = {p}]
        /\ safetyFile' \in [saved : Payloads(clock), temp : SUBSET Payloads(clock)]
        /\ safetyFile'.temp = {p} /\ safetyFile'.saved = safetyFile.saved
    <2>1. safetyFile' = [safetyFile EXCEPT !.temp = {p}]
      BY <1>3 DEF WriteSafety, Written
    <2> QED
      BY <1>4, <2>1 DEF RecordTypes
  <1>6. RecordTypes'
    BY <1>a, <1>2, <1>5 DEF RecordTypes, Goes
  <1>7. FreshTimes'
    <2>1. Deciding(c) => Deciding(call[t])
      BY <1>a, <1>2 DEF Deciding, SafetySteps
    <2>2. Deciding(c) => c.at # 0 /\ c.at \notin Range(memory')
      BY <1>a, <1>2, <2>1 DEF FreshTimes
    <2> QED
      BY <1>a, <1>2, <2>2, FreshStep
  <1>8. AuditedInv'
    <2>1. calm => SafetyFits(c, safetyFile', audit, clock)
      <3>1. calm => Begins(safetyFile'.saved.audit, p.audit)
        BY <1>4, <1>5 DEF AuditedInv, FilesFit
      <3>2. Begins(p.audit, audit)
        BY <1>4, BeginsItself, RecordFacts DEF RecordTypes
      <3>3. calm => (c.then = "gate" => c.at \in Range(p.audit))
        BY <1>a, <1>2, <1>4 DEF AuditedInv, SafetyFits
      <3> QED
        BY <1>2, <1>4, <1>5, <3>1, <3>2, <3>3 DEF SafetyFits
    <2>2. MemoryFits(c, memoryFile, memory, clock)
      BY <1>2 DEF MemoryFits
    <2>3. ASSUME NEW u \in RecordThreads \ {t}, calm
          PROVE  /\ SafetyFits(call[u], safetyFile', audit, clock)
                 /\ MemoryFits(call[u], memoryFile, memory, clock)
      <3>1. call[u].pc # "replace safety"
        BY <1>a, <2>3 DEF AuditedInv, OneSaver, SavingSafety
      <3>2. /\ SafetyFits(call[u], safetyFile, audit, clock)
            /\ MemoryFits(call[u], memoryFile, memory, clock)
        BY <2>3 DEF AuditedInv
      <3> QED
        BY <1>5, <3>1, <3>2 DEF SafetyFits
    <2>4. calm => FilesFit'
      BY <1>a, <1>5 DEF AuditedInv, FilesFit
    <2>5. SavingSafety(t)
      BY <1>a DEF SavingSafety
    <2> QED
      BY <1>a, <1>2, <2>1, <2>2, <2>3, <2>4, <2>5, AuditedStep
  <1>9. SwitchInv'
    <2>1. SavingSafety(t)
      BY <1>a DEF SavingSafety
    <2> QED
      BY <1>a, <1>2, <1>5, <2>1, SwitchQuiet
  <1> QED
    BY <1>6, <1>7, <1>8, <1>9

LEMMA ReplaceSafetyKeeps ==
    ASSUME RecordsInv, NEW t \in RecordThreads, ReplaceSafety(t)
    PROVE  RecordsInv'
  <1> USE DEF RecordsInv
  <1>a. /\ call[t].pc = "replace safety"
        /\ UNCHANGED <<clock, audit, memory, switch, memoryFile, acknowledged, calm, recordFaults>>
    BY DEF ReplaceSafety
  <1>1. PICK c \in RecordCalls : /\ Goes(t, c) /\ c.pc \in {"idle", "gate", "acknowledge"}
                                 /\ c.at \in {0, call[t].at}
                                 /\ c.pc # "idle" => /\ c.pc = call[t].then /\ c.at = call[t].at
                                                     /\ c.then = call[t].then
    <2>1. CASE call[t].then = "idle"
      <3>1. Goes(t, NoRecordCall)
        BY <2>1, LeavesGoes DEF ReplaceSafety
      <3> QED
        BY <3>1, NoRecordCallIs
    <2>2. CASE call[t].then # "idle"
      <3>1. PICK pc : pc = call[t].then
        OBVIOUS
      <3>2. pc \in {"gate", "acknowledge"} /\ pc \in Pcs /\ Moves(t, pc)
        BY <2>2, <3>1, RecordFacts DEF RecordCalls, Pcs, ReplaceSafety
      <3>3. PICK c \in RecordCalls : /\ Goes(t, c) /\ c.pc = pc /\ c.at = call[t].at
                                     /\ c.switch = call[t].switch /\ c.then = call[t].then
        BY <3>2, MovesGoes
      <3> QED
        BY <3>1, <3>2, <3>3
    <2> QED
      BY <2>1, <2>2
  <1>2. PICK p : p \in safetyFile.temp /\ safetyFile' = [saved |-> p, temp |-> {}]
    BY DEF ReplaceSafety, CanReplace, Replaced
  <1>3. /\ p \in Payloads(clock) /\ p.audit \in TimesUpTo(clock)
        /\ safetyFile'.saved = p /\ safetyFile'.temp = {}
        /\ safetyFile' \in [saved : Payloads(clock), temp : SUBSET Payloads(clock)]
    BY <1>2 DEF RecordTypes, Payloads
  <1>4. calm => /\ p.switch = call[t].switch /\ Begins(safetyFile.saved.audit, p.audit)
                /\ Begins(p.audit, audit)
                /\ Range(safetyFile.saved.audit) \subseteq Range(p.audit)
                /\ (call[t].then = "gate" => call[t].at \in Range(p.audit))
    <2>1. SUFFICES ASSUME calm
                   PROVE  /\ p.switch = call[t].switch /\ Begins(safetyFile.saved.audit, p.audit)
                          /\ Begins(p.audit, audit)
                          /\ Range(safetyFile.saved.audit) \subseteq Range(p.audit)
                          /\ (call[t].then = "gate" => call[t].at \in Range(p.audit))
      OBVIOUS
    <2>2. SafetyFits(call[t], safetyFile, audit, clock)
      BY <2>1 DEF AuditedInv
    <2>3. PICK q \in Payloads(clock) :
             /\ safetyFile.temp = {q} /\ q.switch = call[t].switch
             /\ Begins(safetyFile.saved.audit, q.audit) /\ Begins(q.audit, audit)
             /\ call[t].then = "gate" => call[t].at \in Range(q.audit)
      BY <1>a, <2>2 DEF SafetyFits
    <2>4. p = q
      BY <1>2, <2>3
    <2>5. Range(safetyFile.saved.audit) \subseteq Range(p.audit)
      BY <1>3, <2>3, <2>4, BeginsRange, RecordFacts
    <2> QED
      BY <2>3, <2>4, <2>5
  <1>5. RecordTypes'
    BY <1>a, <1>1, <1>3 DEF RecordTypes, Goes
  <1>6. FreshTimes'
    <2>1. Deciding(c) => Deciding(call[t]) /\ c.at = call[t].at
      BY <1>a, <1>1 DEF Deciding, SafetySteps
    <2>2. Deciding(c) => c.at # 0 /\ c.at \notin Range(memory')
      BY <1>a, <2>1 DEF FreshTimes
    <2>3. UNCHANGED <<clock, audit, memory>> /\ c.pc # "decide"
      BY <1>a, <1>1
    <2> QED
      BY <1>1, <2>2, <2>3, FreshStep
  <1>7. ASSUME NEW u \in RecordThreads \ {t}, calm
        PROVE  ~SavingSafety(u)
    BY <1>a, <1>7 DEF AuditedInv, OneSaver, SavingSafety
  <1>8. AuditedInv'
    <2>1. calm => SafetyFits(c, safetyFile', audit, clock)
      BY <1>1, <1>3, <1>4 DEF SafetyFits
    <2>2. MemoryFits(c, memoryFile, memory, clock)
      BY <1>1 DEF MemoryFits
    <2>3. ASSUME NEW u \in RecordThreads \ {t}, calm
          PROVE  /\ SafetyFits(call[u], safetyFile', audit, clock)
                 /\ MemoryFits(call[u], memoryFile, memory, clock)
      <3>1. /\ SafetyFits(call[u], safetyFile, audit, clock)
            /\ MemoryFits(call[u], memoryFile, memory, clock)
        BY <2>3 DEF AuditedInv
      <3>2. call[u].pc # "replace safety"
        BY <1>7, <2>3 DEF SavingSafety
      <3> QED
        BY <1>3, <1>4, <2>3, <3>1, <3>2 DEF SafetyFits
    <2>4. calm => FilesFit'
      BY <1>a, <1>3, <1>4 DEF AuditedInv, FilesFit
    <2> QED
      BY <1>a, <1>1, <2>1, <2>2, <2>3, <2>4, AuditedStep
  <1>9. SwitchInv'
    <2>1. SUFFICES ASSUME calm' PROVE SwitchInv'
      BY DEF SwitchInv
    <2>2. calm /\ SavingSafety(t) /\ call[t].pc \in SafetySteps
      BY <1>a, <2>1 DEF SavingSafety, SafetySteps
    <2>3. ASSUME NEW u \in RecordThreads PROVE ~SavingSafety(u)'
      BY <1>1, <1>7, <2>2 DEF SavingSafety, Goes
    <2>4. InForce' => switch /\ call[t].switch
      <3>1. InForce' => InForce \/ call[t].then = "acknowledge"
        BY <1>a, <1>1 DEF InForce, Goes
      <3> QED
        BY <2>2, <3>1 DEF SwitchInv
    <2>5. ASSUME NEW u \in RecordThreads, call'[u].pc \in SafetySteps,
                 call'[u].then = "acknowledge"
          PROVE  switch
      <3>1. call'[u] = call[u]
        BY <1>1, <2>5 DEF Goes, SafetySteps
      <3> QED
        BY <2>2, <2>5, <3>1 DEF SwitchInv
    <2> QED
      BY <1>a, <1>3, <1>4, <2>2, <2>3, <2>4, <2>5 DEF SwitchInv
  <1> QED
    BY <1>5, <1>6, <1>8, <1>9

LEMMA WriteMemoryKeeps ==
    ASSUME RecordsInv, NEW t \in RecordThreads, WriteMemory(t)
    PROVE  RecordsInv'
  <1> USE DEF RecordsInv
  <1>a. /\ call[t].pc = "compose" /\ Moves(t, "replace memory")
        /\ memoryFile' = Written(memoryFile, memory)
        /\ calm' = (calm /\ \A u \in RecordThreads : call[u].pc # "replace memory")
        /\ UNCHANGED <<clock, audit, memory, switch, safetyFile, acknowledged, recordFaults>>
    BY DEF WriteMemory
  <1>1. "replace memory" \in Pcs
    BY DEF Pcs
  <1>2. PICK c \in RecordCalls : Goes(t, c) /\ c.pc = "replace memory" /\ c.at = call[t].at
    BY <1>a, <1>1, MovesGoes
  <1>3. /\ memoryFile' \in [saved : TimesUpTo(clock), temp : SUBSET TimesUpTo(clock)]
        /\ memoryFile'.temp = {memory} /\ memoryFile'.saved = memoryFile.saved
    BY <1>a DEF RecordTypes, Written
  <1>4. RecordTypes'
    BY <1>a, <1>2, <1>3 DEF RecordTypes, Goes
  <1>5. FreshTimes'
    BY <1>a, <1>2, FreshStep DEF Deciding, SafetySteps
  <1>6. AuditedInv'
    <2>1. SafetyFits(c, safetyFile, audit, clock)
      BY <1>2 DEF SafetyFits
    <2>2. calm => MemoryFits(c, memoryFile', memory, clock)
      <3>1. calm => Begins(memoryFile'.saved, memory)
        BY <1>3 DEF AuditedInv, FilesFit
      <3>2. memory \in TimesUpTo(clock) /\ Begins(memory, memory)
        BY BeginsItself, RecordFacts DEF RecordTypes
      <3> QED
        BY <1>3, <3>1, <3>2 DEF MemoryFits
    <2>3. ASSUME NEW u \in RecordThreads \ {t}, calm'
          PROVE  /\ SafetyFits(call[u], safetyFile, audit, clock)
                 /\ MemoryFits(call[u], memoryFile', memory, clock)
      BY <1>a, <2>3 DEF AuditedInv, MemoryFits
    <2>4. calm => FilesFit'
      BY <1>a, <1>3 DEF AuditedInv, FilesFit
    <2> QED
      BY <1>a, <1>2, <2>1, <2>2, <2>3, <2>4, AuditedStep
  <1>7. SwitchInv'
    BY <1>a, <1>2, SwitchQuiet
  <1> QED
    BY <1>4, <1>5, <1>6, <1>7

LEMMA ReplaceMemoryKeeps ==
    ASSUME RecordsInv, NEW t \in RecordThreads, ReplaceMemory(t)
    PROVE  RecordsInv'
  <1> USE DEF RecordsInv
  <1>a. /\ call[t].pc = "replace memory"
        /\ UNCHANGED <<clock, audit, memory, switch, safetyFile, acknowledged, calm, recordFaults>>
    BY DEF ReplaceMemory
  <1>1. PICK c : c = [call[t] EXCEPT !.pc = "state", !.then = "idle"]
    OBVIOUS
  <1>2. c \in RecordCalls /\ c.pc = "state" /\ c.then = "idle" /\ c.at = call[t].at
    BY <1>1, RecordFacts DEF RecordCalls
  <1>3. Goes(t, c)
    <2>1. call' = [call EXCEPT ![t] = c]
      BY <1>1 DEF ReplaceMemory
    <2> QED
      BY <1>2, <2>1, CallGoes
  <1>4. PICK p : p \in memoryFile.temp /\ memoryFile' = [saved |-> p, temp |-> {}]
    BY DEF ReplaceMemory, CanReplace, Replaced
  <1>5. /\ memoryFile' \in [saved : TimesUpTo(clock), temp : SUBSET TimesUpTo(clock)]
        /\ memoryFile'.saved = p
    BY <1>4 DEF RecordTypes
  <1>6. calm => Begins(p, memory)
    <2>1. calm => MemoryFits(call[t], memoryFile, memory, clock)
      BY DEF AuditedInv
    <2> QED
      BY <1>a, <1>4, <2>1 DEF MemoryFits
  <1>7. RecordTypes'
    BY <1>a, <1>3, <1>5 DEF RecordTypes, Goes
  <1>8. FreshTimes'
    BY <1>a, <1>2, <1>3, FreshStep DEF Deciding, SafetySteps
  <1>9. AuditedInv'
    <2>1. SafetyFits(c, safetyFile, audit, clock) /\ MemoryFits(c, memoryFile', memory, clock)
      BY <1>2 DEF SafetyFits, MemoryFits
    <2>2. ASSUME NEW u \in RecordThreads \ {t}, calm
          PROVE  /\ SafetyFits(call[u], safetyFile, audit, clock)
                 /\ MemoryFits(call[u], memoryFile', memory, clock)
      BY <1>a, <2>2 DEF AuditedInv, OneSaver, MemoryFits
    <2>3. calm => FilesFit'
      BY <1>a, <1>5, <1>6 DEF AuditedInv, FilesFit
    <2> QED
      BY <1>a, <1>2, <1>3, <2>1, <2>2, <2>3, AuditedStep
  <1>10. SwitchInv'
    BY <1>a, <1>2, <1>3, SwitchQuiet
  <1> QED
    BY <1>7, <1>8, <1>9, <1>10

LEMMA RecordSaveFailsKeeps ==
    ASSUME RecordsInv, NEW t \in RecordThreads, RecordSaveFails(t)
    PROVE  RecordsInv'
  <1>1. Goes(t, NoRecordCall)
    BY LeavesGoes DEF RecordSaveFails, RecordsInv
  <1>2. recordFaults' \in 0..MaxRecordFaults
    <2>1. recordFaults \in 0..MaxRecordFaults /\ MaxRecordFaults \in Nat
      BY RecordsAssumption DEF RecordsInv, RecordTypes
    <2>2. CASE UNCHANGED recordFaults
      BY <2>1, <2>2
    <2>3. CASE RecordFault
      BY <2>1, <2>3 DEF RecordFault
    <2> QED
      BY <2>2, <2>3 DEF RecordSaveFails
  <1> QED
    BY <1>1, <1>2, LeavingKeeps DEF RecordSaveFails

(* A process that starts has the shorter record of the two: nothing it had
   saved names an operation whose decision it lost.                        *)
LEMMA RecordsRestartKeeps == RecordsInv /\ RecordsRestart => RecordsInv'
  <1> SUFFICES ASSUME RecordsInv, RecordsRestart PROVE RecordsInv'
    OBVIOUS
  <1> USE DEF RecordsInv
  <1>a. /\ audit' = safetyFile.saved.audit /\ switch' = safetyFile.saved.switch
        /\ memory' = memoryFile.saved /\ RecordFault
        /\ call' = [t \in RecordThreads |-> NoRecordCall]
        /\ UNCHANGED <<clock, safetyFile, memoryFile, acknowledged, calm>>
    BY DEF RecordsRestart
  <1>b. \A t \in RecordThreads : /\ call'[t].pc = "idle" /\ call'[t].at = 0
                                 /\ call'[t].then = "idle"
    BY <1>a, NoRecordCallIs
  <1>1. RecordTypes'
    <2>1. recordFaults' \in 0..MaxRecordFaults
      BY <1>a, RecordsAssumption DEF RecordTypes, RecordFault
    <2>2. call' \in [RecordThreads -> RecordCalls]
      BY <1>a, NoRecordCallIs
    <2> QED
      BY <1>a, <2>1, <2>2 DEF RecordTypes, Payloads
  <1>2. FreshTimes'
    <2>1. clock' \in Nat
      BY <1>a, RecordFacts
    <2>2. \A t \in RecordThreads : ~Deciding(call'[t]) /\ call'[t].pc # "decide"
      BY <1>b DEF Deciding
    <2> QED
      BY <1>b, <2>1, <2>2 DEF FreshTimes
  <1>3. AuditedInv'
    <2>1. SUFFICES ASSUME calm' PROVE AuditedInv'
      BY DEF AuditedInv
    <2>2. OneSaver'
      BY <1>b DEF OneSaver, SavingSafety
    <2>3. \A t \in RecordThreads : /\ SafetyFits(call[t], safetyFile, audit, clock)'
                                   /\ MemoryFits(call[t], memoryFile, memory, clock)'
      BY <1>b DEF SafetyFits, MemoryFits
    <2>4. FilesFit'
      <3>1. Begins(safetyFile.saved.audit, safetyFile.saved.audit)
        BY BeginsItself, RecordFacts
      <3>2. Begins(memoryFile.saved, memoryFile.saved)
        BY BeginsItself, RecordFacts
      <3>3. Range(memoryFile.saved) \subseteq Range(memory)
        BY <1>a, <2>1, BeginsRange, RecordFacts DEF AuditedInv, FilesFit, RecordTypes
      <3>4. Range(memory) \subseteq Range(safetyFile.saved.audit)
        BY <1>a, <2>1 DEF AuditedInv, FilesFit
      <3> QED
        BY <1>a, <3>1, <3>2, <3>3, <3>4 DEF FilesFit
    <2> QED
      BY <2>2, <2>3, <2>4 DEF AuditedInv
  <1>4. SwitchInv'
    <2>1. InForce' => InForce
      BY <1>a, <1>b DEF InForce
    <2> QED
      BY <1>a, <1>b, <2>1 DEF SwitchInv, SavingSafety, SafetySteps
  <1> QED
    BY <1>1, <1>2, <1>3, <1>4

LEMMA RecordsInvStarts == RecordsInit => RecordsInv
  <1> SUFFICES ASSUME RecordsInit PROVE RecordsInv
    OBVIOUS
  <1>1. \A t \in RecordThreads : call[t] = NoRecordCall
    BY DEF RecordsInit
  <1>2. <<>> \in TimesUpTo(0) /\ Range(<<>>) = {}
    BY DEF TimesUpTo, Range
  <1>3. Begins(<<>>, <<>>)
    BY DEF Begins
  <1>4. clock = 0 /\ audit = <<>> /\ memory = <<>> /\ switch = FALSE /\ acknowledged = FALSE
    BY DEF RecordsInit
  <1>5. RecordTypes
    <2>1. call \in [RecordThreads -> RecordCalls]
      BY NoRecordCallIs DEF RecordsInit
    <2>2. memoryFile = [saved |-> <<>>, temp |-> {}]
      BY DEF RecordsInit, NewFile
    <2>3. safetyFile = [saved |-> [audit |-> <<>>, switch |-> FALSE], temp |-> {}]
      BY DEF RecordsInit, NewFile
    <2>4. [audit |-> <<>>, switch |-> FALSE] \in Payloads(0)
      BY <1>2 DEF Payloads
    <2>5. /\ memoryFile \in [saved : TimesUpTo(0), temp : SUBSET TimesUpTo(0)]
          /\ safetyFile \in [saved : Payloads(0), temp : SUBSET Payloads(0)]
      BY <1>2, <2>2, <2>3, <2>4
    <2>6. clock \in 0..MaxRecords /\ recordFaults \in 0..MaxRecordFaults /\ calm = TRUE
      BY RecordsAssumption DEF RecordsInit
    <2> QED
      BY <1>2, <1>4, <2>1, <2>5, <2>6 DEF RecordTypes
  <1>6. FreshTimes
    <2>1. \A t \in RecordThreads : /\ ~Deciding(call[t]) /\ call[t].pc # "decide"
                                   /\ call[t].at = 0
      BY <1>1, NoRecordCallIs DEF Deciding
    <2> QED
      BY <1>4, <2>1 DEF FreshTimes
  <1>7. AuditedInv
    <2>1. safetyFile.saved.audit = <<>> /\ memoryFile.saved = <<>>
      BY DEF RecordsInit, NewFile
    <2>2. FilesFit
      BY <1>2, <1>3, <1>4, <2>1 DEF FilesFit
    <2> QED
      BY <1>1, <2>2, NoRecordCallIs DEF AuditedInv, OneSaver, SavingSafety, SafetyFits, MemoryFits
  <1>8. SwitchInv
    BY <1>1, <1>4, NoRecordCallIs DEF SwitchInv, InForce, SafetySteps
  <1> QED
    BY <1>5, <1>6, <1>7, <1>8 DEF RecordsInv

LEMMA RecordsInvStays == RecordsInv /\ UNCHANGED recordVars => RecordsInv'
  <1> SUFFICES ASSUME RecordsInv, UNCHANGED recordVars PROVE RecordsInv'
    OBVIOUS
  <1> USE DEF RecordsInv, recordVars
  <1>1. RecordTypes'
    BY DEF RecordTypes
  <1>2. FreshTimes'
    BY DEF FreshTimes
  <1>3. AuditedInv'
    BY DEF AuditedInv, FilesFit, OneSaver, SavingSafety
  <1>4. SwitchInv'
    BY DEF SwitchInv, InForce, SavingSafety
  <1> QED
    BY <1>1, <1>2, <1>3, <1>4

LEMMA RecordsInvHolds == RecordsSpec => []RecordsInv
  <1>1. RecordsInv /\ [RecordsNext]_recordVars => RecordsInv'
    <2> SUFFICES ASSUME RecordsInv, [RecordsNext]_recordVars PROVE RecordsInv'
      OBVIOUS
    <2>1. ASSUME NEW w \in RecordThreads,
                 \/ BeginCycle(w) \/ RecordDecision(w) \/ PassGate(w) \/ RecordOperation(w)
                 \/ WriteMemory(w) \/ ReplaceMemory(w)
          PROVE  RecordsInv'
      BY <2>1, BeginCycleKeeps, RecordDecisionKeeps, PassGateKeeps, RecordOperationKeeps,
         WriteMemoryKeeps, ReplaceMemoryKeeps
    <2>2. ASSUME NEW o \in RecordThreads, Throw(o) \/ ResetSwitch(o) \/ Acknowledge(o)
          PROVE  RecordsInv'
      BY <2>2, ThrowKeeps, ResetSwitchKeeps, AcknowledgeKeeps
    <2>3. ASSUME NEW t \in RecordThreads,
                 TakeSwitch(t) \/ WriteSafety(t) \/ ReplaceSafety(t) \/ RecordSaveFails(t)
          PROVE  RecordsInv'
      BY <2>3, TakeSwitchKeeps, WriteSafetyKeeps, ReplaceSafetyKeeps, RecordSaveFailsKeeps
    <2>4. RecordWorkers \subseteq RecordThreads /\ RecordOperators \subseteq RecordThreads
      BY DEF RecordThreads
    <2> QED
      BY <2>1, <2>2, <2>3, <2>4, RecordsRestartKeeps, RecordsInvStays DEF RecordsNext
  <1> QED
    BY <1>1, RecordsInvStarts, PTL DEF RecordsSpec

-----------------------------------------------------------------------------
LEMMA BoundedTimes ==
    ASSUME NEW c \in Nat, c <= MaxRecords, NEW r \in TimesUpTo(c)
    PROVE  /\ r \in SeqOf(Times, MaxRecords)
           /\ \A i \in 1..(Len(r) - 1) : r[i] < r[i + 1]
  <1>1. /\ Len(r) \in Nat /\ DOMAIN r = 1..Len(r)
        /\ \A i \in 1..Len(r) : r[i] \in 1..c
        /\ \A i \in 1..(Len(r) - 1) : r[i] < r[i + 1]
        /\ Len(r) > 0 => Len(r) <= r[Len(r)]
        /\ r \in Seq(1..c)
    BY SequenceOf
  <1>2. Len(r) <= MaxRecords
    BY <1>1, RecordsAssumption
  <1>3. \A i \in 1..Len(r) : r[i] \in Times
    BY <1>1, RecordsAssumption DEF Times
  <1>4. r \in [1..Len(r) -> Times]
    BY <1>1, <1>3
  <1>5. Len(r) \in 0..MaxRecords
    BY <1>1, <1>2, RecordsAssumption
  <1> QED
    BY <1>1, <1>4, <1>5 DEF SeqOf

(* The files and the memory hold times of cycles in order: see
   RecordsTypeOK.                                                          *)
THEOREM RecordsTypeCorrectness == RecordsSpec => []RecordsTypeOK
  <1>1. RecordsInv => RecordsTypeOK
    <2> SUFFICES ASSUME RecordsInv PROVE RecordsTypeOK
      OBVIOUS
    <2> USE DEF RecordsInv
    <2>1. clock \in Nat /\ clock <= MaxRecords
      BY RecordFacts
    <2>2. ASSUME NEW r \in TimesUpTo(clock)
          PROVE  r \in {s \in SeqOf(Times, MaxRecords) : \A i \in 1..(Len(s) - 1) : s[i] < s[i + 1]}
      BY <2>1, <2>2, BoundedTimes
    <2>3. \A t \in RecordThreads : call[t].at \in 0..clock
      BY RecordFacts DEF FreshTimes
    <2> QED
      BY <2>2, <2>3 DEF RecordsTypeOK, RecordTypes, Payloads
  <1> QED
    BY <1>1, RecordsInvHolds, PTL

(* An activation of the kill switch that returned is in force, in memory
   and in the file, across failed saves and restarts: see
   ActivationSurvives.                                                     *)
THEOREM ActivationsSurvive == RecordsSpec => []ActivationSurvives
  <1>1. RecordsInv => ActivationSurvives
    BY DEF RecordsInv, SwitchInv, InForce, ActivationSurvives
  <1> QED
    BY <1>1, RecordsInvHolds, PTL

(* No saved operation is without its saved decision: see
   OperationsAreAudited.                                                   *)
THEOREM OperationsWereAudited == RecordsSpec => []OperationsAreAudited
  <1>1. RecordsInv => OperationsAreAudited
    <2> SUFFICES ASSUME RecordsInv, calm
                 PROVE  /\ Range(memoryFile.saved) \subseteq Range(safetyFile.saved.audit)
                        /\ Range(memory) \subseteq Range(audit)
      BY DEF OperationsAreAudited
    <2> USE DEF RecordsInv
    <2>1. FilesFit
      BY DEF AuditedInv
    <2>2. Range(memoryFile.saved) \subseteq Range(memory)
      BY <2>1, BeginsRange, RecordFacts DEF FilesFit, RecordTypes
    <2>3. Range(safetyFile.saved.audit) \subseteq Range(audit)
      BY <2>1, BeginsRange, RecordFacts DEF FilesFit, RecordTypes
    <2> QED
      BY <2>1, <2>2, <2>3 DEF FilesFit
  <1> QED
    BY <1>1, RecordsInvHolds, PTL

(* What is saved is only ever added to: see SavedRecordsOnlyGrow.          *)
THEOREM SavedRecordsGrow == RecordsSpec => SavedRecordsOnlyGrow
  <1> DEFINE Grown == calm' => /\ IsPrefix(memoryFile.saved, memoryFile'.saved)
                               /\ IsPrefix(safetyFile.saved.audit, safetyFile'.saved.audit)
  <1>1. ASSUME RecordsInv, UNCHANGED <<memoryFile, safetyFile>>
        PROVE  Grown
    <2>1. Begins(memoryFile.saved, memoryFile.saved)
      BY <1>1, BeginsItself, RecordFacts DEF RecordsInv
    <2>2. Begins(safetyFile.saved.audit, safetyFile.saved.audit)
      BY <1>1, BeginsItself, RecordFacts DEF RecordsInv
    <2> QED
      BY <1>1, <2>1, <2>2, BeginsIsPrefix, RecordFacts DEF RecordsInv
  <1>2. ASSUME RecordsInv, NEW t \in RecordThreads, WriteSafety(t) \/ WriteMemory(t)
        PROVE  Grown
    <2>1. memoryFile'.saved = memoryFile.saved /\ safetyFile'.saved = safetyFile.saved
      BY <1>2 DEF WriteSafety, WriteMemory, Written, RecordsInv, RecordTypes
    <2>2. Begins(memoryFile.saved, memoryFile.saved)
      BY <1>2, BeginsItself, RecordFacts DEF RecordsInv
    <2>3. Begins(safetyFile.saved.audit, safetyFile.saved.audit)
      BY <1>2, BeginsItself, RecordFacts DEF RecordsInv
    <2> QED
      BY <1>2, <2>1, <2>2, <2>3, BeginsIsPrefix, RecordFacts DEF RecordsInv
  <1>3. ASSUME RecordsInv, NEW t \in RecordThreads, ReplaceSafety(t), calm'
        PROVE  /\ IsPrefix(memoryFile.saved, memoryFile'.saved)
               /\ IsPrefix(safetyFile.saved.audit, safetyFile'.saved.audit)
    <2>1. /\ call[t].pc = "replace safety" /\ calm /\ memoryFile' = memoryFile
          /\ safetyFile'.saved \in safetyFile.temp
      BY <1>3 DEF ReplaceSafety, CanReplace, Replaced
    <2>2. SafetyFits(call[t], safetyFile, audit, clock)
      BY <1>3, <2>1 DEF RecordsInv, AuditedInv
    <2>3. PICK p \in Payloads(clock) :
             safetyFile.temp = {p} /\ Begins(safetyFile.saved.audit, p.audit)
      BY <2>1, <2>2 DEF SafetyFits
    <2>4. safetyFile'.saved = p /\ p.audit \in TimesUpTo(clock)
      BY <2>1, <2>3 DEF Payloads
    <2>5. IsPrefix(safetyFile.saved.audit, safetyFile'.saved.audit)
      BY <1>3, <2>3, <2>4, BeginsIsPrefix, RecordFacts DEF RecordsInv
    <2>6. Begins(memoryFile.saved, memoryFile.saved)
      BY <1>3, BeginsItself, RecordFacts DEF RecordsInv
    <2> QED
      BY <1>3, <2>1, <2>5, <2>6, BeginsIsPrefix, RecordFacts DEF RecordsInv
  <1>4. ASSUME RecordsInv, NEW t \in RecordThreads, ReplaceMemory(t), calm'
        PROVE  /\ IsPrefix(memoryFile.saved, memoryFile'.saved)
               /\ IsPrefix(safetyFile.saved.audit, safetyFile'.saved.audit)
    <2>1. /\ call[t].pc = "replace memory" /\ calm /\ safetyFile' = safetyFile
          /\ memoryFile'.saved \in memoryFile.temp
      BY <1>4 DEF ReplaceMemory, CanReplace, Replaced
    <2>2. MemoryFits(call[t], memoryFile, memory, clock)
      BY <1>4, <2>1 DEF RecordsInv, AuditedInv
    <2>3. PICK p \in TimesUpTo(clock) : memoryFile.temp = {p} /\ Begins(memoryFile.saved, p)
      BY <2>1, <2>2 DEF MemoryFits
    <2>4. IsPrefix(memoryFile.saved, memoryFile'.saved)
      BY <1>4, <2>1, <2>3, BeginsIsPrefix, RecordFacts DEF RecordsInv
    <2>5. Begins(safetyFile.saved.audit, safetyFile.saved.audit)
      BY <1>4, BeginsItself, RecordFacts DEF RecordsInv
    <2> QED
      BY <1>4, <2>1, <2>4, <2>5, BeginsIsPrefix, RecordFacts DEF RecordsInv
  <1>5. ASSUME RecordsInv, [RecordsNext]_recordVars PROVE [Grown]_recordVars
    <2>1. CASE UNCHANGED <<memoryFile, safetyFile>>
      BY <1>1, <1>5, <2>1
    <2>2. CASE \E t \in RecordThreads : WriteSafety(t) \/ WriteMemory(t)
      BY <1>2, <1>5, <2>2
    <2>3. CASE \E t \in RecordThreads : ReplaceSafety(t) \/ ReplaceMemory(t)
      BY <1>3, <1>4, <1>5, <2>3
    <2>4. \/ UNCHANGED <<memoryFile, safetyFile>>
          \/ \E t \in RecordThreads : WriteSafety(t) \/ WriteMemory(t)
          \/ \E t \in RecordThreads : ReplaceSafety(t) \/ ReplaceMemory(t)
      BY <1>5 DEF RecordsNext, RecordThreads, BeginCycle, RecordDecision, PassGate, RecordOperation,
                  Throw, ResetSwitch, Acknowledge, TakeSwitch, RecordSaveFails, RecordsRestart,
                  recordVars
    <2> QED
      BY <2>1, <2>2, <2>3, <2>4
  <1>6. RecordsInv /\ [RecordsNext]_recordVars => [Grown]_recordVars
    BY <1>5
  <1> QED
    BY <1>6, RecordsInvHolds, PTL DEF RecordsSpec, SavedRecordsOnlyGrow


-----------------------------------------------------------------------------
(* RateLimit: a window of its own for each client.                         *)

GuardSpec == GuardInit /\ [][GuardNext]_guardVars

GuardCalls ==
    [pc : {"idle", "prune", "count", "append", "bound"}, client : Clients, at : Nat, bucket : Nat,
     stale : SUBSET Clients]

GuardTypes ==
    /\ second \in Nat /\ requests \in Nat /\ tracked \in Seq(Clients)
    /\ bucket \in [Clients -> Seq(Nat)] /\ served \in [Clients -> Seq(Nat)]
    /\ buckets \in [Clients -> Nat] /\ asking \in [GuardThreads -> GuardCalls]
    /\ evicted \subseteq Clients /\ oneByOne \in BOOLEAN
    /\ \A t \in GuardThreads : asking[t].bucket <= buckets[asking[t].client]
    /\ \A c \in Clients \ Range(tracked) : bucket[c] = <<>>

Asking(t) == asking[t].pc # "idle"

OneAsks == \A t, u \in GuardThreads : Asking(t) /\ Asking(u) => t = u

Ordered(times, upTo) ==
    /\ \A i, j \in 1..Len(times) : i < j => times[i] <= times[j]
    /\ \A i \in 1..Len(times) : times[i] <= upTo

(* recent is the end of times, and what is not in it has left the window.  *)
Remains(times, recent, upTo) ==
    /\ Len(recent) <= Len(times)
    /\ \A i \in 1..Len(recent) : recent[i] = times[Len(times) - Len(recent) + i]
    /\ \A i \in 1..(Len(times) - Len(recent)) : times[i] + Window <= upTo

(* What the property says of the requests of a client.                     *)
Spaced(times) ==
    \A i, j \in 1..Len(times) : j - i >= Limit => times[i] + Window <= times[j]

(* The bucket is the end of what was served, at the time of the request
   under way as well as now.                                               *)
WindowInv ==
    oneByOne =>
       /\ OneAsks
       /\ \A t \in GuardThreads : Asking(t) => asking[t].at <= second
       /\ \A c \in Clients :
             /\ Ordered(served[c], second)
             /\ \A t \in GuardThreads : Asking(t) => Ordered(served[c], asking[t].at)
             /\ c \notin evicted =>
                   /\ Spaced(served[c]) /\ Remains(served[c], bucket[c], second)
                   /\ \A t \in GuardThreads :
                         Asking(t) => Remains(served[c], bucket[c], asking[t].at)

(* A request of call a that nobody disturbs: what it listed is stale, and
   the bucket in its hands is the one in the dictionary.                   *)
Undisturbed(a, upTo) ==
    /\ a.pc = "prune" => \A c \in a.stale : Stale(bucket[c], upTo - Window)
    /\ a.pc \in {"count", "append"} =>
          a.client \in Range(tracked) /\ a.bucket = buckets[a.client]
    /\ a.pc = "append" => Len(bucket[a.client]) < Limit

CalmInv == oneByOne => \A t \in GuardThreads : Undisturbed(asking[t], asking[t].at)

(* Threads that will still give up a bucket, and clients whose new bucket
   some thread will soon be about to fill: one of these for every bucket
   that is too many.                                                       *)
Bounding == {t \in GuardThreads : asking[t].pc \in {"append", "bound"}}

Awaited(c) ==
    /\ \E t \in GuardThreads : asking[t].pc = "count" /\ Current(t) /\ asking[t].client = c
    /\ \A t \in GuardThreads : asking[t].pc = "append" /\ Current(t) => asking[t].client # c

Fresh == {c \in Clients : c \in Range(tracked) /\ bucket[c] = <<>> /\ Awaited(c)}

SizeInv == Len(tracked) <= MaxTracked + Cardinality(Bounding) + Cardinality(Fresh)

GuardInv == GuardTypes /\ WindowInv /\ CalmInv /\ SizeInv

(* What the proof uses of times.                                           *)
LEMMA OrderedLater ==
    ASSUME NEW times \in Seq(Nat), NEW upTo \in Nat, NEW later \in Nat, upTo <= later,
           Ordered(times, upTo)
    PROVE  Ordered(times, later)
  BY DEF Ordered

LEMMA RemainsLater ==
    ASSUME NEW times \in Seq(Nat), NEW recent \in Seq(Nat), NEW upTo \in Nat, NEW later \in Nat,
           upTo <= later, Remains(times, recent, upTo)
    PROVE  Remains(times, recent, later)
  <1>1. Window \in Nat /\ Len(times) \in Nat /\ Len(recent) \in Nat
    BY GuardAssumption
  <1>2. \A i \in 1..(Len(times) - Len(recent)) : times[i] \in Nat
    BY <1>1
  <1> QED
    BY <1>1, <1>2 DEF Remains

LEMMA AllLeft ==
    ASSUME NEW times \in Seq(Nat), NEW recent \in Seq(Nat), NEW at \in Nat, Ordered(times, at),
           Remains(times, recent, at), Stale(recent, at - Window)
    PROVE  Remains(times, <<>>, at)
  <1>1. /\ Window \in Nat /\ Len(times) \in Nat /\ Len(recent) \in Nat /\ Len(recent) <= Len(times)
        /\ \A i \in 1..Len(times) : times[i] \in Nat
    BY GuardAssumption DEF Remains
  <1>2. ASSUME NEW i \in 1..Len(times) PROVE times[i] + Window <= at
    <2>1. CASE i <= Len(times) - Len(recent)
      <3>1. i \in 1..(Len(times) - Len(recent))
        BY <1>1, <2>1
      <3> QED
        BY <3>1 DEF Remains
    <2>2. CASE i > Len(times) - Len(recent)
      <3>1. Len(recent) > 0 /\ recent # <<>>
        BY <1>1, <2>2
      <3>2. recent[Len(recent)] <= at - Window
        BY <3>1 DEF Stale, Last
      <3>3. Len(recent) \in 1..Len(recent)
        BY <1>1, <3>1
      <3>4. recent[Len(recent)] = times[Len(times) - Len(recent) + Len(recent)]
        BY <3>3 DEF Remains
      <3>5. Len(times) - Len(recent) + Len(recent) = Len(times) /\ Len(times) \in 1..Len(times)
        BY <1>1, <3>1
      <3>6. times[i] <= times[Len(times)]
        BY <1>1, <3>5 DEF Ordered
      <3> QED
        BY <1>1, <3>2, <3>4, <3>5, <3>6
    <2> QED
      BY <1>1, <2>1, <2>2
  <1>3. Len(<<>>) = 0 /\ 1..(Len(times) - 0) = 1..Len(times) /\ 1..0 = {}
    BY <1>1
  <1> QED
    BY <1>1, <1>2, <1>3 DEF Remains

LEMMA OneFurther ==
    ASSUME NEW n \in Nat, NEW m \in Nat, NEW i \in 1..(n - (m - 1))
    PROVE  i \in 1..(n - m) \/ i = n - m + 1
  OBVIOUS

LEMMA OneLeft ==
    ASSUME NEW times \in Seq(Nat), NEW recent \in Seq(Nat), NEW at \in Nat, Remains(times, recent, at),
           recent # <<>>, Head(recent) <= at - Window
    PROVE  Remains(times, Tail(recent), at)
  <1>1. /\ Window \in Nat /\ Len(times) \in Nat /\ Len(recent) \in Nat /\ Len(recent) <= Len(times)
        /\ \A i \in 1..Len(times) : times[i] \in Nat
        /\ \A i \in 1..Len(recent) : recent[i] = times[Len(times) - Len(recent) + i]
        /\ \A i \in 1..(Len(times) - Len(recent)) : times[i] + Window <= at
        /\ Len(recent) > 0 /\ Head(recent) = recent[1]
    BY GuardAssumption DEF Remains
  <1>2. PICK n \in Nat, m \in Nat : n = Len(times) /\ m = Len(recent)
    BY <1>1
  <1>3. PICK rest : rest = Tail(recent)
    OBVIOUS
  <1>4. Len(rest) = m - 1 /\ \A i \in 1..(m - 1) : rest[i] = recent[i + 1]
    BY <1>1, <1>2, <1>3
  <1>5. \A i \in 1..(m - 1) : rest[i] = times[n - (m - 1) + i]
    <2>1. ASSUME NEW i \in 1..(m - 1) PROVE rest[i] = times[n - (m - 1) + i]
      <3>1. i + 1 \in 1..m /\ n - m + (i + 1) = n - (m - 1) + i
        BY <1>2
      <3> QED
        BY <1>1, <1>2, <1>4, <3>1
    <2> QED
      BY <2>1
  <1>6. ASSUME NEW i \in 1..(n - (m - 1)) PROVE times[i] + Window <= at
    <2>1. CASE i \in 1..(n - m)
      BY <1>1, <1>2, <2>1
    <2>2. CASE i = n - m + 1
      <3>1. 1 \in 1..m /\ recent[1] = times[i] /\ i \in 1..n
        BY <1>1, <1>2, <2>2
      <3> QED
        BY <1>1, <1>2, <3>1
    <2> QED
      BY <2>1, <2>2, OneFurther
  <1>7. Remains(times, rest, at)
    <2>1. Len(times) = n /\ Len(rest) = m - 1 /\ m <= n
      BY <1>1, <1>2, <1>4
    <2>2. m - 1 <= n
      BY <2>1
    <2> QED
      BY SMTT(20), <1>5, <1>6, <2>1, <2>2 DEF Remains
  <1> QED
    BY <1>3, <1>7

LEMMA OrderedMore ==
    ASSUME NEW times \in Seq(Nat), NEW at \in Nat, Ordered(times, at)
    PROVE  Ordered(Append(times, at), at)
  <1>1. PICK n \in Nat : n = Len(times)
    OBVIOUS
  <1>2. PICK more : more = Append(times, at)
    OBVIOUS
  <1>3. Len(more) = n + 1 /\ more[n + 1] = at /\ \A i \in 1..n : more[i] = times[i]
    BY <1>1, <1>2
  <1>4. /\ \A i \in 1..n : times[i] \in Nat /\ times[i] <= at
        /\ \A i, j \in 1..n : i < j => times[i] <= times[j]
    BY <1>1 DEF Ordered
  <1>5. ASSUME NEW i \in 1..(n + 1) PROVE more[i] <= at
    <2>1. i \in 1..n \/ i = n + 1
      OBVIOUS
    <2> QED
      BY <1>3, <1>4, <2>1
  <1>6. ASSUME NEW i \in 1..(n + 1), NEW j \in 1..(n + 1), i < j
        PROVE  more[i] <= more[j]
    <2>1. CASE j = n + 1
      BY <1>3, <1>5, <2>1
    <2>2. CASE j # n + 1
      <3>1. i \in 1..n /\ j \in 1..n
        BY <1>6, <2>2
      <3> QED
        BY <1>3, <1>4, <1>6, <3>1
    <2> QED
      BY <2>1, <2>2
  <1> QED
    BY <1>2, <1>3, <1>5, <1>6 DEF Ordered

LEMMA OneMore ==
    ASSUME NEW times \in Seq(Nat), NEW recent \in Seq(Nat), NEW at \in Nat, Ordered(times, at),
           Remains(times, recent, at)
    PROVE  /\ Ordered(Append(times, at), at) /\ Remains(Append(times, at), Append(recent, at), at)
           /\ Len(recent) < Limit /\ Spaced(times) => Spaced(Append(times, at))
  <1>1. /\ Window \in Nat /\ Limit \in Nat \ {0}
        /\ Len(times) \in Nat /\ Len(recent) \in Nat /\ Len(recent) <= Len(times)
        /\ \A i \in 1..Len(times) : times[i] \in Nat /\ times[i] <= at
        /\ \A i, j \in 1..Len(times) : i < j => times[i] <= times[j]
        /\ \A i \in 1..Len(recent) : recent[i] = times[Len(times) - Len(recent) + i]
        /\ \A i \in 1..(Len(times) - Len(recent)) : times[i] + Window <= at
    BY GuardAssumption DEF Remains, Ordered
  <1>2. PICK n \in Nat, m \in Nat : n = Len(times) /\ m = Len(recent)
    BY <1>1
  <1>3. PICK more, longer : more = Append(times, at) /\ longer = Append(recent, at)
    OBVIOUS
  <1>4. /\ Len(more) = n + 1 /\ more[n + 1] = at /\ \A i \in 1..n : more[i] = times[i]
        /\ Len(longer) = m + 1 /\ longer[m + 1] = at /\ \A i \in 1..m : longer[i] = recent[i]
    BY <1>1, <1>2, <1>3
  <1>5. Ordered(more, at)
    BY <1>3, OrderedMore
  <1>6. Remains(more, longer, at)
    <2>1. ASSUME NEW i \in 1..(m + 1) PROVE longer[i] = more[(n + 1) - (m + 1) + i]
      <3>1. CASE i = m + 1
        <4>1. (n + 1) - (m + 1) + i = n + 1
          BY <3>1
        <4> QED
          BY <1>4, <3>1, <4>1
      <3>2. CASE i # m + 1
        <4>1. i \in 1..m /\ (n + 1) - (m + 1) + i = n - m + i /\ n - m + i \in 1..n
          BY <1>1, <1>2, <3>2
        <4> QED
          BY <1>1, <1>2, <1>4, <4>1
      <3> QED
        BY <3>1, <3>2
    <2>2. ASSUME NEW i \in 1..((n + 1) - (m + 1)) PROVE more[i] + Window <= at
      <3>1. i \in 1..(n - m) /\ i \in 1..n
        OBVIOUS
      <3> QED
        BY <1>1, <1>2, <1>4, <3>1
    <2> QED
      BY <1>1, <1>2, <1>4, <2>1, <2>2 DEF Remains
  <1>7. ASSUME m < Limit, Spaced(times) PROVE Spaced(more)
    <2>1. ASSUME NEW i \in 1..(n + 1), NEW j \in 1..(n + 1), j - i >= Limit
          PROVE  more[i] + Window <= more[j]
      <3>1. CASE j = n + 1
        <4>1. i \in 1..(n - m) /\ i \in 1..n
          BY <1>1, <1>7, <2>1, <3>1
        <4> QED
          BY <1>1, <1>2, <1>4, <3>1, <4>1
      <3>2. CASE j # n + 1
        <4>1. i \in 1..n /\ j \in 1..n
          BY <1>1, <2>1, <3>2
        <4> QED
          BY <1>2, <1>4, <1>7, <2>1, <4>1 DEF Spaced
      <3> QED
        BY <3>1, <3>2
    <2> QED
      BY <1>4, <2>1 DEF Spaced
  <1> QED
    BY <1>2, <1>3, <1>5, <1>6, <1>7

(* One thread goes on with a, and the others stay where they are.          *)
GuardGoes(t, a) ==
    /\ asking' \in [GuardThreads -> GuardCalls] /\ asking'[t] = a
    /\ \A u \in GuardThreads \ {t} : asking'[u] = asking[u]

LEMMA AsksGoes ==
    ASSUME GuardTypes, NEW t \in GuardThreads, NEW a \in GuardCalls, Asks(t, a)
    PROVE  GuardGoes(t, a)
  BY DEF GuardTypes, GuardGoes, Asks

LEMMA NotAskingIs ==
    /\ NotAsking \in GuardCalls /\ NotAsking.pc = "idle" /\ NotAsking.at = 0 /\ NotAsking.bucket = 0
    /\ NotAsking.stale = {}
  <1>1. (CHOOSE c \in Clients : TRUE) \in Clients
    BY GuardAssumption
  <1> QED
    BY <1>1 DEF NotAsking, GuardCalls

LEMMA GuardFacts ==
    ASSUME GuardTypes, NEW t \in GuardThreads
    PROVE  /\ asking[t] \in GuardCalls /\ asking[t].client \in Clients /\ asking[t].at \in Nat
           /\ asking[t].bucket \in Nat /\ buckets[asking[t].client] \in Nat
           /\ asking[t].stale \subseteq Clients
           /\ asking[t].bucket <= buckets[asking[t].client]
  BY DEF GuardTypes, GuardCalls

(* A step of a request that is alone keeps the window when it keeps it at
   the time of that request.                                               *)
LEMMA AloneStep ==
    ASSUME GuardTypes, WindowInv, CalmInv, NEW t \in GuardThreads, NEW a, GuardGoes(t, a),
           Asking(t), UNCHANGED <<second, oneByOne>>, a.pc # "idle" => a.at = asking[t].at,
           bucket' \in [Clients -> Seq(Nat)], served' \in [Clients -> Seq(Nat)],
           evicted \subseteq evicted',
           oneByOne =>
              /\ \A c \in Clients : /\ Ordered(served'[c], asking[t].at)
                                    /\ c \notin evicted' =>
                                         /\ Spaced(served'[c])
                                         /\ Remains(served'[c], bucket'[c], asking[t].at)
              /\ a.pc = "prune" => \A c \in a.stale : Stale(bucket'[c], a.at - Window)
              /\ a.pc \in {"count", "append"} =>
                    a.client \in Range(tracked') /\ a.bucket = buckets'[a.client]
              /\ a.pc = "append" => Len(bucket'[a.client]) < Limit
    PROVE  WindowInv' /\ CalmInv'
  <1>1. SUFFICES ASSUME oneByOne PROVE WindowInv' /\ CalmInv'
    BY DEF WindowInv, CalmInv
  <1>2. /\ \A u \in GuardThreads \ {t} : asking'[u].pc = "idle"
        /\ asking'[t] = a /\ asking[t].at <= second /\ asking[t].at \in Nat /\ second \in Nat
    BY <1>1, GuardFacts DEF WindowInv, OneAsks, Asking, GuardGoes, GuardTypes
  <1>3. \A c \in Clients : /\ Ordered(served'[c], second')
                           /\ c \notin evicted' => Remains(served'[c], bucket'[c], second')
    BY <1>1, <1>2, OrderedLater, RemainsLater
  <1>4. WindowInv'
    <2>1. \A u \in GuardThreads : Asking(u)' => u = t /\ asking'[u].at = asking[t].at
      BY <1>2 DEF Asking
    <2>2. OneAsks'
      BY <2>1 DEF OneAsks
    <2>3. \A u \in GuardThreads : Asking(u)' => asking'[u].at <= second'
      BY <1>2, <2>1
    <2>4. ASSUME NEW c \in Clients
          PROVE  /\ Ordered(served'[c], second')
                 /\ \A u \in GuardThreads : Asking(u)' => Ordered(served'[c], asking'[u].at)
                 /\ c \notin evicted' =>
                      /\ Spaced(served'[c]) /\ Remains(served'[c], bucket'[c], second')
                      /\ \A u \in GuardThreads :
                            Asking(u)' => Remains(served'[c], bucket'[c], asking'[u].at)
      BY <1>1, <1>3, <2>1
    <2> QED
      BY <2>2, <2>3, <2>4 DEF WindowInv
  <1>5. CalmInv'
    <2>1. ASSUME NEW u \in GuardThreads PROVE Undisturbed(asking[u], asking[u].at)'
      <3>1. CASE u = t
        BY <1>1, <1>2, <3>1 DEF Undisturbed
      <3>2. CASE u # t
        BY <1>2, <3>2 DEF Undisturbed
      <3> QED
        BY <3>1, <3>2
    <2> QED
      BY <2>1 DEF CalmInv
  <1> QED
    BY <1>4, <1>5

(* What holds while the request of t is under way, alone.                  *)
LEMMA AloneFacts ==
    ASSUME GuardTypes, WindowInv, CalmInv, oneByOne, NEW t \in GuardThreads, Asking(t)
    PROVE  /\ \A c \in Clients :
                 /\ Ordered(served[c], asking[t].at)
                 /\ c \notin evicted => Spaced(served[c]) /\ Remains(served[c], bucket[c], asking[t].at)
           /\ Undisturbed(asking[t], asking[t].at)
  BY DEF WindowInv, CalmInv

-----------------------------------------------------------------------------
(* The bound on the buckets: how the two sets may change.                  *)
LEMMA GuardSets ==
    ASSUME GuardTypes
    PROVE  /\ IsFiniteSet(Bounding) /\ Cardinality(Bounding) \in Nat
           /\ IsFiniteSet(Fresh) /\ Cardinality(Fresh) \in Nat
           /\ Cardinality(Bounding) + Cardinality(Fresh)
                 <= Cardinality({t \in GuardThreads : Asking(t)})
  <1> DEFINE Counting == {t \in GuardThreads : asking[t].pc = "count"}
             Those == {asking[t].client : t \in Counting}
             Clienting == [t \in Counting |-> asking[t].client]
             Both == {t \in GuardThreads : Asking(t)}
  <1>1. IsFiniteSet(GuardThreads)
    BY GuardAssumption
  <1>2. IsFiniteSet(Counting) /\ IsFiniteSet(Bounding) /\ IsFiniteSet(Both)
    BY <1>1, FS_Subset DEF Bounding
  <1>3. Clienting \in Surjection(Counting, Those)
    BY DEF Surjection
  <1>4. IsFiniteSet(Those) /\ Cardinality(Those) <= Cardinality(Counting)
    BY <1>2, <1>3, FS_Surjection
  <1>5. Fresh \subseteq Those
    BY DEF Fresh, Awaited
  <1>6. IsFiniteSet(Fresh) /\ Cardinality(Fresh) <= Cardinality(Those)
    BY <1>4, <1>5, FS_Subset
  <1>7. /\ Cardinality(Bounding) \in Nat /\ Cardinality(Fresh) \in Nat /\ Cardinality(Those) \in Nat
        /\ Cardinality(Counting) \in Nat /\ Cardinality(Both) \in Nat
    BY <1>2, <1>4, <1>6, FS_CardinalityType
  <1>8. Cardinality(Bounding \cup Counting) = Cardinality(Bounding) + Cardinality(Counting)
    <2>1. Bounding \cap Counting = {}
      BY DEF Bounding
    <2>2. Cardinality(Bounding \cup Counting)
             = Cardinality(Bounding) + Cardinality(Counting) - Cardinality(Bounding \cap Counting)
      BY <1>2, FS_Union
    <2>3. Cardinality(Bounding \cap Counting) = 0
      BY <2>1, FS_EmptySet
    <2> QED
      BY <1>7, <2>2, <2>3
  <1>9. Cardinality(Bounding \cup Counting) <= Cardinality(Both)
    <2>1. Bounding \cup Counting \subseteq Both
      BY DEF Bounding, Asking
    <2> QED
      BY <1>2, <2>1, FS_Subset
  <1> QED
    BY <1>2, <1>4, <1>6, <1>7, <1>8, <1>9

GuardSetsAreFinite ==
    /\ IsFiniteSet(Bounding) /\ Cardinality(Bounding) \in Nat
    /\ IsFiniteSet(Fresh) /\ Cardinality(Fresh) \in Nat

LEMMA GuardSetsNow == GuardTypes => GuardSetsAreFinite
  BY GuardSets DEF GuardSetsAreFinite

LEMMA GuardSetsNext == GuardTypes' => GuardSetsAreFinite'
  BY GuardSetsNow, PTL

LEMMA NoSmaller ==
    ASSUME NEW before, NEW after, IsFiniteSet(before), IsFiniteSet(after), before \subseteq after
    PROVE  Cardinality(before) <= Cardinality(after)
  BY FS_Subset

LEMMA OneSmaller ==
    ASSUME NEW before, NEW after, NEW x, IsFiniteSet(before), IsFiniteSet(after),
           before \ {x} \subseteq after
    PROVE  Cardinality(before) <= Cardinality(after) + 1
  <1>1. IsFiniteSet(before \ {x}) /\ Cardinality(before) <= Cardinality(before \ {x}) + 1
    BY FS_RemoveElement, FS_CardinalityType
  <1>2. Cardinality(before \ {x}) <= Cardinality(after)
    BY <1>1, FS_Subset
  <1> QED
    BY <1>1, <1>2, FS_CardinalityType

LEMMA OneLarger ==
    ASSUME NEW before, NEW after, NEW x, IsFiniteSet(before), IsFiniteSet(after),
           x \notin before, before \cup {x} \subseteq after
    PROVE  Cardinality(before) + 1 <= Cardinality(after)
  <1>1. IsFiniteSet(before \cup {x}) /\ Cardinality(before \cup {x}) = Cardinality(before) + 1
    BY FS_AddElement
  <1> QED
    BY <1>1, FS_Subset

LEMMA WithoutIs ==
    ASSUME NEW keys \in Seq(Clients), NEW c
    PROVE  /\ Without(keys, c) \in Seq(Clients) /\ Len(Without(keys, c)) \in Nat
           /\ c \in Range(keys) => Len(Without(keys, c)) = Len(keys) - 1
           /\ c \notin Range(keys) => Without(keys, c) = keys
           /\ Range(keys) \ {c} \subseteq Range(Without(keys, c))
  <1>1. CASE c \notin Range(keys)
    BY <1>1 DEF Without
  <1>2. CASE c \in Range(keys)
    <2>1. PICK n \in Nat : n = Len(keys) /\ DOMAIN keys = 1..n
      OBVIOUS
    <2>2. \E i \in DOMAIN keys : keys[i] = c
      BY <1>2 DEF Range
    <2>3. PICK i : i = CHOOSE j \in DOMAIN keys : keys[j] = c
      OBVIOUS
    <2>4. i \in 1..n /\ keys[i] = c
      BY <2>1, <2>2, <2>3
    <2>5. PICK front, back : front = SubSeq(keys, 1, i - 1) /\ back = SubSeq(keys, i + 1, Len(keys))
      OBVIOUS
    <2>6. /\ front \in Seq(Clients) /\ Len(front) = i - 1
          /\ \A j \in 1..(i - 1) : front[j] = keys[j]
      BY <2>1, <2>4, <2>5
    <2>7. /\ back \in Seq(Clients) /\ Len(back) = n - i
          /\ \A j \in 1..(n - i) : back[j] = keys[i + j]
      BY <2>1, <2>4, <2>5
    <2>8. PICK rest : rest = front \o back
      OBVIOUS
    <2>9. Without(keys, c) = rest
      BY <1>2, <2>3, <2>5, <2>8 DEF Without, RemoveAt
    <2>10. /\ rest \in Seq(Clients) /\ Len(rest) = n - 1
           /\ \A j \in 1..(i - 1) : rest[j] = keys[j]
           /\ \A j \in 1..(n - i) : rest[i - 1 + j] = keys[i + j]
      <3>0. n \in Nat /\ i \in 1..n
        BY <2>1, <2>4
      <3>1. i - 1 \in Nat /\ n - i \in Nat
        BY <3>0
      <3> DEFINE a == i - 1
                 b == n - i
      <3>a. a \in Nat /\ b \in Nat
        BY <3>1
      <3>b. a = i - 1 /\ b = n - i
        OBVIOUS
      <3> HIDE DEF a, b
      <3>2. Len(front) = a /\ Len(back) = b
        BY <2>6, <2>7, <3>b, <3>0
      <3>3. /\ rest \in Seq(Clients) /\ Len(rest) = a + b
            /\ \A j \in 1..(a + b) : rest[j] = IF j <= a THEN front[j] ELSE back[j - a]
        BY <2>6, <2>7, <2>8, <3>2, <3>a
      <3>4. \A j \in 1..a : rest[j] = front[j]
        BY <3>3, <3>a
      <3>5. ASSUME NEW j \in 1..b PROVE rest[a + j] = back[j]
        <4>1. a + j \in 1..(a + b) /\ ~(a + j <= a) /\ (a + j) - a = j
          BY <3>a
        <4> QED
          BY <3>3, <4>1
      <3>6. a + b = n - 1
        BY <2>1, <2>4, <3>b, <3>0
      <3>7. \A j \in 1..(i - 1) : rest[j] = keys[j]
        BY <2>6, <3>b, <3>0, <3>4
      <3>8. \A j \in 1..(n - i) : rest[i - 1 + j] = keys[i + j]
        BY <2>7, <3>b, <3>0, <3>5
      <3> QED
        BY <3>3, <3>6, <3>7, <3>8
    <2>11. ASSUME NEW d \in Range(keys) \ {c} PROVE d \in Range(rest)
      <3>1. PICK j \in 1..n : keys[j] = d
        BY <2>1 DEF Range
      <3>2. j # i
        BY <2>4, <3>1
      <3>3. DOMAIN rest = 1..(n - 1)
        BY <2>1, <2>10
      <3>4. CASE j < i
        <4>1. j \in 1..(i - 1) /\ j \in 1..(n - 1)
          BY <2>1, <2>4, <3>4
        <4> QED
          BY <2>10, <3>1, <3>3, <4>1 DEF Range
      <3>5. CASE j > i
        <4>1. PICK k \in 1..(n - i) : j = i + k
          BY <2>4, <3>5
        <4>2. rest[i - 1 + k] = keys[i + k]
          BY <2>10, <4>1
        <4>3. i - 1 + k \in DOMAIN rest
          BY <2>1, <2>4, <3>3, <4>1
        <4> QED
          BY <3>1, <4>1, <4>2, <4>3 DEF Range
      <3> QED
        BY <2>4, <3>2, <3>4, <3>5
    <2> QED
      BY <1>2, <2>1, <2>9, <2>10, <2>11
  <1> QED
    BY <1>1, <1>2

LEMMA WithoutFirst ==
    ASSUME NEW keys \in Seq(Clients), Len(keys) > 0
    PROVE  /\ Head(keys) \in Clients /\ Head(keys) \in Range(keys)
           /\ Tail(keys) \in Seq(Clients) /\ Len(Tail(keys)) = Len(keys) - 1
           /\ Range(keys) \ {Head(keys)} \subseteq Range(Tail(keys))
  <1>1. PICK n \in Nat : n = Len(keys) /\ DOMAIN keys = 1..n /\ n > 0
    OBVIOUS
  <1>2. PICK rest : rest = Tail(keys)
    OBVIOUS
  <1>3. /\ rest \in Seq(Clients) /\ Len(rest) = n - 1 /\ DOMAIN rest = 1..(n - 1)
        /\ \A j \in 1..(n - 1) : rest[j] = keys[j + 1]
        /\ Head(keys) = keys[1] /\ keys[1] \in Clients
    BY <1>1, <1>2
  <1>4. ASSUME NEW d \in Range(keys) \ {Head(keys)} PROVE d \in Range(rest)
    <2>1. PICK j \in 1..n : keys[j] = d
      BY <1>1 DEF Range
    <2>2. j # 1
      BY <1>3, <2>1
    <2>3. PICK k \in 1..(n - 1) : j = k + 1
      BY <2>2
    <2> QED
      BY <1>3, <2>1, <2>3 DEF Range
  <1>5. Head(keys) \in Range(keys)
    BY <1>1, <1>3 DEF Range
  <1> QED
    BY <1>1, <1>2, <1>3, <1>4, <1>5

LEMMA StaysFresh ==
    ASSUME GuardTypes, NEW t \in GuardThreads, NEW a, GuardGoes(t, a), NEW c \in Fresh,
           c \in Range(tracked'), bucket'[c] = <<>>, buckets'[c] = buckets[c],
           asking[t].pc = "count" /\ Current(t) /\ asking[t].client = c =>
              a.pc = "count" /\ a.client = c /\ a.bucket = buckets[c],
           ~(a.pc = "append" /\ a.client = c /\ a.bucket = buckets[c]) \/ asking[t] = a
    PROVE  c \in Fresh'
  <1>1. c \in Clients /\ c \in Range(tracked) /\ Awaited(c)
    BY DEF Fresh
  <1>2. PICK u \in GuardThreads : /\ asking[u].pc = "count" /\ asking[u].client = c
                                  /\ asking[u].bucket = buckets[c]
    BY <1>1 DEF Awaited, Current
  <1>3. asking'[u].pc = "count" /\ asking'[u].client = c /\ asking'[u].bucket = buckets'[c]
    BY <1>1, <1>2 DEF GuardGoes, Current, IsTracked
  <1>4. Current(u)'
    BY <1>3 DEF Current, IsTracked
  <1>5. ASSUME NEW v \in GuardThreads, asking'[v].pc = "append", Current(v)'
        PROVE  asking'[v].client # c
    <2>1. SUFFICES ASSUME asking'[v].client = c PROVE FALSE
      OBVIOUS
    <2>2. asking'[v].bucket = buckets[c]
      BY <1>5, <2>1 DEF Current
    <2>3. asking'[v] = asking[v]
      BY <1>5, <2>1, <2>2 DEF GuardGoes
    <2>4. Current(v) /\ asking[v].pc = "append" /\ asking[v].client = c
      BY <1>1, <1>5, <2>1, <2>2, <2>3 DEF Current, IsTracked
    <2> QED
      BY <1>1, <2>4 DEF Awaited
  <1>6. Awaited(c)'
    BY <1>3, <1>4, <1>5 DEF Awaited
  <1> QED
    BY <1>1, <1>6 DEF Fresh

(* The step of the two sizes.                                              *)
LEMMA SizeStep ==
    ASSUME GuardTypes, GuardTypes', SizeInv,
           \/ /\ Len(tracked') = Len(tracked)
              /\ Bounding \subseteq Bounding' /\ Fresh \subseteq Fresh'
           \/ /\ Len(tracked') = Len(tracked)
              /\ \E t \in GuardThreads : t \notin Bounding /\ Bounding \cup {t} \subseteq Bounding'
              /\ \E c \in Clients : Fresh \ {c} \subseteq Fresh'
           \/ /\ Len(tracked') = Len(tracked) - 1
              /\ Bounding \subseteq Bounding' /\ \E c \in Clients : Fresh \ {c} \subseteq Fresh'
           \/ /\ Len(tracked') = Len(tracked) + 1
              /\ Bounding \subseteq Bounding'
              /\ \E c \in Clients : c \notin Fresh /\ Fresh \cup {c} \subseteq Fresh'
           \/ Len(tracked') <= MaxTracked
    PROVE  SizeInv'
  <1>1. /\ IsFiniteSet(Bounding) /\ Cardinality(Bounding) \in Nat
        /\ IsFiniteSet(Fresh) /\ Cardinality(Fresh) \in Nat
    BY GuardSets
  <1>2. /\ IsFiniteSet(Bounding') /\ Cardinality(Bounding') \in Nat
        /\ IsFiniteSet(Fresh') /\ Cardinality(Fresh') \in Nat
    BY GuardSetsNext DEF GuardSetsAreFinite
  <1>3. MaxTracked \in Nat /\ Len(tracked) \in Nat /\ Len(tracked') \in Nat
    BY GuardAssumption DEF GuardTypes
  <1>4. Bounding \subseteq Bounding' => Cardinality(Bounding) <= Cardinality(Bounding')
    BY <1>1, <1>2, NoSmaller
  <1>5. Fresh \subseteq Fresh' => Cardinality(Fresh) <= Cardinality(Fresh')
    BY <1>1, <1>2, NoSmaller
  <1>6. \A t : t \notin Bounding /\ Bounding \cup {t} \subseteq Bounding' =>
                  Cardinality(Bounding) + 1 <= Cardinality(Bounding')
    BY <1>1, <1>2, OneLarger
  <1>7. \A c : Fresh \ {c} \subseteq Fresh' => Cardinality(Fresh) <= Cardinality(Fresh') + 1
    BY <1>1, <1>2, OneSmaller
  <1>8. \A c : c \notin Fresh /\ Fresh \cup {c} \subseteq Fresh' =>
                  Cardinality(Fresh) + 1 <= Cardinality(Fresh')
    BY <1>1, <1>2, OneLarger
  <1>9. CASE /\ Len(tracked') = Len(tracked)
             /\ Bounding \subseteq Bounding' /\ Fresh \subseteq Fresh'
    BY <1>1, <1>2, <1>3, <1>4, <1>5, <1>9 DEF SizeInv
  <1>10. CASE /\ Len(tracked') = Len(tracked)
              /\ \E t \in GuardThreads : t \notin Bounding /\ Bounding \cup {t} \subseteq Bounding'
              /\ \E c \in Clients : Fresh \ {c} \subseteq Fresh'
    <2>1. Cardinality(Bounding) + 1 <= Cardinality(Bounding')
      BY <1>6, <1>10
    <2>2. Cardinality(Fresh) <= Cardinality(Fresh') + 1
      BY <1>7, <1>10
    <2> QED
      BY <1>1, <1>2, <1>3, <1>10, <2>1, <2>2 DEF SizeInv
  <1>11. CASE /\ Len(tracked') = Len(tracked) - 1
              /\ Bounding \subseteq Bounding' /\ \E c \in Clients : Fresh \ {c} \subseteq Fresh'
    <2>1. Cardinality(Fresh) <= Cardinality(Fresh') + 1
      BY <1>7, <1>11
    <2> QED
      BY <1>1, <1>2, <1>3, <1>4, <1>11, <2>1 DEF SizeInv
  <1>12. CASE /\ Len(tracked') = Len(tracked) + 1
              /\ Bounding \subseteq Bounding'
              /\ \E c \in Clients : c \notin Fresh /\ Fresh \cup {c} \subseteq Fresh'
    <2>1. Cardinality(Fresh) + 1 <= Cardinality(Fresh')
      BY <1>8, <1>12
    <2> QED
      BY <1>1, <1>2, <1>3, <1>4, <1>12, <2>1 DEF SizeInv
  <1>13. CASE Len(tracked') <= MaxTracked
    BY <1>2, <1>3, <1>13 DEF SizeInv
  <1> QED
    BY <1>9, <1>10, <1>11, <1>12, <1>13

-----------------------------------------------------------------------------
LEMMA PruneKeeps ==
    ASSUME GuardInv, NEW t \in GuardThreads, Prune(t)
    PROVE  GuardInv'
  <1> USE DEF GuardInv
  <1>a. /\ asking[t].pc = "idle" /\ requests' = requests + 1
        /\ oneByOne' = (oneByOne /\ \A u \in GuardThreads : asking[u].pc = "idle")
        /\ UNCHANGED <<second, tracked, bucket, buckets, served, evicted>>
    BY DEF Prune
  <1>b. PICK c \in Clients : Asks(t, [NotAsking EXCEPT !.pc = "prune", !.client = c, !.at = second,
                 !.stale = {d \in Range(tracked) : Stale(bucket[d], second - Window)}])
    BY DEF Prune
  <1>1. PICK a : /\ a = [NotAsking EXCEPT !.pc = "prune", !.client = c, !.at = second,
                      !.stale = {d \in Range(tracked) : Stale(bucket[d], second - Window)}]
                 /\ Asks(t, a)
    BY <1>b
  <1>2. /\ a \in GuardCalls /\ a.pc = "prune" /\ a.client = c /\ a.at = second /\ a.bucket = 0
        /\ a.stale = {d \in Range(tracked) : Stale(bucket[d], second - Window)}
    <2>1. Range(tracked) \subseteq Clients
      BY DEF GuardTypes, Range
    <2>2. second \in Nat
      BY DEF GuardTypes
    <2> QED
      BY <1>1, <2>1, <2>2, NotAskingIs DEF GuardCalls
  <1>3. GuardGoes(t, a)
    BY <1>1, <1>2, AsksGoes
  <1>4. GuardTypes'
    <2>1. requests' \in Nat /\ oneByOne' \in BOOLEAN
      BY <1>a DEF GuardTypes
    <2>2. ASSUME NEW u \in GuardThreads
          PROVE  asking'[u].bucket <= buckets'[asking'[u].client]
      <3>1. CASE u = t
        <4>1. asking'[u].bucket = 0 /\ asking'[u].client = c /\ buckets'[c] \in Nat
          BY <1>a, <1>2, <1>3, <3>1 DEF GuardGoes, GuardTypes
        <4> QED
          BY <4>1
      <3>2. CASE u # t
        BY <1>a, <1>3, <3>2 DEF GuardGoes, GuardTypes
      <3> QED
        BY <3>1, <3>2
    <2> QED
      BY <1>a, <1>3, <2>1, <2>2 DEF GuardTypes, GuardGoes
  <1>5. ASSUME oneByOne'
        PROVE  /\ oneByOne /\ \A u \in GuardThreads : Asking(u)' => u = t /\ asking'[u] = a
               /\ \A c_1 \in Clients : Ordered(served[c_1], second)
               /\ \A c_1 \in Clients \ evicted : Spaced(served[c_1])
                                                 /\ Remains(served[c_1], bucket[c_1], second)
    BY <1>a, <1>3, <1>5 DEF GuardGoes, Asking, WindowInv
  <1>6. WindowInv'
    <2>1. SUFFICES ASSUME oneByOne' PROVE WindowInv'
      BY DEF WindowInv
    <2>2. OneAsks' /\ \A u \in GuardThreads : Asking(u)' => asking'[u].at = second'
      BY <1>a, <1>2, <1>5, <2>1 DEF OneAsks
    <2>3. second' \in Nat
      BY <1>a DEF GuardTypes
    <2> QED
      BY <1>a, <1>5, <2>1, <2>2, <2>3 DEF WindowInv
  <1>7. CalmInv'
    <2>1. SUFFICES ASSUME oneByOne' PROVE CalmInv'
      BY DEF CalmInv
    <2>2. ASSUME NEW u \in GuardThreads PROVE Undisturbed(asking[u], asking[u].at)'
      <3>1. CASE u = t
        BY <1>a, <1>2, <1>3, <3>1 DEF Undisturbed, GuardGoes
      <3>2. CASE u # t
        <4>1. asking'[u].pc = "idle"
          BY <1>5, <2>1, <3>2 DEF Asking
        <4> QED
          BY <4>1 DEF Undisturbed
      <3> QED
        BY <3>1, <3>2
    <2> QED
      BY <2>2 DEF CalmInv
  <1>8. SizeInv'
    <2>1. Bounding \subseteq Bounding'
      BY <1>a, <1>3 DEF Bounding, GuardGoes
    <2>2. ASSUME NEW d \in Fresh PROVE d \in Fresh'
      <3>1. d \in Range(tracked') /\ bucket'[d] = <<>> /\ buckets'[d] = buckets[d]
        BY <1>a DEF Fresh
      <3> QED
        BY <1>a, <1>2, <1>3, <3>1, StaysFresh
    <2> QED
      BY <1>a, <1>4, <2>1, <2>2, SizeStep
  <1> QED
    BY <1>4, <1>6, <1>7, <1>8

LEMMA GuardStays ==
    ASSUME GuardInv, UNCHANGED <<second, tracked, bucket, buckets, asking, served, evicted>>,
           requests' \in Nat, oneByOne' \in BOOLEAN, oneByOne' => oneByOne
    PROVE  GuardInv'
  <1> USE DEF GuardInv
  <1>1. GuardTypes'
    BY DEF GuardTypes
  <1>2. WindowInv'
    BY DEF WindowInv, OneAsks, Asking
  <1>3. CalmInv'
    BY DEF CalmInv, Undisturbed
  <1>4. SizeInv'
    BY DEF SizeInv, Bounding, Fresh, Awaited, Current, IsTracked
  <1> QED
    BY <1>1, <1>2, <1>3, <1>4

LEMMA SecondPassesKeeps == GuardInv /\ SecondPasses => GuardInv'
  <1> SUFFICES ASSUME GuardInv, SecondPasses PROVE GuardInv'
    OBVIOUS
  <1> USE DEF GuardInv
  <1>a. /\ second' = second + 1 /\ second \in Nat /\ second' \in Nat /\ second <= second'
        /\ UNCHANGED <<tracked, bucket, buckets, asking, requests, served, evicted, oneByOne>>
    BY DEF SecondPasses, GuardTypes
  <1>1. GuardTypes'
    BY <1>a DEF GuardTypes
  <1>2. WindowInv'
    <2>1. SUFFICES ASSUME oneByOne PROVE WindowInv'
      BY <1>a DEF WindowInv
    <2>2. \A c \in Clients : /\ Ordered(served[c], second')
                             /\ c \notin evicted => Remains(served[c], bucket[c], second')
      BY <1>a, <2>1, OrderedLater, RemainsLater DEF WindowInv, GuardTypes
    <2>3. \A t \in GuardThreads : Asking(t) => asking[t].at <= second'
      BY <1>a, <2>1, GuardFacts DEF WindowInv
    <2>4. OneAsks' /\ \A t \in GuardThreads : Asking(t)' <=> Asking(t)
      BY <1>a, <2>1 DEF WindowInv, OneAsks, Asking
    <2> QED
      BY <1>a, <2>1, <2>2, <2>3, <2>4 DEF WindowInv
  <1>3. CalmInv'
    BY <1>a DEF CalmInv, Undisturbed
  <1>4. SizeInv'
    BY <1>a DEF SizeInv, Bounding, Fresh, Awaited, Current, IsTracked
  <1> QED
    BY <1>1, <1>2, <1>3, <1>4

-----------------------------------------------------------------------------
(* The steps of a request.                                                 *)
LEMMA GuardTypesStep ==
    ASSUME GuardTypes, NEW t \in GuardThreads, NEW a \in GuardCalls, GuardGoes(t, a),
           UNCHANGED <<second, requests, oneByOne>>,
           tracked' \in Seq(Clients), bucket' \in [Clients -> Seq(Nat)],
           served' \in [Clients -> Seq(Nat)], buckets' \in [Clients -> Nat], evicted' \subseteq Clients,
           \A c \in Clients : buckets[c] <= buckets'[c], a.bucket <= buckets'[a.client],
           \A c \in Clients \ Range(tracked') : bucket'[c] = <<>>
    PROVE  GuardTypes'
  <1>1. ASSUME NEW u \in GuardThreads
        PROVE  asking'[u].bucket <= buckets'[asking'[u].client]
    <2>1. CASE u = t
      BY <2>1 DEF GuardGoes
    <2>2. CASE u # t
      <3>1. asking'[u] = asking[u]
        BY <2>2 DEF GuardGoes
      <3>2. /\ asking[u].bucket <= buckets[asking[u].client] /\ asking[u].bucket \in Nat
            /\ asking[u].client \in Clients
        BY GuardFacts
      <3>3. buckets[asking[u].client] \in Nat /\ buckets'[asking[u].client] \in Nat
        BY <3>2 DEF GuardTypes
      <3> QED
        BY <3>1, <3>2, <3>3
    <2> QED
      BY <2>1, <2>2
  <1> QED
    BY <1>1 DEF GuardTypes, GuardGoes

LEMMA DropStaleKeeps ==
    ASSUME GuardInv, NEW t \in GuardThreads, DropStale(t)
    PROVE  GuardInv'
  <1> USE DEF GuardInv
  <1>1. PICK c \in asking[t].stale :
              /\ tracked' = Without(tracked, c)
              /\ bucket' = [bucket EXCEPT ![c] = <<>>]
              /\ Asks(t, [asking[t] EXCEPT !.stale = @ \ {c}])
    BY DEF DropStale
  <1>2. /\ asking[t].pc = "prune"
        /\ UNCHANGED <<second, buckets, requests, served, evicted, oneByOne>>
    BY DEF DropStale
  <1>3. PICK a : a = [asking[t] EXCEPT !.stale = @ \ {c}]
    OBVIOUS
  <1>4. /\ a \in GuardCalls /\ a.pc = "prune" /\ a.client = asking[t].client
        /\ a.at = asking[t].at /\ a.bucket = asking[t].bucket /\ a.stale = asking[t].stale \ {c}
        /\ c \in Clients
    BY <1>2, <1>3, GuardFacts DEF GuardCalls
  <1>5. GuardGoes(t, a)
    BY <1>1, <1>3, <1>4, AsksGoes
  <1>6. /\ tracked' \in Seq(Clients)
        /\ c \in Range(tracked) => Len(tracked') = Len(tracked) - 1
        /\ c \notin Range(tracked) => tracked' = tracked
        /\ Range(tracked) \ {c} \subseteq Range(tracked')
    BY <1>1, WithoutIs DEF GuardTypes
  <1>7. /\ bucket' \in [Clients -> Seq(Nat)] /\ bucket'[c] = <<>>
        /\ \A d \in Clients \ {c} : bucket'[d] = bucket[d]
    BY <1>1, <1>4 DEF GuardTypes
  <1>8. GuardTypes'
    <2>1. \A d \in Clients \ Range(tracked') : bucket'[d] = <<>>
      BY <1>6, <1>7 DEF GuardTypes
    <2>2. served' \in [Clients -> Seq(Nat)] /\ buckets' \in [Clients -> Nat] /\ evicted' \subseteq Clients
      BY <1>2 DEF GuardTypes
    <2>3. (\A d \in Clients : buckets[d] <= buckets'[d]) /\ a.bucket <= buckets'[a.client]
      BY <1>2, <1>4, GuardFacts DEF GuardTypes
    <2> QED
      BY <1>2, <1>4, <1>5, <1>6, <1>7, <2>1, <2>2, <2>3, GuardTypesStep
  <1>9. WindowInv' /\ CalmInv'
    <2>1. ASSUME oneByOne
          PROVE  /\ \A d \in Clients : /\ Ordered(served'[d], asking[t].at)
                                       /\ d \notin evicted' =>
                                            /\ Spaced(served'[d])
                                            /\ Remains(served'[d], bucket'[d], asking[t].at)
                 /\ \A d \in a.stale : Stale(bucket'[d], a.at - Window)
      <3>1. Asking(t)
        BY <1>2 DEF Asking
      <3>2. \A d \in Clients :
               /\ Ordered(served[d], asking[t].at)
               /\ d \notin evicted => Spaced(served[d]) /\ Remains(served[d], bucket[d], asking[t].at)
        BY <2>1, <3>1, AloneFacts
      <3>3. \A d \in asking[t].stale : Stale(bucket[d], asking[t].at - Window)
        BY <1>2, <2>1, <3>1, AloneFacts DEF Undisturbed
      <3>4. c \notin evicted => Remains(served[c], <<>>, asking[t].at)
        <4>1. served[c] \in Seq(Nat) /\ bucket[c] \in Seq(Nat) /\ asking[t].at \in Nat
          BY <1>4, GuardFacts DEF GuardTypes
        <4> QED
          BY <1>4, <3>2, <3>3, <4>1, AllLeft
      <3>5. \A d \in a.stale : d \in Clients /\ d # c
        BY <1>4, GuardFacts
      <3> QED
        BY <1>2, <1>4, <1>7, <3>2, <3>3, <3>4, <3>5
    <2> QED
      BY <1>2, <1>4, <1>5, <1>7, <1>8, <2>1, AloneStep DEF Asking, GuardTypes
  <1>10. SizeInv'
    <2>1. Bounding \subseteq Bounding'
      BY <1>2, <1>5 DEF Bounding, GuardGoes
    <2>2. ASSUME NEW d \in Fresh \ {c} PROVE d \in Fresh'
      <3>1. d \in Range(tracked') /\ bucket'[d] = <<>> /\ buckets'[d] = buckets[d]
        BY <1>2, <1>6, <1>7 DEF Fresh
      <3> QED
        BY <1>2, <1>4, <1>5, <3>1, StaysFresh
    <2>3. CASE c \in Range(tracked)
      BY <1>4, <1>6, <1>8, <2>1, <2>2, <2>3, SizeStep
    <2>4. CASE c \notin Range(tracked)
      <3>1. c \notin Fresh
        BY <2>4 DEF Fresh
      <3> QED
        BY <1>6, <1>8, <2>1, <2>2, <2>4, <3>1, SizeStep
    <2> QED
      BY <2>3, <2>4
  <1> QED
    BY <1>8, <1>9, <1>10

LEMMA FetchTrackedKeeps ==
    ASSUME GuardInv, NEW t \in GuardThreads, FetchBucket(t), IsTracked(asking[t].client)
    PROVE  GuardInv'
  <1> USE DEF GuardInv
  <1>1. PICK c : c = asking[t].client
    OBVIOUS
  <1>2. /\ asking[t].pc = "prune" /\ Asks(t, [asking[t] EXCEPT !.pc = "count", !.bucket = buckets[c]])
        /\ UNCHANGED <<second, tracked, bucket, buckets, requests, served, evicted, oneByOne>>
    BY <1>1 DEF FetchBucket
  <1>3. PICK a : a = [asking[t] EXCEPT !.pc = "count", !.bucket = buckets[c]]
    OBVIOUS
  <1>4. /\ a \in GuardCalls /\ a.pc = "count" /\ a.client = c /\ a.at = asking[t].at
        /\ a.bucket = buckets[c] /\ c \in Range(tracked) /\ buckets[c] \in Nat
    BY <1>1, <1>2, <1>3, GuardFacts DEF GuardCalls, IsTracked
  <1>5. GuardGoes(t, a)
    BY <1>2, <1>3, <1>4, AsksGoes
  <1>6. GuardTypes'
    <2>1. \A d \in Clients : buckets[d] <= buckets'[d]
      BY <1>2 DEF GuardTypes
    <2>2. /\ tracked' \in Seq(Clients) /\ bucket' \in [Clients -> Seq(Nat)]
          /\ served' \in [Clients -> Seq(Nat)] /\ buckets' \in [Clients -> Nat]
          /\ evicted' \subseteq Clients /\ \A d \in Clients \ Range(tracked') : bucket'[d] = <<>>
      BY <1>2 DEF GuardTypes
    <2>3. a.bucket <= buckets'[a.client]
      BY <1>2, <1>4
    <2> QED
      BY <1>2, <1>4, <1>5, <2>1, <2>2, <2>3, GuardTypesStep
  <1>7. WindowInv' /\ CalmInv'
    <2>1. ASSUME oneByOne
          PROVE  \A d \in Clients :
                    /\ Ordered(served[d], asking[t].at)
                    /\ d \notin evicted => Spaced(served[d]) /\ Remains(served[d], bucket[d], asking[t].at)
      BY <1>2, <2>1, AloneFacts DEF Asking
    <2> QED
      BY <1>2, <1>4, <1>5, <2>1, AloneStep DEF Asking, GuardTypes
  <1>8. SizeInv'
    <2>1. Bounding \subseteq Bounding'
      BY <1>2, <1>5 DEF Bounding, GuardGoes
    <2>2. ASSUME NEW d \in Fresh PROVE d \in Fresh'
      <3>1. d \in Range(tracked') /\ bucket'[d] = <<>> /\ buckets'[d] = buckets[d]
        BY <1>2 DEF Fresh
      <3> QED
        BY <1>2, <1>4, <1>5, <3>1, StaysFresh
    <2> QED
      BY <1>2, <1>6, <2>1, <2>2, SizeStep
  <1> QED
    BY <1>6, <1>7, <1>8

LEMMA AppendedHas ==
    ASSUME NEW keys \in Seq(Clients), NEW c \in Clients
    PROVE  /\ Append(keys, c) \in Seq(Clients) /\ Len(Append(keys, c)) = Len(keys) + 1
           /\ c \in Range(Append(keys, c)) /\ Range(keys) \subseteq Range(Append(keys, c))
  <1>1. PICK n \in Nat : n = Len(keys) /\ DOMAIN keys = 1..n
    OBVIOUS
  <1>2. PICK more : more = Append(keys, c)
    OBVIOUS
  <1>3. /\ more \in Seq(Clients) /\ Len(more) = n + 1 /\ DOMAIN more = 1..(n + 1)
        /\ more[n + 1] = c /\ \A i \in 1..n : more[i] = keys[i]
    BY <1>1, <1>2
  <1>4. c \in Range(more)
    BY <1>1, <1>3 DEF Range
  <1>5. ASSUME NEW d \in Range(keys) PROVE d \in Range(more)
    <2>1. PICK i \in 1..n : keys[i] = d
      BY <1>1 DEF Range
    <2>2. i \in DOMAIN more /\ more[i] = d
      BY <1>1, <1>3, <2>1
    <2> QED
      BY <2>2 DEF Range
  <1> QED
    BY <1>1, <1>2, <1>3, <1>4, <1>5

LEMMA FetchNewKeeps ==
    ASSUME GuardInv, NEW t \in GuardThreads, FetchBucket(t), ~IsTracked(asking[t].client)
    PROVE  GuardInv'
  <1> USE DEF GuardInv
  <1>1. PICK c : c = asking[t].client
    OBVIOUS
  <1>2. /\ asking[t].pc = "prune"
        /\ Asks(t, [asking[t] EXCEPT !.pc = "count", !.bucket = buckets[c] + 1])
        /\ tracked' = Append(tracked, c) /\ bucket' = [bucket EXCEPT ![c] = <<>>]
        /\ buckets' = [buckets EXCEPT ![c] = @ + 1]
        /\ UNCHANGED <<second, requests, served, evicted, oneByOne>>
    BY <1>1 DEF FetchBucket
  <1>3. PICK a : a = [asking[t] EXCEPT !.pc = "count", !.bucket = buckets[c] + 1]
    OBVIOUS
  <1>4. /\ a \in GuardCalls /\ a.pc = "count" /\ a.client = c /\ a.at = asking[t].at
        /\ a.bucket = buckets[c] + 1 /\ c \notin Range(tracked) /\ buckets[c] \in Nat /\ c \in Clients
    <2>1. c \in Clients /\ c \notin Range(tracked) /\ buckets[c] \in Nat /\ asking[t] \in GuardCalls
      BY <1>1, GuardFacts DEF IsTracked
    <2>2. buckets[c] + 1 \in Nat
      BY <2>1
    <2> QED
      BY <1>1, <1>3, <2>1, <2>2 DEF GuardCalls
  <1>5. GuardGoes(t, a)
    BY <1>2, <1>3, <1>4, AsksGoes
  <1>6. /\ tracked' \in Seq(Clients) /\ Len(tracked') = Len(tracked) + 1
        /\ c \in Range(tracked') /\ Range(tracked) \subseteq Range(tracked')
    BY <1>2, <1>4, AppendedHas DEF GuardTypes
  <1>7. /\ bucket[c] = <<>> /\ bucket' = bucket
        /\ buckets' \in [Clients -> Nat] /\ buckets'[c] = buckets[c] + 1
        /\ \A d \in Clients \ {c} : buckets'[d] = buckets[d]
    BY <1>2, <1>4 DEF GuardTypes
  <1>8. GuardTypes'
    <2>1. ASSUME NEW d \in Clients PROVE buckets[d] <= buckets'[d]
      <3>1. CASE d = c
        BY <1>4, <1>7, <3>1
      <3>2. CASE d # c
        <4>1. buckets'[d] = buckets[d] /\ buckets[d] \in Nat
          BY <1>7, <3>2 DEF GuardTypes
        <4> QED
          BY <4>1
      <3> QED
        BY <3>1, <3>2
    <2>2. /\ bucket' \in [Clients -> Seq(Nat)] /\ served' \in [Clients -> Seq(Nat)]
          /\ evicted' \subseteq Clients /\ \A d \in Clients \ Range(tracked') : bucket'[d] = <<>>
      BY <1>2, <1>6, <1>7 DEF GuardTypes
    <2>3. a.bucket <= buckets'[a.client]
      BY <1>4, <1>7
    <2> QED
      BY <1>2, <1>4, <1>5, <1>6, <1>7, <2>1, <2>2, <2>3, GuardTypesStep
  <1>9. WindowInv' /\ CalmInv'
    <2>1. ASSUME oneByOne
          PROVE  \A d \in Clients :
                    /\ Ordered(served[d], asking[t].at)
                    /\ d \notin evicted => Spaced(served[d]) /\ Remains(served[d], bucket[d], asking[t].at)
      BY <1>2, <2>1, AloneFacts DEF Asking
    <2> QED
      BY ZenonT(30), <1>2, <1>4, <1>5, <1>6, <1>7, <2>1, AloneStep DEF Asking, GuardTypes
  <1>10. SizeInv'
    <2>1. Bounding \subseteq Bounding'
      BY <1>2, <1>5 DEF Bounding, GuardGoes
    <2>2. c \notin Fresh
      BY <1>4 DEF Fresh
    <2>3. ASSUME NEW d \in Fresh PROVE d \in Fresh'
      <3>1. d \in Range(tracked') /\ bucket'[d] = <<>> /\ buckets'[d] = buckets[d] /\ d # c
        BY <1>6, <1>7, <2>2 DEF Fresh
      <3> QED
        BY <1>2, <1>4, <1>5, <3>1, StaysFresh
    <2>4. c \in Fresh'
      <3>1. asking'[t].pc = "count" /\ asking'[t].client = c /\ asking'[t].bucket = buckets'[c]
        BY <1>4, <1>5, <1>7 DEF GuardGoes
      <3>2. Current(t)'
        BY <1>6, <3>1 DEF Current, IsTracked
      <3>3. ASSUME NEW u \in GuardThreads, asking'[u].pc = "append", Current(u)'
            PROVE  asking'[u].client # c
        <4>1. u # t /\ asking'[u] = asking[u]
          BY <3>1, <3>3, <1>5 DEF GuardGoes
        <4>2. asking[u].bucket <= buckets[asking[u].client] /\ asking[u].bucket \in Nat
          BY GuardFacts
        <4>3. asking[u].bucket = buckets'[asking[u].client]
          BY <3>3, <4>1 DEF Current
        <4> QED
          BY <1>4, <1>7, <4>1, <4>2, <4>3
      <3>4. Awaited(c)'
        BY <3>1, <3>2, <3>3 DEF Awaited
      <3> QED
        BY <1>4, <1>6, <1>7, <3>4 DEF Fresh
    <2> QED
      BY <1>4, <1>6, <1>8, <2>1, <2>2, <2>3, <2>4, SizeStep
  <1> QED
    BY <1>8, <1>9, <1>10

LEMMA DropExpiredKeeps ==
    ASSUME GuardInv, NEW t \in GuardThreads, DropExpired(t)
    PROVE  GuardInv'
  <1> USE DEF GuardInv
  <1>1. PICK c : c = asking[t].client
    OBVIOUS
  <1>2. /\ asking[t].pc = "count" /\ Current(t)
        /\ bucket[c] # <<>> /\ Head(bucket[c]) <= asking[t].at - Window
        /\ bucket' = [bucket EXCEPT ![c] = Tail(@)]
        /\ UNCHANGED <<second, tracked, buckets, asking, requests, served, evicted, oneByOne>>
    BY <1>1 DEF DropExpired, HasExpired
  <1>3. PICK a : a = asking[t]
    OBVIOUS
  <1>4. /\ a \in GuardCalls /\ c \in Clients /\ c \in Range(tracked) /\ GuardGoes(t, a)
        /\ a.bucket = buckets[c] /\ asking[t].at \in Nat
    BY <1>1, <1>2, <1>3, GuardFacts DEF GuardGoes, Current, IsTracked, GuardTypes
  <1>5. /\ bucket[c] \in Seq(Nat) /\ served[c] \in Seq(Nat) /\ Tail(bucket[c]) \in Seq(Nat)
    BY <1>2, <1>4 DEF GuardTypes
  <1>6. /\ bucket' \in [Clients -> Seq(Nat)] /\ bucket'[c] = Tail(bucket[c])
        /\ \A d \in Clients \ {c} : bucket'[d] = bucket[d]
    BY <1>2, <1>4, <1>5 DEF GuardTypes
  <1>7. GuardTypes'
    <2>1. \A d \in Clients : buckets[d] <= buckets'[d]
      BY <1>2 DEF GuardTypes
    <2>2. \A d \in Clients \ Range(tracked') : bucket'[d] = <<>>
      BY <1>2, <1>4, <1>6 DEF GuardTypes
    <2>3. a.bucket <= buckets'[a.client]
      BY <1>2, <1>3, GuardFacts
    <2>4. /\ tracked' \in Seq(Clients) /\ served' \in [Clients -> Seq(Nat)]
          /\ buckets' \in [Clients -> Nat] /\ evicted' \subseteq Clients
      BY <1>2 DEF GuardTypes
    <2> QED
      BY <1>2, <1>4, <1>6, <2>1, <2>2, <2>3, <2>4, GuardTypesStep
  <1>8. WindowInv' /\ CalmInv'
    <2>1. ASSUME oneByOne
          PROVE  \A d \in Clients :
                    /\ Ordered(served[d], asking[t].at)
                    /\ d \notin evicted => Spaced(served[d]) /\ Remains(served[d], bucket'[d], asking[t].at)
      <3>1. \A d \in Clients :
               /\ Ordered(served[d], asking[t].at)
               /\ d \notin evicted => Spaced(served[d]) /\ Remains(served[d], bucket[d], asking[t].at)
        BY <1>2, <2>1, AloneFacts DEF Asking
      <3>2. c \notin evicted => Remains(served[c], bucket'[c], asking[t].at)
        BY <1>2, <1>4, <1>5, <1>6, <3>1, OneLeft
      <3> QED
        BY <1>6, <3>1, <3>2
    <2> QED
      BY <1>1, <1>2, <1>3, <1>4, <1>6, <2>1, AloneStep DEF Asking, GuardTypes
  <1>9. SizeInv'
    <2>1. Bounding \subseteq Bounding'
      BY <1>2 DEF Bounding
    <2>2. ASSUME NEW d \in Fresh PROVE d \in Fresh'
      <3>1. d \in Clients /\ d # c
        BY <1>2 DEF Fresh
      <3>2. d \in Range(tracked') /\ bucket'[d] = <<>> /\ buckets'[d] = buckets[d]
        BY <1>2, <1>6, <3>1 DEF Fresh
      <3> QED
        BY <1>1, <1>3, <1>4, <3>1, <3>2, StaysFresh
    <2> QED
      BY <1>2, <1>7, <2>1, <2>2, SizeStep
  <1> QED
    BY <1>7, <1>8, <1>9

LEMMA CountAllowsKeeps ==
    ASSUME GuardInv, NEW t \in GuardThreads, asking[t].pc = "count",
           Current(t) => Len(bucket[asking[t].client]) < Limit,
           Asks(t, [asking[t] EXCEPT !.pc = "append"]),
           UNCHANGED <<second, tracked, bucket, buckets, requests, served, evicted, oneByOne>>
    PROVE  GuardInv'
  <1> USE DEF GuardInv
  <1>1. PICK a : a = [asking[t] EXCEPT !.pc = "append"]
    OBVIOUS
  <1>2. /\ a \in GuardCalls /\ a.pc = "append" /\ a.client = asking[t].client
        /\ a.at = asking[t].at /\ a.bucket = asking[t].bucket /\ a.client \in Clients
    BY <1>1, GuardFacts DEF GuardCalls
  <1>3. GuardGoes(t, a)
    BY <1>1, <1>2, AsksGoes
  <1>4. GuardTypes'
    <2>1. \A d \in Clients : buckets[d] <= buckets'[d]
      BY DEF GuardTypes
    <2>2. a.bucket <= buckets'[a.client]
      BY <1>2, GuardFacts
    <2>3. /\ tracked' \in Seq(Clients) /\ bucket' \in [Clients -> Seq(Nat)]
          /\ served' \in [Clients -> Seq(Nat)] /\ buckets' \in [Clients -> Nat]
          /\ evicted' \subseteq Clients /\ \A d \in Clients \ Range(tracked') : bucket'[d] = <<>>
      BY DEF GuardTypes
    <2> QED
      BY <1>2, <1>3, <2>1, <2>2, <2>3, GuardTypesStep
  <1>5. WindowInv' /\ CalmInv'
    <2>1. ASSUME oneByOne
          PROVE  /\ \A d \in Clients :
                       /\ Ordered(served[d], asking[t].at)
                       /\ d \notin evicted => Spaced(served[d]) /\ Remains(served[d], bucket[d], asking[t].at)
                 /\ a.client \in Range(tracked) /\ a.bucket = buckets[a.client]
                 /\ Len(bucket[a.client]) < Limit
      <3>1. Asking(t)
        BY DEF Asking
      <3>2. a.client \in Range(tracked) /\ a.bucket = buckets[a.client]
        BY <1>2, <2>1, <3>1, AloneFacts DEF Undisturbed
      <3> QED
        BY <1>2, <2>1, <3>1, <3>2, AloneFacts DEF Current, IsTracked
    <2> QED
      BY <1>2, <1>3, <2>1, AloneStep DEF Asking, GuardTypes
  <1>6. SizeInv'
    <2>1. t \notin Bounding /\ Bounding \cup {t} \subseteq Bounding'
      BY <1>2, <1>3 DEF Bounding, GuardGoes
    <2>2. ASSUME NEW d \in Fresh \ {a.client} PROVE d \in Fresh'
      <3>1. d \in Range(tracked') /\ bucket'[d] = <<>> /\ buckets'[d] = buckets[d]
        BY DEF Fresh
      <3> QED
        BY <1>2, <1>3, <3>1, StaysFresh
    <2> QED
      BY <1>2, <1>4, <2>1, <2>2, SizeStep
  <1> QED
    BY <1>4, <1>5, <1>6

(* A request that is over, whether it was refused or has finished.         *)
LEMMA RequestEnds ==
    ASSUME GuardInv, NEW t \in GuardThreads, Asking(t), Asks(t, NotAsking),
           UNCHANGED <<second, tracked, bucket, buckets, requests, served, evicted, oneByOne>>
    PROVE  GuardTypes' /\ WindowInv' /\ CalmInv' /\ GuardGoes(t, NotAsking)
  <1> USE DEF GuardInv
  <1>1. NotAsking \in GuardCalls /\ NotAsking.pc = "idle" /\ NotAsking.bucket = 0
        /\ NotAsking.client \in Clients
    BY NotAskingIs DEF GuardCalls
  <1>2. GuardGoes(t, NotAsking)
    BY <1>1, AsksGoes
  <1>3. GuardTypes'
    <2>1. \A d \in Clients : buckets[d] <= buckets'[d]
      BY DEF GuardTypes
    <2>2. NotAsking.bucket <= buckets'[NotAsking.client]
      BY <1>1 DEF GuardTypes
    <2>3. /\ tracked' \in Seq(Clients) /\ bucket' \in [Clients -> Seq(Nat)]
          /\ served' \in [Clients -> Seq(Nat)] /\ buckets' \in [Clients -> Nat]
          /\ evicted' \subseteq Clients /\ \A d \in Clients \ Range(tracked') : bucket'[d] = <<>>
      BY DEF GuardTypes
    <2> QED
      BY <1>1, <1>2, <2>1, <2>2, <2>3, GuardTypesStep
  <1>4. WindowInv' /\ CalmInv'
    <2>1. ASSUME oneByOne
          PROVE  \A d \in Clients :
                    /\ Ordered(served[d], asking[t].at)
                    /\ d \notin evicted => Spaced(served[d]) /\ Remains(served[d], bucket[d], asking[t].at)
      BY <2>1, AloneFacts
    <2> QED
      BY <1>1, <1>2, <2>1, AloneStep DEF GuardTypes
  <1> QED
    BY <1>2, <1>3, <1>4

LEMMA CountKeeps ==
    ASSUME GuardInv, NEW t \in GuardThreads, Count(t)
    PROVE  GuardInv'
  <1>1. PICK allowed \in BOOLEAN :
           /\ Current(t) => allowed = (Len(bucket[asking[t].client]) < Limit)
           /\ Asks(t, IF allowed THEN [asking[t] EXCEPT !.pc = "append"] ELSE NotAsking)
    BY DEF Count
  <1>2. /\ asking[t].pc = "count"
        /\ UNCHANGED <<second, tracked, bucket, buckets, requests, served, evicted, oneByOne>>
    BY DEF Count
  <1>3. CASE allowed
    BY <1>1, <1>2, <1>3, CountAllowsKeeps
  <1>4. CASE ~allowed
    <2>1. GuardTypes' /\ WindowInv' /\ CalmInv' /\ GuardGoes(t, NotAsking) /\ GuardTypes /\ SizeInv
      BY <1>1, <1>2, <1>4, RequestEnds DEF Asking, GuardInv
    <2>2. Bounding \subseteq Bounding'
      BY <1>2, <2>1 DEF Bounding, GuardGoes
    <2>3. ASSUME NEW d \in Fresh PROVE d \in Fresh'
      <3>1. d \in Range(tracked') /\ bucket'[d] = <<>> /\ buckets'[d] = buckets[d]
        BY <1>2 DEF Fresh
      <3>2. ~(Current(t) /\ asking[t].client = d)
        <4>1. Len(<<>>) < Limit
          BY GuardAssumption
        <4> QED
          BY <1>1, <1>4, <4>1 DEF Fresh
      <3>3. NotAsking.pc # "append"
        BY NotAskingIs
      <3> QED
        BY <2>1, <3>1, <3>2, <3>3, StaysFresh
    <2> QED
      BY <1>2, <2>1, <2>2, <2>3, SizeStep DEF GuardInv
  <1> QED
    BY <1>1, <1>3, <1>4

LEMMA AppendTimeKeeps ==
    ASSUME GuardInv, NEW t \in GuardThreads, AppendTime(t)
    PROVE  GuardInv'
  <1> USE DEF GuardInv
  <1>1. PICK c, a : c = asking[t].client /\ a = [asking[t] EXCEPT !.pc = "bound"]
    OBVIOUS
  <1>2. /\ asking[t].pc = "append"
        /\ bucket' = IF Current(t) THEN [bucket EXCEPT ![c] = Append(@, asking[t].at)] ELSE bucket
        /\ served' = [served EXCEPT ![c] = Append(@, asking[t].at)]
        /\ Asks(t, a)
        /\ UNCHANGED <<second, tracked, buckets, requests, evicted, oneByOne>>
    BY <1>1 DEF AppendTime
  <1>3. /\ a \in GuardCalls /\ a.pc = "bound" /\ a.client = c /\ c \in Clients
        /\ a.at = asking[t].at /\ a.bucket = asking[t].bucket /\ asking[t].at \in Nat
    BY <1>1, GuardFacts DEF GuardCalls
  <1>4. GuardGoes(t, a)
    BY <1>2, <1>3, AsksGoes
  <1>5. /\ bucket[c] \in Seq(Nat) /\ served[c] \in Seq(Nat)
        /\ Append(bucket[c], asking[t].at) \in Seq(Nat) /\ Append(served[c], asking[t].at) \in Seq(Nat)
    BY <1>3 DEF GuardTypes
  <1>6. /\ served' \in [Clients -> Seq(Nat)] /\ served'[c] = Append(served[c], asking[t].at)
        /\ \A d \in Clients \ {c} : served'[d] = served[d]
    BY <1>2, <1>3, <1>5 DEF GuardTypes
  <1>7. /\ bucket' \in [Clients -> Seq(Nat)]
        /\ Current(t) => bucket'[c] = Append(bucket[c], asking[t].at)
        /\ ~Current(t) => bucket'[c] = bucket[c]
        /\ \A d \in Clients \ {c} : bucket'[d] = bucket[d]
    BY <1>2, <1>3, <1>5 DEF GuardTypes
  <1>8. GuardTypes'
    <2>1. \A d \in Clients : buckets[d] <= buckets'[d]
      BY <1>2 DEF GuardTypes
    <2>2. a.bucket <= buckets'[a.client]
      BY <1>1, <1>2, <1>3, GuardFacts
    <2>3. tracked' \in Seq(Clients) /\ buckets' \in [Clients -> Nat] /\ evicted' \subseteq Clients
      BY <1>2 DEF GuardTypes
    <2>4. ASSUME NEW d \in Clients \ Range(tracked') PROVE bucket'[d] = <<>>
      <3>1. bucket[d] = <<>>
        BY <1>2 DEF GuardTypes
      <3>2. Current(t) => d # c
        BY <1>1, <1>2 DEF Current, IsTracked
      <3> QED
        BY <1>7, <3>1, <3>2
    <2> QED
      BY <1>2, <1>3, <1>4, <1>6, <1>7, <2>1, <2>2, <2>3, <2>4, GuardTypesStep
  <1>9. WindowInv' /\ CalmInv'
    <2>1. ASSUME oneByOne
          PROVE  \A d \in Clients :
                    /\ Ordered(served'[d], asking[t].at)
                    /\ d \notin evicted' =>
                         Spaced(served'[d]) /\ Remains(served'[d], bucket'[d], asking[t].at)
      <3>1. Asking(t)
        BY <1>2 DEF Asking
      <3>2. \A d \in Clients :
               /\ Ordered(served[d], asking[t].at)
               /\ d \notin evicted => Spaced(served[d]) /\ Remains(served[d], bucket[d], asking[t].at)
        BY <2>1, <3>1, AloneFacts
      <3>3. Current(t) /\ Len(bucket[c]) < Limit
        BY <1>1, <1>2, <2>1, <3>1, AloneFacts DEF Undisturbed, Current, IsTracked
      <3>4. Ordered(served'[c], asking[t].at)
        <4>1. Ordered(served[c], asking[t].at)
          BY <1>3, <3>2
        <4> QED
          BY <1>3, <1>5, <1>6, <4>1, OrderedMore
      <3>5. c \notin evicted => Spaced(served'[c]) /\ Remains(served'[c], bucket'[c], asking[t].at)
        BY ZenonT(40), <1>3, <1>5, <1>6, <1>7, <3>2, <3>3, OneMore
      <3> QED
        BY <1>2, <1>6, <1>7, <3>2, <3>4, <3>5
    <2> QED
      BY <1>2, <1>3, <1>4, <1>6, <1>7, <2>1, AloneStep DEF Asking
  <1>10. SizeInv'
    <2>1. Bounding \subseteq Bounding'
      BY <1>3, <1>4 DEF Bounding, GuardGoes
    <2>2. ASSUME NEW d \in Fresh PROVE d \in Fresh'
      <3>1. ~(Current(t) /\ d = c)
        BY <1>1, <1>2 DEF Fresh, Awaited
      <3>2. d \in Range(tracked') /\ bucket'[d] = <<>> /\ buckets'[d] = buckets[d]
        BY <1>2, <1>7, <3>1 DEF Fresh
      <3> QED
        BY <1>2, <1>3, <1>4, <3>2, StaysFresh
    <2> QED
      BY <1>2, <1>8, <2>1, <2>2, SizeStep
  <1> QED
    BY <1>8, <1>9, <1>10

LEMMA GiveUpKeeps ==
    ASSUME GuardInv, NEW t \in GuardThreads, BoundClients(t), Len(tracked) > MaxTracked
    PROVE  GuardInv'
  <1> USE DEF GuardInv
  <1>1. PICK c, a : c = Head(tracked) /\ a = asking[t]
    OBVIOUS
  <1>2. /\ asking[t].pc = "bound" /\ tracked' = Tail(tracked)
        /\ bucket' = [bucket EXCEPT ![c] = <<>>] /\ evicted' = evicted \cup {c}
        /\ UNCHANGED <<second, buckets, asking, requests, served, oneByOne>>
    BY <1>1 DEF BoundClients
  <1>3. /\ c \in Clients /\ tracked' \in Seq(Clients) /\ Len(tracked') = Len(tracked) - 1
        /\ Range(tracked) \ {c} \subseteq Range(tracked')
    <2>1. tracked \in Seq(Clients) /\ Len(tracked) > 0
      BY GuardAssumption DEF GuardTypes
    <2> QED
      BY <1>1, <1>2, <2>1, WithoutFirst
  <1>4. a \in GuardCalls /\ a.pc = "bound" /\ GuardGoes(t, a)
    BY <1>1, <1>2, GuardFacts DEF GuardGoes, GuardTypes
  <1>5. /\ bucket' \in [Clients -> Seq(Nat)] /\ bucket'[c] = <<>>
        /\ \A d \in Clients \ {c} : bucket'[d] = bucket[d]
    BY <1>2, <1>3 DEF GuardTypes
  <1>6. GuardTypes'
    <2>1. \A d \in Clients : buckets[d] <= buckets'[d]
      BY <1>2 DEF GuardTypes
    <2>2. \A d \in Clients \ Range(tracked') : bucket'[d] = <<>>
      BY <1>3, <1>5 DEF GuardTypes
    <2>3. a.bucket <= buckets'[a.client]
      BY <1>1, <1>2, GuardFacts
    <2>4. /\ served' \in [Clients -> Seq(Nat)] /\ buckets' \in [Clients -> Nat]
          /\ evicted' \subseteq Clients
      BY <1>2, <1>3 DEF GuardTypes
    <2> QED
      BY <1>2, <1>3, <1>4, <1>5, <2>1, <2>2, <2>3, <2>4, GuardTypesStep
  <1>7. WindowInv' /\ CalmInv'
    <2>1. ASSUME oneByOne
          PROVE  \A d \in Clients :
                    /\ Ordered(served'[d], asking[t].at)
                    /\ d \notin evicted' =>
                         Spaced(served'[d]) /\ Remains(served'[d], bucket'[d], asking[t].at)
      BY <1>2, <1>5, <2>1, AloneFacts DEF Asking
    <2>2. evicted \subseteq evicted' /\ served' \in [Clients -> Seq(Nat)]
      BY <1>2 DEF GuardTypes
    <2> QED
      BY <1>1, <1>2, <1>4, <1>5, <2>1, <2>2, AloneStep DEF Asking
  <1>8. SizeInv'
    <2>1. Bounding \subseteq Bounding'
      BY <1>2 DEF Bounding
    <2>2. ASSUME NEW d \in Fresh \ {c} PROVE d \in Fresh'
      <3>1. d \in Range(tracked') /\ bucket'[d] = <<>> /\ buckets'[d] = buckets[d]
        BY <1>2, <1>3, <1>5 DEF Fresh
      <3> QED
        BY <1>1, <1>2, <1>4, <3>1, StaysFresh
    <2> QED
      BY <1>3, <1>6, <2>1, <2>2, SizeStep
  <1> QED
    BY <1>6, <1>7, <1>8

LEMMA BoundClientsKeeps ==
    ASSUME GuardInv, NEW t \in GuardThreads, BoundClients(t)
    PROVE  GuardInv'
  <1>1. CASE Len(tracked) > MaxTracked
    BY <1>1, GiveUpKeeps
  <1>2. CASE ~(Len(tracked) > MaxTracked)
    <2>1. /\ asking[t].pc = "bound" /\ Asks(t, NotAsking)
          /\ UNCHANGED <<second, tracked, bucket, buckets, requests, served, evicted, oneByOne>>
      BY <1>2 DEF BoundClients
    <2>2. GuardTypes' /\ WindowInv' /\ CalmInv' /\ GuardTypes /\ SizeInv
      BY <2>1, RequestEnds DEF Asking, GuardInv
    <2>3. Len(tracked') <= MaxTracked
      BY <1>2, <2>1, GuardAssumption DEF GuardInv, GuardTypes
    <2> QED
      BY <2>2, <2>3, SizeStep DEF GuardInv
  <1> QED
    BY <1>1, <1>2

LEMMA GuardInitial == GuardInit => GuardInv
  <1> SUFFICES ASSUME GuardInit PROVE GuardInv
    OBVIOUS
  <1>a. /\ second = 0 /\ tracked = <<>> /\ requests = 0 /\ evicted = {} /\ oneByOne = TRUE
        /\ bucket = [c \in Clients |-> <<>>] /\ buckets = [c \in Clients |-> 0]
        /\ served = [c \in Clients |-> <<>>] /\ asking = [t \in GuardThreads |-> NotAsking]
    BY DEF GuardInit
  <1>b. Len(<<>>) = 0 /\ 1..0 = {} /\ 1..(0 - 0) = {} /\ <<>> \in Seq(Nat)
    OBVIOUS
  <1>1. GuardTypes
    BY <1>a, <1>b, NotAskingIs DEF GuardTypes, GuardCalls
  <1>2. \A t \in GuardThreads : asking[t].pc = "idle"
    BY <1>a, NotAskingIs
  <1>3. WindowInv
    <2>1. \A c \in Clients : /\ Ordered(served[c], second) /\ Spaced(served[c])
                             /\ Remains(served[c], bucket[c], second)
      BY <1>a, <1>b DEF Ordered, Spaced, Remains
    <2> QED
      BY <1>2, <2>1 DEF WindowInv, OneAsks, Asking
  <1>4. CalmInv
    BY <1>2 DEF CalmInv, Undisturbed
  <1>5. SizeInv
    BY <1>a, <1>b, <1>1, GuardSets, GuardAssumption DEF SizeInv
  <1> QED
    BY <1>1, <1>3, <1>4, <1>5 DEF GuardInv

LEMMA GuardStep == GuardInv /\ [GuardNext]_guardVars => GuardInv'
  <1> SUFFICES ASSUME GuardInv, [GuardNext]_guardVars PROVE GuardInv'
    OBVIOUS
  <1>a. requests \in Nat /\ oneByOne \in BOOLEAN
    BY DEF GuardInv, GuardTypes
  <1>1. ASSUME NEW t \in GuardThreads, Prune(t) PROVE GuardInv'
    BY <1>1, PruneKeeps
  <1>2. ASSUME NEW t \in GuardThreads, PruneRaises(t) PROVE GuardInv'
    <2>1. /\ UNCHANGED <<second, tracked, bucket, buckets, asking, served, evicted>>
          /\ requests' \in Nat /\ oneByOne' = FALSE
      BY <1>a, <1>2 DEF PruneRaises
    <2> QED
      BY <2>1, GuardStays
  <1>3. ASSUME NEW t \in GuardThreads, DropStale(t) PROVE GuardInv'
    BY <1>3, DropStaleKeeps
  <1>4. ASSUME NEW t \in GuardThreads, FetchBucket(t) PROVE GuardInv'
    BY <1>4, FetchTrackedKeeps, FetchNewKeeps
  <1>5. ASSUME NEW t \in GuardThreads, DropExpired(t) PROVE GuardInv'
    BY <1>5, DropExpiredKeeps
  <1>6. ASSUME NEW t \in GuardThreads, Count(t) PROVE GuardInv'
    BY <1>6, CountKeeps
  <1>7. ASSUME NEW t \in GuardThreads, AppendTime(t) PROVE GuardInv'
    BY <1>7, AppendTimeKeeps
  <1>8. ASSUME NEW t \in GuardThreads, BoundClients(t) PROVE GuardInv'
    BY <1>8, BoundClientsKeeps
  <1>9. CASE SecondPasses
    BY <1>9, SecondPassesKeeps
  <1>10. CASE UNCHANGED guardVars
    BY <1>a, <1>10, GuardStays DEF guardVars
  <1> QED
    BY <1>1, <1>2, <1>3, <1>4, <1>5, <1>6, <1>7, <1>8, <1>9, <1>10 DEF GuardNext

LEMMA GuardInvHolds == GuardSpec => []GuardInv
  BY GuardInitial, GuardStep, PTL DEF GuardSpec

LEMMA GuardInvLimits == GuardInv => RateIsLimited
  <1> SUFFICES ASSUME GuardInv PROVE RateIsLimited
    OBVIOUS
  <1>1. ASSUME oneByOne, NEW c \in Clients \ evicted, NEW i \in DOMAIN served[c],
               NEW j \in DOMAIN served[c], served[c][j] - served[c][i] \in 0..(Window - 1)
        PROVE  j - i < Limit
    <2>1. served[c] \in Seq(Nat) /\ Spaced(served[c])
      BY <1>1 DEF GuardInv, GuardTypes, WindowInv
    <2>a. PICK times : times = served[c]
      OBVIOUS
    <2>b. Len(times) \in Nat
      BY <2>1, <2>a
    <2>c. PICK n : n = Len(times)
      OBVIOUS
    <2>2. times = served[c] /\ n = Len(times) /\ n \in Nat
      BY <2>a, <2>b, <2>c
    <2>3. i \in 1..n /\ j \in 1..n /\ times[i] \in Nat /\ times[j] \in Nat
      BY <2>1, <2>2
    <2>4. j - i >= Limit => times[i] + Window <= times[j]
      BY <2>1, <2>2, <2>3 DEF Spaced
    <2>5. times[j] - times[i] <= Window - 1
      BY <1>1, <2>2, <2>3, GuardAssumption
    <2> QED
      BY <2>3, <2>4, <2>5, GuardAssumption
  <1>2. Len(tracked) <= MaxTracked + Cardinality({t \in GuardThreads : asking[t].pc # "idle"})
    <2>1. /\ Cardinality(Bounding) \in Nat /\ Cardinality(Fresh) \in Nat
          /\ Cardinality(Bounding) + Cardinality(Fresh)
                <= Cardinality({t \in GuardThreads : asking[t].pc # "idle"})
      BY GuardSets DEF GuardInv, Asking
    <2>2. Cardinality({t \in GuardThreads : asking[t].pc # "idle"}) \in Nat
      BY FS_Subset, FS_CardinalityType, GuardAssumption
    <2>3. Len(tracked) \in Nat /\ MaxTracked \in Nat
      BY GuardAssumption DEF GuardInv, GuardTypes
    <2> QED
      BY <2>1, <2>2, <2>3 DEF GuardInv, SizeInv
  <1> QED
    BY <1>1, <1>2 DEF RateIsLimited

(* RateIsLimited for any threads and clients: while requests came one by
   one, no client whose bucket was not given up had more than Limit of them
   allowed within Window seconds; and the buckets kept never exceed
   MaxTracked by more than the number of requests under way.               *)
THEOREM RatesAreLimited == GuardSpec => []RateIsLimited
  BY GuardInvHolds, GuardInvLimits, PTL
=============================================================================
