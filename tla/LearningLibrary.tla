---------------------------- MODULE LearningLibrary ----------------------------
(***************************************************************************)
(* The study material of EcosystemService, which request threads share     *)
(* without a lock: sources (LearningSourceGate), resources and the          *)
(* observations made of them. An id may have blanks around it: the gate    *)
(* strips them from the id of a source, nothing strips them from the id of *)
(* a resource. A source is an immutable object; the handlers look it up    *)
(* first and hand it to the service afterwards.                            *)
(***************************************************************************)
EXTENDS FiniteSets, Naturals

CONSTANTS LibraryThreads, Subjects,
          MaxObservations   \* bound: observations kept

VARIABLES
    sources,        \* learning_sources, by the stripped id
    resources,      \* learning_resources: the id as written and the uri
    observations,   \* the validated observations, with what they were made of
    visit,          \* the request of each thread
    apart           \* no two threads were screening one subject at a time

libraryVars == <<sources, resources, observations, visit, apart>>

ResourceIds == [subject : Subjects, padded : BOOLEAN]

(* https is taken into quarantine, everything else is blocked; a resource
   may also have no source_url.                                            *)
Uris == {"https", "http"}

NoSource == [uri |-> "none", status |-> "ABSENT", checked |-> FALSE, admitted |-> FALSE]

Intake(uri) == [NoSource EXCEPT !.uri = uri,
                                !.status = IF uri = "https" THEN "QUARANTINED" ELSE "BLOCKED"]

(* Mutant: a blocked source may be validated too.                          *)
ValidatedContentOfAny(source, ok) ==
    [source EXCEPT !.status = IF ok THEN "VALIDATED" ELSE "QUARANTINED",
                   !.checked = ok, !.admitted = FALSE]

(* validate_content, for content_verified and security_checked together    *)
ValidatedContent(source, ok) ==
    IF source.status = "BLOCKED" THEN source
    ELSE [source EXCEPT !.status = IF ok THEN "VALIDATED" ELSE "QUARANTINED",
                        !.checked = ok, !.admitted = FALSE]

AdmittedKnowledge(source, ok) ==
    IF source.status = "VALIDATED" THEN [source EXCEPT !.admitted = ok] ELSE source

Passed(source) == source.status = "VALIDATED" /\ source.admitted

NoVisit == [pc |-> "idle", id |-> [subject |-> CHOOSE s \in Subjects : TRUE, padded |-> FALSE],
            uri |-> "none", kind |-> "source", source |-> NoSource]

LibraryInit ==
    /\ sources = [s \in Subjects |-> NoSource]
    /\ resources = {} /\ observations = {}
    /\ visit = [t \in LibraryThreads |-> NoVisit]
    /\ apart = TRUE

Visits(t, v) == visit' = [visit EXCEPT ![t] = v]

Done(t) == Visits(t, NoVisit)

Known(id) == \E r \in resources : r.id = id

-----------------------------------------------------------------------------

(* screen_learning_source, or add_learning_resource of a new resource      *)
BeginScreening(t) ==
    /\ visit[t].pc = "idle"
    /\ \E id \in ResourceIds :
          \/ \E uri \in Uris : Visits(t, [NoVisit EXCEPT !.pc = "screen", !.id = id, !.uri = uri])
          \/ \E uri \in Uris \cup {"none"} :
                /\ ~Known(id)
                /\ Visits(t, [NoVisit EXCEPT !.pc = IF uri = "none" THEN "register" ELSE "screen",
                                             !.id = id, !.uri = uri, !.kind = "resource"])
    /\ UNCHANGED <<sources, resources, observations, apart>>

(* A source_id that is taken raises, and the resource is not kept.         *)
Screen(t) ==
    /\ visit[t].pc = "screen"
    /\ IF sources[visit[t].id.subject].status = "ABSENT"
       THEN Visits(t, [visit[t] EXCEPT !.pc = "insert"])
       ELSE Done(t)
    /\ apart' = (apart /\ \A u \in LibraryThreads \ {t} :
                    visit[u].pc = "insert" => visit[u].id.subject # visit[t].id.subject)
    /\ UNCHANGED <<sources, resources, observations>>

InsertSource(t) ==
    /\ visit[t].pc = "insert"
    /\ sources' = [sources EXCEPT ![visit[t].id.subject] = Intake(visit[t].uri)]
    /\ IF visit[t].kind = "source" THEN Done(t) ELSE Visits(t, [visit[t] EXCEPT !.pc = "register"])
    /\ UNCHANGED <<resources, observations, apart>>

(* Another thread may have registered the id: its resource is replaced.    *)
RegisterResource(t) ==
    /\ visit[t].pc = "register"
    /\ resources' = {r \in resources : r.id # visit[t].id}
                       \cup {[id |-> visit[t].id, uri |-> visit[t].uri]}
    /\ Done(t)
    /\ UNCHANGED <<sources, observations, apart>>

(* POST /api/learning/sources/validate and /admit look the source up by
   the id as written, blanks included.                                     *)
LookUpSource(t) ==
    /\ visit[t].pc = "idle"
    /\ \E s \in Subjects, kind \in {"validate", "admit"} :
          /\ sources[s].status # "ABSENT"
          /\ Visits(t, [NoVisit EXCEPT !.pc = "judge", !.kind = kind, !.id.subject = s,
                                       !.source = sources[s]])
    /\ UNCHANGED <<sources, resources, observations, apart>>

(* What the other threads did to the source meanwhile is written over.     *)
JudgeSource(t) ==
    /\ visit[t].pc = "judge"
    /\ \E ok \in BOOLEAN :
          sources' = [sources EXCEPT ![visit[t].id.subject] =
             IF visit[t].kind = "validate" THEN ValidatedContent(visit[t].source, ok)
             ELSE AdmittedKnowledge(visit[t].source, ok)]
    /\ Done(t)
    /\ UNCHANGED <<resources, observations, apart>>

-----------------------------------------------------------------------------

(* learning_sources.get(resource_id): a padded id finds nothing.           *)
SourceOf(id) == IF id.padded THEN NoSource ELSE sources[id.subject]

(* Mutant: an observation of a source that was only validated is taken.    *)
MayObserveUnadmitted(id) == SourceOf(id).status \in {"ABSENT", "VALIDATED"}

MayObserve(id) == SourceOf(id).status = "ABSENT" \/ Passed(SourceOf(id))

(* add_learning_observation with validated; one without it teaches nothing. *)
Observe ==
    /\ Cardinality(observations) < MaxObservations
    /\ \E r \in resources :
          /\ MayObserve(r.id)
          /\ observations' = observations \cup {[resource |-> r, source |-> sources[r.id.subject]]}
    /\ UNCHANGED <<sources, resources, visit, apart>>

LibraryNext ==
    \/ \E t \in LibraryThreads :
          BeginScreening(t) \/ Screen(t) \/ InsertSource(t) \/ RegisterResource(t)
          \/ LookUpSource(t) \/ JudgeSource(t)
    \/ Observe

-----------------------------------------------------------------------------

(* Knowledge is admitted of sources alone that came by https and whose
   content was verified, whatever object a handler held while others
   validated, rejected or registered the source (app.py:613).              *)
AdmittedWasChecked ==
    \A s \in Subjects : sources[s].admitted =>
       sources[s].uri = "https" /\ sources[s].checked /\ sources[s].status = "VALIDATED"

(* A validated observation of a resource with a source_url rests on that
   url, validated and admitted (ecosystem_service.py:174), if its id has no
   blanks and no two threads were screening the subject at one time.       *)
ObservedWasAdmitted ==
    apart => \A o \in observations : o.resource.uri # "none" /\ ~o.resource.id.padded =>
                Passed(o.source) /\ o.source.uri = o.resource.uri
=============================================================================
