---------------------------- MODULE EcosystemState ----------------------------
(***************************************************************************)
(* Notifications and preferences of ConfiguredEcosystemService: what is in *)
(* memory, shared by all request threads, and what EcosystemStateStore     *)
(* keeps of it. The store locks each load and each save; nothing locks the *)
(* way from the memory to the store. A notification is its number and the  *)
(* event it tells; a preference has the default, another value its Enum    *)
(* knows, text the Enum does not know, or a value that is no text.         *)
(***************************************************************************)
EXTENDS Naturals, Sequences, SequencesExt

CONSTANTS StateThreads,
          Fields,           \* preferences that are an Enum: chart_theme, style, color_mode
          MaxStateCalls,    \* bound: calls of a behaviour
          MaxStateFaults    \* bound: failed saves and restarts

ASSUME StateAssumption == Fields # {}

VARIABLES
    center,         \* EcosystemNotificationCenter._notifications
    preferences,    \* EcosystemPreferencesStore._preferences
    stored,         \* the two rows of the database
    update,         \* the call of each thread
    stateCalls,
    told,           \* events whose publication was answered
    kept,           \* the fields whose last change was answered
    foreign,        \* a value that is no text was accepted
    serial,         \* no two calls overlapped
    running,        \* FALSE: the service did not start
    stateFaults

stateVars == <<center, preferences, stored, update, stateCalls, told, kept, foreign, serial,
               running, stateFaults>>

PreferenceValues == {"DEFAULT", "OTHER", "UNKNOWN TEXT", "NOT TEXT"}

Defaults == [f \in Fields |-> "DEFAULT"]

NoEvent == [number |-> 0, event |-> 0]

NoUpdate == [pc |-> "idle", notice |-> NoEvent, field |-> CHOOSE f \in Fields : TRUE, of |-> "events",
             values |-> Defaults, list |-> <<>>]

StateInit ==
    /\ center = <<>> /\ preferences = Defaults
    /\ stored = [center |-> <<>>, preferences |-> Defaults]
    /\ update = [t \in StateThreads |-> NoUpdate]
    /\ stateCalls = 0 /\ told = {} /\ kept = {}
    /\ foreign = FALSE /\ serial = TRUE /\ running = TRUE /\ stateFaults = 0

Continues(t, u) == update' = [update EXCEPT ![t] = u]

Answered(t) == Continues(t, NoUpdate)

StateFault == stateFaults < MaxStateFaults /\ stateFaults' = stateFaults + 1

Calls(t) ==
    /\ running /\ update[t].pc = "idle" /\ stateCalls < MaxStateCalls
    /\ stateCalls' = stateCalls + 1
    /\ serial' = (serial /\ \A u \in StateThreads : update[u].pc = "idle")

-----------------------------------------------------------------------------

(* publish_ecosystem_update and publish_material_event number an event by
   the length of the list, and append it later.                            *)
NumberEvent(t) ==
    /\ Calls(t)
    /\ Continues(t, [NoUpdate EXCEPT !.pc = "append",
                                     !.notice = [number |-> Len(center) + 1, event |-> stateCalls']])
    /\ UNCHANGED <<center, preferences, stored, told, kept, foreign, running, stateFaults>>

AppendEvent(t) ==
    /\ update[t].pc = "append"
    /\ center' = Append(center, update[t].notice)
    /\ Continues(t, [update[t] EXCEPT !.pc = "list"])
    /\ UNCHANGED <<preferences, stored, stateCalls, told, kept, foreign, serial, running, stateFaults>>

(* Mutant: only the new event is saved.                                    *)
ListLastEvent(t) ==
    /\ update[t].pc = "list"
    /\ Continues(t, [update[t] EXCEPT !.pc = "save", !.list = <<Last(center)>>])
    /\ UNCHANGED <<center, preferences, stored, stateCalls, told, kept, foreign, serial, running,
                   stateFaults>>

ListEvents(t) ==
    /\ update[t].pc = "list"
    /\ Continues(t, [update[t] EXCEPT !.pc = "save", !.list = center])
    /\ UNCHANGED <<center, preferences, stored, stateCalls, told, kept, foreign, serial, running,
                   stateFaults>>

(* Mutant: text is not converted either.                                   *)
AcceptedAsIs(value) == TRUE

(* The conversion to the Enum refuses text it does not know; what is no
   text is not converted, and _validate does not look at it.               *)
Accepted(value) == value # "UNKNOWN TEXT"

(* update_preferences and update_candle_preferences                        *)
ReplacePreference(t) ==
    /\ Calls(t)
    /\ \E f \in Fields, value \in PreferenceValues :
          /\ Accepted(value)
          /\ Continues(t, [NoUpdate EXCEPT !.pc = "assign", !.of = "preferences", !.field = f,
                                           !.values = [preferences EXCEPT ![f] = value]])
          /\ foreign' = (foreign \/ value = "NOT TEXT")
          /\ kept' = kept \ {f}
    /\ UNCHANGED <<center, preferences, stored, told, running, stateFaults>>

AssignPreferences(t) ==
    /\ update[t].pc = "assign"
    /\ preferences' = update[t].values
    /\ Continues(t, [update[t] EXCEPT !.pc = "take"])
    /\ UNCHANGED <<center, stored, stateCalls, told, kept, foreign, serial, running, stateFaults>>

(* save_preferences is given the preferences there are by then.            *)
TakePreferences(t) ==
    /\ update[t].pc = "take"
    /\ Continues(t, [update[t] EXCEPT !.pc = "save", !.values = preferences])
    /\ UNCHANGED <<center, preferences, stored, stateCalls, told, kept, foreign, serial, running,
                   stateFaults>>

(* One statement of the database; the caller is answered.                  *)
SaveState(t) ==
    /\ update[t].pc = "save"
    /\ IF update[t].of = "events"
       THEN /\ stored' = [stored EXCEPT !.center = update[t].list]
            /\ told' = told \cup {update[t].notice}
            /\ UNCHANGED kept
       ELSE /\ stored' = [stored EXCEPT !.preferences = update[t].values]
            /\ kept' = kept \cup {update[t].field}
            /\ UNCHANGED told
    /\ Answered(t)
    /\ UNCHANGED <<center, preferences, stateCalls, foreign, serial, running, stateFaults>>

(* The database is locked or full: memory keeps what the caller is told
   has failed.                                                             *)
SaveStateFails(t) ==
    /\ update[t].pc = "save" /\ StateFault
    /\ Answered(t)
    /\ UNCHANGED <<center, preferences, stored, stateCalls, told, kept, foreign, serial, running>>

Restorable(p) == \A f \in Fields : p[f] \in {"DEFAULT", "OTHER"}

(* The constructor restores both and saves the preferences; from_dict does
   not catch the ValueError of an Enum.                                    *)
StateRestart ==
    /\ running /\ StateFault
    /\ update' = [t \in StateThreads |-> NoUpdate]
    /\ IF Restorable(stored.preferences)
       THEN /\ center' = stored.center /\ preferences' = stored.preferences
            /\ UNCHANGED running
       ELSE running' = FALSE /\ UNCHANGED <<center, preferences>>
    /\ UNCHANGED <<stored, stateCalls, told, kept, foreign, serial>>

StateNext ==
    \/ \E t \in StateThreads :
          NumberEvent(t) \/ AppendEvent(t) \/ ListEvents(t)
          \/ ReplacePreference(t) \/ AssignPreferences(t) \/ TakePreferences(t)
          \/ SaveState(t) \/ SaveStateFails(t)
    \/ StateRestart

-----------------------------------------------------------------------------

(* What a caller was told is there for every client after restarts
   (ecosystem_state_store.py:16): the event under a number of its own, and
   the preference, unless two calls overlapped; whatever saves failed, of
   this event or of others (ecosystem_configuration_runtime.py:509).       *)
AnsweredIsStored ==
    serial /\ running =>
       /\ told \subseteq Range(stored.center)
       /\ \A i, j \in DOMAIN center : center[i].number = center[j].number => i = j
       /\ \A f \in kept : stored.preferences[f] = preferences[f]

(* The service starts again with what it stored, unless a preference that
   is no text was accepted (ecosystem_preferences.py:117): an update that
   failed or that another wrote over leaves nothing from_dict refuses.     *)
ServiceStartsAgain == ~foreign => running /\ Restorable(stored.preferences)
=============================================================================
