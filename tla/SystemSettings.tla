---------------------------- MODULE SystemSettings ----------------------------
(***************************************************************************)
(* The page of the system settings and PATCH /api/admin/settings.          *)
(*                                                                         *)
(* The form takes its values when the page is opened and keeps them when   *)
(* the settings are fetched again; what differs from the last fetch is     *)
(* sent.  batchUpdate checks all updates, then writes one row after the    *)
(* other, each in a statement of its own.  One form is modelled; the other *)
(* administrators are the statements of their requests (OtherWrite), which *)
(* may fall between any two statements of this one.                        *)
(***************************************************************************)
EXTENDS FiniteSets

CONSTANTS
    Settings,
    SettingValues,
    Mistyped        \* values of another type than their setting has

ASSUME SettingsAssumption ==
    Mistyped \subseteq SettingValues /\ Mistyped # SettingValues

Valid == [s \in Settings |-> SettingValues \ Mistyped]

VARIABLES
    stored,         \* the table system_settings
    form,           \* useSettingsForm
    patch           \* the last request of this administrator

settingsVars == <<stored, form, patch>>

Partial == UNION {[S -> SettingValues] : S \in SUBSET Settings}

NoPatch == [state |-> "none", updates |-> <<>>, asked |-> {}, todo |-> {},
            before |-> <<>>, written |-> {}, raced |-> {}, misreported |-> {}, unexplained |-> {}]

InFlight == patch.state \in {"checking", "writing"}

SettingsTypeOK ==
    /\ stored \in [Settings -> SettingValues]
    /\ form \in [fetched : [Settings -> SettingValues],
                 values : [Settings -> SettingValues],
                 explained : SUBSET Settings]
    /\ patch.state \in {"none", "checking", "writing", "done", "rejected", "failed"}
    /\ patch.updates \in Partial /\ patch.before \in Partial
    /\ patch.todo \subseteq DOMAIN patch.updates
    /\ patch.written \subseteq patch.asked

\* explained: settings edited in this form, or written by a request since
Opened(table) == [fetched |-> table, values |-> table, explained |-> {}]

SettingsInit ==
    /\ stored \in [Settings -> SettingValues]
    /\ \A s \in Settings : stored[s] \in Valid[s]
    /\ form = Opened(stored)
    /\ patch = NoPatch

-----------------------------------------------------------------------------
(* The page                                                                *)

Open ==
    /\ form # Opened(stored)
    /\ form' = Opened(stored)
    /\ UNCHANGED <<stored, patch>>

\* the query is stale (focus, invalidateQueries): values keeps what it was
RefetchSettings ==
    /\ form.fetched # stored
    /\ form' = [form EXCEPT !.fetched = stored]
    /\ UNCHANGED <<stored, patch>>

\* coerceValue: what is typed may be no number
Edit(s, v) ==
    /\ v # form.values[s]
    /\ form' = [form EXCEPT !.values = [@ EXCEPT ![s] = v],
                            !.explained = @ \cup {s}]
    /\ UNCHANGED <<stored, patch>>

\* mutant: every setting of the card is sent
AllSettings == Settings

\* getChangedSettings
ChangedSettings == {s \in Settings : form.values[s] # form.fetched[s]}

Save ==
    /\ ~InFlight
    /\ ChangedSettings # {}
    /\ patch' = [NoPatch EXCEPT !.state = "checking",
                                !.updates = [s \in ChangedSettings |-> form.values[s]],
                                !.asked = ChangedSettings, !.todo = ChangedSettings,
                                !.unexplained = ChangedSettings \ form.explained]
    /\ UNCHANGED <<stored, form>>

-----------------------------------------------------------------------------
(* batchUpdate                                                             *)

\* p with its answer: what was asked and written, and the values no longer
AnsweredPatch(p, state) == [p EXCEPT !.state = state, !.updates = <<>>, !.todo = {},
                                !.before = <<>>, !.raced = {}]

\* phase 1, one setting: findByKey and validateSettingValue
Check(s) ==
    /\ patch.state = "checking" /\ s \in patch.todo
    /\ patch.updates[s] \in Valid[s]
    /\ LET left == patch.todo \ {s}
           read == [k \in DOMAIN patch.before \cup {s} |->
                      IF k = s THEN stored[s] ELSE patch.before[k]]
       IN  patch' = IF left # {}
                    THEN [patch EXCEPT !.todo = left, !.before = read]
                    ELSE [patch EXCEPT !.state = "writing", !.before = read,
                                       !.todo = DOMAIN patch.updates]
    /\ UNCHANGED <<stored, form>>

RejectPatch(s) ==
    /\ patch.state = "checking" /\ s \in patch.todo
    /\ patch.updates[s] \notin Valid[s]
    /\ patch' = AnsweredPatch(patch, "rejected")
    /\ UNCHANGED <<stored, form>>

\* phase 2, one setting: updateByKey, and with the last one the audit log
Write(s) ==
    /\ patch.state = "writing" /\ s \in patch.todo
    /\ stored' = [stored EXCEPT ![s] = patch.updates[s]]
    /\ LET left == patch.todo \ {s}
           done == [patch EXCEPT
             !.todo = left,
             !.written = @ \cup {s},
             !.misreported = IF patch.before[s] # stored[s] /\ s \notin patch.raced
                             THEN @ \cup {s} ELSE @]
       IN  patch' = IF left = {} THEN AnsweredPatch(done, "done") ELSE done
    /\ form' = [form EXCEPT !.explained = @ \cup {s}]

\* a statement failed, or the process ended
Break ==
    /\ InFlight
    /\ patch' = AnsweredPatch(patch, "failed")
    /\ UNCHANGED <<stored, form>>

\* a statement of somebody else's request
OtherWrite(s, v) ==
    /\ v \in Valid[s] /\ v # stored[s]
    /\ stored' = [stored EXCEPT ![s] = v]
    /\ form' = [form EXCEPT !.explained = @ \cup {s}]
    /\ patch' = IF InFlight THEN [patch EXCEPT !.raced = @ \cup {s}] ELSE patch

SettingsNext ==
    \/ Open \/ RefetchSettings \/ Save \/ Break
    \/ \E s \in Settings :
         \/ Check(s) \/ RejectPatch(s) \/ Write(s)
         \/ \E v \in SettingValues : Edit(s, v) \/ OtherWrite(s, v)

SettingsSpec == SettingsInit /\ [][SettingsNext]_settingsVars

-----------------------------------------------------------------------------
(* Properties                                                              *)

\* batchUpdate and the form, whatever other requests write meanwhile: only
\* valid values are stored; a request that was refused wrote nothing, one that
\* was answered with success wrote everything; the value the audit log gives
\* as the one before is the one replaced unless another request came between;
\* and a setting the administrator did not touch is sent only when a request
\* wrote it since the page was opened (the form then writes the old value back).
SettingsInv ==
    /\ SettingsTypeOK
    /\ \A s \in Settings : stored[s] \in Valid[s]
    /\ patch.state = "rejected" => patch.written = {}
    /\ patch.state = "done" => patch.written = patch.asked
    /\ patch.misreported = {} /\ patch.unexplained = {}

\* "Writes all updates within a single DB transaction (all-or-nothing)",
\* says the specification of the page: a request that failed wrote nothing.
AllOrNothing == patch.state = "failed" => patch.written = {}
=============================================================================
