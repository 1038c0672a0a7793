------------------------------ MODULE AdminForms ------------------------------
(***************************************************************************)
(* The forms of the admin console that edit a user, an organization or,    *)
(* from the list of members, the profile of a member.  A form copies the   *)
(* row it edits when it is mounted and sends all its fields when it is     *)
(* saved, while the row is fetched again under it and others write to it.  *)
(*                                                                         *)
(* One administrator, one row, one request at a time.  "profile" stands    *)
(* for name and e-mail, or name and slug.                                  *)
(***************************************************************************)
EXTENDS FiniteSets

CONSTANT Texts      \* values of the fields other than the role

VARIABLES
    editing,        \* [kind, self]: what the page is about
    row,            \* of the database
    others,         \* another superadmin is active
    online,         \* the administrator has a session
    fetched,        \* the row on the page, and isLastActiveSuperadmin
    editor,         \* the form
    update          \* the request under way

formVars == <<editing, row, others, online, fetched, editor, update>>

Kinds == {"user", "organization", "member"}

FieldsOf(kind) == CASE kind = "user" -> {"profile", "role"}
                    [] kind = "organization" -> {"profile", "parent"}
                    [] kind = "member" -> {"profile"}

EditFields == FieldsOf(editing.kind)

FieldValues(f) == IF f = "role" THEN {"user", "superadmin"} ELSE Texts

RowsOf(kind) == {r \in [FieldsOf(kind) -> Texts \cup {"user", "superadmin"}] :
                   \A f \in FieldsOf(kind) : r[f] \in FieldValues(f)}

NoUpdate == [state |-> "none"]
Unmounted == [state |-> "closed"]

\* A member's profile is edited without the role: whether the row is that of a
\* superadmin makes no difference then.
Superadmin(r) == editing.kind = "user" /\ r["role"] = "superadmin"

FormsTypeOK ==
    /\ editing \in [kind : Kinds, self : BOOLEAN]
    /\ row \in RowsOf(editing.kind)
    /\ others \in BOOLEAN /\ online \in BOOLEAN
    /\ fetched \in [row : RowsOf(editing.kind), last : BOOLEAN]
    /\ editor = Unmounted \/
       editor \in [state : {"closed", "open", "confirming"},
                   values : RowsOf(editing.kind),
                   edited : SUBSET EditFields, stale : SUBSET EditFields]
    /\ update \in [state : {"none", "done", "refused"}] \/
       update \in [state : {"sent"}, values : RowsOf(editing.kind),
                   edited : SUBSET EditFields, stale : SUBSET EditFields,
                   confirmed : BOOLEAN]

Last == Superadmin(row) /\ ~others

\* stale: fields of the row that are not, or may not be, what the form started from
Captured(state) == [state |-> state, values |-> fetched.row, edited |-> {},
                    stale |-> {f \in EditFields : row[f] # fetched.row[f]}]

\* the dialog of a member stays mounted when it is closed
WhenClosed(left) == IF editing.kind = "member" THEN left ELSE Unmounted

\* the form once the fields F of the row were written
Outdated(F) == IF editor = Unmounted THEN editor ELSE [editor EXCEPT !.stale = F]

FormsInit ==
    /\ editing \in [kind : Kinds, self : BOOLEAN]
    /\ editing.self => editing.kind # "organization"
    /\ row \in RowsOf(editing.kind)
    /\ editing.self /\ editing.kind = "user" => Superadmin(row)
    /\ others = TRUE /\ online = TRUE
    /\ fetched = [row |-> row, last |-> FALSE]
    /\ editor = WhenClosed(Captured("closed"))
    /\ update = NoUpdate

-----------------------------------------------------------------------------
(* The page                                                                *)

\* useQuery, and its invalidation after an action or an error
RefetchRow ==
    /\ online /\ fetched # [row |-> row, last |-> Last]
    /\ fetched' = [row |-> row, last |-> Last]
    /\ UNCHANGED <<editing, row, others, online, editor, update>>

\* mutant: useState of a component that stays mounted
OpenEditorAgain ==
    /\ editor.state = "closed"
    /\ editor' = [editor EXCEPT !.state = "open", !.edited = {}, !.stale = {}]
    /\ UNCHANGED <<editing, row, others, online, fetched, update>>

\* The dialog of a member is mounted with the menu, and may be opened a second
\* time from the same menu: it then has the values of the first time.
OpenEditor ==
    /\ editor.state = "closed"
    /\ \/ editor' = Captured("open")
       \/ editing.kind = "member" /\ editor' = [editor EXCEPT !.state = "open"]
    /\ UNCHANGED <<editing, row, others, online, fetched, update>>

\* RoleField is locked for the last active superadmin
RoleLocked == editing.self /\ Superadmin(fetched.row) /\ fetched.last

TypeIn(f, v) ==
    /\ editor.state = "open"
    /\ v \in FieldValues(f) /\ v # editor.values[f]
    /\ f = "role" => ~RoleLocked
    /\ editor' = [editor EXCEPT !.values = [@ EXCEPT ![f] = v], !.edited = @ \cup {f}]
    /\ UNCHANGED <<editing, row, others, online, fetched, update>>

\* Cancel; handleOpenChange of the dialog takes the member's values again
CancelEdit ==
    /\ editor.state = "open"
    /\ editor' = WhenClosed(Captured("closed"))
    /\ UNCHANGED <<editing, row, others, online, fetched, update>>

SelfDemotion ==
    editing.self /\ Superadmin(fetched.row) /\ ~Superadmin(editor.values)

Send(confirmed) ==
    update' = [state |-> "sent", values |-> editor.values, edited |-> editor.edited,
               stale |-> editor.stale, confirmed |-> confirmed]

\* handleSubmit
SubmitEdit ==
    /\ editor.state = "open" /\ update = NoUpdate
    /\ IF SelfDemotion
       THEN editor' = [editor EXCEPT !.state = "confirming"] /\ UNCHANGED update
       ELSE Send(FALSE) /\ UNCHANGED editor
    /\ UNCHANGED <<editing, row, others, online, fetched>>

\* handleConfirmRoleChange, or the dialog is dismissed
ConfirmEdit ==
    /\ editor.state = "confirming" /\ update = NoUpdate
    /\ editor' = [editor EXCEPT !.state = "open"]
    /\ Send(TRUE) \/ UNCHANGED update
    /\ UNCHANGED <<editing, row, others, online, fetched>>

\* onSave closes the form and invalidates the query; an error leaves it open
EditAnswered ==
    /\ update.state \in {"done", "refused"}
    /\ editor' = IF update.state = "done"
                 THEN WhenClosed([editor EXCEPT !.state = "closed"]) ELSE editor
    /\ update' = NoUpdate
    /\ UNCHANGED <<editing, row, others, online, fetched>>

-----------------------------------------------------------------------------
(* The server                                                              *)

SelfRoleChange == editing.kind = "user" /\ editing.self

\* executeSelfRoleChange; validateUpdatePermissions of the others
Accepted ==
    /\ online
    /\ IF SelfRoleChange THEN Superadmin(row) /\ ~Last
       ELSE Superadmin(row) => Superadmin(update.values)

\* applyUserUpdate and the sessions that executeSelfRoleChange deletes;
\* updateOrganization, whose checks of the parent are in module OrgTree
ApplyUpdate ==
    /\ update.state = "sent" /\ Accepted
    /\ row' = update.values
    /\ online' = ~SelfRoleChange
    /\ update' = [state |-> "done"]
    /\ editor' = Outdated({f \in EditFields : editor.values[f] # update.values[f]
                                              /\ f \notin editor.edited})
    /\ UNCHANGED <<editing, others, fetched>>

\* also a conflict of e-mails or slugs, a lost session or request
RefuseUpdate ==
    /\ update.state = "sent"
    /\ update' = [state |-> "refused"]
    /\ UNCHANGED <<editing, row, others, online, fetched, editor>>

\* Somebody else writes a field.  A superadmin is demoted by himself only, in
\* another window, and not the last one; who demotes himself is signed out.
OthersWrite(f, v) ==
    /\ v \in FieldValues(f) /\ v # row[f]
    /\ f = "role" /\ v = "user" => others
    /\ row' = [row EXCEPT ![f] = v]
    /\ online' = (online /\ ~(f = "role" /\ v = "user" /\ editing.self))
    /\ editor' = Outdated(editor.stale \cup {f})
    /\ update' = IF update.state = "sent"
                 THEN [update EXCEPT !.stale = @ \cup {f}] ELSE update
    /\ UNCHANGED <<editing, others, fetched>>

\* the other superadmins come and go; who edits somebody else is one of them
OthersChange ==
    /\ editing.self
    /\ others' = ~others
    /\ others \/ editing.kind = "user" => Superadmin(row)
    /\ UNCHANGED <<editing, row, online, fetched, editor, update>>

FormsNext ==
    \/ RefetchRow \/ OpenEditor \/ CancelEdit \/ SubmitEdit \/ ConfirmEdit
    \/ EditAnswered \/ ApplyUpdate \/ RefuseUpdate \/ OthersChange
    \/ \E f \in EditFields : \E v \in FieldValues(f) : TypeIn(f, v) \/ OthersWrite(f, v)

FormsSpec == FormsInit /\ [][FormsNext]_formVars

-----------------------------------------------------------------------------
(* Properties                                                              *)

Applied == update.state = "sent" /\ update'.state = "done"

\* Whoever writes to the row while the form is open: a save changes a field
\* that the administrator did not touch only if somebody else wrote it since
\* the form took its values; it never takes the role of superadmin from
\* somebody else, and from the administrator only after the question; and it
\* never leaves the system without an active superadmin.
EditedForCause ==
    [][Applied =>
         /\ \A f \in EditFields : row'[f] # row[f] => f \in update.edited \cup update.stale
         /\ Superadmin(row) /\ ~Superadmin(row') =>
              editing.self /\ update.confirmed /\ others]_formVars
===============================================================================
