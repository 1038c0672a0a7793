------------------------------- MODULE ProfileForm -------------------------------
(***************************************************************************)
(* The name of a user: first, last and display name, and whether the last  *)
(* was customized.  The profile page computes the display name while it    *)
(* was not, and sends all it shows; other clients of the API send single   *)
(* fields, and then the server computes it from a row it read before.      *)
(* The avatar, which is sent along, is not told apart.                     *)
(***************************************************************************)

CONSTANTS
    Names, NoName,  \* of a person, and the empty one
    Clients         \* bound: requests of others at a time

VARIABLES
    row,            \* users: first, last, name, fullNameCustomized
    page,           \* useProfileData and handleSave
    update,         \* updateProfile: one of each client and one of the page
    given,          \* history: the last display name somebody gave
    crossed         \* history: a row changed between the statements of an update

profileVars == <<row, page, update, given, crossed>>

Part == Names \cup {NoName}

\* A display name is put together from two parts, or is one of its own
Custom == <<"custom">>

Displays == (Part \X Part) \cup {Custom}

Composed(first, last) == <<first, last>>

ThePage == "page"

Updates == Clients \cup {ThePage}

Rows == [first : Part, last : Part, name : Displays, customized : BOOLEAN]

\* Fields that are not sent
Absent == "absent"
NoDisplay == <<>>

Bodies == [first : Names \cup {Absent}, last : Part \cup {Absent}, name : Displays \cup {NoDisplay}]

NoBody == [first |-> Absent, last |-> Absent, name |-> NoDisplay]

Unknown == [first |-> NoName, last |-> NoName, name |-> Custom, customized |-> FALSE]

\* What getNameFields selects
Fields == [first : Part, last : Part, customized : BOOLEAN]

NoFields == [first |-> NoName, last |-> NoName, customized |-> FALSE]

Quiet == [pc |-> "idle", body |-> NoBody, current |-> NoFields, stale |-> FALSE]

ProfileTypeOK ==
    /\ row \in Rows
    /\ page \in [state : {"loading", "loaded", "saving"}, form : Rows]
    /\ update \in [Updates -> [pc : {"idle", "arrived", "read"}, body : Bodies,
                               current : Fields, stale : BOOLEAN]]
    /\ given \in Displays
    /\ crossed \in BOOLEAN

\* Who signed up gave a display name and no parts
ProfileInit ==
    /\ row = Unknown
    /\ page = [state |-> "loading", form |-> Unknown]
    /\ update = [u \in Updates |-> Quiet]
    /\ given = Custom
    /\ crossed = FALSE

-----------------------------------------------------------------------------
(* The page                                                                *)

\* The effect of useProfileData: parts that are both empty compute nothing
Synced(form) ==
    IF form.customized \/ (form.first = NoName /\ form.last = NoName) THEN form
    ELSE [form EXCEPT !.name = Composed(form.first, form.last)]

\* getProfile; again when the session comes with another user object, over
\* whatever was typed
Load ==
    /\ page.state # "saving"
    /\ page' = [state |-> "loaded", form |-> Synced(row)]
    /\ UNCHANGED <<row, update, given, crossed>>

\* The name of the session, and no parts
LoadFails ==
    /\ page.state = "loading"
    /\ page' = [state |-> "loaded", form |-> [Unknown EXCEPT !.name = row.name]]
    /\ UNCHANGED <<row, update, given, crossed>>

Edited(form) ==
    /\ page.state = "loaded"
    /\ page' = [page EXCEPT !.form = Synced(form)]
    /\ UNCHANGED <<row, update, given, crossed>>

EditFirst(n) == Edited([page.form EXCEPT !.first = n])
EditLast(n) == Edited([page.form EXCEPT !.last = n])

\* typing customizes; "sync with first and last name" takes that back
EditName == Edited([page.form EXCEPT !.name = Custom, !.customized = TRUE])
SyncName == page.form.customized /\ Edited([page.form EXCEPT !.customized = FALSE])

Sent(n) == IF n = NoName THEN Absent ELSE n

Arrives(u, body) ==
    /\ update[u].pc = "idle"
    /\ update' = [update EXCEPT ![u] = [Quiet EXCEPT !.pc = "arrived", !.body = body]]

\* handleSave sends the display name, customized or not, and no empty part
SaveProfile ==
    /\ page.state = "loaded"
    /\ page' = [page EXCEPT !.state = "saving"]
    /\ Arrives(ThePage, [first |-> Sent(page.form.first), last |-> Sent(page.form.last),
                         name |-> page.form.name])
    /\ UNCHANGED <<row, given, crossed>>

\* the answer, or none
SaveEnds ==
    /\ page.state = "saving" /\ update[ThePage].pc = "idle"
    /\ page' = [page EXCEPT !.state = "loaded"]
    /\ UNCHANGED <<row, update, given, crossed>>

-----------------------------------------------------------------------------
(* updateProfile                                                           *)

\* A display name that is put together by the client is one the page sends too
ClientSends(u, body) ==
    /\ u \in Clients /\ body # NoBody /\ body.name \in {NoDisplay, Custom}
    /\ Arrives(u, body)
    /\ UNCHANGED <<row, page, given, crossed>>

Composes(body) == body.name = NoDisplay /\ (body.first # Absent \/ body.last # Absent)

\* getNameFields
ReadNames(u) ==
    /\ update[u].pc = "arrived" /\ Composes(update[u].body)
    /\ update' = [update EXCEPT ![u].pc = "read",
                                ![u].current = [x \in DOMAIN NoFields |-> row[x]]]
    /\ UNCHANGED <<row, page, given, crossed>>

Or(field, old) == IF field = Absent THEN old ELSE field

\* mutant: the display name is computed from the row, and only what was sent
Mixed(body, current) ==
    [name |-> Composed(current.first, current.last), customized |-> FALSE]

\* The display name the statement writes, and whether it is customized then
Named(body, current) ==
    IF body.name # NoDisplay THEN [name |-> body.name, customized |-> TRUE]
    ELSE IF Composes(body) /\ ~current.customized
    THEN [name |-> Composed(Or(body.first, current.first), Or(body.last, current.last)),
          customized |-> row.customized]
    ELSE [name |-> row.name, customized |-> row.customized]

\* What others read before this write is stale now
Overtaken(u) ==
    [w \in Updates |-> IF w = u THEN Quiet
                       ELSE [update[w] EXCEPT !.stale = @ \/ update[w].pc = "read"]]

WriteProfile(u) ==
    LET call == update[u] n == Named(call.body, call.current) IN
    /\ call.pc = "read" \/ (call.pc = "arrived" /\ ~Composes(call.body))
    /\ row' = [first |-> Or(call.body.first, row.first), last |-> Or(call.body.last, row.last),
               name |-> n.name, customized |-> n.customized]
    /\ given' = IF call.body.name # NoDisplay THEN call.body.name ELSE given
    /\ crossed' = (call.stale \/ (crossed /\ call.body.name = NoDisplay))
    /\ update' = Overtaken(u)
    /\ UNCHANGED page

\* whereActive finds no row, or the request fails
RefuseProfile(u) ==
    /\ update[u].pc # "idle"
    /\ update' = [update EXCEPT ![u] = Quiet]
    /\ UNCHANGED <<row, page, given, crossed>>

-----------------------------------------------------------------------------
ProfileNext ==
    \/ Load \/ LoadFails \/ EditName \/ SyncName \/ SaveProfile \/ SaveEnds
    \/ \E n \in Part : EditFirst(n) \/ EditLast(n)
    \/ \E u \in Clients, body \in Bodies : ClientSends(u, body)
    \/ \E u \in Updates : ReadNames(u) \/ WriteProfile(u) \/ RefuseProfile(u)

ProfileSpec == ProfileInit /\ [][ProfileNext]_profileVars

-----------------------------------------------------------------------------
(* Properties                                                              *)

\* A display name nobody customized is put together from the first and last
\* name of the row, or is that of the sign-up; a customized one is what somebody
\* gave.  The exception is an update that computed it from a row which another
\* one has changed since it was read (updateProfile).
NameInSync ==
    \/ crossed
    \/ IF row.customized THEN row.name = given
       ELSE row.name = Composed(row.first, row.last)
            \/ (row.name = given /\ row.first = NoName /\ row.last = NoName)

ProfileInv == ProfileTypeOK /\ NameInSync
=============================================================================
