-------------------------- MODULE ActiveOrganization --------------------------
(***************************************************************************)
(* The active organization of a session, seen from one tab: the switcher   *)
(* of the header, the dashboard that selects an organization by itself,    *)
(* and the settings page that renames, deletes and reactivates the one it  *)
(* shows.  A rename goes to the organization of the session; deletion and  *)
(* reactivation name theirs.  The session moves under the page: by its own *)
(* calls, in whatever order they arrive, by other tabs, and by a deletion. *)
(*                                                                         *)
(* The user owns every organization here: permissions are in Access.       *)
(***************************************************************************)
EXTENDS FiniteSets, Naturals

CONSTANTS
    Orgs, NoOrg,
    Texts, NoText,  \* names, of which two organizations may have the same
    MaxCalls,       \* bound: calls of the tab at a time
    MaxOutside      \* bound: steps of others

ASSUME ActiveAssumption == MaxCalls \in Nat /\ MaxOutside \in Nat

VARIABLES
    name,           \* organizations.name
    gone,           \* organizations.deleted_at is set
    active,         \* activeOrganizationId of the session
    tab,            \* what the tab has fetched and shows
    danger,         \* DangerZoneCard with its dialog
    calls,          \* of the tab, under way
    outside,        \* steps of others so far
    unaware         \* history: the session moved and nothing told the tab

orgVars == <<name, gone, active, tab, danger, calls, outside, unaware>>

Somewhere == Orgs \cup {NoOrg}

Calls ==
    [kind : {"switch", "create", "reactivate", "reactivated", "count", "deleted"}, org : Orgs]
    \cup [kind : {"save"}]
    \cup [kind : {"delete"}, org : Orgs, typed : Texts, misled : BOOLEAN]
    \cup [kind : {"commit"}, org : Orgs, misled : BOOLEAN]

\* org, orgName: useActiveOrganization; list: useOrganizations; optimistic: the
\* organization the switcher was told to go to; stuck: history, it did not get
\* there, and nothing takes the name away.  of: the organization whose impact was
\* asked for; behind: history, the session moved since, or had moved unseen
ActiveTypeOK ==
    /\ DOMAIN name \subseteq Orgs /\ \A o \in DOMAIN name : name[o] \in Texts
    /\ gone \subseteq DOMAIN name
    /\ active \in Somewhere
    /\ tab \in [page : {"dashboard", "settings"}, org : Somewhere, orgName : Texts \cup {NoText},
                list : SUBSET Orgs, dirty : BOOLEAN, optimistic : Somewhere,
                stuck : BOOLEAN, attempted : BOOLEAN, due : BOOLEAN]
    /\ danger \in [open : BOOLEAN, of : Somewhere, behind : BOOLEAN]
    /\ calls \subseteq Calls /\ Cardinality(calls) <= MaxCalls
    /\ outside \in 0..MaxOutside
    /\ unaware \in BOOLEAN

NameOf(o) == IF o = NoOrg THEN NoText ELSE name[o]

Closed == [open |-> FALSE, of |-> NoOrg, behind |-> FALSE]

Member(o) == o \in DOMAIN name

ActiveInit ==
    /\ \E some \in SUBSET Orgs : name \in [some -> Texts]
    /\ gone = {}
    /\ active \in DOMAIN name \cup {NoOrg}
    /\ tab = [page |-> "dashboard", org |-> active, orgName |-> NameOf(active),
              list |-> DOMAIN name, dirty |-> FALSE, optimistic |-> NoOrg,
              stuck |-> FALSE, attempted |-> FALSE, due |-> FALSE]
    /\ danger = Closed
    /\ calls = {} /\ outside = 0 /\ unaware = FALSE

-----------------------------------------------------------------------------
(* What is shown                                                           *)

\* displayedOrgName of the switcher, as the organization it belongs to
Displayed == IF tab.optimistic # NoOrg THEN tab.optimistic ELSE tab.org

Counting == \E c \in calls : c.kind = "count"

\* isOrgDeleted of useOrgDeletionStatus: the list has it no more
ShownAsDeleted(t) == t.org # NoOrg /\ t.org \notin t.list

Editable(t) == t.page = "settings" /\ t.org # NoOrg /\ ~ShownAsDeleted(t)

\* The page renders anew.  The switcher drops what it hoped for when another
\* organization is shown, and counts the attempts of the dashboard by the length
\* of the list; the form starts again from a name that changed; the dialog goes
\* when its card is not shown, and stays, with all it holds, when it is.
Render(t) ==
    /\ tab' = [t EXCEPT
          !.optimistic = IF t.org # tab.org THEN NoOrg ELSE @,
          !.stuck = @ /\ t.org = tab.org,
          !.attempted = @ /\ Cardinality(t.list) = Cardinality(tab.list),
          !.dirty = @ /\ t.org = tab.org /\ t.orgName = tab.orgName /\ Editable(t)]
    /\ danger' = IF Editable(t) THEN danger ELSE Closed
    /\ calls' = {c \in calls : c.kind = "count" => Editable(t)}

Switching == \E c \in calls : c.kind = "switch"

\* useActiveOrganization: after a call of the organization client, and whenever
\* the hook is mounted or the window gets the focus
RefetchActive ==
    LET t == [tab EXCEPT
                !.org = active, !.orgName = NameOf(active), !.due = FALSE,
                !.stuck = @ \/ (tab.optimistic \notin {NoOrg, active} /\ ~Switching)] IN
    /\ <<t, FALSE>> # <<tab, unaware>>
    /\ Render(t)
    /\ unaware' = FALSE
    /\ UNCHANGED <<name, gone, active, outside>>

\* useOrganizations: listForUser leaves out the deleted
RefetchList ==
    /\ tab.list # DOMAIN name \ gone
    /\ Render([tab EXCEPT !.list = DOMAIN name \ gone])
    /\ UNCHANGED <<name, gone, active, outside, unaware>>

ToSettings ==
    /\ tab.page = "dashboard"
    /\ tab' = [tab EXCEPT !.page = "settings", !.dirty = FALSE, !.attempted = FALSE]
    /\ danger' = Closed
    /\ UNCHANGED <<name, gone, active, calls, outside, unaware>>

\* useBlocker stops who has typed, until "leave" is typed into its dialog
ToDashboard(confirmed) ==
    /\ tab.page = "settings"
    /\ tab.dirty <=> confirmed
    /\ ~danger.open
    /\ tab' = [tab EXCEPT !.page = "dashboard", !.dirty = FALSE, !.attempted = FALSE]
    /\ calls' = {c \in calls : c.kind # "count"}
    /\ danger' = Closed
    /\ UNCHANGED <<name, gone, active, outside, unaware>>

-----------------------------------------------------------------------------
(* Calls                                                                   *)

Ask(c) ==
    /\ Cardinality(calls \cup {c}) <= MaxCalls
    /\ calls' = calls \cup {c}
    /\ UNCHANGED <<name, gone, active, outside, unaware>>

\* handleSwitch
Switch(o) ==
    /\ o \in tab.list /\ o # tab.org /\ ~danger.open
    /\ tab' = [tab EXCEPT !.optimistic = o]
    /\ Ask([kind |-> "switch", org |-> o])
    /\ UNCHANGED danger

\* useAutoSelectOrg: once, unless the number of organizations changes
AutoSelect ==
    /\ tab.page = "dashboard" /\ ~tab.attempted
    /\ tab.org \notin tab.list
    /\ tab' = [tab EXCEPT !.attempted = TRUE]
    /\ IF tab.list = {}
       THEN UNCHANGED <<name, gone, active, calls, outside, unaware>>
       ELSE \E o \in tab.list : Ask([kind |-> "switch", org |-> o])
    /\ UNCHANGED danger

\* CreateOrgDialogContent
Create(o) ==
    /\ o \notin DOMAIN name /\ ~danger.open
    /\ [kind |-> "create", org |-> o] \notin calls
    /\ Ask([kind |-> "create", org |-> o])
    /\ UNCHANGED <<tab, danger>>

Saving == \E c \in calls : c.kind = "save"

\* isDirty of the form, whatever is typed
TypeName(changed) ==
    /\ Editable(tab) /\ ~Saving /\ ~danger.open /\ tab.dirty # changed
    /\ tab' = [tab EXCEPT !.dirty = changed]
    /\ UNCHANGED <<name, gone, active, danger, calls, outside, unaware>>

\* handleSave names no organization
Save ==
    /\ tab.dirty /\ ~Saving /\ ~danger.open
    /\ Ask([kind |-> "save"])
    /\ UNCHANGED <<tab, danger>>

\* handleReactivate
Reactivate ==
    /\ tab.page = "settings" /\ ShownAsDeleted(tab)
    /\ Ask([kind |-> "reactivate", org |-> tab.org])
    /\ UNCHANGED <<tab, danger>>

\* handleDeleteClick
AskImpact ==
    /\ Editable(tab) /\ ~danger.open /\ ~Counting
    /\ danger' = [Closed EXCEPT !.behind = tab.org # active]
    /\ Ask([kind |-> "count", org |-> tab.org])
    /\ UNCHANGED tab

\* the answer opens the dialog, with an impact or without, and the page may be about
\* another organization by now
ImpactArrives(c) ==
    /\ c \in calls /\ c.kind = "count"
    /\ calls' = calls \ {c}
    /\ danger' = [danger EXCEPT !.open = TRUE, !.of = c.org]
    /\ UNCHANGED <<name, gone, active, tab, outside, unaware>>

CloseDialog ==
    /\ danger.open
    /\ danger' = Closed
    /\ UNCHANGED <<name, gone, active, tab, calls, outside, unaware>>

Deleting == \E c \in calls : c.kind \in {"delete", "commit", "deleted"}

\* It is not the organization whose button was clicked and whose impact is told,
\* though the session has been where the page saw it ever since
Misled(o) == o # danger.of /\ ~danger.behind

\* mutant: the organization that the header names
DeleteDisplayed ==
    /\ danger.open /\ ~Deleting
    /\ Ask([kind |-> "delete", org |-> Displayed, typed |-> tab.orgName,
            misled |-> Misled(Displayed)])
    /\ danger' = Closed
    /\ UNCHANGED tab

\* handleDelete, behind DestructiveConfirmDialog: the click, which closes it, needs
\* the name that is shown by now to be typed
Delete ==
    /\ danger.open /\ ~Deleting
    /\ Ask([kind |-> "delete", org |-> tab.org, typed |-> tab.orgName,
            misled |-> Misled(tab.org)])
    /\ danger' = Closed
    /\ UNCHANGED tab

-----------------------------------------------------------------------------
(* The server, and its answers                                             *)

Answered(c) == calls' = calls \ {c}

\* activeOrganizationId of the session becomes o
SessionGoes(o) ==
    /\ active' = o
    /\ danger' = IF o # active /\ (danger.open \/ Counting)
                 THEN [danger EXCEPT !.behind = TRUE] ELSE danger

\* setActive of a member.  An answer that is lost throws: the switcher gives up
\* its hope, and nothing says that the session moved.
SwitchLands(c, lost) ==
    /\ c \in calls /\ c.kind = "switch"
    /\ SessionGoes(c.org)
    /\ Answered(c)
    /\ tab' = IF lost THEN [tab EXCEPT !.optimistic = NoOrg, !.stuck = FALSE]
              ELSE [tab EXCEPT !.due = TRUE]
    /\ unaware' = (unaware \/ (lost /\ active # c.org))
    /\ UNCHANGED <<name, gone, outside>>

\* An error of the server is a result of the client: handleSwitch goes on as if
\* all was well.  A call that does not arrive throws.
SwitchFails(c, thrown) ==
    /\ c \in calls /\ c.kind = "switch"
    /\ Answered(c)
    /\ tab' = IF thrown THEN [tab EXCEPT !.optimistic = NoOrg, !.stuck = FALSE]
              ELSE [tab EXCEPT !.stuck = tab.optimistic # NoOrg]
    /\ UNCHANGED <<name, gone, active, danger, outside, unaware>>

CreateLands(c, t) ==
    /\ c \in calls /\ c.kind = "create"
    /\ Answered(c)
    /\ name' = [o \in DOMAIN name \cup {c.org} |-> IF o = c.org THEN t ELSE name[o]]
    /\ SessionGoes(c.org)
    /\ tab' = [tab EXCEPT !.due = TRUE]
    /\ UNCHANGED <<gone, outside, unaware>>

\* better-auth updates the active organization of the session, if there is one
SaveLands(c, t) ==
    /\ c \in calls /\ c.kind = "save"
    /\ Answered(c)
    /\ IF active = NoOrg THEN UNCHANGED <<name, tab>>
       ELSE /\ name' = [name EXCEPT ![active] = t]
            /\ tab' = [tab EXCEPT !.due = TRUE]
    /\ UNCHANGED <<gone, active, danger, outside, unaware>>

\* softDelete: findActiveOrg, the confirmation and the owner
CheckDeletion(c) ==
    /\ c \in calls /\ c.kind = "delete"
    /\ calls' = (calls \ {c})
                \cup (IF c.org \in gone \/ name[c.org] # c.typed THEN {}
                      ELSE {[kind |-> "commit", org |-> c.org, misled |-> c.misled]})
    /\ UNCHANGED <<name, gone, active, tab, danger, outside, unaware>>

Tells(c, kind) == calls' = (calls \ {c}) \cup {[kind |-> kind, org |-> c.org]}

Cleared(o) == IF active = o THEN NoOrg ELSE active

\* softDeleteOrg and clearOrgSessions; the page hears of it with the answer
CommitDeletion(c) ==
    /\ c \in calls /\ c.kind = "commit"
    /\ gone' = gone \cup {c.org}
    /\ SessionGoes(Cleared(c.org))
    /\ unaware' = (unaware \/ active = c.org)
    /\ Tells(c, "deleted")
    /\ UNCHANGED <<name, tab, outside>>

\* reactivate: the guard asks for a permission in the active organization first
ReactivateLands(c) ==
    /\ c \in calls /\ c.kind = "reactivate"
    /\ IF active # NoOrg /\ c.org \in gone
       THEN gone' = gone \ {c.org} /\ Tells(c, "reactivated")
       ELSE Answered(c) /\ UNCHANGED gone
    /\ UNCHANGED <<name, active, tab, danger, outside, unaware>>

\* The answer to either has the page loaded anew, after a deletion at the start page.
\* What the old page has under way arrives as if it were of another tab.
PageReloads(c) ==
    /\ c \in calls /\ c.kind \in {"deleted", "reactivated"}
    /\ calls' = {}
    /\ tab' = [tab EXCEPT !.org = active, !.orgName = NameOf(active),
                          !.list = DOMAIN name \ gone, !.optimistic = NoOrg,
                          !.stuck = FALSE, !.attempted = FALSE, !.due = FALSE,
                          !.dirty = FALSE,
                          !.page = IF c.kind = "deleted" THEN "dashboard" ELSE @]
    /\ danger' = Closed
    /\ unaware' = FALSE
    /\ UNCHANGED <<name, gone, active, outside>>

\* Any other call that fails changes nothing, and an answer that is lost tells nothing
CallFails(c) ==
    /\ c \in calls
    /\ c.kind \in {"create", "save", "delete", "reactivate", "deleted", "reactivated"}
    /\ Answered(c)
    /\ UNCHANGED <<name, gone, active, tab, danger, outside, unaware>>

-----------------------------------------------------------------------------
(* Others                                                                  *)

Others ==
    /\ outside < MaxOutside /\ outside' = outside + 1
    /\ UNCHANGED <<tab, calls>>

\* another tab of the browser
OtherTabSwitches(o) ==
    /\ Others
    /\ o \in DOMAIN name \ {active}
    /\ SessionGoes(o) /\ unaware' = TRUE
    /\ UNCHANGED <<name, gone>>

OthersRename(o, t) ==
    /\ Others
    /\ o \in DOMAIN name /\ name[o] # t
    /\ name' = [name EXCEPT ![o] = t]
    /\ UNCHANGED <<gone, active, danger, unaware>>

OthersDelete(o) ==
    /\ Others
    /\ o \in DOMAIN name \ gone
    /\ gone' = gone \cup {o}
    /\ SessionGoes(Cleared(o))
    /\ unaware' = (unaware \/ active = o)
    /\ UNCHANGED name

-----------------------------------------------------------------------------
ActiveNext ==
    \/ RefetchActive \/ RefetchList \/ ToSettings
    \/ \E confirmed \in BOOLEAN : ToDashboard(confirmed)
    \/ \E o \in Orgs : Switch(o) \/ Create(o) \/ OtherTabSwitches(o) \/ OthersDelete(o)
    \/ \E o \in Orgs, t \in Texts : OthersRename(o, t)
    \/ \E changed \in BOOLEAN : TypeName(changed)
    \/ AutoSelect \/ Save \/ Reactivate \/ AskImpact \/ CloseDialog \/ Delete
    \/ \E c \in calls :
          \/ CheckDeletion(c) \/ CommitDeletion(c) \/ ReactivateLands(c)
          \/ PageReloads(c) \/ ImpactArrives(c) \/ CallFails(c)
          \/ \E lost \in BOOLEAN : SwitchLands(c, lost) \/ SwitchFails(c, lost)
          \/ \E t \in Texts : CreateLands(c, t) \/ SaveLands(c, t)

ActiveSpec == ActiveInit /\ [][ActiveNext]_orgVars

-----------------------------------------------------------------------------
(* Properties                                                              *)

\* What this page deletes, when the server sets out to, is the organization whose
\* button was clicked and whose impact the dialog told, unless the session moved
\* after the click or had moved unseen: then the dialog stays open over another
\* organization, and one of the same name is deleted under the impact of the first
\* (DangerZoneCard, softDelete).
DeletedAsConfirmed == \A d \in {c \in calls : c.kind = "commit"} : ~d.misled

\* With nothing under way the tab shows the organization its requests go to,
\* unless the session moved without its knowing, or a switch of its own was
\* refused or undone by another tab before it was seen: then the name stays, as
\* it goes only when another organization is fetched (handleSwitch).
ShownIsActive ==
    calls = {} /\ ~tab.due /\ ~unaware /\ ~tab.stuck => Displayed = active

ActiveOrgInv == ActiveTypeOK /\ DeletedAsConfirmed /\ ShownIsActive
=============================================================================
