------------------------------ MODULE MembersPage ------------------------------
(***************************************************************************)
(* The members page of an organization's administrator, who is a platform  *)
(* administrator too: the table of members with its menus, the invitation  *)
(* dialog and the pending invitations.  Lists come by the organization of  *)
(* the session and are kept under the organization the page shows, or under*)
(* no name at all; a row is one of some organization, whatever the page    *)
(* shows.  Of rows, roles and invitations only the organization they       *)
(* belong to is told apart.                                                *)
(***************************************************************************)
EXTENDS FiniteSets, Naturals

CONSTANTS
    Clubs, NoClub,  \* organizations of the user
    MaxRequests     \* bound: requests of the page at a time

ASSUME MembersAssumption == NoClub \notin Clubs /\ MaxRequests \in Nat \ {0}

VARIABLES
    sessionClub,    \* activeOrganizationId of the session
    shown,          \* the page's copy of it: useActiveOrganization
    table,          \* cache ['admin-members', org]: whose members it holds
    roles,          \* cache ['org-roles', org]
    invitations,    \* cache ['admin-invitations']
    invite,         \* InviteDialog
    revoking,       \* RevokeConfirmDialog: whose invitation
    requests,       \* of the page, under way
    mixed           \* history: what the page showed of another organization than
                    \* the one it names, a list or what a dialog holds

membersVars == <<sessionClub, shown, table, roles, invitations, invite, revoking,
                 requests, mixed>>

SomeClub == Clubs \cup {NoClub}

\* of: the key of a list, or the organization of the row or role that is sent;
\* at: the organization the page shows, which a change of role names
PageRequests ==
    [kind : {"members", "roles"}, of : Clubs] \cup [kind : {"invitations"}]
    \cup [kind : {"invite", "revoke", "role"}, of : Clubs, at : Clubs]

MembersTypeOK ==
    /\ sessionClub \in SomeClub /\ shown \in SomeClub
    /\ table \in [Clubs -> SomeClub] /\ roles \in [Clubs -> SomeClub]
    /\ invitations \in SomeClub
    /\ invite \in [open : BOOLEAN, role : SomeClub]
    /\ revoking \in SomeClub
    /\ requests \subseteq PageRequests /\ Cardinality(requests) <= MaxRequests
    /\ mixed \subseteq {"roles", "invitations", "dialog"}

Nobody == [c \in Clubs |-> NoClub]

MembersInit ==
    /\ sessionClub \in SomeClub /\ shown = sessionClub
    /\ table = Nobody /\ roles = Nobody /\ invitations = NoClub
    /\ invite = [open |-> FALSE, role |-> NoClub]
    /\ revoking = NoClub
    /\ requests = {} /\ mixed = {}

\* something of one organization on the page of another
Foreign(c, page) == c # NoClub /\ page # NoClub /\ c # page
When(what, holds) == IF holds THEN {what} ELSE {}

-----------------------------------------------------------------------------
(* The session                                                             *)

\* The switcher, another tab, a deletion (ActiveOrganization)
SessionMoves(c) ==
    /\ c # sessionClub
    /\ sessionClub' = c
    /\ UNCHANGED <<shown, table, roles, invitations, invite, revoking, requests, mixed>>

\* The hook fetches.  Without an organization NoOrgView takes the place of the
\* dialogs; with another one they stay as they are.
PageFollows ==
    /\ shown # sessionClub
    /\ shown' = sessionClub
    /\ IF sessionClub = NoClub
       THEN invite' = [open |-> FALSE, role |-> NoClub] /\ revoking' = NoClub
       ELSE UNCHANGED <<invite, revoking>>
    /\ mixed' = mixed
         \cup When("invitations", Foreign(invitations, sessionClub))
         \cup When("dialog", invite.open /\ Foreign(invite.role, sessionClub))
         \cup When("dialog", Foreign(revoking, sessionClub))
    /\ UNCHANGED <<sessionClub, table, roles, invitations, requests>>

-----------------------------------------------------------------------------
(* The page                                                                *)

Asks(r) ==
    /\ shown # NoClub
    /\ Cardinality(requests \cup {r}) <= MaxRequests
    /\ requests' = requests \cup {r}
    /\ UNCHANGED <<sessionClub, shown, table, roles, invitations, mixed>>

\* useMembersPageQueries, the query of roles, PendingInvitations: on mount, when
\* the page shows another organization, and after an action
FetchList(kind) ==
    /\ Asks(IF kind = "invitations" THEN [kind |-> kind] ELSE [kind |-> kind, of |-> shown])
    /\ UNCHANGED <<invite, revoking>>

\* InviteDialog takes a role of the list when it opens, and later if it has none
OpenInvite ==
    /\ shown # NoClub /\ ~invite.open
    /\ invite' = [open |-> TRUE, role |-> roles[shown]]
    /\ UNCHANGED <<sessionClub, shown, table, roles, invitations, revoking, requests, mixed>>

ChooseRole ==
    /\ shown # NoClub /\ roles[shown] # NoClub
    /\ invite.open \/ invite.role = NoClub
    /\ invite' = [invite EXCEPT !.role = roles[shown]]
    /\ UNCHANGED <<sessionClub, shown, table, roles, invitations, revoking, requests, mixed>>

CloseInvite ==
    /\ invite.open
    /\ invite' = [invite EXCEPT !.open = FALSE]
    /\ UNCHANGED <<sessionClub, shown, table, roles, invitations, revoking, requests, mixed>>

Inviting == \E r \in requests : r.kind = "invite"

Invite ==
    /\ invite.open /\ invite.role # NoClub /\ ~Inviting
    /\ Asks([kind |-> "invite", of |-> invite.role, at |-> shown])
    /\ UNCHANGED <<invite, revoking>>

AskRevoke ==
    /\ shown # NoClub /\ invitations # NoClub
    /\ revoking' = invitations
    /\ UNCHANGED <<sessionClub, shown, table, roles, invitations, invite, requests, mixed>>

KeepInvitation ==
    /\ revoking # NoClub /\ revoking' = NoClub
    /\ UNCHANGED <<sessionClub, shown, table, roles, invitations, invite, requests, mixed>>

\* the click closes the dialog
Revoke ==
    /\ revoking # NoClub
    /\ revoking' = NoClub
    /\ Asks([kind |-> "revoke", of |-> revoking, at |-> shown])
    /\ UNCHANGED invite

\* RoleSubmenuItems: the roles are those of the organization shown, which the URL
\* names, and the member is one of the table
ChangeRole ==
    /\ shown # NoClub /\ table[shown] # NoClub
    /\ Asks([kind |-> "role", of |-> table[shown], at |-> shown])
    /\ UNCHANGED <<invite, revoking>>

-----------------------------------------------------------------------------
(* The server                                                              *)

Lands(r) == r \in requests /\ requests' = requests \ {r}

\* listMembers, the roles, listPendingInvitations, each of the session's
\* organization
ListArrives(r) ==
    /\ Lands(r) /\ r.kind \in {"members", "roles", "invitations"}
    /\ sessionClub # NoClub
    /\ table' = IF r.kind = "members" THEN [table EXCEPT ![r.of] = sessionClub] ELSE table
    /\ roles' = IF r.kind = "roles" THEN [roles EXCEPT ![r.of] = sessionClub] ELSE roles
    /\ invitations' = IF r.kind = "invitations" THEN sessionClub ELSE invitations
    /\ mixed' = mixed
         \cup When("roles", r.kind = "roles" /\ r.of # sessionClub)
         \cup When("invitations", r.kind = "invitations" /\ Foreign(sessionClub, shown))
    /\ UNCHANGED <<sessionClub, shown, invite, revoking>>

\* mutant: the invitation found by its id alone
FoundAnywhere(r, c) == TRUE

\* findRoleOrThrow, findMemberWithRole, revokeInvitation: id and organization
Found(r, c) == r.of = c

\* inviteMember and revokeInvitation take the organization from the session,
\* changeMemberRole from the URL
Where(r) == IF r.kind = "role" THEN r.at ELSE sessionClub

\* onSettled takes away whatever the dialog shows by now
Settles(r) == revoking' = IF r.kind = "revoke" THEN NoClub ELSE revoking

WouldAccept(r) ==
    /\ r.kind \in {"invite", "revoke", "role"}
    /\ Where(r) # NoClub /\ Found(r, Where(r))

WriteLands(r) ==
    /\ Lands(r) /\ WouldAccept(r)
    /\ invite' = IF r.kind = "invite" THEN [invite EXCEPT !.open = FALSE] ELSE invite
    /\ Settles(r)
    /\ UNCHANGED <<sessionClub, shown, table, roles, invitations, mixed>>

\* Refused, or not answered.  A refused list of roles or invitations is an empty
\* one, any other failure leaves what the cache had.
RequestFails(r, refused) ==
    /\ Lands(r) /\ Settles(r)
    /\ refused => r.kind \in {"roles", "invitations"}
    /\ roles' = IF r.kind = "roles" /\ refused THEN [roles EXCEPT ![r.of] = NoClub] ELSE roles
    /\ invitations' = IF r.kind = "invitations" /\ refused THEN NoClub ELSE invitations
    /\ UNCHANGED <<sessionClub, shown, table, invite, mixed>>

-----------------------------------------------------------------------------
MembersNext ==
    \/ \E c \in SomeClub : SessionMoves(c)
    \/ \E kind \in {"members", "roles", "invitations"} : FetchList(kind)
    \/ PageFollows \/ OpenInvite \/ ChooseRole \/ CloseInvite \/ Invite
    \/ AskRevoke \/ KeepInvitation \/ Revoke \/ ChangeRole
    \/ \E r \in requests :
          \/ ListArrives(r) \/ WriteLands(r)
          \/ \E refused \in BOOLEAN : RequestFails(r, refused)

MembersSpec == MembersInit /\ [][MembersNext]_membersVars

-----------------------------------------------------------------------------
(* Properties                                                              *)

\* The session may have moved on when a request is sent, and again when it lands.
\* What the server would still accept concerns the organization the page showed
\* at the click: a change of role always, an invitation made or revoked unless the
\* page had mixed two organizations before: a list that was fetched for one
\* arrived from another, the list of invitations, kept under no organization's
\* name, was left from another, or a dialog outlived the change of organization.
LandsWhereShown ==
    \A r \in requests :
        WouldAccept(r) =>
            \/ r.of = r.at /\ Where(r) = r.at
            \/ r.kind = "invite" /\ mixed \cap {"roles", "dialog"} # {}
            \/ r.kind = "revoke" /\ mixed \cap {"invitations", "dialog"} # {}

MembersInv == MembersTypeOK /\ LandsWhereShown
=============================================================================
