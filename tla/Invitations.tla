---------------------------- MODULE Invitations ----------------------------
(***************************************************************************)
(* The invitations of one organization: AdminInvitationsService, the       *)
(* invited people, and whatever else writes their rows.  There is one row  *)
(* per address, whatever its status (invitations_org_email_unique), so an  *)
(* address that was invited before gets its old row back.  Every statement *)
(* is a step of its own; the service uses no transaction.                  *)
(*                                                                         *)
(* Acceptance is better-auth's.  Expiry by expires_at is left out: the     *)
(* service does not look at it, and to better-auth a row that ran out is   *)
(* one that cannot be accepted, which a recipient who never accepts is     *)
(* too.  So are roles (see OrgRoles) and audit records.                    *)
(***************************************************************************)
EXTENDS Naturals

CONSTANTS
    Emails,     \* addresses
    Actors,     \* requests in flight at the same time
    MaxId       \* bound: rows that are inserted

ASSUME InviteAssumption == MaxId \in Nat

VARIABLES
    invitation, \* the row of each address; id 0: there is none
    member,     \* addresses of members
    lastId,     \* of the rows inserted so far
    task,       \* requests in flight
    revoked,    \* history: ids that revokeInvitation deleted
    crossed     \* history: addresses that joined during an invitation

inviteVars == <<invitation, member, lastId, task, revoked, crossed>>

Row == [id : 0..MaxId,
        status : {"none", "pending", "accepted", "rejected", "expired"}]

NoRow == [id |-> 0, status |-> "none"]

Task ==
    [pc : {"idle", "member", "pending", "insert", "existing", "reuse",
           "delete", "update", "join"},
     email : Emails,
     id : 0..MaxId]     \* of the row that was read

InviteInit ==
    /\ invitation = [e \in Emails |-> NoRow]
    /\ member = {}
    /\ lastId = 0
    /\ task \in [Actors -> {[pc |-> "idle", email |-> e, id |-> 0] : e \in Emails}]
    /\ revoked = {}
    /\ crossed = {}

-----------------------------------------------------------------------------
At(a, pc) == task[a].pc = pc
GoTo(a, pc) == task' = [task EXCEPT ![a].pc = pc]
Start(a, pc, e, id) == task' = [task EXCEPT ![a] = [pc |-> pc, email |-> e, id |-> id]]
Return(a) == Start(a, "idle", task[a].email, 0)

Mine(a) == invitation[task[a].email]
Set(a, row) == invitation' = [invitation EXCEPT ![task[a].email] = row]

Rows == <<invitation, member, lastId, revoked, crossed>>

(* POST /api/admin/invitations *)

\* The role exists; otherwise nothing happens.
FindRole(a, e) ==
    /\ At(a, "idle")
    /\ Start(a, "member", e, 0)
    /\ UNCHANGED Rows

EnsureNoExistingMembership(a) ==
    /\ At(a, "member")
    /\ IF task[a].email \in member THEN Return(a) ELSE GoTo(a, "pending")
    /\ UNCHANGED Rows

EnsureNoPendingInvitation(a) ==
    /\ At(a, "pending")
    /\ IF Mine(a).status = "pending" THEN Return(a) ELSE GoTo(a, "insert")
    /\ UNCHANGED Rows

\* A new row.
InsertInvitation(a) ==
    /\ At(a, "insert")
    /\ Mine(a) = NoRow
    /\ lastId < MaxId
    /\ lastId' = lastId + 1
    /\ Set(a, [id |-> lastId + 1, status |-> "pending"])
    /\ Return(a)
    /\ UNCHANGED <<member, revoked, crossed>>

\* The unique constraint.  The handler knows it by code and constraint_name of
\* the error.  drizzle-orm hands the driver's error over as the cause of its
\* own since 0.44, and 0.45.1 is what bun.lock names; then it is not known and
\* thrown again.  Both are followed here.
InsertConflict(a) ==
    /\ At(a, "insert")
    /\ Mine(a) # NoRow
    /\ \/ Return(a)
       \/ GoTo(a, "existing")
    /\ UNCHANGED Rows

FindExisting(a) ==
    /\ At(a, "existing")
    /\ IF Mine(a).status \in {"none", "pending"}
         THEN Return(a)
         ELSE task' = [task EXCEPT ![a].pc = "reuse", ![a].id = Mine(a).id]
    /\ UNCHANGED Rows

\* Plausible bug in the next definition: the row is written whether it is
\* still there or not.
ReuseInvitationUpsert(a) ==
    /\ At(a, "reuse")
    /\ Set(a, [id |-> task[a].id, status |-> "pending"])
    /\ Return(a)
    /\ UNCHANGED <<member, lastId, revoked, crossed>>

\* UPDATE ... WHERE id, whatever the status is by now
ReuseInvitation(a) ==
    /\ At(a, "reuse")
    /\ IF Mine(a).id = task[a].id
         THEN Set(a, [id |-> task[a].id, status |-> "pending"])
         ELSE UNCHANGED invitation
    /\ Return(a)
    /\ UNCHANGED <<member, lastId, revoked, crossed>>

(* DELETE /api/admin/invitations/:id *)
FindInvitation(a, e) ==
    /\ At(a, "idle")
    /\ invitation[e] # NoRow
    /\ Start(a, "delete", e, invitation[e].id)
    /\ UNCHANGED Rows

\* DELETE ... WHERE id, whatever the status is
RevokeInvitation(a) ==
    /\ At(a, "delete")
    /\ IF Mine(a).id = task[a].id THEN Set(a, NoRow) ELSE UNCHANGED invitation
    /\ revoked' = revoked \cup {task[a].id}
    /\ Return(a)
    /\ UNCHANGED <<member, lastId, crossed>>

(* better-auth, and what other services do to the rows *)

\* The recipient accepts: the invitation is looked up ...
AcceptFind(a, e) ==
    /\ At(a, "idle")
    /\ invitation[e].status = "pending"
    /\ Start(a, "update", e, invitation[e].id)
    /\ UNCHANGED Rows

\* ... set to accepted by its id, which fails when it is gone ...
AcceptUpdate(a) ==
    /\ At(a, "update")
    /\ IF Mine(a).id = task[a].id
         THEN /\ Set(a, [id |-> task[a].id, status |-> "accepted"])
              /\ GoTo(a, "join")
         ELSE /\ UNCHANGED invitation
              /\ Return(a)
    /\ UNCHANGED <<member, lastId, revoked, crossed>>

\* Requests for an address that found it not to be a member.
Inviting(e) == \E a \in Actors : /\ task[a].email = e
                                 /\ task[a].pc \in {"pending", "insert", "existing", "reuse"}

\* ... and the membership inserted.
AcceptJoin(a) ==
    /\ At(a, "join")
    /\ member' = member \cup {task[a].email}
    /\ crossed' = IF task[a].email \notin member
                     /\ (Inviting(task[a].email) \/ Mine(a).status = "pending")
                    THEN crossed \cup {task[a].email} ELSE crossed
    /\ Return(a)
    /\ UNCHANGED <<invitation, lastId, revoked>>

\* The recipient declines.
Reject(e) ==
    /\ invitation[e].status = "pending"
    /\ invitation' = [invitation EXCEPT ![e].status = "rejected"]
    /\ UNCHANGED <<member, lastId, task, revoked, crossed>>

\* The organization is deleted.
ExpireOrgInvitations ==
    /\ invitation' = [e \in Emails |->
         IF invitation[e].status = "pending"
           THEN [invitation[e] EXCEPT !.status = "expired"] ELSE invitation[e]]
    /\ UNCHANGED <<member, lastId, task, revoked, crossed>>

\* The account of the address or of the inviter is purged.
PurgeInvitations(e) ==
    /\ invitation' = [invitation EXCEPT ![e] = NoRow]
    /\ UNCHANGED <<member, lastId, task, revoked, crossed>>

\* The member leaves or is removed.
Leave(e) ==
    /\ e \in member
    /\ member' = member \ {e}
    /\ crossed' = crossed \ {e}
    /\ UNCHANGED <<invitation, lastId, task, revoked>>

InviteNext ==
    \/ \E a \in Actors :
         \/ \E e \in Emails : FindRole(a, e) \/ FindInvitation(a, e) \/ AcceptFind(a, e)
         \/ EnsureNoExistingMembership(a) \/ EnsureNoPendingInvitation(a)
         \/ InsertInvitation(a) \/ InsertConflict(a) \/ FindExisting(a)
         \/ ReuseInvitation(a) \/ RevokeInvitation(a)
         \/ AcceptUpdate(a) \/ AcceptJoin(a)
    \/ \E e \in Emails : Reject(e) \/ PurgeInvitations(e) \/ Leave(e)
    \/ ExpireOrgInvitations

InviteSpec == InviteInit /\ [][InviteNext]_inviteVars

-----------------------------------------------------------------------------
InviteTypeOK ==
    /\ invitation \in [Emails -> Row]
    /\ member \subseteq Emails
    /\ lastId \in 0..MaxId
    /\ task \in [Actors -> Task]
    /\ revoked \subseteq 1..lastId
    /\ crossed \subseteq member

\* Ids are handed out once: nobody knows one that was not, and no two addresses
\* have the same.  So the row with the id a request read is that of its address.
IdsHandedOut ==
    /\ \A e, f \in Emails : invitation[e].id = invitation[f].id /\ e # f
                             => invitation[e].id = 0
    /\ \A e \in Emails : /\ invitation[e].id <= lastId
                         /\ (invitation[e].id = 0) <=> (invitation[e].status = "none")
    /\ \A a \in Actors : /\ task[a].id <= lastId
                         /\ At(a, "reuse") \/ At(a, "delete") \/ At(a, "update")
                              => task[a].id # 0
                         /\ \A e \in Emails :
                              invitation[e].id = task[a].id /\ e # task[a].email
                                => task[a].id = 0

\* revokeInvitation is final for the invitation it names: nothing that read the
\* row before, re-invitation or acceptance, brings it back.
RevokedForGood ==
    /\ IdsHandedOut
    /\ \A e \in Emails : invitation[e].id \notin revoked

\* A member has a pending invitation only when they joined while a request to
\* invite them was past its membership check, or while their own acceptance had
\* been overtaken by one.
MemberInvitedForCause ==
    \A e \in member : (invitation[e].status = "pending" \/ Inviting(e)) => e \in crossed

InviteInv == InviteTypeOK /\ RevokedForGood /\ MemberInvitedForCause
=============================================================================
