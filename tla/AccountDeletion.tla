-------------------------- MODULE AccountDeletion --------------------------
(***************************************************************************)
(* Soft deletion, reactivation and anonymization of user accounts and of   *)
(* organizations: the owner's endpoints (UserService, OrganizationService),*)
(* the superadmin's (AdminUsersLifecycleService, AdminOrganizations...),   *)
(* and the purge cron (PurgeService).  The events that follow a deletion    *)
(* only reach the API keys, which are not modelled here.                   *)
(*                                                                         *)
(* A request is a sequence of awaited statements.  The statements before   *)
(* the last read are actions of their own; the writes of a transaction and *)
(* its commit are one action, invisible to the others until then.  The     *)
(* confirmation e-mail and name are taken to be those of the row, which    *)
(* for an account means that it is not anonymized yet.                     *)
(***************************************************************************)
EXTENDS Naturals, FiniteSets, Sequences

CONSTANTS
    Users, Orgs,
    Requests,       \* HTTP requests that may be in flight at the same time
    Batch,          \* LIMIT of the two SELECTs of the cron
    Superadmin,     \* the actor of the admin endpoints, never their target
    DeleteIt,       \* the resolution {action: 'delete'} of an organization
    \* the inputs a run enumerates
    Kinds,          \* endpoints exercised
    Resolutions,    \* orgResolutions bodies of DELETE /api/users/me
    FirstOwner      \* the user who created each organization

AllKinds == {"delete", "reactivate", "purge", "adminDelete", "adminRestore",
             "orgDelete", "orgReactivate", "adminOrgDelete",
             "adminOrgRestore"}
Resolution == [org : Orgs, to : Users \cup {DeleteIt}]
Schedule == {"none", "pending", "due"}
Seats == {"none", "member", "owner"}

ASSUME AccountsAssumption ==
    /\ IsFiniteSet(Users) /\ IsFiniteSet(Orgs)
    /\ DeleteIt \notin Users /\ Superadmin \notin Users
    /\ Batch \in Nat \ {0}
ASSUME AccountInputsAssumption ==
    /\ Kinds \subseteq AllKinds
    /\ Resolutions \subseteq Seq(Resolution)
    /\ FirstOwner \in [Orgs -> Users]

VARIABLES
    schedule,       \* users.deleted_at and delete_scheduled_for: not deleted,
                    \* within the grace period, or past it
    anonymized,     \* users whose row was overwritten, credentials deleted
    session,        \* "stored" in the table, only a "cookie" copy, or "none"
    orgSchedule,    \* the same two columns of organizations
    orgAnonymized,
    member,         \* rows of members: the column role, or that there is none
    req,            \* what each request in flight has read
    cron,           \* the run of the purge cron in progress
    past            \* history: what happened to each account so far

orgVars == <<orgSchedule, orgAnonymized, member>>
userVars == <<schedule, anonymized, session>>
vars == <<schedule, anonymized, session, orgSchedule, orgAnonymized, member,
          req, cron, past>>

Request ==
    [kind : AllKinds, pc : {"ownership", "target", "select", "write"},
     user : Users \cup {Superadmin}, orgs : SUBSET Orgs, todo : Seq(Resolution), next : Nat]

Idle == [kind |-> "none"]

TypeOK ==
    /\ schedule \in [Users -> Schedule]
    /\ anonymized \in SUBSET Users
    /\ session \in [Users -> {"stored", "cookie", "none"}]
    /\ orgSchedule \in [Orgs -> Schedule]
    /\ orgAnonymized \in SUBSET Orgs
    /\ member \in [Orgs -> [Users -> Seats]]
    /\ req \in [Requests -> Request \cup {Idle}]
    /\ cron \in [pc : {"idle", "users"}, todo : SUBSET Users]
                \cup [pc : {"orgs"}, todo : SUBSET Orgs]
    /\ past \in [Users -> SUBSET {"deleted", "expired", "asked"}]

Init ==
    /\ schedule = [u \in Users |-> "none"]
    /\ anonymized = {}
    /\ session = [u \in Users |-> "none"]
    /\ orgSchedule = [o \in Orgs |-> "none"]
    /\ orgAnonymized = {}
    /\ member = [o \in Orgs |-> [u \in Users |->
                   IF u = FirstOwner[o] THEN "owner" ELSE "member"]]
    /\ req = [r \in Requests |-> Idle]
    /\ cron = [pc |-> "idle", todo |-> {}]
    /\ past = [u \in Users |-> {}]

-----------------------------------------------------------------------------
(* What a statement of the handlers sees. *)

Deleted(u) == schedule[u] # "none"          \* users.deleted_at IS NOT NULL
OrgDeleted(o) == orgSchedule[o] # "none"
Owns(u, o) == member[o][u] = "owner"

\* a request reaches a handler with a session, stored or cached in a cookie
\* (cookieCache), and outside the allow-list only if its user is not deleted
Authenticated(u) == session[u] # "none"
Admitted(u) == Authenticated(u) /\ ~Deleted(u)

At(r, kind, pc) == req[r] # Idle /\ req[r].kind = kind /\ req[r].pc = pc

Begin(r, kind, pc, u, orgs, todo) ==
    /\ kind \in Kinds
    /\ req[r] = Idle
    /\ req' = [req EXCEPT ![r] = [kind |-> kind, pc |-> pc, user |-> u,
                                  orgs |-> orgs, todo |-> todo, next |-> 1]]
    /\ UNCHANGED <<userVars, orgVars, cron>>

Goto(r, pc) == req' = [req EXCEPT ![r].pc = pc]
Finish(r) == req' = [req EXCEPT ![r] = Idle]

\* a statement that only reads: go on, or answer with an error
Check(r, ok, pc) ==
    /\ IF ok THEN Goto(r, pc) ELSE Finish(r)
    /\ UNCHANGED <<userVars, orgVars, cron, past>>

Remember(u, what) == past' = [past EXCEPT ![u] = @ \cup {what}]

\* DELETE FROM sessions: the browser may keep a signed copy for five minutes
Logout(u) == [session EXCEPT ![u] = IF @ = "stored" THEN "cookie" ELSE @]

-----------------------------------------------------------------------------
(* External: better-auth, and the clock.                                   *)

\* better-auth signs in deleted users too, with the credentials they have
SignIn(u) ==
    /\ u \notin anonymized
    /\ session[u] # "stored"
    /\ session' = [session EXCEPT ![u] = "stored"]
    /\ UNCHANGED <<schedule, anonymized, orgVars, req, cron, past>>

CookieExpires(u) ==
    /\ session[u] = "cookie"
    /\ session' = [session EXCEPT ![u] = "none"]
    /\ UNCHANGED <<schedule, anonymized, orgVars, req, cron, past>>

\* deleteScheduledFor passes
Expire(u) ==
    /\ schedule[u] = "pending"
    /\ schedule' = [schedule EXCEPT ![u] = "due"]
    /\ Remember(u, "expired")
    /\ UNCHANGED <<anonymized, session, orgVars, req, cron>>

OrgExpire(o) ==
    /\ orgSchedule[o] = "pending"
    /\ orgSchedule' = [orgSchedule EXCEPT ![o] = "due"]
    /\ UNCHANGED <<userVars, orgAnonymized, member, req, cron, past>>

-----------------------------------------------------------------------------
(* DELETE /api/users/me *)

DeleteValidate(r, u, todo) ==
    /\ Admitted(u) /\ u \notin anonymized
    /\ Begin(r, "delete", IF todo = <<>> THEN "write" ELSE "ownership", u, {},
             todo)
    /\ UNCHANGED past

Current(r) == req[r].todo[req[r].next]

\* the loop over orgResolutions: the next one, or the writes
NextResolution(r) ==
    LET more == req[r].next < Len(req[r].todo) IN
    /\ req' = [req EXCEPT ![r].next = @ + 1,
                          ![r].pc = IF more THEN "ownership" ELSE "write"]
    /\ UNCHANGED <<userVars, orgVars, cron, past>>

DeleteVerifyOwnership(r) ==
    /\ At(r, "delete", "ownership")
    /\ IF Owns(req[r].user, Current(r).org) /\ Current(r).to = DeleteIt
       THEN NextResolution(r)
       ELSE Check(r, Owns(req[r].user, Current(r).org), "target")

DeleteVerifyTarget(r) ==
    /\ At(r, "delete", "target")
    /\ IF member[Current(r).org][Current(r).to] # "none"
       THEN NextResolution(r) ELSE Check(r, FALSE, "write")

Handed(r, o) ==     \* users this request makes owners of o
    {req[r].todo[i].to : i \in {j \in 1..Len(req[r].todo) :
        req[r].todo[j].org = o /\ req[r].todo[j].to # DeleteIt}}

Dropped(r) ==       \* organizations this request deletes
    {req[r].todo[i].org : i \in {j \in 1..Len(req[r].todo) :
        req[r].todo[j].to = DeleteIt}}

\* the writes of the transaction; transferOrgOwnership updates the row of the
\* target if there still is one, softDeleteUser does not look at deleted_at
DeleteCommit(r) ==
    LET u == req[r].user IN
    /\ At(r, "delete", "write")
    /\ member' = [o \in Orgs |-> [v \in Users |->
                    IF v \in Handed(r, o) /\ member[o][v] # "none" THEN "owner"
                    ELSE member[o][v]]]
    /\ orgSchedule' = [o \in Orgs |-> IF o \in Dropped(r) THEN "pending"
                                      ELSE orgSchedule[o]]
    /\ schedule' = [schedule EXCEPT ![u] = "pending"]
    /\ session' = Logout(u)
    /\ Remember(u, "deleted")
    /\ Finish(r)
    /\ UNCHANGED <<anonymized, orgAnonymized, cron>>

-----------------------------------------------------------------------------
(* POST /api/users/me/reactivate and /api/users/me/purge *)

ReactivateArrive(r, u) ==
    Authenticated(u) /\ Begin(r, "reactivate", "write", u, {}, <<>>)
                     /\ UNCHANGED past

\* reactivateUser reads nothing first: it clears the columns of any row
ReactivateWrite(r) ==
    /\ At(r, "reactivate", "write")
    /\ schedule' = [schedule EXCEPT ![req[r].user] = "none"]
    /\ Finish(r)
    /\ UNCHANGED <<anonymized, session, orgVars, cron, past>>

\* mutant: an account that is not deleted may be purged
PurgeValidateAny(r, u) ==
    /\ Authenticated(u) /\ u \notin anonymized
    /\ Begin(r, "purge", "select", u, {}, <<>>)
    /\ Remember(u, "asked")

PurgeValidate(r, u) ==
    /\ Authenticated(u) /\ u \notin anonymized /\ Deleted(u)
    /\ Begin(r, "purge", "select", u, {}, <<>>)
    /\ Remember(u, "asked")

\* purgeOwnedOrganizations: the owned organizations that are deleted
PurgeSelectOwned(r) ==
    /\ At(r, "purge", "select")
    /\ req' = [req EXCEPT ![r].pc = "write",
                          ![r].orgs = {o \in Orgs : /\ Owns(req[r].user, o)
                                                     /\ OrgDeleted(o)}]
    /\ UNCHANGED <<userVars, orgVars, cron, past>>

\* anonymizeUserRecords, the organizations selected, all memberships left
PurgeCommit(r) ==
    LET u == req[r].user  gone == req[r].orgs IN
    /\ At(r, "purge", "write")
    /\ anonymized' = anonymized \cup {u}
    /\ session' = Logout(u)
    /\ orgAnonymized' = orgAnonymized \cup gone
    /\ member' = [o \in Orgs |-> [v \in Users |->
                    IF o \in gone \/ v = u THEN "none" ELSE member[o][v]]]
    /\ Finish(r)
    /\ UNCHANGED <<schedule, orgSchedule, cron, past>>

-----------------------------------------------------------------------------
(* DELETE and POST .../restore under /api/admin/users/:id: the snapshot of *)
(* the row decides, a second statement writes.  No session is deleted, no  *)
(* event emitted.                                                          *)

AdminDeleteFind(r, u) ==
    ~Deleted(u) /\ Begin(r, "adminDelete", "write", u, {}, <<>>)
                /\ UNCHANGED past

AdminDeleteWrite(r) ==
    LET u == req[r].user IN
    /\ At(r, "adminDelete", "write")
    /\ schedule' = [schedule EXCEPT ![u] = "pending"]
    /\ Remember(u, "deleted")
    /\ Finish(r)
    /\ UNCHANGED <<anonymized, session, orgVars, cron>>

AdminRestoreFind(r, u) ==
    Deleted(u) /\ Begin(r, "adminRestore", "write", u, {}, <<>>)
               /\ UNCHANGED past

AdminRestoreWrite(r) ==
    /\ At(r, "adminRestore", "write")
    /\ schedule' = [schedule EXCEPT ![req[r].user] = "none"]
    /\ Finish(r)
    /\ UNCHANGED <<anonymized, session, orgVars, cron, past>>

-----------------------------------------------------------------------------
(* Organizations: the owner's endpoints and the superadmin's.              *)

TheOrg(r) == CHOOSE o \in req[r].orgs : TRUE   \* the only one of the request

OrgDeleteFind(r, u, o) ==
    /\ Admitted(u) /\ ~OrgDeleted(o)
    /\ Begin(r, "orgDelete", "ownership", u, {o}, <<>>)
    /\ UNCHANGED past

OrgReactivateFind(r, u, o) ==
    /\ Admitted(u) /\ OrgDeleted(o)
    /\ Begin(r, "orgReactivate", "ownership", u, {o}, <<>>)
    /\ UNCHANGED past

OrgCheckOwnership(r) ==
    /\ At(r, "orgDelete", "ownership") \/ At(r, "orgReactivate", "ownership")
    /\ Check(r, Owns(req[r].user, TheOrg(r)), "write")

AdminOrgDeleteFind(r, o) ==
    ~OrgDeleted(o) /\ Begin(r, "adminOrgDelete", "write", Superadmin, {o}, <<>>)
                   /\ UNCHANGED past

AdminOrgRestoreFind(r, o) ==
    OrgDeleted(o) /\ Begin(r, "adminOrgRestore", "write", Superadmin, {o}, <<>>)
                  /\ UNCHANGED past

OrgDeleteWrite(r) ==
    /\ At(r, "orgDelete", "write") \/ At(r, "adminOrgDelete", "write")
    /\ Finish(r)
    /\ orgSchedule' = [orgSchedule EXCEPT ![TheOrg(r)] = "pending"]
    /\ UNCHANGED <<userVars, orgAnonymized, member, cron, past>>

OrgReactivateWrite(r) ==
    /\ At(r, "orgReactivate", "write") \/ At(r, "adminOrgRestore", "write")
    /\ orgSchedule' = [orgSchedule EXCEPT ![TheOrg(r)] = "none"]
    /\ Finish(r)
    /\ UNCHANGED <<userVars, orgAnonymized, member, cron, past>>

-----------------------------------------------------------------------------
(* POST /api/internal/purge: select users, one transaction each; then      *)
(* select organizations, one transaction each.                             *)

\* a SELECT .. LIMIT without ORDER BY returns any Batch of the rows
Picked(rows, picked) ==
    /\ picked \subseteq rows
    /\ Cardinality(picked) = IF Cardinality(rows) < Batch
                             THEN Cardinality(rows) ELSE Batch

\* mutant: the loop stops at a row that is already anonymized
CronSelectUsersStop ==
    /\ cron.pc = "idle"
    /\ \E picked \in SUBSET Users :
         /\ Picked({u \in Users : schedule[u] = "due"}, picked)
         /\ cron' = [pc |-> "users",
                     todo |-> IF picked \cap anonymized = {} THEN picked ELSE {}]
    /\ UNCHANGED <<userVars, orgVars, req, past>>

\* rows already anonymized are skipped by the e-mail of the snapshot
CronSelectUsers ==
    /\ cron.pc = "idle"
    /\ \E picked \in SUBSET Users :
         /\ Picked({u \in Users : schedule[u] = "due"}, picked)
         /\ cron' = [pc |-> "users", todo |-> picked \ anonymized]
    /\ UNCHANGED <<userVars, orgVars, req, past>>

CronAnonymize(u) ==
    /\ cron.pc = "users" /\ u \in cron.todo
    /\ anonymized' = anonymized \cup {u}
    /\ session' = Logout(u)
    /\ cron' = [cron EXCEPT !.todo = @ \ {u}]
    /\ UNCHANGED <<schedule, orgVars, req, past>>

\* mutant: the run ends here when no account is due
CronSelectOrgsAfterUsers ==
    /\ cron.pc = "users" /\ cron.todo = {}
    /\ \E u \in Users : schedule[u] = "due"
    /\ \E picked \in SUBSET Orgs :
         /\ Picked({o \in Orgs : orgSchedule[o] = "due"}, picked)
         /\ cron' = [pc |-> "orgs", todo |-> picked \ orgAnonymized]
    /\ UNCHANGED <<userVars, orgVars, req, past>>

CronSelectOrgs ==
    /\ cron.pc = "users" /\ cron.todo = {}
    /\ \E picked \in SUBSET Orgs :
         /\ Picked({o \in Orgs : orgSchedule[o] = "due"}, picked)
         /\ cron' = [pc |-> "orgs", todo |-> picked \ orgAnonymized]
    /\ UNCHANGED <<userVars, orgVars, req, past>>

CronAnonymizeOrg(o) ==
    /\ cron.pc = "orgs" /\ o \in cron.todo
    /\ orgAnonymized' = orgAnonymized \cup {o}
    /\ member' = [member EXCEPT ![o] = [u \in Users |-> "none"]]
    /\ cron' = [cron EXCEPT !.todo = @ \ {o}]
    /\ UNCHANGED <<userVars, orgSchedule, req, past>>

\* the run is over, or a transaction throws, or the platform ends the process
CronEnd ==
    /\ cron.pc # "idle"
    /\ cron' = [pc |-> "idle", todo |-> {}]
    /\ UNCHANGED <<userVars, orgVars, req, past>>

-----------------------------------------------------------------------------
\* The process of a request ends: its transaction is rolled back.
ProcessEnds(r) ==
    /\ req[r] # Idle
    /\ Finish(r)
    /\ UNCHANGED <<userVars, orgVars, cron, past>>

Arrive(r) ==
    \/ \E u \in Users :
         \/ \E todo \in Resolutions : DeleteValidate(r, u, todo)
         \/ ReactivateArrive(r, u)
         \/ PurgeValidate(r, u)
         \/ AdminDeleteFind(r, u)
         \/ AdminRestoreFind(r, u)
         \/ \E o \in Orgs : OrgDeleteFind(r, u, o) \/ OrgReactivateFind(r, u, o)
    \/ \E o \in Orgs : AdminOrgDeleteFind(r, o) \/ AdminOrgRestoreFind(r, o)

Proceed(r) ==
    \/ DeleteVerifyOwnership(r)
    \/ DeleteVerifyTarget(r)
    \/ DeleteCommit(r)
    \/ ReactivateWrite(r)
    \/ PurgeSelectOwned(r)
    \/ PurgeCommit(r)
    \/ AdminDeleteWrite(r)
    \/ AdminRestoreWrite(r)
    \/ OrgCheckOwnership(r)
    \/ OrgDeleteWrite(r)
    \/ OrgReactivateWrite(r)

Cron ==
    \/ CronSelectUsers
    \/ \E u \in Users : CronAnonymize(u)
    \/ CronSelectOrgs
    \/ \E o \in Orgs : CronAnonymizeOrg(o)
    \/ CronEnd

Next ==
    \/ \E u \in Users : SignIn(u) \/ CookieExpires(u) \/ Expire(u)
    \/ \E o \in Orgs : OrgExpire(o)
    \/ \E r \in Requests : Arrive(r) \/ Proceed(r) \/ ProcessEnds(r)
    \/ Cron

Spec == Init /\ [][Next]_vars

\* The scheduler calls the cron again and again, every run ends, and no run
\* after the other is cut off just before the same record.
Fairness ==
    /\ WF_vars(CronSelectUsers) /\ WF_vars(CronEnd) /\ SF_vars(CronSelectOrgs)
    /\ \A u \in Users : SF_vars(CronAnonymize(u))
    /\ \A o \in Orgs : SF_vars(CronAnonymizeOrg(o))

FairSpec == Spec /\ Fairness

-----------------------------------------------------------------------------
(* Properties *)

\* The cron and the owner's purge overwrite an account only when its grace
\* period ran out at some time, or when it was deleted and its owner asked for
\* the purge: never an account that nobody deleted, whatever overlaps.
AnonymizedForCause ==
    \A u \in anonymized :
        /\ "deleted" \in past[u]
        /\ past[u] \cap {"expired", "asked"} # {}

\* "Must transfer ownership before deletion" (of a sole owner): when a deletion
\* commits, whom it handed an organization to owns it.  The target is verified by
\* one statement and written by another, which matches no row when the target
\* purged its own account in between.
HandoversArrive ==
    [][\A r \in Requests : DeleteCommit(r) =>
         \A o \in Orgs : \A u \in Handed(r, o) : member'[o][u] = "owner"]_vars

\* Every account whose grace period is over is anonymized in the end, unless
\* its deletion is taken back or starts again.
EveryDueAccountAnonymized ==
    \A u \in Users : schedule[u] = "due" ~> (u \in anonymized \/ schedule[u] # "due")

\* The same of organizations: the users that come first in every run of the
\* cron do not keep the organizations from their turn.
EveryDueOrganizationAnonymized ==
    \A o \in Orgs :
        orgSchedule[o] = "due" ~> (o \in orgAnonymized \/ orgSchedule[o] # "due")

\* "Only soft-deleted users can purge", and "Reactivation clears deletedAt and
\* restores account": an account is not overwritten while it is active.
OnlyDeletedAnonymized ==
    [][\A u \in anonymized' \ anonymized : Deleted(u)]_vars

=============================================================================
