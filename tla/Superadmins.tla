----------------------------- MODULE Superadmins -----------------------------
(***************************************************************************)
(* Platform administrators: role, ban and soft deletion of users by the    *)
(* endpoints under /api/admin/users, next to the users' own deletion.      *)
(*                                                                         *)
(* updateUser and banUser run in SERIALIZABLE transactions: all reads come *)
(* from one snapshot (an action), the write and the commit are another.    *)
(* PostgreSQL refuses the commit when the row written was changed since    *)
(* the snapshot, and when a serializable transaction that committed        *)
(* meanwhile wrote something this one read and read the row this one       *)
(* writes.  Longer cycles, which it refuses as well, are allowed here, so  *)
(* the model has every history of the database and some more.  deleteUser, *)
(* unbanUser, restoreUser and the users' own endpoints are plain           *)
(* statements: they take part in the first check only.                     *)
(*                                                                         *)
(* Every user may send every request: a session keeps its role for five    *)
(* minutes (cookieCache), so the role check of the guard excludes nobody   *)
(* for certain.  For the same reason deleting the sessions after a change  *)
(* of one's own role is left out.                                          *)
(***************************************************************************)
EXTENDS FiniteSets

CONSTANTS
    Users,
    AdminCalls,     \* HTTP requests that may be in flight at the same time
    NoUser

ASSUME UsersAssumption == IsFiniteSet(Users) /\ NoUser \notin Users

VARIABLES
    superadmins,    \* users whose role is 'superadmin'
    banned,
    deleted,        \* users with deleted_at
    change          \* requests in flight

adminVars == <<superadmins, banned, deleted, change>>
table == <<superadmins, banned, deleted>>

RoleChange == {"superadmin", "user", "same"}    \* "same": no role in the body
Serializable == {"selfRole", "update", "ban"}

Request ==
    [kind : Serializable \cup {"delete", "none"},
     user : Users \cup {NoUser},
     to : RoleChange,
     doomed : BOOLEAN]          \* PostgreSQL will refuse the commit

NoChange == [kind |-> "none", user |-> NoUser, to |-> "same", doomed |-> FALSE]

AdminTypeOK ==
    /\ superadmins \subseteq Users
    /\ banned \subseteq Users
    /\ deleted \subseteq Users
    /\ change \in [AdminCalls -> Request]
    /\ \A r \in AdminCalls : change[r].kind # "none" => change[r].user \in Users

AdminInit ==
    /\ superadmins \in (SUBSET Users) \ {{}}
    /\ banned = {}
    /\ deleted = {}
    /\ change = [r \in AdminCalls |-> NoChange]

-----------------------------------------------------------------------------
\* a superadmin that is neither banned nor deleted
Active == (superadmins \ banned) \ deleted

IsLastActiveSuperadmin(u) == Active \ {u} = {}

\* rows a transaction reads: isLastActiveSuperadmin scans the table
Reads(q) == IF q.kind = "selfRole" THEN Users ELSE {q.user}

\* mutant: REPEATABLE READ, which only notices a write to the same row
DisturbsSameRow(w, q) == q.kind \in Serializable /\ w.user = q.user

\* mutant: READ COMMITTED, which waits for the other writer and goes on
DisturbsNothing(w, q) == FALSE

\* the commit of w dooms q, which has its snapshot already
Disturbs(w, q) ==
    /\ q.kind \in Serializable
    /\ \/ w.user = q.user
       \/ /\ w.kind \in Serializable
          /\ w.user \in Reads(q) /\ q.user \in Reads(w)

Doom(w, q) == [q EXCEPT !.doomed = @ \/ Disturbs(w, q)]

\* request r ends with the write of its user's row
Committed(r) ==
    change' = [q \in AdminCalls |->
                 IF q = r THEN NoChange ELSE Doom(change[r], change[q])]

\* a single plain statement writes the row of u
PlainWrite(u) ==
    change' = [q \in AdminCalls |->
                 Doom([NoChange EXCEPT !.kind = "delete", !.user = u], change[q])]

BeginChange(r, kind, u, to) ==
    /\ change[r] = NoChange
    /\ change' = [change EXCEPT ![r] = [kind |-> kind, user |-> u, to |-> to,
                                        doomed |-> FALSE]]
    /\ UNCHANGED table

MayCommit(r, kind) == change[r].kind = kind /\ ~change[r].doomed

-----------------------------------------------------------------------------
(* PATCH /api/admin/users/:id                                              *)

\* one's own role: a superadmin, and not the last active one
SelfRoleBegin(r, u, to) ==
    /\ to # "same"
    /\ ~IsLastActiveSuperadmin(u) /\ u \in superadmins
    /\ BeginChange(r, "selfRole", u, to)

\* somebody else, or oneself without a role: no superadmin is demoted
UpdateBegin(r, u, to) ==
    /\ ~(to = "user" /\ u \in superadmins)
    /\ BeginChange(r, "update", u, to)

WriteRole(r) ==
    superadmins' = IF change[r].to = "superadmin"
                   THEN superadmins \cup {change[r].user}
                   ELSE IF change[r].to = "user"
                        THEN superadmins \ {change[r].user}
                        ELSE superadmins

RoleCommit(r) ==
    /\ MayCommit(r, "selfRole") \/ MayCommit(r, "update")
    /\ WriteRole(r)
    /\ Committed(r)
    /\ UNCHANGED <<banned, deleted>>

(* POST .../ban and .../unban *)

BanBegin(r, u) ==
    /\ u \notin superadmins /\ u \notin banned
    /\ BeginChange(r, "ban", u, "same")

BanCommit(r) ==
    /\ MayCommit(r, "ban")
    /\ banned' = banned \cup {change[r].user}
    /\ Committed(r)
    /\ UNCHANGED <<superadmins, deleted>>

\* no condition between the read and the write
Unban(u) ==
    /\ banned' = banned \ {u}
    /\ PlainWrite(u)
    /\ UNCHANGED <<superadmins, deleted>>

(* DELETE /api/admin/users/:id and POST .../restore *)

DeleteFind(r, u) ==
    /\ u \notin superadmins /\ u \notin deleted
    /\ BeginChange(r, "delete", u, "same")

DeleteWrite(r) ==
    /\ MayCommit(r, "delete")
    /\ deleted' = deleted \cup {change[r].user}
    /\ Committed(r)
    /\ UNCHANGED <<superadmins, banned>>

\* a write that finds the row not deleted changes nothing
Restore(u) ==
    /\ u \in deleted
    /\ deleted' = deleted \ {u}
    /\ PlainWrite(u)
    /\ UNCHANGED <<superadmins, banned>>

\* DELETE /api/users/me, which asks for nobody's role
OwnDelete(u) ==
    /\ deleted' = deleted \cup {u}
    /\ PlainWrite(u)
    /\ UNCHANGED <<superadmins, banned>>

\* SQLSTATE 40001, or the end of the process
Fail(r) ==
    /\ change[r] # NoChange
    /\ change' = [change EXCEPT ![r] = NoChange]
    /\ UNCHANGED table

-----------------------------------------------------------------------------
AdminNext ==
    \/ \E r \in AdminCalls :
         \/ \E u \in Users :
              \/ \E to \in RoleChange : SelfRoleBegin(r, u, to)
              \/ \E to \in RoleChange : UpdateBegin(r, u, to)
              \/ BanBegin(r, u)
              \/ DeleteFind(r, u)
         \/ RoleCommit(r)
         \/ BanCommit(r)
         \/ DeleteWrite(r)
         \/ Fail(r)
    \/ \E u \in Users : Unban(u) \/ Restore(u) \/ OwnDelete(u)

AdminSpec == AdminInit /\ [][AdminNext]_adminVars

-----------------------------------------------------------------------------
(* Properties *)

\* isLastActiveSuperadmin with the isolation of its transaction: whatever
\* overlaps, somebody is left who is superadmin and not banned.  (The account
\* may be soft-deleted: deletions are plain statements, see README.)
SuperadminRemains == superadmins \ banned # {}

\* SuperadminProtectionException: only by changing one's own role does anybody
\* cease to be superadmin, and no superadmin is banned, not even one who was
\* promoted after the other request had looked.
SuperadminProtected ==
    [][\A u \in superadmins :
         /\ u \notin superadmins' =>
              \E r \in AdminCalls : change[r].kind = "selfRole" /\ change[r].user = u
         /\ u \in banned' => u \in banned]_adminVars

\* What a transaction that may still commit knows about its row and, for a
\* change of one's own role, about the other superadmins.
SnapshotHolds(q) ==
    /\ q.kind = "selfRole" => (superadmins \ banned) \ {q.user} # {}
    /\ q.kind = "update" /\ q.to = "user" => q.user \notin superadmins
    /\ q.kind = "ban" => q.user \notin superadmins

\* The inductive invariant behind both.
SuperadminInv ==
    /\ AdminTypeOK
    /\ SuperadminRemains
    /\ \A r \in AdminCalls : ~change[r].doomed => SnapshotHolds(change[r])
=============================================================================
