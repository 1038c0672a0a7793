------------------------------ MODULE OrgRoles ------------------------------
(***************************************************************************)
(* Roles and memberships of ONE organization (tenant): the tables roles,   *)
(* role_permissions and members, the role-seeding listener and the seven   *)
(* endpoints that write them.  Every statement a handler awaits before its *)
(* last write is an action; what follows the last read (the writes of the  *)
(* transaction and its commit) is one action, because under READ COMMITTED *)
(* nothing of it is visible to the other requests before the commit.       *)
(*                                                                         *)
(* Row ids are never reused: a member that was removed stays "removed" and *)
(* a role that was deleted keeps the slug Deleted, so a request holding a  *)
(* stale id finds no row, as in the database.                              *)
(***************************************************************************)
EXTENDS Naturals, FiniteSets

CONSTANTS
    Members,        \* membership rows that may ever exist
    Creator,        \* the row better-auth inserts for the creating user
    Outsider,       \* an acting superadmin with no row in this organization
    Requests,       \* HTTP requests that may be in flight at the same time
    DefaultRoles,   \* ids of the seeded rows (is_default = true)
    OwnerRole, AdminRole, ViewerRole,
    CustomRoles,    \* ids createRole may insert
    NoRole,         \* members.role_id IS NULL
    Slugs,          \* slugs in use, "owner", "admin" and "viewer" included
    SeedSlug,       \* slug of each default role in DEFAULT_ROLES
    Unused, Deleted,\* slug of a role id without a row
    NoSlug,         \* a slug that was not read, or not sent
    Permissions,
    SeedPerms,      \* permissions of each default role in DEFAULT_ROLES
    NoGrant,        \* a request body without "permissions"
    \* the inputs a run enumerates
    Kinds,          \* endpoints exercised
    RenameTargets,  \* roles that PATCH /roles/:id renames
    NewSlugs,       \* slugs created
    PatchSlugs,     \* slugs renamed to; NoSlug for a body without "name"
    Grants,         \* permission sets created or re-synced
    InviteSlugs     \* members.role of an accepted invitation

Roles == DefaultRoles \cup CustomRoles
RoleRefs == Roles \cup {NoRole}
Actors == Members \cup {Outsider}
AllKinds == {"adminChange", "adminRemove", "rbacChange", "transfer",
             "createRole", "updateRole", "deleteRole"}
MembershipKinds == {"adminChange", "adminRemove", "rbacChange", "transfer"}
MovingKinds == MembershipKinds \cup {"deleteRole"}  \* they move members between roles

ASSUME MembersAssumption ==
    /\ IsFiniteSet(Members) /\ Creator \in Members /\ Outsider \notin Members
ASSUME RolesAssumption ==
    /\ {OwnerRole, AdminRole, ViewerRole} \subseteq DefaultRoles
    /\ Cardinality({OwnerRole, AdminRole, ViewerRole}) = 3
    /\ DefaultRoles \cap CustomRoles = {}
    /\ NoRole \notin Roles
ASSUME SlugsAssumption ==
    /\ {"owner", "admin", "viewer"} \subseteq Slugs
    /\ {Unused, Deleted, NoSlug} \cap Slugs = {}
    /\ Unused # Deleted
    /\ SeedSlug \in [DefaultRoles -> Slugs]
    /\ \A a, b \in DefaultRoles : SeedSlug[a] = SeedSlug[b] => a = b
    /\ SeedSlug[OwnerRole] = "owner" /\ SeedSlug[AdminRole] = "admin"
    /\ SeedSlug[ViewerRole] = "viewer"
ASSUME PermissionsAssumption ==
    /\ SeedPerms \in [DefaultRoles -> SUBSET Permissions]
    /\ \A g \in SUBSET Permissions : g # NoGrant
ASSUME InputsAssumption ==
    /\ Kinds \subseteq AllKinds
    /\ RenameTargets \subseteq Roles
    /\ NewSlugs \subseteq Slugs /\ InviteSlugs \subseteq Slugs
    /\ PatchSlugs \subseteq Slugs \cup {NoSlug}
    /\ Grants \subseteq SUBSET Permissions

VARIABLES
    slug,       \* roles.slug by role id
    perms,      \* role_permissions by role id
    presence,   \* "absent" (not yet a row), "present" or "removed"
    roleId,     \* members.role_id
    text,       \* members.role, the legacy text column
    setup,      \* RbacListener: "created", "seeded", "done", "lost"
    req,        \* what each request in flight has read
    overtaken   \* history: what changed since a moving request began, that it
                \* relies upon

vars == <<slug, perms, presence, roleId, text, setup, req>>
db == <<slug, perms, presence, roleId, text, setup>>

Request ==
    [kind : AllKinds \cup {"none"},
     pc : {"idle", "findMember", "findCurrent", "findTarget", "findViewer",
           "reassign", "collision", "write", "count", "commit"},
     actor : Actors, target : Members,
     role : RoleRefs,               \* the role named by the request
     newSlug : Slugs \cup {NoSlug}, \* slug read of it, or requested for it
     grant : {NoGrant} \cup SUBSET Permissions,
     seenRole : RoleRefs,           \* role id read from a row
     seenSlug : Slugs \cup {NoSlug},
     seenText : Slugs \cup {NoSlug},
     seenPerms : SUBSET Permissions,
     moved : SUBSET Members]        \* rows updated, and locked, so far

Idle ==
    [kind |-> "none", pc |-> "idle", actor |-> Outsider, target |-> Creator,
     role |-> NoRole, newSlug |-> NoSlug, grant |-> NoGrant,
     seenRole |-> NoRole, seenSlug |-> NoSlug, seenText |-> NoSlug,
     seenPerms |-> {}, moved |-> {}]

\* what the kind of a request says about its fields
WellFormed(q) ==
    /\ q.kind \in {"adminChange", "rbacChange", "updateRole", "deleteRole"}
         => q.role \in Roles
    /\ q.kind \in {"adminChange", "rbacChange", "createRole"}
         => q.newSlug \in Slugs
    /\ q.kind = "createRole" => q.grant # NoGrant
    /\ q.kind = "updateRole" /\ q.newSlug # NoSlug => q.role \in RenameTargets
    /\ q.kind = "deleteRole" => q.role \in CustomRoles
    /\ q.kind = "transfer" => /\ q.actor \in Members
                              /\ {q.role, q.seenRole} \subseteq DefaultRoles

TypeOK ==
    /\ slug \in [Roles -> Slugs \cup {Unused, Deleted}]
    /\ perms \in [Roles -> SUBSET Permissions]
    /\ presence \in [Members -> {"absent", "present", "removed"}]
    /\ roleId \in [Members -> RoleRefs]
    /\ text \in [Members -> Slugs]
    /\ setup \in {"created", "seeded", "done", "lost"}
    /\ req \in [Requests -> Request]
    /\ \A r \in Requests : WellFormed(req[r])

Causes == {"owners", "target", "names", "role"}

-----------------------------------------------------------------------------
(* What a statement of the handlers sees. *)

Exists(x) == slug[x] \in Slugs
Present(m) == presence[m] = "present"
SlugTaken(s) == \E x \in Roles : slug[x] = s
TakenByOther(s, x) == \E y \in Roles \ {x} : slug[y] = s

\* members of the organization whose role_id is x (nobody for NULL)
Holders(x) == {m \in Members : Present(m) /\ roleId[m] = x /\ x # NoRole}

\* slug of the LEFT JOINed role: null when role_id is null or dangling
JoinedSlug(x) == IF x \in Roles /\ Exists(x) THEN slug[x] ELSE NoSlug

Owners == Holders(OwnerRole)

\* role ids an insert can still generate (bounded by CustomRoles)
FreshIds == {x \in CustomRoles : slug[x] = Unused}

At(r, kind, pc) == req[r].kind = kind /\ req[r].pc = pc

\* UPDATE members holds the locks of the rows until its transaction ends
MemberLocked(m) == \E r \in Requests : At(r, "deleteRole", "commit") /\ m \in req[r].moved

Begin(r, kind) == kind \in Kinds /\ req[r] = Idle
Finish(r) == req' = [req EXCEPT ![r] = Idle]
Continue(r, rec) == req' = [req EXCEPT ![r] = rec]

-----------------------------------------------------------------------------
(* Organization creation: better-auth inserts the creator's row, then the  *)
(* afterCreateOrganization hook starts RbacListener without awaiting it.   *)

Init ==
    /\ slug = [x \in Roles |-> Unused]
    /\ perms = [x \in Roles |-> {}]
    /\ presence = [m \in Members |->
                     IF m = Creator THEN "present" ELSE "absent"]
    /\ roleId = [m \in Members |-> NoRole]
    /\ text = [m \in Members |-> "owner"]   \* read of present rows only
    /\ setup = "created"
    /\ req = [r \in Requests |-> Idle]

\* seedDefaultRoles: all inserts in one transaction
SeedDefaultRoles ==
    /\ setup = "created"
    /\ \A x \in DefaultRoles : ~SlugTaken(SeedSlug[x])
    /\ slug' = [x \in Roles |->
                  IF x \in DefaultRoles THEN SeedSlug[x] ELSE slug[x]]
    /\ perms' = [x \in Roles |->
                  IF x \in DefaultRoles THEN SeedPerms[x] ELSE perms[x]]
    /\ setup' = "seeded"
    /\ UNCHANGED <<presence, roleId, text, req>>

AssignOwner ==
    /\ setup = "seeded" /\ ~MemberLocked(Creator)
    /\ \/ \E x \in Roles :
            /\ slug[x] = "owner"
            /\ roleId' = IF Present(Creator)
                         THEN [roleId EXCEPT ![Creator] = x] ELSE roleId
       \/ ~SlugTaken("owner") /\ UNCHANGED roleId
    /\ setup' = "done"
    /\ UNCHANGED <<slug, perms, presence, text, req>>

\* a failing transaction (a seeded slug is taken, the database is down) or
\* the end of the process: the event is not stored anywhere
LoseSetup ==
    /\ setup \in {"created", "seeded"}
    /\ setup' = "lost"
    /\ UNCHANGED <<slug, perms, presence, roleId, text, req>>

\* better-auth accepts an invitation: role text of the invitation, no role_id
AcceptInvitation(m, s) ==
    /\ presence[m] = "absent"
    /\ presence' = [presence EXCEPT ![m] = "present"]
    /\ text' = [text EXCEPT ![m] = s]
    /\ UNCHANGED <<slug, perms, roleId, setup, req>>

-----------------------------------------------------------------------------
(* PATCH /api/admin/members/:memberId                                      *)

AdminChangeFindRole(r, actor, m, x) ==
    /\ Begin(r, "adminChange") /\ Exists(x)
    /\ Continue(r, [Idle EXCEPT !.kind = "adminChange", !.pc = "findMember",
                       !.actor = actor, !.target = m, !.role = x,
                       !.newSlug = slug[x]])
    /\ UNCHANGED db

\* findMemberWithRole, the self-change check and the no-op return
AdminChangeFindMember(r) ==
    /\ At(r, "adminChange", "findMember")
    /\ LET m == req[r].target IN
         IF /\ Present(m)
            /\ m # req[r].actor
            /\ roleId[m] # req[r].role
         THEN Continue(r, [req[r] EXCEPT !.pc = "count",
                             !.seenRole = roleId[m], !.seenText = text[m],
                             !.seenSlug = JoinedSlug(roleId[m])])
         ELSE Finish(r)
    /\ UNCHANGED db

\* ensureNotLastOwnerOnRoleChange and ensureNotLastOwner
LastOwnerBySnapshot(q) ==
    /\ "owner" \in {q.seenSlug, q.seenText}
    /\ Cardinality(Holders(q.seenRole)) <= 1

AdminCount(r, kind) ==
    /\ At(r, kind, "count")
    /\ IF LastOwnerBySnapshot(req[r])
       THEN Finish(r)
       ELSE Continue(r, [req[r] EXCEPT !.pc = "commit"])
    /\ UNCHANGED db

\* mutant: the row is inserted again when the update finds none
AdminChangeCommitUpsert(r) ==
    /\ At(r, "adminChange", "commit") /\ ~MemberLocked(req[r].target)
    /\ roleId' = [roleId EXCEPT ![req[r].target] = req[r].role]
    /\ text' = [text EXCEPT ![req[r].target] = req[r].newSlug]
    /\ presence' = [presence EXCEPT ![req[r].target] = "present"]
    /\ Finish(r)
    /\ UNCHANGED <<slug, perms, setup>>

AdminChangeCommit(r) ==
    /\ At(r, "adminChange", "commit") /\ ~MemberLocked(req[r].target)
    /\ LET m == req[r].target IN
         IF Present(m)
         THEN /\ roleId' = [roleId EXCEPT ![m] = req[r].role]
              /\ text' = [text EXCEPT ![m] = req[r].newSlug]
         ELSE UNCHANGED <<roleId, text>>
    /\ Finish(r)
    /\ UNCHANGED <<slug, perms, presence, setup>>

(* DELETE /api/admin/members/:memberId *)

AdminRemoveFindMember(r, actor, m) ==
    /\ Begin(r, "adminRemove") /\ Present(m) /\ m # actor
    /\ Continue(r, [Idle EXCEPT !.kind = "adminRemove", !.pc = "count",
                       !.actor = actor, !.target = m,
                       !.seenRole = roleId[m], !.seenText = text[m],
                       !.seenSlug = JoinedSlug(roleId[m])])
    /\ UNCHANGED db

AdminRemoveCommit(r) ==
    /\ At(r, "adminRemove", "commit") /\ ~MemberLocked(req[r].target)
    /\ LET m == req[r].target IN
         presence' = IF Present(m) THEN [presence EXCEPT ![m] = "removed"]
                     ELSE presence
    /\ Finish(r)
    /\ UNCHANGED <<slug, perms, roleId, text, setup>>

-----------------------------------------------------------------------------
(* PATCH /api/roles/members/:id/role (deprecated, still served)            *)

RbacChangeFindRole(r, m, x) ==
    /\ Begin(r, "rbacChange") /\ Exists(x)
    /\ Continue(r, [Idle EXCEPT !.kind = "rbacChange", !.pc = "findMember",
                       !.target = m, !.role = x, !.newSlug = slug[x]])
    /\ UNCHANGED db

RbacChangeFindMember(r) ==
    /\ At(r, "rbacChange", "findMember")
    /\ LET m == req[r].target IN
         IF ~Present(m) THEN Finish(r)
         ELSE Continue(r, [req[r] EXCEPT
                !.pc = IF roleId[m] = NoRole THEN "commit" ELSE "findCurrent",
                !.seenRole = roleId[m]])
    /\ UNCHANGED db

RbacChangeFindCurrent(r) ==
    /\ At(r, "rbacChange", "findCurrent")
    /\ Continue(r, [req[r] EXCEPT !.pc =
           IF JoinedSlug(req[r].seenRole) = "owner" /\ req[r].newSlug # "owner"
           THEN "count" ELSE "commit"])
    /\ UNCHANGED db

RbacChangeCount(r) ==
    /\ At(r, "rbacChange", "count")
    /\ IF Cardinality(Holders(req[r].seenRole)) <= 1
       THEN Finish(r)
       ELSE Continue(r, [req[r] EXCEPT !.pc = "commit"])
    /\ UNCHANGED db

\* writes role_id only: members.role keeps its old text
RbacChangeCommit(r) ==
    /\ At(r, "rbacChange", "commit") /\ ~MemberLocked(req[r].target)
    /\ LET m == req[r].target IN
         roleId' = IF Present(m) THEN [roleId EXCEPT ![m] = req[r].role]
                   ELSE roleId
    /\ Finish(r)
    /\ UNCHANGED <<slug, perms, presence, text, setup>>

(* POST /api/roles/transfer-ownership *)

TransferFindDefaults(r, actor, m) ==
    /\ Begin(r, "transfer")
    /\ \E o, a \in DefaultRoles :
         /\ slug[o] = "owner" /\ slug[a] = "admin"
         /\ Continue(r, [Idle EXCEPT !.kind = "transfer", !.pc = "findCurrent",
                            !.actor = actor, !.target = m,
                            !.role = o, !.seenRole = a])
    /\ UNCHANGED db

TransferFindCurrent(r) ==
    /\ At(r, "transfer", "findCurrent")
    /\ IF req[r].actor \in Holders(req[r].role)
       THEN Continue(r, [req[r] EXCEPT !.pc = "findTarget"])
       ELSE Finish(r)
    /\ UNCHANGED db

TransferFindTarget(r) ==
    /\ At(r, "transfer", "findTarget")
    /\ IF req[r].target \in Holders(req[r].seenRole)
       THEN Continue(r, [req[r] EXCEPT !.pc = "commit"])
       ELSE Finish(r)
    /\ UNCHANGED db

\* mutant: the second update, of the target, is missing
TransferCommitHalf(r) ==
    /\ At(r, "transfer", "commit")
    /\ roleId' = [roleId EXCEPT ![req[r].actor] = req[r].seenRole]
    /\ Finish(r)
    /\ UNCHANGED <<slug, perms, presence, text, setup>>

\* two updates by member id; a row removed meanwhile is simply not updated
TransferCommit(r) ==
    /\ At(r, "transfer", "commit")
    /\ ~MemberLocked(req[r].actor) /\ ~MemberLocked(req[r].target)
    /\ roleId' = [m \in Members |->
                    IF ~Present(m) THEN roleId[m]
                    ELSE IF m = req[r].target THEN req[r].role
                    ELSE IF m = req[r].actor THEN req[r].seenRole
                    ELSE roleId[m]]
    /\ Finish(r)
    /\ UNCHANGED <<slug, perms, presence, text, setup>>

-----------------------------------------------------------------------------
(* POST /api/roles *)

CreateRoleFindBySlug(r, s, g) ==
    /\ Begin(r, "createRole") /\ ~SlugTaken(s)
    /\ Cardinality({q \in Requests : req[q].kind = "createRole"})
         < Cardinality(FreshIds)
    /\ Continue(r, [Idle EXCEPT !.kind = "createRole", !.pc = "commit",
                       !.newSlug = s, !.grant = g])
    /\ UNCHANGED db

\* mutant: roles without the unique constraint on (tenant_id, slug)
CreateRoleCommitUnconstrained(r) ==
    /\ At(r, "createRole", "commit")
    /\ \E x \in FreshIds :
         /\ slug' = [slug EXCEPT ![x] = req[r].newSlug]
         /\ perms' = [perms EXCEPT ![x] = req[r].grant]
    /\ Finish(r)
    /\ UNCHANGED <<presence, roleId, text, setup>>

\* the insert fails on roles_tenant_slug_unique when the slug was taken since
CreateRoleCommit(r) ==
    /\ At(r, "createRole", "commit")
    /\ \/ /\ SlugTaken(req[r].newSlug)
          /\ UNCHANGED <<slug, perms>>
       \/ /\ ~SlugTaken(req[r].newSlug)
          /\ \E x \in FreshIds :
               /\ slug' = [slug EXCEPT ![x] = req[r].newSlug]
               /\ perms' = [perms EXCEPT ![x] = req[r].grant]
    /\ Finish(r)
    /\ UNCHANGED <<presence, roleId, text, setup>>

(* PATCH /api/roles/:id with a name (s # NoSlug), permissions (g # NoGrant) *)
(* or both                                                                 *)

UpdateRoleFindRole(r, x, s, g) ==
    /\ Begin(r, "updateRole") /\ Exists(x)
    /\ s # NoSlug => x \in RenameTargets
    /\ s # NoSlug \/ g # NoGrant
    /\ Continue(r, [Idle EXCEPT !.kind = "updateRole", !.pc = "collision",
                       !.role = x, !.newSlug = s, !.grant = g,
                       !.seenSlug = slug[x]])
    /\ UNCHANGED db

\* findRoleBySlug runs only when a name is given and the slug would change
UpdateRoleCollision(r) ==
    /\ At(r, "updateRole", "collision")
    /\ IF /\ req[r].newSlug \notin {NoSlug, req[r].seenSlug}
          /\ SlugTaken(req[r].newSlug)
       THEN Finish(r)
       ELSE Continue(r, [req[r] EXCEPT !.pc = "write"])
    /\ UNCHANGED db

\* mutant: the re-sync runs without the UPDATE of the role row before it
NeverLocked(x) == FALSE

\* UPDATE roles holds the lock of the row until its transaction ends
RowLocked(x) ==
    \E r \in Requests : /\ At(r, "updateRole", "commit")
                        /\ req[r].role = x /\ req[r].newSlug # NoSlug

\* UPDATE roles (when named), then DELETE role_permissions: the rows this
\* statement sees are the ones it deletes
UpdateRoleWrite(r) ==
    /\ At(r, "updateRole", "write")
    /\ req[r].newSlug # NoSlug => ~RowLocked(req[r].role)
    /\ Continue(r, [req[r] EXCEPT !.pc = "commit",
                       !.seenPerms = IF req[r].grant = NoGrant THEN {}
                                     ELSE perms[req[r].role]])
    /\ UNCHANGED db

\* refused by roles_tenant_slug_unique or by the key of role_permissions
UpdateRefused(q) ==
    \/ q.newSlug # NoSlug /\ TakenByOther(q.newSlug, q.role)
    \/ q.grant # NoGrant /\ (perms[q.role] \ q.seenPerms) \cap q.grant # {}

\* a role deleted meanwhile: no row to update, and the foreign key of
\* role_permissions refuses new ones
UpdateRoleCommit(r) ==
    LET q == req[r] IN
    /\ At(r, "updateRole", "commit")
    /\ IF ~Exists(q.role) \/ UpdateRefused(q)
       THEN UNCHANGED <<slug, perms>>
       ELSE /\ slug' = IF q.newSlug = NoSlug THEN slug
                       ELSE [slug EXCEPT ![q.role] = q.newSlug]
            /\ perms' = IF q.grant = NoGrant THEN perms
                        ELSE [perms EXCEPT ![q.role] =
                                 (@ \ q.seenPerms) \cup q.grant]
    /\ Finish(r)
    /\ UNCHANGED <<presence, roleId, text, setup>>

(* DELETE /api/roles/:id *)

DeleteRoleFindRole(r, x) ==
    /\ Begin(r, "deleteRole") /\ Exists(x) /\ x \notin DefaultRoles
    /\ Continue(r, [Idle EXCEPT !.kind = "deleteRole", !.pc = "findViewer",
                       !.role = x])
    /\ UNCHANGED db

\* any role with that slug, default or not
DeleteRoleFindViewer(r) ==
    /\ At(r, "deleteRole", "findViewer")
    /\ \/ \E v \in Roles : /\ slug[v] = "viewer"
                           /\ Continue(r, [req[r] EXCEPT !.pc = "reassign",
                                              !.seenRole = v])
       \/ /\ ~SlugTaken("viewer")
          /\ Continue(r, [req[r] EXCEPT !.pc = "commit"])
    /\ UNCHANGED db

\* UPDATE members .. WHERE role_id = x: not those who get the role after it
DeleteRoleReassign(r) ==
    /\ At(r, "deleteRole", "reassign")
    /\ \A m \in Holders(req[r].role) : ~MemberLocked(m)
    /\ Continue(r, [req[r] EXCEPT !.pc = "commit", !.moved = Holders(req[r].role)])
    /\ UNCHANGED db

\* mutant: the role is deleted without reassigning its members
DeleteRoleCommitKeepMembers(r) ==
    LET x == req[r].role IN
    /\ At(r, "deleteRole", "commit")
    /\ ~RowLocked(x)
    /\ slug' = [slug EXCEPT ![x] = Deleted]
    /\ perms' = [perms EXCEPT ![x] = {}]
    /\ Finish(r)
    /\ UNCHANGED <<presence, roleId, text, setup>>

\* DELETE roles, and what was reassigned becomes visible; role_permissions
\* cascade, members.role_id has no foreign key
DeleteRoleCommit(r) ==
    LET x == req[r].role IN
    /\ At(r, "deleteRole", "commit")
    /\ ~RowLocked(x)
    /\ roleId' = [m \in Members |-> IF m \in req[r].moved THEN req[r].seenRole
                                    ELSE roleId[m]]
    /\ slug' = [slug EXCEPT ![x] = Deleted]
    /\ perms' = [perms EXCEPT ![x] = {}]
    /\ Finish(r)
    /\ UNCHANGED <<presence, text, setup>>

-----------------------------------------------------------------------------
Arrive(r) ==
    \* the admin handlers only compare the actor with the target
    \/ \E m \in Members : \E actor \in {m, Outsider} :
         \/ \E x \in Roles : AdminChangeFindRole(r, actor, m, x)
         \/ AdminRemoveFindMember(r, actor, m)
    \/ \E m \in Members, x \in Roles : RbacChangeFindRole(r, m, x)
    \/ \E actor, m \in Members : TransferFindDefaults(r, actor, m)
    \/ \E s \in NewSlugs, g \in Grants : CreateRoleFindBySlug(r, s, g)
    \/ \E x \in Roles, s \in PatchSlugs, g \in {NoGrant} \cup Grants :
         UpdateRoleFindRole(r, x, s, g)
    \/ \E x \in Roles : DeleteRoleFindRole(r, x)

Proceed(r) ==
    \/ AdminChangeFindMember(r)
    \/ AdminCount(r, "adminChange")
    \/ AdminCount(r, "adminRemove")
    \/ AdminChangeCommit(r)
    \/ AdminRemoveCommit(r)
    \/ RbacChangeFindMember(r)
    \/ RbacChangeFindCurrent(r)
    \/ RbacChangeCount(r)
    \/ RbacChangeCommit(r)
    \/ TransferFindCurrent(r)
    \/ TransferFindTarget(r)
    \/ TransferCommit(r)
    \/ CreateRoleCommit(r)
    \/ UpdateRoleCollision(r)
    \/ UpdateRoleWrite(r)
    \/ UpdateRoleCommit(r)
    \/ DeleteRoleFindViewer(r)
    \/ DeleteRoleReassign(r)
    \/ DeleteRoleCommit(r)

Listener == SeedDefaultRoles \/ AssignOwner \/ LoseSetup

Step ==
    \/ Listener
    \/ \E m \in Members, s \in InviteSlugs : AcceptInvitation(m, s)
    \/ \E r \in Requests : Arrive(r) \/ Proceed(r)

-----------------------------------------------------------------------------
(* History: what a request that moves members between roles has read, or   *)
(* will write, may change before it commits.                               *)

\* the role such a request gives to members
Given(q) == IF q.kind = "deleteRole" THEN q.seenRole ELSE q.role

Overtaking(q) ==
    {c \in Causes :
        \/ c = "owners" /\ Owners' # Owners
        \/ c = "target" /\ q.kind = "transfer" /\ presence'[q.target] # presence[q.target]
        \/ c = "names" /\ slug'[OwnerRole] # slug[OwnerRole]
        \/ c = "role" /\ Given(q) \in Roles /\ Exists(Given(q)) /\ slug'[Given(q)] \notin Slugs
        \/ c = "role" /\ q.kind = "deleteRole" /\ q.pc = "commit"
                      /\ ~(Holders(q.role)' \subseteq Holders(q.role))}

Watch ==
    overtaken' = [r \in Requests |->
        IF req[r].kind \in MovingKinds /\ req'[r].kind = req[r].kind
        THEN overtaken[r] \cup Overtaking(req[r]) ELSE {}]

Next == Step /\ Watch

allVars == <<slug, perms, presence, roleId, text, setup, req, overtaken>>

Spec == Init /\ overtaken = [r \in Requests |-> {}] /\ [][Next]_allVars

-----------------------------------------------------------------------------
(* Properties *)

\* roles_tenant_slug_unique together with the collision checks: two roles of
\* the organization never carry the same slug, whatever overlaps.
SlugsUnique ==
    \A x, y \in Roles : Exists(x) /\ slug[x] = slug[y] => x = y

\* The last-owner guards of all four membership endpoints: an organization
\* that has an owner (by role_id) keeps one.
OwnerNeverLost == [][Owners # {} => Owners' # {}]_vars

\* A member that was removed stays out: requests that read the row before the
\* removal neither bring it back nor write to it.
RemovedStaysOut ==
    [][\A m \in Members : presence[m] = "removed" =>
         /\ presence'[m] = "removed"
         /\ roleId'[m] = roleId[m] /\ text'[m] = text[m]]_vars

\* deleteRole falls back to Viewer (members.role_id has no foreign key): a member
\* is left with the id of a role that does not exist only by a request that was
\* overtaken, since the role it gives was deleted or the role it deletes was given
\* again, or by a deletion that found no other role with the slug "viewer".
Dangling(m) == Present(m) /\ roleId[m] # NoRole /\ ~Exists(roleId[m])

Commits(r) == req[r] # Idle /\ req'[r] = Idle

DanglesForCause ==
    [][\A m \in Members : Dangling(m)' /\ ~Dangling(m) =>
         \E r \in Requests :
            /\ Commits(r)
            /\ \/ "role" \in overtaken[r]
               \/ req[r].kind = "deleteRole" /\ req[r].seenRole \in {NoRole, req[r].role}]_vars

\* a re-sync of the permissions that also names the role, after its DELETE
Resyncing(r) ==
    At(r, "updateRole", "commit") /\ req[r].newSlug # NoSlug /\ req[r].grant # NoGrant

\* PATCH /api/roles/:id with a name and permissions: the UPDATE of the row comes
\* before the DELETE and the INSERT, so until it commits nobody else changes
\* the permissions of the role, be it a re-sync or a deletion.  A request
\* without a name takes no lock: only its set merges with another one.
ResyncUndisturbed ==
    [][\A r \in Requests :
         Resyncing(r) /\ perms'[req[r].role] # perms[req[r].role]
           => \E q \in Requests :
                /\ UpdateRoleCommit(q) /\ req[q].role = req[r].role
                /\ q = r \/ req[q].newSlug = NoSlug]_vars

\* The abstract specification: the owners are the present holders of Owner.
Promise == INSTANCE Ownership WITH owners <- Owners

\* Owners change one at a time and the last one never goes, unless the Owner role
\* was renamed, which no handler refuses and which blinds their guards, or the
\* request that commits was overtaken: the owners had changed since it began, or
\* the name of Owner, or the target of a transfer had left.
OwnershipPromise ==
    [][\/ Promise!Next
       \/ slug[OwnerRole] # "owner"
       \/ \E r \in Requests :
             Commits(r) /\ overtaken[r] \cap {"owners", "names", "target"} # {}]_Owners
=============================================================================
