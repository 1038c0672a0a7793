--------------------------- MODULE OrgRolesProofs ---------------------------
(* What OrgRoles promises, for every number of members, roles, permissions  *)
(* and requests, however they overlap: types, slugs that never clash,       *)
(* removed members that stay out, named re-syncs that nobody disturbs, and  *)
(* the only causes for which an organization may lose its last owner, or a  *)
(* member be left with the id of a role that is gone.                       *)
EXTENDS OrgRoles, FiniteSetTheorems, TLAPS

USE DEF At, Begin, Finish, Continue

\* A request slot that is free is a well-formed request.
LEMMA IdleType == Idle \in Request /\ WellFormed(Idle)
BY MembersAssumption DEF Idle, Request, Actors, RoleRefs, WellFormed

LEMMA JoinedSlugType ==
    ASSUME TypeOK, NEW x \in RoleRefs
    PROVE  JoinedSlug(x) \in Slugs \cup {NoSlug}
BY DEF TypeOK, JoinedSlug, Exists

\* The types of the tables of the database.
DbType ==
    /\ slug \in [Roles -> Slugs \cup {Unused, Deleted}]
    /\ perms \in [Roles -> SUBSET Permissions]
    /\ presence \in [Members -> {"absent", "present", "removed"}]
    /\ roleId \in [Members -> RoleRefs]
    /\ text \in [Members -> Slugs]
    /\ setup \in {"created", "seeded", "done", "lost"}

\* A step that only records what was read keeps the types if the record does.
LEMMA ContinueType ==
    ASSUME TypeOK, UNCHANGED db, NEW r \in Requests,
           NEW q \in Request, WellFormed(q), Continue(r, q)
    PROVE  TypeOK'
<1>1. req' \in [Requests -> Request] /\ \A p \in Requests : WellFormed(req'[p])
  BY DEF TypeOK
<1>2. QED
  BY <1>1 DEF TypeOK, db, WellFormed

\* The last step of a request keeps the types if it does in the tables.
LEMMA FinishType ==
    ASSUME TypeOK, DbType', NEW r \in Requests, Finish(r)
    PROVE  TypeOK'
<1>1. req' \in [Requests -> Request] /\ \A p \in Requests : WellFormed(req'[p])
  BY IdleType DEF TypeOK
<1>2. QED
  BY <1>1 DEF TypeOK, DbType, WellFormed

LEMMA AbortType ==
    ASSUME TypeOK, UNCHANGED db, NEW r \in Requests, Finish(r)
    PROVE  TypeOK'
BY FinishType DEF TypeOK, DbType, db

\* Steps outside any request.
LEMMA OutsideType ==
    ASSUME TypeOK, DbType', UNCHANGED req
    PROVE  TypeOK'
BY DEF TypeOK, DbType, WellFormed

\* The first step of every handler.
LEMMA ArriveType ==
    ASSUME TypeOK, NEW r \in Requests, Arrive(r)
    PROVE  TypeOK'
<1>1. ASSUME NEW m \in Members, NEW actor \in {m, Outsider},
             NEW x \in Roles, AdminChangeFindRole(r, actor, m, x)
      PROVE  TypeOK'
  <2> DEFINE q == [Idle EXCEPT !.kind = "adminChange", !.pc = "findMember",
                     !.actor = actor, !.target = m, !.role = x,
                     !.newSlug = slug[x]]
  <2> actor \in Actors /\ x \in RoleRefs /\ slug[x] \in Slugs
    BY <1>1 DEF AdminChangeFindRole, Exists, Actors, RoleRefs
  <2>1. q \in Request /\ WellFormed(q)
    BY IdleType, ZenonT(40) DEF Idle, Request, AllKinds, WellFormed
  <2>2. QED
    BY <1>1, <2>1, ContinueType DEF AdminChangeFindRole
<1>2. ASSUME NEW m \in Members, NEW actor \in {m, Outsider},
             AdminRemoveFindMember(r, actor, m)
      PROVE  TypeOK'
  <2> DEFINE q == [Idle EXCEPT !.kind = "adminRemove", !.pc = "count",
                     !.actor = actor, !.target = m,
                     !.seenRole = roleId[m], !.seenText = text[m],
                     !.seenSlug = JoinedSlug(roleId[m])]
  <2> /\ actor \in Actors /\ roleId[m] \in RoleRefs /\ text[m] \in Slugs
      /\ JoinedSlug(roleId[m]) \in Slugs \cup {NoSlug}
    BY JoinedSlugType DEF TypeOK, Actors
  <2>1. q \in Request /\ WellFormed(q)
    BY IdleType, ZenonT(40) DEF Idle, Request, AllKinds, WellFormed
  <2>2. QED
    BY <1>2, <2>1, ContinueType DEF AdminRemoveFindMember
<1>3. ASSUME NEW m \in Members, NEW x \in Roles, RbacChangeFindRole(r, m, x)
      PROVE  TypeOK'
  <2> DEFINE q == [Idle EXCEPT !.kind = "rbacChange", !.pc = "findMember",
                     !.target = m, !.role = x, !.newSlug = slug[x]]
  <2> x \in RoleRefs /\ slug[x] \in Slugs
    BY <1>3 DEF RbacChangeFindRole, Exists, RoleRefs
  <2>1. q \in Request /\ WellFormed(q)
    BY IdleType DEF Idle, Request, AllKinds, WellFormed
  <2>2. QED
    BY <1>3, <2>1, ContinueType DEF RbacChangeFindRole
<1>4. ASSUME NEW actor \in Members, NEW m \in Members,
             TransferFindDefaults(r, actor, m)
      PROVE  TypeOK'
  <2>1. PICK o \in DefaultRoles, a \in DefaultRoles :
            Continue(r, [Idle EXCEPT !.kind = "transfer", !.pc = "findCurrent",
                           !.actor = actor, !.target = m,
                           !.role = o, !.seenRole = a])
    BY <1>4 DEF TransferFindDefaults
  <2> DEFINE q == [Idle EXCEPT !.kind = "transfer", !.pc = "findCurrent",
                     !.actor = actor, !.target = m,
                     !.role = o, !.seenRole = a]
  <2> actor \in Actors /\ o \in RoleRefs /\ a \in RoleRefs
    BY DEF Actors, RoleRefs, Roles
  <2>2. q \in Request /\ WellFormed(q)
    BY IdleType, ZenonT(40) DEF Idle, Request, AllKinds, WellFormed
  <2>3. QED
    BY <1>4, <2>1, <2>2, ContinueType DEF TransferFindDefaults
<1>5. ASSUME NEW s \in NewSlugs, NEW g \in Grants,
             CreateRoleFindBySlug(r, s, g)
      PROVE  TypeOK'
  <2> DEFINE q == [Idle EXCEPT !.kind = "createRole", !.pc = "commit",
                     !.newSlug = s, !.grant = g]
  <2> s \in Slugs /\ g \in SUBSET Permissions /\ g # NoGrant
    BY InputsAssumption, PermissionsAssumption
  <2>1. q \in Request /\ WellFormed(q)
    BY IdleType DEF Idle, Request, AllKinds, WellFormed
  <2>2. QED
    BY <1>5, <2>1, ContinueType DEF CreateRoleFindBySlug
<1>6. ASSUME NEW x \in Roles, NEW s \in PatchSlugs,
             NEW g \in {NoGrant} \cup Grants, UpdateRoleFindRole(r, x, s, g)
      PROVE  TypeOK'
  <2> DEFINE q == [Idle EXCEPT !.kind = "updateRole", !.pc = "collision",
                     !.role = x, !.newSlug = s, !.grant = g,
                     !.seenSlug = slug[x]]
  <2> /\ x \in RoleRefs /\ slug[x] \in Slugs
      /\ s \in Slugs \cup {NoSlug} /\ g \in {NoGrant} \cup SUBSET Permissions
      /\ s # NoSlug => x \in RenameTargets
    BY <1>6, InputsAssumption DEF UpdateRoleFindRole, Exists, RoleRefs
  <2>1. q \in Request /\ WellFormed(q)
    BY IdleType, ZenonT(40) DEF Idle, Request, AllKinds, WellFormed
  <2>2. QED
    BY <1>6, <2>1, ContinueType DEF UpdateRoleFindRole
<1>7. ASSUME NEW x \in Roles, DeleteRoleFindRole(r, x)
      PROVE  TypeOK'
  <2> DEFINE q == [Idle EXCEPT !.kind = "deleteRole", !.pc = "findViewer",
                     !.role = x]
  <2> x \in RoleRefs /\ x \in CustomRoles
    BY <1>7 DEF DeleteRoleFindRole, RoleRefs, Roles
  <2>1. q \in Request /\ WellFormed(q)
    BY IdleType DEF Idle, Request, AllKinds, WellFormed
  <2>2. QED
    BY <1>7, <2>1, ContinueType DEF DeleteRoleFindRole
<1>8. QED
  BY <1>1, <1>2, <1>3, <1>4, <1>5, <1>6, <1>7 DEF Arrive

\* What a request holds while it is in flight.
LEMMA RequestType ==
    ASSUME TypeOK, NEW r \in Requests
    PROVE  req[r] \in Request /\ WellFormed(req[r])
BY DEF TypeOK

\* Every later step of every handler.
LEMMA ProceedType ==
    ASSUME TypeOK, NEW r \in Requests, Proceed(r)
    PROVE  TypeOK'
<1> DEFINE m == req[r].target
<1> /\ req[r] \in Request /\ WellFormed(req[r])
    /\ m \in Members /\ roleId[m] \in RoleRefs /\ text[m] \in Slugs
  BY RequestType DEF TypeOK, Request
<1>1. CASE AdminChangeFindMember(r)
  <2> DEFINE q == [req[r] EXCEPT !.pc = "count",
                     !.seenRole = roleId[m], !.seenText = text[m],
                     !.seenSlug = JoinedSlug(roleId[m])]
  <2>1. JoinedSlug(roleId[m]) \in Slugs \cup {NoSlug}
    BY JoinedSlugType
  <2>2. q \in Request /\ WellFormed(q)
    BY <1>1, <2>1 DEF AdminChangeFindMember, Request, WellFormed
  <2>3. QED
    BY <1>1, <2>2, ContinueType, AbortType DEF AdminChangeFindMember
<1>2. ASSUME NEW k \in {"adminChange", "adminRemove"}, AdminCount(r, k)
      PROVE  TypeOK'
  <2> DEFINE q == [req[r] EXCEPT !.pc = "commit"]
  <2>1. q \in Request /\ WellFormed(q)
    BY DEF Request, WellFormed
  <2>2. QED
    BY <1>2, <2>1, ContinueType, AbortType DEF AdminCount
<1>3. CASE AdminChangeCommit(r)
  <2>1. req[r].role \in RoleRefs /\ req[r].newSlug \in Slugs
    BY <1>3 DEF AdminChangeCommit, WellFormed, Request
  <2>2. DbType'
    BY <1>3, <2>1 DEF AdminChangeCommit, TypeOK, DbType
  <2>3. QED
    BY <1>3, <2>2, FinishType DEF AdminChangeCommit
<1>4. CASE AdminRemoveCommit(r)
  <2>1. DbType'
    BY <1>4 DEF AdminRemoveCommit, TypeOK, DbType
  <2>2. QED
    BY <1>4, <2>1, FinishType DEF AdminRemoveCommit
<1>5. CASE RbacChangeFindMember(r)
  <2>1. ASSUME NEW p \in {"commit", "findCurrent"}
        PROVE  LET q == [req[r] EXCEPT !.pc = p, !.seenRole = roleId[m]]
               IN  q \in Request /\ WellFormed(q)
    BY <1>5 DEF RbacChangeFindMember, Request, WellFormed
  <2>2. QED
    BY <1>5, <2>1, ContinueType, AbortType DEF RbacChangeFindMember
<1>6. CASE RbacChangeFindCurrent(r)
  <2>1. ASSUME NEW p \in {"commit", "count"}
        PROVE  LET q == [req[r] EXCEPT !.pc = p]
               IN  q \in Request /\ WellFormed(q)
    BY DEF Request, WellFormed
  <2>2. QED
    BY <1>6, <2>1, ContinueType DEF RbacChangeFindCurrent
<1>7. CASE RbacChangeCount(r)
  <2> DEFINE q == [req[r] EXCEPT !.pc = "commit"]
  <2>1. q \in Request /\ WellFormed(q)
    BY DEF Request, WellFormed
  <2>2. QED
    BY <1>7, <2>1, ContinueType, AbortType DEF RbacChangeCount
<1>8. CASE RbacChangeCommit(r)
  <2>1. DbType'
    BY <1>8 DEF RbacChangeCommit, TypeOK, DbType, Request
  <2>2. QED
    BY <1>8, <2>1, FinishType DEF RbacChangeCommit
<1>9. CASE TransferFindCurrent(r)
  <2> DEFINE q == [req[r] EXCEPT !.pc = "findTarget"]
  <2>1. q \in Request /\ WellFormed(q)
    BY DEF Request, WellFormed
  <2>2. QED
    BY <1>9, <2>1, ContinueType, AbortType DEF TransferFindCurrent
<1>10. CASE TransferFindTarget(r)
  <2> DEFINE q == [req[r] EXCEPT !.pc = "commit"]
  <2>1. q \in Request /\ WellFormed(q)
    BY DEF Request, WellFormed
  <2>2. QED
    BY <1>10, <2>1, ContinueType, AbortType DEF TransferFindTarget
<1>11. CASE TransferCommit(r)
  <2>1. DbType'
    BY <1>11 DEF TransferCommit, TypeOK, DbType, Request
  <2>2. QED
    BY <1>11, <2>1, FinishType DEF TransferCommit
<1>12. CASE CreateRoleCommit(r)
  <2>1. req[r].newSlug \in Slugs /\ req[r].grant \in SUBSET Permissions
    BY <1>12 DEF CreateRoleCommit, WellFormed, Request
  <2>2. DbType'
    BY <1>12, <2>1 DEF CreateRoleCommit, TypeOK, DbType
  <2>3. QED
    BY <1>12, <2>2, FinishType DEF CreateRoleCommit
<1>13. CASE UpdateRoleCollision(r)
  <2> DEFINE q == [req[r] EXCEPT !.pc = "write"]
  <2>1. q \in Request /\ WellFormed(q)
    BY DEF Request, WellFormed
  <2>2. QED
    BY <1>13, <2>1, ContinueType, AbortType DEF UpdateRoleCollision
<1>14. CASE UpdateRoleWrite(r)
  <2>1. perms[req[r].role] \in SUBSET Permissions
    BY <1>14 DEF UpdateRoleWrite, TypeOK, WellFormed
  <2>2. ASSUME NEW seen \in SUBSET Permissions
        PROVE  LET q == [req[r] EXCEPT !.pc = "commit", !.seenPerms = seen]
               IN  q \in Request /\ WellFormed(q)
    BY <1>14 DEF UpdateRoleWrite, Request, WellFormed
  <2>3. QED
    BY <1>14, <2>1, <2>2, ContinueType DEF UpdateRoleWrite
<1>15. CASE UpdateRoleCommit(r)
  <2> DEFINE q == req[r]
  <2>1. /\ q.role \in Roles
        /\ q.newSlug \in Slugs \cup {NoSlug}
        /\ q.grant \in {NoGrant} \cup SUBSET Permissions
    BY <1>15 DEF UpdateRoleCommit, WellFormed, Request
  <2>2. slug' \in [Roles -> Slugs \cup {Unused, Deleted}]
    BY <1>15, <2>1 DEF UpdateRoleCommit, TypeOK
  <2>3. perms' \in [Roles -> SUBSET Permissions]
    <3>1. CASE UNCHANGED perms
      BY <3>1 DEF TypeOK
    <3>2. CASE ~UNCHANGED perms
      <4>1. /\ q.grant \in SUBSET Permissions
            /\ perms' = [perms EXCEPT ![q.role] = (@ \ q.seenPerms) \cup q.grant]
        BY <1>15, <2>1, <3>2 DEF UpdateRoleCommit
      <4>2. QED
        BY <2>1, <4>1 DEF TypeOK
    <3>3. QED
      BY <3>1, <3>2
  <2>4. DbType'
    BY <1>15, <2>2, <2>3 DEF UpdateRoleCommit, TypeOK, DbType
  <2>5. QED
    BY <1>15, <2>4, FinishType DEF UpdateRoleCommit
<1>16. CASE DeleteRoleFindViewer(r)
  <2>1. ASSUME NEW v \in RoleRefs
        PROVE  LET q == [req[r] EXCEPT !.pc = "reassign", !.seenRole = v]
               IN  q \in Request /\ WellFormed(q)
    BY <1>16 DEF DeleteRoleFindViewer, Request, WellFormed
  <2>2. LET q == [req[r] EXCEPT !.pc = "commit"]
        IN  q \in Request /\ WellFormed(q)
    BY DEF Request, WellFormed
  <2>3. QED
    BY <1>16, <2>1, <2>2, ContinueType DEF DeleteRoleFindViewer, RoleRefs
<1>17. CASE DeleteRoleCommit(r)
  <2>1. req[r].seenRole \in RoleRefs
    BY DEF Request
  <2>2. DbType'
    BY <1>17, <2>1 DEF DeleteRoleCommit, TypeOK, DbType
  <2>3. QED
    BY <1>17, <2>2, FinishType DEF DeleteRoleCommit
<1>18. CASE DeleteRoleReassign(r)
  <2>1. Holders(req[r].role) \in SUBSET Members
    BY DEF Holders
  <2>2. ASSUME NEW held \in SUBSET Members
        PROVE  LET q == [req[r] EXCEPT !.pc = "commit", !.moved = held]
               IN  q \in Request /\ WellFormed(q)
    BY <1>18 DEF DeleteRoleReassign, Request, WellFormed
  <2>3. QED
    BY <1>18, <2>1, <2>2, ContinueType DEF DeleteRoleReassign
<1>19. QED
  BY <1>1, <1>2, <1>3, <1>4, <1>5, <1>6, <1>7, <1>8, <1>9, <1>10, <1>11,
     <1>12, <1>13, <1>14, <1>15, <1>16, <1>17, <1>18 DEF Proceed

\* One step of the system.
LEMMA NextType == TypeOK /\ [Step]_vars => TypeOK'
<1> SUFFICES ASSUME TypeOK, [Step]_vars PROVE TypeOK'
  OBVIOUS
<1>1. CASE SeedDefaultRoles
  <2>1. DbType'
    BY <1>1, SlugsAssumption, PermissionsAssumption
    DEF SeedDefaultRoles, TypeOK, DbType, Roles
  <2>2. QED
    BY <1>1, <2>1, OutsideType DEF SeedDefaultRoles
<1>2. CASE AssignOwner
  <2>1. DbType'
    BY <1>2 DEF AssignOwner, TypeOK, DbType, RoleRefs
  <2>2. QED
    BY <1>2, <2>1, OutsideType DEF AssignOwner
<1>3. CASE LoseSetup
  BY <1>3, OutsideType DEF LoseSetup, TypeOK, DbType
<1>4. ASSUME NEW m \in Members, NEW s \in InviteSlugs, AcceptInvitation(m, s)
      PROVE  TypeOK'
  BY <1>4, InputsAssumption, OutsideType DEF AcceptInvitation, TypeOK, DbType
<1>5. CASE UNCHANGED vars
  BY <1>5, OutsideType DEF vars, TypeOK, DbType
<1>6. QED
  BY <1>1, <1>2, <1>3, <1>4, <1>5, ArriveType, ProceedType DEF Step, Listener

LEMMA NextIsStep == [Next]_allVars => [Step]_vars
BY DEF Next, allVars, vars

LEMMA InitType == Init => TypeOK
BY IdleType, MembersAssumption, SlugsAssumption DEF Init, TypeOK, RoleRefs

\* Every variable keeps its type, and every request the shape of its kind,
\* through every interleaving of the handlers.
THEOREM TypeCorrect == Spec => []TypeOK
<1>1. QED
  BY InitType, NextType, NextIsStep, PTL DEF Spec

(***************************************************************************)
(* Slugs                                                                   *)
(***************************************************************************)

\* Who writes slugs and permissions.
LEMMA SlugWriters ==
    ASSUME [Step]_vars
    PROVE  \/ UNCHANGED slug /\ UNCHANGED perms
           \/ SeedDefaultRoles
           \/ \E r \in Requests :
                CreateRoleCommit(r) \/ UpdateRoleCommit(r) \/ DeleteRoleCommit(r)
<1> HIDE DEF At, Begin, Finish, Continue
<1>1. ASSUME NEW r \in Requests, Arrive(r)
      PROVE  UNCHANGED slug /\ UNCHANGED perms
  BY <1>1 DEF Arrive, db, AdminChangeFindRole, AdminRemoveFindMember,
     RbacChangeFindRole, TransferFindDefaults, CreateRoleFindBySlug,
     UpdateRoleFindRole, DeleteRoleFindRole
<1>2. ASSUME NEW r \in Requests, Proceed(r)
      PROVE  \/ UNCHANGED slug /\ UNCHANGED perms
             \/ CreateRoleCommit(r) \/ UpdateRoleCommit(r) \/ DeleteRoleCommit(r)
  BY <1>2 DEF Proceed, db, AdminChangeFindMember, AdminCount,
     AdminChangeCommit, AdminRemoveCommit, RbacChangeFindMember,
     RbacChangeFindCurrent, RbacChangeCount, RbacChangeCommit,
     TransferFindCurrent, TransferFindTarget, TransferCommit,
     UpdateRoleCollision, UpdateRoleWrite, DeleteRoleFindViewer, DeleteRoleReassign
<1> QED BY <1>1, <1>2 DEF Step, Listener, AssignOwner, LoseSetup, AcceptInvitation, vars

\* Steps that write no slug.
LEMMA SameSlugs ==
    ASSUME SlugsUnique, UNCHANGED slug
    PROVE  SlugsUnique'
BY DEF SlugsUnique, Exists

LEMMA SlugsStep == TypeOK /\ SlugsUnique /\ [Step]_vars => SlugsUnique'
<1> SUFFICES ASSUME TypeOK, SlugsUnique, [Step]_vars PROVE SlugsUnique'
  OBVIOUS
<1>1. CASE SeedDefaultRoles
  <2>1. \A x \in DefaultRoles : \A y \in CustomRoles : slug[y] # SeedSlug[x]
    BY <1>1 DEF SeedDefaultRoles, SlugTaken, Roles
  <2>2. slug' \in [Roles -> Slugs \cup {Unused, Deleted}]
    BY <1>1, SlugsAssumption DEF SeedDefaultRoles, TypeOK
  <2>3. \A x \in Roles : slug'[x] = IF x \in DefaultRoles THEN SeedSlug[x]
                                    ELSE slug[x]
    BY <1>1 DEF SeedDefaultRoles
  <2>4. QED
    BY <2>1, <2>3, SlugsAssumption DEF SlugsUnique, Exists, Roles
<1>2. ASSUME NEW r \in Requests, CreateRoleCommit(r)
      PROVE  SlugsUnique'
  <2>1. CASE UNCHANGED slug
    BY <2>1, SameSlugs
  <2>2. CASE ~UNCHANGED slug
    <3>1. PICK x \in Roles : /\ slug' = [slug EXCEPT ![x] = req[r].newSlug]
                             /\ ~SlugTaken(req[r].newSlug)
      BY <1>2, <2>2 DEF CreateRoleCommit, FreshIds, Roles
    <3>2. QED
      BY <3>1 DEF SlugsUnique, Exists, SlugTaken, TypeOK
  <2>3. QED
    BY <2>1, <2>2
<1>3. ASSUME NEW r \in Requests, UpdateRoleCommit(r)
      PROVE  SlugsUnique'
  <2>1. CASE UNCHANGED slug
    BY <2>1, SameSlugs
  <2>2. CASE ~UNCHANGED slug
    <3>1. /\ slug' = [slug EXCEPT ![req[r].role] = req[r].newSlug]
          /\ ~TakenByOther(req[r].newSlug, req[r].role)
      BY <1>3, <2>2 DEF UpdateRoleCommit, UpdateRefused
    <3>2. QED
      BY <3>1 DEF SlugsUnique, Exists, TakenByOther, TypeOK
  <2>3. QED
    BY <2>1, <2>2
<1>4. ASSUME NEW r \in Requests, DeleteRoleCommit(r)
      PROVE  SlugsUnique'
  <2>1. slug' = [slug EXCEPT ![req[r].role] = Deleted]
    BY <1>4 DEF DeleteRoleCommit
  <2>2. Deleted \notin Slugs
    BY SlugsAssumption
  <2>3. QED
    BY <2>1, <2>2 DEF SlugsUnique, Exists, TypeOK
<1>5. CASE UNCHANGED slug
  BY <1>5, SameSlugs
<1>6. QED
  BY <1>1, <1>2, <1>3, <1>4, <1>5, SlugWriters

LEMMA SlugsInit == Init => SlugsUnique
BY SlugsAssumption DEF Init, SlugsUnique, Exists

\* roles_tenant_slug_unique and the collision checks keep the slugs of an
\* organization apart under every interleaving of create, rename and delete.
THEOREM SlugsNeverClash == Spec => []SlugsUnique
<1>1. QED
  BY InitType, NextType, NextIsStep, SlugsInit, SlugsStep, PTL DEF Spec


(***************************************************************************)
(* The records of the requests                                             *)
(***************************************************************************)

LEMMA IdleIsNone == Idle.kind = "none"
BY DEF Idle

\* What a request is when it arrives.
LEMMA ArrivesAs ==
    ASSUME TypeOK, NEW r \in Requests, Arrive(r)
    PROVE  /\ UNCHANGED db
           /\ \A q \in Requests : q # r => req'[q] = req[q]
           /\ req[r].kind = "none"
           /\ req'[r].kind = "updateRole"
                => Exists(req'[r].role) /\ req'[r].pc = "collision"
           /\ req'[r].kind = "deleteRole"
                => req'[r].pc = "findViewer" /\ req'[r].moved = {}
<1>1. ASSUME NEW m \in Members, NEW actor, NEW x \in Roles, AdminChangeFindRole(r, actor, m, x)
      PROVE  UNCHANGED db /\ \E rec : Continue(r, rec) /\ rec.kind = "adminChange"
  <2> DEFINE rec == [Idle EXCEPT !.kind = "adminChange", !.pc = "findMember",
                              !.actor = actor, !.target = m, !.role = x,
                              !.newSlug = slug[x]]
  <2>1. UNCHANGED db /\ Continue(r, rec)
    BY <1>1 DEF AdminChangeFindRole
  <2>2. rec.kind = "adminChange"
    BY DEF Idle
  <2> HIDE DEF rec, Continue
  <2> QED BY <2>1, <2>2
<1>2. ASSUME NEW m \in Members, NEW actor, AdminRemoveFindMember(r, actor, m)
      PROVE  UNCHANGED db /\ \E rec : Continue(r, rec) /\ rec.kind = "adminRemove"
  <2> DEFINE rec == [Idle EXCEPT !.kind = "adminRemove", !.pc = "count",
                              !.actor = actor, !.target = m,
                              !.seenRole = roleId[m], !.seenText = text[m],
                              !.seenSlug = JoinedSlug(roleId[m])]
  <2>1. UNCHANGED db /\ Continue(r, rec)
    BY <1>2 DEF AdminRemoveFindMember
  <2>2. rec.kind = "adminRemove"
    BY DEF Idle
  <2> HIDE DEF rec, Continue
  <2> QED BY <2>1, <2>2
<1>3. ASSUME NEW m \in Members, NEW x \in Roles, RbacChangeFindRole(r, m, x)
      PROVE  UNCHANGED db /\ \E rec : Continue(r, rec) /\ rec.kind = "rbacChange"
  <2> DEFINE rec == [Idle EXCEPT !.kind = "rbacChange", !.pc = "findMember",
                              !.target = m, !.role = x, !.newSlug = slug[x]]
  <2>1. UNCHANGED db /\ Continue(r, rec)
    BY <1>3 DEF RbacChangeFindRole
  <2>2. rec.kind = "rbacChange"
    BY DEF Idle
  <2> HIDE DEF rec, Continue
  <2> QED BY <2>1, <2>2
<1>4. ASSUME NEW m \in Members, NEW actor, TransferFindDefaults(r, actor, m)
      PROVE  UNCHANGED db /\ \E rec : Continue(r, rec) /\ rec.kind = "transfer"
  <2>1. PICK o, a \in DefaultRoles :
           Continue(r, [Idle EXCEPT !.kind = "transfer", !.pc = "findCurrent",
                           !.actor = actor, !.target = m,
                           !.role = o, !.seenRole = a])
    BY <1>4 DEF TransferFindDefaults
  <2> DEFINE rec == [Idle EXCEPT !.kind = "transfer", !.pc = "findCurrent",
                              !.actor = actor, !.target = m,
                              !.role = o, !.seenRole = a]
  <2>2. UNCHANGED db
    BY <1>4 DEF TransferFindDefaults
  <2>3. rec.kind = "transfer"
    BY DEF Idle
  <2> HIDE DEF rec, Continue
  <2> QED BY <2>1, <2>2, <2>3 DEF rec
<1>5. ASSUME NEW s, NEW g, CreateRoleFindBySlug(r, s, g)
      PROVE  UNCHANGED db /\ \E rec : Continue(r, rec) /\ rec.kind = "createRole"
  <2> DEFINE rec == [Idle EXCEPT !.kind = "createRole", !.pc = "commit",
                              !.newSlug = s, !.grant = g]
  <2>1. UNCHANGED db /\ Continue(r, rec)
    BY <1>5 DEF CreateRoleFindBySlug
  <2>2. rec.kind = "createRole"
    BY DEF Idle
  <2> HIDE DEF rec, Continue
  <2> QED BY <2>1, <2>2
<1>6. ASSUME NEW x \in Roles, NEW s, NEW g, UpdateRoleFindRole(r, x, s, g)
      PROVE  /\ UNCHANGED db
             /\ \E rec : /\ Continue(r, rec) /\ rec.kind = "updateRole"
                         /\ rec.role = x /\ rec.pc = "collision" /\ Exists(x)
  <2> DEFINE rec == [Idle EXCEPT !.kind = "updateRole", !.pc = "collision",
                              !.role = x, !.newSlug = s, !.grant = g,
                              !.seenSlug = slug[x]]
  <2>1. UNCHANGED db /\ Continue(r, rec) /\ Exists(x)
    BY <1>6 DEF UpdateRoleFindRole
  <2>2. rec.kind = "updateRole" /\ rec.role = x /\ rec.pc = "collision"
    BY DEF Idle
  <2> HIDE DEF rec, Continue
  <2> QED BY <2>1, <2>2
<1>7. ASSUME NEW x \in Roles, DeleteRoleFindRole(r, x)
      PROVE  /\ UNCHANGED db
             /\ \E rec : /\ Continue(r, rec) /\ rec.kind = "deleteRole"
                         /\ rec.pc = "findViewer" /\ rec.moved = {}
  <2> DEFINE rec == [Idle EXCEPT !.kind = "deleteRole", !.pc = "findViewer", !.role = x]
  <2>1. UNCHANGED db /\ Continue(r, rec)
    BY <1>7 DEF DeleteRoleFindRole
  <2>2. rec.kind = "deleteRole" /\ rec.pc = "findViewer" /\ rec.moved = {}
    BY DEF Idle
  <2> HIDE DEF rec, Continue
  <2> QED BY <2>1, <2>2
<1>8. UNCHANGED db /\ \E rec :
        /\ Continue(r, rec)
        /\ rec.kind = "updateRole" => Exists(rec.role) /\ rec.pc = "collision"
        /\ rec.kind = "deleteRole" => rec.pc = "findViewer" /\ rec.moved = {}
  <2> HIDE DEF Continue, Begin, At, Finish
  <2> QED BY <1>1, <1>2, <1>3, <1>4, <1>5, <1>6, <1>7 DEF Arrive
<1>9. req[r] = Idle
  <2> HIDE DEF Continue, At, Finish
  <2> QED BY DEF Arrive, Begin, AdminChangeFindRole, AdminRemoveFindMember, RbacChangeFindRole,
          TransferFindDefaults, CreateRoleFindBySlug, UpdateRoleFindRole, DeleteRoleFindRole
<1> HIDE DEF Continue
<1>10. PICK rec :
        /\ Continue(r, rec)
        /\ rec.kind = "updateRole" => Exists(rec.role) /\ rec.pc = "collision"
        /\ rec.kind = "deleteRole" => rec.pc = "findViewer" /\ rec.moved = {}
  BY <1>8
<1>11. req'[r] = rec /\ \A q \in Requests : q # r => req'[q] = req[q]
  BY <1>10 DEF TypeOK, Continue
<1> QED BY <1>8, <1>9, <1>10, <1>11, IdleIsNone

\* Until it ends, a request stays what it is, and it changes no other one.
LEMMA KindKept ==
    ASSUME TypeOK, NEW r \in Requests, Proceed(r)
    PROVE  /\ req'[r].kind \in {req[r].kind, "none"}
           /\ \A q \in Requests : q # r => req'[q] = req[q]
<1>1. req \in [Requests -> Request] /\ req[r] \in Request /\ Idle.kind = "none"
  BY IdleIsNone DEF TypeOK
<1>2. \A rec : Continue(r, rec) =>
        req'[r] = rec /\ \A q \in Requests : q # r => req'[q] = req[q]
  BY <1>1
<1>3. \A pc, a : /\ [req[r] EXCEPT !.pc = pc, !.seenRole = a].kind = req[r].kind
                 /\ [req[r] EXCEPT !.pc = pc, !.seenPerms = a].kind = req[r].kind
                 /\ [req[r] EXCEPT !.pc = pc, !.moved = a].kind = req[r].kind
                 /\ [req[r] EXCEPT !.pc = pc].kind = req[r].kind
  BY <1>1 DEF Request
<1>4. \E rec : Continue(r, rec) /\ rec.kind \in {"none", req[r].kind}
  <2> HIDE DEF Continue
  <2>1. Finish(r) => Continue(r, Idle)
    BY DEF Continue
  <2> HIDE DEF Finish
  <2>2. CASE AdminChangeFindMember(r)
    <3> DEFINE rec == [req[r] EXCEPT !.pc = "count",
                         !.seenRole = roleId[req[r].target], !.seenText = text[req[r].target],
                         !.seenSlug = JoinedSlug(roleId[req[r].target])]
    <3>1. Finish(r) \/ Continue(r, rec)
      BY <2>2 DEF AdminChangeFindMember
    <3>2. rec.kind = req[r].kind
      BY <1>1 DEF Request
    <3> HIDE DEF rec
    <3> QED BY <1>1, <2>1, <3>1, <3>2
  <2>3. CASE AdminCount(r, "adminChange") \/ AdminCount(r, "adminRemove")
    BY <1>1, <1>3, <2>1, <2>3 DEF AdminCount
  <2>4. CASE RbacChangeFindMember(r)
    <3> DEFINE rec == [req[r] EXCEPT
                !.pc = IF roleId[req[r].target] = NoRole THEN "commit" ELSE "findCurrent",
                !.seenRole = roleId[req[r].target]]
    <3>1. Finish(r) \/ Continue(r, rec)
      BY <2>4 DEF RbacChangeFindMember
    <3>2. rec.kind = req[r].kind
      BY <1>1 DEF Request
    <3> HIDE DEF rec
    <3> QED BY <1>1, <2>1, <3>1, <3>2
  <2>5. CASE RbacChangeFindCurrent(r) \/ RbacChangeCount(r)
    BY <1>1, <1>3, <2>1, <2>5 DEF RbacChangeFindCurrent, RbacChangeCount
  <2>6. CASE TransferFindCurrent(r) \/ TransferFindTarget(r)
    BY <1>1, <1>3, <2>1, <2>6 DEF TransferFindCurrent, TransferFindTarget
  <2>7. CASE UpdateRoleCollision(r) \/ UpdateRoleWrite(r)
    <3>1. PICK seen : \/ Finish(r) \/ Continue(r, [req[r] EXCEPT !.pc = "write"])
                      \/ Continue(r, [req[r] EXCEPT !.pc = "commit", !.seenPerms = seen])
      BY <2>7 DEF UpdateRoleCollision, UpdateRoleWrite
    <3>2. /\ [req[r] EXCEPT !.pc = "write"].kind = req[r].kind
          /\ [req[r] EXCEPT !.pc = "commit", !.seenPerms = seen].kind = req[r].kind
      BY <1>3
    <3>3. CASE Continue(r, [req[r] EXCEPT !.pc = "write"])
      BY <3>2, <3>3
    <3>4. CASE Continue(r, [req[r] EXCEPT !.pc = "commit", !.seenPerms = seen])
      BY <3>2, <3>4
    <3> QED BY <1>1, <2>1, <3>1, <3>3, <3>4
  <2>8. CASE DeleteRoleFindViewer(r) \/ DeleteRoleReassign(r)
    <3>1. PICK v : \/ Continue(r, [req[r] EXCEPT !.pc = "reassign", !.seenRole = v])
                   \/ Continue(r, [req[r] EXCEPT !.pc = "commit"])
                   \/ Continue(r, [req[r] EXCEPT !.pc = "commit", !.moved = v])
      BY <2>8 DEF DeleteRoleFindViewer, DeleteRoleReassign
    <3>2. /\ [req[r] EXCEPT !.pc = "reassign", !.seenRole = v].kind = req[r].kind
          /\ [req[r] EXCEPT !.pc = "commit"].kind = req[r].kind
          /\ [req[r] EXCEPT !.pc = "commit", !.moved = v].kind = req[r].kind
      BY <1>3
    <3>3. CASE Continue(r, [req[r] EXCEPT !.pc = "reassign", !.seenRole = v])
      BY <3>2, <3>3
    <3>4. CASE Continue(r, [req[r] EXCEPT !.pc = "commit"])
      BY <3>2, <3>4
    <3>5. CASE Continue(r, [req[r] EXCEPT !.pc = "commit", !.moved = v])
      BY <3>2, <3>5
    <3> QED BY <3>1, <3>3, <3>4, <3>5
  <2>9. CASE Finish(r)
    BY <1>1, <2>1, <2>9
  <2> QED BY <2>2, <2>3, <2>4, <2>5, <2>6, <2>7, <2>8, <2>9 DEF Proceed, AdminChangeCommit,
       AdminRemoveCommit, RbacChangeCommit, TransferCommit, CreateRoleCommit, UpdateRoleCommit,
       DeleteRoleCommit
<1> HIDE DEF Continue, Finish
<1> QED BY <1>2, <1>4

\* Which steps a request takes while it is of its kind.
LEMMA UpdateSteps ==
    ASSUME TypeOK, NEW r \in Requests, Proceed(r), req'[r].kind = "updateRole"
    PROVE  /\ UNCHANGED db
           /\ req[r].kind = "updateRole" /\ req'[r].role = req[r].role
           /\ req'[r].newSlug = req[r].newSlug
           /\ At(r, "updateRole", "commit")' /\ req'[r].newSlug # NoSlug
                => ~RowLocked(req[r].role)
<1>1. req \in [Requests -> Request] /\ req[r] \in Request /\ req[r].kind = "updateRole"
  BY KindKept DEF TypeOK
<1>2. ~Finish(r)
  BY <1>1, IdleIsNone
<1>3. CASE UpdateRoleCollision(r)
  <2> DEFINE rec == [req[r] EXCEPT !.pc = "write"]
  <2>1. UNCHANGED db /\ req'[r] = rec
    BY <1>1, <1>2, <1>3 DEF UpdateRoleCollision
  <2>2. rec.role = req[r].role /\ rec.newSlug = req[r].newSlug /\ rec.pc = "write"
    BY <1>1 DEF Request
  <2> HIDE DEF rec
  <2> QED BY <1>1, <2>1, <2>2
<1>4. CASE UpdateRoleWrite(r)
  <2> DEFINE p == IF req[r].grant = NoGrant THEN {} ELSE perms[req[r].role]
             rec == [req[r] EXCEPT !.pc = "commit", !.seenPerms = p]
  <2>1. /\ UNCHANGED db /\ req'[r] = rec
        /\ req[r].newSlug # NoSlug => ~RowLocked(req[r].role)
    BY <1>1, <1>4 DEF UpdateRoleWrite
  <2>2. rec.role = req[r].role /\ rec.newSlug = req[r].newSlug
    BY <1>1 DEF Request
  <2> HIDE DEF rec
  <2> QED BY <1>1, <2>1, <2>2
<1>5. UpdateRoleCollision(r) \/ UpdateRoleWrite(r)
  <2> HIDE DEF Finish, Continue
  <2> QED BY <1>1, <1>2 DEF Proceed, AdminChangeFindMember, AdminCount,
       AdminChangeCommit, AdminRemoveCommit, RbacChangeFindMember, RbacChangeFindCurrent,
       RbacChangeCount, RbacChangeCommit, TransferFindCurrent, TransferFindTarget,
       TransferCommit, CreateRoleCommit, UpdateRoleCommit, DeleteRoleFindViewer,
       DeleteRoleReassign, DeleteRoleCommit
<1> QED BY <1>3, <1>4, <1>5

LEMMA DeleteSteps ==
    ASSUME TypeOK, NEW r \in Requests, Proceed(r), req'[r].kind = "deleteRole"
    PROVE  /\ UNCHANGED db
           /\ req[r].kind = "deleteRole" /\ req'[r].role = req[r].role
           /\ \/ /\ req[r].pc = "findViewer" /\ req'[r].moved = req[r].moved
                 /\ \/ /\ req'[r].pc = "reassign" /\ req'[r].seenRole \in Roles
                       /\ slug[req'[r].seenRole] = "viewer"
                    \/ /\ req'[r].pc = "commit" /\ req'[r].seenRole = req[r].seenRole
              \/ /\ req[r].pc = "reassign" /\ req'[r].pc = "commit"
                 /\ req'[r].moved = Holders(req[r].role)
                 /\ req'[r].seenRole = req[r].seenRole
                 /\ \A m \in Holders(req[r].role) : ~MemberLocked(m)
<1>1. req \in [Requests -> Request] /\ req[r] \in Request /\ req[r].kind = "deleteRole"
  BY KindKept DEF TypeOK
<1>2. ~Finish(r)
  BY <1>1, IdleIsNone
<1>3. CASE DeleteRoleFindViewer(r)
  <2>1. UNCHANGED db /\ req[r].pc = "findViewer"
    BY <1>3 DEF DeleteRoleFindViewer
  <2>2. ASSUME NEW v \in Roles, slug[v] = "viewer",
               Continue(r, [req[r] EXCEPT !.pc = "reassign", !.seenRole = v])
        PROVE  /\ req'[r].kind = req[r].kind /\ req'[r].role = req[r].role
               /\ req'[r].moved = req[r].moved
               /\ req'[r].pc = "reassign" /\ req'[r].seenRole = v
    <3> DEFINE rec == [req[r] EXCEPT !.pc = "reassign", !.seenRole = v]
    <3>1. req'[r] = rec
      BY <1>1, <2>2
    <3>2. /\ rec.kind = req[r].kind /\ rec.role = req[r].role /\ rec.moved = req[r].moved
          /\ rec.pc = "reassign" /\ rec.seenRole = v
      BY <1>1 DEF Request
    <3> HIDE DEF rec
    <3> QED BY <3>1, <3>2
  <2>3. ASSUME Continue(r, [req[r] EXCEPT !.pc = "commit"])
        PROVE  /\ req'[r].kind = req[r].kind /\ req'[r].role = req[r].role
               /\ req'[r].moved = req[r].moved
               /\ req'[r].pc = "commit" /\ req'[r].seenRole = req[r].seenRole
    <3> DEFINE rec == [req[r] EXCEPT !.pc = "commit"]
    <3>1. req'[r] = rec
      BY <1>1, <2>3
    <3>2. /\ rec.kind = req[r].kind /\ rec.role = req[r].role /\ rec.moved = req[r].moved
          /\ rec.pc = "commit" /\ rec.seenRole = req[r].seenRole
      BY <1>1 DEF Request
    <3> HIDE DEF rec
    <3> QED BY <3>1, <3>2
  <2> HIDE DEF Continue
  <2>4. \/ \E v \in Roles : /\ slug[v] = "viewer"
                            /\ Continue(r, [req[r] EXCEPT !.pc = "reassign", !.seenRole = v])
        \/ Continue(r, [req[r] EXCEPT !.pc = "commit"])
    BY <1>3, Zenon DEF DeleteRoleFindViewer
  <2>5. CASE Continue(r, [req[r] EXCEPT !.pc = "commit"])
    BY <1>1, <2>1, <2>3, <2>5
  <2>6. CASE \E v \in Roles : /\ slug[v] = "viewer"
                            /\ Continue(r, [req[r] EXCEPT !.pc = "reassign", !.seenRole = v])
    <3>1. PICK v \in Roles : /\ slug[v] = "viewer"
                            /\ Continue(r, [req[r] EXCEPT !.pc = "reassign", !.seenRole = v])
      BY <2>6
    <3> QED BY <1>1, <2>1, <2>2, <3>1
  <2> QED BY <2>4, <2>5, <2>6
<1>4. CASE DeleteRoleReassign(r)
  <2> DEFINE rec == [req[r] EXCEPT !.pc = "commit", !.moved = Holders(req[r].role)]
  <2>1. /\ UNCHANGED db /\ req[r].pc = "reassign" /\ req'[r] = rec
        /\ \A m \in Holders(req[r].role) : ~MemberLocked(m)
    BY <1>1, <1>4 DEF DeleteRoleReassign
  <2>2. /\ rec.kind = req[r].kind /\ rec.role = req[r].role
        /\ rec.moved = Holders(req[r].role)
        /\ rec.pc = "commit" /\ rec.seenRole = req[r].seenRole
    BY <1>1 DEF Request
  <2> HIDE DEF rec
  <2> QED BY <1>1, <2>1, <2>2
<1>5. DeleteRoleFindViewer(r) \/ DeleteRoleReassign(r)
  <2> HIDE DEF Finish, Continue
  <2> QED BY <1>1, <1>2 DEF Proceed, AdminChangeFindMember, AdminCount,
       AdminChangeCommit, AdminRemoveCommit, RbacChangeFindMember, RbacChangeFindCurrent,
       RbacChangeCount, RbacChangeCommit, TransferFindCurrent, TransferFindTarget,
       TransferCommit, CreateRoleCommit, UpdateRoleCollision, UpdateRoleWrite,
       UpdateRoleCommit, DeleteRoleCommit
<1> QED BY <1>3, <1>4, <1>5

(***************************************************************************)
(* Rows that a deletion has updated                                        *)
(***************************************************************************)

\* A row id without a row has no role, and what deleteRole has moved so far are
\* members that still hold the role it deletes, each moved by one request only.
HeldInv ==
    /\ \A m \in Members : presence[m] = "absent" => roleId[m] = NoRole
    /\ \A r \in Requests : req[r].kind = "deleteRole" =>
          /\ req[r].pc # "commit" => req[r].moved = {}
          /\ \A m \in req[r].moved : Present(m) /\ roleId[m] = req[r].role
    /\ \A r, p \in Requests :
          req[r].kind = "deleteRole" /\ req[p].kind = "deleteRole" /\ r # p
            => req[r].moved \cap req[p].moved = {}

\* Who changes the record of a request.
LEMMA RecordWriters ==
    ASSUME TypeOK, [Step]_vars, NEW p \in Requests
    PROVE  req'[p] = req[p] \/ Arrive(p) \/ Proceed(p)
<1> HIDE DEF At, Begin, Finish, Continue
<1>1. ASSUME NEW r \in Requests, Arrive(r) \/ Proceed(r), p # r
      PROVE  req'[p] = req[p]
  BY <1>1, ArrivesAs, KindKept
<1> QED BY <1>1 DEF Step, Listener, SeedDefaultRoles, AssignOwner, LoseSetup, AcceptInvitation, vars

\* Who writes the rows of members.
LEMMA RowWriters ==
    ASSUME TypeOK, [Step]_vars
    PROVE  \/ UNCHANGED <<presence, roleId, text>>
           \/ AssignOwner
           \/ \E m \in Members, s \in InviteSlugs : AcceptInvitation(m, s)
           \/ \E r \in Requests :
                \/ AdminChangeCommit(r) \/ AdminRemoveCommit(r) \/ RbacChangeCommit(r)
                \/ TransferCommit(r) \/ DeleteRoleCommit(r)
<1> HIDE DEF At, Begin, Finish, Continue
<1>1. ASSUME NEW r \in Requests, Arrive(r)
      PROVE  UNCHANGED <<presence, roleId, text>>
  BY <1>1, ArrivesAs DEF db
<1>2. ASSUME NEW r \in Requests, Proceed(r)
      PROVE  \/ UNCHANGED <<presence, roleId, text>>
             \/ AdminChangeCommit(r) \/ AdminRemoveCommit(r) \/ RbacChangeCommit(r)
             \/ TransferCommit(r) \/ DeleteRoleCommit(r)
  BY <1>2 DEF Proceed, db, AdminChangeFindMember, AdminCount, RbacChangeFindMember,
     RbacChangeFindCurrent, RbacChangeCount, TransferFindCurrent, TransferFindTarget,
     CreateRoleCommit, UpdateRoleCollision, UpdateRoleWrite, UpdateRoleCommit,
     DeleteRoleFindViewer, DeleteRoleReassign
<1> QED BY <1>1, <1>2 DEF Step, Listener, SeedDefaultRoles, LoseSetup, vars

\* The lock of a moved row keeps every other request from writing it.
LEMMA MovedStays ==
    ASSUME TypeOK, HeldInv, [Step]_vars, NEW r \in Requests, req[r].kind = "deleteRole",
           req'[r] = req[r], NEW m \in Members, m \in req[r].moved
    PROVE  presence'[m] = presence[m] /\ roleId'[m] = roleId[m]
<1>1. /\ MemberLocked(m) /\ Present(m) /\ req[r].pc = "commit"
      /\ presence \in [Members -> {"absent", "present", "removed"}]
      /\ roleId \in [Members -> RoleRefs]
  BY DEF HeldInv, MemberLocked, TypeOK
<1>2. CASE AssignOwner
  <2>1. Creator # m
    BY <1>1, <1>2 DEF AssignOwner
  <2> QED BY <1>1, <1>2, <2>1 DEF AssignOwner
<1>3. ASSUME NEW n \in Members, NEW s \in InviteSlugs, AcceptInvitation(n, s)
      PROVE  presence'[m] = presence[m] /\ roleId'[m] = roleId[m]
  <2>1. n # m
    BY <1>1, <1>3 DEF AcceptInvitation, Present
  <2> QED BY <1>1, <1>3, <2>1 DEF AcceptInvitation
<1>4. ASSUME NEW q \in Requests, AdminChangeCommit(q)
      PROVE  presence'[m] = presence[m] /\ roleId'[m] = roleId[m]
  <2>1. req[q].target # m
    BY <1>1, <1>4 DEF AdminChangeCommit
  <2> QED BY <1>1, <1>4, <2>1 DEF AdminChangeCommit
<1>5. ASSUME NEW q \in Requests, AdminRemoveCommit(q)
      PROVE  presence'[m] = presence[m] /\ roleId'[m] = roleId[m]
  <2>1. req[q].target # m
    BY <1>1, <1>5 DEF AdminRemoveCommit
  <2> QED BY <1>1, <1>5, <2>1 DEF AdminRemoveCommit
<1>6. ASSUME NEW q \in Requests, RbacChangeCommit(q)
      PROVE  presence'[m] = presence[m] /\ roleId'[m] = roleId[m]
  <2>1. req[q].target # m
    BY <1>1, <1>6 DEF RbacChangeCommit
  <2> QED BY <1>1, <1>6, <2>1 DEF RbacChangeCommit
<1>7. ASSUME NEW q \in Requests, TransferCommit(q)
      PROVE  presence'[m] = presence[m] /\ roleId'[m] = roleId[m]
  <2>1. req[q].target # m /\ req[q].actor # m
    BY <1>1, <1>7 DEF TransferCommit
  <2> QED BY <1>1, <1>7, <2>1 DEF TransferCommit
<1>8. ASSUME NEW q \in Requests, DeleteRoleCommit(q)
      PROVE  presence'[m] = presence[m] /\ roleId'[m] = roleId[m]
  <2>1. req[q].kind = "deleteRole" /\ req'[q] = Idle
    BY <1>8 DEF DeleteRoleCommit, TypeOK
  <2>2. q # r
    BY <2>1, IdleIsNone
  <2>3. m \notin req[q].moved
    BY <2>1, <2>2 DEF HeldInv
  <2> QED BY <1>8, <2>3 DEF DeleteRoleCommit
<1> HIDE DEF At, Finish
<1> QED BY <1>2, <1>3, <1>4, <1>5, <1>6, <1>7, <1>8, RowWriters

\* Only members that are present get a role.
LEMMA AbsentStay ==
    ASSUME TypeOK, HeldInv, [Step]_vars, NEW m \in Members, presence'[m] = "absent"
    PROVE  roleId'[m] = NoRole
<1>1. /\ presence \in [Members -> {"absent", "present", "removed"}]
      /\ roleId \in [Members -> RoleRefs]
  BY DEF TypeOK
<1>2. ASSUME presence[m] = "absent", roleId'[m] = roleId[m] PROVE roleId'[m] = NoRole
  BY <1>2 DEF HeldInv
<1>3. CASE AssignOwner
  BY <1>1, <1>2, <1>3 DEF AssignOwner, Present
<1>4. ASSUME NEW n \in Members, NEW s \in InviteSlugs, AcceptInvitation(n, s)
      PROVE  roleId'[m] = NoRole
  BY <1>1, <1>2, <1>4 DEF AcceptInvitation
<1>5. ASSUME NEW q \in Requests, AdminChangeCommit(q) PROVE roleId'[m] = NoRole
  BY <1>1, <1>2, <1>5 DEF AdminChangeCommit, Present
<1>6. ASSUME NEW q \in Requests, AdminRemoveCommit(q) PROVE roleId'[m] = NoRole
  BY <1>1, <1>2, <1>6 DEF AdminRemoveCommit, Present
<1>7. ASSUME NEW q \in Requests, RbacChangeCommit(q) PROVE roleId'[m] = NoRole
  BY <1>1, <1>2, <1>7 DEF RbacChangeCommit, Present
<1>8. ASSUME NEW q \in Requests, TransferCommit(q) PROVE roleId'[m] = NoRole
  BY <1>1, <1>2, <1>8 DEF TransferCommit, Present
<1>9. ASSUME NEW q \in Requests, DeleteRoleCommit(q) PROVE roleId'[m] = NoRole
  <2>1. req[q].kind = "deleteRole" /\ presence' = presence
    BY <1>9 DEF DeleteRoleCommit
  <2>2. m \notin req[q].moved
    BY <2>1 DEF HeldInv, Present
  <2> QED BY <1>2, <1>9, <2>1, <2>2 DEF DeleteRoleCommit
<1>10. CASE UNCHANGED <<presence, roleId, text>>
  BY <1>2, <1>10
<1> HIDE DEF At, Finish
<1> QED BY <1>3, <1>4, <1>5, <1>6, <1>7, <1>8, <1>9, <1>10, RowWriters

\* What becomes of the record of a deletion.
LEMMA DeletionGoesOn ==
    ASSUME TypeOK, HeldInv, [Step]_vars, NEW r \in Requests, req'[r].kind = "deleteRole"
    PROVE  \/ req'[r] = req[r]
           \/ req'[r].moved = {}
           \/ /\ req[r].kind = "deleteRole" /\ req'[r].role = req[r].role
              /\ req'[r].pc = "commit" /\ UNCHANGED db
              /\ req'[r].moved = Holders(req[r].role)
              /\ \A m \in Holders(req[r].role) : ~MemberLocked(m)
<1> HIDE DEF At, Finish
<1>1. CASE Arrive(r)
  BY <1>1, ArrivesAs
<1>2. CASE Proceed(r)
  BY <1>2, DeleteSteps DEF HeldInv
<1> QED BY <1>1, <1>2, RecordWriters

LEMMA HeldStep == TypeOK /\ HeldInv /\ [Step]_vars => HeldInv'
<1> SUFFICES ASSUME TypeOK, HeldInv, [Step]_vars PROVE HeldInv'
  OBVIOUS
<1> TypeOK'
  BY NextType
<1>1. ASSUME NEW r \in Requests, req'[r].kind = "deleteRole"
      PROVE  /\ req'[r].pc # "commit" => req'[r].moved = {}
             /\ \A m \in req'[r].moved : Present(m)' /\ roleId'[m] = req'[r].role
  <2>1. CASE req'[r] = req[r]
    <3>1. req[r].moved \subseteq Members
      BY DEF TypeOK, Request
    <3> QED BY <1>1, <2>1, <3>1, MovedStays DEF HeldInv, Present
  <2>2. CASE req'[r].moved = {}
    BY <2>2
  <2>3. CASE /\ req'[r].role = req[r].role
             /\ req'[r].pc = "commit" /\ UNCHANGED db
             /\ req'[r].moved = Holders(req[r].role)
    BY <2>3 DEF Holders, Present, db
  <2> QED BY <1>1, <2>1, <2>2, <2>3, DeletionGoesOn
<1>2. ASSUME NEW r \in Requests, NEW p \in Requests, r # p,
             req'[r].kind = "deleteRole", req'[p].kind = "deleteRole",
             req'[p] = req[p]
      PROVE  req'[r].moved \cap req'[p].moved = {}
  <2>1. CASE req'[r] = req[r]
    BY <1>2, <2>1 DEF HeldInv
  <2>2. CASE req'[r].moved = {}
    BY <2>2
  <2>3. CASE /\ req'[r].moved = Holders(req[r].role)
             /\ \A m \in Holders(req[r].role) : ~MemberLocked(m)
    BY <1>2, <2>3 DEF HeldInv, MemberLocked
  <2> QED BY <1>2, <2>1, <2>2, <2>3, DeletionGoesOn
<1>3. ASSUME NEW r \in Requests, NEW p \in Requests, r # p
      PROVE  req'[p] = req[p] \/ req'[r] = req[r]
  <2> HIDE DEF At, Begin, Finish, Continue
  <2>1. ASSUME NEW q \in Requests, Arrive(q) \/ Proceed(q)
        PROVE  req'[p] = req[p] \/ req'[r] = req[r]
    BY <1>3, <2>1, ArrivesAs, KindKept
  <2> QED BY <2>1 DEF Step, Listener, SeedDefaultRoles, AssignOwner, LoseSetup, AcceptInvitation, vars
<1>4. \A r, p \in Requests :
          req'[r].kind = "deleteRole" /\ req'[p].kind = "deleteRole" /\ r # p
            => req'[r].moved \cap req'[p].moved = {}
  BY <1>2, <1>3
<1> QED BY <1>1, <1>4, AbsentStay DEF HeldInv

LEMMA HeldBegins == Init => HeldInv
BY IdleIsNone DEF Init, HeldInv

(***************************************************************************)
(* Removed members                                                         *)
(***************************************************************************)

\* What a step leaves of the row of member m when it was removed.
StaysOut(m) ==
    presence[m] = "removed" =>
        presence'[m] = "removed" /\ roleId'[m] = roleId[m] /\ text'[m] = text[m]

\* The commits look for the row again: none of them finds a removed one.
LEMMA CommitsStayOut ==
    ASSUME TypeOK, HeldInv, NEW m \in Members, NEW r \in Requests,
           \/ AdminChangeCommit(r) \/ AdminRemoveCommit(r) \/ RbacChangeCommit(r)
           \/ TransferCommit(r) \/ DeleteRoleCommit(r)
    PROVE  StaysOut(m)
<1> SUFFICES ASSUME presence[m] = "removed"
             PROVE  /\ presence'[m] = "removed"
                    /\ roleId'[m] = roleId[m] /\ text'[m] = text[m]
  BY DEF StaysOut
<1>1. /\ ~Present(m) /\ req[r].target \in Members
      /\ presence \in [Members -> {"absent", "present", "removed"}]
      /\ roleId \in [Members -> RoleRefs] /\ text \in [Members -> Slugs]
  BY DEF TypeOK, Present, Request
<1> HIDE DEF At, Finish
<1>2. CASE AdminChangeCommit(r)
  <2>1. Present(req[r].target) => req[r].target # m
    BY <1>1
  <2> QED BY <1>1, <1>2, <2>1 DEF AdminChangeCommit
<1>3. CASE AdminRemoveCommit(r)
  <2>1. Present(req[r].target) => req[r].target # m
    BY <1>1
  <2> QED BY <1>1, <1>3, <2>1 DEF AdminRemoveCommit
<1>4. CASE RbacChangeCommit(r)
  <2>1. Present(req[r].target) => req[r].target # m
    BY <1>1
  <2> QED BY <1>1, <1>4, <2>1 DEF RbacChangeCommit
<1>5. CASE TransferCommit(r)
  BY <1>1, <1>5 DEF TransferCommit
<1>6. CASE DeleteRoleCommit(r)
  <2>1. m \notin req[r].moved
    BY <1>1, <1>6 DEF DeleteRoleCommit, HeldInv, At
  <2> QED BY <1>1, <1>6, <2>1 DEF DeleteRoleCommit
<1> QED BY <1>2, <1>3, <1>4, <1>5, <1>6

LEMMA RemovedStep ==
    ASSUME TypeOK, HeldInv, [Step]_vars, NEW m \in Members
    PROVE  StaysOut(m)
<1> HIDE DEF At, Begin, Finish, Continue
<1>1. CASE UNCHANGED <<presence, roleId, text>>
  BY <1>1 DEF StaysOut
<1>2. CASE AssignOwner
  BY <1>2 DEF AssignOwner, StaysOut, TypeOK, Present
<1>3. ASSUME NEW n \in Members, NEW s \in InviteSlugs, AcceptInvitation(n, s)
      PROVE  StaysOut(m)
  BY <1>3 DEF AcceptInvitation, StaysOut, TypeOK
<1> QED BY <1>1, <1>2, <1>3, CommitsStayOut, RowWriters

\* However many requests overlap, one that read a member before its removal
\* neither brings the row back nor writes to it.
THEOREM RemovedMembersStayOut == Spec => RemovedStaysOut
<1>1. TypeOK /\ HeldInv /\ [Step]_vars
        => [\A m \in Members : presence[m] = "removed" =>
              /\ presence'[m] = "removed"
              /\ roleId'[m] = roleId[m] /\ text'[m] = text[m]]_vars
  BY RemovedStep DEF StaysOut
<1> QED BY <1>1, InitType, NextType, NextIsStep, HeldBegins, HeldStep, PTL DEF Spec, RemovedStaysOut

(***************************************************************************)
(* What a request that moves members may rely on until it is overtaken     *)
(***************************************************************************)

OtherOwner(m) == \E o \in Owners : o # m

\* While Owner has its name: the snapshot of an owner says so, a passed guard
\* means another owner, and a transfer goes from an owner to somebody who is not.
SnapshotHolds(q) ==
    /\ q.kind \in {"adminChange", "adminRemove"} /\ q.pc = "count"
         => (q.target \in Owners
               => q.seenRole = OwnerRole /\ q.seenSlug = "owner")
    /\ q.kind = "adminChange" /\ q.pc = "commit"
         => (q.target \in Owners => q.role = OwnerRole \/ OtherOwner(q.target))
    /\ q.kind = "adminRemove" /\ q.pc = "commit"
         => (q.target \in Owners => OtherOwner(q.target))
    /\ q.kind = "rbacChange"
         => /\ q.newSlug = "owner" => q.role = OwnerRole
            /\ q.pc \in {"findCurrent", "count"} /\ q.target \in Owners
                 => q.seenRole = OwnerRole
            /\ q.pc = "commit" /\ q.target \in Owners
                 => q.role = OwnerRole \/ OtherOwner(q.target)
    /\ q.kind = "transfer"
         => /\ q.role = OwnerRole /\ q.seenRole # OwnerRole
            /\ q.pc \in {"findTarget", "commit"} => q.actor \in Owners
            /\ q.pc = "commit" => Present(q.target) /\ q.target \notin Owners
    /\ q.kind = "deleteRole" => q.seenRole # OwnerRole

\* The roles a request gives are rows, and a deletion has moved every holder.
RefsHold(q) ==
    /\ q.kind \in {"adminChange", "rbacChange"} => Exists(q.role)
    /\ q.kind = "transfer" => Exists(q.role) /\ Exists(q.seenRole)
    /\ q.kind = "deleteRole" =>
         /\ q.pc = "findViewer" => q.seenRole = NoRole
         /\ q.seenRole # NoRole => Exists(q.seenRole)
         /\ q.seenRole # NoRole /\ q.pc = "commit" => Holders(q.role) \subseteq q.moved

OwnerCauses == {"owners", "names", "target"}

Trusted(r) ==
    /\ req[r].kind \in MovingKinds /\ slug[OwnerRole] = "owner"
         /\ overtaken[r] \cap OwnerCauses = {} => SnapshotHolds(req[r])
    /\ req[r].kind \in MovingKinds /\ "role" \notin overtaken[r] => RefsHold(req[r])

TrustInv == \A r \in Requests : Trusted(r)

LEMMA OwnerIsRole == OwnerRole \in Roles /\ OwnerRole # NoRole
BY RolesAssumption DEF Roles

\* Seeded roles cannot be deleted.
LEMMA DefaultsStay ==
    ASSUME TypeOK, [Step]_vars, NEW x \in DefaultRoles, Exists(x)
    PROVE  slug'[x] \in Slugs
<1> HIDE DEF At, Finish
<1>1. x \in Roles /\ x \notin CustomRoles /\ slug[x] \in Slugs
  BY RolesAssumption DEF Roles, Exists
<1>2. CASE SeedDefaultRoles
  BY <1>1, <1>2, SlugsAssumption DEF SeedDefaultRoles
<1>3. ASSUME NEW r \in Requests, CreateRoleCommit(r) PROVE slug'[x] \in Slugs
  BY <1>1, <1>3 DEF CreateRoleCommit, FreshIds, TypeOK
<1>4. ASSUME NEW r \in Requests, UpdateRoleCommit(r) PROVE slug'[x] \in Slugs
  <2>1. req[r].newSlug \in Slugs \cup {NoSlug}
    BY DEF TypeOK, Request
  <2> QED BY <1>1, <1>4, <2>1 DEF UpdateRoleCommit, TypeOK
<1>5. ASSUME NEW r \in Requests, DeleteRoleCommit(r) PROVE slug'[x] \in Slugs
  <2>1. req[r].role \in CustomRoles
    BY <1>5 DEF DeleteRoleCommit, TypeOK, WellFormed, At
  <2> QED BY <1>1, <1>5, <2>1 DEF DeleteRoleCommit, TypeOK
<1> QED BY <1>1, <1>2, <1>3, <1>4, <1>5, SlugWriters

\* A request that takes no step keeps its trust, or has been overtaken.
LEMMA OthersTrust ==
    ASSUME TypeOK, TrustInv, [Step]_vars, Watch, NEW p \in Requests, req'[p] = req[p]
    PROVE  Trusted(p)'
<1> SUFFICES ASSUME req[p].kind \in MovingKinds PROVE Trusted(p)'
  BY DEF Trusted
<1>1. overtaken'[p] = overtaken[p] \cup Overtaking(req[p])
  BY DEF Watch
<1>2. Trusted(p) /\ req[p] \in Request /\ WellFormed(req[p])
  BY DEF TrustInv, TypeOK
<1>3. ASSUME slug'[OwnerRole] = "owner", overtaken'[p] \cap OwnerCauses = {}
      PROVE  SnapshotHolds(req[p])'
  <2>1. Owners' = Owners /\ slug[OwnerRole] = "owner"
    BY <1>1, <1>3 DEF Overtaking, Causes, OwnerCauses
  <2>2. req[p].kind = "transfer" => presence'[req[p].target] = presence[req[p].target]
    BY <1>1, <1>3 DEF Overtaking, Causes, OwnerCauses
  <2>3. SnapshotHolds(req[p])
    BY <1>1, <1>2, <1>3, <2>1 DEF Trusted
  <2>4. \A m : OtherOwner(m)' = OtherOwner(m)
    BY <2>1 DEF OtherOwner
  <2> QED BY <2>1, <2>2, <2>3, <2>4 DEF SnapshotHolds, Present
<1>4. ASSUME "role" \notin overtaken'[p]
      PROVE  RefsHold(req[p])'
  <2>1. /\ Given(req[p]) \in Roles /\ Exists(Given(req[p])) => slug'[Given(req[p])] \in Slugs
        /\ req[p].kind = "deleteRole" /\ req[p].pc = "commit"
             => Holders(req[p].role)' \subseteq Holders(req[p].role)
    BY <1>1, <1>4 DEF Overtaking, Causes
  <2>2. RefsHold(req[p])
    BY <1>1, <1>2, <1>4 DEF Trusted
  <2>3. CASE req[p].kind \in {"adminChange", "rbacChange"}
    BY <1>2, <2>1, <2>2, <2>3 DEF RefsHold, Given, WellFormed, Exists
  <2>4. CASE req[p].kind = "transfer"
    BY <1>2, <2>2, <2>4, DefaultsStay DEF RefsHold, WellFormed, Exists
  <2>5. CASE req[p].kind = "deleteRole"
    <3>1. req[p].seenRole \in RoleRefs
      BY <1>2 DEF Request
    <3> QED BY <1>2, <2>1, <2>2, <2>5, <3>1 DEF RefsHold, Given, Exists, RoleRefs
  <2>6. CASE req[p].kind = "adminRemove"
    BY <2>6 DEF RefsHold
  <2> QED BY <2>3, <2>4, <2>5, <2>6 DEF MovingKinds, MembershipKinds
<1> QED BY <1>3, <1>4 DEF Trusted

\* A step of a request that only reads: what it now relies on must follow from
\* what it relied on before, if it was in flight.
LEMMA ReadStep ==
    ASSUME TypeOK, TrustInv, Watch, UNCHANGED db, NEW r \in Requests, NEW q, Continue(r, q),
           q.kind \in MovingKinds =>
             /\ slug[OwnerRole] = "owner" /\ (req[r].kind = q.kind => SnapshotHolds(req[r]))
                  => SnapshotHolds(q)
             /\ (req[r].kind = q.kind => RefsHold(req[r])) => RefsHold(q)
    PROVE  Trusted(r)'
<1>1. req'[r] = q
  BY DEF TypeOK
<1> HIDE DEF Continue
<1> SUFFICES ASSUME q.kind \in MovingKinds PROVE Trusted(r)'
  BY <1>1 DEF Trusted
<1>2. /\ UNCHANGED slug
      /\ \A x : Holders(x)' = Holders(x) /\ Exists(x)' = Exists(x)
      /\ \A m : Present(m)' = Present(m)
  BY DEF db, Holders, Present, Exists
<1>3. Owners' = Owners
  BY <1>2 DEF Owners
<1>4. \A m : OtherOwner(m)' = OtherOwner(m)
  BY <1>3 DEF OtherOwner
<1>5. SnapshotHolds(q) => SnapshotHolds(req[r])'
  BY <1>1, <1>2, <1>3, <1>4 DEF SnapshotHolds
<1>6. RefsHold(q) => RefsHold(req[r])'
  BY <1>1, <1>2 DEF RefsHold
<1>7. req[r].kind = q.kind => overtaken[r] \subseteq overtaken'[r]
  BY <1>1 DEF Watch
<1>8. Trusted(r)
  BY DEF TrustInv
<1>9. ASSUME slug'[OwnerRole] = "owner", overtaken'[r] \cap OwnerCauses = {}
      PROVE  SnapshotHolds(req[r])'
  BY <1>2, <1>5, <1>7, <1>8, <1>9 DEF Trusted
<1>10. ASSUME "role" \notin overtaken'[r]
       PROVE  RefsHold(req[r])'
  BY <1>6, <1>7, <1>8, <1>10 DEF Trusted
<1> QED BY <1>9, <1>10 DEF Trusted

\* A request that ends, or that moves nobody, relies on nothing.
LEMMA NothingToTrust ==
    ASSUME NEW r \in Requests, req'[r].kind \notin MovingKinds
    PROVE  Trusted(r)'
BY DEF Trusted

\* Who owns the Owner role sees it joined under its slug.
LEMMA OwnerSnapshot ==
    ASSUME slug[OwnerRole] = "owner", NEW m \in Members, m \in Owners
    PROVE  roleId[m] = OwnerRole /\ JoinedSlug(OwnerRole) = "owner"
BY OwnerIsRole, SlugsAssumption DEF JoinedSlug, Owners, Holders, Exists

\* Only one role is called "owner".
LEMMA OneOwnerName ==
    ASSUME SlugsUnique, slug[OwnerRole] = "owner", NEW x \in Roles, slug[x] = "owner"
    PROVE  x = OwnerRole
BY OwnerIsRole, SlugsAssumption DEF SlugsUnique, Exists

\* The first step of every handler.
LEMMA ArriveTrust ==
    ASSUME TypeOK, SlugsUnique, TrustInv, Watch, NEW r \in Requests, Arrive(r)
    PROVE  Trusted(r)'
<1>0. UNCHANGED db /\ req[r].kind = "none"
  BY ArrivesAs
<1>1. ASSUME NEW m \in Members, NEW actor \in {m, Outsider}, NEW x \in Roles,
             AdminChangeFindRole(r, actor, m, x)
      PROVE  Trusted(r)'
  <2> DEFINE q == [Idle EXCEPT !.kind = "adminChange", !.pc = "findMember",
                     !.actor = actor, !.target = m, !.role = x, !.newSlug = slug[x]]
  <2>1. q.kind = "adminChange" /\ q.pc = "findMember" /\ q.role = x
    BY DEF Idle
  <2>2. Continue(r, q) /\ Exists(x)
    BY <1>1 DEF AdminChangeFindRole
  <2> HIDE DEF q, Continue
  <2>3. SnapshotHolds(q) /\ RefsHold(q)
    BY <2>1, <2>2 DEF SnapshotHolds, RefsHold
  <2> QED BY <1>0, <2>2, <2>3, ReadStep
<1>2. ASSUME NEW m \in Members, NEW actor \in {m, Outsider}, AdminRemoveFindMember(r, actor, m)
      PROVE  Trusted(r)'
  <2> DEFINE q == [Idle EXCEPT !.kind = "adminRemove", !.pc = "count",
                     !.actor = actor, !.target = m,
                     !.seenRole = roleId[m], !.seenText = text[m],
                     !.seenSlug = JoinedSlug(roleId[m])]
  <2>1. /\ q.kind = "adminRemove" /\ q.pc = "count" /\ q.target = m
        /\ q.seenRole = roleId[m] /\ q.seenSlug = JoinedSlug(roleId[m])
    BY DEF Idle
  <2>2. Continue(r, q)
    BY <1>2 DEF AdminRemoveFindMember
  <2> HIDE DEF q, Continue
  <2>3. slug[OwnerRole] = "owner" => SnapshotHolds(q)
    BY <2>1, OwnerSnapshot DEF SnapshotHolds
  <2>4. RefsHold(q)
    BY <2>1 DEF RefsHold
  <2> QED BY <1>0, <2>2, <2>3, <2>4, ReadStep
<1>3. ASSUME NEW m \in Members, NEW x \in Roles, RbacChangeFindRole(r, m, x)
      PROVE  Trusted(r)'
  <2> DEFINE q == [Idle EXCEPT !.kind = "rbacChange", !.pc = "findMember",
                     !.target = m, !.role = x, !.newSlug = slug[x]]
  <2>1. /\ q.kind = "rbacChange" /\ q.pc = "findMember" /\ q.role = x
        /\ q.newSlug = slug[x]
    BY DEF Idle
  <2>2. Continue(r, q) /\ Exists(x)
    BY <1>3 DEF RbacChangeFindRole
  <2> HIDE DEF q, Continue
  <2>3. slug[OwnerRole] = "owner" => SnapshotHolds(q)
    BY <2>1, OneOwnerName DEF SnapshotHolds
  <2>4. RefsHold(q)
    BY <2>1, <2>2 DEF RefsHold
  <2> QED BY <1>0, <2>2, <2>3, <2>4, ReadStep
<1>4. ASSUME NEW actor \in Members, NEW m \in Members, TransferFindDefaults(r, actor, m)
      PROVE  Trusted(r)'
  <2>1. PICK o \in DefaultRoles, a \in DefaultRoles :
          /\ slug[o] = "owner" /\ slug[a] = "admin"
          /\ Continue(r, [Idle EXCEPT !.kind = "transfer", !.pc = "findCurrent",
                             !.actor = actor, !.target = m, !.role = o, !.seenRole = a])
    BY <1>4 DEF TransferFindDefaults
  <2> DEFINE q == [Idle EXCEPT !.kind = "transfer", !.pc = "findCurrent",
                     !.actor = actor, !.target = m, !.role = o, !.seenRole = a]
  <2>2. q.kind = "transfer" /\ q.pc = "findCurrent" /\ q.role = o /\ q.seenRole = a
    BY DEF Idle
  <2>3. Continue(r, q)
    BY <2>1
  <2> HIDE DEF q, Continue
  <2>4. Exists(o) /\ Exists(a) /\ o \in Roles
    BY <2>1, SlugsAssumption DEF Exists, Roles
  <2>5. slug[OwnerRole] = "owner" => SnapshotHolds(q)
    BY <2>1, <2>2, <2>4, OneOwnerName DEF SnapshotHolds
  <2>6. RefsHold(q)
    BY <2>2, <2>4 DEF RefsHold
  <2> QED BY <1>0, <2>3, <2>5, <2>6, ReadStep
<1>5. ASSUME NEW x \in Roles, DeleteRoleFindRole(r, x)
      PROVE  Trusted(r)'
  <2> DEFINE q == [Idle EXCEPT !.kind = "deleteRole", !.pc = "findViewer", !.role = x]
  <2>1. q.kind = "deleteRole" /\ q.pc = "findViewer" /\ q.seenRole = NoRole
    BY DEF Idle
  <2>2. Continue(r, q)
    BY <1>5 DEF DeleteRoleFindRole
  <2> HIDE DEF q, Continue
  <2>3. SnapshotHolds(q) /\ RefsHold(q)
    BY <2>1, OwnerIsRole DEF SnapshotHolds, RefsHold
  <2> QED BY <1>0, <2>2, <2>3, ReadStep
<1>6. ASSUME NEW s, NEW g, CreateRoleFindBySlug(r, s, g)
      PROVE  Trusted(r)'
  <2> DEFINE q == [Idle EXCEPT !.kind = "createRole", !.pc = "commit", !.newSlug = s, !.grant = g]
  <2>1. req'[r] = q
    BY <1>6 DEF CreateRoleFindBySlug, TypeOK
  <2>2. q.kind = "createRole"
    BY DEF Idle
  <2> QED BY <2>1, <2>2, NothingToTrust DEF MovingKinds, MembershipKinds
<1>7. ASSUME NEW x, NEW s, NEW g, UpdateRoleFindRole(r, x, s, g)
      PROVE  Trusted(r)'
  <2> DEFINE q == [Idle EXCEPT !.kind = "updateRole", !.pc = "collision",
                     !.role = x, !.newSlug = s, !.grant = g, !.seenSlug = slug[x]]
  <2>1. req'[r] = q
    BY <1>7 DEF UpdateRoleFindRole, TypeOK
  <2>2. q.kind = "updateRole"
    BY DEF Idle
  <2> QED BY <2>1, <2>2, NothingToTrust DEF MovingKinds, MembershipKinds
<1> HIDE DEF Continue, Begin, At, Finish
<1> QED BY <1>1, <1>2, <1>3, <1>4, <1>5, <1>6, <1>7 DEF Arrive

\* A guard that counted two owners leaves another one besides the target.
LEMMA TwoOwners ==
    ASSUME NEW m \in Owners, ~(Cardinality(Owners) <= 1)
    PROVE  OtherOwner(m)
<1> SUFFICES ASSUME ~OtherOwner(m) PROVE FALSE
  OBVIOUS
<1>1. Owners \subseteq {m}
  BY DEF OtherOwner
<1>2. IsFiniteSet({m}) /\ Cardinality({m}) = 1
  BY FS_Singleton
<1>3. Cardinality(Owners) <= 1
  BY <1>1, <1>2, FS_Subset
<1>4. QED
  BY <1>3

\* The reads of PATCH and DELETE /api/admin/members/:memberId.
LEMMA AdminReadTrust ==
    ASSUME TypeOK, SlugsUnique, TrustInv, Watch, NEW r \in Requests,
           \/ AdminChangeFindMember(r)
           \/ AdminCount(r, "adminChange") \/ AdminCount(r, "adminRemove")
    PROVE  Trusted(r)'
<1>1. req[r] \in Request /\ WellFormed(req[r])
  BY DEF TypeOK
<1>2. req[r].target \in Members
  BY <1>1 DEF Request
<1>3. Finish(r) => Trusted(r)'
  BY NothingToTrust, IdleIsNone DEF TypeOK, MovingKinds, MembershipKinds
<1> HIDE DEF Finish
<1>4. CASE AdminChangeFindMember(r)
  <2> DEFINE m == req[r].target
             q == [req[r] EXCEPT !.pc = "count",
                     !.seenRole = roleId[m], !.seenText = text[m],
                     !.seenSlug = JoinedSlug(roleId[m])]
  <2>1. /\ q.kind = req[r].kind /\ q.kind = "adminChange" /\ q.pc = "count" /\ q.target = m
        /\ q.role = req[r].role
        /\ q.seenRole = roleId[m] /\ q.seenSlug = JoinedSlug(roleId[m])
    BY <1>1, <1>4 DEF AdminChangeFindMember, Request
  <2>2. UNCHANGED db /\ (Finish(r) \/ Continue(r, q))
    BY <1>4 DEF AdminChangeFindMember
  <2> HIDE DEF q, Continue
  <2>3. slug[OwnerRole] = "owner" => SnapshotHolds(q)
    BY <1>2, <2>1, OwnerSnapshot DEF SnapshotHolds
  <2>4. RefsHold(req[r]) => RefsHold(q)
    BY <2>1 DEF RefsHold
  <2> QED BY <1>3, <2>1, <2>2, <2>3, <2>4, ReadStep
<1>5. ASSUME NEW kind \in {"adminChange", "adminRemove"}, AdminCount(r, kind)
      PROVE  Trusted(r)'
  <2> DEFINE q == [req[r] EXCEPT !.pc = "commit"]
  <2>1. /\ q.kind = kind /\ q.pc = "commit" /\ req[r].kind = kind /\ req[r].pc = "count"
        /\ q.target = req[r].target /\ q.role = req[r].role
    BY <1>1, <1>5 DEF AdminCount, Request
  <2>2. CASE LastOwnerBySnapshot(req[r])
    BY <1>3, <1>5, <2>2 DEF AdminCount
  <2>3. CASE ~LastOwnerBySnapshot(req[r])
    <3>1. UNCHANGED db /\ Continue(r, q)
      BY <1>5, <2>3 DEF AdminCount
    <3> HIDE DEF q, Continue
    <3>2. ASSUME SnapshotHolds(req[r]), req[r].target \in Owners
          PROVE  OtherOwner(req[r].target)
      <4>1. req[r].seenRole = OwnerRole /\ req[r].seenSlug = "owner"
        BY <2>1, <3>2 DEF SnapshotHolds
      <4>2. ~(Cardinality(Owners) <= 1)
        BY <2>3, <4>1 DEF LastOwnerBySnapshot, Owners
      <4> QED BY <3>2, <4>2, TwoOwners
    <3>3. SnapshotHolds(req[r]) => SnapshotHolds(q)
      BY <2>1, <3>2 DEF SnapshotHolds
    <3>4. RefsHold(req[r]) => RefsHold(q)
      BY <2>1 DEF RefsHold
    <3> QED BY <2>1, <3>1, <3>3, <3>4, ReadStep
  <2> QED BY <2>2, <2>3
<1> QED BY <1>4, <1>5

\* The reads of the deprecated PATCH /api/roles/members/:id/role.
LEMMA RbacReadTrust ==
    ASSUME TypeOK, SlugsUnique, TrustInv, Watch, NEW r \in Requests,
           RbacChangeFindMember(r) \/ RbacChangeFindCurrent(r) \/ RbacChangeCount(r)
    PROVE  Trusted(r)'
<1>1. req[r] \in Request /\ WellFormed(req[r])
  BY DEF TypeOK
<1>2. req[r].target \in Members
  BY <1>1 DEF Request
<1>3. Finish(r) => Trusted(r)'
  BY NothingToTrust, IdleIsNone DEF TypeOK, MovingKinds, MembershipKinds
<1> HIDE DEF Finish
<1>4. CASE RbacChangeFindMember(r)
  <2> DEFINE m == req[r].target
             q == [req[r] EXCEPT
                     !.pc = IF roleId[m] = NoRole THEN "commit" ELSE "findCurrent",
                     !.seenRole = roleId[m]]
  <2>1. /\ q.kind = "rbacChange" /\ q.target = m /\ q.role = req[r].role
        /\ q.newSlug = req[r].newSlug /\ q.seenRole = roleId[m]
        /\ q.pc = (IF roleId[m] = NoRole THEN "commit" ELSE "findCurrent")
        /\ req[r].kind = "rbacChange"
    BY <1>1, <1>4 DEF RbacChangeFindMember, Request
  <2>2. UNCHANGED db /\ (Finish(r) \/ Continue(r, q))
    BY <1>4 DEF RbacChangeFindMember
  <2> HIDE DEF q, Continue
  <2>3. slug[OwnerRole] = "owner" /\ m \in Owners => roleId[m] = OwnerRole /\ roleId[m] # NoRole
    BY <1>2, OwnerSnapshot, OwnerIsRole
  <2>4. slug[OwnerRole] = "owner" /\ SnapshotHolds(req[r]) => SnapshotHolds(q)
    BY <2>1, <2>3 DEF SnapshotHolds
  <2>5. RefsHold(req[r]) => RefsHold(q)
    BY <2>1 DEF RefsHold
  <2> QED BY <1>3, <2>1, <2>2, <2>4, <2>5, ReadStep
<1>5. CASE RbacChangeFindCurrent(r)
  <2> DEFINE q == [req[r] EXCEPT !.pc =
                     IF JoinedSlug(req[r].seenRole) = "owner"
                        /\ req[r].newSlug # "owner" THEN "count" ELSE "commit"]
  <2>1. /\ q.kind = "rbacChange" /\ q.target = req[r].target
        /\ q.role = req[r].role /\ q.newSlug = req[r].newSlug
        /\ q.seenRole = req[r].seenRole
        /\ req[r].kind = "rbacChange" /\ req[r].pc = "findCurrent"
        /\ q.pc = (IF JoinedSlug(req[r].seenRole) = "owner"
                      /\ req[r].newSlug # "owner" THEN "count" ELSE "commit")
    BY <1>1, <1>5 DEF RbacChangeFindCurrent, Request
  <2>2. UNCHANGED db /\ Continue(r, q)
    BY <1>5 DEF RbacChangeFindCurrent
  <2> HIDE DEF q, Continue
  <2>3. ASSUME slug[OwnerRole] = "owner", SnapshotHolds(req[r]), req[r].target \in Owners
        PROVE  /\ req[r].seenRole = OwnerRole
               /\ JoinedSlug(req[r].seenRole) = "owner"
               /\ req[r].newSlug = "owner" => req[r].role = OwnerRole
    BY <1>2, <2>1, <2>3, OwnerSnapshot DEF SnapshotHolds
  <2>4. slug[OwnerRole] = "owner" /\ SnapshotHolds(req[r]) => SnapshotHolds(q)
    BY <2>1, <2>3 DEF SnapshotHolds
  <2>5. RefsHold(req[r]) => RefsHold(q)
    BY <2>1 DEF RefsHold
  <2> QED BY <2>1, <2>2, <2>4, <2>5, ReadStep
<1>6. CASE RbacChangeCount(r)
  <2> DEFINE q == [req[r] EXCEPT !.pc = "commit"]
  <2>1. /\ q.kind = "rbacChange" /\ q.pc = "commit" /\ q.role = req[r].role
        /\ q.target = req[r].target /\ q.newSlug = req[r].newSlug
        /\ req[r].kind = "rbacChange" /\ req[r].pc = "count"
    BY <1>1, <1>6 DEF RbacChangeCount, Request
  <2>2. CASE Cardinality(Holders(req[r].seenRole)) <= 1
    BY <1>3, <1>6, <2>2 DEF RbacChangeCount
  <2>3. CASE ~(Cardinality(Holders(req[r].seenRole)) <= 1)
    <3>1. UNCHANGED db /\ Continue(r, q)
      BY <1>6, <2>3 DEF RbacChangeCount
    <3> HIDE DEF q, Continue
    <3>2. ASSUME SnapshotHolds(req[r]), req[r].target \in Owners
          PROVE  OtherOwner(req[r].target)
      <4>1. req[r].seenRole = OwnerRole
        BY <2>1, <3>2 DEF SnapshotHolds
      <4> QED BY <2>3, <3>2, <4>1, TwoOwners DEF Owners
    <3>3. SnapshotHolds(req[r]) => SnapshotHolds(q)
      BY <2>1, <3>2 DEF SnapshotHolds
    <3>4. RefsHold(req[r]) => RefsHold(q)
      BY <2>1 DEF RefsHold
    <3> QED BY <2>1, <3>1, <3>3, <3>4, ReadStep
  <2> QED BY <2>2, <2>3
<1> QED BY <1>4, <1>5, <1>6

\* The reads of POST /api/roles/transfer-ownership.
LEMMA TransferReadTrust ==
    ASSUME TypeOK, SlugsUnique, TrustInv, Watch, NEW r \in Requests,
           TransferFindCurrent(r) \/ TransferFindTarget(r)
    PROVE  Trusted(r)'
<1>1. req[r] \in Request /\ WellFormed(req[r])
  BY DEF TypeOK
<1>2. req[r].target \in Members
  BY <1>1 DEF Request
<1>3. Finish(r) => Trusted(r)'
  BY NothingToTrust, IdleIsNone DEF TypeOK, MovingKinds, MembershipKinds
<1> HIDE DEF Finish
<1>4. CASE TransferFindCurrent(r)
  <2> DEFINE q == [req[r] EXCEPT !.pc = "findTarget"]
  <2>1. /\ q.kind = "transfer" /\ q.pc = "findTarget" /\ q.role = req[r].role
        /\ q.actor = req[r].actor /\ q.seenRole = req[r].seenRole
        /\ req[r].kind = "transfer"
    BY <1>1, <1>4 DEF TransferFindCurrent, Request
  <2>2. CASE req[r].actor \in Holders(req[r].role)
    <3>1. UNCHANGED db /\ Continue(r, q)
      BY <1>4, <2>2 DEF TransferFindCurrent
    <3> HIDE DEF q, Continue
    <3>2. SnapshotHolds(req[r]) => SnapshotHolds(q)
      BY <2>1, <2>2 DEF SnapshotHolds, Owners
    <3>3. RefsHold(req[r]) => RefsHold(q)
      BY <2>1 DEF RefsHold
    <3> QED BY <2>1, <3>1, <3>2, <3>3, ReadStep
  <2>3. CASE req[r].actor \notin Holders(req[r].role)
    BY <1>3, <1>4, <2>3 DEF TransferFindCurrent
  <2> QED BY <2>2, <2>3
<1>5. CASE TransferFindTarget(r)
  <2> DEFINE q == [req[r] EXCEPT !.pc = "commit"]
  <2>1. /\ q.kind = "transfer" /\ q.pc = "commit" /\ q.role = req[r].role
        /\ q.actor = req[r].actor /\ q.seenRole = req[r].seenRole
        /\ q.target = req[r].target
        /\ req[r].kind = "transfer" /\ req[r].pc = "findTarget"
    BY <1>1, <1>5 DEF TransferFindTarget, Request
  <2>2. CASE req[r].target \in Holders(req[r].seenRole)
    <3>1. UNCHANGED db /\ Continue(r, q)
      BY <1>5, <2>2 DEF TransferFindTarget
    <3> HIDE DEF q, Continue
    <3>2. SnapshotHolds(req[r]) => SnapshotHolds(q)
      BY <2>1, <2>2 DEF SnapshotHolds, Owners, Holders
    <3>3. RefsHold(req[r]) => RefsHold(q)
      BY <2>1 DEF RefsHold
    <3> QED BY <2>1, <3>1, <3>2, <3>3, ReadStep
  <2>3. CASE req[r].target \notin Holders(req[r].seenRole)
    BY <1>3, <1>5, <2>3 DEF TransferFindTarget
  <2> QED BY <2>2, <2>3
<1> QED BY <1>4, <1>5

\* The steps of DELETE /api/roles/:id before it commits.
LEMMA DeleteReadTrust ==
    ASSUME TypeOK, SlugsUnique, TrustInv, Watch, NEW r \in Requests, Proceed(r),
           req'[r].kind = "deleteRole"
    PROVE  Trusted(r)'
<1> DEFINE q == req'[r]
<1>1. /\ UNCHANGED db /\ req[r].kind = "deleteRole" /\ q.kind = "deleteRole"
      /\ q.role = req[r].role
      /\ \/ /\ req[r].pc = "findViewer"
            /\ \/ /\ q.pc = "reassign" /\ q.seenRole \in Roles
                  /\ slug[q.seenRole] = "viewer"
               \/ q.pc = "commit" /\ q.seenRole = req[r].seenRole
         \/ /\ req[r].pc = "reassign" /\ q.pc = "commit"
            /\ q.moved = Holders(req[r].role)
            /\ q.seenRole = req[r].seenRole
  BY DeleteSteps
<1>2. Continue(r, q)
  <2>1. /\ req \in [Requests -> Request] /\ req' \in [Requests -> Request]
        /\ \A p \in Requests : p # r => req'[p] = req[p]
    BY ProceedType, KindKept DEF TypeOK
  <2> QED BY <2>1
<1> HIDE DEF q, Continue
<1>3. slug[OwnerRole] = "owner" /\ SnapshotHolds(req[r]) => SnapshotHolds(q)
  BY <1>1 DEF SnapshotHolds
<1>4. RefsHold(req[r]) => RefsHold(q)
  BY <1>1, SlugsAssumption DEF RefsHold, Exists
<1> QED BY <1>1, <1>2, <1>3, <1>4, ReadStep

LEMMA ProceedTrust ==
    ASSUME TypeOK, SlugsUnique, TrustInv, Watch, NEW r \in Requests, Proceed(r)
    PROVE  Trusted(r)'
<1>1. Finish(r) => Trusted(r)'
  BY NothingToTrust, IdleIsNone DEF TypeOK, MovingKinds, MembershipKinds
<1>2. ASSUME req[r].kind \in {"createRole", "updateRole"} PROVE Trusted(r)'
  BY <1>2, KindKept, NothingToTrust DEF MovingKinds, MembershipKinds
<1>3. ASSUME req[r].kind = "deleteRole" PROVE Trusted(r)'
  BY <1>3, KindKept, DeleteReadTrust, NothingToTrust DEF MovingKinds, MembershipKinds
<1> HIDE DEF Finish, Continue
<1>4. \/ Finish(r) \/ req[r].kind \in {"createRole", "updateRole", "deleteRole"}
      \/ AdminChangeFindMember(r)
      \/ AdminCount(r, "adminChange") \/ AdminCount(r, "adminRemove")
      \/ RbacChangeFindMember(r) \/ RbacChangeFindCurrent(r) \/ RbacChangeCount(r)
      \/ TransferFindCurrent(r) \/ TransferFindTarget(r)
  BY DEF Proceed, AdminChangeCommit, AdminRemoveCommit, RbacChangeCommit, TransferCommit,
     CreateRoleCommit, UpdateRoleCollision, UpdateRoleWrite, UpdateRoleCommit,
     DeleteRoleFindViewer, DeleteRoleReassign, DeleteRoleCommit
<1> HIDE DEF At
<1> QED BY <1>1, <1>2, <1>3, <1>4, AdminReadTrust, RbacReadTrust, TransferReadTrust

LEMMA TrustStep == TypeOK /\ SlugsUnique /\ TrustInv /\ [Next]_allVars => TrustInv'
<1> SUFFICES ASSUME TypeOK, SlugsUnique, TrustInv, [Next]_allVars PROVE TrustInv'
  OBVIOUS
<1>1. CASE UNCHANGED allVars
  <2>1. UNCHANGED <<slug, presence, roleId, req, overtaken>> /\ UNCHANGED Owners
    BY <1>1 DEF allVars, Owners, Holders, Present
  <2>2. \A x : Holders(x)' = Holders(x) /\ Exists(x)' = Exists(x) /\ Present(x)' = Present(x)
               /\ OtherOwner(x)' = OtherOwner(x)
    BY <2>1 DEF Holders, Present, Exists, OtherOwner
  <2>3. ASSUME NEW p \in Requests PROVE Trusted(p)'
    <3>1. SnapshotHolds(req[p]) => SnapshotHolds(req[p])'
      BY <2>1, <2>2 DEF SnapshotHolds
    <3>2. RefsHold(req[p]) => RefsHold(req[p])'
      BY <2>1, <2>2 DEF RefsHold
    <3> QED BY <2>1, <3>1, <3>2 DEF TrustInv, Trusted
  <2> QED BY <2>3 DEF TrustInv
<1>2. CASE Next
  <2>1. [Step]_vars /\ Watch
    BY <1>2 DEF Next
  <2>2. ASSUME NEW p \in Requests PROVE Trusted(p)'
    BY <2>1, RecordWriters, OthersTrust, ArriveTrust, ProceedTrust
  <2> QED BY <2>2 DEF TrustInv
<1> QED BY <1>1, <1>2

LEMMA TrustBegins == Init => TrustInv
BY IdleIsNone DEF Init, TrustInv, Trusted, MovingKinds, MembershipKinds

(***************************************************************************)
(* Owners                                                                  *)
(***************************************************************************)

\* The commits of requests that were not overtaken are what Ownership allows.
LEMMA CommitKeepsPromise ==
    ASSUME TypeOK, HeldInv, NEW r \in Requests, SnapshotHolds(req[r]), slug[OwnerRole] = "owner",
           \/ AdminChangeCommit(r) \/ AdminRemoveCommit(r)
           \/ RbacChangeCommit(r) \/ TransferCommit(r) \/ DeleteRoleCommit(r)
    PROVE  [Promise!Next]_Owners
<1>1. req[r] \in Request /\ WellFormed(req[r])
  BY DEF TypeOK
<1>2. req[r].target \in Members
  BY <1>1 DEF Request
<1>3. CASE AdminChangeCommit(r) \/ RbacChangeCommit(r)
  <2> DEFINE m == req[r].target
  <2>1. /\ req[r].kind \in {"adminChange", "rbacChange"} /\ req[r].pc = "commit"
        /\ UNCHANGED presence
        /\ roleId' = IF Present(m) THEN [roleId EXCEPT ![m] = req[r].role]
                     ELSE roleId
    BY <1>3 DEF AdminChangeCommit, RbacChangeCommit
  <2>2. \A n \in Members :
          roleId'[n] = IF n = m /\ Present(m) THEN req[r].role ELSE roleId[n]
    BY <2>1 DEF TypeOK
  <2>3. m \in Owners => req[r].role = OwnerRole \/ OtherOwner(m)
    BY <2>1 DEF SnapshotHolds
  <2>4. CASE ~Present(m)
    BY <2>1, <2>4 DEF Owners, Holders, Present
  <2>5. CASE Present(m) /\ req[r].role = OwnerRole
    <3>1. Owners' = Owners \cup {m}
      BY <1>2, <2>1, <2>2, <2>5, OwnerIsRole DEF Owners, Holders, Present
    <3> QED BY <1>2, <3>1 DEF Promise!Next, Promise!Appoint
  <2>6. CASE Present(m) /\ req[r].role # OwnerRole
    <3>1. Owners' = Owners \ {m}
      BY <1>2, <2>1, <2>2, <2>6, OwnerIsRole DEF Owners, Holders, Present
    <3>2. CASE m \in Owners
      BY <1>2, <2>3, <2>6, <3>1, <3>2 DEF Promise!Next, Promise!StepDown, OtherOwner
    <3>3. CASE m \notin Owners
      BY <3>1, <3>3
    <3> QED BY <3>2, <3>3
  <2> QED BY <2>4, <2>5, <2>6
<1>4. CASE AdminRemoveCommit(r)
  <2> DEFINE m == req[r].target
  <2>1. /\ req[r].kind = "adminRemove" /\ req[r].pc = "commit" /\ UNCHANGED roleId
        /\ presence' = IF Present(m) THEN [presence EXCEPT ![m] = "removed"]
                       ELSE presence
    BY <1>4 DEF AdminRemoveCommit
  <2>2. \A n \in Members : presence'[n] =
          IF n = m /\ Present(m) THEN "removed" ELSE presence[n]
    BY <2>1 DEF TypeOK
  <2>3. Owners' = Owners \ {m} \/ UNCHANGED Owners
    BY <2>1, <2>2 DEF Owners, Holders, Present
  <2>4. m \in Owners => OtherOwner(m)
    BY <2>1 DEF SnapshotHolds
  <2> QED BY <1>2, <2>3, <2>4 DEF Promise!Next, Promise!StepDown, OtherOwner
<1>5. CASE TransferCommit(r)
  <2> DEFINE a == req[r].actor  m == req[r].target
  <2>1. /\ UNCHANGED presence /\ req[r].role = OwnerRole /\ req[r].seenRole # OwnerRole
        /\ a \in Owners /\ Present(m) /\ m \notin Owners
    BY <1>5 DEF TransferCommit, SnapshotHolds
  <2>2. \A n \in Members : roleId'[n] =
          IF ~Present(n) THEN roleId[n] ELSE IF n = m THEN OwnerRole
          ELSE IF n = a THEN req[r].seenRole ELSE roleId[n]
    BY <1>5, <2>1 DEF TransferCommit
  <2>3. a \in Members /\ roleId[a] = OwnerRole /\ Present(a)
    BY <2>1 DEF Owners, Holders
  <2>4. Owners' = (Owners \ {a}) \cup {m}
    BY <1>2, <2>1, <2>2, <2>3, OwnerIsRole DEF Owners, Holders, Present
  <2> QED BY <1>2, <2>1, <2>3, <2>4 DEF Promise!Next, Promise!HandOver
<1>6. CASE DeleteRoleCommit(r)
  <2>1. /\ req[r].kind = "deleteRole" /\ UNCHANGED presence
        /\ \A n \in Members : roleId'[n] = IF n \in req[r].moved THEN req[r].seenRole
                                          ELSE roleId[n]
    BY <1>6 DEF DeleteRoleCommit
  <2>2. OwnerRole # req[r].role /\ req[r].seenRole # OwnerRole
    BY <1>1, <2>1, RolesAssumption DEF WellFormed, SnapshotHolds
  <2>3. \A n \in req[r].moved : roleId[n] # OwnerRole
    BY <2>1, <2>2 DEF HeldInv
  <2>4. UNCHANGED Owners
    BY <2>1, <2>2, <2>3 DEF Owners, Holders, Present
  <2> QED BY <2>4
<1> QED BY <1>3, <1>4, <1>5, <1>6

\* The commit of a request that moves members leaves its slot free.
LEMMA CommitFrees ==
    ASSUME TypeOK, NEW r \in Requests,
           \/ AdminChangeCommit(r) \/ AdminRemoveCommit(r)
           \/ RbacChangeCommit(r) \/ TransferCommit(r) \/ DeleteRoleCommit(r)
    PROVE  req[r].kind \in MovingKinds /\ Commits(r)
<1>1. /\ req[r].kind \in MovingKinds /\ Finish(r)
  <2> HIDE DEF Finish
  <2> QED BY DEF AdminChangeCommit, AdminRemoveCommit, RbacChangeCommit, TransferCommit,
          DeleteRoleCommit, MovingKinds, MembershipKinds
<1>2. req'[r] = Idle /\ req[r] # Idle
  BY <1>1, IdleIsNone DEF TypeOK, MovingKinds, MembershipKinds
<1> QED BY <1>1, <1>2 DEF Commits

LEMMA OwnersStep ==
    ASSUME TypeOK, SlugsUnique, HeldInv, TrustInv, [Next]_allVars, Owners' # Owners
    PROVE  \/ Promise!Next
           \/ slug[OwnerRole] # "owner"
           \/ \E r \in Requests : Commits(r) /\ overtaken[r] \cap {"owners", "names", "target"} # {}
<1> SUFFICES ASSUME slug[OwnerRole] = "owner"
             PROVE  \/ Promise!Next
                    \/ \E r \in Requests :
                         Commits(r) /\ overtaken[r] \cap {"owners", "names", "target"} # {}
  OBVIOUS
<1>1. [Step]_vars
  BY NextIsStep
<1>2. CASE UNCHANGED <<presence, roleId, text>>
  BY <1>2 DEF Owners, Holders, Present
<1>3. CASE AssignOwner
  <2>1. PICK x \in Roles : /\ slug[x] = "owner" /\ Present(Creator)
                           /\ roleId' = [roleId EXCEPT ![Creator] = x]
    BY <1>3 DEF AssignOwner, Owners, Holders, Present
  <2>2. x = OwnerRole /\ Creator \in Members /\ UNCHANGED presence
    BY <1>3, <2>1, OneOwnerName, MembersAssumption DEF AssignOwner
  <2>3. Owners' = Owners \cup {Creator}
    BY <2>1, <2>2, OwnerIsRole DEF Owners, Holders, Present, TypeOK
  <2> QED BY <2>2, <2>3 DEF Promise!Next, Promise!Appoint
<1>4. ASSUME NEW m \in Members, NEW s \in InviteSlugs, AcceptInvitation(m, s)
      PROVE  FALSE
  <2>1. roleId[m] = NoRole /\ UNCHANGED roleId /\ presence' = [presence EXCEPT ![m] = "present"]
    BY <1>4 DEF AcceptInvitation, HeldInv
  <2>2. \A n \in Members : presence'[n] = IF n = m THEN "present" ELSE presence[n]
    BY <2>1 DEF TypeOK
  <2> QED BY <2>1, <2>2, OwnerIsRole DEF Owners, Holders, Present
<1>5. ASSUME NEW r \in Requests,
             \/ AdminChangeCommit(r) \/ AdminRemoveCommit(r)
             \/ RbacChangeCommit(r) \/ TransferCommit(r) \/ DeleteRoleCommit(r)
      PROVE  Promise!Next \/ (Commits(r) /\ overtaken[r] \cap {"owners", "names", "target"} # {})
  <2>1. Commits(r) /\ req[r].kind \in MovingKinds
    BY <1>5, CommitFrees
  <2>2. CASE overtaken[r] \cap {"owners", "names", "target"} = {}
    <3>1. SnapshotHolds(req[r])
      BY <2>1, <2>2 DEF TrustInv, Trusted, OwnerCauses
    <3>2. [Promise!Next]_Owners
      BY <1>5, <3>1, CommitKeepsPromise
    <3> QED BY <3>2
  <2> QED BY <2>1, <2>2
<1> QED BY <1>1, <1>2, <1>3, <1>4, <1>5, RowWriters

\* However the endpoints overlap, and whatever role is renamed: the owners of an
\* organization change as Ownership allows, or Owner has lost its name, or the
\* request that commits was overtaken by a change of the owners, of the name of
\* Owner or of the presence of the member it hands over to.
THEOREM OwnersProtected == Spec => OwnershipPromise
<1>1. TypeOK /\ SlugsUnique /\ HeldInv /\ TrustInv /\ [Next]_allVars
        => [\/ Promise!Next
            \/ slug[OwnerRole] # "owner"
            \/ \E r \in Requests :
                 Commits(r) /\ overtaken[r] \cap {"owners", "names", "target"} # {}]_Owners
  BY OwnersStep
<1> QED BY <1>1, InitType, NextType, NextIsStep, SlugsInit, SlugsStep, HeldBegins, HeldStep,
        TrustBegins, TrustStep, PTL DEF Spec, OwnershipPromise

(***************************************************************************)
(* Members and the roles they hold                                         *)
(***************************************************************************)

LEMMA DanglesStep ==
    ASSUME TypeOK, SlugsUnique, HeldInv, TrustInv, [Step]_vars,
           NEW m \in Members, Dangling(m)', ~Dangling(m)
    PROVE  \E r \in Requests :
              /\ Commits(r)
              /\ \/ "role" \in overtaken[r]
                 \/ req[r].kind = "deleteRole" /\ req[r].seenRole \in {NoRole, req[r].role}
<1>1. /\ presence'[m] = "present" /\ roleId'[m] # NoRole /\ slug'[roleId'[m]] \notin Slugs
      /\ presence \in [Members -> {"absent", "present", "removed"}]
      /\ roleId \in [Members -> RoleRefs] /\ roleId' \in [Members -> RoleRefs]
      /\ slug \in [Roles -> Slugs \cup {Unused, Deleted}]
  BY NextType DEF Dangling, Present, Exists, TypeOK
<1>2. roleId'[m] \in Roles
  BY <1>1 DEF RoleRefs
<1>3. ASSUME presence[m] = "present", roleId'[m] = roleId[m] PROVE Exists(roleId[m])
  BY <1>1, <1>3 DEF Dangling, Present
<1>4. ASSUME NEW x \in Roles, Exists(x), ~\E r \in Requests : DeleteRoleCommit(r) /\ req[r].role = x
      PROVE  slug'[x] \in Slugs
  <2> HIDE DEF At, Finish
  <2>1. CASE SeedDefaultRoles
    BY <1>4, <2>1, SlugsAssumption DEF SeedDefaultRoles, Exists
  <2>2. ASSUME NEW r \in Requests, CreateRoleCommit(r) PROVE slug'[x] \in Slugs
    BY <1>4, <2>2, SlugsAssumption DEF CreateRoleCommit, FreshIds, TypeOK, Exists
  <2>3. ASSUME NEW r \in Requests, UpdateRoleCommit(r) PROVE slug'[x] \in Slugs
    <3>1. req[r].newSlug \in Slugs \cup {NoSlug}
      BY DEF TypeOK, Request
    <3> QED BY <1>4, <2>3, <3>1 DEF UpdateRoleCommit, TypeOK, Exists
  <2>4. ASSUME NEW r \in Requests, DeleteRoleCommit(r) PROVE slug'[x] \in Slugs
    <3>1. req[r].role # x
      BY <1>4, <2>4
    <3> QED BY <1>1, <1>4, <2>4, <3>1 DEF DeleteRoleCommit, Exists
  <2> QED BY <1>4, <2>1, <2>2, <2>3, <2>4, SlugWriters DEF Exists
<1>5. ASSUME NEW r \in Requests, DeleteRoleCommit(r)
      PROVE  \/ "role" \in overtaken[r]
             \/ req[r].kind = "deleteRole" /\ req[r].seenRole \in {NoRole, req[r].role}
  <2> SUFFICES ASSUME "role" \notin overtaken[r], req[r].seenRole \notin {NoRole, req[r].role}
               PROVE  FALSE
    BY <1>5 DEF DeleteRoleCommit
  <2>1. /\ req[r].kind = "deleteRole" /\ req[r].pc = "commit" /\ UNCHANGED presence
        /\ slug' = [slug EXCEPT ![req[r].role] = Deleted]
        /\ \A n \in Members : roleId'[n] = IF n \in req[r].moved THEN req[r].seenRole
                                          ELSE roleId[n]
    BY <1>5 DEF DeleteRoleCommit
  <2>2. RefsHold(req[r]) /\ req[r].seenRole \in RoleRefs
    BY <2>1 DEF TrustInv, Trusted, MovingKinds, TypeOK, Request
  <2>3. Exists(req[r].seenRole) /\ req[r].seenRole \in Roles
        /\ Holders(req[r].role) \subseteq req[r].moved
    BY <2>1, <2>2 DEF RefsHold, RoleRefs
  <2>4. CASE m \in req[r].moved
    BY <1>1, <2>1, <2>3, <2>4 DEF Exists
  <2>5. CASE m \notin req[r].moved
    <3>1. roleId'[m] = roleId[m] /\ presence[m] = "present"
      BY <1>1, <2>1, <2>5
    <3>2. roleId[m] # req[r].role
      BY <1>1, <2>3, <2>5, <3>1 DEF Holders, Present
    <3>3. slug'[roleId[m]] = slug[roleId[m]]
      BY <1>1, <1>2, <2>1, <3>1, <3>2
    <3> QED BY <1>1, <1>3, <3>1, <3>3 DEF Exists
  <2> QED BY <2>4, <2>5
<1>6. ASSUME NEW r \in Requests, DeleteRoleCommit(r)
      PROVE  \E p \in Requests :
              /\ Commits(p)
              /\ \/ "role" \in overtaken[p]
                 \/ req[p].kind = "deleteRole" /\ req[p].seenRole \in {NoRole, req[p].role}
  BY <1>5, <1>6, CommitFrees
<1>7. ASSUME NEW r \in Requests, AdminChangeCommit(r) \/ RbacChangeCommit(r) \/ TransferCommit(r),
             ~\E q \in Requests : DeleteRoleCommit(q)
      PROVE  "role" \in overtaken[r]
  <2> SUFFICES ASSUME "role" \notin overtaken[r] PROVE FALSE
    OBVIOUS
  <2>1. /\ req[r].kind \in {"adminChange", "rbacChange", "transfer"} /\ UNCHANGED presence
        /\ req[r] \in Request /\ WellFormed(req[r])
    BY <1>7 DEF AdminChangeCommit, RbacChangeCommit, TransferCommit, TypeOK
  <2>2. RefsHold(req[r])
    BY <2>1 DEF TrustInv, Trusted, MovingKinds, MembershipKinds
  <2>3. /\ req[r].role \in Roles /\ Exists(req[r].role)
        /\ req[r].kind = "transfer" => req[r].seenRole \in Roles /\ Exists(req[r].seenRole)
    BY <2>1, <2>2 DEF RefsHold, WellFormed, Roles
  <2>4. \/ roleId'[m] = roleId[m] \/ roleId'[m] = req[r].role
        \/ req[r].kind = "transfer" /\ roleId'[m] = req[r].seenRole
    <3>1. CASE AdminChangeCommit(r) \/ RbacChangeCommit(r)
      BY <1>1, <3>1 DEF AdminChangeCommit, RbacChangeCommit
    <3>2. CASE TransferCommit(r)
      BY <3>2 DEF TransferCommit
    <3> QED BY <1>7, <3>1, <3>2
  <2>5. roleId'[m] = roleId[m] => Exists(roleId[m]) /\ roleId[m] \in Roles
    BY <1>1, <1>2, <1>3, <2>1
  <2> QED BY <1>1, <1>4, <1>7, <2>3, <2>4, <2>5
<1>8. CASE ~\E r \in Requests : DeleteRoleCommit(r)
  <2>1. ASSUME presence[m] = "present", roleId'[m] = roleId[m] PROVE FALSE
    BY <1>1, <1>2, <1>3, <1>4, <1>8, <2>1
  <2>2. CASE UNCHANGED <<presence, roleId, text>>
    BY <1>1, <2>1, <2>2
  <2>3. CASE AssignOwner
    <3>1. UNCHANGED presence
      BY <2>3 DEF AssignOwner
    <3>2. PICK x \in Roles : slug[x] = "owner" /\ roleId' = [roleId EXCEPT ![Creator] = x]
      BY <1>1, <2>1, <2>3, <3>1 DEF AssignOwner
    <3>3. roleId'[m] = x /\ Exists(x)
      BY <1>1, <2>1, <3>1, <3>2, SlugsAssumption DEF Exists
    <3> QED BY <1>1, <1>4, <1>8, <3>3
  <2>4. ASSUME NEW n \in Members, NEW s \in InviteSlugs, AcceptInvitation(n, s) PROVE FALSE
    <3>1. roleId[n] = NoRole /\ UNCHANGED roleId /\ presence' = [presence EXCEPT ![n] = "present"]
      BY <2>4 DEF AcceptInvitation, HeldInv
    <3> QED BY <1>1, <2>1, <3>1
  <2>5. ASSUME NEW r \in Requests, AdminRemoveCommit(r) PROVE FALSE
    <3>1. UNCHANGED roleId /\ presence[m] = "present"
      BY <1>1, <2>5 DEF AdminRemoveCommit, Present
    <3> QED BY <2>1, <3>1
  <2>6. ASSUME NEW r \in Requests, AdminChangeCommit(r) \/ RbacChangeCommit(r) \/ TransferCommit(r)
        PROVE  Commits(r) /\ "role" \in overtaken[r]
    BY <1>7, <1>8, <2>6, CommitFrees
  <2> HIDE DEF At, Finish
  <2> QED BY <1>8, <2>2, <2>3, <2>4, <2>5, <2>6, RowWriters
<1> QED BY <1>6, <1>8

\* Whatever overlaps and whatever is renamed: a member is left with the id of a
\* role that is gone only by a request that was overtaken in the role it gives or
\* deletes, or by a deletion that found no other role to fall back to.
THEOREM DanglingHasCause == Spec => DanglesForCause
<1>1. TypeOK /\ SlugsUnique /\ HeldInv /\ TrustInv /\ [Step]_vars
        => [\A m \in Members : Dangling(m)' /\ ~Dangling(m) =>
              \E r \in Requests :
                 /\ Commits(r)
                 /\ \/ "role" \in overtaken[r]
                    \/ req[r].kind = "deleteRole" /\ req[r].seenRole \in {NoRole, req[r].role}]_vars
  BY DanglesStep
<1> QED BY <1>1, InitType, NextType, NextIsStep, SlugsInit, SlugsStep, HeldBegins, HeldStep,
        TrustBegins, TrustStep, PTL DEF Spec, DanglesForCause

(***************************************************************************)
(* Permissions                                                             *)
(***************************************************************************)

\* a request that holds the lock of its role's row
Locks(r) == At(r, "updateRole", "commit") /\ req[r].newSlug # NoSlug

\* Default roles appear with the listener, a request to change a role refers to
\* one that was there, and two requests never hold the lock of one row.
LockInv ==
    /\ setup = "created" => \A x \in DefaultRoles : slug[x] = Unused
    /\ \A r \in Requests : req[r].kind = "updateRole" => slug[req[r].role] # Unused
    /\ \A r, q \in Requests :
          Locks(r) /\ Locks(q) /\ req[r].role = req[q].role => r = q

\* Role ids are used once: a role that has or had a row keeps its id.
LEMMA IdsStayUsed ==
    ASSUME TypeOK, [Step]_vars, NEW x \in Roles, slug[x] # Unused
    PROVE  slug'[x] # Unused
<1>1. CASE SeedDefaultRoles
  BY <1>1, SlugsAssumption DEF SeedDefaultRoles
<1>2. ASSUME NEW r \in Requests, CreateRoleCommit(r) PROVE slug'[x] # Unused
  BY <1>2 DEF CreateRoleCommit, FreshIds, TypeOK
<1>3. ASSUME NEW r \in Requests, UpdateRoleCommit(r) PROVE slug'[x] # Unused
  <2>1. req[r].newSlug \in Slugs \cup {NoSlug}
    BY DEF TypeOK, Request
  <2> QED BY <1>3, <2>1, SlugsAssumption DEF UpdateRoleCommit, TypeOK
<1>4. ASSUME NEW r \in Requests, DeleteRoleCommit(r) PROVE slug'[x] # Unused
  BY <1>4, SlugsAssumption DEF DeleteRoleCommit, TypeOK
<1> QED BY <1>1, <1>2, <1>3, <1>4, SlugWriters

LEMMA DefaultsAwaitSetup ==
    ASSUME TypeOK, LockInv, [Step]_vars, setup' = "created", NEW x \in DefaultRoles
    PROVE  slug'[x] = Unused
<1>1. setup = "created" /\ ~SeedDefaultRoles
  <2> HIDE DEF At, Begin, Finish, Continue
  <2>1. ASSUME NEW r \in Requests, Arrive(r) \/ Proceed(r) PROVE UNCHANGED setup
    <3>1. CASE Arrive(r)
      BY <3>1, ArrivesAs DEF db
    <3>2. CASE Proceed(r)
      BY <3>2 DEF Proceed, db, AdminChangeFindMember, AdminCount,
         AdminChangeCommit, AdminRemoveCommit, RbacChangeFindMember,
         RbacChangeFindCurrent, RbacChangeCount, RbacChangeCommit,
         TransferFindCurrent, TransferFindTarget, TransferCommit, CreateRoleCommit,
         UpdateRoleCollision, UpdateRoleWrite, UpdateRoleCommit,
         DeleteRoleFindViewer, DeleteRoleReassign, DeleteRoleCommit
    <3> QED BY <2>1, <3>1, <3>2
  <2> QED BY <2>1 DEF Step, Listener, SeedDefaultRoles, AssignOwner, LoseSetup,
          AcceptInvitation, vars
<1>2. slug[x] = Unused /\ x \in Roles /\ x \notin CustomRoles /\ ~Exists(x)
  BY <1>1, RolesAssumption, SlugsAssumption DEF LockInv, Roles, Exists
<1>3. ASSUME NEW r \in Requests, CreateRoleCommit(r) PROVE slug'[x] = Unused
  BY <1>2, <1>3 DEF CreateRoleCommit, FreshIds, TypeOK
<1>4. ASSUME NEW r \in Requests, UpdateRoleCommit(r) PROVE slug'[x] = Unused
  BY <1>2, <1>4 DEF UpdateRoleCommit, TypeOK
<1>5. ASSUME NEW r \in Requests, DeleteRoleCommit(r) PROVE slug'[x] = Unused
  <2>1. req[r].role \in CustomRoles
    BY <1>5 DEF DeleteRoleCommit, TypeOK, WellFormed
  <2> QED BY <1>2, <1>5, <2>1 DEF DeleteRoleCommit, TypeOK
<1> QED BY <1>1, <1>2, <1>3, <1>4, <1>5, SlugWriters

LEMMA LocksStep == TypeOK /\ LockInv /\ [Step]_vars => LockInv'
<1> SUFFICES ASSUME TypeOK, LockInv, [Step]_vars PROVE LockInv'
  OBVIOUS
<1>1. \A q \in Requests : req[q].kind = "updateRole" => req[q].role \in Roles
  BY DEF TypeOK, WellFormed
<1>2. \A x \in DefaultRoles : setup' = "created" => slug'[x] = Unused
  BY DefaultsAwaitSetup
<1>3. ASSUME UNCHANGED req PROVE LockInv'
  BY <1>1, <1>2, <1>3, IdsStayUsed DEF LockInv, Locks
<1>4. ASSUME NEW r \in Requests, Arrive(r) PROVE LockInv'
  <2> HIDE DEF At, Begin, Finish, Continue
  <2>1. /\ UNCHANGED slug /\ \A q \in Requests : q # r => req'[q] = req[q]
        /\ req'[r].kind = "updateRole" => Exists(req'[r].role) /\ req'[r].pc = "collision"
    BY <1>4, ArrivesAs DEF db
  <2>2. \A q \in Requests : Locks(q)' => Locks(q) /\ q # r
    BY <2>1 DEF Locks, At
  <2>3. \A q \in Requests : req'[q].kind = "updateRole" => slug'[req'[q].role] # Unused
    BY <2>1, SlugsAssumption DEF LockInv, Exists
  <2> QED BY <1>2, <2>1, <2>2, <2>3 DEF LockInv
<1>5. ASSUME NEW r \in Requests, Proceed(r) PROVE LockInv'
  <2> HIDE DEF At, Begin, Finish, Continue
  <2>1. /\ \A q \in Requests : q # r => req'[q] = req[q]
        /\ req'[r].kind = "updateRole" =>
                /\ req[r].kind = "updateRole" /\ req'[r].role = req[r].role
                /\ req'[r].newSlug = req[r].newSlug
                /\ Locks(r)' => ~RowLocked(req[r].role)
    BY <1>5, KindKept, UpdateSteps DEF Locks, At
  <2>2. \A q \in Requests : q # r => (Locks(q)' <=> Locks(q))
    BY <2>1 DEF Locks, At
  <2>3. Locks(r)' => \A q \in Requests : Locks(q) => req[q].role # req'[r].role
    BY <2>1 DEF Locks, At, RowLocked
  <2>4. \A q \in Requests : req'[q].kind = "updateRole" => slug'[req'[q].role] # Unused
    BY <1>1, <2>1, IdsStayUsed DEF LockInv
  <2>5. ASSUME NEW p \in Requests, NEW q \in Requests, Locks(p)', Locks(q)',
               req'[p].role = req'[q].role
        PROVE  p = q
    <3>1. CASE p = r \/ q = r
      BY <2>1, <2>2, <2>3, <2>5, <3>1
    <3>2. CASE p # r /\ q # r
      BY <2>1, <2>2, <2>5, <3>2 DEF LockInv
    <3> QED BY <3>1, <3>2
  <2> QED BY <1>2, <2>4, <2>5 DEF LockInv
<1> QED BY <1>3, <1>4, <1>5
     DEF Step, Listener, SeedDefaultRoles, AssignOwner, LoseSetup, AcceptInvitation, vars

LEMMA LocksBegin == Init => LockInv
BY IdleIsNone DEF Init, LockInv, Locks, Roles

\* Who changes the permissions of a role while a request holds its row.
LEMMA HeldRow ==
    ASSUME TypeOK, LockInv, [Step]_vars, NEW r \in Requests, Locks(r),
           perms'[req[r].role] # perms[req[r].role]
    PROVE  \E q \in Requests : /\ UpdateRoleCommit(q) /\ req[q].role = req[r].role
                               /\ q = r \/ req[q].newSlug = NoSlug
<1> DEFINE x == req[r].role
<1>1. /\ x \in Roles /\ slug[x] # Unused /\ RowLocked(x)
      /\ req[r].kind = "updateRole" /\ perms \in [Roles -> SUBSET Permissions]
  BY DEF Locks, LockInv, RowLocked, TypeOK, WellFormed
<1>2. CASE SeedDefaultRoles
  BY <1>1, <1>2 DEF SeedDefaultRoles, LockInv
<1>3. ASSUME NEW q \in Requests, CreateRoleCommit(q) PROVE FALSE
  BY <1>1, <1>3 DEF CreateRoleCommit, FreshIds
<1>4. ASSUME NEW q \in Requests, DeleteRoleCommit(q) PROVE FALSE
  <2>1. req[q].role # x
    BY <1>1, <1>4 DEF DeleteRoleCommit
  <2> QED BY <1>1, <1>4, <2>1 DEF DeleteRoleCommit
<1>5. ASSUME NEW q \in Requests, UpdateRoleCommit(q)
      PROVE  req[q].role = x /\ (q = r \/ req[q].newSlug = NoSlug)
  <2>1. req[q].role = x
    BY <1>1, <1>5 DEF UpdateRoleCommit
  <2>2. CASE req[q].newSlug # NoSlug
    <3>1. Locks(q)
      BY <1>5, <2>2 DEF UpdateRoleCommit, Locks
    <3> QED BY <2>1, <3>1 DEF LockInv
  <2> QED BY <2>1, <2>2
<1> QED BY <1>2, <1>3, <1>4, <1>5, SlugWriters

\* Whatever overlaps it, a re-sync that also names its role is disturbed by no
\* other named one and by no deletion: only a re-sync without a name, which
\* takes no lock, can change the permissions before it commits.
THEOREM NamedResyncUndisturbed == Spec => ResyncUndisturbed
<1>1. TypeOK /\ LockInv /\ [Step]_vars
        => [\A r \in Requests :
              Resyncing(r) /\ perms'[req[r].role] # perms[req[r].role]
                => \E q \in Requests :
                     /\ UpdateRoleCommit(q) /\ req[q].role = req[r].role
                     /\ q = r \/ req[q].newSlug = NoSlug]_vars
  BY HeldRow DEF Resyncing, Locks
<1> QED BY <1>1, InitType, NextType, NextIsStep, LocksBegin, LocksStep, PTL DEF Spec, ResyncUndisturbed
=============================================================================
