------------------------ MODULE AdministrationProofs ------------------------
(* Proofs about Superadmins and OrgTree, which MCAdministration puts side   *)
(* by side.                                                                 *)
EXTENDS Superadmins, OrgTree, TLAPS

(***************************************************************************)
(* Superadmins: SuperadminInv is inductive for any number of users and of  *)
(* overlapping requests.  A commit either leaves superadmins \ banned no   *)
(* smaller, or it is a change of one's own role; then its snapshot says    *)
(* that somebody else remains, and it dooms every other such change.       *)
(***************************************************************************)

\* Arriving requests: the table is unchanged and nobody is doomed.
LEMMA BeginKeeps ==
    ASSUME SuperadminInv, NEW r \in AdminCalls, NEW u \in Users,
           NEW kind \in {"selfRole", "update", "ban", "delete"},
           NEW to \in RoleChange,
           BeginChange(r, kind, u, to),
           SnapshotHolds([kind |-> kind, user |-> u, to |-> to,
                          doomed |-> FALSE])
    PROVE  SuperadminInv'
<1> DEFINE new == [kind |-> kind, user |-> u, to |-> to, doomed |-> FALSE]
<1>1. new \in Request
  BY DEF Request, Serializable
<1>2. change' = [change EXCEPT ![r] = new] /\ UNCHANGED table
  BY DEF BeginChange
<1>3. AdminTypeOK'
  BY <1>1, <1>2 DEF AdminTypeOK, SuperadminInv, table
<1>4. \A q : SnapshotHolds(q) <=> SnapshotHolds(q)'
  BY <1>2 DEF SnapshotHolds, table
<1>5. ASSUME NEW q \in AdminCalls, ~change'[q].doomed
      PROVE  SnapshotHolds(change[q])'
  <2>1. CASE q = r
    BY <2>1, <1>2, <1>4 DEF SnapshotHolds, SuperadminInv, AdminTypeOK, table
  <2>2. CASE q # r
    BY <2>2, <1>2, <1>5 DEF SnapshotHolds, SuperadminInv, AdminTypeOK, table
  <2> QED BY <2>1, <2>2
<1> QED
  BY <1>2, <1>3, <1>5 DEF SuperadminInv, SuperadminRemains, table

\* What a commit or a plain write leaves of the requests in flight.
LEMMA DoomKeepsType ==
    ASSUME NEW w, NEW q \in Request
    PROVE  /\ Doom(w, q) \in Request
           /\ Doom(w, q).kind = q.kind /\ Doom(w, q).user = q.user
           /\ Doom(w, q).to = q.to
           /\ ~Doom(w, q).doomed => ~q.doomed /\ ~Disturbs(w, q)
<1>1. Disturbs(w, q) \in BOOLEAN
  BY DEF Disturbs, Reads, Serializable
<1> QED
  BY <1>1 DEF Doom, Request

\* A write of the row of w.user that keeps every other row.
LEMMA WriteKeeps ==
    ASSUME SuperadminInv, NEW w \in Request, w.user \in Users,
           superadmins' \subseteq Users, banned' \subseteq Users,
           deleted' \subseteq Users,
           superadmins' \ {w.user} = superadmins \ {w.user},
           banned' \ {w.user} = banned \ {w.user},
           change' = [q \in AdminCalls |-> change'[q]],
           \A q \in AdminCalls : change'[q] \in {NoChange, Doom(w, change[q])},
           \/ superadmins \ banned \subseteq superadmins' \ banned'
           \/ w.kind = "selfRole" /\ (superadmins \ banned) \ {w.user} # {}
    PROVE  SuperadminInv'
<1>1. \A q \in AdminCalls : change[q] \in Request
  BY DEF SuperadminInv, AdminTypeOK
<1>2. NoChange \in Request /\ NoChange.kind = "none" /\ ~NoChange.doomed
  BY DEF NoChange, Request, RoleChange, Serializable
<1>3. AdminTypeOK'
  <2>1. ASSUME NEW q \in AdminCalls
        PROVE  change'[q] \in Request /\ (change'[q].kind # "none" => change'[q].user \in Users)
    BY <2>1, <1>1, <1>2, DoomKeepsType DEF SuperadminInv, AdminTypeOK
  <2> QED BY <2>1 DEF AdminTypeOK
<1>4. SuperadminRemains'
  BY DEF SuperadminInv, SuperadminRemains
<1>5. ASSUME NEW q \in AdminCalls, ~change'[q].doomed
      PROVE  SnapshotHolds(change[q])'
  <2>1. CASE change'[q] = NoChange
    BY <2>1, <1>2 DEF SnapshotHolds
  <2>2. CASE change'[q] = Doom(w, change[q])
    <3>1. /\ ~change[q].doomed /\ ~Disturbs(w, change[q])
          /\ change'[q].kind = change[q].kind /\ change'[q].user = change[q].user
          /\ change'[q].to = change[q].to
      BY <2>2, <1>1, <1>5, DoomKeepsType
    <3>2. SnapshotHolds(change[q])
      BY <3>1 DEF SuperadminInv
    <3>3. change[q].kind \in Serializable => w.user # change[q].user
      BY <3>1 DEF Disturbs
    <3>4. change[q].kind = "selfRole" => w.kind # "selfRole"
      <4>1. change[q].kind = "selfRole" => change[q].user \in Users
        BY <1>1 DEF SuperadminInv, AdminTypeOK
      <4> QED BY <3>1, <4>1 DEF Disturbs, Reads, Serializable
    <3> QED
      BY <3>1, <3>2, <3>3, <3>4 DEF SnapshotHolds, Serializable
  <2> QED BY <2>1, <2>2
<1> QED BY <1>3, <1>4, <1>5 DEF SuperadminInv

\* At first there is a superadmin, and nothing is in flight.
LEMMA InitInv == AdminInit => SuperadminInv
<1> SUFFICES ASSUME AdminInit PROVE SuperadminInv
  OBVIOUS
<1>1. NoChange \in Request /\ NoChange.kind = "none"
  BY DEF NoChange, Request, RoleChange, Serializable
<1>2. AdminTypeOK
  BY <1>1 DEF AdminInit, AdminTypeOK
<1>3. \A r \in AdminCalls : SnapshotHolds(change[r])
  BY <1>1 DEF AdminInit, SnapshotHolds
<1> QED BY <1>2, <1>3 DEF AdminInit, SuperadminInv, SuperadminRemains

\* A plain statement writes the row of u and takes nobody's role or adds a ban.
LEMMA PlainWriteKeeps ==
    ASSUME SuperadminInv, NEW u \in Users, PlainWrite(u),
           superadmins' = superadmins,
           banned' \subseteq banned, banned' \ {u} = banned \ {u},
           deleted' \subseteq Users
    PROVE  SuperadminInv'
<1> DEFINE w == [NoChange EXCEPT !.kind = "delete", !.user = u]
<1>1. w \in Request /\ w.user = u
  BY DEF NoChange, Request, RoleChange, Serializable
<1>2. /\ change' = [q \in AdminCalls |-> change'[q]]
      /\ \A q \in AdminCalls : change'[q] \in {NoChange, Doom(w, change[q])}
  BY DEF PlainWrite
<1>3. superadmins \subseteq Users /\ banned \subseteq Users
  BY DEF SuperadminInv, AdminTypeOK
<1> HIDE DEF w
<1> QED BY <1>1, <1>2, <1>3, WriteKeeps

\* The inductive step, one action at a time.
LEMMA NextInv == SuperadminInv /\ [AdminNext]_adminVars => SuperadminInv'
<1> SUFFICES ASSUME SuperadminInv, [AdminNext]_adminVars PROVE SuperadminInv'
  OBVIOUS
<1> USE DEF RoleChange
<1>1. superadmins \subseteq Users /\ banned \subseteq Users /\ deleted \subseteq Users
  BY DEF SuperadminInv, AdminTypeOK
<1>2. ASSUME NEW r \in AdminCalls, NEW u \in Users, NEW to \in RoleChange,
             SelfRoleBegin(r, u, to)
      PROVE  SuperadminInv'
  <2>1. (superadmins \ banned) \ {u} # {}
    BY <1>2 DEF SelfRoleBegin, IsLastActiveSuperadmin, Active
  <2>2. BeginChange(r, "selfRole", u, to)
    BY <1>2 DEF SelfRoleBegin
  <2> QED BY <2>1, <2>2, BeginKeeps DEF SnapshotHolds
<1>3. ASSUME NEW r \in AdminCalls, NEW u \in Users, NEW to \in RoleChange,
             UpdateBegin(r, u, to)
      PROVE  SuperadminInv'
  BY <1>3, BeginKeeps DEF UpdateBegin, SnapshotHolds
<1>4. ASSUME NEW r \in AdminCalls, NEW u \in Users, BanBegin(r, u)
      PROVE  SuperadminInv'
  BY <1>4, BeginKeeps DEF BanBegin, SnapshotHolds
<1>5. ASSUME NEW r \in AdminCalls, NEW u \in Users, DeleteFind(r, u)
      PROVE  SuperadminInv'
  BY <1>5, BeginKeeps DEF DeleteFind, SnapshotHolds
\* a commit as WriteKeeps wants it
<1>6. ASSUME NEW r \in AdminCalls, change[r].kind # "none"
      PROVE  change[r] \in Request /\ change[r].user \in Users
  BY <1>6 DEF SuperadminInv, AdminTypeOK
<1>7. ASSUME NEW r \in AdminCalls, Committed(r)
      PROVE  /\ change' = [q \in AdminCalls |-> change'[q]]
             /\ \A q \in AdminCalls : change'[q] \in {NoChange, Doom(change[r], change[q])}
  BY <1>7 DEF Committed
<1>8. ASSUME NEW r \in AdminCalls, RoleCommit(r)
      PROVE  SuperadminInv'
  <2> DEFINE u == change[r].user
  <2>1. change[r] \in Request /\ u \in Users /\ Committed(r)
    BY <1>6, <1>8 DEF RoleCommit, MayCommit
  <2>2. /\ change[r].kind = "selfRole" => (superadmins \ banned) \ {u} # {}
        /\ change[r].kind = "update" /\ change[r].to = "user" => u \notin superadmins
    BY <1>8 DEF RoleCommit, MayCommit, SuperadminInv, SnapshotHolds
  <2>3. /\ superadmins' \subseteq Users
        /\ superadmins' \ {u} = superadmins \ {u}
        /\ banned' = banned /\ deleted' = deleted
        /\ change[r].to # "user" \/ u \notin superadmins
             => superadmins \subseteq superadmins'
    BY <1>1, <1>8, <2>1 DEF RoleCommit, WriteRole
  <2>4. \/ superadmins \ banned \subseteq superadmins' \ banned'
        \/ change[r].kind = "selfRole" /\ (superadmins \ banned) \ {u} # {}
    BY <1>8, <2>2, <2>3 DEF RoleCommit, MayCommit
  <2> QED BY <1>1, <1>7, <2>1, <2>3, <2>4, WriteKeeps
<1>9. ASSUME NEW r \in AdminCalls, BanCommit(r)
      PROVE  SuperadminInv'
  <2> DEFINE u == change[r].user
  <2>1. change[r] \in Request /\ u \in Users /\ Committed(r)
    BY <1>6, <1>9 DEF BanCommit, MayCommit
  <2>2. u \notin superadmins
    BY <1>9 DEF BanCommit, MayCommit, SuperadminInv, SnapshotHolds
  <2>3. /\ banned' = banned \cup {u}
        /\ superadmins' = superadmins /\ deleted' = deleted
    BY <1>9 DEF BanCommit
  <2>4. superadmins \ banned \subseteq superadmins' \ banned'
    BY <2>2, <2>3
  <2> QED BY <1>1, <1>7, <2>1, <2>3, <2>4, WriteKeeps
<1>10. ASSUME NEW r \in AdminCalls, DeleteWrite(r)
       PROVE  SuperadminInv'
  <2> DEFINE u == change[r].user
  <2>1. change[r] \in Request /\ u \in Users /\ Committed(r)
    BY <1>6, <1>10 DEF DeleteWrite, MayCommit
  <2>2. /\ deleted' = deleted \cup {u}
        /\ superadmins' = superadmins /\ banned' = banned
    BY <1>10 DEF DeleteWrite
  <2> QED BY <1>1, <1>7, <2>1, <2>2, WriteKeeps
<1>11. ASSUME NEW r \in AdminCalls, Fail(r)
       PROVE  SuperadminInv'
  <2>1. NoChange \in Request /\ NoChange.kind = "none"
    BY DEF NoChange, Request, Serializable
  <2>2. AdminTypeOK'
    BY <2>1, <1>11 DEF Fail, table, AdminTypeOK, SuperadminInv
  <2>3. ASSUME NEW q \in AdminCalls, ~change'[q].doomed
        PROVE  SnapshotHolds(change[q])'
    <3>1. CASE q = r
      BY <3>1, <2>1, <1>11 DEF Fail, SuperadminInv, AdminTypeOK, SnapshotHolds
    <3>2. CASE q # r
      BY <3>2, <2>3, <1>11 DEF Fail, table, SuperadminInv, AdminTypeOK, SnapshotHolds
    <3> QED BY <3>1, <3>2
  <2> QED BY <1>11, <2>2, <2>3
       DEF Fail, table, SuperadminInv, SuperadminRemains
<1>12. ASSUME NEW u \in Users, Unban(u) \/ Restore(u) \/ OwnDelete(u)
       PROVE  SuperadminInv'
  <2>1. PlainWrite(u) /\ superadmins' = superadmins
    BY <1>12 DEF Unban, Restore, OwnDelete
  <2>2. /\ banned' \subseteq banned /\ banned' \ {u} = banned \ {u}
        /\ deleted' \subseteq Users
    BY <1>1, <1>12 DEF Unban, Restore, OwnDelete
  <2> QED BY <2>1, <2>2, PlainWriteKeeps
<1>13. CASE UNCHANGED adminVars
  BY <1>13 DEF adminVars, SuperadminInv, SuperadminRemains, SnapshotHolds, AdminTypeOK
<1> QED
  BY <1>2, <1>3, <1>4, <1>5, <1>8, <1>9, <1>10, <1>11, <1>12, <1>13 DEF AdminNext

\* What every transaction that may still commit knows stays true until then.
THEOREM SnapshotsStay == AdminSpec => []SuperadminInv
BY InitInv, NextInv, PTL DEF AdminSpec

\* With the checks of isLastActiveSuperadmin in SERIALIZABLE transactions, a
\* superadmin who is not banned always remains.
THEOREM OneRemains == AdminSpec => []SuperadminRemains
<1>1. SuperadminInv => SuperadminRemains
  BY DEF SuperadminInv
<1> QED BY <1>1, SnapshotsStay, PTL

\* A single step: who is no superadmin afterwards changed the own role, and a
\* superadmin is not banned.
LEMMA ProtectedStep ==
    ASSUME SuperadminInv, [AdminNext]_adminVars, NEW u \in superadmins
    PROVE  /\ u \notin superadmins' =>
                \E r \in AdminCalls : change[r].kind = "selfRole" /\ change[r].user = u
           /\ u \in banned' => u \in banned
<1>1. ASSUME NEW r \in AdminCalls, RoleCommit(r)
      PROVE  /\ banned' = banned
             /\ u \in superadmins' \/ (change[r].kind = "selfRole" /\ change[r].user = u)
  <2>1. change[r].kind = "update" /\ change[r].to = "user"
          => change[r].user \notin superadmins
    BY <1>1 DEF RoleCommit, MayCommit, SuperadminInv, SnapshotHolds
  <2> QED BY <1>1, <2>1 DEF RoleCommit, MayCommit, WriteRole
<1>2. ASSUME NEW r \in AdminCalls, BanCommit(r)
      PROVE  superadmins' = superadmins /\ (u \in banned' => u \in banned)
  <2>1. change[r].user \notin superadmins
    BY <1>2 DEF BanCommit, MayCommit, SuperadminInv, SnapshotHolds
  <2> QED BY <1>2, <2>1 DEF BanCommit
<1>3. ASSUME NEW r \in AdminCalls, NEW v \in Users, NEW to \in RoleChange,
             \/ SelfRoleBegin(r, v, to) \/ UpdateBegin(r, v, to)
             \/ BanBegin(r, v) \/ DeleteFind(r, v) \/ DeleteWrite(r) \/ Fail(r)
      PROVE  superadmins' = superadmins /\ banned' = banned
  BY <1>3 DEF SelfRoleBegin, UpdateBegin, BanBegin, DeleteFind, DeleteWrite,
              Fail, BeginChange, table
<1>4. ASSUME NEW v \in Users, Unban(v) \/ Restore(v) \/ OwnDelete(v)
      PROVE  superadmins' = superadmins /\ banned' \subseteq banned
  BY <1>4 DEF Unban, Restore, OwnDelete
<1>5. CASE UNCHANGED adminVars
  BY <1>5 DEF adminVars
<1>6. "same" \in RoleChange /\ \E v \in Users : v = u
  BY DEF RoleChange, SuperadminInv, AdminTypeOK
<1> QED BY <1>1, <1>2, <1>3, <1>4, <1>5, <1>6 DEF AdminNext

\* Nobody demotes or bans a superadmin but by changing the own role, for any
\* number of users and whatever overlaps.
THEOREM SuperadminsProtected == AdminSpec => SuperadminProtected
<1>1. SuperadminInv /\ [AdminNext]_adminVars =>
        [\A u \in superadmins :
           /\ u \notin superadmins' =>
                \E r \in AdminCalls : change[r].kind = "selfRole" /\ change[r].user = u
           /\ u \in banned' => u \in banned]_adminVars
  BY ProtectedStep
<1> QED BY <1>1, SnapshotsStay, PTL DEF AdminSpec, SuperadminProtected

(***************************************************************************)
(* OrgTree: TreeInv is inductive for any number of organizations and of    *)
(* requests.  A walk that nobody crossed knows the ancestors of the wanted *)
(* parent and the descendants of the organization moved; that is all the   *)
(* write needs.                                                            *)
(***************************************************************************)

\* Hanging org under "to" keeps three levels when the walk found that it fits.
LEMMA MoveKeepsNested ==
    ASSUME TypeOK, Rooted, Nested, NEW o \in created, NEW p \in created,
           o \notin {p, Up(p), Up(Up(p))},
           \/ Children(o) = {} /\ Up(Up(p)) = NoOrg
           \/ (\A c \in Children(o) : Children(c) = {}) /\ Up(p) = NoOrg,
           parent' = [parent EXCEPT ![o] = p]
    PROVE  Nested'
<1>1. /\ o \in Orgs /\ p \in Orgs /\ NoOrg \notin Orgs
      /\ \A x \in Orgs : parent[x] \in Orgs \cup {NoOrg}
      /\ \A x \in Orgs : parent'[x] = IF x = o THEN p ELSE parent[x]
      /\ \A x \in Orgs, y \in Orgs : parent[x] = y => x \in Children(y)
  BY TreeAssumption DEF TypeOK, Rooted, Children
<1> SUFFICES ASSUME NEW x \in Orgs PROVE Up(Up(Up(x)))' = NoOrg
  BY DEF Nested
<1>2. /\ Up(p)' = Up(p)
      /\ Up(p) # NoOrg => Up(Up(p))' = Up(Up(p))
  BY <1>1 DEF Up
<1>3. CASE x = o
  <2>1. Up(x)' = p
    BY <1>1, <1>3 DEF Up
  <2>2. Up(Up(p)) = NoOrg
    BY DEF Up
  <2> QED BY <1>2, <2>1, <2>2 DEF Up
<1>4. CASE x # o /\ parent[x] = o
  <2>1. Up(p) = NoOrg
    BY <1>1, <1>4
  <2> QED BY <1>1, <1>2, <1>4, <2>1 DEF Up
<1>5. CASE x # o /\ parent[x] # o
  <2>1. Up(Up(x)) # o
    BY <1>1, <1>5 DEF Up
  <2>2. Up(x)' = Up(x) /\ Up(Up(x))' = Up(Up(x))
    BY <1>1, <1>5, <2>1 DEF Up
  <2> QED BY <1>1, <2>1, <2>2 DEF Up, Nested
<1> QED BY <1>3, <1>4, <1>5

\* A row that hangs nowhere is no matter for the depth.
LEMMA RootKeepsNested ==
    ASSUME TypeOK, Nested, NEW o \in Orgs,
           parent' = [parent EXCEPT ![o] = NoOrg]
    PROVE  Nested'
<1>1. \A x \in Orgs : parent'[x] = IF x = o THEN NoOrg ELSE parent[x]
  BY DEF TypeOK
<1>2. \A x \in Orgs : parent[x] \in Orgs \cup {NoOrg}
  BY DEF TypeOK
<1> QED BY <1>1, <1>2, TreeAssumption DEF Nested, Up

\* A new row has no children yet.
LEMMA InsertKeepsNested ==
    ASSUME TypeOK, Rooted, Nested, NEW o \in Orgs \ created, NEW p \in created,
           Up(Up(p)) = NoOrg,
           parent' = [parent EXCEPT ![o] = p]
    PROVE  Nested'
<1>1. /\ p \in Orgs /\ p # o /\ NoOrg \notin Orgs /\ o # NoOrg
      /\ \A x \in Orgs : parent[x] \in Orgs \cup {NoOrg} /\ parent[x] # o
      /\ \A x \in Orgs : parent'[x] = IF x = o THEN p ELSE parent[x]
  BY TreeAssumption DEF TypeOK, Rooted
<1> SUFFICES ASSUME NEW x \in Orgs PROVE Up(Up(Up(x)))' = NoOrg
  BY DEF Nested
<1>2. CASE x = o
  <2>1. Up(x)' = p /\ Up(p)' = Up(p) /\ Up(p) # o
    BY <1>1, <1>2 DEF Up
  <2> QED BY <1>1, <2>1 DEF Up
<1>3. CASE x # o
  <2>1. Up(x)' = Up(x) /\ Up(x) # o
    BY <1>1, <1>3 DEF Up
  <2>2. Up(Up(x))' = Up(Up(x)) /\ Up(Up(x)) # o
    BY <1>1, <2>1 DEF Up
  <2> QED BY <1>1, <2>2 DEF Up, Nested
<1> QED BY <1>2, <1>3

\* A step that writes nothing and leaves r with a walk that knows enough.
LEMMA ContinueKeeps ==
    ASSUME TreeInv, NEW r \in Requests, NEW walk \in Walk, Continue(r, walk),
           {walk.org, walk.to} \subseteq created \cup {NoOrg}, OnItsWay(walk),
           ~overlapped /\ ~walk.crossed => Established(walk)
    PROVE  TreeInv'
<1>1. req' = [req EXCEPT ![r] = walk] /\ UNCHANGED <<created, parent, overlapped>>
  BY DEF Continue
<1>2. TypeOK'
  BY <1>1 DEF TypeOK, TreeInv
<1>3. Rooted'
  BY <1>1 DEF Rooted, TreeInv, TypeOK
<1>4. ThreeLevels'
  BY <1>1 DEF ThreeLevels, Nested, Up, TreeInv
<1>5. \A q : Established(q)' <=> Established(q)
  BY <1>1 DEF Established, NotAbove, DepthIs, Up, Children
<1>6. ASSUME ~overlapped', NEW q \in Requests, ~req'[q].crossed
      PROVE  Established(req'[q])
  BY <1>1, <1>6 DEF TreeInv, TypeOK
<1>7. \A q \in Requests : OnItsWay(req'[q])
  BY <1>1 DEF TreeInv, TypeOK
<1> QED BY <1>2, <1>3, <1>4, <1>5, <1>6, <1>7 DEF TreeInv, OnItsWay

LEMMA IdleKnowsNothing ==
    Idle \in Walk /\ Idle.org = NoOrg /\ Idle.to = NoOrg /\ Established(Idle)
    /\ OnItsWay(Idle)
BY TreeAssumption DEF Idle, Walk, Established, OnItsWay

LEMMA RefuseKeeps ==
    ASSUME TreeInv, NEW r \in Requests, Refuse(r)
    PROVE  TreeInv'
BY IdleKnowsNothing, ContinueKeeps DEF Refuse

\* A write crosses every other walk, so only the forest has to be looked at.
LEMMA PlaceKeeps ==
    ASSUME TreeInv, NEW r \in Requests, Written(r),
           created' \subseteq Orgs, created \subseteq created',
           parent' \in [Orgs -> Orgs \cup {NoOrg}],
           \A o \in Orgs : parent'[o] \in created' \cup {NoOrg},
           \A o \in Orgs \ created' : parent'[o] = NoOrg,
           ~overlapped' => Nested'
    PROVE  TreeInv'
<1>1. \A q \in Requests :
         \/ req'[q] = Idle
         \/ /\ req'[q] = [req[q] EXCEPT !.crossed = TRUE]
            /\ req'[q].org = req[q].org /\ req'[q].to = req[q].to
            /\ req'[q].pc = req[q].pc /\ req'[q].at = req[q].at
            /\ req'[q].left = req[q].left /\ req'[q].depth = req[q].depth
            /\ req'[q].crossed /\ req'[q] \in Walk
  <2> SUFFICES ASSUME NEW q \in Requests, req'[q] # Idle
               PROVE  /\ req'[q] = [req[q] EXCEPT !.crossed = TRUE]
                      /\ req'[q].org = req[q].org /\ req'[q].to = req[q].to
                      /\ req'[q].pc = req[q].pc /\ req'[q].at = req[q].at
                      /\ req'[q].left = req[q].left /\ req'[q].depth = req[q].depth
                      /\ req'[q].crossed /\ req'[q] \in Walk
    OBVIOUS
  <2>1. req[q] \in Walk
    BY DEF TreeInv, TypeOK
  <2>2. req'[q] = [req[q] EXCEPT !.crossed = TRUE]
    BY DEF Written
  <2> QED BY <2>1, <2>2 DEF Walk
<1>2. TypeOK'
  BY <1>1, IdleKnowsNothing DEF TypeOK, TreeInv, Written
<1>3. Rooted'
  <2>1. ASSUME NEW q \in Requests
        PROVE  {req'[q].org, req'[q].to} \subseteq created' \cup {NoOrg}
    <3>1. CASE req'[q] = Idle
      BY <3>1, IdleKnowsNothing
    <3>2. CASE req'[q] # Idle
      <4>1. {req[q].org, req[q].to} \subseteq created \cup {NoOrg}
        BY DEF TreeInv, Rooted
      <4>2. req'[q].org = req[q].org /\ req'[q].to = req[q].to
        BY <1>1, <3>2
      <4> QED BY <4>1, <4>2
    <3> QED BY <3>1, <3>2
  <2> QED BY <2>1 DEF Rooted
<1>4. \A q \in Requests : ~req'[q].crossed => Established(req[q])'
  <2> SUFFICES ASSUME NEW q \in Requests, ~req'[q].crossed
               PROVE  Established(req[q])'
    OBVIOUS
  <2>1. req'[q] = Idle
    BY <1>1
  <2>2. req'[q].pc = "idle"
    BY <2>1 DEF Idle
  <2> QED BY <2>2 DEF Established
<1>5. \A q \in Requests : OnItsWay(req[q])'
  <2> SUFFICES ASSUME NEW q \in Requests PROVE OnItsWay(req[q])'
    OBVIOUS
  <2>1. CASE req'[q] = Idle
    <3>1. req'[q].pc = "idle"
      BY <2>1 DEF Idle
    <3> QED BY <3>1 DEF OnItsWay
  <2>2. CASE req'[q] # Idle
    <3>1. OnItsWay(req[q])
      BY DEF TreeInv
    <3> QED BY <1>1, <2>2, <3>1 DEF OnItsWay
  <2> QED BY <2>1, <2>2
<1> QED BY <1>2, <1>3, <1>4, <1>5 DEF TreeInv, ThreeLevels

LEMMA Bounds == 0 \in 0..MaxIterations /\ MaxIterations \in 0..MaxIterations
BY TreeAssumption

\* What a request in flight is, and what its walk knows.
LEMMA InFlight ==
    ASSUME TreeInv, NEW r \in Requests
    PROVE  /\ req[r] \in Walk
           /\ req[r].org \in created \cup {NoOrg}
           /\ req[r].to \in created \cup {NoOrg}
           /\ OnItsWay(req[r])
           /\ ~overlapped /\ ~req[r].crossed => Established(req[r]) /\ Nested
           /\ created \subseteq Orgs /\ NoOrg \notin created
           /\ \A o \in Orgs : parent[o] \in created \cup {NoOrg}
BY TreeAssumption DEF TreeInv, TypeOK, Rooted, ThreeLevels

LEMMA WalkBeginKeeps ==
    ASSUME TreeInv, NEW r \in Requests, NEW o \in created \cup {NoOrg},
           NEW p \in created \cup {NoOrg}, o # NoOrg => o # p,
           Begin(r, o, p)
    PROVE  TreeInv'
<1> DEFINE walk == [Idle EXCEPT !.pc = IF p = NoOrg THEN "write" ELSE "up",
                       !.org = o, !.to = p, !.at = p, !.left = MaxIterations]
<1>1. walk \in Walk /\ walk.org = o /\ walk.to = p
  <2>1. o \in Orgs \cup {NoOrg} /\ p \in Orgs \cup {NoOrg}
    BY InFlight
  <2> QED BY <2>1, Bounds DEF Idle, Walk
<1>2. Established(walk) /\ OnItsWay(walk)
  BY TreeAssumption DEF Idle, Established, OnItsWay
<1>3. Continue(r, walk)
  BY DEF Begin
<1> HIDE DEF walk
<1> QED BY <1>1, <1>2, <1>3, ContinueKeeps

\* The write is next: what the walk found is what the write needs.
LEMMA AcceptKeeps ==
    ASSUME TreeInv, NEW r \in Requests, Accept(r), req[r].to # NoOrg,
           ~overlapped /\ ~req[r].crossed =>
             /\ NotAbove(req[r])
             /\ \/ /\ req[r].org # NoOrg => Children(req[r].org) = {}
                   /\ Up(Up(req[r].to)) = NoOrg
                \/ /\ req[r].org # NoOrg =>
                        \A c \in Children(req[r].org) : Children(c) = {}
                   /\ Up(req[r].to) = NoOrg
    PROVE  TreeInv'
<1> DEFINE walk == [Idle EXCEPT !.pc = "write", !.org = req[r].org,
                       !.to = req[r].to, !.crossed = req[r].crossed]
<1>1. /\ walk \in Walk /\ walk.org = req[r].org /\ walk.to = req[r].to
      /\ walk.crossed = req[r].crossed /\ walk.pc = "write"
  <2>1. req[r] \in Walk
    BY InFlight
  <2> QED BY <2>1, Bounds DEF Idle, Walk
<1>2. OnItsWay(walk) /\ (~overlapped /\ ~walk.crossed => Established(walk))
  BY <1>1 DEF Established, NotAbove, OnItsWay
<1>3. Continue(r, walk)
  BY DEF Accept
<1> HIDE DEF walk
<1> QED BY <1>1, <1>2, <1>3, InFlight, ContinueKeeps

\* The end of the walk up, where the depth of the parent is known.
LEMMA TopKeeps ==
    ASSUME TreeInv, NEW r \in Requests, NEW d \in 0..MaxIterations,
           req[r].pc = "up", req[r].to # NoOrg, TopReached(r, d),
           ~overlapped /\ ~req[r].crossed =>
             NotAbove(req[r]) /\ DepthIs(req[r].to, d)
    PROVE  TreeInv'
<1>1. CASE req[r].org # NoOrg
  <2> DEFINE walk == [req[r] EXCEPT !.pc = "children", !.depth = d,
                         !.at = NoOrg, !.left = 0]
  <2>1. /\ walk \in Walk /\ walk.org = req[r].org /\ walk.to = req[r].to
        /\ walk.crossed = req[r].crossed /\ walk.pc = "children"
        /\ walk.depth = d
    <3>1. req[r] \in Walk
      BY InFlight
    <3> QED BY <3>1, Bounds DEF Walk
  <2>2. OnItsWay(walk) /\ (~overlapped /\ ~walk.crossed => Established(walk))
    BY <1>1, <2>1 DEF Established, NotAbove, OnItsWay
  <2>3. Continue(r, walk)
    BY <1>1 DEF TopReached
  <2> HIDE DEF walk
  <2> QED BY <2>1, <2>2, <2>3, InFlight, ContinueKeeps
<1>2. CASE req[r].org = NoOrg /\ TooDeep(d, 0)
  BY <1>2, RefuseKeeps DEF TopReached
<1>3. CASE req[r].org = NoOrg /\ ~TooDeep(d, 0)
  <2>1. Accept(r)
    BY <1>3 DEF TopReached
  <2>2. DepthIs(req[r].to, d) => Up(Up(req[r].to)) = NoOrg
    BY <1>3 DEF TooDeep, DepthIs, Up
  <2> QED BY <1>3, <2>1, <2>2, AcceptKeeps
<1> QED BY <1>1, <1>2, <1>3

LEMMA WalkUpKeeps ==
    ASSUME TreeInv, NEW r \in Requests, WalkUp(r)
    PROVE  TreeInv'
<1> DEFINE q == req[r]
           next == parent[q.at]
           depth == IF next = NoOrg THEN q.depth ELSE q.depth + 1
           walk == [q EXCEPT !.at = next, !.depth = depth, !.left = @ - 1]
<1>1. /\ q \in Walk /\ q.pc = "up" /\ q.to # NoOrg /\ q.at # NoOrg
      /\ q.to \in Orgs /\ q.at \in Orgs /\ next \in Orgs \cup {NoOrg}
      /\ q.left \in 1..MaxIterations /\ q.left + q.depth = MaxIterations
      /\ {q.org, q.to} \subseteq created \cup {NoOrg} /\ NoOrg \notin Orgs
  BY InFlight, TreeAssumption DEF WalkUp, OnItsWay, Walk
<1>2. depth \in 0..MaxIterations
  BY <1>1, TreeAssumption DEF Walk
\* what one more hop tells a walk that nobody crossed
<1>3. CASE next = q.org /\ next # NoOrg
  BY <1>3, RefuseKeeps DEF WalkUp
<1>4. ASSUME ~(next = q.org /\ next # NoOrg), ~overlapped, ~q.crossed
      PROVE  /\ next = NoOrg => NotAbove(q) /\ DepthIs(q.to, depth)
             /\ next # NoOrg =>
                  /\ depth <= 2 /\ q.left # 1
                  /\ \/ depth = 1 /\ next = Up(q.to)
                     \/ /\ depth = 2 /\ next = Up(Up(q.to))
                        /\ q.org # NoOrg => q.org # Up(q.to)
  <2>1. Established(q) /\ Nested
    BY <1>4, InFlight
  <2>2. next = Up(q.at)
    BY <1>1 DEF Up
  <2>3. CASE q.depth = 0 /\ q.at = q.to
    BY <1>1, <1>4, <2>1, <2>2, <2>3, TreeAssumption
       DEF Established, NotAbove, DepthIs, Up
  <2>4. CASE q.depth = 1 /\ q.at = Up(q.to) /\ (q.org # NoOrg => q.org # q.at)
    BY <1>1, <1>4, <2>1, <2>2, <2>4, TreeAssumption
       DEF Established, NotAbove, DepthIs, Up
  <2>5. CASE /\ q.depth = 2 /\ q.at = Up(Up(q.to))
             /\ q.org # NoOrg => q.org \notin {q.at, Up(q.to)}
    <3>1. next = NoOrg
      BY <1>1, <2>1, <2>2, <2>5 DEF Nested
    <3> QED BY <1>1, <2>1, <2>5, <3>1 DEF Established, NotAbove, DepthIs, Up
  <2> QED BY <1>1, <2>1, <2>3, <2>4, <2>5 DEF Established
<1>5. CASE ~(next = q.org /\ next # NoOrg) /\ (next = NoOrg \/ q.left = 1)
  <2>1. TopReached(r, depth)
    BY <1>5 DEF WalkUp
  <2>2. ~overlapped /\ ~q.crossed => NotAbove(q) /\ DepthIs(q.to, depth)
    BY <1>4, <1>5
  <2> HIDE DEF depth
  <2> QED BY <1>1, <1>2, <2>1, <2>2, TopKeeps
<1>6. CASE ~(next = q.org /\ next # NoOrg) /\ ~(next = NoOrg \/ q.left = 1)
  <2>1. Continue(r, walk)
    BY <1>6 DEF WalkUp
  <2>2. /\ walk \in Walk /\ walk.org = q.org /\ walk.to = q.to
        /\ walk.crossed = q.crossed /\ walk.pc = "up" /\ walk.at = next
        /\ walk.depth = depth /\ walk.left = q.left - 1
    <3>1. q.left - 1 \in 0..MaxIterations
      BY <1>1, TreeAssumption
    <3> HIDE DEF next, depth
    <3> QED BY <1>1, <1>2, <3>1 DEF Walk
  <2>3. OnItsWay(walk)
    BY <1>1, <1>6, <2>2, TreeAssumption DEF OnItsWay, Walk
  <2>4. ASSUME ~overlapped, ~walk.crossed
        PROVE  Established(walk)
    <3>1. q.org # NoOrg => q.org # q.to
      BY <1>1, <2>2, <2>4, InFlight DEF Established
    <3>2. next # NoOrg /\ (q.org # NoOrg => q.org # next)
      BY <1>6
    <3>3. \/ depth = 1 /\ next = Up(q.to)
          \/ /\ depth = 2 /\ next = Up(Up(q.to))
             /\ q.org # NoOrg => q.org # Up(q.to)
      BY <1>4, <1>6, <2>2, <2>4, <3>2
    <3> HIDE DEF q, next, depth, walk
    <3> QED BY <2>2, <3>1, <3>2, <3>3 DEF Established
  <2> HIDE DEF walk
  <2> QED BY <1>1, <2>1, <2>2, <2>3, <2>4, ContinueKeeps
<1> QED BY <1>3, <1>5, <1>6

LEMMA WalkChildrenKeeps ==
    ASSUME TreeInv, NEW r \in Requests, WalkChildren(r)
    PROVE  TreeInv'
<1> DEFINE q == req[r]
           walk == [q EXCEPT !.pc = "below", !.todo = Children(q.org)]
<1>1. /\ q \in Walk /\ q.pc = "children" /\ q.to # NoOrg /\ q.org # NoOrg
      /\ {q.org, q.to} \subseteq created \cup {NoOrg}
      /\ Children(q.org) \subseteq Orgs
  BY InFlight DEF WalkChildren, OnItsWay, Children
<1>2. ~overlapped /\ ~q.crossed => NotAbove(q) /\ DepthIs(q.to, q.depth)
  BY <1>1, InFlight DEF Established
<1>3. CASE Children(q.org) # {}
  <2>1. Continue(r, walk)
    BY <1>3 DEF WalkChildren
  <2>2. /\ walk \in Walk /\ walk.org = q.org /\ walk.to = q.to
        /\ walk.crossed = q.crossed /\ walk.pc = "below"
        /\ walk.todo = Children(q.org) /\ walk.depth = q.depth
    BY <1>1 DEF Walk
  <2>3. OnItsWay(walk) /\ (~overlapped /\ ~walk.crossed => Established(walk))
    BY <1>1, <1>2, <1>3, <2>2 DEF OnItsWay, Established, NotAbove
  <2> HIDE DEF walk
  <2> QED BY <1>1, <2>1, <2>2, <2>3, ContinueKeeps
<1>4. CASE Children(q.org) = {} /\ TooDeep(q.depth, 0)
  BY <1>4, RefuseKeeps DEF WalkChildren
<1>5. CASE Children(q.org) = {} /\ ~TooDeep(q.depth, 0)
  <2>1. Accept(r)
    BY <1>5 DEF WalkChildren
  <2>2. DepthIs(q.to, q.depth) => Up(Up(q.to)) = NoOrg
    BY <1>5 DEF TooDeep, DepthIs, Up
  <2> QED BY <1>1, <1>2, <1>5, <2>1, <2>2, AcceptKeeps
<1> QED BY <1>3, <1>4, <1>5

LEMMA WalkBelowKeeps ==
    ASSUME TreeInv, NEW r \in Requests, WalkBelow(r)
    PROVE  TreeInv'
<1> DEFINE q == req[r]
<1>1. /\ q \in Walk /\ q.pc = "below" /\ q.to # NoOrg /\ q.org # NoOrg
      /\ {q.org, q.to} \subseteq created \cup {NoOrg}
  BY InFlight DEF WalkBelow, OnItsWay
<1>2. ~overlapped /\ ~q.crossed =>
        /\ NotAbove(q) /\ DepthIs(q.to, q.depth) /\ q.todo \subseteq Children(q.org)
        /\ \A c \in Children(q.org) \ q.todo : Children(c) = {}
  BY <1>1, InFlight DEF Established
<1>3. PICK c \in q.todo :
         IF Children(c) # {}
         THEN Refuse(r)
         ELSE IF q.todo # {c}
              THEN Continue(r, [q EXCEPT !.todo = @ \ {c}])
              ELSE IF TooDeep(q.depth, 1) THEN Refuse(r) ELSE Accept(r)
  BY DEF WalkBelow
<1> DEFINE walk == [q EXCEPT !.todo = @ \ {c}]
<1>4. CASE Children(c) = {} /\ q.todo # {c}
  <2>1. Continue(r, walk)
    BY <1>3, <1>4
  <2>2. /\ walk \in Walk /\ walk.org = q.org /\ walk.to = q.to
        /\ walk.crossed = q.crossed /\ walk.pc = "below"
        /\ walk.todo = q.todo \ {c} /\ walk.depth = q.depth
    BY <1>1 DEF Walk
  <2>3. OnItsWay(walk) /\ (~overlapped /\ ~walk.crossed => Established(walk))
    BY <1>1, <1>2, <1>4, <2>2 DEF OnItsWay, Established, NotAbove
  <2> HIDE DEF walk
  <2> QED BY <1>1, <2>1, <2>2, <2>3, ContinueKeeps
<1>5. CASE Children(c) = {} /\ q.todo = {c} /\ ~TooDeep(q.depth, 1)
  <2>1. Accept(r)
    BY <1>3, <1>5
  <2>2. DepthIs(q.to, q.depth) => Up(q.to) = NoOrg
    BY <1>5 DEF TooDeep, DepthIs, Up
  <2>3. ~overlapped /\ ~q.crossed => \A x \in Children(q.org) : Children(x) = {}
    BY <1>2, <1>5
  <2> QED BY <1>1, <1>2, <2>1, <2>2, <2>3, AcceptKeeps
<1>6. CASE Refuse(r)
  BY <1>6, RefuseKeeps
<1> QED BY <1>3, <1>4, <1>5, <1>6

LEMMA CreateInsertKeeps ==
    ASSUME TreeInv, NEW r \in Requests, CreateInsert(r)
    PROVE  TreeInv'
<1> DEFINE p == req[r].to
<1>1. PICK o \in Orgs \ created : /\ created' = created \cup {o}
                                  /\ parent' = [parent EXCEPT ![o] = p]
  BY DEF CreateInsert
<1>2. /\ p \in created \cup {NoOrg} /\ created \subseteq Orgs
      /\ TypeOK /\ Rooted /\ ThreeLevels /\ parent \in [Orgs -> Orgs \cup {NoOrg}]
      /\ \A x \in Orgs : parent[x] \in created \cup {NoOrg}
      /\ \A x \in Orgs \ created : parent[x] = NoOrg
  BY InFlight DEF TreeInv, TypeOK, Rooted
<1>3. Written(r)
  BY DEF CreateInsert
<1>4. ASSUME ~overlapped' PROVE Nested'
  <2>1. ~overlapped /\ (~req[r].crossed \/ p = NoOrg)
    BY <1>3, <1>4 DEF Written
  <2>2. Nested
    BY <1>2, <2>1 DEF ThreeLevels
  <2>3. CASE p = NoOrg
    BY <1>1, <1>2, <2>2, <2>3, RootKeepsNested
  <2>4. CASE p # NoOrg
    <3>1. Up(Up(p)) = NoOrg
      BY <2>1, <2>4, InFlight DEF CreateInsert, Established, Up
    <3> QED BY <1>1, <1>2, <2>2, <2>4, <3>1, InsertKeepsNested
  <2> QED BY <2>3, <2>4
<1>5. /\ created' \subseteq Orgs /\ created \subseteq created'
      /\ parent' \in [Orgs -> Orgs \cup {NoOrg}]
      /\ \A x \in Orgs : parent'[x] \in created' \cup {NoOrg}
      /\ \A x \in Orgs \ created' : parent'[x] = NoOrg
  BY <1>1, <1>2
<1> QED BY <1>3, <1>4, <1>5, PlaceKeeps

LEMMA MoveWriteKeeps ==
    ASSUME TreeInv, NEW r \in Requests, MoveWrite(r)
    PROVE  TreeInv'
<1> DEFINE o == req[r].org
           p == req[r].to
<1>1. /\ o \in created /\ o \in Orgs /\ Written(r) /\ created' = created
      /\ parent' = [parent EXCEPT ![o] = p] /\ o # NoOrg /\ req[r].pc = "write"
  BY InFlight DEF MoveWrite
<1>2. /\ p \in created \cup {NoOrg} /\ created \subseteq Orgs
      /\ TypeOK /\ Rooted /\ ThreeLevels /\ parent \in [Orgs -> Orgs \cup {NoOrg}]
      /\ \A x \in Orgs : parent[x] \in created \cup {NoOrg}
      /\ \A x \in Orgs \ created : parent[x] = NoOrg
  BY InFlight DEF TreeInv, TypeOK, Rooted
<1>3. ASSUME ~overlapped' PROVE Nested'
  <2>1. ~overlapped /\ (~req[r].crossed \/ p = NoOrg)
    BY <1>1, <1>3 DEF Written
  <2>2. Nested
    BY <1>2, <2>1 DEF ThreeLevels
  <2>3. CASE p = NoOrg
    BY <1>1, <1>2, <2>2, <2>3, RootKeepsNested
  <2>4. CASE p # NoOrg
    <3>1. Established(req[r])
      BY <2>1, <2>4, InFlight
    <3>2. /\ o \notin {p, Up(p), Up(Up(p))}
          /\ \/ Children(o) = {} /\ Up(Up(p)) = NoOrg
             \/ (\A c \in Children(o) : Children(c) = {}) /\ Up(p) = NoOrg
      BY <1>1, <2>4, <3>1 DEF Established, NotAbove
    <3> HIDE DEF o, p
    <3> QED BY <1>1, <1>2, <2>2, <2>4, <3>2, MoveKeepsNested
  <2> QED BY <2>3, <2>4
<1>4. /\ created' \subseteq Orgs /\ created \subseteq created'
      /\ parent' \in [Orgs -> Orgs \cup {NoOrg}]
      /\ \A x \in Orgs : parent'[x] \in created' \cup {NoOrg}
      /\ \A x \in Orgs \ created' : parent'[x] = NoOrg
  BY <1>1, <1>2
<1> QED BY <1>1, <1>3, <1>4, PlaceKeeps

-----------------------------------------------------------------------------
LEMMA TreeInvInit == Init => TreeInv
<1> SUFFICES ASSUME Init PROVE TreeInv
  OBVIOUS
<1>1. TypeOK
  BY IdleKnowsNothing DEF Init, TypeOK
<1>2. Rooted
  BY IdleKnowsNothing DEF Init, Rooted
<1>3. Nested
  BY TreeAssumption DEF Init, Nested, Up
<1>4. \A r \in Requests : OnItsWay(req[r]) /\ Established(req[r])
  BY IdleKnowsNothing DEF Init
<1> QED BY <1>1, <1>2, <1>3, <1>4 DEF TreeInv, ThreeLevels

LEMMA TreeInvNext == TreeInv /\ [Next]_vars => TreeInv'
<1> SUFFICES ASSUME TreeInv, [Next]_vars PROVE TreeInv'
  OBVIOUS
<1>1. ASSUME NEW r \in Requests, NEW p \in Orgs \cup {NoOrg}, CreateArrive(r, p)
      PROVE  TreeInv'
  BY <1>1, WalkBeginKeeps DEF CreateArrive
<1>2. ASSUME NEW r \in Requests, NEW o \in Orgs, NEW p \in Orgs \cup {NoOrg},
             MoveArrive(r, o, p)
      PROVE  TreeInv'
  BY <1>2, WalkBeginKeeps DEF MoveArrive
<1>3. ASSUME NEW r \in Requests, Proceed(r)
      PROVE  TreeInv'
  BY <1>3, WalkUpKeeps, WalkChildrenKeeps, WalkBelowKeeps, CreateInsertKeeps,
     MoveWriteKeeps, RefuseKeeps DEF Proceed, SlugConflict
<1>4. CASE UNCHANGED vars
  <2>1. UNCHANGED created /\ UNCHANGED parent /\ UNCHANGED req /\ UNCHANGED overlapped
    BY <1>4 DEF vars
  <2>2. TypeOK' /\ Rooted'
    BY <2>1 DEF TreeInv, TypeOK, Rooted
  <2>3. ThreeLevels'
    BY <2>1 DEF TreeInv, ThreeLevels, Nested, Up
  <2>4. \A r \in Requests : OnItsWay(req[r])'
    BY <2>1 DEF TreeInv, OnItsWay
  <2>5. ASSUME ~overlapped', NEW r \in Requests, ~req'[r].crossed
        PROVE  Established(req[r])'
    <3>1. Established(req[r])
      BY <2>1, <2>5 DEF TreeInv
    <3>2. \A o : Children(o)' = Children(o) /\ Up(o)' = Up(o)
      BY <2>1 DEF Children, Up
    <3>3. NotAbove(req[r])' <=> NotAbove(req[r])
      BY <2>1 DEF NotAbove, Up
    <3>4. DepthIs(req[r].to, req[r].depth)' <=> DepthIs(req[r].to, req[r].depth)
      BY <2>1 DEF DepthIs, Up
    <3> QED BY <2>1, <3>1, <3>2, <3>3, <3>4, SMTT(30) DEF Established, Up, Children
  <2> QED BY <2>2, <2>3, <2>4, <2>5 DEF TreeInv
<1> QED BY <1>1, <1>2, <1>3, <1>4 DEF Next

\* In every behaviour the walks know what they need: the inductive invariant.
THEOREM TreeInvariant == Spec => []TreeInv
<1> QED BY TreeInvInit, TreeInvNext, PTL DEF Spec

\* However many organizations and requests there are, the forest has three
\* levels and no cycle until a request writes although another write crossed
\* its walk.
THEOREM StaysThreeLevels == Spec => []ThreeLevels
<1>1. TreeInv => ThreeLevels
  BY DEF TreeInv
<1> QED BY <1>1, TreeInvariant, PTL

-----------------------------------------------------------------------------
\* A walk that ends was answered by a step of its own: the steps of the other
\* requests leave it where it stands.
LEMMA EndsByItself ==
    ASSUME TreeInv, Next, NEW r \in Requests,
           req[r].pc \in {"up", "children", "below"}, req'[r] = Idle
    PROVE  WalkUp(r) \/ WalkChildren(r) \/ WalkBelow(r)
<1>1. req[r] \in Walk /\ Idle.pc = "idle" /\ req[r] # Idle
      /\ req \in [Requests -> Walk]
  BY DEF TreeInv, TypeOK, Idle
<1>2. ASSUME NEW q \in Requests, NEW walk, Continue(q, walk), q # r PROVE FALSE
  BY <1>1, <1>2 DEF Continue
<1>3. ASSUME NEW q \in Requests, Written(q), q # r PROVE FALSE
  <2>1. req'[r] = [req[r] EXCEPT !.crossed = TRUE]
    BY <1>1, <1>3 DEF Written
  <2>2. req'[r].pc = req[r].pc
    BY <1>1, <2>1 DEF Walk
  <2> QED BY <1>1, <2>2
<1>4. ASSUME NEW q \in Requests, NEW o, NEW p, Begin(q, o, p) PROVE FALSE
  <2>1. q # r
    BY <1>1, <1>4 DEF Begin
  <2> QED BY <1>2, <1>4, <2>1 DEF Begin
<1>5. PICK q \in Requests : Proceed(q)
  BY <1>4 DEF Next, CreateArrive, MoveArrive
<1>6. CASE q = r
  BY <1>5, <1>6 DEF Proceed, CreateInsert, MoveWrite, SlugConflict
<1>7. CASE q # r
  BY <1>2, <1>3, <1>5, <1>7
     DEF Proceed, WalkUp, WalkChildren, WalkBelow, TopReached, Refuse, Accept,
         CreateInsert, MoveWrite, SlugConflict
<1> QED BY <1>6, <1>7

\* How deep Wanted sees a parent whose depth a walk has found.
LEMMA TooDeepForWanted ==
    ASSUME NEW q \in Walk, NEW d \in Nat, NEW b \in {0, 1}, DepthIs(q.to, d),
           TooDeep(d, b), b = 1 => q.org # NoOrg /\ Children(q.org) # {}
    PROVE  ~Wanted(q)
<1>1. /\ d = 1 => Up(q.to) # NoOrg /\ Up(Up(q.to)) = NoOrg
      /\ d = 2 => Up(Up(q.to)) # NoOrg /\ Up(q.to) # NoOrg
      /\ d \in {1, 2} /\ (b = 0 => d = 2)
  BY DEF DepthIs, TooDeep, Up
<1>2. CASE d = 2
  BY <1>1, <1>2 DEF Wanted
<1>3. CASE d = 1 /\ b = 1
  BY <1>1, <1>3 DEF Wanted
<1> QED BY <1>1, <1>2, <1>3

LEMMA UnderItselfUnwanted ==
    ASSUME NEW q, q.org # NoOrg, q.org \in {Up(q.to), Up(Up(q.to))}
    PROVE  ~Wanted(q)
BY DEF Wanted

LEMMA GrandchildrenUnwanted ==
    ASSUME NEW q \in Walk, q.org # NoOrg, NEW c \in Children(q.org), Children(c) # {}
    PROVE  ~Wanted(q)
BY DEF Wanted

LEMMA WalkUpRefuses ==
    ASSUME TreeInv, NEW r \in Requests, WalkUp(r), req'[r] = Idle,
           ~overlapped, ~req[r].crossed
    PROVE  ~Wanted(req[r])
<1> DEFINE q == req[r]
           next == parent[q.at]
           depth == IF next = NoOrg THEN q.depth ELSE q.depth + 1
           walk == [q EXCEPT !.at = next, !.depth = depth, !.left = @ - 1]
<1>1. /\ q \in Walk /\ q.pc = "up" /\ q.to # NoOrg /\ q.at # NoOrg
      /\ q.to \in Orgs /\ q.at \in Orgs /\ next \in Orgs \cup {NoOrg}
      /\ q.left \in 1..MaxIterations /\ q.left + q.depth = MaxIterations
      /\ NoOrg \notin Orgs /\ q.depth \in Nat /\ req \in [Requests -> Walk]
  BY InFlight, TreeAssumption DEF WalkUp, OnItsWay, Walk, TreeInv, TypeOK
<1>2. Established(q) /\ Nested
  BY InFlight
<1>3. next = Up(q.at) /\ \/ q.depth = 0 /\ q.at = q.to
                         \/ q.depth = 1 /\ q.at = Up(q.to)
                         \/ q.depth = 2 /\ q.at = Up(Up(q.to)) /\ next = NoOrg
  BY <1>1, <1>2 DEF Established, Up, Nested
<1>4. CASE next = q.org /\ next # NoOrg
  <2>1. q.org # NoOrg /\ q.org \in {Up(q.to), Up(Up(q.to))}
    BY <1>3, <1>4
  <2> QED BY <2>1, UnderItselfUnwanted
<1>5. CASE ~(next = q.org /\ next # NoOrg)
  <2>1. ASSUME NEW w \in Walk, w.pc # "idle", Continue(r, w) PROVE FALSE
    <3>1. req'[r] = w
      BY <1>1, <2>1 DEF Continue
    <3> QED BY <2>1, <3>1 DEF Idle
  <2>2. next = NoOrg \/ q.left = 1
    <3> SUFFICES ASSUME ~(next = NoOrg \/ q.left = 1) PROVE FALSE
      OBVIOUS
    <3>1. q.left - 1 \in 0..MaxIterations /\ depth \in 0..MaxIterations
      BY <1>1, TreeAssumption
    <3> HIDE DEF next, depth
    <3>2. walk \in Walk /\ walk.pc = "up"
      BY <1>1, <3>1 DEF Walk
    <3>3. Continue(r, walk)
      BY <1>5 DEF WalkUp, next, depth
    <3> HIDE DEF walk
    <3> QED BY <2>1, <3>2, <3>3
  <2>3. next = NoOrg /\ depth = q.depth
    BY <1>1, <1>3, <2>2, TreeAssumption
  <2>4. TopReached(r, q.depth)
    BY <1>5, <2>3 DEF WalkUp
  <2>5. q.org = NoOrg /\ TooDeep(q.depth, 0)
    <3>1. CASE q.org # NoOrg
      <4> DEFINE w == [q EXCEPT !.pc = "children", !.depth = q.depth,
                          !.at = NoOrg, !.left = 0]
      <4>1. w \in Walk /\ w.pc = "children"
        BY <1>1, Bounds DEF Walk
      <4>2. Continue(r, w)
        BY <2>4, <3>1 DEF TopReached
      <4> HIDE DEF w
      <4> QED BY <2>1, <4>1, <4>2
    <3>2. CASE q.org = NoOrg /\ ~TooDeep(q.depth, 0)
      <4> DEFINE w == [Idle EXCEPT !.pc = "write", !.org = q.org,
                          !.to = q.to, !.crossed = q.crossed]
      <4>1. w \in Walk /\ w.pc = "write"
        BY <1>1, Bounds DEF Idle, Walk
      <4>2. Continue(r, w)
        BY <2>4, <3>2 DEF TopReached, Accept
      <4> HIDE DEF w
      <4> QED BY <2>1, <4>1, <4>2
    <3> QED BY <3>1, <3>2
  <2>6. DepthIs(q.to, q.depth)
    BY <1>1, <1>3, <2>3 DEF DepthIs, Up
  <2> QED BY <1>1, <2>5, <2>6, TooDeepForWanted
<1> QED BY <1>4, <1>5

\* A walk that is accepted waits for its write: it has not ended.
LEMMA AcceptedIsNotIdle ==
    ASSUME TreeInv, NEW r \in Requests, Accept(r)
    PROVE  req'[r] # Idle
<1> DEFINE w == [Idle EXCEPT !.pc = "write", !.org = req[r].org,
                    !.to = req[r].to, !.crossed = req[r].crossed]
<1>1. w.pc = "write" /\ Idle.pc = "idle"
  BY DEF Idle
<1>2. req'[r] = w
  BY DEF Accept, Continue, TreeInv, TypeOK
<1> QED BY <1>1, <1>2

LEMMA WalkChildrenRefuses ==
    ASSUME TreeInv, NEW r \in Requests, WalkChildren(r), req'[r] = Idle,
           ~overlapped, ~req[r].crossed
    PROVE  ~Wanted(req[r])
<1> DEFINE q == req[r]
           walk == [q EXCEPT !.pc = "below", !.todo = Children(q.org)]
<1>1. q \in Walk /\ q.pc = "children" /\ req \in [Requests -> Walk] /\ q.depth \in Nat
  BY DEF WalkChildren, TreeInv, TypeOK, Walk
<1>2. DepthIs(q.to, q.depth)
  BY <1>1, InFlight DEF Established
<1>3. Children(q.org) = {}
  <2> SUFFICES ASSUME Children(q.org) # {} PROVE FALSE
    OBVIOUS
  <2>1. req'[r] = walk
    BY <1>1 DEF WalkChildren, Continue
  <2>2. walk.pc = "below"
    BY <1>1 DEF Walk
  <2>3. Idle.pc = "idle"
    BY DEF Idle
  <2> HIDE DEF walk
  <2> QED BY <2>1, <2>2, <2>3
<1>4. TooDeep(q.depth, 0)
  BY <1>3, AcceptedIsNotIdle DEF WalkChildren
<1> QED BY <1>1, <1>2, <1>4, TooDeepForWanted

LEMMA WalkBelowRefuses ==
    ASSUME TreeInv, NEW r \in Requests, WalkBelow(r), req'[r] = Idle,
           ~overlapped, ~req[r].crossed
    PROVE  ~Wanted(req[r])
<1> DEFINE q == req[r]
<1>1. /\ q \in Walk /\ q.pc = "below" /\ req \in [Requests -> Walk]
      /\ q.depth \in Nat /\ q.org # NoOrg
  BY InFlight DEF WalkBelow, OnItsWay, TreeInv, TypeOK, Walk
<1>2. DepthIs(q.to, q.depth) /\ q.todo \subseteq Children(q.org)
  BY <1>1, InFlight DEF Established
<1>3. PICK c \in q.todo :
         IF Children(c) # {}
         THEN Refuse(r)
         ELSE IF q.todo # {c}
              THEN Continue(r, [q EXCEPT !.todo = @ \ {c}])
              ELSE IF TooDeep(q.depth, 1) THEN Refuse(r) ELSE Accept(r)
  BY DEF WalkBelow
<1>4. c \in Children(q.org)
  BY <1>2
<1>5. CASE Children(c) # {}
  <2> QED BY <1>1, <1>4, <1>5, GrandchildrenUnwanted
<1>6. CASE Children(c) = {} /\ q.todo # {c}
  <2> DEFINE walk == [q EXCEPT !.todo = @ \ {c}]
  <2>1. req'[r] = walk
    BY <1>1, <1>3, <1>6 DEF Continue
  <2>2. walk.pc = "below"
    BY <1>1 DEF Walk
  <2> QED BY <2>1, <2>2 DEF Idle
<1>7. CASE Children(c) = {} /\ q.todo = {c}
  <2>1. TooDeep(q.depth, 1)
    BY <1>3, <1>7, AcceptedIsNotIdle
  <2> QED BY <1>1, <1>2, <1>4, <2>1, TooDeepForWanted
<1> QED BY <1>5, <1>6, <1>7

\* The depth and cycle exceptions have a cause, however large the forest: a
\* request that overlapped no write is refused only where the organization
\* would have come to lie on a fourth level or under itself.
THEOREM RefusedOnlyForCause == Spec => RefusedForCause
<1>1. ASSUME TreeInv, [Next]_vars
      PROVE  [\A r \in Requests :
                 /\ req[r].pc \in {"up", "children", "below"} /\ req'[r] = Idle
                 /\ ~overlapped /\ ~req[r].crossed
                 => ~Wanted(req[r])]_vars
  <2>1. CASE UNCHANGED vars
    BY <2>1
  <2>2. CASE Next
    BY <1>1, <2>2, EndsByItself, WalkUpRefuses, WalkChildrenRefuses, WalkBelowRefuses
  <2> QED BY <1>1, <2>1, <2>2
<1> QED BY <1>1, TreeInvariant, PTL DEF Spec, RefusedForCause
=============================================================================
