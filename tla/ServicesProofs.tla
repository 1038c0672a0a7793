--------------------------- MODULE ServicesProofs ---------------------------
(* Proofs about RateLimiter, Invitations and FeatureFlags, and about the    *)
(* lists of the console, CursorPagination, OrgTreeView and AdminLists,      *)
(* which are put together at the end for the specification of MCServices.   *)
EXTENDS MCServices, FiniteSetTheorems, WellFoundedInduction, TLAPS

(* ----------------------------- FeatureFlags ----------------------------- *)

LEMMA FlagInitInv == FlagInit => FlagInv
  BY DEF FlagInit, FlagInv, FlagTypeOK, ReadIsFresh, StaleFlagForCause, Flag,
         Entry, NoEntry, Running, Idle

LEMMA FlagCommits ==
  ASSUME FlagInv, NEW c \in FlagCalls, NEW i \in Instances, NEW value \in Flag,
         running[c].pc = "idle", Commit(c, i, value)
  PROVE  FlagInv'
  <1>1. FlagTypeOK'
    BY ZenonT(40) DEF Commit, FlagInv, FlagTypeOK, Flag, Entry, Running, Idle
  <1>2. ReadIsFresh'
    BY DEF Commit, FlagInv, FlagTypeOK, ReadIsFresh, Running, Idle
  <1>3. StaleFlagForCause'
    <2> SUFFICES ASSUME NEW j \in Instances, entry'[j].value \notin {"none", flag'}
                 PROVE  entry'[j].excused \/ Dropping(j)'
      BY DEF StaleFlagForCause
    <2>1. CASE j = i
      BY <2>1 DEF Commit, FlagInv, FlagTypeOK, Running, Idle, Dropping
    <2>2. CASE j # i
      BY <2>2 DEF Commit, FlagInv, FlagTypeOK, Entry
    <2> QED BY <2>1, <2>2
  <1> QED BY <1>1, <1>2, <1>3 DEF FlagInv

LEMMA FlagStep == FlagInv /\ [FlagNext]_flagVars => FlagInv'
  <1> SUFFICES ASSUME FlagInv, [FlagNext]_flagVars PROVE FlagInv'
    OBVIOUS
  <1> USE DEF FlagInv
  <1>1. ASSUME NEW c \in FlagCalls, Store(c) PROVE FlagInv'
    <2>1. FlagTypeOK'
      BY <1>1 DEF Store, FlagTypeOK, Flag, Entry, Running, Idle
    <2>2. ReadIsFresh'
      BY <1>1 DEF Store, FlagTypeOK, ReadIsFresh, Running, Idle
    <2>3. StaleFlagForCause'
      BY <1>1 DEF Store, FlagTypeOK, ReadIsFresh, StaleFlagForCause, Dropping,
                  Running, Entry, Idle
    <2> QED BY <2>1, <2>2, <2>3
  <1>2. ASSUME NEW c \in FlagCalls, Drop(c) PROVE FlagInv'
    <2>1. FlagTypeOK'
      BY <1>2 DEF Drop, FlagTypeOK, Flag, Entry, NoEntry, Running, Idle
    <2>2. ReadIsFresh'
      BY <1>2 DEF Drop, FlagTypeOK, ReadIsFresh, Running, Idle
    <2>3. StaleFlagForCause'
      BY <1>2 DEF Drop, FlagTypeOK, StaleFlagForCause, Dropping, Running, Entry,
                  NoEntry, Idle
    <2> QED BY <2>1, <2>2, <2>3
  <1>3. ASSUME NEW c \in FlagCalls, NEW i \in Instances, FindByKey(c, i)
        PROVE  FlagInv'
    BY <1>3 DEF FindByKey, FlagTypeOK, ReadIsFresh, StaleFlagForCause, Dropping,
                Flag, Running
  <1>4. ASSUME NEW c \in FlagCalls, NEW i \in Instances,
               Create(c, i) \/ Update(c, i) \/ Delete(c, i)
        PROVE  FlagInv'
    BY <1>4, FlagCommits DEF Create, Update, Delete, Flag
  <1>5. ASSUME NEW i \in Instances, Expires(i) PROVE FlagInv'
    BY <1>5 DEF Expires, FlagTypeOK, ReadIsFresh, StaleFlagForCause, Dropping,
                Entry, NoEntry
  <1>6. CASE UNCHANGED flagVars
    BY <1>6 DEF flagVars, FlagTypeOK, ReadIsFresh, StaleFlagForCause, Dropping
  <1> QED BY <1>1, <1>2, <1>3, <1>4, <1>5, <1>6 DEF FlagNext

\* A process answers with the value of the row unless another process wrote it,
\* a write is still to drop its entry, or a write overtook the read.
THEOREM FlagInvariant == FlagSpec => []FlagInv
  BY FlagInitInv, FlagStep, PTL DEF FlagSpec

(* ------------------------------ Invitations ------------------------------ *)

LEMMA InviteInitInv == InviteInit => InviteInv
  BY InviteAssumption DEF InviteInit, InviteInv, InviteTypeOK, RevokedForGood, IdsHandedOut,
         MemberInvitedForCause, Row, NoRow, Task, At

\* Only what a request keeps for itself changes.
LEMMA InviteReads ==
  ASSUME InviteInv, NEW a \in Actors, UNCHANGED Rows,
         NEW q \in Task, task' = [task EXCEPT ![a] = q],
         q.id <= lastId,
         q.pc \in {"reuse", "delete", "update"} => q.id # 0,
         \A e \in Emails : invitation[e].id = q.id /\ e # q.email => q.id = 0,
         q.pc \in {"pending", "insert", "existing", "reuse"} =>
           q.email \notin member \/
           (/\ q.email = task[a].email
            /\ task[a].pc \in {"pending", "insert", "existing", "reuse"})
  PROVE  InviteInv'
  <1>1. InviteTypeOK'
    BY DEF InviteInv, InviteTypeOK, Rows
  <1>r. UNCHANGED <<invitation, lastId, revoked>>
    BY DEF Rows
  <1>b. \A b \in Actors : task'[b] = IF b = a THEN q ELSE task[b]
    BY DEF InviteInv, InviteTypeOK
  <1>2. RevokedForGood'
    <2>1. \A b \in Actors :
            /\ task'[b].id <= lastId
            /\ task'[b].pc \in {"reuse", "delete", "update"} => task'[b].id # 0
      BY <1>b DEF InviteInv, RevokedForGood, IdsHandedOut, At
    <2>2. ASSUME NEW b \in Actors, NEW e \in Emails,
                 invitation[e].id = task'[b].id, e # task'[b].email
          PROVE  task'[b].id = 0
      BY <1>b, <2>2 DEF InviteInv, RevokedForGood, IdsHandedOut
    <2> QED BY <1>r, <2>1, <2>2 DEF InviteInv, RevokedForGood, IdsHandedOut, At
  <1>3. MemberInvitedForCause'
    BY DEF InviteInv, InviteTypeOK, MemberInvitedForCause, Inviting, Rows, Task
  <1> QED BY <1>1, <1>2, <1>3 DEF InviteInv

LEMMA InviteReturns ==
  ASSUME InviteInv, NEW a \in Actors, UNCHANGED Rows, Return(a)
  PROVE  InviteInv'
  <1> DEFINE q == [pc |-> "idle", email |-> task[a].email, id |-> 0]
  <1>0. task[a] \in Task
    BY DEF InviteInv, InviteTypeOK
  <1>1. q \in Task /\ q.pc = "idle" /\ q.id = 0
    BY <1>0, InviteAssumption DEF Task
  <1>2. task' = [task EXCEPT ![a] = q]
    BY DEF Return, Start
  <1>3. 0 <= lastId
    BY DEF InviteInv, InviteTypeOK
  <1> HIDE DEF q
  <1> QED BY <1>1, <1>2, <1>3, InviteReads

LEMMA InviteGoesOn ==
  ASSUME InviteInv, NEW a \in Actors, UNCHANGED Rows,
         NEW pc \in {"pending", "insert", "existing"}, GoTo(a, pc),
         \/ task[a].email \notin member
         \/ task[a].pc \in {"pending", "insert", "existing", "reuse"}
  PROVE  InviteInv'
  <1> DEFINE q == [task[a] EXCEPT !.pc = pc]
  <1>1. /\ q \in Task /\ q.pc = pc /\ q.id = task[a].id /\ q.id <= lastId
        /\ q.email = task[a].email
    BY DEF InviteInv, InviteTypeOK, RevokedForGood, IdsHandedOut, Task
  <1>2. task' = [task EXCEPT ![a] = q]
    BY DEF GoTo, InviteInv, InviteTypeOK, Task
  <1>3. ASSUME NEW e \in Emails, invitation[e].id = q.id, e # q.email
        PROVE  q.id = 0
    BY <1>1, <1>3 DEF InviteInv, RevokedForGood, IdsHandedOut
  <1> HIDE DEF q
  <1> QED BY <1>1, <1>2, <1>3, InviteReads

\* The rows change and no request is added to those that invite: rows keep their
\* id or vanish, and become pending only for addresses that are being invited.
LEMMA InviteWrites ==
  ASSUME InviteInv,
         UNCHANGED <<member, lastId, revoked, crossed>>,
         invitation' \in [Emails -> Row],
         \A e \in Emails :
           /\ invitation'[e].id \in {0, invitation[e].id}
           /\ (invitation'[e].id = 0) <=> (invitation'[e].status = "none")
           /\ invitation'[e].status = "pending" =>
                invitation[e].status = "pending" \/ Inviting(e),
         task' \in [Actors -> Task],
         \A a \in Actors :
           task'[a] = task[a] \/
           (/\ task'[a].id \in {0, task[a].id}
            /\ task'[a].email = task[a].email
            /\ task'[a].pc \in {"idle", "join"})
  PROVE  InviteInv'
  <1>1. InviteTypeOK'
    BY DEF InviteInv, InviteTypeOK
  <1>2. RevokedForGood'
    <2>1. \A e \in Emails : invitation'[e].id \notin revoked'
      BY InviteAssumption DEF InviteInv, InviteTypeOK, RevokedForGood
    <2>2. IdsHandedOut'
      BY DEF InviteInv, InviteTypeOK, RevokedForGood, IdsHandedOut, Row, Task, At
    <2> QED BY <2>1, <2>2 DEF RevokedForGood
  <1>3. MemberInvitedForCause'
    BY DEF InviteInv, InviteTypeOK, MemberInvitedForCause, Inviting, Task
  <1> QED BY <1>1, <1>2, <1>3 DEF InviteInv

LEMMA InviteStep == InviteInv /\ [InviteNext]_inviteVars => InviteInv'
  <1> SUFFICES ASSUME InviteInv, [InviteNext]_inviteVars PROVE InviteInv'
    OBVIOUS
  <1> USE InviteAssumption DEF InviteInv
  <1>t. /\ \A e \in Emails : invitation[e] \in Row /\ invitation[e].id <= lastId
        /\ \A a \in Actors : task[a] \in Task /\ task[a].id <= lastId
        /\ lastId \in 0..MaxId
    BY DEF InviteTypeOK, RevokedForGood, IdsHandedOut
  <1>1. ASSUME NEW a \in Actors, NEW e \in Emails,
               FindRole(a, e) \/ FindInvitation(a, e) \/ AcceptFind(a, e)
        PROVE  InviteInv'
    <2>1. PICK pc \in {"member", "delete", "update"}, id \in 0..MaxId :
            /\ Start(a, pc, e, id)
            /\ id = 0 \/ id = invitation[e].id
            /\ pc # "member" => id # 0
      BY <1>1, <1>t DEF FindRole, FindInvitation, AcceptFind, Row, NoRow,
           RevokedForGood, IdsHandedOut
    <2> DEFINE q == [pc |-> pc, email |-> e, id |-> id]
    <2>2. q \in Task /\ q.pc = pc /\ q.id = id /\ q.id <= lastId
      BY <2>1, <1>t DEF Task, Row
    <2>3. task' = [task EXCEPT ![a] = q]
      BY <2>1 DEF Start
    <2>4. UNCHANGED Rows
      BY <1>1 DEF FindRole, FindInvitation, AcceptFind
    <2>5. ASSUME NEW f \in Emails, invitation[f].id = q.id, f # q.email
          PROVE  q.id = 0
      BY <2>1, <2>5 DEF RevokedForGood, IdsHandedOut
    <2> HIDE DEF q
    <2> QED BY <2>1, <2>2, <2>3, <2>4, <2>5, InviteReads
  <1>2. ASSUME NEW a \in Actors,
               \/ EnsureNoExistingMembership(a) \/ EnsureNoPendingInvitation(a)
               \/ InsertConflict(a)
        PROVE  InviteInv'
    <2>1. UNCHANGED Rows
      BY <1>2 DEF EnsureNoExistingMembership, EnsureNoPendingInvitation,
                  InsertConflict
    <2>2. CASE Return(a)
      BY <2>1, <2>2, InviteReturns
    <2>3. CASE ~Return(a)
      BY <1>2, <2>1, <2>3, InviteGoesOn DEF EnsureNoExistingMembership,
           EnsureNoPendingInvitation, InsertConflict, At
    <2> QED BY <2>2, <2>3
  <1>3. ASSUME NEW a \in Actors, FindExisting(a) PROVE InviteInv'
    <2>1. CASE Return(a)
      BY <1>3, <2>1, InviteReturns DEF FindExisting
    <2>2. CASE ~Return(a)
      <3> DEFINE q == [task[a] EXCEPT !.pc = "reuse", !.id = Mine(a).id]
      <3>1. task[a] \in Task /\ Mine(a) \in Row /\ Mine(a).id <= lastId
        BY <1>t DEF Mine, Task
      <3>2. q \in Task /\ q.pc = "reuse" /\ q.id = Mine(a).id /\ q.email = task[a].email
        BY <3>1 DEF Task, Row
      <3>3. q.id # 0
        BY <1>3, <2>2, <3>1, <3>2 DEF FindExisting, RevokedForGood, IdsHandedOut,
             Mine, Task
      <3>4. task' = [task EXCEPT ![a] = q]
        BY <1>3, <2>2 DEF FindExisting, InviteTypeOK, Task
      <3>5. ASSUME NEW f \in Emails, invitation[f].id = q.id, f # q.email
            PROVE  q.id = 0
        BY <3>1, <3>2, <3>5 DEF Mine, Task, RevokedForGood, IdsHandedOut
      <3>6. task[a].pc = "existing" /\ UNCHANGED Rows
        BY <1>3 DEF FindExisting, At
      <3> HIDE DEF q
      <3> QED BY <3>1, <3>2, <3>3, <3>4, <3>5, <3>6, InviteReads
    <2> QED BY <2>1, <2>2
  <1>4. ASSUME NEW a \in Actors, ReuseInvitation(a) \/ AcceptUpdate(a)
        PROVE  InviteInv'
    <2>1. task[a] \in Task
      BY <1>t
    <2>2. task' \in [Actors -> Task] /\ task'[a].id \in {0, task[a].id}
          /\ task'[a].pc \in {"idle", "join"} /\ task'[a].email = task[a].email
          /\ \A b \in Actors \ {a} : task'[b] = task[b]
      BY <1>4, <2>1 DEF ReuseInvitation, AcceptUpdate, Return, Start, GoTo, Task,
           InviteTypeOK
    <2>3. /\ invitation' \in [Emails -> Row]
          /\ \A e \in Emails :
               /\ invitation'[e].id \in {0, invitation[e].id}
               /\ (invitation'[e].id = 0) <=> (invitation'[e].status = "none")
               /\ invitation'[e].status = "pending" =>
                    invitation[e].status = "pending" \/ Inviting(e)
      BY <1>4, <1>t, <2>1, SMTT(30) DEF ReuseInvitation, AcceptUpdate, Set, Mine, At, Task,
           Row, InviteTypeOK, RevokedForGood, IdsHandedOut, Inviting
    <2>4. UNCHANGED <<member, lastId, revoked, crossed>>
      BY <1>4 DEF ReuseInvitation, AcceptUpdate
    <2> QED BY <2>2, <2>3, <2>4, InviteWrites
  <1>5. ASSUME NEW e \in Emails, Reject(e) \/ PurgeInvitations(e) PROVE InviteInv'
    BY <1>5, <1>t, InviteWrites DEF Reject, PurgeInvitations, NoRow, Row,
         InviteTypeOK, RevokedForGood, IdsHandedOut
  <1>6. CASE ExpireOrgInvitations
    BY <1>6, <1>t, InviteWrites DEF ExpireOrgInvitations, Row, InviteTypeOK,
         RevokedForGood, IdsHandedOut
  <1>7. ASSUME NEW a \in Actors, InsertInvitation(a) PROVE InviteInv'
    <2>1. task[a] \in Task /\ At(a, "insert") /\ lastId + 1 \in 1..MaxId
      BY <1>7, <1>t DEF InsertInvitation
    <2>2. InviteTypeOK'
      BY <1>7, <2>1 DEF InsertInvitation, InviteTypeOK, Set, Return, Start, Row, Task
    <2>3. RevokedForGood'
      BY <1>7, <1>t, <2>1 DEF InsertInvitation, InviteTypeOK, RevokedForGood,
           IdsHandedOut, Set, Return, Start, Row, Task, At
    <2>4. MemberInvitedForCause'
      BY <1>7, <2>1 DEF InsertInvitation, InviteTypeOK, MemberInvitedForCause,
           Inviting, Set, Return, Start, Row, Task, At
    <2> QED BY <2>2, <2>3, <2>4
  <1>8. ASSUME NEW a \in Actors, RevokeInvitation(a) PROVE InviteInv'
    <2>1. task[a] \in Task /\ At(a, "delete") /\ task[a].id \in 1..lastId
      BY <1>8, <1>t DEF RevokeInvitation, RevokedForGood, IdsHandedOut, Task
    <2>2. /\ invitation' \in [Emails -> Row]
          /\ \A e \in Emails :
               /\ invitation'[e] \in {invitation[e], NoRow}
               /\ invitation[e].id = task[a].id => invitation'[e] = NoRow
      <3>1. task[a].email \in Emails /\ NoRow \in Row
        BY <2>1 DEF Task, NoRow, Row
      <3>2. ASSUME NEW e \in Emails, invitation[e].id = task[a].id
            PROVE  e = task[a].email
        BY <2>1, <3>2 DEF RevokedForGood, IdsHandedOut
      <3>3. CASE Mine(a).id = task[a].id
        BY <1>8, <3>1, <3>2, <3>3 DEF RevokeInvitation, InviteTypeOK, Set
      <3>4. CASE Mine(a).id # task[a].id
        BY <1>8, <3>1, <3>2, <3>4 DEF RevokeInvitation, InviteTypeOK, Mine
      <3> QED BY <3>3, <3>4
    <2>3. /\ task' \in [Actors -> Task]
          /\ \A b \in Actors : \/ task'[b] = task[b]
                               \/ task'[b].id = 0 /\ task'[b].pc = "idle"
      BY <1>8, <2>1 DEF RevokeInvitation, InviteTypeOK, Return, Start, Task
    <2>u. UNCHANGED <<member, lastId, crossed>> /\ revoked' = revoked \cup {task[a].id}
      BY <1>8 DEF RevokeInvitation
    <2>4. InviteTypeOK'
      BY <2>1, <2>2, <2>3, <2>u DEF InviteTypeOK
    <2>7. /\ \A e \in Emails : invitation'[e].id \in {0, invitation[e].id}
          /\ \A e \in Emails : (invitation'[e].id = 0) <=> (invitation'[e].status = "none")
      BY <2>2 DEF RevokedForGood, IdsHandedOut, NoRow
    <2>5. IdsHandedOut'
      <3>1. \A e, f \in Emails :
              invitation'[e].id = invitation'[f].id /\ e # f => invitation'[e].id = 0
        BY <2>7 DEF RevokedForGood, IdsHandedOut
      <3>2. \A e \in Emails : invitation'[e].id <= lastId
        BY <1>t, <2>7
      <3>3. ASSUME NEW b \in Actors
            PROVE  /\ task'[b].id <= lastId
                   /\ task'[b].pc \in {"reuse", "delete", "update"} => task'[b].id # 0
                   /\ \A e \in Emails : invitation'[e].id = task'[b].id /\ e # task'[b].email
                                          => task'[b].id = 0
        <4>1. CASE task'[b] = task[b]
          BY <2>7, <4>1 DEF RevokedForGood, IdsHandedOut, At
        <4>2. CASE task'[b].id = 0 /\ task'[b].pc = "idle"
          BY <1>t, <4>2
        <4> QED BY <2>3, <4>1, <4>2
      <3> QED BY <2>7, <2>u, <3>1, <3>2, <3>3 DEF IdsHandedOut, At
    <2>6. \A e \in Emails : invitation'[e].id \notin revoked'
      BY <2>1, <2>2, <2>u DEF InviteTypeOK, RevokedForGood, NoRow
    <2>8. MemberInvitedForCause'
      <3>1. ASSUME NEW e \in Emails, Inviting(e)' PROVE Inviting(e)
        BY <3>1, <1>8, <2>1 DEF Inviting, RevokeInvitation, InviteTypeOK, Return,
             Start, Task
      <3>2. \A e \in Emails : invitation'[e].status = "pending" => invitation[e].status = "pending"
        BY <2>2 DEF NoRow
      <3> QED BY <2>u, <3>1, <3>2 DEF InviteTypeOK, MemberInvitedForCause
    <2> QED BY <2>4, <2>5, <2>6, <2>8 DEF RevokedForGood
  <1>9. ASSUME NEW a \in Actors, AcceptJoin(a) PROVE InviteInv'
    <2>1. task[a] \in Task
      BY <1>t
    <2>2. InviteTypeOK'
      BY <1>9, <2>1 DEF AcceptJoin, InviteTypeOK, Return, Start, Task
    <2>3. RevokedForGood'
      BY <1>9, <2>1 DEF AcceptJoin, InviteTypeOK, RevokedForGood, IdsHandedOut,
           Return, Start, Task, At
    <2>4. MemberInvitedForCause'
      BY <1>9, <2>1 DEF AcceptJoin, InviteTypeOK, MemberInvitedForCause, Inviting,
           Return, Start, Mine, Task
    <2> QED BY <2>2, <2>3, <2>4
  <1>10. ASSUME NEW e \in Emails, Leave(e) PROVE InviteInv'
    <2>1. InviteTypeOK'
      BY <1>10 DEF Leave, InviteTypeOK
    <2>2. RevokedForGood'
      BY <1>10 DEF Leave, RevokedForGood, IdsHandedOut, At
    <2>3. MemberInvitedForCause'
      BY <1>10 DEF Leave, MemberInvitedForCause, Inviting
    <2> QED BY <2>1, <2>2, <2>3
  <1>11. CASE UNCHANGED inviteVars
    BY <1>11 DEF inviteVars, InviteTypeOK, RevokedForGood, IdsHandedOut,
         MemberInvitedForCause, Inviting, At
  <1> QED BY <1>1, <1>2, <1>3, <1>4, <1>5, <1>6, <1>7, <1>8, <1>9, <1>10, <1>11
        DEF InviteNext

\* revokeInvitation is final for the row it names, and a member has a pending
\* invitation only for cause.
THEOREM InviteInvariant == InviteSpec => []InviteInv
  BY InviteInitInv, InviteStep, PTL DEF InviteSpec

\* A member has a pending invitation only when they joined while one was made.
THEOREM MembersInvitedForCause == InviteSpec => []MemberInvitedForCause
  <1>1. InviteInv => MemberInvitedForCause
    BY DEF InviteInv
  <1> QED BY <1>1, InviteInvariant, PTL
(* ------------------------------ RateLimiter ------------------------------ *)

LEMMA LimiterInitInv == LimiterInit => LimiterInv
  BY LimiterAssumption DEF LimiterInit, LimiterInv, LimiterTypeOK, BurstsCounted,
     BurstsGrow, BlockedForCause, Expired, Call, Hit

LEMMA HitsTyped ==
  ASSUME LimiterTypeOK
  PROVE  /\ Len(hits) \in Nat
         /\ DOMAIN hits = 1..Len(hits)
         /\ hits # <<>> <=> Len(hits) > 0
         /\ \A i \in 1..Len(hits) : hits[i].at \in Nat /\ hits[i].total \in Nat
  <1>1. hits \in Seq(Hit)
    BY DEF LimiterTypeOK
  <1>2. \A i \in 1..Len(hits) : hits[i] \in Hit
    BY <1>1
  <1>3. \A x \in Hit : x.at \in Nat /\ x.total \in Nat
    BY LimiterAssumption DEF Hit
  <1> QED BY <1>1, <1>2, <1>3

\* What the invariant says of the hits, one part at a time.
LEMMA HitFacts ==
  ASSUME LimiterInv
  PROVE  /\ \A i \in 1..Len(hits) :
              /\ hits[i].at <= now
              /\ hits[i].total = IF i > 1 /\ InBurst(i) THEN hits[i - 1].total + 1 ELSE 1
         /\ \A i \in 1..Len(hits) : hits[i].total \in 1..i
         /\ \A i \in 1..Len(hits) : \A j \in (i - hits[i].total + 2)..i : InBurst(j)
         /\ \A i \in 1..Len(hits) : \A j \in 1..(i - 1) :
              /\ hits[j].at <= hits[i].at
              /\ hits[i].at < hits[j].at + Ttl => hits[j].total < hits[i].total
  <1>1. /\ Len(hits) \in Nat /\ DOMAIN hits = 1..Len(hits)
        /\ \A i \in 1..Len(hits) : hits[i].at \in Nat /\ hits[i].total \in Nat
    BY HitsTyped DEF LimiterInv
  <1>2. \A i \in 1..Len(hits) :
          /\ hits[i].at <= now
          /\ hits[i].total = IF i > 1 /\ InBurst(i) THEN hits[i - 1].total + 1 ELSE 1
    BY <1>1 DEF LimiterInv, BurstsCounted
  <1>3. ASSUME NEW i \in 1..Len(hits) PROVE hits[i].total \in 1..i
    <2>1. hits[i].total >= 1
      <3>1. CASE i > 1 /\ InBurst(i)
        <4>1. i - 1 \in 1..Len(hits)
          BY <1>1, <3>1
        <4> QED BY <1>1, <1>2, <3>1, <4>1
      <3>2. CASE ~(i > 1 /\ InBurst(i))
        BY <1>2, <3>2
      <3> QED BY <3>1, <3>2
    <2>2. hits[i].total <= i
      BY <1>1 DEF LimiterInv, BurstsGrow
    <2> QED BY <1>1, <2>1, <2>2
  <1>4. /\ \A i \in 1..Len(hits) : \A j \in (i - hits[i].total + 2)..i : InBurst(j)
        /\ \A i \in 1..Len(hits) : \A j \in 1..(i - 1) :
             /\ hits[j].at <= hits[i].at
             /\ hits[i].at < hits[j].at + Ttl => hits[j].total < hits[i].total
    BY <1>1 DEF LimiterInv, BurstsGrow
  <1> QED BY <1>2, <1>3, <1>4

\* A hit is one more at the end of the history.
LEMMA HitAppended ==
  ASSUME LimiterInv, NEW c \in Calls, AtomicIncrement(c)
  PROVE  /\ hits' \in Seq(Hit)
         /\ Len(hits') = Len(hits) + 1
         /\ DOMAIN hits' = 1..(Len(hits) + 1)
         /\ \A i \in 1..Len(hits) : hits'[i] = hits[i]
         /\ hits'[Len(hits) + 1].at = now
         /\ hits'[Len(hits) + 1].total = counter.value + 1
  <1> DEFINE x == [at |-> now, total |-> counter.value + 1]
  <1>1. hits \in Seq(Hit) /\ x \in Hit /\ x.at = now /\ x.total = counter.value + 1
    BY DEF LimiterInv, LimiterTypeOK, Hit
  <1>2. hits' = Append(hits, x)
    BY DEF AtomicIncrement
  <1> HIDE DEF x
  <1> QED BY <1>1, <1>2

\* What is over the limit has an overrun behind it.
LEMMA OverLimit ==
  ASSUME LimiterInv, NEW i \in DOMAIN hits, hits[i].total > Limit
  PROVE  Overrun
  <1>1. i \in 1..Len(hits) /\ Len(hits) \in Nat /\ Limit \in Nat /\ hits[i].total \in Nat
    BY HitsTyped, LimiterAssumption DEF LimiterInv
  <1>2. hits[i].total \in 1..i /\ \A j \in (i - hits[i].total + 2)..i : InBurst(j)
    BY <1>1, HitFacts
  <1>3. i > Limit
    BY <1>1, <1>2
  <1>4. \A j \in (i - Limit + 1)..i : InBurst(j)
    BY <1>1, <1>2
  <1> QED BY <1>3, <1>4 DEF Overrun

LEMMA HitCounted ==
  ASSUME LimiterInv, NEW c \in Calls, AtomicIncrement(c)
  PROVE  LimiterInv'
  <1> DEFINE n == Len(hits)
             total == counter.value + 1
  <1> USE LimiterAssumption
  <1>1. /\ n \in Nat /\ DOMAIN hits = 1..n /\ (hits # <<>> <=> n > 0)
        /\ \A i \in 1..n : hits[i].at \in Nat /\ hits[i].total \in Nat
    BY HitsTyped DEF LimiterInv
  <1>2. /\ hits' \in Seq(Hit) /\ Len(hits') = n + 1 /\ DOMAIN hits' = 1..(n + 1)
        /\ \A i \in 1..n : hits'[i] = hits[i]
        /\ hits'[n + 1].at = now /\ hits'[n + 1].total = total
    BY HitAppended
  <1>3. /\ now \in Nat /\ Ttl \in Nat \ {0} /\ Limit \in Nat \ {0}
        /\ call \in [Calls -> Call] /\ counter.value \in Nat
    BY DEF LimiterInv, LimiterTypeOK
  <1>4. /\ now' = now /\ block' = block
        /\ counter' = [value |-> total, until |-> now + Ttl]
    BY DEF AtomicIncrement, Incremented
  <1>5. \A d \in Calls :
          IF d = c THEN call'[d] \in Call /\ call'[d].pc = "counted"
                        /\ call'[d].total = total /\ call'[d].answer = "none"
                   ELSE call'[d] = call[d]
    <2> DEFINE q == [pc |-> "counted", total |-> total, answer |-> "none"]
    <2>1. q \in Call /\ q.pc = "counted" /\ q.total = total /\ q.answer = "none"
      BY <1>3 DEF Call
    <2>2. call' = [call EXCEPT ![c] = q]
      BY DEF AtomicIncrement
    <2> HIDE DEF q
    <2> QED BY <1>3, <2>1, <2>2
  <1>6. \A i \in 1..n : i > 1 => ((hits'[i].at < hits'[i - 1].at + Ttl) <=> InBurst(i))
    <2> SUFFICES ASSUME NEW i \in 1..n, i > 1
                 PROVE  (hits'[i].at < hits'[i - 1].at + Ttl) <=> InBurst(i)
      OBVIOUS
    <2>1. i - 1 \in 1..n
      BY <1>1
    <2> QED BY <1>2, <2>1 DEF InBurst
  <1>7. n > 0 => /\ n \in 1..n /\ n + 1 - 1 = n
                 /\ (hits'[n + 1].at < hits'[n].at + Ttl) <=> (now < hits[n].at + Ttl)
    BY <1>1, <1>2
  <1>8. total = IF n > 0 /\ now < hits[n].at + Ttl THEN hits[n].total + 1 ELSE 1
    BY <1>1 DEF LimiterInv, BurstsCounted, Expired
  <1>9. total \in Nat /\ total > 0
    BY <1>3
  <1> HIDE DEF n, total
  <1>10. LimiterTypeOK'
    <2>1. call' \in [Calls -> Call]
      <3>1. \A d \in Calls : call'[d] \in Call
        BY <1>3, <1>5
      <3>2. call' = [d \in Calls |-> call'[d]]
        BY <1>3 DEF AtomicIncrement
      <3> QED BY <3>1, <3>2
    <2> QED BY <1>2, <1>3, <1>4, <1>5, <1>9, <2>1 DEF LimiterInv, LimiterTypeOK
  <1>11. BurstsCounted'
    <2>1. ASSUME NEW i \in 1..(n + 1)
          PROVE  /\ hits'[i].at <= now
                 /\ hits'[i].total = IF i > 1 /\ hits'[i].at < hits'[i - 1].at + Ttl
                                       THEN hits'[i - 1].total + 1 ELSE 1
      <3>1. CASE i \in 1..n
        <4>1. /\ hits[i].at <= now
              /\ hits[i].total = IF i > 1 /\ InBurst(i) THEN hits[i - 1].total + 1 ELSE 1
          BY <3>1, HitFacts DEF n
        <4>2. i > 1 => i - 1 \in 1..n
          BY <1>1, <3>1
        <4> QED BY <1>2, <1>6, <3>1, <4>1, <4>2
      <3>2. CASE i = n + 1
        <4>1. CASE n = 0
          BY <1>2, <1>3, <1>8, <3>2, <4>1
        <4>2. CASE n > 0
          <5>1. n \in 1..n /\ i > 1 /\ i - 1 = n
            BY <1>1, <3>2, <4>2
          <5>2. hits'[i].total = IF hits'[i].at < hits'[i - 1].at + Ttl THEN hits'[n].total + 1 ELSE 1
            BY <1>2, <1>7, <1>8, <3>2, <4>2, <5>1
          <5> QED BY <1>2, <1>3, <3>2, <5>1, <5>2
        <4> QED BY <1>1, <4>1, <4>2
      <3> QED BY <1>1, <3>1, <3>2
    <2>2. hits' # <<>> /\ now < hits'[n + 1].at + Ttl
      BY <1>1, <1>2, <1>3
    <2>3. counter' = IF hits' # <<>> /\ now < hits'[n + 1].at + Ttl
                       THEN [value |-> hits'[n + 1].total,
                             until |-> hits'[n + 1].at + Ttl]
                       ELSE Expired
      BY <1>2, <1>4, <2>2
    <2> QED BY <1>2, <1>4, <2>1, <2>3 DEF BurstsCounted, InBurst
  <1>12. BurstsGrow'
    <2>1. ASSUME NEW i \in 1..n
          PROVE  /\ hits'[i].total <= i
                 /\ \A j \in (i - hits'[i].total + 2)..i : hits'[j].at < hits'[j - 1].at + Ttl
                 /\ \A j \in 1..(i - 1) :
                      /\ hits'[j].at <= hits'[i].at
                      /\ hits'[i].at < hits'[j].at + Ttl
                           => hits'[j].total < hits'[i].total
      <3>1. hits[i].total \in 1..i /\ hits'[i] = hits[i]
        BY <1>2, HitFacts DEF n
      <3>2. ASSUME NEW j \in (i - hits[i].total + 2)..i PROVE hits'[j].at < hits'[j - 1].at + Ttl
        <4>1. j \in 1..n /\ j > 1
          BY <1>1, <3>1
        <4>2. InBurst(j)
          BY HitFacts DEF n
        <4> QED BY <1>6, <4>1, <4>2
      <3>3. ASSUME NEW j \in 1..(i - 1)
            PROVE  /\ hits[j].at <= hits[i].at
                   /\ hits[i].at < hits[j].at + Ttl => hits[j].total < hits[i].total
                   /\ hits'[j] = hits[j]
        <4>1. j \in 1..n
          BY <1>1
        <4> QED BY <1>2, <4>1, HitFacts DEF n
      <3> QED BY <3>1, <3>2, <3>3
    <2>2. /\ total <= n + 1
          /\ \A j \in (n + 1 - total + 2)..(n + 1) : hits'[j].at < hits'[j - 1].at + Ttl
          /\ \A j \in 1..n :
               /\ hits[j].at <= now
               /\ now < hits[j].at + Ttl => hits[j].total < total
      <3>1. CASE n > 0 /\ now < hits[n].at + Ttl
        <4>1. n \in 1..n /\ total = hits[n].total + 1 /\ hits[n].total \in 1..n
          BY <1>1, <1>8, <3>1, HitFacts DEF n
        <4>2. ASSUME NEW j \in (n + 1 - total + 2)..(n + 1) PROVE hits'[j].at < hits'[j - 1].at + Ttl
          <5>1. CASE j = n + 1
            BY <1>2, <1>7, <3>1, <5>1
          <5>2. CASE j # n + 1
            <6>1. j \in (n - hits[n].total + 2)..n /\ j \in 1..n /\ j > 1
              BY <1>1, <4>1, <5>2
            <6>2. InBurst(j)
              BY <4>1, <6>1, HitFacts DEF n
            <6> QED BY <1>6, <6>1, <6>2
          <5> QED BY <5>1, <5>2
        <4>3. ASSUME NEW j \in 1..n
              PROVE  /\ hits[j].at <= now
                     /\ now < hits[j].at + Ttl => hits[j].total < total
          <5>1. hits[j].at <= now /\ hits[n].at <= now
            BY <4>1, HitFacts DEF n
          <5>2. CASE j = n
            BY <1>1, <4>1, <5>1, <5>2
          <5>3. CASE j # n
            <6>1. j \in 1..(n - 1)
              BY <1>1, <5>3
            <6>2. hits[n].at < hits[j].at + Ttl => hits[j].total < hits[n].total
              BY <4>1, <6>1, HitFacts DEF n
            <6> QED BY <1>1, <1>3, <4>1, <5>1, <6>2
          <5> QED BY <5>2, <5>3
        <4>4. total <= n + 1
          BY <1>1, <4>1
        <4> QED BY <4>2, <4>3, <4>4
      <3>2. CASE ~(n > 0 /\ now < hits[n].at + Ttl)
        <4>1. total = 1
          BY <1>8, <3>2
        <4>2. ASSUME NEW j \in 1..n PROVE hits[j].at <= now /\ ~(now < hits[j].at + Ttl)
          <5>1. n \in 1..n /\ n > 0 /\ hits[n].at <= now /\ hits[j].at <= now
            BY <1>1, HitFacts DEF n
          <5>2. hits[j].at <= hits[n].at
            <6>1. CASE j = n
              BY <1>1, <6>1
            <6>2. CASE j # n
              <7>1. j \in 1..(n - 1)
                BY <1>1, <6>2
              <7> QED BY <5>1, <7>1, HitFacts DEF n
            <6> QED BY <6>1, <6>2
          <5> QED BY <1>1, <1>3, <3>2, <5>1, <5>2
        <4> QED BY <1>1, <4>1, <4>2
      <3> QED BY <3>1, <3>2
    <2>3. ASSUME NEW i \in 1..(n + 1)
          PROVE  /\ hits'[i].total <= i
                 /\ \A j \in (i - hits'[i].total + 2)..i : hits'[j].at < hits'[j - 1].at + Ttl
                 /\ \A j \in 1..(i - 1) :
                      /\ hits'[j].at <= hits'[i].at
                      /\ hits'[i].at < hits'[j].at + Ttl
                           => hits'[j].total < hits'[i].total
      <3>1. CASE i \in 1..n
        BY <2>1, <3>1
      <3>2. CASE i = n + 1
        <4>1. i - 1 = n
          BY <1>1, <3>2
        <4>2. hits'[i].total = total /\ hits'[i].at = now
          BY <1>2, <3>2
        <4>3. \A j \in (i - hits'[i].total + 2)..i : hits'[j].at < hits'[j - 1].at + Ttl
          BY <1>1, <1>9, <2>2, <3>2, <4>2
        <4>4. \A j \in 1..(i - 1) :
                /\ hits'[j].at <= hits'[i].at
                /\ hits'[i].at < hits'[j].at + Ttl => hits'[j].total < hits'[i].total
          BY <1>2, <2>2, <4>1, <4>2
        <4> QED BY <2>2, <3>2, <4>2, <4>3, <4>4
      <3> QED BY <1>1, <3>1, <3>2
    <2> QED BY <1>2, <2>3 DEF BurstsGrow, InBurst
  <1>13. Overrun => Overrun'
    <2> SUFFICES ASSUME NEW i \in 1..n, i > Limit,
                        \A j \in (i - Limit + 1)..i : InBurst(j)
                 PROVE  Overrun'
      BY <1>1 DEF Overrun
    <2>1. i \in 1..(n + 1)
      BY <1>1
    <2>2. ASSUME NEW j \in (i - Limit + 1)..i PROVE hits'[j].at < hits'[j - 1].at + Ttl
      <3>1. j \in 1..n /\ j > 1
        BY <1>1, <1>3
      <3> QED BY <1>6, <3>1
    <2> QED BY <1>2, <2>1, <2>2 DEF Overrun, InBurst
  <1>14. BlockedForCause'
    <2>1. block' # 0 => Overrun'
      BY <1>4, <1>13 DEF LimiterInv, BlockedForCause
    <2>2. ASSUME NEW d \in Calls
          PROVE  /\ call'[d].pc \in {"block", "blocked"} => Overrun'
                 /\ call'[d].pc = "counted" =>
                      \E i \in 1..(n + 1) : hits'[i].total = call'[d].total
      <3>1. CASE d = c
        <4>1. n + 1 \in 1..(n + 1)
          BY <1>1
        <4> QED BY <1>2, <1>5, <3>1, <4>1
      <3>2. CASE d # c
        <4>1. call'[d] = call[d]
          BY <1>5, <3>2
        <4>2. call[d].pc = "counted" => \E i \in 1..n : hits[i].total = call[d].total
          BY <1>1 DEF LimiterInv, BlockedForCause
        <4>3. \A i \in 1..n : i \in 1..(n + 1)
          BY <1>1
        <4>4. call[d].pc \in {"block", "blocked"} => Overrun
          BY DEF LimiterInv, BlockedForCause
        <4> QED BY <1>2, <1>13, <4>1, <4>2, <4>3, <4>4
      <3> QED BY <3>1, <3>2
    <2> QED BY <1>2, <2>1, <2>2 DEF BlockedForCause
  <1> QED BY <1>10, <1>11, <1>12, <1>14 DEF LimiterInv

LEMMA LimiterStep == LimiterInv /\ [LimiterNext]_limiterVars => LimiterInv'
  <1> SUFFICES ASSUME LimiterInv, [LimiterNext]_limiterVars PROVE LimiterInv'
    OBVIOUS
  <1> USE LimiterAssumption DEF LimiterInv
  <1>1. CASE Second
    <2>1. LimiterTypeOK'
      BY <1>1 DEF Second, LimiterTypeOK, Expired
    <2>2. BurstsCounted'
      <3>1. UNCHANGED hits /\ now' = now + 1 /\ now \in Nat /\ hits \in Seq(Hit)
            /\ Ttl \in Nat
        BY <1>1 DEF Second, LimiterTypeOK
      <3>2. \A i \in DOMAIN hits : hits[i].at \in Nat /\ hits[i].total \in Nat
        BY HitsTyped
      <3>3. \A i \in DOMAIN hits :
              /\ hits[i].at <= now + 1
              /\ hits[i].total = IF i > 1 /\ InBurst(i) THEN hits[i - 1].total + 1 ELSE 1
        BY <3>1, <3>2 DEF BurstsCounted
      <3>4. counter' = IF hits # <<>> /\ now + 1 < hits[Len(hits)].at + Ttl
                         THEN [value |-> hits[Len(hits)].total,
                               until |-> hits[Len(hits)].at + Ttl]
                         ELSE Expired
        <4>1. hits # <<>> => Len(hits) \in DOMAIN hits
          BY <3>1
        <4> QED BY <1>1, <3>1, <3>2, <4>1 DEF Second, BurstsCounted, Expired
      <3> QED BY <3>1, <3>3, <3>4 DEF BurstsCounted, InBurst
    <2>3. BurstsGrow'
      BY <1>1 DEF Second, BurstsGrow, InBurst
    <2>4. BlockedForCause'
      BY <1>1 DEF Second, BlockedForCause, Overrun, InBurst
    <2> QED BY <2>1, <2>2, <2>3, <2>4
  <1>2. ASSUME NEW c \in Calls, AtomicIncrement(c) PROVE LimiterInv'
    BY <1>2, HitCounted
  <1>3. ASSUME NEW c \in Calls,
               \/ HandleRequest(c) \/ CheckBlocked(c) \/ Decide(c)
               \/ ReturnBlocked(c) \/ HandleRedisError(c)
        PROVE  LimiterInv'
    <2>1. UNCHANGED <<now, counter, block, hits>>
      BY <1>3 DEF HandleRequest, CheckBlocked, Decide, ReturnBlocked,
                  HandleRedisError, Redis
    <2>2. PICK q \in Call : /\ call' = [call EXCEPT ![c] = q]
                            /\ q.pc \in {"idle", "check", "increment", "block"}
                            /\ q.pc = "block" => call[c].pc = "counted" /\ call[c].total > Limit
                            /\ q.pc # "idle" => q.answer = "none"
      <3>1. call[c] \in Call /\ call \in [Calls -> Call]
            /\ (call[c].pc # "idle" => call[c].answer = "none")
        BY DEF LimiterTypeOK
      <3>2. CASE HandleRequest(c)
        <4> DEFINE q == [pc |-> "check", total |-> 0, answer |-> "none"]
        <4>1. q \in Call /\ q.pc = "check" /\ q.answer = "none"
          BY DEF Call
        <4>2. call' = [call EXCEPT ![c] = q]
          BY <3>2 DEF HandleRequest
        <4> HIDE DEF q
        <4> QED BY <4>1, <4>2
      <3>3. ASSUME NEW answer \in {"pass", "refuse", "unavailable"}, Reply(c, answer)
            PROVE  \E q \in Call : /\ call' = [call EXCEPT ![c] = q] /\ q.pc = "idle"
        <4> DEFINE q == [pc |-> "idle", total |-> 0, answer |-> answer]
        <4>1. q \in Call /\ q.pc = "idle"
          BY DEF Call
        <4>2. call' = [call EXCEPT ![c] = q]
          BY <3>3 DEF Reply
        <4> HIDE DEF q
        <4> QED BY <4>1, <4>2
      <3>4. ASSUME NEW pc \in {"increment", "block"}, GoOn(c, pc), call[c].pc # "idle"
            PROVE  \E q \in Call : /\ call' = [call EXCEPT ![c] = q]
                                   /\ q.pc = pc /\ q.answer = "none"
        <4> DEFINE q == [call[c] EXCEPT !.pc = pc]
        <4>1. q \in Call /\ q.pc = pc /\ q.answer = "none"
          BY <3>1, <3>4 DEF Call
        <4>2. call' = [call EXCEPT ![c] = q]
          BY <3>4 DEF GoOn
        <4> HIDE DEF q
        <4> QED BY <4>1, <4>2
      <3>5. CASE CheckBlocked(c)
        BY <3>3, <3>4, <3>5 DEF CheckBlocked
      <3>6. CASE Decide(c)
        BY <3>3, <3>4, <3>6 DEF Decide
      <3>7. CASE ReturnBlocked(c) \/ HandleRedisError(c)
        BY <3>3, <3>7 DEF ReturnBlocked, HandleRedisError
      <3> QED BY <1>3, <3>2, <3>5, <3>6, <3>7
    <2>3. LimiterTypeOK'
      BY <2>1, <2>2 DEF LimiterTypeOK
    <2>4. BurstsCounted' /\ BurstsGrow'
      BY <2>1 DEF BurstsCounted, BurstsGrow, InBurst
    <2>5. call[c].pc = "counted" /\ call[c].total > Limit => Overrun
      BY OverLimit DEF BlockedForCause
    <2>6. BlockedForCause'
      BY <2>1, <2>2, <2>5 DEF LimiterTypeOK, BlockedForCause, Overrun, InBurst
    <2> QED BY <2>3, <2>4, <2>6
  <1>4. ASSUME NEW c \in Calls, SetBlockKey(c) PROVE LimiterInv'
    <2>1. UNCHANGED <<now, counter, hits>> /\ call[c].pc = "block"
          /\ call' = [call EXCEPT ![c].pc = "blocked"] /\ block' = now + BlockDuration
      BY <1>4 DEF SetBlockKey, GoOn
    <2>2. LimiterTypeOK'
      <3> DEFINE q == [call[c] EXCEPT !.pc = "blocked"]
      <3>1. call \in [Calls -> Call] /\ q \in Call /\ q.pc = "blocked" /\ q.answer = "none"
        BY <2>1 DEF LimiterTypeOK, Call
      <3>2. call' = [call EXCEPT ![c] = q]
        BY <2>1
      <3>3. block' \in Nat
        BY <2>1 DEF LimiterTypeOK
      <3> HIDE DEF q
      <3> QED BY <2>1, <3>1, <3>2, <3>3 DEF LimiterTypeOK
    <2>3. BurstsCounted' /\ BurstsGrow'
      BY <2>1 DEF BurstsCounted, BurstsGrow, InBurst
    <2>4. BlockedForCause'
      BY <2>1 DEF LimiterTypeOK, BlockedForCause, Overrun, InBurst, Call
    <2> QED BY <2>2, <2>3, <2>4
  <1>5. CASE UNCHANGED limiterVars
    BY <1>5 DEF limiterVars, LimiterTypeOK, BurstsCounted, BurstsGrow,
                BlockedForCause, Overrun, InBurst
  <1> QED BY <1>1, <1>2, <1>3, <1>4, <1>5 DEF LimiterNext

\* The counter is the number of hits since the tracker was quiet, and a block has
\* an overrun behind it, whatever the order of the round trips.
THEOREM LimiterInvariant == LimiterSpec => []LimiterInv
  BY LimiterInitInv, LimiterStep, PTL DEF LimiterSpec

LEMMA RefusalStep ==
  ASSUME LimiterInv, [LimiterNext]_limiterVars, NEW c \in Calls,
         call[c].pc # "idle", call'[c].answer = "refuse"
  PROVE  Overrun
  <1> USE DEF LimiterInv
  <1>1. call[c].answer = "none" /\ call \in [Calls -> Call]
    BY DEF LimiterTypeOK
  <1>2. PICK d \in Calls :
          \/ HandleRequest(d) \/ CheckBlocked(d) \/ AtomicIncrement(d)
          \/ Decide(d) \/ SetBlockKey(d) \/ ReturnBlocked(d)
          \/ HandleRedisError(d)
    BY <1>1 DEF LimiterNext, limiterVars, Second
  <1>3. call'[d] # call[d] /\ d = c
    BY <1>1, <1>2 DEF HandleRequest, CheckBlocked, AtomicIncrement, Decide,
         SetBlockKey, ReturnBlocked, HandleRedisError, GoOn, Reply, Call
  <1>4. CASE CheckBlocked(c)
    <2>1. block # 0
      BY <1>1, <1>4 DEF CheckBlocked, GoOn, LimiterTypeOK, Call
    <2> QED BY <2>1 DEF BlockedForCause
  <1>5. CASE Decide(c)
    <2>1. call[c].pc = "counted" /\ call[c].total > Limit
      BY <1>1, <1>5 DEF Decide, Reply, Call
    <2> QED BY <2>1, OverLimit DEF BlockedForCause
  <1>6. CASE ReturnBlocked(c)
    BY <1>6 DEF ReturnBlocked, BlockedForCause
  <1>7. CASE HandleRequest(c) \/ AtomicIncrement(c) \/ SetBlockKey(c) \/ HandleRedisError(c)
    BY <1>1, <1>7 DEF HandleRequest, AtomicIncrement, SetBlockKey,
         HandleRedisError, GoOn, Reply, Call
  <1> QED BY <1>2, <1>3, <1>4, <1>5, <1>6, <1>7

\* A request is refused (429) only after more than Limit hits less than Ttl apart.
THEOREM RefusalsForCause == LimiterSpec => RefusedForCause
  <1>1. LimiterInv /\ [LimiterNext]_limiterVars =>
          [\A c \in Calls :
             call[c].pc # "idle" /\ call'[c].answer = "refuse" => Overrun]_limiterVars
    BY RefusalStep
  <1> QED BY <1>1, LimiterInvariant, PTL DEF LimiterSpec, RefusedForCause

\* No window of Ttl seconds has more than Limit hits that were not over it: their
\* numbers are different and at most Limit.
THEOREM WindowsLimited == LimiterSpec => []WindowLimit
  <1>1. LimiterInv => WindowLimit
    <2> SUFFICES ASSUME LimiterInv, NEW i \in DOMAIN hits
                 PROVE  Cardinality({j \in 1..i : /\ hits[i].at < hits[j].at + Ttl
                                                  /\ hits[j].total <= Limit}) <= Limit
      BY DEF WindowLimit
    <2> DEFINE W == {j \in 1..i : /\ hits[i].at < hits[j].at + Ttl
                                  /\ hits[j].total <= Limit}
               f == [j \in W |-> hits[j].total]
    <2>1. /\ i \in 1..Len(hits) /\ Len(hits) \in Nat /\ Ttl \in Nat
          /\ \A j \in 1..i : j \in 1..Len(hits) /\ hits[j].at \in Nat /\ hits[j].total \in Nat
      BY HitsTyped, LimiterAssumption DEF LimiterInv
    <2>2. \A j \in W : hits[j].total \in 1..Limit
      BY <2>1, HitFacts, LimiterAssumption
    <2>3. ASSUME NEW j \in W, NEW k \in W, j < k PROVE hits[j].total < hits[k].total
      <3>1. k \in 1..i /\ j \in 1..(k - 1) /\ hits[i].at < hits[j].at + Ttl
        BY <2>1, <2>3
      <3>2. hits[k].at <= hits[i].at
        <4>1. CASE k = i
          BY <2>1, <4>1
        <4>2. CASE k # i
          <5>1. k \in 1..(i - 1)
            BY <2>1, <3>1, <4>2
          <5> QED BY <2>1, <5>1, HitFacts
        <4> QED BY <4>1, <4>2
      <3>3. hits[k].at < hits[j].at + Ttl
        BY <2>1, <3>1, <3>2, SMTT(30)
      <3>4. k \in 1..Len(hits)
        BY <2>1, <3>1
      <3> QED BY <3>1, <3>3, <3>4, HitFacts
    <2>4. ASSUME NEW j \in W, NEW k \in W, hits[j].total = hits[k].total PROVE j = k
      <3>1. j \in Nat /\ k \in Nat /\ hits[j].total \in Nat
        BY <2>1
      <3>2. ~(j < k) /\ ~(k < j)
        BY <2>3, <2>4, <3>1
      <3> QED BY <3>1, <3>2
    <2>5. f \in Injection(W, 1..Limit)
      <3>1. f \in [W -> 1..Limit] /\ \A j \in W : f[j] = hits[j].total
        BY <2>2
      <3> HIDE DEF f, W
      <3>2. \A j, k \in W : f[j] = f[k] => j = k
        BY <2>4, <3>1
      <3> QED BY <3>1, <3>2 DEF Injection, IsInjective
    <2>6. IsFiniteSet(1..Limit) /\ Cardinality(1..Limit) = Limit
      BY FS_Interval, LimiterAssumption
    <2>7. Cardinality(W) <= Cardinality(1..Limit)
      BY <2>5, <2>6, FS_Injection
    <2> QED BY <2>6, <2>7
  <1> QED BY <1>1, LimiterInvariant, PTL

(* The least member of a set of naturals stands in for induction: the theorems
   for it take an operator, which the provers cannot instantiate.            *)
LEMMA LeastNatural ==
    ASSUME NEW S, S \subseteq Nat, S # {}
    PROVE  \E n \in S : \A m \in S : n <= m
<1>1. PICK n \in S : \A m \in S : ~(<<m, n>> \in OpToRel(<, Nat))
  BY NatLessThanWellFounded, WFMin
<1>2. ASSUME NEW m \in S PROVE n <= m
  <2>1. m \in Nat /\ n \in Nat
    OBVIOUS
  <2>2. ~(m < n)
    BY <1>1, <2>1 DEF OpToRel
  <2> QED BY <2>1, <2>2
<1> QED BY <1>2

(* --------------------------- CursorPagination ---------------------------- *)

\* Before and LastOf for given creation times.
Newer(times, i, j) ==
    \/ times[i] > times[j]
    \/ times[i] = times[j] /\ i > j

LastIn(times, batch) == CHOOSE i \in batch : \A j \in batch \ {i} : Newer(times, j, i)

LEMMA LastIs ==
    ASSUME NEW times, NEW batch, batch # {}, batch \subseteq Nat, \A i \in batch : times[i] \in Nat
    PROVE  /\ LastIn(times, batch) \in batch
           /\ \A j \in batch \ {LastIn(times, batch)} : Newer(times, j, LastIn(times, batch))
<1> DEFINE T == {times[i] : i \in batch}
<1>1. T \subseteq Nat /\ T # {}
  OBVIOUS
<1>2. PICK t \in T : \A u \in T : t <= u
  BY <1>1, LeastNatural
<1> DEFINE S == {i \in batch : times[i] = t}
<1>3. S \subseteq Nat /\ S # {}
  OBVIOUS
<1> HIDE DEF S
<1>4. PICK i \in S : \A j \in S : i <= j
  BY <1>3, LeastNatural
<1>5. i \in batch /\ times[i] = t
  BY DEF S
<1>6. ASSUME NEW j \in batch \ {i} PROVE Newer(times, j, i)
  <2>1. t <= times[j] /\ times[j] \in Nat /\ t \in Nat /\ i \in Nat /\ j \in Nat
    BY <1>1, <1>2, <1>5
  <2>2. CASE times[j] = t
    <3>1. i <= j
      BY <1>4, <2>2 DEF S
    <3> QED BY <1>5, <2>1, <2>2, <3>1 DEF Newer
  <2>3. CASE times[j] # t
    BY <1>5, <2>1, <2>3 DEF Newer
  <2> QED BY <2>2, <2>3
<1> QED BY <1>5, <1>6 DEF LastIn

LEMMA LastStays ==
    ASSUME NEW times, NEW later, NEW batch, batch # {}, batch \subseteq Nat,
           \A i \in batch : times[i] \in Nat /\ later[i] = times[i]
    PROVE  LastIn(later, batch) = LastIn(times, batch)
<1>1. /\ LastIn(times, batch) \in batch
      /\ \A j \in batch \ {LastIn(times, batch)} : Newer(times, j, LastIn(times, batch))
  BY LastIs
<1>2. /\ LastIn(later, batch) \in batch
      /\ \A j \in batch \ {LastIn(later, batch)} : Newer(later, j, LastIn(later, batch))
  BY LastIs
<1> DEFINE a == LastIn(times, batch)
           b == LastIn(later, batch)
<1> HIDE DEF a, b
<1>3. ASSUME a # b PROVE FALSE
  <2>1. a \in batch /\ b \in batch /\ Newer(times, b, a) /\ Newer(later, a, b)
    BY <1>1, <1>2, <1>3 DEF a, b
  <2>2. times[a] \in Nat /\ times[b] \in Nat /\ a \in Nat /\ b \in Nat
        /\ later[a] = times[a] /\ later[b] = times[b]
    BY <2>1
  <2> QED BY <2>1, <2>2 DEF Newer
<1> QED BY <1>3 DEF a, b

\* The milliseconds of a time, and of one between them and it.
LEMMA Milliseconds ==
    ASSUME NEW t \in Nat
    PROVE  /\ Millisecond(t) \in Nat /\ Millisecond(t) <= t
           /\ t < Millisecond(t) + Micros
<1> Micros \in Nat /\ Micros > 0
  BY CursorAssumption
<1> QED BY DEF Millisecond

LEMMA SameMillisecond ==
    ASSUME NEW s \in Nat, NEW t \in Nat, Millisecond(t) <= s, s <= t
    PROVE  Millisecond(s) = Millisecond(t)
<1>1. Micros \in Nat /\ Micros > 0
  BY CursorAssumption
<1> DEFINE a == s \div Micros
           b == t \div Micros
<1>2. a \in Nat /\ b \in Nat /\ Millisecond(s) = a * Micros /\ Millisecond(t) = b * Micros
  BY <1>1 DEF Millisecond
<1>3. /\ a * Micros <= s /\ s < a * Micros + Micros
      /\ b * Micros <= t /\ t < b * Micros + Micros
  BY <1>2, Milliseconds
<1> HIDE DEF a, b
<1>4. ASSUME a < b PROVE FALSE
  <2>1. a * Micros + Micros <= b * Micros
    BY <1>1, <1>2, <1>4
  <2> QED BY <1>1, <1>2, <1>3, <2>1
<1>5. ASSUME b < a PROVE FALSE
  <2>1. b * Micros + Micros <= a * Micros
    BY <1>1, <1>2, <1>5
  <2> QED BY <1>1, <1>2, <1>3, <2>1
<1>6. a = b
  BY <1>2, <1>4, <1>5
<1> QED BY <1>2, <1>6

-----------------------------------------------------------------------------
LastRow == LastOf(pages[Len(pages)])

LEMMA LastOfIs == \A batch : LastOf(batch) = LastIn(createdAt, batch)
BY DEF LastOf, LastIn, Before, Newer

\* The cursor is that of the last row listed, and pages that are not the last
\* one have rows.
CursorKept ==
    /\ cursor = FromStart <=> pages = <<>>
    /\ cursor \in {FromStart, AtEnd} \/ cursor = EncodeCursor(LastRow)
    /\ \A k \in FullPages : pages[k] # {}
    /\ \A k \in DOMAIN pages : pages[k] \subseteq DOMAIN createdAt

InOrder ==
    \A k \in DOMAIN pages : \A n \in 1..(k - 1) :
        \A i \in pages[n], j \in pages[k] : Before(i, j)

MissingForCause ==
    \A i \in steady \ Listed :
        Passed(i) =>
           \E k \in FullPages :
              Millisecond(createdAt[i]) = Millisecond(createdAt[LastOf(pages[k])])

CursorStrong == CursorTypeOK /\ CursorKept /\ InOrder /\ MissingForCause

LEMMA CursorStrongSuffices == CursorStrong => PagesInv
BY DEF CursorStrong, PagesInv, InOrder, MissingForCause

LEMMA CursorTypes ==
    ASSUME CursorTypeOK
    PROVE  /\ DOMAIN createdAt \subseteq RowIds /\ createdAt \in [DOMAIN createdAt -> Times]
           /\ matching \subseteq DOMAIN createdAt /\ steady \subseteq matching
           /\ \A i \in DOMAIN createdAt : createdAt[i] \in Nat /\ i \in Nat
           /\ pages \in Seq(SUBSET RowIds) /\ Len(pages) \in Nat /\ DOMAIN pages = 1..Len(pages)
           /\ pages = <<>> <=> Len(pages) = 0
           /\ \A k \in 1..Len(pages) : pages[k] \subseteq RowIds
<1>1. PICK inTable \in SUBSET RowIds :
        createdAt \in [inTable -> Times] /\ matching \subseteq inTable
  BY DEF CursorTypeOK
<1>2. DOMAIN createdAt = inTable
  BY <1>1
<1>3. pages \in Seq(SUBSET RowIds) /\ steady \subseteq matching
  BY DEF CursorTypeOK
<1>4. \A i \in inTable : createdAt[i] \in Nat /\ i \in Nat
  BY <1>1, CursorAssumption
<1>5. /\ Len(pages) \in Nat /\ DOMAIN pages = 1..Len(pages)
      /\ pages = <<>> <=> Len(pages) = 0
      /\ \A k \in 1..Len(pages) : pages[k] \subseteq RowIds
  BY <1>3
<1> QED BY <1>1, <1>2, <1>3, <1>4, <1>5

LEMMA CursorBegins == CursorInit => CursorStrong
<1> SUFFICES ASSUME CursorInit PROVE CursorStrong
  OBVIOUS
<1>1. CursorTypeOK
  BY DEF CursorInit, CursorTypeOK
<1>2. DOMAIN pages = {} /\ Len(pages) = 0 /\ Len(pages) = Len(<<>>)
  BY DEF CursorInit
<1>3. CursorKept
  BY <1>2 DEF CursorInit, CursorKept, FullPages
<1>4. InOrder
  BY <1>2 DEF InOrder
<1>5. MissingForCause
  BY DEF CursorInit, MissingForCause
<1> QED BY <1>1, <1>3, <1>4, <1>5 DEF CursorStrong

\* The last row of a page that has rows.
LEMMA LastRowIs ==
    ASSUME CursorStrong, NEW k \in FullPages
    PROVE  /\ k \in DOMAIN pages
           /\ LastOf(pages[k]) \in pages[k] /\ pages[k] \subseteq DOMAIN createdAt
           /\ \A j \in pages[k] \ {LastOf(pages[k])} : Before(j, LastOf(pages[k]))
<1>1. k \in DOMAIN pages
  BY DEF FullPages
<1>2. pages[k] # {} /\ pages[k] \subseteq DOMAIN createdAt
  BY <1>1 DEF CursorStrong, CursorKept
<1>3. pages[k] \subseteq Nat /\ \A i \in pages[k] : createdAt[i] \in Nat
  BY <1>2, CursorTypes DEF CursorStrong
<1>4. /\ LastIn(createdAt, pages[k]) \in pages[k]
      /\ \A j \in pages[k] \ {LastIn(createdAt, pages[k])} :
            Newer(createdAt, j, LastIn(createdAt, pages[k]))
  BY <1>2, <1>3, LastIs
<1> QED BY <1>1, <1>2, <1>4, LastOfIs DEF Newer, Before

\* Where the cursor stands: every row listed is at it or before it.
LEMMA CursorStands ==
    ASSUME CursorStrong, cursor # FromStart, cursor # AtEnd
    PROVE  /\ Len(pages) \in FullPages /\ pages # <<>>
           /\ LastRow \in pages[Len(pages)] /\ LastRow \in DOMAIN createdAt
           /\ cursor.at = "row" /\ cursor.i = LastRow
           /\ cursor.t = Millisecond(createdAt[LastRow])
           /\ \A i \in Listed \ {LastRow} : Before(i, LastRow)
           /\ Listed \subseteq DOMAIN createdAt
<1>1. pages # <<>> /\ cursor = EncodeCursor(LastRow)
  BY DEF CursorStrong, CursorKept
<1>2. Len(pages) \in 1..Len(pages) /\ DOMAIN pages = 1..Len(pages)
  BY <1>1, CursorTypes DEF CursorStrong
<1>3. Len(pages) \in FullPages
  BY <1>2 DEF FullPages
<1>4. /\ LastRow \in pages[Len(pages)] /\ LastRow \in DOMAIN createdAt
      /\ \A j \in pages[Len(pages)] \ {LastRow} : Before(j, LastRow)
  BY <1>3, LastRowIs DEF LastRow
<1>5. Listed \subseteq DOMAIN createdAt
  BY DEF Listed, CursorStrong, CursorKept
<1>6. ASSUME NEW i \in Listed \ {LastRow} PROVE Before(i, LastRow)
  <2>1. PICK n \in DOMAIN pages : i \in pages[n]
    BY DEF Listed
  <2>2. CASE n = Len(pages)
    BY <1>4, <2>1, <2>2
  <2>3. CASE n # Len(pages)
    <3>1. n \in 1..(Len(pages) - 1)
      BY <1>2, <2>1, <2>3, CursorTypes DEF CursorStrong
    <3> QED BY <1>2, <1>4, <2>1, <3>1 DEF CursorStrong, InOrder
  <2> QED BY <2>2, <2>3
<1> QED BY <1>1, <1>3, <1>4, <1>5, <1>6 DEF EncodeCursor

\* A row that was listed comes before every row that the next page may have; and
\* one that is left out has been passed before, or shares a millisecond.
LEMMA CursorTurns ==
    ASSUME CursorStrong, cursor # FromStart, cursor # AtEnd
    PROVE  /\ \A i \in Listed, j \in Candidates : Before(i, j)
           /\ \A i \in DOMAIN createdAt \ Listed :
                 AfterCursor(cursor, i) \/ Before(i, LastRow)
                 \/ Millisecond(createdAt[i]) = Millisecond(createdAt[LastRow])
<1> DEFINE l == LastRow
<1>1. /\ l \in Listed /\ l \in DOMAIN createdAt /\ Listed \subseteq DOMAIN createdAt
      /\ cursor.at = "row" /\ cursor.i = l /\ cursor.t = Millisecond(createdAt[l])
      /\ \A i \in Listed \ {l} : Before(i, l)
  <2>1. Len(pages) \in DOMAIN pages
    BY CursorStands DEF FullPages
  <2> QED BY <2>1, CursorStands DEF Listed
<1>2. \A i \in DOMAIN createdAt : createdAt[i] \in Nat /\ i \in Nat
  BY CursorTypes DEF CursorStrong
<1>3. Candidates \subseteq DOMAIN createdAt
  BY CursorTypes DEF CursorStrong, Candidates
<1> HIDE DEF l
<1>4. cursor.t \in Nat /\ cursor.t <= createdAt[l]
  BY <1>1, <1>2, Milliseconds
<1>5. ASSUME NEW j \in Candidates PROVE Before(l, j)
  <2>1. createdAt[j] < cursor.t \/ (createdAt[j] = cursor.t /\ j < l)
    BY <1>1 DEF Candidates, AfterCursor
  <2> QED BY <1>1, <1>2, <1>3, <1>4, <2>1 DEF Before
<1>6. ASSUME NEW i \in Listed, NEW j \in Candidates PROVE Before(i, j)
  <2>1. Before(l, j) /\ (i # l => Before(i, l))
    BY <1>1, <1>5
  <2> QED BY <1>1, <1>2, <1>3, <2>1 DEF Before
<1>7. ASSUME NEW i \in DOMAIN createdAt \ Listed,
             ~AfterCursor(cursor, i), ~Before(i, l)
      PROVE  Millisecond(createdAt[i]) = Millisecond(createdAt[l])
  <2>1. createdAt[i] >= cursor.t
    BY <1>1, <1>2, <1>4, <1>7 DEF AfterCursor
  <2>2. createdAt[i] <= createdAt[l]
    BY <1>1, <1>2, <1>7 DEF Before
  <2> QED BY <1>1, <1>2, <2>1, <2>2, SameMillisecond
<1> QED BY <1>6, <1>7 DEF l

LEMMA FetchPageKeeps == ASSUME CursorStrong, FetchPage PROVE CursorStrong'
<1> USE DEF CursorStrong
<1>1. PICK batch \in SUBSET RowIds :
        /\ IsPage(batch)
        /\ pages' = Append(pages, batch)
        /\ cursor' = IF HasMore(batch) THEN EncodeCursor(LastOf(batch)) ELSE AtEnd
  BY DEF FetchPage
<1>2. /\ cursor # AtEnd /\ UNCHANGED <<createdAt, matching>>
      /\ steady' = IF cursor = FromStart THEN matching ELSE steady
  BY DEF FetchPage
<1> DEFINE n == Len(pages)
<1>3. /\ n \in Nat /\ Len(pages') = n + 1 /\ DOMAIN pages' = 1..(n + 1)
      /\ pages'[n + 1] = batch /\ pages' # <<>>
      /\ \A k \in 1..n : pages'[k] = pages[k]
      /\ DOMAIN pages = 1..n /\ pages' \in Seq(SUBSET RowIds)
      /\ pages = <<>> <=> n = 0
  BY <1>1, CursorTypes
<1> HIDE DEF n
<1>4. batch \subseteq Candidates /\ Candidates \subseteq matching
      /\ matching \subseteq DOMAIN createdAt /\ DOMAIN createdAt \subseteq RowIds
  BY <1>1, CursorTypes DEF IsPage, Candidates
<1>5. CursorTypeOK'
  BY <1>2, <1>3 DEF CursorTypeOK
<1>6. HasMore(batch) => batch # {}
  BY <1>1, CursorAssumption, FS_EmptySet DEF IsPage, HasMore
<1>7. \A k \in DOMAIN pages : LastOf(pages[k])' = LastOf(pages[k])
  BY <1>2, <1>3 DEF LastOf, Before
<1>8. LastOf(batch)' = LastOf(batch) /\ LastRow' = LastOf(batch)
      /\ EncodeCursor(LastOf(batch))' = EncodeCursor(LastOf(batch))
  BY <1>2, <1>3 DEF LastOf, Before, LastRow, EncodeCursor
<1>9. FullPages' = 1..n \cup (IF HasMore(batch) THEN {n + 1} ELSE {})
  <2>1. cursor' # AtEnd <=> HasMore(batch)
    BY <1>1 DEF EncodeCursor, AtEnd
  <2> QED BY <1>3, <2>1 DEF FullPages
<1>10. 1..n \subseteq FullPages
  BY <1>2, <1>3 DEF FullPages
<1>11. CursorKept'
  <2>1. cursor' # FromStart
    BY <1>1 DEF FromStart, AtEnd, EncodeCursor
  <2>2. cursor' \in {FromStart, AtEnd} \/ cursor' = EncodeCursor(LastRow)'
    BY <1>1, <1>8 DEF EncodeCursor
  <2>3. ASSUME NEW k \in FullPages' PROVE pages'[k] # {}
    <3>1. CASE k \in 1..n
      BY <1>3, <1>10, <3>1 DEF CursorKept
    <3>2. CASE k = n + 1 /\ HasMore(batch)
      BY <1>3, <1>6, <3>2
    <3> QED BY <1>9, <3>1, <3>2
  <2>4. ASSUME NEW k \in DOMAIN pages' PROVE pages'[k] \subseteq DOMAIN createdAt'
    <3>1. CASE k \in 1..n
      BY <1>2, <1>3, <3>1 DEF CursorKept
    <3>2. CASE k = n + 1
      BY <1>2, <1>3, <1>4, <3>2
    <3> QED BY <1>3, <3>1, <3>2
  <2>5. FromStart' = FromStart /\ AtEnd' = AtEnd
    BY DEF FromStart, AtEnd
  <2> QED BY <1>3, <2>1, <2>2, <2>3, <2>4, <2>5 DEF CursorKept
<1>12. InOrder'
  <2> SUFFICES ASSUME NEW k \in 1..(n + 1), NEW m \in 1..(k - 1),
                      NEW i \in pages'[m], NEW j \in pages'[k]
               PROVE  Before(i, j)
    BY <1>2, <1>3 DEF InOrder, Before
  <2>1. m \in 1..n /\ k \in Nat
    BY <1>3
  <2>2. CASE k \in 1..n
    BY <1>3, <2>1, <2>2 DEF InOrder
  <2>3. CASE k = n + 1
    <3>1. i \in Listed /\ j \in Candidates
      BY <1>3, <1>4, <2>1, <2>3 DEF Listed
    <3>2. cursor # FromStart
      BY <1>3, <2>1 DEF CursorKept
    <3> QED BY <1>2, <3>1, <3>2, CursorTurns
  <2> QED BY <1>3, <2>2, <2>3
<1>13. Listed' = Listed \cup batch
  BY <1>3 DEF Listed
<1>14. ASSUME NEW i \in steady' \ Listed', Passed(i)'
       PROVE  i \notin Candidates
  <2>1. CASE ~HasMore(batch)
    <3>1. batch = Candidates
      BY <1>1, <2>1 DEF IsPage, HasMore
    <3> QED BY <1>13, <3>1
  <2>2. CASE HasMore(batch) /\ i \in Candidates
    <3>1. cursor' # AtEnd'
      BY <1>1, <2>2 DEF EncodeCursor, AtEnd
    <3>2. Before(i, LastOf(batch))
      <4>1. Before(i, LastRow)'
        BY <1>14, <3>1 DEF Passed, LastRow, AtEnd
      <4> QED BY <1>2, <1>8, <4>1 DEF Before
    <3>3. LastOf(batch) \in batch
      <4>1. batch \subseteq Nat /\ \A j \in batch : createdAt[j] \in Nat
        BY <1>4, CursorTypes
      <4> QED BY <1>6, <2>2, <4>1, LastIs, LastOfIs
    <3>4. Before(LastOf(batch), i)
      BY <1>1, <1>13, <2>2, <3>3 DEF IsPage
    <3>5. \A j \in Candidates : createdAt[j] \in Nat /\ j \in Nat
      BY <1>4, CursorTypes
    <3> QED BY <1>4, <2>2, <3>2, <3>3, <3>4, <3>5 DEF Before
  <2> QED BY <2>1, <2>2
<1>15. MissingForCause'
  <2> SUFFICES ASSUME NEW i \in steady' \ Listed', Passed(i)'
               PROVE  \E k \in 1..n :
                        Millisecond(createdAt[i]) = Millisecond(createdAt[LastOf(pages[k])])
    <3>1. \A k \in 1..n : k \in FullPages' /\ LastOf(pages[k])' = LastOf(pages[k])
      BY <1>3, <1>7, <1>9
    <3>2. \A j : Millisecond(createdAt[j])' = Millisecond(createdAt[j])
      BY <1>2 DEF Millisecond
    <3> QED BY <1>2, <3>1, <3>2 DEF MissingForCause, Millisecond
  <2>1. i \notin Candidates /\ i \notin Listed
    BY <1>13, <1>14
  <2>2. i \in matching /\ i \in DOMAIN createdAt
    BY <1>2, CursorTypes
  <2>3. cursor # FromStart
    BY <2>1, <2>2 DEF Candidates, AfterCursor, FromStart
  <2>4. i \in steady /\ ~AfterCursor(cursor, i)
    BY <1>2, <2>1, <2>2, <2>3 DEF Candidates
  <2>5. CASE Before(i, LastRow)
    <3>1. Passed(i)
      BY <1>2, <2>3, <2>5 DEF Passed, LastRow, CursorKept
    <3>2. PICK k \in FullPages :
            Millisecond(createdAt[i]) = Millisecond(createdAt[LastOf(pages[k])])
      BY <2>1, <2>4, <3>1 DEF MissingForCause
    <3> QED BY <1>3, <3>2 DEF FullPages
  <2>6. CASE ~Before(i, LastRow)
    <3>1. Millisecond(createdAt[i]) = Millisecond(createdAt[LastRow])
      BY <1>2, <2>1, <2>2, <2>3, <2>4, <2>6, CursorTurns
    <3>2. n \in 1..n
      BY <1>3, <2>3 DEF CursorKept
    <3> QED BY <3>1, <3>2 DEF LastRow, n
  <2> QED BY <2>5, <2>6
<1> QED BY <1>5, <1>11, <1>12, <1>15

LEMMA ReloadKeeps == ASSUME CursorStrong, Reload PROVE CursorStrong'
<1>1. pages' = <<>> /\ cursor' = FromStart /\ steady' = {}
      /\ UNCHANGED <<createdAt, matching>>
  BY DEF Reload
<1>2. DOMAIN pages' = {} /\ pages' \in Seq(SUBSET RowIds)
  BY <1>1
<1>3. CursorTypeOK'
  BY <1>1, <1>2 DEF CursorStrong, CursorTypeOK
<1>4. CursorKept'
  BY <1>1, <1>2 DEF CursorKept, FullPages, FromStart
<1>5. InOrder' /\ MissingForCause'
  BY <1>1, <1>2 DEF InOrder, MissingForCause
<1> QED BY <1>3, <1>4, <1>5 DEF CursorStrong

\* A row that comes in changes nothing for the rows that are there.
LEMMA InsertRowKeeps ==
    ASSUME CursorStrong, NEW r \in RowIds, NEW t \in Times, InsertRow(r, t)
    PROVE  CursorStrong'
<1> USE DEF CursorStrong
<1>1. /\ r \notin DOMAIN createdAt
      /\ createdAt' = [j \in DOMAIN createdAt \cup {r} |-> IF j = r THEN t ELSE createdAt[j]]
      /\ matching' = matching \cup {r} /\ UNCHANGED <<pages, cursor, steady>>
  BY DEF InsertRow
<1>2. /\ DOMAIN createdAt' = DOMAIN createdAt \cup {r}
      /\ createdAt' \in [DOMAIN createdAt \cup {r} -> Times]
      /\ \A j \in DOMAIN createdAt : createdAt'[j] = createdAt[j]
  BY <1>1, CursorTypes
<1>3. CursorTypeOK'
  <2>1. DOMAIN createdAt \cup {r} \in SUBSET RowIds /\ matching' \subseteq DOMAIN createdAt \cup {r}
    BY <1>1, CursorTypes
  <2>2. pages' \in Seq(SUBSET RowIds) /\ steady' \subseteq matching'
    BY <1>1, CursorTypes
  <2> QED BY <1>2, <2>1, <2>2 DEF CursorTypeOK
<1>4. \A i, j \in DOMAIN createdAt : Before(i, j)' <=> Before(i, j)
  BY <1>2 DEF Before
<1>5. FullPages' = FullPages /\ Listed' = Listed
  BY <1>1 DEF FullPages, Listed, AtEnd
<1>6. ASSUME NEW k \in FullPages
      PROVE  LastOf(pages[k])' = LastOf(pages[k]) /\ LastOf(pages[k]) \in DOMAIN createdAt
  <2>1. /\ pages[k] # {} /\ pages[k] \subseteq DOMAIN createdAt
        /\ LastOf(pages[k]) \in DOMAIN createdAt
    BY LastRowIs
  <2>2. /\ pages[k] \subseteq Nat
        /\ \A i \in pages[k] : createdAt[i] \in Nat /\ createdAt'[i] = createdAt[i]
    BY <1>2, <2>1, CursorTypes
  <2>3. LastIn(createdAt', pages[k]) = LastIn(createdAt, pages[k])
    BY <2>1, <2>2, LastStays
  <2>4. LastOf(pages[k])' = LastIn(createdAt', pages[k])
    BY <1>1 DEF LastOf, LastIn, Before, Newer
  <2> QED BY <2>1, <2>3, <2>4, LastOfIs
<1>7. CursorKept'
  <2>1. CASE cursor = EncodeCursor(LastRow) /\ pages # <<>>
    <3>1. Len(pages) \in FullPages
      BY <2>1, CursorTypes DEF FullPages, EncodeCursor, AtEnd
    <3>2. LastRow' = LastRow /\ LastRow \in DOMAIN createdAt
      BY <1>1, <1>6, <3>1 DEF LastRow
    <3>3. EncodeCursor(LastRow)' = EncodeCursor(LastRow)
      BY <1>2, <3>2 DEF EncodeCursor, Millisecond
    <3> QED BY <1>1, <1>2, <1>5, <2>1, <3>3 DEF CursorKept, FromStart
  <2>2. CASE cursor \in {FromStart, AtEnd}
    BY <1>1, <1>2, <1>5, <2>2 DEF CursorKept, FromStart, AtEnd
  <2>3. CASE cursor = EncodeCursor(LastRow) /\ pages = <<>>
    BY <2>2, <2>3 DEF CursorKept
  <2> QED BY <2>1, <2>2, <2>3 DEF CursorKept
<1>8. InOrder'
  <2> SUFFICES ASSUME NEW k \in DOMAIN pages, NEW n \in 1..(k - 1),
                      NEW i \in pages[n], NEW j \in pages[k]
               PROVE  Before(i, j)'
    BY <1>1 DEF InOrder
  <2>1. n \in DOMAIN pages
    BY CursorTypes
  <2>2. i \in DOMAIN createdAt /\ j \in DOMAIN createdAt
    BY <2>1 DEF CursorKept
  <2> QED BY <1>4, <2>2 DEF InOrder
<1>9. MissingForCause'
  <2> SUFFICES ASSUME NEW i \in steady \ Listed, Passed(i)'
               PROVE  \E k \in FullPages' :
                        Millisecond(createdAt[i])' = Millisecond(createdAt[LastOf(pages[k])])'
    BY <1>1, <1>5 DEF MissingForCause
  <2>1. i \in DOMAIN createdAt
    BY CursorTypes
  <2>2. Passed(i)
    <3>1. CASE cursor = AtEnd
      BY <3>1 DEF Passed
    <3>2. CASE cursor # AtEnd
      <4>1. pages # <<>> /\ Before(i, LastOf(pages[Len(pages)]))'
        BY <1>1, <3>2 DEF Passed, AtEnd
      <4>2. Len(pages) \in FullPages
        BY <3>2, <4>1, CursorTypes DEF FullPages
      <4>3. LastOf(pages[Len(pages)])' = LastOf(pages[Len(pages)])
            /\ LastOf(pages[Len(pages)]) \in DOMAIN createdAt
        BY <1>1, <1>6, <4>2
      <4> QED BY <1>2, <2>1, <4>1, <4>3 DEF Passed, Before
    <3> QED BY <3>1, <3>2
  <2>3. PICK k \in FullPages :
          Millisecond(createdAt[i]) = Millisecond(createdAt[LastOf(pages[k])])
    BY <2>2 DEF MissingForCause
  <2> QED BY <1>2, <1>5, <1>6, <2>1, <2>3 DEF Millisecond
<1> QED BY <1>3, <1>7, <1>8, <1>9

LEMMA ChangeStatusKeeps ==
    ASSUME CursorStrong, NEW r \in RowIds, ChangeStatus(r) PROVE CursorStrong'
<1>1. /\ r \in DOMAIN createdAt /\ UNCHANGED <<createdAt, pages, cursor>>
      /\ matching' = IF r \in matching THEN matching \ {r} ELSE matching \cup {r}
      /\ steady' = steady \ {r}
  BY DEF ChangeStatus
<1>2. CursorTypeOK'
  BY <1>1 DEF CursorStrong, CursorTypeOK
<1>3. CursorKept'
  BY <1>1 DEF CursorStrong, CursorKept, FromStart, AtEnd, EncodeCursor, LastRow, LastOf, Before,
              FullPages
<1>4. InOrder'
  BY <1>1 DEF CursorStrong, InOrder, Before
<1>5. MissingForCause'
  <2>1. /\ Listed' = Listed /\ FullPages' = FullPages
        /\ \A i : (Passed(i)' <=> Passed(i)) /\ Millisecond(createdAt[i])' = Millisecond(createdAt[i])
        /\ \A k : Millisecond(createdAt[LastOf(pages[k])])' = Millisecond(createdAt[LastOf(pages[k])])
    BY <1>1 DEF Listed, Passed, LastOf, Before, FullPages, AtEnd, Millisecond
  <2> QED BY <1>1, <2>1 DEF CursorStrong, MissingForCause
<1> QED BY <1>2, <1>3, <1>4, <1>5 DEF CursorStrong

LEMMA CursorStep == CursorStrong /\ [CursorNext]_cursorVars => CursorStrong'
<1> SUFFICES ASSUME CursorStrong, [CursorNext]_cursorVars PROVE CursorStrong'
  OBVIOUS
<1>1. CASE UNCHANGED cursorVars
  <2>1. UNCHANGED <<createdAt, matching, pages, cursor, steady>>
    BY <1>1 DEF cursorVars
  <2>2. CursorTypeOK' /\ CursorKept' /\ InOrder'
    BY <2>1 DEF CursorStrong, CursorTypeOK, CursorKept, InOrder, FromStart, AtEnd, EncodeCursor,
                LastRow, LastOf, Before, FullPages
  <2>3. /\ Listed' = Listed /\ FullPages' = FullPages
        /\ \A i : (Passed(i)' <=> Passed(i)) /\ Millisecond(createdAt[i])' = Millisecond(createdAt[i])
        /\ \A k : Millisecond(createdAt[LastOf(pages[k])])' = Millisecond(createdAt[LastOf(pages[k])])
    BY <2>1 DEF Listed, Passed, LastOf, Before, FullPages, AtEnd, Millisecond
  <2>4. MissingForCause'
    BY <2>1, <2>3 DEF CursorStrong, MissingForCause
  <2> QED BY <2>2, <2>4 DEF CursorStrong
<1> QED BY <1>1, FetchPageKeeps, ReloadKeeps, InsertRowKeeps, ChangeStatusKeeps DEF CursorNext

(* ------------------------------ OrgTreeView ------------------------------ *)

\* What is rendered one level further down.
Below(d, open, rows) == rows \cup UNION {Children(d, n) : n \in rows \cap open}

\* f is what Rendered computes level by level, down to level n.
Levels(d, open, n, f) ==
    f = [i \in 0..n |-> IF i = 0 THEN Roots(d) ELSE Below(d, open, f[i - 1])]

\* By the least level that could not be computed: the recursion is well founded.
LEMMA LevelsExist ==
    ASSUME NEW d, NEW open, NEW n \in Nat
    PROVE  \E f : Levels(d, open, n, f)
<1> DEFINE Bad == {m \in Nat : ~\E f : Levels(d, open, m, f)}
<1>1. ASSUME Bad # {} PROVE FALSE
  <2>1. PICK m \in Bad : \A k \in Bad : m <= k
    BY <1>1, LeastNatural
  <2>2. CASE m = 0
    <3> DEFINE f == [i \in 0..0 |-> Roots(d)]
    <3>1. Levels(d, open, 0, f)
      BY DEF Levels
    <3> QED BY <2>1, <2>2, <3>1
  <2>3. CASE m # 0
    <3>1. m - 1 \in Nat /\ m - 1 \notin Bad /\ m \in Nat
      BY <2>1, <2>3
    <3>2. PICK g : Levels(d, open, m - 1, g)
      BY <3>1
    <3> DEFINE f == [i \in 0..m |-> IF i = m THEN Below(d, open, g[m - 1]) ELSE g[i]]
    <3>3. g = [i \in 0..(m - 1) |-> IF i = 0 THEN Roots(d) ELSE Below(d, open, g[i - 1])]
      BY <3>2 DEF Levels
    <3>4. ASSUME NEW i \in 0..m
          PROVE  f[i] = IF i = 0 THEN Roots(d) ELSE Below(d, open, f[i - 1])
      <4>1. CASE i = m
        <5>1. i # 0 /\ i - 1 \in 0..m /\ i - 1 # m
          BY <2>3, <3>1, <4>1
        <5>2. f[i] = Below(d, open, g[m - 1]) /\ f[i - 1] = g[i - 1]
          BY <4>1, <5>1
        <5> QED BY <4>1, <5>1, <5>2
      <4>2. CASE i # m
        <5>1. i \in 0..(m - 1) /\ f[i] = g[i]
          BY <3>1, <4>2
        <5>2. i # 0 => i - 1 \in 0..m /\ i - 1 # m
          BY <3>1
        <5>3. i # 0 => f[i - 1] = g[i - 1]
          BY <5>2
        <5>4. g[i] = IF i = 0 THEN Roots(d) ELSE Below(d, open, g[i - 1])
          BY <3>3, <5>1
        <5> QED BY <5>1, <5>3, <5>4
      <4> QED BY <4>1, <4>2
    <3>5. Levels(d, open, m, f)
      <4>1. f = [i \in 0..m |-> f[i]]
        OBVIOUS
      <4> HIDE DEF f
      <4>2. f = [i \in 0..m |-> IF i = 0 THEN Roots(d) ELSE Below(d, open, f[i - 1])]
        BY <3>4, <4>1
      <4> QED BY <4>2 DEF Levels
    <3> QED BY <2>1, <3>5
  <2> QED BY <2>2, <2>3
<1> QED BY <1>1

LEMMA NodesCounted == Cardinality(Nodes) \in Nat
BY TreeViewAssumption, FS_CardinalityType

LEMMA RenderedIs ==
    ASSUME NEW d, NEW open
    PROVE  \E f : Levels(d, open, Cardinality(Nodes), f)
                  /\ Rendered(d, open) = f[Cardinality(Nodes)]
<1> DEFINE N == Cardinality(Nodes)
           upTo == CHOOSE f : f = [i \in 0..N |->
                       IF i = 0 THEN Roots(d)
                       ELSE f[i - 1] \cup UNION {Children(d, n) : n \in f[i - 1] \cap open}]
<1>1. Rendered(d, open) = upTo[N]
  BY DEF Rendered
<1>2. PICK g : Levels(d, open, N, g)
  BY NodesCounted, LevelsExist
<1>3. g = [i \in 0..N |->
               IF i = 0 THEN Roots(d)
               ELSE g[i - 1] \cup UNION {Children(d, n) : n \in g[i - 1] \cap open}]
  BY <1>2 DEF Levels, Below
<1>4. upTo = [i \in 0..N |->
               IF i = 0 THEN Roots(d)
               ELSE upTo[i - 1] \cup UNION {Children(d, n) : n \in upTo[i - 1] \cap open}]
  BY <1>3
<1>5. Levels(d, open, N, upTo)
  BY <1>4 DEF Levels, Below
<1> QED BY <1>1, <1>5

LEMMA LevelAt ==
    ASSUME NEW d, NEW open, NEW n \in Nat, NEW f, Levels(d, open, n, f)
    PROVE  /\ f[0] = Roots(d)
           /\ \A i \in 1..n : i - 1 \in 0..n /\ f[i] = Below(d, open, f[i - 1])
<1> DEFINE value(i) == IF i = 0 THEN Roots(d) ELSE Below(d, open, f[i - 1])
<1>1. f = [i \in 0..n |-> value(i)]
  BY DEF Levels
<1> HIDE DEF value
<1>2. \A i \in 0..n : f[i] = value(i)
  BY <1>1
<1>3. value(0) = Roots(d) /\ \A i \in 1..n : value(i) = Below(d, open, f[i - 1])
  BY DEF value
<1> QED BY <1>2, <1>3

LEMMA RowsBelow ==
    ASSUME NEW d, NEW open, NEW rows
    PROVE  /\ rows \subseteq Below(d, open, rows)
           /\ rows \subseteq d.rows => Below(d, open, rows) \subseteq d.rows
BY DEF Below, Children

\* Every level keeps what the levels above it show.
LEMMA LevelsGrow ==
    ASSUME NEW d, NEW open, NEW n \in Nat, NEW f, Levels(d, open, n, f)
    PROVE  \A j \in 0..n : f[j] \subseteq d.rows /\ \A i \in 0..j : f[i] \subseteq f[j]
<1> DEFINE Good(j) == f[j] \subseteq d.rows /\ \A i \in 0..j : f[i] \subseteq f[j]
           Bad == {j \in 0..n : ~Good(j)}
<1>1. ASSUME Bad # {} PROVE FALSE
  <2>1. PICK j \in Bad : \A k \in Bad : j <= k
    <3>1. Bad \subseteq Nat
      OBVIOUS
    <3> QED BY <1>1, <3>1, LeastNatural
  <2>2. CASE j = 0
    <3>1. f[0] = Roots(d)
      BY LevelAt
    <3>2. f[0] \subseteq d.rows
      BY <3>1 DEF Roots
    <3> QED BY <2>1, <2>2, <3>2
  <2>3. CASE j # 0
    <3>1. j \in 1..n /\ j - 1 \in 0..n /\ j - 1 \notin Bad
      BY <2>1, <2>3
    <3>2. Good(j - 1)
      BY <3>1
    <3>3. f[j] = Below(d, open, f[j - 1])
      BY <3>1, LevelAt
    <3>4. f[j - 1] \subseteq f[j] /\ f[j] \subseteq d.rows
      BY <3>2, <3>3, RowsBelow
    <3>5. ASSUME NEW i \in 0..j PROVE f[i] \subseteq f[j]
      <4>1. CASE i = j
        BY <4>1
      <4>2. CASE i # j
        <5>1. i \in 0..(j - 1)
          BY <3>1, <4>2
        <5> QED BY <5>1, <3>2, <3>4
      <4> QED BY <4>1, <4>2
    <3>6. Good(j)
      BY <3>4, <3>5
    <3> QED BY <2>1, <3>6
  <2> QED BY <2>2, <2>3
<1>2. \A j \in 0..n : Good(j)
  BY <1>1
<1> QED BY <1>2

\* A level that shows nothing new is the last one; before it every level shows
\* one more row at least.
LEMMA LevelsCounted ==
    ASSUME NEW d, NEW open, NEW n \in Nat, NEW f, Levels(d, open, n, f),
           d.rows \subseteq Nodes
    PROVE  \A i \in 0..n : Below(d, open, f[i]) = f[i] \/ Cardinality(f[i]) > i
<1> DEFINE Good(i) == Below(d, open, f[i]) = f[i] \/ Cardinality(f[i]) > i
           Bad == {i \in 0..n : ~Good(i)}
<1>0. \A i \in 0..n : IsFiniteSet(f[i]) /\ Cardinality(f[i]) \in Nat
  BY LevelsGrow, TreeViewAssumption, FS_Subset, FS_CardinalityType
<1>1. ASSUME Bad # {} PROVE FALSE
  <2>1. PICK j \in Bad : \A k \in Bad : j <= k
    <3>1. Bad \subseteq Nat
      OBVIOUS
    <3> QED BY <1>1, <3>1, LeastNatural
  <2>2. CASE j = 0
    <3>1. 0 \in 0..n
      OBVIOUS
    <3>2. CASE f[0] = {}
      <4>1. Below(d, open, f[0]) = f[0]
        BY <3>2 DEF Below
      <4> QED BY <2>1, <2>2, <4>1
    <3>3. CASE f[0] # {}
      <4>1. Cardinality(f[0]) # 0
        BY <1>0, <3>1, <3>3, FS_EmptySet
      <4>2. Cardinality(f[0]) > 0
        BY <4>1, <1>0, <3>1
      <4> QED BY <2>1, <2>2, <4>2
    <3> QED BY <3>2, <3>3
  <2>3. CASE j # 0
    <3>1. j \in 1..n /\ j - 1 \in 0..n /\ j - 1 \notin Bad /\ j \in 0..n
      BY <2>1, <2>3
    <3>2. f[j] = Below(d, open, f[j - 1])
      BY <3>1, LevelAt
    <3>3. CASE Below(d, open, f[j - 1]) = f[j - 1]
      <4>1. Below(d, open, f[j]) = f[j]
        BY <3>2, <3>3
      <4> QED BY <2>1, <4>1
    <3>4. CASE Below(d, open, f[j - 1]) # f[j - 1]
      <4>1. Cardinality(f[j - 1]) > j - 1
        BY <3>1, <3>4
      <4>2. f[j - 1] \subseteq f[j] /\ f[j - 1] # f[j]
        BY <3>2, <3>4, RowsBelow
      <4>3. Cardinality(f[j - 1]) < Cardinality(f[j])
        <5>1. Cardinality(f[j - 1]) <= Cardinality(f[j])
          BY <4>2, <1>0, <3>1, FS_Subset
        <5>2. Cardinality(f[j - 1]) # Cardinality(f[j])
          BY <4>2, <1>0, <3>1, FS_Subset
        <5> QED BY <5>1, <5>2, <1>0, <3>1
      <4>4. Cardinality(f[j]) > j
        BY <4>1, <4>3, <1>0, <3>1
      <4> QED BY <2>1, <4>4
    <3> QED BY <3>3, <3>4
  <2> QED BY <2>2, <2>3
<1>2. \A i \in 0..n : Good(i)
  BY <1>1
<1> QED BY <1>2

\* What is rendered contains the roots and, with an expanded row, its children;
\* it holds nothing but rows of the answer.
LEMMA RenderedFacts ==
    ASSUME NEW d, NEW open, d.rows \subseteq Nodes
    PROVE  /\ Rendered(d, open) \subseteq d.rows
           /\ Roots(d) \subseteq Rendered(d, open)
           /\ \A n \in Rendered(d, open) \cap open : Children(d, n) \subseteq Rendered(d, open)
<1> DEFINE N == Cardinality(Nodes)
<1>1. PICK f : Levels(d, open, N, f) /\ Rendered(d, open) = f[N]
  BY RenderedIs
<1>2. N \in Nat /\ N \in 0..N /\ 0 \in 0..N
  BY NodesCounted
<1>3. f[N] \subseteq d.rows /\ f[0] \subseteq f[N]
  BY <1>1, <1>2, LevelsGrow
<1>4. f[0] = Roots(d)
  BY <1>1, <1>2, LevelAt
<1>5. Below(d, open, f[N]) = f[N]
  <2>1. Cardinality(f[N]) \in Nat /\ Cardinality(f[N]) <= N
    BY <1>3, TreeViewAssumption, FS_Subset, FS_CardinalityType
  <2>2. ~(Cardinality(f[N]) > N)
    BY <2>1, <1>2
  <2>3. Below(d, open, f[N]) = f[N] \/ Cardinality(f[N]) > N
    BY <1>1, <1>2, LevelsCounted
  <2> QED BY <2>2, <2>3
<1> HIDE DEF N
<1>6. \A n \in f[N] \cap open : Children(d, n) \subseteq f[N]
  BY <1>5 DEF Below
<1> QED BY <1>1, <1>3, <1>4, <1>6

\* No row of a set that holds the parent of each of its rows is rendered: by the
\* first level that would show one.
LEMMA CirclesHidden ==
    ASSUME NEW d, NEW open, d.rows \subseteq Nodes, NEW above \in SUBSET d.rows,
           \A a \in above : d.parent[a] \in above
    PROVE  Rendered(d, open) \cap above = {}
<1> DEFINE N == Cardinality(Nodes)
<1>1. PICK f : Levels(d, open, N, f) /\ Rendered(d, open) = f[N]
  BY RenderedIs
<1>2. N \in Nat /\ N \in 0..N
  BY NodesCounted
<1> DEFINE Bad == {i \in 0..N : f[i] \cap above # {}}
<1>3. ASSUME Bad # {} PROVE FALSE
  <2>1. PICK j \in Bad : \A k \in Bad : j <= k
    <3>1. Bad \subseteq Nat
      OBVIOUS
    <3> QED BY <1>3, <3>1, LeastNatural
  <2>2. PICK a \in above : a \in f[j]
    BY <2>1
  <2>3. d.parent[a] \in above /\ d.parent[a] \in Nodes /\ d.parent[a] \in d.rows
    BY <2>2
  <2>4. CASE j = 0
    <3>1. a \in Roots(d)
      BY <2>2, <2>4, <1>1, <1>2, LevelAt
    <3> QED BY <3>1, <2>3, TreeViewAssumption DEF Roots, Orphan
  <2>5. CASE j # 0
    <3>1. j \in 1..N /\ j - 1 \in 0..N /\ j - 1 \notin Bad
      BY <2>1, <2>5, <1>2
    <3>2. f[j] = Below(d, open, f[j - 1])
      BY <1>1, <1>2, <3>1, LevelAt
    <3>3. f[j - 1] \cap above = {}
      BY <3>1
    <3>4. PICK n \in f[j - 1] : a \in Children(d, n)
      BY <2>2, <3>2, <3>3 DEF Below
    <3>5. n \in above
      BY <3>4, <2>3 DEF Children
    <3> QED BY <3>3, <3>4, <3>5
  <2> QED BY <2>4, <2>5
<1>4. f[N] \cap above = {}
  BY <1>2, <1>3
<1> QED BY <1>1, <1>4

\* With every row expanded, what is not rendered is its own ancestor, or below
\* such a row: it has no root above it.
LEMMA CirclesOnly ==
    ASSUME NEW d, d.rows \subseteq Nodes
    PROVE  Rendered(d, Nodes) = {n \in d.rows : ~UnderCircle(d, n)}
<1> DEFINE R == Rendered(d, Nodes)
           above == d.rows \ R
<1>1. R \subseteq d.rows /\ Roots(d) \subseteq R
      /\ \A n \in R \cap Nodes : Children(d, n) \subseteq R
  BY RenderedFacts
<1>2. ASSUME NEW a \in above PROVE d.parent[a] \in above
  <2>1. a \in d.rows /\ a \notin Roots(d)
    BY <1>1
  <2>2. d.parent[a] \in d.rows
    BY <2>1 DEF Roots, Orphan
  <2>3. ASSUME d.parent[a] \in R PROVE FALSE
    <3>1. a \in Children(d, d.parent[a])
      BY <2>1 DEF Children
    <3>2. a \in R
      BY <3>1, <2>2, <2>3, <1>1
    <3> QED BY <3>2
  <2> QED BY <2>2, <2>3
<1>3. ASSUME NEW n \in above PROVE UnderCircle(d, n)
  <2>1. above \in SUBSET d.rows
    OBVIOUS
  <2> QED BY <1>2, <1>3, <2>1 DEF UnderCircle
<1>4. ASSUME NEW n \in R, UnderCircle(d, n) PROVE FALSE
  <2>1. PICK around \in SUBSET d.rows : n \in around /\ \A a \in around : d.parent[a] \in around
    BY <1>4 DEF UnderCircle
  <2>2. Rendered(d, Nodes) \cap around = {}
    BY <2>1, CirclesHidden
  <2> QED BY <2>1, <2>2
<1> HIDE DEF R
<1>5. R = {n \in d.rows : ~UnderCircle(d, n)}
  BY <1>1, <1>3, <1>4
<1> QED BY <1>5 DEF R

\* What the tree on the screen rests on: until the user toggles a row, its roots
\* are among the expanded ones.
RootsAreOpen == mounted /\ HasTree /\ ~touched => Roots(treeData) \subseteq expanded
TreeViewStrong == TreeTypeOK /\ MarkedForCause /\ RootsAreOpen

LEMMA TreeViewStrongSuffices == TreeViewStrong => OrgTreeViewInv
<1> SUFFICES ASSUME TreeViewStrong PROVE OrgTreeViewInv
  OBVIOUS
<1>1. treeData.rows \subseteq Nodes
  BY DEF TreeViewStrong, TreeTypeOK
<1>2. AllButCircles
  BY <1>1, CirclesOnly DEF AllButCircles
<1>3. RootsExpanded
  <2> SUFFICES ASSUME mounted, HasTree, ~touched, NEW n \in Roots(treeData)
               PROVE  Children(treeData, n) \subseteq Shown
    BY DEF RootsExpanded
  <2>1. n \in expanded
    BY DEF TreeViewStrong, RootsAreOpen
  <2>2. n \in Rendered(treeData, expanded)
    BY <1>1, RenderedFacts
  <2>3. Children(treeData, n) \subseteq Rendered(treeData, expanded)
    BY <1>1, <2>1, <2>2, RenderedFacts
  <2> QED BY <2>3 DEF Shown
<1> QED BY <1>2, <1>3 DEF TreeViewStrong, OrgTreeViewInv

LEMMA TreeViewBegins == TreeInit => TreeViewStrong
<1> SUFFICES ASSUME TreeInit PROVE TreeViewStrong
  OBVIOUS
<1>1. moves \in 0..MaxMoves
  BY TreeViewAssumption DEF TreeInit
<1>2. NoTree \in [state : {"loading", "tree", "too many", "error"}, rows : SUBSET Nodes,
                  parent : [Nodes -> Nodes \cup {NoParent}], gone : SUBSET Nodes]
  BY DEF NoTree
<1>3. TreeTypeOK
  BY <1>1, <1>2 DEF TreeInit, TreeTypeOK
<1>4. MarkedForCause /\ RootsAreOpen
  BY DEF TreeInit, MarkedForCause, RootsAreOpen, NoTree, HasTree
<1> QED BY <1>3, <1>4 DEF TreeViewStrong

\* Other data: the roots are added, whatever was there.
LEMMA FollowsOpens ==
    ASSUME TreeViewStrong, NEW d, Follows(d), mounted' = mounted,
           d \in [state : {"loading", "tree", "too many", "error"}, rows : SUBSET Nodes,
                  parent : [Nodes -> Nodes \cup {NoParent}], gone : SUBSET Nodes]
    PROVE  expanded' \subseteq Nodes /\ touched' \in BOOLEAN /\ RootsAreOpen'
<1>1. Roots(d) \subseteq Nodes /\ treeData' = d
  BY DEF Roots, Follows
<1>2. expanded' \subseteq Nodes
  BY <1>1 DEF Follows, TreeViewStrong, TreeTypeOK
<1>3. touched' \in BOOLEAN
  BY DEF Follows, TreeViewStrong, TreeTypeOK
<1>4. ASSUME mounted', HasTree', ~touched' PROVE Roots(d) \subseteq expanded'
  <2>1. mounted /\ d.state = "tree" /\ d.rows # {}
    BY <1>1, <1>4 DEF HasTree
  <2>2. CASE HasTree /\ d = treeData
    <3>1. ~touched /\ expanded' = expanded
      BY <2>1, <2>2, <1>4 DEF Follows
    <3> QED BY <2>1, <2>2, <3>1 DEF TreeViewStrong, RootsAreOpen
  <2>3. CASE ~(HasTree /\ d = treeData)
    BY <2>1, <2>3 DEF Follows
  <2> QED BY <2>2, <2>3
<1> QED BY <1>1, <1>2, <1>3, <1>4 DEF RootsAreOpen

LEMMA TreeViewStep == TreeViewStrong /\ [TreeNext]_treeVars => TreeViewStrong'
<1> SUFFICES ASSUME TreeViewStrong, [TreeNext]_treeVars PROVE TreeViewStrong'
  OBVIOUS
<1> USE DEF TreeViewStrong
<1> DEFINE Data == [state : {"loading", "tree", "too many", "error"}, rows : SUBSET Nodes,
                    parent : [Nodes -> Nodes \cup {NoParent}], gone : SUBSET Nodes]
<1>1. CASE UNCHANGED treeVars
  BY <1>1 DEF treeVars, TreeTypeOK, MarkedForCause, RootsAreOpen, Orphan, HasTree, Roots
<1>2. CASE \E n \in Nodes, p \in Nodes \cup {NoParent}, gone \in BOOLEAN : Move(n, p, gone)
  <2>1. PICK n \in Nodes, p \in Nodes \cup {NoParent}, gone \in BOOLEAN : Move(n, p, gone)
    BY <1>2
  <2>2. moves' \in 0..MaxMoves
    <3>1. moves < MaxMoves /\ moves' = moves + 1
      BY <2>1 DEF Move
    <3>2. moves \in 0..MaxMoves
      BY DEF TreeTypeOK
    <3> QED BY <3>1, <3>2, TreeViewAssumption
  <2>3. orgRow' \in [Nodes -> [parent : Nodes \cup {NoParent}, archived : BOOLEAN]]
    BY <2>1 DEF Move, TreeTypeOK
  <2>4. TreeTypeOK'
    BY <2>1, <2>2, <2>3 DEF Move, TreeTypeOK
  <2>5. MarkedForCause' /\ RootsAreOpen'
    BY <2>1 DEF Move, MarkedForCause, RootsAreOpen, Orphan, HasTree, Roots
  <2> QED BY <2>4, <2>5
<1>3. CASE Count
  BY <1>3 DEF Count, TreeTypeOK, MarkedForCause, RootsAreOpen, Orphan, HasTree, Roots
<1>4. CASE RowsArrive
  <2> DEFINE d == [state |-> "tree", rows |-> NotArchived,
                   parent |-> [n \in Nodes |-> IF n \in NotArchived THEN orgRow[n].parent
                                               ELSE NoParent],
                   gone |-> {n \in Nodes : orgRow[n].archived}]
  <2>1. Follows(d) /\ treeData' = d /\ UNCHANGED <<orgRow, moves, mounted>> /\ treeQuery' = "none"
    BY <1>4 DEF RowsArrive, Follows
  <2>2. d \in Data
    BY DEF NotArchived, TreeTypeOK
  <2>3. RootsAreOpen' /\ expanded' \subseteq Nodes /\ touched' \in BOOLEAN
    BY <2>1, <2>2, FollowsOpens
  <2>4. MarkedForCause'
    <3> SUFFICES ASSUME NEW n \in NotArchived
                 PROVE  /\ n \notin d.gone
                        /\ Orphan(d, n) <=> d.parent[n] \in d.gone
      BY <2>1 DEF MarkedForCause, Orphan
    <3>1. n \in Nodes /\ d.parent[n] = orgRow[n].parent /\ d.parent[n] \in Nodes \cup {NoParent}
      BY DEF NotArchived, TreeTypeOK
    <3>2. n \notin d.gone
      BY DEF NotArchived
    <3>3. Orphan(d, n) <=> d.parent[n] \in d.gone
      BY <3>1, TreeViewAssumption DEF Orphan, NotArchived
    <3> QED BY <3>2, <3>3
  <2>5. TreeTypeOK'
    BY <2>1, <2>2, <2>3 DEF TreeTypeOK
  <2> QED BY <2>3, <2>4, <2>5
<1>5. CASE TooMany \/ TreeFails
  <2>1. PICK d \in {[NoTree EXCEPT !.state = "too many"], [NoTree EXCEPT !.state = "error"]} :
            Follows(d) /\ treeData' = d
    BY <1>5 DEF TooMany, TreeFails, Follows
  <2>2. UNCHANGED <<orgRow, moves, mounted>> /\ treeQuery' = "none"
    BY <1>5 DEF TooMany, TreeFails
  <2>3. d \in Data /\ d.rows = {}
    <3>1. NoTree \in Data /\ NoTree.rows = {}
      BY DEF NoTree
    <3> QED BY <2>1, <3>1
  <2>4. RootsAreOpen' /\ expanded' \subseteq Nodes /\ touched' \in BOOLEAN
    BY <2>1, <2>2, <2>3, FollowsOpens
  <2>5. MarkedForCause'
    BY <2>1, <2>3 DEF MarkedForCause
  <2>6. TreeTypeOK'
    BY <2>1, <2>2, <2>3, <2>4 DEF TreeTypeOK
  <2> QED BY <2>4, <2>5, <2>6
<1>6. CASE ShowTree
  <2>1. Roots(treeData) \subseteq Nodes
    BY DEF TreeTypeOK, Roots
  <2>2. TreeTypeOK'
    BY <1>6, <2>1 DEF ShowTree, TreeTypeOK
  <2>3. MarkedForCause' /\ RootsAreOpen'
    BY <1>6 DEF ShowTree, MarkedForCause, RootsAreOpen, Orphan, HasTree, Roots
  <2> QED BY <2>2, <2>3
<1>7. CASE LeaveTree
  BY <1>7 DEF LeaveTree, TreeTypeOK, MarkedForCause, RootsAreOpen, Orphan, HasTree, Roots
<1>8. CASE FocusTree
  BY <1>8 DEF FocusTree, TreeTypeOK, MarkedForCause, RootsAreOpen, Orphan, HasTree, Roots
<1>9. CASE Redrawn
  <2>1. Roots(treeData) \subseteq Nodes
    BY DEF TreeTypeOK, Roots
  <2>2. TreeTypeOK'
    BY <1>9, <2>1 DEF Redrawn, TreeTypeOK
  <2>3. MarkedForCause' /\ RootsAreOpen'
    BY <1>9 DEF Redrawn, MarkedForCause, RootsAreOpen, Orphan, HasTree, Roots
  <2> QED BY <2>2, <2>3
<1>10. CASE \E n \in Nodes : Toggle(n)
  <2>1. PICK n \in Nodes : Toggle(n)
    BY <1>10
  <2>2. TreeTypeOK' /\ MarkedForCause' /\ RootsAreOpen'
    BY <2>1 DEF Toggle, TreeTypeOK, MarkedForCause, RootsAreOpen, Orphan, HasTree
  <2> QED BY <2>2
<1> QED BY <1>1, <1>2, <1>3, <1>4, <1>5, <1>6, <1>7, <1>8, <1>9, <1>10 DEF TreeNext

(* ------------------------------ AdminLists ------------------------------- *)

\* What is kept or under way under a key is for the filters of that key, and an
\* answer that was read is as new as what the page was told, unless excused.
AnswersKept ==
    /\ \A k \in Filters : Loaded(k) => keptAnswers[k].of = k
    /\ \A k \in Filters : UnderWay(k) => query[k].of = k
    /\ \A k \in Filters : query[k].state = "read" =>
         query[k].at >= listPast.told \/ k \in listPast.excused

\* A text that waits is the one in the box, unless that followed the filters.
BoxKept ==
    /\ display # "list" => searchBox.timer = NoTimer
    /\ searchBox.text = filters.search
         \/ (searchBox.timer # NoTimer /\ searchBox.text = searchBox.timer)

ListStrong ==
    /\ ListTypeOK
    /\ listPast.told <= changes
    /\ rowAction = "asked" => changes < MaxChanges
    /\ AnswersKept /\ ShowsWhatWasTold /\ BoxKept

LEMMA ListStrongSuffices == ListStrong => ListPageInv
<1> SUFFICES ASSUME ListStrong PROVE ListPageInv
  OBVIOUS
<1>1. filters \in Filters
  BY DEF ListStrong, ListTypeOK
<1> QED
  BY <1>1 DEF ListStrong, ListPageInv, AnswersKept, BoxKept, RowsForFilters, BoxForFilters, Key

LEMMA FilterKinds ==
    /\ INITIAL_FILTERS \in Filters
    /\ NoQuery \in [state : {"idle", "asked", "read"}, of : Filters, at : 0..MaxChanges]
    /\ NoQuery.state = "idle"
    /\ Never \notin Answers
    /\ \A f \in Filters :
         /\ Key(f) = f
         /\ AskedWith(f) \in [state : {"idle", "asked", "read"}, of : Filters, at : 0..MaxChanges]
         /\ AskedWith(f).state = "asked" /\ AskedWith(f).of = f
         /\ f.search \in Words \cup {NoWord}
<1>1. INITIAL_FILTERS \in Filters
  BY DEF INITIAL_FILTERS, Filters
<1>2. 0 \in 0..MaxChanges /\ MaxChanges + 1 \notin 0..MaxChanges
  BY ListAssumption
<1>3. Never \notin Answers
  BY <1>2 DEF Never, Answers
<1> QED
  BY <1>1, <1>2, <1>3 DEF NoQuery, Key, AskedWith, Filters

LEMMA ListTypes ==
    ASSUME ListTypeOK
    PROVE  /\ changes \in Nat /\ changes \in 0..MaxChanges
           /\ filters \in Filters
           /\ searchBox \in [text : Words \cup {NoWord}, timer : Words \cup {NoWord, NoTimer}]
           /\ listPast \in [told : 0..MaxChanges, excused : SUBSET Filters]
           /\ listPast.told \in Nat /\ listPast.told \in 0..MaxChanges
           /\ listPast.excused \subseteq Filters
           /\ \A k \in Filters :
                /\ query[k] \in [state : {"idle", "asked", "read"}, of : Filters, at : 0..MaxChanges]
                /\ query[k].of \in Filters /\ query[k].at \in 0..MaxChanges /\ query[k].at \in Nat
                /\ keptAnswers[k] \in Answers \cup {Never}
BY ListAssumption DEF ListTypeOK

LEMMA ListBegins == ListInit => ListStrong
<1> SUFFICES ASSUME ListInit PROVE ListStrong
  OBVIOUS
<1>1. ListTypeOK
  BY FilterKinds, ListAssumption DEF ListInit, ListTypeOK, INITIAL_FILTERS
<1>2. \A k \in Filters : ~Loaded(k)
  BY DEF ListInit, Loaded
<1>3. AnswersKept
  <2>1. ASSUME NEW k \in Filters PROVE /\ UnderWay(k) => query[k].of = k
                                       /\ query[k].state # "read"
    BY FilterKinds DEF ListInit, UnderWay, NoQuery
  <2> QED BY <1>2, <2>1 DEF AnswersKept
<1>4. ShowsWhatWasTold
  BY <1>2, FilterKinds DEF ListInit, ShowsWhatWasTold
<1>5. BoxKept
  BY DEF ListInit, BoxKept, INITIAL_FILTERS
<1> QED BY <1>1, <1>3, <1>4, <1>5, ListAssumption DEF ListInit, ListStrong

\* A request for the filters f, and nothing else, is asked for, or one was
\* under way: what is shown then is not yet the answer.
LEMMA AskForKeeps ==
    ASSUME ListStrong, NEW f \in Filters, AskFor(f), UNCHANGED <<changes, keptAnswers>>
    PROVE  /\ query' \in [Filters -> [state : {"idle", "asked", "read"}, of : Filters,
                                     at : 0..MaxChanges]]
           /\ listPast' \in [told : 0..MaxChanges, excused : SUBSET Filters]
           /\ listPast'.told = listPast.told
           /\ AnswersKept'
           /\ UnderWay(f)'
<1>1. CASE UnderWay(f)
  BY <1>1, FilterKinds, ListTypes DEF AskFor, ListStrong, ListTypeOK, AnswersKept, Loaded, UnderWay
<1>2. CASE ~UnderWay(f)
  <2>1. /\ query' = [query EXCEPT ![f] = AskedWith(f)]
        /\ listPast' = [listPast EXCEPT !.excused = @ \ {f}]
    BY <1>2, FilterKinds DEF AskFor, Asking
  <2>2. /\ listPast' \in [told : 0..MaxChanges, excused : SUBSET Filters]
        /\ listPast'.told = listPast.told /\ listPast'.excused = listPast.excused \ {f}
    BY <2>1, ListTypes DEF ListStrong
  <2>3. query' \in [Filters -> [state : {"idle", "asked", "read"}, of : Filters,
                                at : 0..MaxChanges]]
    BY <2>1, FilterKinds DEF ListStrong, ListTypeOK
  <2>4. /\ query'[f] = AskedWith(f)
        /\ \A k \in Filters \ {f} : query'[k] = query[k]
    BY <2>1 DEF ListStrong, ListTypeOK
  <2>5. AnswersKept'
    <3> SUFFICES ASSUME NEW k \in Filters
                 PROVE  /\ Loaded(k)' => keptAnswers'[k].of = k
                        /\ UnderWay(k)' => query'[k].of = k
                        /\ query'[k].state = "read" =>
                             query'[k].at >= listPast'.told \/ k \in listPast'.excused
      BY DEF AnswersKept
    <3>1. CASE k = f
      BY <3>1, <2>4, FilterKinds DEF ListStrong, AnswersKept, Loaded, UnderWay
    <3>2. CASE k # f
      BY <3>2, <2>4, <2>2 DEF ListStrong, AnswersKept, Loaded, UnderWay
    <3> QED BY <3>1, <3>2
  <2>6. UnderWay(f)'
    BY <2>4, FilterKinds DEF UnderWay
  <2> QED BY <2>2, <2>3, <2>5, <2>6
<1> QED BY <1>1, <1>2

LEMMA SetFiltersKeeps ==
    ASSUME ListStrong, NEW f \in Filters, NEW timer \in Words \cup {NoWord, NoTimer},
           SetFilters(f, timer),
           display # "list" => timer = NoTimer,
           searchBox'.text = f.search \/ (timer # NoTimer /\ searchBox'.text = timer)
    PROVE  ListStrong'
<1>1. f.search \in Words \cup {NoWord} /\ searchBox.text \in Words \cup {NoWord}
  BY FilterKinds, ListTypes DEF ListStrong
<1>2. /\ searchBox' \in [text : Words \cup {NoWord}, timer : Words \cup {NoWord, NoTimer}]
      /\ searchBox'.timer = timer
  BY <1>1 DEF SetFilters
<1>3. BoxKept'
  BY <1>2 DEF SetFilters, BoxKept
<1>4. CASE f = filters
  <2>1. UNCHANGED <<changes, display, filters, keptAnswers, query, rowAction, listPast>>
    BY <1>4 DEF SetFilters
  <2>2. ListTypeOK'
    BY <1>2, <2>1 DEF ListStrong, ListTypeOK
  <2>3. AnswersKept' /\ ShowsWhatWasTold'
    BY <2>1 DEF ListStrong, AnswersKept, ShowsWhatWasTold, Loaded, UnderWay, Key
  <2> QED BY <1>3, <2>1, <2>2, <2>3 DEF ListStrong
<1>5. CASE f # filters
  <2>1. AskFor(f) /\ filters' = f /\ UNCHANGED <<changes, display, keptAnswers, rowAction>>
    BY <1>5 DEF SetFilters
  <2>2. /\ query' \in [Filters -> [state : {"idle", "asked", "read"}, of : Filters,
                                     at : 0..MaxChanges]]
        /\ listPast' \in [told : 0..MaxChanges, excused : SUBSET Filters]
        /\ listPast'.told = listPast.told
        /\ AnswersKept' /\ UnderWay(f)'
    BY <2>1, AskForKeeps
  <2>3. ListTypeOK'
    BY <1>2, <2>1, <2>2 DEF ListStrong, ListTypeOK
  <2>4. ShowsWhatWasTold'
    BY <2>1, <2>2 DEF ShowsWhatWasTold, UnderWay, Key
  <2> QED BY <1>3, <2>1, <2>2, <2>3, <2>4 DEF ListStrong
<1> QED BY <1>4, <1>5

LEMMA FiltersKeep ==
    ASSUME ListStrong,
           TimerFires \/ Reset \/ \E c \in Options \cup {NoWord} : Choose(c)
    PROVE  ListStrong'
<1> USE ListTypes DEF ListStrong
<1>1. CASE TimerFires
  <2> DEFINE f == [filters EXCEPT !.search = searchBox.timer]
  <2>1. searchBox.timer \in Words \cup {NoWord}
    BY <1>1 DEF TimerFires
  <2>2. f \in Filters /\ f.search = searchBox.timer
    BY <2>1 DEF Filters
  <2>3. SetFilters(f, NoTimer)
    BY <1>1 DEF TimerFires
  <2>4. searchBox'.text = f.search
    <3>1. searchBox'.text = IF f.search # filters.search THEN f.search ELSE searchBox.text
      BY <2>3 DEF SetFilters
    <3>2. searchBox.text = filters.search \/ searchBox.text = searchBox.timer
      BY DEF BoxKept
    <3> QED BY <2>2, <3>1, <3>2
  <2> HIDE DEF f
  <2> QED BY <2>2, <2>3, <2>4, SetFiltersKeeps
<1>2. ASSUME NEW f \in Filters, SetFilters(f, searchBox.timer), display = "list"
      PROVE  ListStrong'
  <2>1. searchBox'.text = IF f.search # filters.search THEN f.search ELSE searchBox.text
    BY <1>2 DEF SetFilters
  <2>2. searchBox'.text = f.search
           \/ (searchBox.timer # NoTimer /\ searchBox'.text = searchBox.timer)
    BY <2>1 DEF BoxKept
  <2>3. searchBox.timer \in Words \cup {NoWord, NoTimer}
    OBVIOUS
  <2> QED BY <1>2, <2>2, <2>3, SetFiltersKeeps
<1>3. CASE Reset
  BY <1>2, <1>3, FilterKinds DEF Reset
<1>4. ASSUME NEW c \in Options \cup {NoWord}, Choose(c) PROVE ListStrong'
  <2>1. [filters EXCEPT !.status = c] \in Filters
    BY DEF Filters
  <2> QED BY <2>1, <1>2, <1>4 DEF Choose
<1> QED BY <1>1, <1>3, <1>4

\* Steps that write one answer or one request.
LEMMA QueryKeeps ==
    ASSUME ListStrong, NEW k \in Filters,
           ListRead(k) \/ ListArrives(k) \/ ListFails(k) \/ Forgets(k)
    PROVE  ListStrong'
<1> USE DEF ListStrong
<1> UNCHANGED <<changes, display, filters, searchBox, rowAction>>
  BY DEF ListRead, ListArrives, ListFails, Forgets
<1>1. BoxKept'
  BY DEF BoxKept
<1>2. \A f \in Filters : Key(f) = f
  BY DEF Key
<1>3. CASE ListRead(k)
  <2>1. /\ query[k].state = "asked" /\ UNCHANGED <<keptAnswers, listPast>>
        /\ query' = [query EXCEPT ![k] = [query[k] EXCEPT !.state = "read", !.at = changes]]
    BY <1>3 DEF ListRead, ListTypeOK
  <2>2. [query[k] EXCEPT !.state = "read", !.at = changes]
          \in [state : {"idle", "asked", "read"}, of : Filters, at : 0..MaxChanges]
    BY ListTypes
  <2>3. ListTypeOK'
    BY <2>1, <2>2 DEF ListTypeOK
  <2>4. /\ query'[k].state = "read" /\ query'[k].at = changes /\ query'[k].of = query[k].of
        /\ \A j \in Filters \ {k} : query'[j] = query[j]
    BY <2>1, ListTypes DEF ListTypeOK
  <2>5. AnswersKept'
    BY <2>1, <2>4, ListTypes DEF AnswersKept, Loaded, UnderWay
  <2>6. ShowsWhatWasTold'
    BY <2>1, <2>4, <1>2, ListTypes DEF ShowsWhatWasTold, Loaded, UnderWay
  <2> QED BY <1>1, <2>1, <2>3, <2>5, <2>6
<1>4. CASE ListArrives(k)
  <2> DEFINE answer == [of |-> query[k].of, at |-> query[k].at]
  <2>1. /\ query[k].state = "read" /\ UNCHANGED listPast
        /\ query' = [query EXCEPT ![k] = NoQuery]
        /\ keptAnswers' = [keptAnswers EXCEPT ![k] = answer]
    BY <1>4 DEF ListArrives
  <2>2. answer \in Answers /\ answer.of = query[k].of /\ answer.at = query[k].at
    BY ListTypes DEF Answers
  <2> HIDE DEF answer
  <2>3. ListTypeOK'
    BY <2>1, <2>2, FilterKinds DEF ListTypeOK
  <2>4. /\ query'[k] = NoQuery /\ keptAnswers'[k] = answer
        /\ \A j \in Filters \ {k} : query'[j] = query[j] /\ keptAnswers'[j] = keptAnswers[j]
    BY <2>1 DEF ListTypeOK
  <2>5. AnswersKept'
    BY <2>1, <2>2, <2>4, FilterKinds DEF AnswersKept, Loaded, UnderWay
  <2>6. query[k].at >= listPast.told \/ k \in listPast.excused
    BY <2>1 DEF AnswersKept
  <2>7. ShowsWhatWasTold'
    BY <2>1, <2>2, <2>4, <2>6, <1>2, ListTypes DEF ShowsWhatWasTold, Loaded, UnderWay
  <2> QED BY <1>1, <2>1, <2>3, <2>5, <2>7
<1>5. CASE ListFails(k)
  <2>1. /\ UnderWay(k) /\ UNCHANGED keptAnswers
        /\ query' = [query EXCEPT ![k] = NoQuery]
        /\ listPast' = IF Loaded(k) THEN [listPast EXCEPT !.excused = @ \cup {k}] ELSE Asking(k)
    BY <1>5 DEF ListFails
  <2>2. /\ query'[k] = NoQuery
        /\ \A j \in Filters \ {k} : query'[j] = query[j]
    BY <2>1 DEF ListTypeOK
  <2>3. /\ listPast' \in [told : 0..MaxChanges, excused : SUBSET Filters]
        /\ listPast'.told = listPast.told
        /\ listPast'.excused =
             IF Loaded(k) THEN listPast.excused \cup {k} ELSE listPast.excused \ {k}
    BY <2>1, ListTypes DEF Asking
  <2>4. ListTypeOK'
    BY <2>1, <2>3, FilterKinds DEF ListTypeOK
  <2>5. AnswersKept'
    BY <2>1, <2>2, <2>3, FilterKinds DEF AnswersKept, Loaded, UnderWay
  <2>6. ShowsWhatWasTold'
    BY <2>1, <2>2, <2>3, <1>2, ListTypes DEF ShowsWhatWasTold, Loaded, UnderWay
  <2> QED BY <1>1, <2>3, <2>4, <2>5, <2>6
<1>6. CASE Forgets(k)
  <2>1. /\ ~UnderWay(k) /\ UNCHANGED query
        /\ keptAnswers' = [keptAnswers EXCEPT ![k] = Never]
        /\ listPast' = [listPast EXCEPT !.excused = @ \ {k}]
        /\ display = "list" => k # filters
    BY <1>2, <1>6, ListTypes DEF Forgets, Asking
  <2>2. /\ keptAnswers'[k] = Never
        /\ \A j \in Filters \ {k} : keptAnswers'[j] = keptAnswers[j]
    BY <2>1 DEF ListTypeOK
  <2>3. /\ listPast' \in [told : 0..MaxChanges, excused : SUBSET Filters]
        /\ listPast'.told = listPast.told /\ listPast'.excused = listPast.excused \ {k}
    BY <2>1, ListTypes
  <2>4. ListTypeOK'
    BY <2>1, <2>3 DEF ListTypeOK
  <2>5. AnswersKept'
    BY <2>1, <2>2, <2>3 DEF AnswersKept, Loaded, UnderWay
  <2>6. ShowsWhatWasTold'
    BY <2>1, <2>2, <2>3, <1>2, ListTypes DEF ShowsWhatWasTold, Loaded, UnderWay
  <2> QED BY <1>1, <2>3, <2>4, <2>5, <2>6
<1> QED BY <1>3, <1>4, <1>5, <1>6

\* What the page was told of is what it asks for next.
LEMMA ToldKeeps == ASSUME ListStrong, Told PROVE ListStrong'
<1> USE DEF ListStrong
<1> DEFINE k == filters
           first == UnderWay(k) /\ ~Loaded(k)
<1>1. /\ k \in Filters /\ rowAction' = "none"
      /\ UNCHANGED <<changes, display, filters, searchBox, keptAnswers>>
      /\ query' = IF first THEN query ELSE [query EXCEPT ![k] = AskedWith(filters)]
      /\ listPast' = [told |-> changes, excused |-> {j \in Filters :
                         IF j = k THEN first ELSE UnderWay(j) \/ j \in listPast.excused}]
  BY ListTypes DEF Told, Key
<1>2. /\ UnderWay(k)'
      /\ query' \in [Filters -> [state : {"idle", "asked", "read"}, of : Filters, at : 0..MaxChanges]]
      /\ ~first => query'[k] = AskedWith(k)
      /\ \A j \in Filters \ {k} : query'[j] = query[j]
  <2>1. CASE first
    BY <2>1, <1>1 DEF UnderWay, ListTypeOK
  <2>2. CASE ~first
    BY <2>2, <1>1, FilterKinds DEF UnderWay, ListTypeOK
  <2> QED BY <2>1, <2>2
<1>3. /\ listPast' \in [told : 0..MaxChanges, excused : SUBSET Filters]
      /\ listPast'.told = changes
      /\ \A j \in Filters : j \in listPast'.excused <=>
            IF j = k THEN first ELSE UnderWay(j) \/ j \in listPast.excused
  BY <1>1, ListTypes
<1>4. ListTypeOK'
  BY <1>1, <1>2, <1>3 DEF ListTypeOK
<1>5. AnswersKept'
  <2> SUFFICES ASSUME NEW j \in Filters
               PROVE  /\ Loaded(j)' => keptAnswers'[j].of = j
                      /\ UnderWay(j)' => query'[j].of = j
                      /\ query'[j].state = "read" =>
                           query'[j].at >= listPast'.told \/ j \in listPast'.excused
    BY DEF AnswersKept
  <2>1. CASE j = k /\ first
    BY <2>1, <1>1, <1>3 DEF AnswersKept, Loaded, UnderWay
  <2>2. CASE j = k /\ ~first
    BY <2>2, <1>1, <1>2, FilterKinds DEF AnswersKept, Loaded, UnderWay
  <2>3. CASE j # k
    BY <2>3, <1>1, <1>2, <1>3 DEF AnswersKept, Loaded, UnderWay
  <2> QED BY <2>1, <2>2, <2>3
<1>6. ShowsWhatWasTold'
  BY <1>1, <1>2 DEF ShowsWhatWasTold, UnderWay, Key
<1>7. BoxKept'
  BY <1>1 DEF BoxKept
<1> QED BY <1>1, <1>3, <1>4, <1>5, <1>6, <1>7, ListTypes

\* The box, the view and the menu of a row leave answers and requests alone, but
\* for a list that is shown again.
LEMMA ListPageKeeps ==
    ASSUME ListStrong,
           \/ Focus \/ ReturnToList \/ LeaveList
           \/ \E w \in Words \cup {NoWord} : Type(w)
           \/ ConfirmRowAction \/ CommitRowAction \/ ActionRefused
    PROVE  ListStrong'
<1> USE DEF ListStrong
<1>1. ASSUME AskFor(filters), UNCHANGED <<changes, filters, searchBox, keptAnswers, rowAction>>,
             display' = "list", BoxKept
      PROVE  ListStrong'
  <2>1. /\ query' \in [Filters -> [state : {"idle", "asked", "read"}, of : Filters,
                                     at : 0..MaxChanges]]
        /\ listPast' \in [told : 0..MaxChanges, excused : SUBSET Filters]
        /\ listPast'.told = listPast.told
        /\ AnswersKept' /\ UnderWay(filters)'
    BY <1>1, AskForKeeps, ListTypes
  <2>2. ListTypeOK'
    BY <1>1, <2>1 DEF ListTypeOK
  <2>3. ShowsWhatWasTold'
    BY <1>1, <2>1 DEF ShowsWhatWasTold, UnderWay, Key
  <2>4. BoxKept'
    BY <1>1 DEF BoxKept
  <2> QED BY <1>1, <2>1, <2>2, <2>3, <2>4
<1>2. CASE Focus
  BY <1>1, <1>2 DEF Focus
<1>3. CASE ReturnToList
  BY <1>1, <1>3 DEF ReturnToList
<1>4. ASSUME UNCHANGED <<keptAnswers, query, listPast>>, ListTypeOK', BoxKept',
             changes' \in Nat, changes' >= changes,
             rowAction' = "asked" => changes' < MaxChanges,
             display' # "list" \/ UNCHANGED <<display, filters>>
      PROVE  ListStrong'
  <2>1. AnswersKept' /\ ShowsWhatWasTold'
    BY <1>4 DEF AnswersKept, ShowsWhatWasTold, Loaded, UnderWay, Key
  <2>2. listPast'.told <= changes'
    BY <1>4, ListTypes
  <2> QED BY <1>4, <2>1, <2>2
<1>5. CASE LeaveList
  <2>1. filters' \in Filters /\ filters'.search \in Words \cup {NoWord}
    BY <1>5, ListTypes, FilterKinds DEF LeaveList
  <2>2. searchBox' \in [text : Words \cup {NoWord}, timer : Words \cup {NoWord, NoTimer}]
        /\ searchBox'.text = filters'.search /\ searchBox'.timer = NoTimer
    BY <1>5, <2>1 DEF LeaveList
  <2>3. ListTypeOK' /\ BoxKept'
    BY <1>5, <2>1, <2>2 DEF LeaveList, ListTypeOK, BoxKept
  <2> QED BY <1>4, <1>5, <2>3, ListTypes DEF LeaveList
<1>6. ASSUME NEW w \in Words \cup {NoWord}, Type(w) PROVE ListStrong'
  <2>1. ListTypeOK' /\ BoxKept'
    BY <1>6, ListAssumption DEF Type, ListTypeOK, BoxKept
  <2> QED BY <1>4, <1>6, <2>1, ListTypes DEF Type
<1>7. CASE ConfirmRowAction
  <2>1. ListTypeOK' /\ BoxKept'
    BY <1>7 DEF ConfirmRowAction, ListTypeOK, BoxKept
  <2> QED BY <1>4, <1>7, <2>1, ListTypes DEF ConfirmRowAction
<1>8. CASE CommitRowAction
  <2>1. changes' = changes + 1 /\ changes' \in 0..MaxChanges
    BY <1>8, ListTypes, ListAssumption DEF CommitRowAction
  <2>2. ListTypeOK' /\ BoxKept'
    BY <1>8, <2>1 DEF CommitRowAction, ListTypeOK, BoxKept
  <2> QED BY <1>4, <1>8, <2>1, <2>2, ListTypes DEF CommitRowAction
<1>9. CASE ActionRefused
  <2>1. ListTypeOK' /\ BoxKept'
    BY <1>9 DEF ActionRefused, ListTypeOK, BoxKept
  <2> QED BY <1>4, <1>9, <2>1, ListTypes DEF ActionRefused
<1> QED BY <1>2, <1>3, <1>5, <1>6, <1>7, <1>8, <1>9

LEMMA ListStep == ListStrong /\ [ListNext]_listVars => ListStrong'
<1> SUFFICES ASSUME ListStrong, [ListNext]_listVars PROVE ListStrong'
  OBVIOUS
<1>1. CASE UNCHANGED listVars
  BY <1>1 DEF listVars, ListStrong, ListTypeOK, AnswersKept, ShowsWhatWasTold, BoxKept,
              Loaded, UnderWay, Key
<1> QED BY <1>1, QueryKeeps, FiltersKeep, ToldKeeps, ListPageKeeps DEF ListNext

-----------------------------------------------------------------------------
(* MCServices: a behaviour works with one module, the others stay as they are *)

\* What the three lists know, those that are not chosen of their start.
ListsStrong == CursorStrong /\ TreeViewStrong /\ ListStrong

LEMMA ListsBegin == Init => ListsStrong
BY CursorBegins, TreeViewBegins, ListBegins DEF Init, ListsStrong

\* Seen from any of them, a step is one of its own or changes nothing.
LEMMA ListStepsAlone ==
    ASSUME [Next]_allVars
    PROVE  [CursorNext]_cursorVars /\ [TreeNext]_treeVars /\ [ListNext]_listVars
<1>1. CASE UNCHANGED allVars
  BY <1>1 DEF allVars
<1>2. CASE WithLists
  BY <1>2 DEF WithLists
<1>3. CASE WithTree
  BY <1>3 DEF WithTree
<1>4. CASE WithListPage
  BY <1>4 DEF WithListPage
<1>5. ASSUME ~UNCHANGED allVars, ~WithLists, ~WithTree, ~WithListPage
      PROVE  UNCHANGED <<cursorVars, treeVars, listVars>>
  BY <1>5 DEF Next, WithLimiter, WithInvitations, WithFlags, WithTenants, WithSettings,
     WithConsent, WithForms, WithDialogs, WithNavigation, WithBranches, WithThemes, WithRenames
<1> QED BY <1>1, <1>2, <1>3, <1>4, <1>5

LEMMA ListsStep == ListsStrong /\ [Next]_allVars => ListsStrong'
BY ListStepsAlone, CursorStep, TreeViewStep, ListStep DEF ListsStrong

\* A list that is turned page by page misses or repeats a row only for a cause it
\* names, the tree shows every organization but those of a circle and below one,
\* and a list shows the answer to its filters, as new as what it was told: for any
\* number of rows, pages, organizations and words, whatever others write meanwhile.
THEOREM ListsShowRows == Spec => []ListsInv
<1>1. ListsStrong => ListsInv
  BY CursorStrongSuffices, TreeViewStrongSuffices, ListStrongSuffices DEF ListsStrong, ListsInv
<1>2. Spec => []ListsStrong
  BY ListsBegin, ListsStep, PTL DEF Spec
<1> QED BY <1>1, <1>2, PTL
=============================================================================
