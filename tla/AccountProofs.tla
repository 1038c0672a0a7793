----------------------------- MODULE AccountProofs -----------------------------
(* The invariants of account deletion and of the pages on which users sign  *)
(* in and look after their account, for any number of users, organizations, *)
(* requests and clients.                                                    *)
EXTENDS AccountDeletion, AccountClosing, ProfileForm, MembersPage, MailLinks,
        FiniteSetTheorems, TLAPS

-----------------------------------------------------------------------------
(* AccountDeletion.  AnonymizedForCause is not inductive: what a request or *)
(* the cron read before counts as a cause, so that the history has to cover *)
(* every schedule, every snapshot of the cron and every purge under way.    *)

Has(u, what) == what \subseteq past[u]

ScheduleForCause ==
    \A u \in Users :
        /\ schedule[u] # "none" => Has(u, {"deleted"})
        /\ schedule[u] = "due" => Has(u, {"deleted", "expired"})

CronForCause ==
    cron.pc = "users" => \A u \in cron.todo : Has(u, {"deleted", "expired"})

\* Only a superadmin's request about an organization is of no user of the table
Founded(q) ==
    q # Idle =>
        /\ q.kind \notin {"adminOrgDelete", "adminOrgRestore"} => q.user \in Users
        /\ q.kind = "purge" => Has(q.user, {"deleted", "asked"})

AccountsInv ==
    /\ TypeOK /\ AnonymizedForCause /\ ScheduleForCause /\ CronForCause
    /\ \A r \in Requests : Founded(req[r])

\* What every step keeps that lets the history grow and writes one request.
Grows == \A u \in Users : past[u] \subseteq past'[u]

LEMMA RequestKinds ==
    ASSUME NEW q \in Request
    PROVE  q # Idle /\ q.kind \in AllKinds /\ q.user \in Users \cup {Superadmin}
<1>1. q.kind \in AllKinds /\ Idle.kind = "none"
  BY DEF Request, Idle
<1>2. "none" \notin AllKinds
  BY DEF AllKinds
<1> QED BY <1>1, <1>2 DEF Request

LEMMA OneRequest ==
    ASSUME AccountsInv, NEW r \in Requests, NEW q \in Request \cup {Idle},
           req' = [req EXCEPT ![r] = q], Grows, Founded(q)'
    PROVE  /\ req' \in [Requests -> Request \cup {Idle}]
           /\ \A p \in Requests : Founded(req[p])'
<1>1. req \in [Requests -> Request \cup {Idle}]
  BY DEF AccountsInv, TypeOK
<1>2. ASSUME NEW p \in Requests PROVE Founded(req[p])'
  <2>1. CASE p = r
    BY <2>1, <1>1 DEF Founded, Has
  <2>2. CASE p # r
    <3>1. req'[p] = req[p] /\ Founded(req[p])
      BY <2>2, <1>1 DEF AccountsInv
    <3>2. req[p] # Idle /\ req[p].kind = "purge" => req[p].user \in Users
      BY <3>1 DEF Founded
    <3> QED BY <3>1, <3>2 DEF Founded, Has, Grows
  <2> QED BY <2>1, <2>2
<1> QED BY <1>1, <1>2

\* A request begins.
LEMMA BeginKeeps ==
    ASSUME AccountsInv, NEW r \in Requests, NEW kind \in AllKinds,
           NEW pc \in {"ownership", "target", "select", "write"},
           NEW u \in Users \cup {Superadmin}, NEW orgs \in SUBSET Orgs,
           NEW todo \in Seq(Resolution), Begin(r, kind, pc, u, orgs, todo),
           Grows, past' \in [Users -> SUBSET {"deleted", "expired", "asked"}],
           kind \notin {"adminOrgDelete", "adminOrgRestore"} => u \in Users,
           kind = "purge" => Has(u, {"deleted", "asked"})'
    PROVE  AccountsInv'
<1> DEFINE q == [kind |-> kind, pc |-> pc, user |-> u, orgs |-> orgs, todo |-> todo, next |-> 1]
<1>1. q \in Request /\ q.kind = kind /\ q.user = u
  BY DEF Request
<1>2. Founded(q)'
  BY <1>1 DEF Founded, Has
<1>3. req' = [req EXCEPT ![r] = q] /\ UNCHANGED <<userVars, orgVars, cron>>
  BY DEF Begin
<1> HIDE DEF q
<1>4. req' \in [Requests -> Request \cup {Idle}] /\ \A p \in Requests : Founded(req[p])'
  BY <1>1, <1>2, <1>3, OneRequest
<1>5. TypeOK'
  BY <1>3, <1>4 DEF AccountsInv, TypeOK, userVars, orgVars
<1>6. AnonymizedForCause' /\ ScheduleForCause' /\ CronForCause'
  BY <1>3 DEF AccountsInv, TypeOK, AnonymizedForCause, ScheduleForCause, CronForCause, Grows,
              Has, userVars
<1> QED BY <1>4, <1>5, <1>6 DEF AccountsInv

\* A request goes on with what it knows, or ends, and changes nothing else.
LEMMA MoveKeeps ==
    ASSUME AccountsInv, NEW r \in Requests, NEW q \in Request \cup {Idle},
           req' = [req EXCEPT ![r] = q],
           q # Idle => req[r] # Idle /\ q.kind = req[r].kind /\ q.user = req[r].user,
           UNCHANGED <<userVars, orgVars, cron, past>>
    PROVE  AccountsInv'
<1>1. Grows
  BY DEF Grows
<1>2. Founded(q)'
  BY DEF AccountsInv, Founded, Has
<1>3. req' \in [Requests -> Request \cup {Idle}] /\ \A p \in Requests : Founded(req[p])'
  BY <1>1, <1>2, OneRequest
<1>4. TypeOK'
  BY <1>3 DEF AccountsInv, TypeOK, userVars, orgVars
<1>5. AnonymizedForCause' /\ ScheduleForCause' /\ CronForCause'
  BY DEF AccountsInv, AnonymizedForCause, ScheduleForCause, CronForCause, Has, userVars
<1> QED BY <1>3, <1>4, <1>5 DEF AccountsInv

LEMMA CheckKeeps ==
    ASSUME AccountsInv, NEW r \in Requests, req[r] # Idle, NEW ok,
           NEW pc \in {"ownership", "target", "select", "write"}, Check(r, ok, pc)
    PROVE  AccountsInv'
<1>1. req[r] \in Request
  BY DEF AccountsInv, TypeOK
<1> DEFINE q == [req[r] EXCEPT !.pc = pc]
<1>2. q \in Request /\ q.kind = req[r].kind /\ q.user = req[r].user
  BY <1>1 DEF Request
<1>3. ok => req' = [req EXCEPT ![r] = q]
  BY DEF Check, Goto
<1>4. ~ok => req' = [req EXCEPT ![r] = Idle]
  BY DEF Check, Finish
<1>5. UNCHANGED <<userVars, orgVars, cron, past>>
  BY DEF Check
<1> HIDE DEF q
<1>6. CASE ok
  BY <1>6, <1>2, <1>3, <1>5, MoveKeeps
<1>7. CASE ~ok
  BY <1>7, <1>4, <1>5, MoveKeeps
<1> QED BY <1>6, <1>7

LEMMA NextResolutionKeeps ==
    ASSUME AccountsInv, NEW r \in Requests, req[r] # Idle, NextResolution(r)
    PROVE  AccountsInv'
<1>1. req[r] \in Request
  BY DEF AccountsInv, TypeOK
<1> DEFINE pc == IF req[r].next < Len(req[r].todo) THEN "ownership" ELSE "write"
           q == [req[r] EXCEPT !.next = @ + 1, !.pc = pc]
<1>5. pc \in {"ownership", "write"} /\ req[r].next + 1 \in Nat
  BY <1>1 DEF Request
<1> HIDE DEF pc
<1>2. q \in Request /\ q.kind = req[r].kind /\ q.user = req[r].user
  BY <1>1, <1>5 DEF Request
<1>3. req \in [Requests -> Request \cup {Idle}]
  BY DEF AccountsInv, TypeOK
<1>4. req' = [req EXCEPT ![r] = q] /\ UNCHANGED <<userVars, orgVars, cron, past>>
  BY <1>1, <1>3 DEF NextResolution, pc
<1> HIDE DEF q
<1> QED BY <1>2, <1>4, MoveKeeps

\* The transaction of a request ends it.
LEMMA WriteKeeps ==
    ASSUME AccountsInv, NEW r \in Requests, Finish(r), Grows, UNCHANGED cron,
           schedule' \in [Users -> Schedule], anonymized' \subseteq Users,
           session' \in [Users -> {"stored", "cookie", "none"}],
           orgSchedule' \in [Orgs -> Schedule], orgAnonymized' \subseteq Orgs,
           member' \in [Orgs -> [Users -> Seats]],
           past' \in [Users -> SUBSET {"deleted", "expired", "asked"}],
           ScheduleForCause',
           \A u \in anonymized' \ anonymized :
               "deleted" \in past[u] /\ past[u] \cap {"expired", "asked"} # {}
    PROVE  AccountsInv'
<1>1. Founded(Idle)'
  BY DEF Founded
<1>2. req' \in [Requests -> Request \cup {Idle}] /\ \A p \in Requests : Founded(req[p])'
  BY <1>1, OneRequest DEF Finish
<1>3. TypeOK'
  BY <1>2 DEF AccountsInv, TypeOK
<1>4. AnonymizedForCause'
  BY DEF AccountsInv, AnonymizedForCause, Grows
<1>5. CronForCause'
  <2>1. cron.pc = "users" => cron.todo \subseteq Users
    BY DEF AccountsInv, TypeOK
  <2> QED BY <2>1 DEF AccountsInv, CronForCause, Grows, Has
<1> QED BY <1>2, <1>3, <1>4, <1>5 DEF AccountsInv

LEMMA LogoutType ==
    ASSUME session \in [Users -> {"stored", "cookie", "none"}], NEW u
    PROVE  Logout(u) \in [Users -> {"stored", "cookie", "none"}]
BY DEF Logout

LEMMA AccountsInit == Init => AccountsInv
<1> SUFFICES ASSUME Init PROVE AccountsInv
  OBVIOUS
<1>1. member \in [Orgs -> [Users -> Seats]]
  BY DEF Init, Seats
<1>2. TypeOK
  BY <1>1 DEF Init, TypeOK, Schedule
<1> QED
  BY <1>2 DEF Init, AccountsInv, AnonymizedForCause, ScheduleForCause, CronForCause, Founded

\* The requests that arrive: a purge of a deleted account is asked for.
LEMMA ArriveKeeps ==
    ASSUME AccountsInv, NEW r \in Requests, Arrive(r)
    PROVE  AccountsInv'
<1> USE DEF AllKinds
<1>1. past \in [Users -> SUBSET {"deleted", "expired", "asked"}]
  BY DEF AccountsInv, TypeOK
<1>2. UNCHANGED past => Grows
  BY DEF Grows
<1>3. <<>> \in Seq(Resolution) /\ {} \in SUBSET Orgs /\ Resolutions \subseteq Seq(Resolution)
  BY AccountInputsAssumption
<1>4. ASSUME NEW u \in Users, NEW todo \in Resolutions, DeleteValidate(r, u, todo)
      PROVE  AccountsInv'
  <2>1. ASSUME todo = <<>> PROVE Begin(r, "delete", "write", u, {}, todo)
    BY <1>4, <2>1 DEF DeleteValidate
  <2>2. ASSUME todo # <<>> PROVE Begin(r, "delete", "ownership", u, {}, todo)
    BY <1>4, <2>2 DEF DeleteValidate
  <2>3. todo \in Seq(Resolution) /\ UNCHANGED past
    BY <1>3, <1>4 DEF DeleteValidate
  <2>4. CASE todo = <<>>
    BY <2>1, <2>3, <2>4, <1>1, <1>2, <1>3, BeginKeeps
  <2>5. CASE todo # <<>>
    BY <2>2, <2>3, <2>5, <1>1, <1>2, <1>3, BeginKeeps
  <2> QED BY <2>4, <2>5
<1>5. ASSUME NEW u \in Users, ReactivateArrive(r, u) PROVE AccountsInv'
  <2>1. Begin(r, "reactivate", "write", u, {}, <<>>) /\ UNCHANGED past
    BY <1>5 DEF ReactivateArrive
  <2> QED BY <2>1, <1>1, <1>2, <1>3, BeginKeeps
<1>6. ASSUME NEW u \in Users, PurgeValidate(r, u) PROVE AccountsInv'
  <2>1. Begin(r, "purge", "select", u, {}, <<>>) /\ past' = [past EXCEPT ![u] = @ \cup {"asked"}]
    BY <1>6 DEF PurgeValidate, Remember
  <2>2. Grows /\ past' \in [Users -> SUBSET {"deleted", "expired", "asked"}]
    BY <2>1, <1>1 DEF Grows
  <2>3. Has(u, {"deleted", "asked"})'
    BY <1>1, <1>6, <2>1 DEF PurgeValidate, Deleted, AccountsInv, ScheduleForCause, Has
  <2> QED BY <2>1, <2>2, <2>3, <1>3, BeginKeeps
<1>7. ASSUME NEW u \in Users, AdminDeleteFind(r, u) PROVE AccountsInv'
  <2>1. Begin(r, "adminDelete", "write", u, {}, <<>>) /\ UNCHANGED past
    BY <1>7 DEF AdminDeleteFind
  <2> QED BY <2>1, <1>1, <1>2, <1>3, BeginKeeps
<1>8. ASSUME NEW u \in Users, AdminRestoreFind(r, u) PROVE AccountsInv'
  <2>1. Begin(r, "adminRestore", "write", u, {}, <<>>) /\ UNCHANGED past
    BY <1>8 DEF AdminRestoreFind
  <2> QED BY <2>1, <1>1, <1>2, <1>3, BeginKeeps
<1>9. ASSUME NEW u \in Users, NEW o \in Orgs, OrgDeleteFind(r, u, o) PROVE AccountsInv'
  <2>1. Begin(r, "orgDelete", "ownership", u, {o}, <<>>) /\ UNCHANGED past
    BY <1>9 DEF OrgDeleteFind
  <2> QED BY <2>1, <1>1, <1>2, <1>3, BeginKeeps
<1>10. ASSUME NEW u \in Users, NEW o \in Orgs, OrgReactivateFind(r, u, o) PROVE AccountsInv'
  <2>1. Begin(r, "orgReactivate", "ownership", u, {o}, <<>>) /\ UNCHANGED past
    BY <1>10 DEF OrgReactivateFind
  <2> QED BY <2>1, <1>1, <1>2, <1>3, BeginKeeps
<1>11. ASSUME NEW o \in Orgs, AdminOrgDeleteFind(r, o) PROVE AccountsInv'
  <2>1. Begin(r, "adminOrgDelete", "write", Superadmin, {o}, <<>>) /\ UNCHANGED past
    BY <1>11 DEF AdminOrgDeleteFind
  <2> QED BY <2>1, <1>1, <1>2, <1>3, BeginKeeps
<1>12. ASSUME NEW o \in Orgs, AdminOrgRestoreFind(r, o) PROVE AccountsInv'
  <2>1. Begin(r, "adminOrgRestore", "write", Superadmin, {o}, <<>>) /\ UNCHANGED past
    BY <1>12 DEF AdminOrgRestoreFind
  <2> QED BY <2>1, <1>1, <1>2, <1>3, BeginKeeps
<1> QED
  BY <1>4, <1>5, <1>6, <1>7, <1>8, <1>9, <1>10, <1>11, <1>12 DEF Arrive

\* The statements of a request after its first.
LEMMA ProceedKeeps ==
    ASSUME AccountsInv, NEW r \in Requests, Proceed(r)
    PROVE  AccountsInv'
<1> DEFINE u == req[r].user
<1> USE DEF Schedule
<1>1. /\ schedule \in [Users -> Schedule] /\ anonymized \subseteq Users
      /\ session \in [Users -> {"stored", "cookie", "none"}]
      /\ orgSchedule \in [Orgs -> Schedule] /\ orgAnonymized \subseteq Orgs
      /\ member \in [Orgs -> [Users -> Seats]]
      /\ past \in [Users -> SUBSET {"deleted", "expired", "asked"}]
      /\ req \in [Requests -> Request \cup {Idle}]
  BY DEF AccountsInv, TypeOK
<1>2. ScheduleForCause /\ Founded(req[r])
  BY DEF AccountsInv
<1>3. Logout(u) \in [Users -> {"stored", "cookie", "none"}]
  BY <1>1, LogoutType
<1>4. UNCHANGED past => Grows
  BY DEF Grows
<1>5. ASSUME DeleteVerifyOwnership(r) PROVE AccountsInv'
  <2>1. req[r] # Idle
    BY <1>5 DEF DeleteVerifyOwnership, At
  <2>2. CASE NextResolution(r)
    BY <2>1, <2>2, NextResolutionKeeps
  <2>3. CASE Check(r, Owns(u, Current(r).org), "target")
    BY <2>1, <2>3, CheckKeeps
  <2> QED BY <1>5, <2>2, <2>3 DEF DeleteVerifyOwnership
<1>6. ASSUME DeleteVerifyTarget(r) PROVE AccountsInv'
  <2>1. req[r] # Idle
    BY <1>6 DEF DeleteVerifyTarget, At
  <2>2. CASE NextResolution(r)
    BY <2>1, <2>2, NextResolutionKeeps
  <2>3. CASE Check(r, FALSE, "write")
    BY <2>1, <2>3, CheckKeeps
  <2> QED BY <1>6, <2>2, <2>3 DEF DeleteVerifyTarget
<1>7. ASSUME DeleteCommit(r) PROVE AccountsInv'
  <2>1. past' = [past EXCEPT ![u] = @ \cup {"deleted"}] /\ u \in Users
    BY <1>2, <1>7 DEF DeleteCommit, Remember, Founded, At
  <2>7. member' \in [Orgs -> [Users -> Seats]]
    BY <1>1, <1>7 DEF DeleteCommit, Seats
  <2>2. orgSchedule' \in [Orgs -> Schedule]
    BY <1>1, <1>7 DEF DeleteCommit
  <2>3. schedule' = [schedule EXCEPT ![u] = "pending"]
    BY <1>7 DEF DeleteCommit
  <2>4. schedule' \in [Users -> Schedule] /\ Grows
        /\ past' \in [Users -> SUBSET {"deleted", "expired", "asked"}]
    BY <2>1, <2>3, <1>1 DEF Grows
  <2>5. ScheduleForCause'
    BY <2>1, <2>3, <1>1, <1>2 DEF ScheduleForCause, Has
  <2>6. Finish(r) /\ session' = Logout(u) /\ UNCHANGED <<anonymized, orgAnonymized, cron>>
    BY <1>7 DEF DeleteCommit
  <2> QED BY <2>2, <2>4, <2>5, <2>6, <2>7, <1>1, <1>3, WriteKeeps
<1>8. ASSUME ReactivateWrite(r) \/ AdminRestoreWrite(r) PROVE AccountsInv'
  <2>1. /\ schedule' = [schedule EXCEPT ![u] = "none"] /\ Finish(r)
        /\ UNCHANGED <<anonymized, session, orgVars, cron, past>>
    BY <1>8 DEF ReactivateWrite, AdminRestoreWrite
  <2>2. schedule' \in [Users -> Schedule] /\ ScheduleForCause'
    BY <2>1, <1>1, <1>2 DEF ScheduleForCause, Has
  <2> QED BY <2>1, <2>2, <1>1, <1>4, WriteKeeps DEF orgVars
<1>9. ASSUME PurgeSelectOwned(r) PROVE AccountsInv'
  <2> DEFINE q == [req[r] EXCEPT !.pc = "write",
                                 !.orgs = {o \in Orgs : Owns(u, o) /\ OrgDeleted(o)}]
  <2>1. req[r] \in Request
    BY <1>1, <1>9 DEF PurgeSelectOwned, At
  <2>2. q \in Request /\ q.kind = req[r].kind /\ q.user = req[r].user
    BY <2>1 DEF Request
  <2>3. req' = [req EXCEPT ![r] = q] /\ UNCHANGED <<userVars, orgVars, cron, past>>
    BY <1>1, <1>9 DEF PurgeSelectOwned
  <2>4. req[r] # Idle
    BY <1>9 DEF PurgeSelectOwned, At
  <2> HIDE DEF q
  <2> QED BY <2>2, <2>3, <2>4, MoveKeeps
<1>10. ASSUME PurgeCommit(r) PROVE AccountsInv'
  <2>1. u \in Users /\ Has(u, {"deleted", "asked"})
    BY <1>2, <1>10 DEF PurgeCommit, Founded, At
  <2>2. /\ anonymized' = anonymized \cup {u} /\ session' = Logout(u) /\ Finish(r)
        /\ UNCHANGED <<schedule, orgSchedule, cron, past>>
    BY <1>10 DEF PurgeCommit
  <2>3. req[r] \in Request
    BY <1>1, <1>10 DEF PurgeCommit, At
  <2>4. orgAnonymized' \subseteq Orgs
    BY <2>3, <1>1, <1>10 DEF PurgeCommit, Request
  <2>5. member' \in [Orgs -> [Users -> Seats]]
    BY <1>1, <1>10 DEF PurgeCommit, Seats
  <2>6. ScheduleForCause'
    BY <2>2, <1>2 DEF ScheduleForCause, Has
  <2> QED BY <2>1, <2>2, <2>4, <2>5, <2>6, <1>1, <1>3, <1>4, WriteKeeps DEF Has
<1>11. ASSUME AdminDeleteWrite(r) PROVE AccountsInv'
  <2>1. past' = [past EXCEPT ![u] = @ \cup {"deleted"}] /\ u \in Users
    BY <1>2, <1>11 DEF AdminDeleteWrite, Remember, Founded, At
  <2>2. /\ schedule' = [schedule EXCEPT ![u] = "pending"] /\ Finish(r)
        /\ UNCHANGED <<anonymized, session, orgVars, cron>>
    BY <1>11 DEF AdminDeleteWrite
  <2>3. schedule' \in [Users -> Schedule] /\ Grows
        /\ past' \in [Users -> SUBSET {"deleted", "expired", "asked"}]
    BY <2>1, <2>2, <1>1 DEF Grows
  <2>4. ScheduleForCause'
    BY <2>1, <2>2, <1>1, <1>2 DEF ScheduleForCause, Has
  <2> QED BY <2>2, <2>3, <2>4, <1>1, WriteKeeps DEF orgVars
<1>12. ASSUME OrgCheckOwnership(r) PROVE AccountsInv'
  <2>1. req[r] # Idle /\ Check(r, Owns(u, TheOrg(r)), "write")
    BY <1>12 DEF OrgCheckOwnership, At
  <2> QED BY <2>1, CheckKeeps
<1>13. ASSUME OrgDeleteWrite(r) \/ OrgReactivateWrite(r) PROVE AccountsInv'
  <2>1. /\ Finish(r) /\ UNCHANGED <<userVars, orgAnonymized, member, cron, past>>
        /\ orgSchedule' \in [Orgs -> Schedule]
    BY <1>1, <1>13 DEF OrgDeleteWrite, OrgReactivateWrite
  <2>2. ScheduleForCause'
    BY <2>1, <1>2 DEF ScheduleForCause, Has, userVars
  <2> QED BY <2>1, <2>2, <1>1, <1>4, WriteKeeps DEF userVars
<1> QED
  BY <1>5, <1>6, <1>7, <1>8, <1>9, <1>10, <1>11, <1>12, <1>13 DEF Proceed

\* The cron.
LEMMA CronKeeps ==
    ASSUME AccountsInv, Cron
    PROVE  AccountsInv'
<1>1. TypeOK /\ ScheduleForCause /\ CronForCause
  BY DEF AccountsInv
<1>2. UNCHANGED req
  BY DEF Cron, CronSelectUsers, CronAnonymize, CronSelectOrgs, CronAnonymizeOrg, CronEnd
<1>3. UNCHANGED <<schedule, past>>
  BY DEF Cron, CronSelectUsers, CronAnonymize, CronSelectOrgs, CronAnonymizeOrg, CronEnd, userVars
<1>4. ScheduleForCause' /\ \A r \in Requests : Founded(req[r])'
  BY <1>2, <1>3 DEF AccountsInv, ScheduleForCause, Founded, Has
<1>5. ASSUME CronSelectUsers PROVE AccountsInv'
  <2>1. PICK picked \in SUBSET Users :
          /\ Picked({u \in Users : schedule[u] = "due"}, picked)
          /\ cron' = [pc |-> "users", todo |-> picked \ anonymized]
    BY <1>5 DEF CronSelectUsers
  <2>2. picked \subseteq {u \in Users : schedule[u] = "due"}
    BY <2>1 DEF Picked
  <2>3. CronForCause'
    BY <2>1, <2>2, <1>1, <1>3 DEF CronForCause, ScheduleForCause, Has
  <2>4. UNCHANGED <<userVars, orgVars>>
    BY <1>5 DEF CronSelectUsers
  <2>5. TypeOK'
    BY <2>1, <2>4, <1>1, <1>2, <1>3 DEF TypeOK, userVars, orgVars
  <2>6. AnonymizedForCause'
    BY <2>4, <1>3 DEF AccountsInv, AnonymizedForCause, userVars
  <2> QED BY <2>3, <2>5, <2>6, <1>4 DEF AccountsInv
<1>6. ASSUME NEW u \in Users, CronAnonymize(u) PROVE AccountsInv'
  <2>1. Has(u, {"deleted", "expired"})
    BY <1>1, <1>6 DEF CronAnonymize, CronForCause
  <2>2. cron \in [pc : {"idle", "users"}, todo : SUBSET Users] /\ cron.pc = "users"
    BY <1>1, <1>6 DEF CronAnonymize, TypeOK
  <2>3. /\ anonymized' = anonymized \cup {u} /\ session' = Logout(u)
        /\ cron' = [cron EXCEPT !.todo = @ \ {u}] /\ UNCHANGED orgVars
    BY <1>6 DEF CronAnonymize
  <2>4. cron' \in [pc : {"idle", "users"}, todo : SUBSET Users] /\ cron'.todo \subseteq cron.todo
    BY <2>2, <2>3
  <2>5. CronForCause'
    BY <2>2, <2>4, <1>1, <1>3 DEF CronForCause, Has
  <2>6. session' \in [Users -> {"stored", "cookie", "none"}]
    BY <2>3, <1>1, LogoutType DEF TypeOK
  <2>7. TypeOK'
    BY <2>3, <2>4, <2>6, <1>1, <1>2, <1>3 DEF TypeOK, orgVars
  <2>8. AnonymizedForCause'
    BY <2>1, <2>3, <1>3 DEF AccountsInv, AnonymizedForCause, Has
  <2> QED BY <2>5, <2>7, <2>8, <1>4 DEF AccountsInv
<1>7. ASSUME CronSelectOrgs PROVE AccountsInv'
  <2>1. /\ cron' \in [pc : {"orgs"}, todo : SUBSET Orgs] /\ cron'.pc = "orgs"
        /\ UNCHANGED <<userVars, orgVars>>
    BY <1>7 DEF CronSelectOrgs
  <2>2. TypeOK'
    BY <2>1, <1>1, <1>2, <1>3 DEF TypeOK, userVars, orgVars
  <2> QED BY <2>1, <2>2, <1>3, <1>4 DEF AccountsInv, AnonymizedForCause, CronForCause, userVars
<1>8. ASSUME NEW o \in Orgs, CronAnonymizeOrg(o) PROVE AccountsInv'
  <2>1. cron \in [pc : {"orgs"}, todo : SUBSET Orgs]
    BY <1>1, <1>8 DEF CronAnonymizeOrg, TypeOK
  <2>2. /\ cron' \in [pc : {"orgs"}, todo : SUBSET Orgs] /\ cron'.pc = "orgs"
        /\ orgAnonymized' = orgAnonymized \cup {o} /\ UNCHANGED <<userVars, orgSchedule>>
        /\ member' = [member EXCEPT ![o] = [u \in Users |-> "none"]]
    BY <2>1, <1>8 DEF CronAnonymizeOrg
  <2>4. member' \in [Orgs -> [Users -> Seats]]
    BY <2>2, <1>1 DEF TypeOK, Seats
  <2>3. TypeOK'
    BY <2>2, <2>4, <1>1, <1>2, <1>3 DEF TypeOK, userVars
  <2> QED BY <2>2, <2>3, <1>3, <1>4 DEF AccountsInv, AnonymizedForCause, CronForCause, userVars
<1>9. ASSUME CronEnd PROVE AccountsInv'
  <2>1. cron' = [pc |-> "idle", todo |-> {}] /\ UNCHANGED <<userVars, orgVars>>
    BY <1>9 DEF CronEnd
  <2>2. TypeOK'
    BY <2>1, <1>1, <1>2, <1>3 DEF TypeOK, userVars, orgVars
  <2> QED BY <2>1, <2>2, <1>3, <1>4 DEF AccountsInv, AnonymizedForCause, CronForCause, userVars
<1> QED BY <1>5, <1>6, <1>7, <1>8, <1>9 DEF Cron

\* better-auth, the clock and the end of a process.
LEMMA SurroundingsKeep ==
    ASSUME AccountsInv,
           \/ \E u \in Users : SignIn(u) \/ CookieExpires(u) \/ Expire(u)
           \/ \E o \in Orgs : OrgExpire(o)
           \/ \E r \in Requests : ProcessEnds(r)
    PROVE  AccountsInv'
<1>1. TypeOK /\ ScheduleForCause /\ CronForCause
  BY DEF AccountsInv
<1>2. ASSUME NEW u \in Users, SignIn(u) \/ CookieExpires(u) PROVE AccountsInv'
  <2>1. /\ session' \in [Users -> {"stored", "cookie", "none"}]
        /\ UNCHANGED <<schedule, anonymized, orgVars, req, cron, past>>
    BY <1>1, <1>2 DEF SignIn, CookieExpires, TypeOK
  <2>2. TypeOK'
    BY <2>1, <1>1 DEF TypeOK, orgVars
  <2> QED
    BY <2>1, <2>2 DEF AccountsInv, AnonymizedForCause, ScheduleForCause, CronForCause, Founded, Has
<1>3. ASSUME NEW u \in Users, Expire(u) PROVE AccountsInv'
  <2>1. /\ schedule[u] = "pending" /\ schedule' = [schedule EXCEPT ![u] = "due"]
        /\ past' = [past EXCEPT ![u] = @ \cup {"expired"}]
        /\ UNCHANGED <<anonymized, session, orgVars, req, cron>>
    BY <1>3 DEF Expire, Remember
  <2>2. TypeOK' /\ Grows
    BY <2>1, <1>1 DEF TypeOK, orgVars, Schedule, Grows
  <2>3. ScheduleForCause'
    BY <2>1, <1>1 DEF ScheduleForCause, TypeOK, Has
  <2>4. AnonymizedForCause' /\ CronForCause'
    BY <2>1, <2>2, <1>1 DEF AccountsInv, TypeOK, AnonymizedForCause, CronForCause, Grows, Has
  <2>5. ASSUME NEW r \in Requests PROVE Founded(req[r])'
    <3>1. Founded(req[r]) /\ UNCHANGED req
      BY <2>1 DEF AccountsInv
    <3> QED BY <3>1, <2>2 DEF Founded, Grows, Has
  <2> QED BY <2>2, <2>3, <2>4, <2>5 DEF AccountsInv
<1>4. ASSUME NEW o \in Orgs, OrgExpire(o) PROVE AccountsInv'
  <2>1. /\ orgSchedule' = [orgSchedule EXCEPT ![o] = "due"]
        /\ UNCHANGED <<userVars, orgAnonymized, member, req, cron, past>>
    BY <1>4 DEF OrgExpire
  <2>2. TypeOK'
    BY <2>1, <1>1 DEF TypeOK, userVars, Schedule
  <2> QED
    BY <2>1, <2>2 DEF AccountsInv, AnonymizedForCause, ScheduleForCause, CronForCause, Founded, Has,
                      userVars
<1>5. ASSUME NEW r \in Requests, ProcessEnds(r) PROVE AccountsInv'
  BY <1>5, MoveKeeps DEF ProcessEnds, Finish
<1> QED BY <1>2, <1>3, <1>4, <1>5

LEMMA AccountsNext == AccountsInv /\ [Next]_vars => AccountsInv'
<1> SUFFICES ASSUME AccountsInv, [Next]_vars PROVE AccountsInv'
  OBVIOUS
<1>1. CASE UNCHANGED vars
  BY <1>1 DEF vars, AccountsInv, TypeOK, AnonymizedForCause, ScheduleForCause, CronForCause,
              Founded, Has
<1>2. CASE Next
  BY <1>2, ArriveKeeps, ProceedKeeps, CronKeeps, SurroundingsKeep DEF Next
<1> QED BY <1>1, <1>2

\* The history covers whatever a request or the cron still may act upon.
THEOREM AccountsInvariant == Spec => []AccountsInv
BY AccountsInit, AccountsNext, PTL DEF Spec

\* Nobody's account is overwritten but one that was deleted and whose grace
\* period ran out or whose owner asked for it: for any number of overlapping
\* requests, reactivations and runs of the cron.
THEOREM OverwrittenForCause == Spec => []AnonymizedForCause
<1>1. AccountsInv => AnonymizedForCause
  BY DEF AccountsInv
<1> QED BY <1>1, AccountsInvariant, PTL

-----------------------------------------------------------------------------
(* MembersPage.  What the page mixed up explains whatever a list, a dialog  *)
(* or a request holds of another organization than the page shows.  The     *)
(* bound on the requests needs them to be finite.                           *)

\* the causes of an invitation and of a revocation in the wrong place
InviteMixed == mixed \cap {"roles", "dialog"} # {}
RevokeMixed == mixed \cap {"invitations", "dialog"} # {}

RolesTraced == \A c \in Clubs : roles[c] \in {NoClub, c} \/ "roles" \in mixed
ListTraced == Foreign(invitations, shown) => "invitations" \in mixed
DialogsTraced ==
    /\ invite.open /\ Foreign(invite.role, shown) => InviteMixed
    /\ Foreign(revoking, shown) => RevokeMixed
    /\ shown = NoClub => ~invite.open /\ revoking = NoClub
AskTraced(r) ==
    /\ r.kind = "invite" /\ r.of # r.at => InviteMixed
    /\ r.kind = "revoke" /\ r.of # r.at => RevokeMixed

MembersTyped == MembersTypeOK /\ IsFiniteSet(requests)
MembersTraced ==
    RolesTraced /\ ListTraced /\ DialogsTraced /\ \A r \in requests : AskTraced(r)
MembersStrong == MembersTyped /\ MembersTraced

LEMMA AsksKeeps ==
    ASSUME MembersTyped, NEW r \in PageRequests, Asks(r),
           invite' \in [open : BOOLEAN, role : SomeClub], revoking' \in SomeClub
    PROVE  MembersTyped'
<1>1. requests' = requests \cup {r} /\ Cardinality(requests') <= MaxRequests
  BY DEF Asks
<1>2. IsFiniteSet(requests')
  BY <1>1, FS_AddElement DEF MembersTyped
<1> QED
  BY <1>1, <1>2 DEF Asks, MembersTyped, MembersTypeOK

LEMMA LandsKeeps ==
    ASSUME MembersTyped, NEW r, Lands(r)
    PROVE  /\ requests' \subseteq PageRequests /\ IsFiniteSet(requests')
           /\ Cardinality(requests') <= MaxRequests
           /\ r \in PageRequests
<1>1. requests' = requests \ {r} /\ IsFiniteSet(requests) /\ r \in requests
      /\ requests \subseteq PageRequests /\ Cardinality(requests) <= MaxRequests
  BY DEF Lands, MembersTyped, MembersTypeOK
<1>2. IsFiniteSet(requests') /\ Cardinality(requests') <= Cardinality(requests)
  BY <1>1, FS_Subset
<1>3. Cardinality(requests) \in Nat /\ Cardinality(requests') \in Nat
  BY <1>1, <1>2, FS_CardinalityType
<1> QED BY <1>1, <1>2, <1>3, MembersAssumption

LEMMA MembersNextTyped == MembersTyped /\ [MembersNext]_membersVars => MembersTyped'
<1> SUFFICES ASSUME MembersTyped, [MembersNext]_membersVars PROVE MembersTyped'
  OBVIOUS
<1> USE DEF MembersTypeOK
<1>1. CASE UNCHANGED membersVars
  BY <1>1 DEF membersVars, MembersTyped
<1>2. NoClub \in SomeClub /\ Clubs \subseteq SomeClub
  BY DEF SomeClub
<1>3. shown \in SomeClub /\ (shown # NoClub => shown \in Clubs)
  BY DEF MembersTyped, SomeClub
<1>4. ASSUME NEW c \in SomeClub, SessionMoves(c) PROVE MembersTyped'
  BY <1>4 DEF SessionMoves, MembersTyped
<1>5. ASSUME PageFollows PROVE MembersTyped'
  <2>1. invite' \in [open : BOOLEAN, role : SomeClub] /\ revoking' \in SomeClub
    <3>1. CASE sessionClub = NoClub
      <4>1. invite' = [open |-> FALSE, role |-> NoClub] /\ revoking' = NoClub
        BY <3>1, <1>5 DEF PageFollows
      <4> QED BY <4>1, <1>2
    <3>2. CASE sessionClub # NoClub
      BY <3>2, <1>5 DEF PageFollows, MembersTyped
    <3> QED BY <3>1, <3>2
  <2>2. /\ shown' = sessionClub
        /\ UNCHANGED <<sessionClub, table, roles, invitations, requests>>
    BY <1>5 DEF PageFollows
  <2>3. mixed' \subseteq {"roles", "invitations", "dialog"}
    BY <1>5 DEF PageFollows, When, MembersTyped
  <2> QED BY <2>1, <2>2, <2>3 DEF MembersTyped
<1>6. ASSUME NEW kind \in {"members", "roles", "invitations"}, FetchList(kind) PROVE MembersTyped'
  <2>1. CASE kind = "invitations"
    <3>1. [kind |-> kind] \in PageRequests
      BY <2>1 DEF PageRequests
    <3> QED BY <2>1, <3>1, <1>6, AsksKeeps DEF FetchList, MembersTyped
  <2>2. CASE kind # "invitations"
    <3>1. Asks([kind |-> kind, of |-> shown]) /\ shown \in Clubs
      BY <2>2, <1>3, <1>6 DEF FetchList, Asks
    <3>2. [kind |-> kind, of |-> shown] \in PageRequests
      BY <2>2, <3>1 DEF PageRequests
    <3> QED BY <3>1, <3>2, <1>6, AsksKeeps DEF FetchList, MembersTyped
  <2> QED BY <2>1, <2>2
<1>7. ASSUME OpenInvite \/ ChooseRole \/ CloseInvite PROVE MembersTyped'
  <2>1. invite \in [open : BOOLEAN, role : SomeClub] /\ roles \in [Clubs -> SomeClub]
    BY DEF MembersTyped
  <2>2. CASE OpenInvite
    <3>1. roles[shown] \in SomeClub /\ invite' = [open |-> TRUE, role |-> roles[shown]]
      BY <2>1, <2>2, <1>3 DEF OpenInvite
    <3> QED BY <3>1, <2>2 DEF OpenInvite, MembersTyped
  <2>3. CASE ChooseRole
    <3>1. roles[shown] \in SomeClub /\ invite' = [invite EXCEPT !.role = roles[shown]]
      BY <2>1, <2>3, <1>3 DEF ChooseRole
    <3>2. invite' \in [open : BOOLEAN, role : SomeClub]
      BY <3>1, <2>1
    <3> QED BY <3>2, <2>3 DEF ChooseRole, MembersTyped
  <2>4. CASE CloseInvite
    <3>1. invite' \in [open : BOOLEAN, role : SomeClub]
      BY <2>1, <2>4 DEF CloseInvite
    <3> QED BY <3>1, <2>4 DEF CloseInvite, MembersTyped
  <2> QED BY <2>2, <2>3, <2>4, <1>7
<1>8. ASSUME Invite PROVE MembersTyped'
  <2>1. invite.role \in Clubs /\ shown \in Clubs
    BY <1>3, <1>8 DEF Invite, Asks, MembersTyped, SomeClub
  <2>2. [kind |-> "invite", of |-> invite.role, at |-> shown] \in PageRequests
    BY <2>1 DEF PageRequests
  <2> QED BY <2>2, <1>8, AsksKeeps DEF Invite, MembersTyped
<1>9. ASSUME AskRevoke \/ KeepInvitation PROVE MembersTyped'
  BY <1>2, <1>9 DEF AskRevoke, KeepInvitation, MembersTyped
<1>10. ASSUME Revoke PROVE MembersTyped'
  <2>1. revoking \in Clubs /\ shown \in Clubs
    BY <1>3, <1>10 DEF Revoke, Asks, MembersTyped, SomeClub
  <2>2. [kind |-> "revoke", of |-> revoking, at |-> shown] \in PageRequests
    BY <2>1 DEF PageRequests
  <2> QED BY <2>2, <1>2, <1>10, AsksKeeps DEF Revoke, MembersTyped
<1>11. ASSUME ChangeRole PROVE MembersTyped'
  <2>1. shown \in Clubs /\ table[shown] \in Clubs
    BY <1>3, <1>11 DEF ChangeRole, MembersTyped, SomeClub
  <2>2. [kind |-> "role", of |-> table[shown], at |-> shown] \in PageRequests
    BY <2>1 DEF PageRequests
  <2> QED BY <2>2, <1>11, AsksKeeps DEF ChangeRole, MembersTyped
<1>12. ASSUME NEW r \in requests, ListArrives(r) PROVE MembersTyped'
  <2>1. requests' \subseteq PageRequests /\ IsFiniteSet(requests')
        /\ Cardinality(requests') <= MaxRequests
    BY <1>12, LandsKeeps DEF ListArrives
  <2>2. table' \in [Clubs -> SomeClub] /\ roles' \in [Clubs -> SomeClub] /\ invitations' \in SomeClub
    BY <1>12 DEF ListArrives, MembersTyped
  <2>3. mixed' \subseteq {"roles", "invitations", "dialog"}
    BY <1>12 DEF ListArrives, When, MembersTyped
  <2> QED BY <2>1, <2>2, <2>3, <1>12 DEF ListArrives, MembersTyped
<1>13. ASSUME NEW r \in requests, WriteLands(r) PROVE MembersTyped'
  <2>1. requests' \subseteq PageRequests /\ IsFiniteSet(requests')
        /\ Cardinality(requests') <= MaxRequests
    BY <1>13, LandsKeeps DEF WriteLands
  <2>2. invite' \in [open : BOOLEAN, role : SomeClub] /\ revoking' \in SomeClub
    BY <1>2, <1>13 DEF WriteLands, Settles, MembersTyped
  <2> QED BY <2>1, <2>2, <1>13 DEF WriteLands, MembersTyped
<1>14. ASSUME NEW r \in requests, NEW refused \in BOOLEAN, RequestFails(r, refused)
       PROVE  MembersTyped'
  <2>1. requests' \subseteq PageRequests /\ IsFiniteSet(requests')
        /\ Cardinality(requests') <= MaxRequests
    BY <1>14, LandsKeeps DEF RequestFails
  <2>2. roles' \in [Clubs -> SomeClub] /\ invitations' \in SomeClub /\ revoking' \in SomeClub
    BY <1>2, <1>14 DEF RequestFails, Settles, MembersTyped
  <2> QED BY <2>1, <2>2, <1>14 DEF RequestFails, MembersTyped
<1> QED
  BY <1>1, <1>4, <1>5, <1>6, <1>7, <1>8, <1>9, <1>10, <1>11, <1>12, <1>13, <1>14 DEF MembersNext

\* One step keeps what the page mixed up as the cause of what it holds.
LEMMA MembersNextTraced ==
    MembersTyped /\ MembersTraced /\ [MembersNext]_membersVars => MembersTraced'
<1> SUFFICES ASSUME MembersTyped, MembersTraced, [MembersNext]_membersVars
             PROVE  MembersTraced'
  OBVIOUS
<1> USE DEF MembersTraced
<1>1. /\ roles \in [Clubs -> SomeClub] /\ invite \in [open : BOOLEAN, role : SomeClub]
      /\ (shown # NoClub => shown \in Clubs) /\ requests \subseteq PageRequests
  BY DEF MembersTyped, MembersTypeOK, SomeClub
<1>2. CASE UNCHANGED membersVars
  BY <1>2 DEF membersVars, RolesTraced, ListTraced, DialogsTraced, AskTraced, InviteMixed, RevokeMixed
<1>3. ASSUME NEW c \in SomeClub, SessionMoves(c) PROVE MembersTraced'
  BY <1>3 DEF SessionMoves, RolesTraced, ListTraced, DialogsTraced, AskTraced, InviteMixed, RevokeMixed
<1>4. ASSUME PageFollows PROVE MembersTraced'
  <2>1. mixed \subseteq mixed'
    BY <1>4 DEF PageFollows
  <2>2. RolesTraced'
    BY <2>1, <1>4 DEF PageFollows, RolesTraced
  <2>3. ListTraced'
    BY <1>4 DEF PageFollows, ListTraced, When, Foreign
  <2>4. DialogsTraced'
    <3>1. CASE sessionClub = NoClub
      BY <3>1, <1>4 DEF PageFollows, DialogsTraced, Foreign
    <3>2. CASE sessionClub # NoClub
      <4>1. shown' = sessionClub /\ UNCHANGED <<invite, revoking>>
        BY <3>2, <1>4 DEF PageFollows
      <4>2. invite.open /\ Foreign(invite.role, sessionClub) => "dialog" \in mixed'
        BY <1>4 DEF PageFollows, When
      <4>3. Foreign(revoking, sessionClub) => "dialog" \in mixed'
        BY <1>4 DEF PageFollows, When
      <4>4. invite.open' = invite.open /\ invite.role' = invite.role
        BY <4>1
      <4> QED BY <3>2, <4>1, <4>2, <4>3, <4>4 DEF DialogsTraced, InviteMixed, RevokeMixed
    <3> QED BY <3>1, <3>2
  <2>5. \A r \in requests' : AskTraced(r)'
    BY <2>1, <1>4 DEF PageFollows, AskTraced, InviteMixed, RevokeMixed
  <2> QED BY <2>2, <2>3, <2>4, <2>5
<1>5. ASSUME NEW a, Asks(a), AskTraced(a), invite' = invite, revoking' \in {revoking, NoClub}
      PROVE  MembersTraced'
  <2>1. /\ requests' = requests \cup {a}
        /\ UNCHANGED <<shown, roles, invitations, mixed>>
    BY <1>5 DEF Asks
  <2>2. RolesTraced' /\ ListTraced' /\ DialogsTraced'
    BY <2>1, <1>5 DEF RolesTraced, ListTraced, DialogsTraced, InviteMixed, RevokeMixed, Foreign
  <2>3. \A r \in requests' : AskTraced(r)'
    BY <2>1, <1>5 DEF AskTraced, InviteMixed, RevokeMixed
  <2> QED BY <2>2, <2>3
<1>6. ASSUME NEW kind \in {"members", "roles", "invitations"}, FetchList(kind) PROVE MembersTraced'
  <2> DEFINE a == IF kind = "invitations" THEN [kind |-> kind] ELSE [kind |-> kind, of |-> shown]
  <2>1. a.kind = kind
    OBVIOUS
  <2>2. AskTraced(a)
    BY <2>1 DEF AskTraced
  <2> HIDE DEF a
  <2>3. Asks(a) /\ invite' = invite /\ revoking' = revoking
    BY <1>6 DEF FetchList, a
  <2> QED BY <2>2, <2>3, <1>5
<1>7. ASSUME OpenInvite \/ ChooseRole \/ CloseInvite PROVE MembersTraced'
  <2>1. /\ UNCHANGED <<shown, roles, invitations, revoking, requests, mixed>>
        /\ invite'.open =>
             \/ invite'.role = roles[shown] /\ shown \in Clubs
             \/ invite'.role = invite.role /\ invite.open
        /\ shown = NoClub => ~invite'.open
    BY <1>1, <1>7 DEF OpenInvite, ChooseRole, CloseInvite, DialogsTraced
  <2>2. DialogsTraced'
    BY <2>1 DEF DialogsTraced, RolesTraced, Foreign, InviteMixed, RevokeMixed
  <2>3. RolesTraced' /\ ListTraced' /\ \A r \in requests' : AskTraced(r)'
    BY <2>1 DEF RolesTraced, ListTraced, AskTraced, InviteMixed, RevokeMixed
  <2> QED BY <2>2, <2>3
<1>8. ASSUME Invite PROVE MembersTraced'
  <2> DEFINE a == [kind |-> "invite", of |-> invite.role, at |-> shown]
  <2>1. invite.role # shown => InviteMixed
    BY <1>8 DEF Invite, Asks, DialogsTraced, Foreign
  <2>2. AskTraced(a)
    BY <2>1 DEF AskTraced
  <2> QED BY <2>2, <1>8, <1>5 DEF Invite
<1>9. ASSUME AskRevoke \/ KeepInvitation PROVE MembersTraced'
  <2>1. /\ UNCHANGED <<shown, roles, invitations, invite, requests, mixed>>
        /\ revoking' = NoClub \/ (revoking' = invitations /\ shown # NoClub)
    BY <1>9 DEF AskRevoke, KeepInvitation
  <2> QED
    BY <2>1 DEF RolesTraced, ListTraced, DialogsTraced, AskTraced, InviteMixed, RevokeMixed, Foreign
<1>10. ASSUME Revoke PROVE MembersTraced'
  <2> DEFINE a == [kind |-> "revoke", of |-> revoking, at |-> shown]
  <2>1. revoking # shown => RevokeMixed
    BY <1>10 DEF Revoke, Asks, DialogsTraced, Foreign
  <2>2. AskTraced(a)
    BY <2>1 DEF AskTraced
  <2> QED BY <2>2, <1>10, <1>5 DEF Revoke
<1>11. ASSUME ChangeRole PROVE MembersTraced'
  <2> DEFINE a == [kind |-> "role", of |-> table[shown], at |-> shown]
  <2>1. AskTraced(a)
    BY DEF AskTraced
  <2> QED BY <2>1, <1>11, <1>5 DEF ChangeRole
<1>12. ASSUME NEW r \in requests, ListArrives(r) PROVE MembersTraced'
  <2>1. /\ requests' \subseteq requests /\ mixed \subseteq mixed'
        /\ UNCHANGED <<shown, invite, revoking>>
    BY <1>12 DEF ListArrives, Lands
  <2>2. RolesTraced'
    <3> SUFFICES ASSUME NEW c \in Clubs PROVE roles'[c] \in {NoClub, c} \/ "roles" \in mixed'
      BY DEF RolesTraced
    <3>1. CASE roles'[c] = roles[c]
      BY <3>1, <2>1 DEF RolesTraced
    <3>2. CASE roles'[c] # roles[c]
      <4>1. r.kind = "roles" /\ roles' = [roles EXCEPT ![r.of] = sessionClub]
        BY <3>2, <1>12 DEF ListArrives
      <4>2. r.of = c /\ roles'[c] = sessionClub
        BY <4>1, <3>2, <1>1
      <4>3. r.of # sessionClub => "roles" \in mixed'
        BY <4>1, <1>12 DEF ListArrives, When
      <4> QED BY <4>2, <4>3
    <3> QED BY <3>1, <3>2
  <2>3. ListTraced'
    <3>1. CASE r.kind = "invitations"
      BY <3>1, <2>1, <1>12 DEF ListArrives, ListTraced, When, Foreign
    <3>2. CASE r.kind # "invitations"
      BY <3>2, <2>1, <1>12 DEF ListArrives, ListTraced
    <3> QED BY <3>1, <3>2
  <2>4. DialogsTraced' /\ \A q \in requests' : AskTraced(q)'
    BY <2>1 DEF DialogsTraced, AskTraced, InviteMixed, RevokeMixed
  <2> QED BY <2>2, <2>3, <2>4
<1>13. ASSUME NEW r \in requests, WriteLands(r) PROVE MembersTraced'
  <2>1. /\ requests' \subseteq requests /\ UNCHANGED <<shown, roles, invitations, mixed>>
        /\ revoking' \in {NoClub, revoking}
    BY <1>13 DEF WriteLands, Lands, Settles
  <2>2. invite'.role = invite.role /\ (invite'.open => invite.open)
    BY <1>1, <1>13 DEF WriteLands
  <2>3. DialogsTraced'
    BY <2>1, <2>2 DEF DialogsTraced, InviteMixed, RevokeMixed, Foreign
  <2> QED BY <2>1, <2>3 DEF RolesTraced, ListTraced, AskTraced, InviteMixed, RevokeMixed
<1>14. ASSUME NEW r \in requests, NEW refused \in BOOLEAN, RequestFails(r, refused)
       PROVE  MembersTraced'
  <2>1. /\ requests' \subseteq requests /\ UNCHANGED <<shown, invite, mixed>>
        /\ revoking' \in {NoClub, revoking} /\ invitations' \in {NoClub, invitations}
    BY <1>14 DEF RequestFails, Lands, Settles
  <2>2. \A c \in Clubs : roles'[c] \in {NoClub, roles[c]}
    BY <1>1, <1>14 DEF RequestFails
  <2>3. RolesTraced'
    BY <2>1, <2>2 DEF RolesTraced
  <2>4. ListTraced' /\ DialogsTraced'
    BY <2>1 DEF ListTraced, DialogsTraced, InviteMixed, RevokeMixed, Foreign
  <2> QED BY <2>1, <2>3, <2>4 DEF AskTraced, InviteMixed, RevokeMixed
<1> QED
  BY <1>2, <1>3, <1>4, <1>6, <1>7, <1>8, <1>9, <1>10, <1>11, <1>12, <1>13, <1>14 DEF MembersNext

LEMMA MembersStrongEnough == MembersStrong => MembersInv
<1> SUFFICES ASSUME MembersStrong, NEW r \in requests, WouldAccept(r),
                    ~(r.of = r.at /\ Where(r) = r.at)
             PROVE  \/ r.kind = "invite" /\ mixed \cap {"roles", "dialog"} # {}
                    \/ r.kind = "revoke" /\ mixed \cap {"invitations", "dialog"} # {}
  BY DEF MembersStrong, MembersTyped, MembersInv, LandsWhereShown
<1>1. r.of = Where(r) /\ r.kind \in {"invite", "revoke", "role"}
  BY DEF WouldAccept, Found
<1>2. r.of # r.at
  BY <1>1
<1>3. r.kind # "role"
  BY <1>1, <1>2 DEF Where
<1>4. AskTraced(r)
  BY DEF MembersStrong, MembersTraced
<1> QED BY <1>1, <1>2, <1>3, <1>4 DEF AskTraced, InviteMixed, RevokeMixed

\* Whatever organization the session moves to meanwhile, what the server accepts
\* from the page concerns the organization the page showed at the click: always
\* for a change of role, and for invitations unless the page had mixed two
\* organizations in one of the named ways.
THEOREM MembersLandWhereShown == MembersSpec => []MembersInv
<1>1. MembersInit => MembersStrong
  <2> SUFFICES ASSUME MembersInit PROVE MembersStrong
    OBVIOUS
  <2>1. IsFiniteSet({}) /\ Cardinality({}) = 0
    BY FS_EmptySet
  <2>2. MembersTyped
    BY <2>1, MembersAssumption DEF MembersInit, MembersTyped, MembersTypeOK, SomeClub, Nobody
  <2>3. MembersTraced
    BY DEF MembersInit, MembersTraced, RolesTraced, ListTraced, DialogsTraced, Foreign, Nobody
  <2> QED BY <2>2, <2>3 DEF MembersStrong
<1>2. MembersStrong /\ [MembersNext]_membersVars => MembersStrong'
  BY MembersNextTyped, MembersNextTraced DEF MembersStrong
<1> QED BY <1>1, <1>2, MembersStrongEnough, PTL DEF MembersSpec

-----------------------------------------------------------------------------
(* ProfileForm.  A name is in sync because what an update read is the row,  *)
(* unless the row changed since: then the update knows that it is stale.    *)

ReadIsCurrent ==
    \A u \in Updates :
        update[u].pc = "read" /\ ~update[u].stale =>
            /\ update[u].current.first = row.first /\ update[u].current.last = row.last
            /\ update[u].current.customized = row.customized

ProfileStrong == ProfileInv /\ ReadIsCurrent

Calls == [pc : {"idle", "arrived", "read"}, body : Bodies, current : Fields, stale : BOOLEAN]

LEMMA ProfileKinds ==
    /\ NoName \in Part /\ Names \subseteq Part /\ Custom \in Displays /\ Unknown \in Rows
    /\ NoFields \in Fields /\ NoBody \in Bodies /\ Quiet \in Calls
    /\ Quiet.pc = "idle" /\ ~Quiet.stale /\ ThePage \in Updates /\ Clients \subseteq Updates
<1>1. NoName \in Part /\ Names \subseteq Part /\ Custom \in Displays
  BY DEF Part, Displays
<1>2. Unknown \in Rows /\ NoFields \in Fields /\ NoBody \in Bodies
  BY <1>1 DEF Unknown, Rows, NoFields, Fields, NoBody, Bodies, Absent
<1>3. Quiet \in Calls /\ Quiet.pc = "idle" /\ ~Quiet.stale
  BY <1>2 DEF Quiet, Calls
<1> QED BY <1>1, <1>2, <1>3 DEF Updates

LEMMA SyncedRow == ASSUME NEW form \in Rows PROVE Synced(form) \in Rows
<1>1. <<form.first, form.last>> \in Displays
  BY DEF Rows, Displays
<1> QED BY <1>1 DEF Synced, Composed, Rows

\* Only the page changes.
LEMMA PageKeeps ==
    ASSUME ProfileStrong, NEW state \in {"loading", "loaded", "saving"}, NEW form \in Rows,
           page' = [state |-> state, form |-> form], UNCHANGED <<row, update, given, crossed>>
    PROVE  ProfileStrong'
<1>1. page' \in [state : {"loading", "loaded", "saving"}, form : Rows]
  OBVIOUS
<1> QED
  BY <1>1 DEF ProfileStrong, ProfileInv, ProfileTypeOK, NameInSync, ReadIsCurrent

\* A call moves on and nobody writes.
LEMMA CallKeeps ==
    ASSUME ProfileStrong, NEW u \in Updates, NEW q \in Calls, update' = [update EXCEPT ![u] = q],
           q.pc = "read" =>
               /\ q.current.first = row.first /\ q.current.last = row.last
               /\ q.current.customized = row.customized,
           page' \in [state : {"loading", "loaded", "saving"}, form : Rows],
           UNCHANGED <<row, given, crossed>>
    PROVE  ProfileStrong'
<1>1. update \in [Updates -> Calls]
  BY DEF ProfileStrong, ProfileInv, ProfileTypeOK, Calls
<1>2. update' \in [Updates -> Calls]
  BY <1>1
<1>3. ProfileTypeOK' /\ NameInSync'
  BY <1>2 DEF ProfileStrong, ProfileInv, ProfileTypeOK, NameInSync, Calls
<1>4. ReadIsCurrent'
  BY <1>1 DEF ProfileStrong, ReadIsCurrent
<1> QED BY <1>3, <1>4 DEF ProfileStrong, ProfileInv

LEMMA ArrivesKeeps ==
    ASSUME ProfileStrong, NEW u \in Updates, NEW body \in Bodies, Arrives(u, body),
           page' \in [state : {"loading", "loaded", "saving"}, form : Rows],
           UNCHANGED <<row, given, crossed>>
    PROVE  ProfileStrong'
<1> DEFINE q == [Quiet EXCEPT !.pc = "arrived", !.body = body]
<1>1. q \in Calls /\ q.pc = "arrived"
  BY ProfileKinds DEF Calls, Quiet
<1>2. update' = [update EXCEPT ![u] = q]
  BY DEF Arrives
<1> HIDE DEF q
<1> QED BY <1>1, <1>2, CallKeeps

LEMMA NamedType ==
    ASSUME NEW body \in Bodies, NEW current \in Fields, row \in Rows
    PROVE  /\ Named(body, current).name \in Displays
           /\ Named(body, current).customized \in BOOLEAN
           /\ Or(body.first, row.first) \in Part /\ Or(body.last, row.last) \in Part
<1>1. ASSUME NEW field \in Part \cup {Absent}, NEW old \in Part PROVE Or(field, old) \in Part
  BY DEF Or
<1>2. /\ body.first \in Part \cup {Absent} /\ body.last \in Part \cup {Absent}
      /\ body.name \in Displays \cup {NoDisplay}
      /\ current.first \in Part /\ current.last \in Part /\ current.customized \in BOOLEAN
      /\ row.first \in Part /\ row.last \in Part /\ row.name \in Displays
      /\ row.customized \in BOOLEAN
  BY DEF Bodies, Fields, Rows, Part
<1>3. /\ Or(body.first, row.first) \in Part /\ Or(body.last, row.last) \in Part
      /\ Or(body.first, current.first) \in Part /\ Or(body.last, current.last) \in Part
  BY <1>1, <1>2
<1>4. Composed(Or(body.first, current.first), Or(body.last, current.last)) \in Displays
  BY <1>3 DEF Composed, Displays
<1> QED BY <1>2, <1>3, <1>4 DEF Named

\* The write of an update: what it computed from is the row, or it is stale.
LEMMA WriteProfileKeeps ==
    ASSUME ProfileStrong, NEW u \in Updates, WriteProfile(u)
    PROVE  ProfileStrong'
<1> DEFINE call == update[u]
           n == Named(call.body, call.current)
           new == [first |-> Or(call.body.first, row.first),
                   last |-> Or(call.body.last, row.last),
                   name |-> n.name, customized |-> n.customized]
<1>1. /\ update \in [Updates -> Calls] /\ row \in Rows /\ given \in Displays /\ crossed \in BOOLEAN
      /\ NameInSync
  BY DEF ProfileStrong, ProfileInv, ProfileTypeOK, Calls
<1>2. call \in Calls /\ call.body \in Bodies /\ call.current \in Fields
      /\ call.stale \in BOOLEAN
  BY <1>1 DEF Calls
<1>3. new \in Rows
  BY <1>1, <1>2, NamedType DEF Rows
<1>4. /\ row' = new /\ page' = page
      /\ given' = IF call.body.name # NoDisplay THEN call.body.name ELSE given
      /\ crossed' = (call.stale \/ (crossed /\ call.body.name = NoDisplay))
      /\ update' = Overtaken(u)
      /\ call.pc = "read" \/ (call.pc = "arrived" /\ ~Composes(call.body))
  BY DEF WriteProfile
<1>5. \A w \in Updates : /\ update'[w] \in Calls
                         /\ update'[w].pc = "read" => update'[w].stale
  <2> SUFFICES ASSUME NEW w \in Updates
               PROVE  update'[w] \in Calls /\ (update'[w].pc = "read" => update'[w].stale)
    OBVIOUS
  <2>1. CASE w = u
    BY <2>1, <1>4, ProfileKinds DEF Overtaken
  <2>2. CASE w # u
    BY <2>2, <1>1, <1>4 DEF Overtaken, Calls
  <2> QED BY <2>1, <2>2
<1>6. update' \in [Updates -> Calls] /\ ReadIsCurrent'
  BY <1>4, <1>5 DEF Overtaken, ReadIsCurrent
<1>7. given' \in Displays /\ crossed' \in BOOLEAN
  BY <1>1, <1>2, <1>4 DEF Bodies
<1>8. ProfileTypeOK'
  BY <1>3, <1>4, <1>6, <1>7 DEF ProfileStrong, ProfileInv, ProfileTypeOK, Calls
<1>9. NameInSync'
  <2>1. /\ row'.first = Or(call.body.first, row.first) /\ row'.last = Or(call.body.last, row.last)
        /\ row'.name = n.name /\ row'.customized = n.customized
    BY <1>4
  <2>2. CASE call.body.name # NoDisplay
    BY <2>1, <2>2, <1>4 DEF NameInSync, Named
  <2>3. CASE call.body.name = NoDisplay /\ ~crossed'
    <3>1. ~call.stale /\ ~crossed /\ given' = given
      BY <2>3, <1>4
    <3>2. CASE Composes(call.body)
      <4>1. /\ call.current.first = row.first /\ call.current.last = row.last
            /\ call.current.customized = row.customized
        BY <3>1, <3>2, <1>4 DEF ProfileStrong, ReadIsCurrent
      <4>2. row.customized \in BOOLEAN
        BY <1>1 DEF Rows
      <4>3. CASE row.customized
        BY <2>1, <2>3, <3>1, <4>1, <4>3, <1>1 DEF NameInSync, Named
      <4>4. CASE ~row.customized
        BY <2>1, <2>3, <3>1, <3>2, <4>1, <4>4, <1>1 DEF NameInSync, Named
      <4> QED BY <4>2, <4>3, <4>4
    <3>3. CASE ~Composes(call.body)
      <4>1. call.body.first = Absent /\ call.body.last = Absent
        BY <2>3, <3>3 DEF Composes
      <4>2. row'.first = row.first /\ row'.last = row.last
        BY <2>1, <4>1 DEF Or
      <4>3. row'.name = row.name /\ row'.customized = row.customized
        BY <2>1, <2>3, <3>3 DEF Named
      <4> QED BY <3>1, <4>2, <4>3, <1>1 DEF NameInSync
    <3> QED BY <3>2, <3>3
  <2>4. CASE crossed'
    BY <2>4 DEF NameInSync
  <2> QED BY <2>2, <2>3, <2>4, <1>7
<1> QED BY <1>6, <1>8, <1>9 DEF ProfileStrong, ProfileInv

LEMMA ProfileNextKeeps == ProfileStrong /\ [ProfileNext]_profileVars => ProfileStrong'
<1> SUFFICES ASSUME ProfileStrong, [ProfileNext]_profileVars PROVE ProfileStrong'
  OBVIOUS
<1>1. CASE UNCHANGED profileVars
  BY <1>1 DEF profileVars, ProfileStrong, ProfileInv, ProfileTypeOK, NameInSync, ReadIsCurrent
<1>2. /\ row \in Rows /\ page \in [state : {"loading", "loaded", "saving"}, form : Rows]
      /\ update \in [Updates -> Calls]
  BY DEF ProfileStrong, ProfileInv, ProfileTypeOK, Calls
<1>3. page.form \in Rows /\ page = [state |-> page.state, form |-> page.form]
  BY <1>2
<1>4. ASSUME Load PROVE ProfileStrong'
  BY <1>2, <1>4, SyncedRow, PageKeeps DEF Load
<1>5. ASSUME LoadFails PROVE ProfileStrong'
  <2>1. [Unknown EXCEPT !.name = row.name] \in Rows
    BY <1>2, ProfileKinds DEF Rows, Unknown
  <2> QED BY <2>1, <1>5, PageKeeps DEF LoadFails
<1>6. ASSUME NEW form \in Rows, Edited(form) PROVE ProfileStrong'
  <2>1. page' = [state |-> "loaded", form |-> Synced(form)]
    BY <1>2, <1>6 DEF Edited
  <2> QED BY <2>1, <1>6, SyncedRow, PageKeeps DEF Edited
<1>7. ASSUME NEW m \in Part, EditFirst(m) \/ EditLast(m) PROVE ProfileStrong'
  <2>1. [page.form EXCEPT !.first = m] \in Rows /\ [page.form EXCEPT !.last = m] \in Rows
    BY <1>3 DEF Rows
  <2> QED BY <2>1, <1>6, <1>7 DEF EditFirst, EditLast
<1>8. ASSUME EditName \/ SyncName PROVE ProfileStrong'
  <2>1. /\ [page.form EXCEPT !.name = Custom, !.customized = TRUE] \in Rows
        /\ [page.form EXCEPT !.customized = FALSE] \in Rows
    BY <1>3, ProfileKinds DEF Rows
  <2> QED BY <2>1, <1>6, <1>8 DEF EditName, SyncName
<1>9. ASSUME SaveProfile PROVE ProfileStrong'
  <2> DEFINE body == [first |-> Sent(page.form.first), last |-> Sent(page.form.last),
                      name |-> page.form.name]
  <2>1. body \in Bodies
    BY <1>3 DEF Sent, Bodies, Rows, Part
  <2>2. Arrives(ThePage, body) /\ UNCHANGED <<row, given, crossed>>
        /\ page' \in [state : {"loading", "loaded", "saving"}, form : Rows]
    BY <1>2, <1>9 DEF SaveProfile
  <2> HIDE DEF body
  <2> QED BY <2>1, <2>2, ProfileKinds, ArrivesKeeps
<1>10. ASSUME SaveEnds PROVE ProfileStrong'
  <2>1. page' = [state |-> "loaded", form |-> page.form]
    BY <1>3, <1>10 DEF SaveEnds
  <2> QED BY <2>1, <1>3, <1>10, PageKeeps DEF SaveEnds
<1>11. ASSUME NEW u \in Clients, NEW body \in Bodies, ClientSends(u, body) PROVE ProfileStrong'
  BY <1>2, <1>11, ProfileKinds, ArrivesKeeps DEF ClientSends
<1>12. ASSUME NEW u \in Updates, ReadNames(u) PROVE ProfileStrong'
  <2> DEFINE c == [x \in DOMAIN NoFields |-> row[x]]
             q == [update[u] EXCEPT !.pc = "read", !.current = c]
  <2>1. c.first = row.first /\ c.last = row.last /\ c.customized = row.customized
    BY DEF NoFields
  <2>2. c = [first |-> row.first, last |-> row.last, customized |-> row.customized]
    BY DEF NoFields
  <2>3. c \in Fields
    BY <2>2, <1>2 DEF Fields, Rows
  <2> HIDE DEF c
  <2>4. q \in Calls /\ q.current = c
    BY <2>3, <1>2 DEF Calls
  <2>5. update' = [update EXCEPT ![u] = q] /\ UNCHANGED <<row, page, given, crossed>>
    BY <1>2, <1>12 DEF ReadNames, c
  <2> HIDE DEF q
  <2> QED BY <2>1, <2>4, <2>5, <1>2, CallKeeps
<1>13. ASSUME NEW u \in Updates, RefuseProfile(u) PROVE ProfileStrong'
  BY <1>2, <1>13, ProfileKinds, CallKeeps DEF RefuseProfile
<1> QED
  BY <1>1, <1>4, <1>5, <1>7, <1>8, <1>9, <1>10, <1>11, <1>12, <1>13, WriteProfileKeeps
     DEF ProfileNext

\* The display name follows the names of the row, or is what somebody gave,
\* unless an update was overtaken between its two statements: for any number of
\* names and of clients.
THEOREM NameStaysInSync == ProfileSpec => []ProfileInv
<1>1. ProfileInit => ProfileStrong
  <2> SUFFICES ASSUME ProfileInit PROVE ProfileStrong
    OBVIOUS
  <2>1. ProfileTypeOK
    BY ProfileKinds DEF ProfileInit, ProfileTypeOK, Calls
  <2>2. NameInSync
    BY DEF ProfileInit, NameInSync, Unknown
  <2>3. ReadIsCurrent
    BY ProfileKinds DEF ProfileInit, ReadIsCurrent
  <2> QED BY <2>1, <2>2, <2>3 DEF ProfileStrong, ProfileInv
<1>2. ProfileStrong => ProfileInv
  BY DEF ProfileStrong
<1> QED BY <1>1, <1>2, ProfileNextKeeps, PTL DEF ProfileSpec

-----------------------------------------------------------------------------
(* AccountClosing.  From the moment the page has looked, an organization of *)
(* the user that is in none of its lists came to be his afterwards.         *)

\* The state of the hook as a record
FlowOK(f) ==
    /\ f.stage \in {"idle", "asking", "looking", "choosing", "confirming", "sent"}
    /\ f.listed \subseteq Companies /\ DOMAIN f.owned \subseteq Companies
    /\ \A o \in DOMAIN f.owned : f.owned[o] \subseteq Colleagues
    /\ DOMAIN f.chosen \subseteq DOMAIN f.owned
    /\ \A o \in DOMAIN f.chosen : f.chosen[o] \in f.owned[o] \cup {"delete", Undecided}
    /\ f = [stage |-> f.stage, listed |-> f.listed, owned |-> f.owned, chosen |-> f.chosen]

Mine(o) == rank[o][Me] = "owner" /\ ended[o] = "no"

Settled == flow.stage \in {"choosing", "confirming", "sent"}

OwnedAreKnown ==
    flow.stage = "looking" \/ Settled =>
        \A o \in Companies : Mine(o) => o \in excused \cup flow.listed \cup DOMAIN flow.owned

ChoicesAreKept ==
    /\ Settled => flow.listed = {} /\ DOMAIN flow.chosen = DOMAIN flow.owned
    /\ flow.stage = "confirming" => DOMAIN flow.chosen = {}
    /\ flow.stage = "sent" => Resolved

ClosingProgress ==
    /\ ~closed => OwnedAreKnown /\ ChoicesAreKept /\ \A o \in Companies : ended[o] # "closing"
    /\ closed => flow.stage = "sent" /\ ClosedAsChosen

ClosingStrong == ClosingTypeOK /\ FlowOK(flow) /\ ClosingProgress

LEMMA NothingOK ==
    /\ DOMAIN Nothing = {} /\ FlowOK(NotAsked)
    /\ \A stage \in {"idle", "asking", "confirming"} :
          LET f == [NotAsked EXCEPT !.stage = stage] IN
          FlowOK(f) /\ f.stage = stage /\ f.listed = {} /\ f.owned = Nothing /\ f.chosen = Nothing
<1>1. DOMAIN Nothing = {}
  BY DEF Nothing
<1>2. /\ NotAsked.stage = "idle" /\ NotAsked.listed = {} /\ NotAsked.owned = Nothing
      /\ NotAsked.chosen = Nothing
  BY DEF NotAsked
<1>3. ASSUME NEW stage \in {"idle", "asking", "confirming"}
      PROVE  LET f == [NotAsked EXCEPT !.stage = stage] IN
             FlowOK(f) /\ f.stage = stage /\ f.listed = {} /\ f.owned = Nothing /\ f.chosen = Nothing
  <2> DEFINE f == [NotAsked EXCEPT !.stage = stage]
  <2>1. f = [stage |-> stage, listed |-> {}, owned |-> Nothing, chosen |-> Nothing]
    BY DEF NotAsked
  <2>2. f.stage = stage /\ f.listed = {} /\ f.owned = Nothing /\ f.chosen = Nothing
    BY <2>1
  <2> HIDE DEF f
  <2>3. FlowOK(f)
    BY <2>1, <2>2, <1>1 DEF FlowOK
  <2> QED BY <2>2, <2>3 DEF f
<1>4. FlowOK(NotAsked)
  BY <1>1, <1>2 DEF NotAsked, FlowOK
<1> QED BY <1>1, <1>3, <1>4

\* What the page makes of the organizations it found.
LEMMA LookingOK ==
    ASSUME NEW owned, DOMAIN owned \subseteq Companies,
           \A o \in DOMAIN owned : owned[o] \subseteq Colleagues,
           NEW listed \in SUBSET Companies
    PROVE  LET f == Looking(owned, listed) IN
           /\ FlowOK(f)
           /\ f.stage \in {"looking", "choosing", "confirming"}
           /\ DOMAIN f.owned = DOMAIN owned /\ f.listed = listed
           /\ f.stage \in {"choosing", "confirming"} =>
                  listed = {} /\ DOMAIN f.chosen = DOMAIN f.owned
           /\ f.stage = "confirming" => DOMAIN f.chosen = {}
<1>1. CASE listed # {}
  <2>1. Looking(owned, listed) =
          [stage |-> "looking", listed |-> listed, owned |-> owned, chosen |-> Nothing]
    BY <1>1 DEF Looking
  <2> QED BY <2>1, NothingOK DEF FlowOK
<1>2. CASE listed = {} /\ DOMAIN owned = {}
  <2>1. Looking(owned, listed) = [NotAsked EXCEPT !.stage = "confirming"]
    BY <1>2 DEF Looking, Known
  <2> QED BY <2>1, <1>2, NothingOK
<1>3. CASE listed = {} /\ DOMAIN owned # {}
  <2> DEFINE chosen == [o \in DOMAIN owned |-> "delete"]
  <2>1. Looking(owned, listed) =
          [stage |-> "choosing", listed |-> {}, owned |-> owned, chosen |-> chosen]
    BY <1>3 DEF Looking, Known
  <2>2. DOMAIN chosen = DOMAIN owned /\ \A o \in DOMAIN owned : chosen[o] = "delete"
    OBVIOUS
  <2> HIDE DEF chosen
  <2> QED BY <2>1, <2>2, <1>3 DEF FlowOK
<1> QED BY <1>1, <1>2, <1>3

\* While the account is open, it is enough that the page knows what it owns.
LEMMA OpenKeeps ==
    ASSUME ClosingStrong, ~closed', FlowOK(flow'),
           rank' \in [Companies -> [People -> {"owner", "member", "none"}]],
           ended' \in [Companies -> {"no", "others"}],
           excused' \subseteq Companies, closed' \in BOOLEAN, OwnedAreKnown', ChoicesAreKept'
    PROVE  ClosingStrong'
<1>1. ClosingTypeOK'
  BY DEF ClosingTypeOK, FlowOK
<1> QED BY <1>1 DEF ClosingStrong, ClosingProgress

LEMMA ClosingStep ==
    ASSUME ClosingStrong, ClosingNext
    PROVE  ClosingStrong'
<1>1. /\ rank \in [Companies -> [People -> {"owner", "member", "none"}]]
      /\ ended \in [Companies -> {"no", "others", "closing"}] /\ closed \in BOOLEAN
      /\ excused \subseteq Companies /\ FlowOK(flow)
  BY DEF ClosingStrong, ClosingTypeOK
<1>2. ~closed
  <2> SUFFICES ASSUME closed PROVE FALSE
    BY <1>1
  <2>1. flow.stage = "sent"
    BY DEF ClosingStrong, ClosingProgress
  <2> QED
    BY <2>1 DEF ClosingNext, StartDelete, Complete, Confirm, CancelDelete, CloseAccount,
       RefuseClosing, ListOrganizations, LookUp, Choose, RankChanges, OthersEnd, OthersRestore
<1>3. OwnedAreKnown /\ ChoicesAreKept /\ ended \in [Companies -> {"no", "others"}]
  <2>1. \A o \in Companies : ended[o] # "closing"
    BY <1>2 DEF ClosingStrong, ClosingProgress
  <2> QED BY <2>1, <1>1, <1>2 DEF ClosingStrong, ClosingProgress
<1>4. ASSUME StartDelete PROVE ClosingStrong'
  <2>1. /\ FlowOK(flow') /\ flow'.stage = "asking" /\ excused' = {}
        /\ UNCHANGED <<rank, ended, closed>>
    BY <1>4, NothingOK DEF StartDelete
  <2>2. OwnedAreKnown' /\ ChoicesAreKept'
    BY <2>1 DEF OwnedAreKnown, ChoicesAreKept, Settled
  <2> QED BY <2>1, <2>2, <1>1, <1>2, <1>3, OpenKeeps
<1>5. ASSUME flow' = NotAsked, UNCHANGED <<rank, ended, closed, excused>> PROVE ClosingStrong'
  <2>1. flow'.stage = "idle"
    BY <1>5 DEF NotAsked
  <2>2. OwnedAreKnown' /\ ChoicesAreKept'
    BY <2>1 DEF OwnedAreKnown, ChoicesAreKept, Settled
  <2> QED BY <2>2, <1>1, <1>2, <1>3, <1>5, NothingOK, OpenKeeps
<1>6. ASSUME NEW owned, DOMAIN owned \subseteq Companies,
             \A o \in DOMAIN owned : owned[o] \subseteq Colleagues,
             NEW listed \in SUBSET Companies, flow' = Looking(owned, listed),
             UNCHANGED <<rank, ended, closed>>, excused' \subseteq Companies,
             \A o \in Companies : Mine(o) => o \in excused' \cup listed \cup DOMAIN owned
      PROVE  ClosingStrong'
  <2>1. /\ FlowOK(flow') /\ flow'.stage \in {"looking", "choosing", "confirming"}
        /\ DOMAIN flow'.owned = DOMAIN owned /\ flow'.listed = listed
        /\ flow'.stage \in {"choosing", "confirming"} =>
              listed = {} /\ DOMAIN flow'.chosen = DOMAIN flow'.owned
        /\ flow'.stage = "confirming" => DOMAIN flow'.chosen = {}
    BY <1>6, LookingOK
  <2>2. OwnedAreKnown'
    BY <2>1, <1>6 DEF OwnedAreKnown, Mine
  <2>3. ChoicesAreKept'
    BY <2>1 DEF ChoicesAreKept, Settled
  <2> QED BY <2>1, <2>2, <2>3, <1>1, <1>2, <1>3, <1>6, OpenKeeps
<1>7. ASSUME NEW works \in BOOLEAN, ListOrganizations(works) PROVE ClosingStrong'
  <2> DEFINE mine == {o \in Companies : rank[o][Me] # "none" /\ ended[o] = "no"}
             listed == IF works THEN mine ELSE {}
  <2>1. /\ flow' = Looking(Nothing, listed) /\ excused' = IF works THEN excused ELSE Companies
        /\ UNCHANGED <<rank, ended, closed>>
    BY <1>7 DEF ListOrganizations
  <2>2. \A o \in Companies : Mine(o) => o \in excused' \cup listed \cup DOMAIN Nothing
    BY <2>1 DEF Mine
  <2>3. listed \in SUBSET Companies /\ excused' \subseteq Companies
    BY <2>1, <1>1
  <2> HIDE DEF listed
  <2> QED BY <2>1, <2>2, <2>3, <1>6, NothingOK
<1>8. ASSUME NEW o \in Companies, NEW outcome \in {"answer", "error", "exception"},
             LookUp(o, outcome)
      PROVE  ClosingStrong'
  <2>1. /\ flow.stage = "looking" /\ o \in flow.listed /\ flow.listed \subseteq Companies
        /\ DOMAIN flow.owned \subseteq Companies
        /\ \A x \in DOMAIN flow.owned : flow.owned[x] \subseteq Colleagues
        /\ UNCHANGED <<rank, ended, closed>>
    BY <1>1, <1>8 DEF LookUp, FlowOK
  <2>2. \A x \in Companies : Mine(x) => x \in excused \cup flow.listed \cup DOMAIN flow.owned
    BY <2>1, <1>3 DEF OwnedAreKnown
  <2>3. flow.listed \ {o} \in SUBSET Companies
    BY <2>1
  <2>4. CASE outcome = "answer" /\ rank[o][Me] = "owner"
    <3> DEFINE owned == Add(flow.owned, o)
    <3>1. flow' = Looking(owned, flow.listed \ {o}) /\ excused' = excused
      BY <2>4, <1>8 DEF LookUp
    <3>2. /\ DOMAIN owned = DOMAIN flow.owned \cup {o}
          /\ \A x \in DOMAIN owned : owned[x] \subseteq Colleagues
      BY <2>1 DEF Add, Heirs
    <3> HIDE DEF owned
    <3>3. \A x \in Companies : Mine(x) => x \in excused' \cup (flow.listed \ {o}) \cup DOMAIN owned
      BY <2>2, <3>1, <3>2
    <3>4. DOMAIN owned \subseteq Companies
      BY <2>1, <3>2
    <3> QED BY <2>1, <2>3, <3>1, <3>2, <3>3, <3>4, <1>1, <1>6
  <2>5. CASE outcome = "answer" /\ rank[o][Me] # "owner"
    <3>1. flow' = Looking(flow.owned, flow.listed \ {o}) /\ excused' = excused
      BY <2>5, <1>8 DEF LookUp
    <3>2. \A x \in Companies :
             Mine(x) => x \in excused' \cup (flow.listed \ {o}) \cup DOMAIN flow.owned
      BY <2>2, <2>5, <3>1 DEF Mine
    <3> QED BY <2>1, <2>3, <3>1, <3>2, <1>1, <1>6
  <2>6. CASE outcome = "error"
    <3>1. flow' = Looking(flow.owned, flow.listed \ {o}) /\ excused' = excused \cup {o}
      BY <2>6, <1>8 DEF LookUp
    <3>2. \A x \in Companies :
             Mine(x) => x \in excused' \cup (flow.listed \ {o}) \cup DOMAIN flow.owned
      BY <2>2, <3>1
    <3>3. excused' \subseteq Companies
      BY <3>1, <1>1
    <3> QED BY <2>1, <2>3, <3>1, <3>2, <3>3, <1>6
  <2>7. CASE outcome = "exception"
    <3>1. flow' = Known(Nothing) /\ excused' = Companies
      BY <2>7, <1>8 DEF LookUp
    <3>2. flow' = Looking(Nothing, {})
      BY <3>1 DEF Looking
    <3> QED BY <2>1, <3>1, <3>2, <1>6, NothingOK
  <2> QED BY <2>4, <2>5, <2>6, <2>7
<1>9. ASSUME NEW o \in Companies, NEW choice \in Choices, Choose(o, choice) PROVE ClosingStrong'
  <2> DEFINE chosen == [flow.chosen EXCEPT ![o] = choice]
  <2>1. /\ flow' = [flow EXCEPT !.chosen = chosen] /\ flow.stage = "choosing"
        /\ o \in DOMAIN flow.chosen /\ choice \in flow.owned[o] \cup {"delete", Undecided}
        /\ UNCHANGED <<rank, ended, closed, excused>>
    BY <1>9 DEF Choose
  <2>2. /\ DOMAIN chosen = DOMAIN flow.chosen
        /\ \A x \in DOMAIN chosen : chosen[x] = IF x = o THEN choice ELSE flow.chosen[x]
    OBVIOUS
  <2> HIDE DEF chosen
  <2>3. /\ flow'.stage = "choosing" /\ flow'.listed = flow.listed /\ flow'.owned = flow.owned
        /\ flow'.chosen = chosen
        /\ flow' = [stage |-> flow'.stage, listed |-> flow'.listed, owned |-> flow'.owned,
                    chosen |-> flow'.chosen]
    BY <2>1, <1>1 DEF FlowOK
  <2>4. FlowOK(flow')
    BY <2>1, <2>2, <2>3, <1>1 DEF FlowOK
  <2>5. OwnedAreKnown' /\ ChoicesAreKept'
    BY <2>1, <2>2, <2>3, <1>3 DEF OwnedAreKnown, ChoicesAreKept, Settled, Mine
  <2> QED BY <2>1, <2>4, <2>5, <1>1, <1>2, <1>3, OpenKeeps
<1>10. ASSUME flow.stage = "choosing" \/ flow.stage = "confirming",
              flow.stage = "choosing" => Resolved,
              flow' = [flow EXCEPT !.stage = "sent"], UNCHANGED <<rank, ended, closed, excused>>
       PROVE  ClosingStrong'
  <2>1. /\ flow'.stage = "sent" /\ flow'.listed = flow.listed /\ flow'.owned = flow.owned
        /\ flow'.chosen = flow.chosen
        /\ flow' = [stage |-> flow'.stage, listed |-> flow'.listed, owned |-> flow'.owned,
                    chosen |-> flow'.chosen]
    BY <1>1, <1>10 DEF FlowOK
  <2>2. FlowOK(flow')
    BY <2>1, <1>1 DEF FlowOK
  <2>3. OwnedAreKnown'
    BY <2>1, <1>3, <1>10 DEF OwnedAreKnown, Settled, Mine
  <2>4. Resolved
    <3>1. CASE flow.stage = "confirming"
      BY <3>1, <1>3 DEF ChoicesAreKept, Resolved
    <3> QED BY <3>1, <1>10
  <2>5. ChoicesAreKept'
    BY <2>1, <2>4, <1>3, <1>10 DEF ChoicesAreKept, Settled, Resolved
  <2> QED BY <2>2, <2>3, <2>5, <1>1, <1>2, <1>3, <1>10, OpenKeeps
<1>11. ASSUME Complete PROVE ClosingStrong'
  BY <1>5, <1>10, <1>11 DEF Complete
<1>12. ASSUME Confirm PROVE ClosingStrong'
  BY <1>10, <1>12 DEF Confirm
<1>13. ASSUME CancelDelete \/ RefuseClosing PROVE ClosingStrong'
  BY <1>5, <1>13 DEF CancelDelete, RefuseClosing
<1>14. ASSUME CloseAccount PROVE ClosingStrong'
  <2>1. /\ flow.stage = "sent" /\ closed' = TRUE /\ UNCHANGED <<flow, excused>>
        /\ \A o \in Companies : GivenAway(o) => rank'[o] = [rank[o] EXCEPT ![flow.chosen[o]] = "owner"]
        /\ \A o \in Companies : ~GivenAway(o) => rank'[o] = rank[o]
        /\ \A o \in Companies :
              ended'[o] = IF o \in DOMAIN flow.chosen /\ flow.chosen[o] = "delete" THEN "closing"
                          ELSE ended[o]
    BY <1>14 DEF CloseAccount
  <2>2. /\ DOMAIN flow.chosen = DOMAIN flow.owned /\ flow.listed = {}
        /\ \A o \in DOMAIN flow.chosen :
              flow.chosen[o] # Undecided /\ (flow.chosen[o] # "delete" => flow.chosen[o] \in Colleagues)
    <3>1. Settled /\ ChoicesAreKept
      BY <2>1, <1>3 DEF Settled
    <3> QED BY <2>1, <3>1, <1>1 DEF ChoicesAreKept, FlowOK, Resolved
  <2>3. rank' \in [Companies -> [People -> {"owner", "member", "none"}]]
    BY <1>1, <1>14 DEF CloseAccount
  <2>4. ended' \in [Companies -> {"no", "others", "closing"}]
    BY <1>1, <1>14 DEF CloseAccount
  <2>5. ClosingTypeOK'
    BY <2>1, <2>3, <2>4, <1>1 DEF ClosingTypeOK, FlowOK
  <2>6. ASSUME NEW o \in Companies, rank'[o][Me] = "owner", ended'[o] = "no", o \notin excused
        PROVE  GivenAway(o) /\ rank'[o][flow.chosen[o]] = "owner"
    <3>1. rank[o][Me] = "owner"
      <4>1. CASE GivenAway(o)
        <5>1. flow.chosen[o] \in Colleagues
          BY <2>2, <4>1 DEF GivenAway
        <5>2. flow.chosen[o] # Me /\ Me \in People
          BY <5>1, ClosingAssumption DEF People
        <5>3. rank'[o] = [rank[o] EXCEPT ![flow.chosen[o]] = "owner"]
          BY <2>1, <4>1
        <5>4. rank[o] \in [People -> {"owner", "member", "none"}]
          BY <1>1
        <5> QED BY <2>6, <5>2, <5>3, <5>4
      <4>2. CASE ~GivenAway(o)
        BY <2>1, <2>6, <4>2
      <4> QED BY <4>1, <4>2
    <3>2. ended[o] = "no"
      BY <2>1, <2>6, <1>1
    <3>3. o \in DOMAIN flow.chosen
      BY <2>1, <2>2, <2>6, <3>1, <3>2, <1>3 DEF OwnedAreKnown, Settled, Mine
    <3>4. GivenAway(o)
      BY <2>1, <2>6, <3>3 DEF GivenAway
    <3>5. flow.chosen[o] \in People
      BY <2>2, <3>3, <3>4 DEF GivenAway, People
    <3>6. rank'[o] = [rank[o] EXCEPT ![flow.chosen[o]] = "owner"]
      BY <2>1, <3>4
    <3>7. rank[o] \in [People -> {"owner", "member", "none"}]
      BY <1>1
    <3> QED BY <3>4, <3>5, <3>6, <3>7
  <2>7. ASSUME NEW o \in Companies, ended'[o] = "closing"
        PROVE  o \in DOMAIN flow.chosen /\ flow.chosen[o] = "delete"
    BY <2>1, <2>7, <1>3
  <2>8. ClosedAsChosen'
    BY <2>1, <2>6, <2>7 DEF ClosedAsChosen, GivenAway
  <2> QED BY <2>1, <2>5, <2>8, <1>1 DEF ClosingStrong, ClosingProgress
<1>15. ASSUME NEW o \in Companies, NEW p \in People, NEW r \in {"owner", "member", "none"},
              RankChanges(o, p, r)
       PROVE  ClosingStrong'
  <2>1. /\ rank' = [rank EXCEPT ![o] = [rank[o] EXCEPT ![p] = r]]
        /\ excused' = IF p = Me /\ r = "owner" /\ Looked(o) THEN excused \cup {o} ELSE excused
        /\ UNCHANGED <<ended, closed, flow>>
    BY <1>15 DEF RankChanges
  <2>2. rank' \in [Companies -> [People -> {"owner", "member", "none"}]]
    BY <2>1, <1>1
  <2>3. ASSUME NEW x \in Companies, Mine(x)', ~Mine(x) PROVE x = o /\ p = Me /\ r = "owner"
    BY <2>1, <2>3, <1>1 DEF Mine, People
  <2>4. OwnedAreKnown'
    BY <2>1, <2>3, <1>3 DEF OwnedAreKnown, Settled, Looked
  <2>5. ChoicesAreKept' /\ FlowOK(flow') /\ excused' \subseteq Companies
    BY <2>1, <1>1, <1>3 DEF ChoicesAreKept, Settled, Resolved
  <2> QED BY <2>1, <2>2, <2>4, <2>5, <1>1, <1>2, <1>3, OpenKeeps
<1>16. ASSUME NEW o \in Companies, OthersEnd(o) \/ OthersRestore(o) PROVE ClosingStrong'
  <2>1. /\ ended' \in [Companies -> {"no", "others"}] /\ UNCHANGED <<rank, closed, flow>>
        /\ \A x \in Companies : x # o => ended'[x] = ended[x]
    BY <1>3, <1>16 DEF OthersEnd, OthersRestore
  <2>2. /\ ended'[o] = "no" /\ Looked(o) => o \in excused'
        /\ excused \subseteq excused' /\ excused' \subseteq Companies
    BY <1>1, <1>16 DEF OthersEnd, OthersRestore
  <2>3. OwnedAreKnown'
    BY <2>1, <2>2, <1>3 DEF OwnedAreKnown, Settled, Looked, Mine
  <2>4. ChoicesAreKept' /\ FlowOK(flow')
    BY <2>1, <1>1, <1>3 DEF ChoicesAreKept, Settled, Resolved
  <2> QED BY <2>1, <2>2, <2>3, <2>4, <1>1, <1>2, OpenKeeps
<1> QED
  BY <1>4, <1>7, <1>8, <1>9, <1>11, <1>12, <1>13, <1>14, <1>15, <1>16 DEF ClosingNext

LEMMA ClosingNextKeeps == ClosingStrong /\ [ClosingNext]_closingVars => ClosingStrong'
<1>1. ASSUME ClosingStrong, UNCHANGED closingVars PROVE ClosingStrong'
  BY <1>1 DEF closingVars, ClosingStrong, ClosingTypeOK, ClosingProgress, OwnedAreKnown,
     ChoicesAreKept, Settled, Resolved, Mine, ClosedAsChosen, GivenAway
<1> QED BY <1>1, ClosingStep

\* The account is only closed with a choice for every organization it still
\* owns, unless the page could not know that one: for any number of
\* organizations and colleagues, and whatever the others do meanwhile.
THEOREM NoOrganizationForgotten == ClosingSpec => []ClosingInv
<1>1. ClosingInit => ClosingStrong
  <2> SUFFICES ASSUME ClosingInit PROVE ClosingStrong
    OBVIOUS
  <2>1. /\ FlowOK(flow) /\ flow.stage = "idle" /\ flow.listed = {} /\ flow.owned = Nothing
        /\ flow.chosen = Nothing
    BY NothingOK DEF ClosingInit, NotAsked
  <2>2. ClosingTypeOK
    BY <2>1 DEF ClosingInit, ClosingTypeOK, FlowOK
  <2>3. ClosingProgress
    BY <2>1 DEF ClosingInit, ClosingProgress, OwnedAreKnown, ChoicesAreKept, Settled
  <2> QED BY <2>1, <2>2, <2>3 DEF ClosingStrong
<1>2. ClosingStrong => ClosingInv
  BY DEF ClosingStrong, ClosingInv, ClosingProgress, ClosedAsChosen
<1> QED BY <1>1, <1>2, ClosingNextKeeps, PTL DEF ClosingSpec

-----------------------------------------------------------------------------
(* MailLinks.  A page only says what its request was answered, and a        *)
(* session is only replaced when the page could not have seen it, because   *)
(* of what is known of every request under way and of the one link that is  *)
(* being followed.                                                          *)

\* What is known of a request, whatever page the tab shows by now.
WellAsked(q) ==
    /\ ~Lost(q)
    /\ q.ask = "useLink" => q.at # "nowhere"
    /\ q.ask = "verify" =>
          /\ q.link \in Link /\ q.to = q.link.to
          /\ q.answer = "ok" => standing[q.to] = "verified"
          /\ q.at = "page" => mailTab.link = q.link
    /\ q.ask \in {"resendLink", "magicLink", "requestReset"} => q.to \in Addresses
    /\ q.ask \in {"resendLink", "magicLink"} /\ q.answer = "ok" => q.mailed
    /\ q.answer = "unverified" => q.ask = "signIn" /\ q.mailed

OneLeaves == \A p, q \in asked : p.ask = "useLink" /\ q.ask = "useLink" => p = q

\* The session is the one the page saw, or the page knows that it moved.
SteadyForCause ==
    /\ Leaving => mailTab.saw \in {NoSession, "pending"}
    /\ mailTab.steady /\ mailTab.page = "/magic-link/verify" /\ ~Leaving =>
          mailTab.saw \in {"pending", sessionCookie}
    /\ mailTab.steady /\ (\E q \in asked : q.ask = "useLink" /\ q.answer = "waiting") =>
          sessionCookie = NoSession

MailStrong ==
    /\ MailLinkInv /\ OneLeaves /\ SteadyForCause
    /\ mailTab.said = "verified" => mailTab.link \in Link
    /\ \A q \in asked : WellAsked(q)

LEMMA MailPages ==
    /\ {"/dashboard", "/login", "/magic-link-sent", "/verify-email", "/magic-link/verify",
        "/reset-password/confirm"} \subseteq AllPages
    /\ {"verify", "useLink", "provider"} \subseteq Askable
    /\ FlagOf["provider"] = "oauthLoading"
<1>1. /\ {"register", "signIn", "magicLink", "resend", "setPassword", "verify", "useLink",
          "provider"} \subseteq Askable
      /\ PageOf["signIn"] = "/login" /\ PageOf["resendLink"] = "/magic-link-sent"
      /\ PageOf["verify"] = "/verify-email" /\ PageOf["useLink"] = "/magic-link/verify"
      /\ PageOf["setPassword"] = "/reset-password/confirm" /\ "resendLink" \in Askable
  BY DEF Askable, PageOf
<1>2. {"/login", "/magic-link-sent", "/verify-email", "/magic-link/verify",
       "/reset-password/confirm"} \subseteq AllPages
  BY <1>1 DEF AllPages
<1>3. "/dashboard" \in AllPages
  BY DEF AllPages
<1>4. FlagOf["provider"] = "oauthLoading"
  BY <1>1 DEF FlagOf
<1> QED BY <1>1, <1>2, <1>3, <1>4

LEMMA MailParts ==
    ASSUME MailStrong
    PROVE  /\ standing \in [Addresses -> {"unknown", "unverified", "verified"}]
           /\ mailbox \subseteq Link /\ sessionCookie \in Someone \cup {NoSession}
           /\ mailTab \in MailTabs /\ asked \subseteq MailCalls /\ ~replaced
           /\ replaced \in BOOLEAN /\ \A q \in asked : WellAsked(q)
BY DEF MailStrong, MailLinkInv, MailTypeOK, SessionKept

LEMMA OutgoingIs ==
    ASSUME NEW a \in Askable, NEW to \in Someone \cup {NoSession}, NEW link \in Link \cup {NoLink}
    PROVE  LET q == Outgoing(a, to, link) IN
           /\ q \in MailCalls /\ q.ask = a /\ q.to = to /\ q.link = link
           /\ q.answer = "waiting" /\ ~q.mailed /\ q.at = "page" /\ ~Lost(q)
BY DEF Outgoing, MailCalls, Lost

LEMMA FreshPageIs ==
    ASSUME NEW opened \in AllPages, NEW link \in Link \cup {NoLink}
    PROVE  FreshPage(opened, link) \in MailTabs
<1>1. 0 \in 0..Cooldown
  BY MailAssumption
<1> QED BY <1>1 DEF FreshPage, MailTabs

LEMMA LinkIs == ASSUME NEW link \in Link PROVE link.to \in Addresses /\ link # NoLink
<1>1. link.kind \in {"verify", "magic", "reset"} /\ link.to \in Addresses
  BY DEF Link
<1> QED BY <1>1 DEF NoLink

\* The requests a change of the page leaves behind.
LEMMA BehindIs ==
    ASSUME NEW at \in {"app", "nowhere"}, NEW left \in SUBSET MailCalls, NEW p \in Behind(at, left)
    PROVE  /\ p \in MailCalls /\ ~Lost(p) /\ p.at \in {"app", "nowhere"}
           /\ \E q \in left :
                 /\ p = [q EXCEPT !.at = IF q.at = "nowhere" THEN q.at ELSE at]
                 /\ p.ask = q.ask /\ p.to = q.to /\ p.link = q.link /\ p.answer = q.answer
                 /\ p.mailed = q.mailed
                 /\ at = "app" /\ q.at # "nowhere" => p.at = "app"
<1>1. ~Lost(p) /\ \E q \in left : p = [q EXCEPT !.at = IF q.at = "nowhere" THEN q.at ELSE at]
  BY DEF Behind
<1>2. PICK q \in left : p = [q EXCEPT !.at = IF q.at = "nowhere" THEN q.at ELSE at]
  BY <1>1
<1>3. q \in MailCalls
  OBVIOUS
<1>4. /\ p \in MailCalls /\ p.ask = q.ask /\ p.to = q.to /\ p.link = q.link
      /\ p.answer = q.answer /\ p.mailed = q.mailed /\ p.at \in {"app", "nowhere"}
      /\ at = "app" /\ q.at # "nowhere" => p.at = "app"
  BY <1>2, <1>3 DEF MailCalls
<1> QED BY <1>1, <1>2, <1>4

LEMMA GoKeeps ==
    ASSUME MailStrong, NEW opened \in AllPages, NEW link \in Link \cup {NoLink}, NEW who,
           NEW at \in {"app", "nowhere"}, NEW left \in SUBSET asked,
           NEW said \in {"nothing", "error"},
           at = "nowhere" => \A q \in left : q.ask # "useLink",
           Go(opened, link, who, Behind(at, left), said),
           sessionCookie' \in {sessionCookie, NoSession},
           UNCHANGED <<standing, mailbox, replaced>>
    PROVE  MailStrong'
<1> DEFINE there == IF opened \in GuestOnly /\ who # NoSession THEN "/dashboard" ELSE opened
           verifies == there = "/verify-email" /\ link # NoLink
           fresh == FreshPage(there, link)
           says == IF there = "/verify-email" /\ ~verifies THEN "error" ELSE said
           first == Outgoing("verify", link.to, link)
<1>1. /\ mailTab' = [fresh EXCEPT !.steady = Leaving => mailTab.steady, !.said = says]
      /\ asked' = Behind(at, left) \cup (IF verifies THEN {first} ELSE {})
  BY DEF Go
<1>2. left \subseteq MailCalls /\ asked \subseteq MailCalls
  BY MailParts
<1>3. /\ fresh \in MailTabs /\ fresh.page = there /\ fresh.link = link /\ fresh.saw = "pending"
      /\ fresh.busy = {}
  BY MailPages, FreshPageIs DEF FreshPage
<1>4. says \in {"nothing", "error"} /\ (Leaving => mailTab.steady) \in BOOLEAN
  OBVIOUS
<1> HIDE DEF fresh, says
<1>5. /\ mailTab' \in MailTabs /\ mailTab'.page = there /\ mailTab'.link = link
      /\ mailTab'.saw = "pending" /\ mailTab'.busy = {} /\ mailTab'.said \in {"nothing", "error"}
      /\ mailTab'.steady = (Leaving => mailTab.steady)
  BY <1>1, <1>3, <1>4 DEF MailTabs
<1>6. verifies => /\ link \in Link /\ first \in MailCalls /\ first.ask = "verify"
                  /\ first.to = link.to /\ first.link = link /\ first.answer = "waiting"
                  /\ ~Lost(first)
  <2> SUFFICES ASSUME verifies PROVE /\ link \in Link /\ first \in MailCalls
                                     /\ first.ask = "verify" /\ first.to = link.to
                                     /\ first.link = link /\ first.answer = "waiting"
                                     /\ ~Lost(first)
    OBVIOUS
  <2>1. link \in Link /\ link.to \in Someone \cup {NoSession}
    BY LinkIs DEF Someone
  <2> QED BY <2>1, MailPages, OutgoingIs
<1> HIDE DEF first
<1>7. ASSUME NEW p \in asked' PROVE p \in MailCalls /\ WellAsked(p)'
  <2>1. CASE p \in Behind(at, left)
    <3>1. /\ p \in MailCalls /\ ~Lost(p) /\ p.at \in {"app", "nowhere"}
      BY <2>1, <1>2, BehindIs
    <3>2. PICK q \in left :
             /\ p.ask = q.ask /\ p.to = q.to /\ p.link = q.link /\ p.answer = q.answer
             /\ p.mailed = q.mailed /\ (at = "app" /\ q.at # "nowhere" => p.at = "app")
      BY <2>1, <1>2, BehindIs
    <3>3. WellAsked(q)
      BY <3>2, MailParts
    <3> QED BY <3>1, <3>2, <3>3 DEF WellAsked
  <2>2. CASE verifies /\ p = first
    BY <2>2, <1>5, <1>6 DEF WellAsked
  <2> QED BY <2>1, <2>2, <1>1, <1>7
<1>8. ASSUME NEW p \in asked', p.ask = "useLink"
      PROVE  \E q \in left : p.ask = q.ask /\ p.answer = q.answer
                 /\ p = [q EXCEPT !.at = IF q.at = "nowhere" THEN q.at ELSE at]
  <2>1. p \in Behind(at, left)
    BY <1>1, <1>6, <1>8
  <2> QED BY <2>1, <1>2, BehindIs
<1>9. OneLeaves'
  BY <1>8 DEF MailStrong, OneLeaves
<1>10. SteadyForCause'
  <2>1. ASSUME mailTab'.steady, NEW p \in asked', p.ask = "useLink", p.answer = "waiting"
        PROVE  sessionCookie' = NoSession
    <3>1. PICK q \in left : q.ask = "useLink" /\ q.answer = "waiting"
      BY <1>8, <2>1
    <3>2. Leaving /\ mailTab.steady
      BY <3>1, <2>1, <1>5 DEF Leaving
    <3> QED BY <3>1, <3>2 DEF MailStrong, SteadyForCause
  <2> QED BY <2>1, <1>5 DEF SteadyForCause
<1>11. sessionCookie' \in Someone \cup {NoSession}
  BY MailParts
<1>12. MailTypeOK'
  BY <1>5, <1>7, <1>11, MailParts DEF MailTypeOK
<1>13. SaidForCause' /\ VerifiedForCause' /\ BusyForCause' /\ SessionKept'
  BY <1>5, MailParts DEF SaidForCause, VerifiedForCause, BusyForCause, SessionKept
<1> QED BY <1>5, <1>7, <1>9, <1>10, <1>12, <1>13 DEF MailStrong, MailLinkInv

\* A request a button sends
NewlyAsked(q) ==
    /\ q.ask \notin {"useLink", "verify"} /\ q.answer = "waiting"
    /\ q.ask \notin {"signIn", "resend"} => q.to \in Addresses

\* Steps that neither open a page nor move the session.
LEMMA SameTabKeeps ==
    ASSUME MailStrong, UNCHANGED <<standing, mailbox, sessionCookie, replaced>>,
           mailTab' \in MailTabs, mailTab'.page = mailTab.page, mailTab'.link = mailTab.link,
           mailTab'.saw = mailTab.saw, mailTab'.steady = mailTab.steady,
           asked' \subseteq MailCalls,
           \A q \in asked' : q \in asked \/ NewlyAsked(q),
           \A q \in asked : q.ask = "useLink" => q \in asked',
           SaidForCause', BusyForCause',
           mailTab'.said = "verified" =>
               mailTab'.link \in Link /\ standing'[mailTab'.link.to] = "verified"
    PROVE  MailStrong'
<1>1. MailTypeOK' /\ SessionKept' /\ VerifiedForCause'
  BY MailParts DEF MailTypeOK, SessionKept, VerifiedForCause
<1>2. OneLeaves'
  BY DEF MailStrong, OneLeaves, NewlyAsked
<1>3. Leaving' <=> Leaving
  BY DEF Leaving, NewlyAsked
<1>4. SteadyForCause'
  BY <1>3 DEF MailStrong, SteadyForCause, NewlyAsked
<1>5. ASSUME NEW q \in asked' PROVE WellAsked(q)'
  <2>1. CASE q \in asked
    BY <2>1, MailParts DEF WellAsked
  <2>2. CASE NewlyAsked(q)
    BY <2>2 DEF NewlyAsked, WellAsked, Lost
  <2> QED BY <2>1, <2>2
<1> QED BY <1>1, <1>2, <1>4, <1>5 DEF MailStrong, MailLinkInv

\* An answer of better-auth.  The session may move with it.
LEMMA AnsweredKeeps ==
    ASSUME MailStrong, NEW q \in asked, NEW mailed \in BOOLEAN,
           NEW answer \in {"ok", "unverified", "refused", "limited"}, q.answer = "waiting",
           Answered(q, answer, mailed),
           standing' \in [Addresses -> {"unknown", "unverified", "verified"}],
           \A x \in Addresses : standing[x] = "verified" => standing'[x] = "verified",
           mailbox' \subseteq Link, sessionCookie' \in Someone \cup {NoSession}, replaced' = FALSE,
           mailTab' = [mailTab EXCEPT !.steady = mailTab'.steady], mailTab'.steady \in BOOLEAN,
           mailTab'.steady => mailTab.steady,
           \/ sessionCookie' = sessionCookie \/ q.ask = "useLink"
           \/ mailTab'.steady => ~Leaving /\ mailTab.page # "/magic-link/verify",
           q.ask = "verify" /\ answer = "ok" => standing'[q.to] = "verified",
           q.ask \in {"resendLink", "magicLink"} /\ answer = "ok" => mailed,
           answer = "unverified" => q.ask = "signIn" /\ mailed
    PROVE  MailStrong'
<1> DEFINE a == [q EXCEPT !.answer = answer, !.mailed = mailed]
<1>1. q \in MailCalls /\ WellAsked(q) /\ mailTab \in MailTabs
  BY MailParts
<1>2. /\ a \in MailCalls /\ a.ask = q.ask /\ a.to = q.to /\ a.link = q.link /\ a.at = q.at
      /\ a.answer = answer /\ a.mailed = mailed
  BY <1>1 DEF MailCalls
<1>3. asked' = (asked \ {q}) \cup (IF Lost(a) THEN {} ELSE {a})
  BY DEF Answered
<1> HIDE DEF a
<1>4. /\ mailTab' \in MailTabs /\ mailTab'.page = mailTab.page /\ mailTab'.link = mailTab.link
      /\ mailTab'.saw = mailTab.saw /\ mailTab'.busy = mailTab.busy /\ mailTab'.said = mailTab.said
      /\ mailTab'.because = mailTab.because /\ mailTab'.after = mailTab.after
  BY <1>1 DEF MailTabs
<1>5. q.ask = "useLink" => ~Lost(a)
  BY <1>1, <1>2 DEF WellAsked, Lost, Destination
<1>6. Leaving' <=> Leaving
  BY <1>2, <1>3, <1>5 DEF Leaving
<1>7. OneLeaves'
  BY <1>2, <1>3 DEF MailStrong, OneLeaves
<1>8. SteadyForCause'
  <2>1. SteadyForCause /\ OneLeaves
    BY DEF MailStrong
  <2>2. Leaving' => mailTab'.saw \in {NoSession, "pending"}
    BY <2>1, <1>4, <1>6 DEF SteadyForCause
  <2>3. q.ask = "useLink" => Leaving'
    BY <1>2, <1>3, <1>5 DEF Leaving
  <2>4. ASSUME mailTab'.steady, mailTab'.page = "/magic-link/verify", ~Leaving'
        PROVE  mailTab'.saw \in {"pending", sessionCookie'}
    BY <2>1, <2>3, <2>4, <1>4, <1>6 DEF SteadyForCause
  <2>5. ASSUME mailTab'.steady, NEW p \in asked', p.ask = "useLink", p.answer = "waiting"
        PROVE  sessionCookie' = NoSession
    <3>1. p \in asked /\ p # q
      BY <2>5, <1>2, <1>3
    <3>2. q.ask # "useLink"
      BY <3>1, <2>1, <2>5 DEF OneLeaves
    <3>3. Leaving
      BY <3>1, <2>5 DEF Leaving
    <3> QED BY <3>1, <3>2, <3>3, <2>1, <2>5 DEF SteadyForCause
  <2> QED BY <2>2, <2>4, <2>5 DEF SteadyForCause
<1>9. ASSUME NEW p \in asked' PROVE p \in MailCalls /\ WellAsked(p)'
  <2>1. CASE p \in asked /\ p # q
    <3>1. p \in MailCalls /\ WellAsked(p)
      BY <2>1, MailParts
    <3>2. p.ask = "verify" => p.to \in Addresses
      BY <3>1, LinkIs DEF WellAsked
    <3> QED BY <3>1, <3>2, <1>4 DEF WellAsked
  <2>2. CASE p = a /\ ~Lost(a)
    BY <2>2, <1>1, <1>2, <1>4 DEF WellAsked
  <2> QED BY <2>1, <2>2, <1>3, <1>9
<1>10. BusyForCause'
  <2> SUFFICES ASSUME NEW f \in mailTab'.busy \ {"oauthLoading"}
               PROVE  \E p \in asked' : FlagOf[p.ask] = f /\ p.at = "page"
    BY DEF BusyForCause
  <2>1. PICK p \in asked : FlagOf[p.ask] = f /\ p.at = "page"
    BY <1>4 DEF MailStrong, MailLinkInv, BusyForCause
  <2>2. CASE p = q
    <3>1. a \in asked'
      BY <2>1, <2>2, <1>2, <1>3 DEF Lost
    <3> QED BY <3>1, <2>1, <2>2, <1>2
  <2>3. CASE p # q
    BY <2>1, <2>3, <1>3
  <2> QED BY <2>2, <2>3
<1>11. SaidForCause'
  BY <1>4 DEF MailStrong, MailLinkInv, SaidForCause
<1>12. mailTab'.said = "verified" => mailTab'.link \in Link /\ standing'[mailTab'.link.to] = "verified"
  BY <1>4, LinkIs DEF MailStrong, MailLinkInv, VerifiedForCause
<1>13. MailTypeOK' /\ SessionKept'
  BY <1>4, <1>9 DEF MailTypeOK, SessionKept
<1> QED
  BY <1>7, <1>8, <1>9, <1>10, <1>11, <1>12, <1>13 DEF MailStrong, MailLinkInv, VerifiedForCause

\* Nothing but the mailbox and the request: an answer, with or without a mail.
LEMMA MailAnswerKeeps ==
    ASSUME MailStrong, NEW q \in asked, q.answer = "waiting", NEW mailed \in BOOLEAN,
           NEW answer \in {"ok", "unverified", "refused", "limited"}, Answered(q, answer, mailed),
           standing' \in [Addresses -> {"unknown", "unverified", "verified"}],
           \A x \in Addresses : standing[x] = "verified" => standing'[x] = "verified",
           mailbox' \subseteq Link, UNCHANGED <<sessionCookie, mailTab, replaced>>,
           q.ask = "verify" /\ answer = "ok" => standing'[q.to] = "verified",
           q.ask \in {"resendLink", "magicLink"} /\ answer = "ok" => mailed,
           answer = "unverified" => q.ask = "signIn" /\ mailed
    PROVE  MailStrong'
<1>1. mailTab \in MailTabs /\ sessionCookie \in Someone \cup {NoSession} /\ replaced = FALSE
  BY MailParts
<1>2. mailTab.steady \in BOOLEAN /\ mailTab = [mailTab EXCEPT !.steady = mailTab.steady]
  BY <1>1 DEF MailTabs
<1> QED BY <1>1, <1>2, AnsweredKeeps, ZenonT(40)

LEMMA NoMailKeeps ==
    ASSUME MailStrong, NEW q \in asked, q.answer = "waiting",
           NEW answer \in {"ok", "refused", "limited"}, NoMail(q, answer),
           UNCHANGED <<standing, sessionCookie, mailTab, replaced>>,
           q.ask \in {"verify", "resendLink", "magicLink"} => answer # "ok"
    PROVE  MailStrong'
<1>1. Answered(q, answer, FALSE) /\ mailbox' = mailbox
  BY DEF NoMail
<1> QED BY <1>1, MailParts, MailAnswerKeeps

\* A mail that is enqueued, or not.
LEMMA MailOutKeeps ==
    ASSUME MailStrong, NEW q \in asked, q.answer = "waiting", q.to \in Addresses,
           NEW kind \in {"verify", "magic", "reset"}, NEW answer \in {"ok", "unverified"},
           MailOut(q, kind, answer),
           standing' \in [Addresses -> {"unknown", "unverified", "verified"}],
           \A x \in Addresses : standing[x] = "verified" => standing'[x] = "verified",
           UNCHANGED <<sessionCookie, mailTab, replaced>>, q.ask # "verify",
           answer = "unverified" => q.ask = "signIn"
    PROVE  MailStrong'
<1>1. CASE mailbox' = mailbox \cup {[kind |-> kind, to |-> q.to]} /\ Answered(q, answer, TRUE)
  <2>1. mailbox' \subseteq Link
    BY <1>1, MailParts DEF Link
  <2> QED BY <1>1, <2>1, MailAnswerKeeps
<1>2. CASE NoMail(q, "refused")
  <2>1. Answered(q, "refused", FALSE) /\ mailbox' \subseteq Link
    BY <1>2, MailParts DEF NoMail
  <2> QED BY <2>1, MailAnswerKeeps
<1> QED BY <1>1, <1>2 DEF MailOut

\* A session begins: the page knows that it moved.
LEMMA SignInKeeps ==
    ASSUME MailStrong, NEW q \in asked, q.answer = "waiting", q.ask = "signIn",
           NoMail(q, "ok"), Begins(q.to), UNCHANGED <<standing, replaced>>
    PROVE  MailStrong'
<1>1. /\ mailTab \in MailTabs /\ q \in MailCalls /\ replaced = FALSE
      /\ standing \in [Addresses -> {"unknown", "unverified", "verified"}] /\ mailbox \subseteq Link
  BY MailParts
<1>2. Answered(q, "ok", FALSE) /\ mailbox' = mailbox /\ sessionCookie' = q.to
  BY DEF NoMail, Begins
<1>3. q.to \in Someone \cup {NoSession} /\ mailTab.steady \in BOOLEAN
  BY <1>1 DEF MailCalls, MailTabs
<1>4. CASE q.to = sessionCookie
  <2>1. mailTab' = mailTab /\ mailTab = [mailTab EXCEPT !.steady = mailTab.steady]
    BY <1>1, <1>4 DEF Begins, MailTabs
  <2> QED BY <1>1, <1>2, <1>3, <1>4, <2>1, AnsweredKeeps
<1>5. CASE q.to # sessionCookie
  <2> DEFINE steady == mailTab.steady /\ ~Leaving /\ mailTab.page # "/magic-link/verify"
  <2>1. mailTab' = [mailTab EXCEPT !.steady = steady] /\ steady \in BOOLEAN
    BY <1>5, <1>3 DEF Begins, Unsteady
  <2>2. mailTab'.steady = steady
    BY <1>1, <2>1 DEF MailTabs
  <2>3. mailTab'.steady => mailTab.steady /\ ~Leaving /\ mailTab.page # "/magic-link/verify"
    BY <2>2
  <2> HIDE DEF steady
  <2> QED BY <1>1, <1>2, <1>3, <2>1, <2>2, <2>3, AnsweredKeeps
<1> QED BY <1>4, <1>5

\* The session of a link begins only where the page saw nobody, or knows that
\* somebody came since.
LEMMA UsesLinkKeeps ==
    ASSUME MailStrong, NEW q \in asked, q.answer = "waiting", q.ask = "useLink", UsesLink(q)
    PROVE  MailStrong'
<1>1. /\ mailTab \in MailTabs /\ q \in MailCalls /\ replaced = FALSE
      /\ standing \in [Addresses -> {"unknown", "unverified", "verified"}] /\ mailbox \subseteq Link
  BY MailParts
<1>2. CASE Refuses(q)
  <2>1. NoMail(q, "refused") /\ UNCHANGED <<standing, sessionCookie, mailTab, replaced>>
    BY <1>2 DEF UsesLink, Refuses
  <2> QED BY <2>1, NoMailKeeps
<1>3. CASE ~Refuses(q)
  <2>1. /\ mailbox' = mailbox \ {q.link} /\ standing' = [standing EXCEPT ![q.to] = "verified"]
        /\ sessionCookie' = q.to /\ Answered(q, "ok", FALSE) /\ mailTab' = mailTab
        /\ replaced' = (replaced \/ (sessionCookie \notin {q.to, NoSession} /\ mailTab.steady))
    BY <1>3 DEF UsesLink
  <2>2. mailTab.steady => sessionCookie = NoSession
    BY DEF MailStrong, SteadyForCause
  <2>3. replaced' = FALSE
    BY <2>1, <2>2, <1>1
  <2>4. q.to \in Someone \cup {NoSession} /\ mailTab.steady \in BOOLEAN
        /\ mailTab = [mailTab EXCEPT !.steady = mailTab.steady]
    BY <1>1 DEF MailCalls, MailTabs
  <2>5. /\ standing' \in [Addresses -> {"unknown", "unverified", "verified"}]
        /\ \A x \in Addresses : standing[x] = "verified" => standing'[x] = "verified"
    BY <2>1, <1>1
  <2> QED BY <2>1, <2>3, <2>4, <2>5, <1>1, AnsweredKeeps
<1> QED BY <1>2, <1>3

LEMMA ServeKeeps ==
    ASSUME MailStrong, NEW q \in asked, Serve(q)
    PROVE  MailStrong'
<1>1. /\ mailTab \in MailTabs /\ q \in MailCalls /\ replaced = FALSE /\ WellAsked(q)
      /\ standing \in [Addresses -> {"unknown", "unverified", "verified"}] /\ mailbox \subseteq Link
  BY MailParts
<1>2. q.answer = "waiting"
  BY DEF Serve
<1>3. Standing(q) \in {"unknown", "unverified"} => q.to \in Addresses
  BY DEF Standing
<1>4. CASE q.ask = "register" /\ Registers(q)
  <2>1. UNCHANGED <<sessionCookie, mailTab, replaced>>
    BY <1>4 DEF Registers
  <2>2. CASE Standing(q) = "unknown"
    <3>1. standing' = [standing EXCEPT ![q.to] = "unverified"] /\ MailOut(q, "verify", "ok")
          /\ standing[q.to] = "unknown" /\ q.to \in Addresses
      BY <1>3, <1>4, <2>2 DEF Registers, Standing
    <3>2. /\ standing' \in [Addresses -> {"unknown", "unverified", "verified"}]
          /\ \A x \in Addresses : standing[x] = "verified" => standing'[x] = "verified"
      BY <1>1, <3>1
    <3> QED BY <1>2, <1>4, <2>1, <3>1, <3>2, MailOutKeeps
  <2>3. CASE Standing(q) # "unknown"
    BY <1>2, <1>4, <2>1, <2>3, NoMailKeeps DEF Registers
  <2> QED BY <2>2, <2>3
<1>5. CASE q.ask = "signIn" /\ SignsIn(q)
  <2>1. UNCHANGED <<standing, replaced>>
    BY <1>5 DEF SignsIn
  <2>2. CASE /\ Standing(q) = "unverified" /\ MailOut(q, "verify", "unverified")
             /\ UNCHANGED <<sessionCookie, mailTab>>
    BY <1>1, <1>2, <1>3, <1>5, <2>1, <2>2, MailOutKeeps
  <2>3. CASE NoMail(q, "ok") /\ Begins(q.to)
    BY <1>2, <1>5, <2>1, <2>3, SignInKeeps
  <2>4. CASE NoMail(q, "refused") /\ UNCHANGED <<sessionCookie, mailTab>>
    BY <1>2, <2>1, <2>4, NoMailKeeps
  <2> QED BY <1>5, <2>2, <2>3, <2>4 DEF SignsIn
<1>6. CASE q.ask \in Cooled \cup {"magicLink"} /\ AsksForMail(q)
  <2>1. UNCHANGED <<standing, sessionCookie, mailTab, replaced>>
    BY <1>6 DEF AsksForMail
  <2>2. q.ask # "verify" /\ q.ask # "signIn"
    BY <1>6 DEF Cooled
  <2>3. CASE q.ask \in {"magicLink", "resendLink"}
    <3>1. q.to \in Addresses
      BY <1>1, <2>3 DEF WellAsked
    <3>2. NoMail(q, "refused") \/ MailOut(q, "magic", "ok")
      BY <1>6, <2>3 DEF AsksForMail
    <3> QED BY <1>1, <1>2, <2>1, <2>2, <3>1, <3>2, NoMailKeeps, MailOutKeeps
  <2>4. CASE q.ask = "requestReset"
    <3>1. q.to \in Addresses
      BY <1>1, <2>4 DEF WellAsked
    <3>2. NoMail(q, "ok") \/ MailOut(q, "reset", "ok")
      BY <1>6, <2>4 DEF AsksForMail
    <3> QED BY <1>1, <1>2, <2>1, <2>2, <2>4, <3>1, <3>2, NoMailKeeps, MailOutKeeps
  <2>5. CASE q.ask \notin {"magicLink", "resendLink", "requestReset"}
    <3>1. \/ Standing(q) = "unverified" /\ MailOut(q, "verify", "ok")
          \/ NoMail(q, "ok") \/ NoMail(q, "refused")
      BY <1>6, <2>5 DEF AsksForMail
    <3> QED BY <1>1, <1>2, <1>3, <2>1, <2>2, <2>5, <3>1, NoMailKeeps, MailOutKeeps
  <2> QED BY <2>3, <2>4, <2>5
<1>7. CASE q.ask \in {"verify", "setPassword"} /\ Verifies(q)
  <2>1. mailTab' = mailTab
    BY <1>7 DEF Verifies
  <2>2. CASE Refuses(q)
    BY <1>2, <2>1, <2>2, NoMailKeeps DEF Refuses
  <2>3. CASE ~Refuses(q)
    <3>1. /\ standing' = IF q.ask = "verify" THEN [standing EXCEPT ![q.to] = "verified"]
                         ELSE standing
          /\ mailbox' \subseteq mailbox /\ Answered(q, "ok", FALSE)
          /\ UNCHANGED <<sessionCookie, replaced>>
      BY <1>7, <2>3 DEF Verifies
    <3>2. q.ask = "verify" => q.to \in Addresses
      BY <1>1, LinkIs DEF WellAsked
    <3>3. /\ standing' \in [Addresses -> {"unknown", "unverified", "verified"}]
          /\ \A x \in Addresses : standing[x] = "verified" => standing'[x] = "verified"
          /\ q.ask = "verify" => standing'[q.to] = "verified"
      BY <1>1, <3>1, <3>2
    <3> QED BY <1>1, <1>2, <1>7, <2>1, <3>1, <3>3, MailAnswerKeeps
  <2> QED BY <2>2, <2>3
<1>8. CASE q.ask = "useLink" /\ UsesLink(q)
  BY <1>2, <1>8, UsesLinkKeeps
<1>9. CASE /\ q.ask = "provider" /\ NoMail(q, "ok")
           /\ UNCHANGED <<standing, sessionCookie, mailTab, replaced>>
  BY <1>2, <1>9, NoMailKeeps
<1> QED BY <1>4, <1>5, <1>6, <1>7, <1>8, <1>9 DEF Serve

LEMMA MailTabIs ==
    ASSUME NEW t \in MailTabs
    PROVE  /\ t.page \in AllPages /\ t.link \in Link \cup {NoLink}
           /\ t.busy \in SUBSET {FlagOf[a] : a \in Askable}
           /\ t.cooldown \in 0..Cooldown /\ Cooldown \in 0..Cooldown
           /\ t.notVerified \in BOOLEAN /\ t.saw \in Someone \cup {NoSession, "pending"}
<1>1. Cooldown \in 0..Cooldown
  BY MailAssumption
<1> QED BY <1>1 DEF MailTabs

LEMMA DestinationIs ==
    ASSUME NEW q, Destination(q) # "none"
    PROVE  Destination(q) \in AllPages
BY MailPages DEF Destination

\* A request that is over frees its button and leaves what the others wait for.
LEMMA OverKeepsBusy ==
    ASSUME MailStrong, NEW q \in asked, asked' = asked \ {q},
           mailTab'.busy \subseteq mailTab.busy,
           \/ q.at # "page" \/ q.ask = "provider"
           \/ FlagOf[q.ask] \notin mailTab'.busy
    PROVE  BusyForCause'
<1> SUFFICES ASSUME NEW f \in mailTab'.busy \ {"oauthLoading"}
             PROVE  \E p \in asked' : FlagOf[p.ask] = f /\ p.at = "page"
  BY DEF BusyForCause
<1>1. PICK p \in asked : FlagOf[p.ask] = f /\ p.at = "page"
  BY DEF MailStrong, MailLinkInv, BusyForCause
<1> QED BY <1>1, MailPages

LEMMA ReceiveKeeps ==
    ASSUME MailStrong, NEW q \in asked, Receive(q)
    PROVE  MailStrong'
<1>1. /\ mailTab \in MailTabs /\ q \in MailCalls /\ asked \subseteq MailCalls /\ WellAsked(q)
  BY MailParts
<1>2. CASE Destination(q) # "none"
  <2> DEFINE at == IF q.ask = "useLink" THEN "nowhere" ELSE "app"
             said == IF q.answer = "ok" THEN "nothing" ELSE "error"
  <2>1. Go(Destination(q), NoLink, sessionCookie, Behind(at, asked \ {q}), said)
        /\ UNCHANGED <<standing, mailbox, sessionCookie, replaced>>
    BY <1>2 DEF Receive
  <2>2. at = "nowhere" => \A p \in asked \ {q} : p.ask # "useLink"
    BY DEF MailStrong, OneLeaves
  <2>3. at \in {"app", "nowhere"} /\ said \in {"nothing", "error"}
    OBVIOUS
  <2> HIDE DEF at, said
  <2> QED BY <1>2, <2>1, <2>2, <2>3, DestinationIs, GoKeeps
<1>3. CASE Destination(q) = "none"
  <2> DEFINE sent == Verdict(q) = "sent"
             because == IF sent THEN Because(q) ELSE "nothing"
             after == IF sent THEN q.ask ELSE "none"
             missing == mailTab.notVerified \/ q.answer = "unverified"
             cooldown == IF q.ask \in Cooled /\ Verdict(q) # "error" THEN Cooldown
                         ELSE mailTab.cooldown
  <2>1. /\ asked' = asked \ {q} /\ UNCHANGED <<standing, mailbox, sessionCookie, replaced>>
        /\ mailTab' = [mailTab EXCEPT !.busy = Released(q), !.said = Verdict(q),
                          !.because = because, !.after = after, !.notVerified = missing,
                          !.cooldown = cooldown]
        /\ q.answer # "waiting"
    BY <1>3 DEF Receive
  <2>2. /\ Verdict(q) \in {"nothing", "sent", "if known", "error", "verified"}
        /\ Verdict(q) = "verified" => q.ask = "verify" /\ q.answer = "ok"
    BY DEF Verdict
  <2>3. /\ because \in {"nothing", "mailed", "refused", "no need"}
        /\ after \in Askable \cup {"none"} /\ missing \in BOOLEAN /\ cooldown \in 0..Cooldown
    <3>1. q.ask \in Askable
      BY <1>1 DEF MailCalls
    <3>2. Because(q) \in {"mailed", "refused", "no need"}
      BY DEF Because
    <3> QED BY <1>1, <3>1, <3>2, MailTabIs
  <2>4. /\ Released(q) \subseteq mailTab.busy
        /\ q.ask = "provider" \/ FlagOf[q.ask] \notin Released(q)
        /\ Released(q) \in SUBSET {FlagOf[a] : a \in Askable}
    BY <1>1 DEF Released, MailTabs
  <2>5. sent => \/ because = "mailed"
                \/ because = "no need" /\ after \notin {"magicLink", "resendLink", "signIn"}
                \/ because = "refused" /\ after \in {"resendAtLogin", "requestReset"}
    <3> SUFFICES ASSUME sent, ~q.mailed
                 PROVE  \/ q.answer = "ok" /\ q.ask \notin {"magicLink", "resendLink", "signIn"}
                        \/ q.answer # "ok" /\ q.ask \in {"resendAtLogin", "requestReset"}
      BY DEF Because
    <3>1. q.answer # "unverified" /\ (q.ask \in {"magicLink", "resendLink"} => q.answer # "ok")
      BY <1>1 DEF WellAsked
    <3>2. q.ask = "signIn" => FALSE
      BY <3>1 DEF Verdict
    <3>3. q.ask = "resendAtLogin" \/ q.ask = "requestReset" \/ q.answer = "ok"
      BY <3>2 DEF Verdict
    <3> QED BY <3>1, <3>2, <3>3
  <2> HIDE DEF because, after, missing, cooldown
  <2>6. /\ mailTab' \in MailTabs /\ mailTab'.page = mailTab.page /\ mailTab'.link = mailTab.link
        /\ mailTab'.saw = mailTab.saw /\ mailTab'.steady = mailTab.steady
        /\ mailTab'.busy = Released(q) /\ mailTab'.said = Verdict(q)
        /\ mailTab'.because = because /\ mailTab'.after = after
    <3> DEFINE t == [mailTab EXCEPT !.busy = Released(q), !.said = Verdict(q), !.because = because]
    <3>1. /\ t \in MailTabs /\ t.page = mailTab.page /\ t.link = mailTab.link
          /\ t.saw = mailTab.saw /\ t.steady = mailTab.steady
          /\ t.busy = Released(q) /\ t.said = Verdict(q) /\ t.because = because
      BY <1>1, <2>2, <2>3, <2>4, ZenonT(40) DEF MailTabs
    <3>2. mailTab' = [t EXCEPT !.after = after, !.notVerified = missing, !.cooldown = cooldown]
      BY <1>1, <2>1 DEF MailTabs
    <3> HIDE DEF t
    <3> QED BY <2>3, <3>1, <3>2 DEF MailTabs
  <2>7. SaidForCause'
    BY <2>5, <2>6 DEF SaidForCause
  <2>8. BusyForCause'
    BY <2>1, <2>4, <2>6, OverKeepsBusy
  <2>9. ASSUME mailTab'.said = "verified"
        PROVE  mailTab'.link \in Link /\ standing'[mailTab'.link.to] = "verified"
    <3>1. q.ask = "verify" /\ q.answer = "ok"
      BY <2>2, <2>6, <2>9
    <3>2. q.at = "page"
      BY <1>1, <1>3, <2>1 DEF WellAsked, Lost, MailCalls
    <3> QED BY <1>1, <2>1, <2>6, <3>1, <3>2 DEF WellAsked
  <2>10. q.ask # "useLink"
    BY <1>3 DEF Destination
  <2> QED BY <1>1, <2>1, <2>6, <2>7, <2>8, <2>9, <2>10, SameTabKeeps
<1> QED BY <1>2, <1>3

LEMMA ThrowsKeeps ==
    ASSUME MailStrong, NEW q \in asked, Throws(q)
    PROVE  MailStrong'
<1>1. /\ mailTab \in MailTabs /\ q \in MailCalls /\ asked \subseteq MailCalls
      /\ asked' = asked \ {q} /\ q.ask # "useLink"
      /\ UNCHANGED <<standing, mailbox, sessionCookie, replaced>>
  BY MailParts DEF Throws
<1>2. SaidForCause /\ (mailTab.said = "verified" =>
          mailTab.link \in Link /\ standing[mailTab.link.to] = "verified")
  BY DEF MailStrong, MailLinkInv, VerifiedForCause
<1>3. CASE q.at # "page"
  <2>1. mailTab' = mailTab
    BY <1>3 DEF Throws
  <2>2. BusyForCause'
    BY <1>1, <1>3, <2>1, OverKeepsBusy
  <2>3. SaidForCause'
    BY <1>2, <2>1 DEF SaidForCause
  <2> QED BY <1>1, <1>2, <2>1, <2>2, <2>3, SameTabKeeps
<1>4. CASE q.at = "page"
  <2> DEFINE busy == mailTab.busy \ {FlagOf[q.ask]}
             said == IF q.ask = "resendUnknown" THEN "if known" ELSE "error"
             cooldown == IF q.ask = "resendUnknown" THEN Cooldown ELSE mailTab.cooldown
  <2>1. mailTab' = [mailTab EXCEPT !.busy = busy, !.said = said, !.because = "nothing",
                                   !.after = "none", !.cooldown = cooldown]
    BY <1>4 DEF Throws
  <2>2. /\ busy \in SUBSET {FlagOf[a] : a \in Askable} /\ busy \subseteq mailTab.busy
        /\ FlagOf[q.ask] \notin busy /\ said \in {"if known", "error"} /\ cooldown \in 0..Cooldown
    BY <1>1, MailTabIs
  <2> HIDE DEF busy, said, cooldown
  <2>3. /\ mailTab' \in MailTabs /\ mailTab'.page = mailTab.page /\ mailTab'.link = mailTab.link
        /\ mailTab'.saw = mailTab.saw /\ mailTab'.steady = mailTab.steady
        /\ mailTab'.busy = busy /\ mailTab'.said = said
    BY <1>1, <2>1, <2>2 DEF MailTabs
  <2>4. BusyForCause'
    BY <1>1, <2>2, <2>3, OverKeepsBusy
  <2>5. SaidForCause' /\ mailTab'.said # "verified"
    BY <2>2, <2>3 DEF SaidForCause
  <2> QED BY <1>1, <2>3, <2>4, <2>5, SameTabKeeps
<1> QED BY <1>3, <1>4

LEMMA PressKeeps ==
    ASSUME MailStrong, NEW a \in Askable, NEW to \in Someone, Press(a, to)
    PROVE  MailStrong'
<1> DEFINE busy == mailTab.busy \cup {FlagOf[a]}
           missing == IF a \in {"signIn", "magicLink"} THEN FALSE ELSE mailTab.notVerified
           q == Outgoing(a, to, mailTab.link)
<1>1. mailTab \in MailTabs /\ asked \subseteq MailCalls
  BY MailParts
<1>2. /\ asked' = asked \cup {q} /\ UNCHANGED <<standing, mailbox, sessionCookie, replaced>>
      /\ mailTab' = [mailTab EXCEPT !.busy = busy, !.said = "nothing", !.because = "nothing",
                                    !.after = "none", !.notVerified = missing]
      /\ a \notin {"verify", "useLink"} /\ (to \in Addresses \/ a \in {"signIn", "resend"})
  BY DEF Press
<1>3. /\ q \in MailCalls /\ q.ask = a /\ q.to = to /\ q.answer = "waiting" /\ q.at = "page"
  <2>1. to \in Someone \cup {NoSession} /\ mailTab.link \in Link \cup {NoLink}
    BY <1>1, MailTabIs
  <2> QED BY <2>1, OutgoingIs
<1>4. busy \in SUBSET {FlagOf[b] : b \in Askable} /\ missing \in BOOLEAN
  BY <1>1 DEF MailTabs
<1> HIDE DEF q, missing
<1>5. /\ mailTab' \in MailTabs /\ mailTab'.page = mailTab.page /\ mailTab'.link = mailTab.link
      /\ mailTab'.saw = mailTab.saw /\ mailTab'.steady = mailTab.steady
      /\ mailTab'.busy = busy /\ mailTab'.said = "nothing"
  BY <1>1, <1>2, <1>4 DEF MailTabs
<1>6. NewlyAsked(q)
  BY <1>2, <1>3 DEF NewlyAsked
<1>7. BusyForCause'
  <2> SUFFICES ASSUME NEW f \in busy \ {"oauthLoading"}
               PROVE  \E p \in asked' : FlagOf[p.ask] = f /\ p.at = "page"
    BY <1>5 DEF BusyForCause
  <2>1. CASE f = FlagOf[a]
    BY <2>1, <1>2, <1>3
  <2>2. CASE f \in mailTab.busy
    BY <2>2, <1>2 DEF MailStrong, MailLinkInv, BusyForCause
  <2> QED BY <2>1, <2>2
<1>8. SaidForCause'
  BY <1>5 DEF SaidForCause
<1> QED BY <1>1, <1>2, <1>3, <1>5, <1>6, <1>7, <1>8, SameTabKeeps

\* Following the link waits for a session, and the page knows of one that came.
LEMMA LeaveKeeps ==
    ASSUME MailStrong, LeaveWithLink
    PROVE  MailStrong'
<1> DEFINE q == Outgoing("useLink", mailTab.link.to, mailTab.link)
<1>1. /\ mailTab \in MailTabs /\ asked \subseteq MailCalls
      /\ SteadyForCause /\ \A p \in asked : WellAsked(p)
  BY MailParts DEF MailStrong
<1>2. /\ asked' = asked \cup {q} /\ mailTab.saw = NoSession /\ ~Leaving
      /\ mailTab.page = "/magic-link/verify" /\ mailTab.link # NoLink
      /\ UNCHANGED <<standing, mailbox, sessionCookie, mailTab, replaced>>
  BY DEF LeaveWithLink
<1>3. mailTab.link \in Link /\ mailTab.link.to \in Someone \cup {NoSession}
  BY <1>1, <1>2, LinkIs DEF MailTabs, Someone
<1>4. /\ q \in MailCalls /\ q.ask = "useLink" /\ q.at = "page" /\ q.answer = "waiting" /\ ~Lost(q)
  BY <1>3, MailPages, OutgoingIs
<1> HIDE DEF q
<1>5. mailTab.steady => sessionCookie = NoSession
  BY <1>1, <1>2 DEF SteadyForCause, NoSession
<1>6. SteadyForCause'
  BY <1>2, <1>5 DEF SteadyForCause
<1>7. OneLeaves'
  BY <1>2 DEF OneLeaves, Leaving
<1>8. \A p \in asked' : WellAsked(p)'
  BY <1>1, <1>2, <1>4 DEF WellAsked
<1>9. MailTypeOK'
  BY <1>2, <1>4 DEF MailStrong, MailLinkInv, MailTypeOK
<1>10. SaidForCause' /\ SessionKept' /\ VerifiedForCause' /\ BusyForCause'
  BY <1>2 DEF MailStrong, MailLinkInv, SaidForCause, SessionKept, VerifiedForCause, BusyForCause
<1> QED BY <1>2, <1>6, <1>7, <1>8, <1>9, <1>10 DEF MailStrong, MailLinkInv

\* The session moves in another tab, or the page sees that it did.
LEMMA SessionKeeps ==
    ASSUME MailStrong, NEW who \in Someone \cup {NoSession}, SessionSeen(who) \/ OtherTab(who)
    PROVE  MailStrong'
<1>1. /\ mailTab \in MailTabs /\ SteadyForCause /\ \A p \in asked : WellAsked(p)
      /\ sessionCookie \in Someone \cup {NoSession}
  BY MailParts DEF MailStrong
<1>2. /\ UNCHANGED <<standing, mailbox, asked, replaced>>
      /\ sessionCookie' \in Someone \cup {NoSession}
  BY <1>1 DEF SessionSeen, OtherTab
<1>3. /\ mailTab' \in MailTabs /\ mailTab'.page = mailTab.page /\ mailTab'.link = mailTab.link
      /\ mailTab'.busy = mailTab.busy /\ mailTab'.said = mailTab.said
      /\ mailTab'.because = mailTab.because /\ mailTab'.after = mailTab.after
      /\ \/ /\ ~Leaving /\ sessionCookie' = sessionCookie
            /\ mailTab'.steady => mailTab'.saw = sessionCookie
         \/ /\ mailTab'.saw = mailTab.saw
            /\ mailTab'.steady => mailTab.steady /\ ~Leaving /\ mailTab.page # "/magic-link/verify"
  <2>1. CASE SessionSeen(who)
    <3> DEFINE steady == who = sessionCookie
    <3>1. /\ mailTab' = [mailTab EXCEPT !.saw = who, !.steady = steady] /\ ~Leaving
          /\ sessionCookie' = sessionCookie
      BY <2>1 DEF SessionSeen
    <3>2. steady \in BOOLEAN /\ (steady => who = sessionCookie)
      OBVIOUS
    <3> HIDE DEF steady
    <3> QED BY <1>1, <3>1, <3>2 DEF MailTabs
  <2>2. CASE OtherTab(who)
    <3> DEFINE steady == mailTab.steady /\ ~Leaving /\ mailTab.page # "/magic-link/verify"
    <3>1. mailTab' = [mailTab EXCEPT !.steady = steady]
      BY <2>2 DEF OtherTab, Unsteady
    <3>2. steady \in BOOLEAN
      BY <1>1 DEF MailTabs
    <3>3. steady => mailTab.steady /\ ~Leaving /\ mailTab.page # "/magic-link/verify"
      OBVIOUS
    <3> HIDE DEF steady
    <3> QED BY <1>1, <3>1, <3>2, <3>3 DEF MailTabs
  <2> QED BY <2>1, <2>2
<1>4. SteadyForCause'
  BY <1>1, <1>2, <1>3 DEF SteadyForCause, Leaving
<1>5. OneLeaves' /\ \A p \in asked' : WellAsked(p)'
  BY <1>1, <1>2, <1>3 DEF MailStrong, OneLeaves, WellAsked
<1>6. MailTypeOK'
  BY <1>2, <1>3 DEF MailStrong, MailLinkInv, MailTypeOK
<1>7. SaidForCause' /\ SessionKept' /\ VerifiedForCause' /\ BusyForCause'
  BY <1>2, <1>3, ZenonT(40)
     DEF MailStrong, MailLinkInv, SaidForCause, SessionKept, VerifiedForCause, BusyForCause
<1> QED BY <1>2, <1>3, <1>4, <1>5, <1>6, <1>7 DEF MailStrong, MailLinkInv

\* A page opens.
LEMMA OpenPageKeeps ==
    ASSUME MailStrong,
           \/ \E opened \in AllPages : VisitPage(opened)
           \/ \E link \in Link : Follow(link)
           \/ SignOutFirst \/ ToDashboard
    PROVE  MailStrong'
<1>1. mailTab \in MailTabs /\ SteadyForCause
  BY MailParts DEF MailStrong
<1>2. ASSUME NEW opened \in AllPages, VisitPage(opened) PROVE MailStrong'
  BY <1>2, GoKeeps DEF VisitPage
<1>3. ASSUME NEW link \in Link, Follow(link) PROVE MailStrong'
  <2>1. LinkPage[link.kind] \in AllPages
    BY MailPages DEF Link, LinkPage
  <2>2. \A q \in asked : q.ask # "useLink"
    BY <1>3 DEF Follow, Leaving
  <2>3. Go(LinkPage[link.kind], link, sessionCookie, Behind("nowhere", asked), "nothing")
        /\ UNCHANGED <<standing, mailbox, sessionCookie, replaced>>
    BY <1>3 DEF Follow
  <2> QED BY <2>1, <2>2, <2>3, GoKeeps
<1>4. ASSUME SignOutFirst PROVE MailStrong'
  <2>1. ~Leaving
    BY <1>1, <1>4, MailAssumption DEF SignOutFirst, SteadyForCause
  <2>2. \A q \in asked : q.ask # "useLink"
    BY <2>1 DEF Leaving
  <2>3. mailTab.page \in AllPages /\ mailTab.link \in Link \cup {NoLink}
    BY <1>1 DEF MailTabs
  <2>4. /\ Go(mailTab.page, mailTab.link, sessionCookie', Behind("nowhere", asked), "nothing")
        /\ sessionCookie' \in {sessionCookie, NoSession} /\ UNCHANGED <<standing, mailbox, replaced>>
    BY <1>4 DEF SignOutFirst
  <2> QED BY <2>2, <2>3, <2>4, GoKeeps
<1>5. ASSUME ToDashboard PROVE MailStrong'
  BY <1>5, MailPages, GoKeeps DEF ToDashboard
<1> QED BY <1>2, <1>3, <1>4, <1>5

LEMMA MailNextKeeps == MailStrong /\ [MailNext]_mailVars => MailStrong'
<1> SUFFICES ASSUME MailStrong, [MailNext]_mailVars PROVE MailStrong'
  OBVIOUS
<1>1. mailTab \in MailTabs /\ asked \subseteq MailCalls
  BY MailParts
<1>2. SaidForCause /\ BusyForCause /\ (mailTab.said = "verified" =>
          mailTab.link \in Link /\ standing[mailTab.link.to] = "verified")
  BY DEF MailStrong, MailLinkInv, VerifiedForCause
<1>3. CASE UNCHANGED mailVars
  <2>1. UNCHANGED <<standing, mailbox, sessionCookie, replaced, mailTab, asked>>
    BY <1>3 DEF mailVars
  <2>2. SaidForCause' /\ BusyForCause'
    BY <1>2, <2>1 DEF SaidForCause, BusyForCause
  <2> QED BY <1>1, <1>2, <2>1, <2>2, SameTabKeeps
<1>4. CASE Tick
  <2>1. mailTab.cooldown - 1 \in 0..Cooldown
    BY <1>1, <1>4, MailTabIs, MailAssumption DEF Tick
  <2>2. /\ mailTab' \in MailTabs /\ mailTab'.page = mailTab.page /\ mailTab'.link = mailTab.link
        /\ mailTab'.saw = mailTab.saw /\ mailTab'.steady = mailTab.steady
        /\ mailTab'.busy = mailTab.busy /\ mailTab'.said = mailTab.said
        /\ mailTab'.because = mailTab.because /\ mailTab'.after = mailTab.after
    BY <1>1, <1>4, <2>1 DEF Tick, MailTabs
  <2>3. UNCHANGED <<standing, mailbox, sessionCookie, replaced, asked>>
    BY <1>4 DEF Tick
  <2>4. SaidForCause' /\ BusyForCause'
    BY <1>2, <2>2, <2>3, ZenonT(40) DEF SaidForCause, BusyForCause
  <2> QED BY <1>1, <1>2, <2>2, <2>3, <2>4, SameTabKeeps
<1>5. ASSUME NEW q \in asked, TurnDown(q) PROVE MailStrong'
  <2> DEFINE answer == IF q.ask = "requestReset" THEN "limited" ELSE "refused"
  <2>1. /\ q.answer = "waiting" /\ NoMail(q, answer)
        /\ UNCHANGED <<standing, sessionCookie, mailTab, replaced>>
    BY <1>5 DEF TurnDown
  <2>2. answer \in {"limited", "refused"}
    OBVIOUS
  <2> HIDE DEF answer
  <2> QED BY <2>1, <2>2, NoMailKeeps
<1> QED
  BY <1>3, <1>4, <1>5, OpenPageKeeps, SessionKeeps, LeaveKeeps, PressKeeps, ServeKeeps,
     ReceiveKeeps, ThrowsKeeps DEF MailNext

\* The pages of registration and sign-in say what better-auth answered, verify
\* only who is verified, and a link never silently takes the place of a session
\* they had seen, though it may of one they had not: for any number of addresses
\* and of requests under way.
THEOREM LinksKeepTheirWord == MailSpec => []MailLinkInv
<1>1. MailInit => MailStrong
  <2> SUFFICES ASSUME MailInit PROVE MailStrong
    OBVIOUS
  <2>1. /\ mailTab \in MailTabs /\ mailTab.busy = {} /\ mailTab.said = "nothing"
        /\ mailTab.saw = "pending"
    BY MailPages, FreshPageIs DEF MailInit, FreshPage
  <2> QED
    BY <2>1 DEF MailInit, MailStrong, MailLinkInv, MailTypeOK, SaidForCause, SessionKept,
       VerifiedForCause, BusyForCause, OneLeaves, SteadyForCause, Leaving
<1>2. MailStrong => MailLinkInv
  BY DEF MailStrong
<1> QED BY <1>1, <1>2, MailNextKeeps, PTL DEF MailSpec

=============================================================================
