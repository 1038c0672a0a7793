---------------------------- MODULE AccessProofs ----------------------------
(* AccessInv is inductive, for any number of users, keys, roles, processes   *)
(* and requests.  Most steps only move one request on; what they need is in  *)
(* MoveKeeps.  The others write a table or a cache and are taken one by one. *)
EXTENDS Access, TLAPS

LEMMA IdleKnows ==
    /\ Idle \in Request /\ Idle.pc = "idle" /\ Idle.user = None
    /\ Idle.key = None /\ Idle.perms = {}
    /\ Knows(Idle) /\ WellFormed(Idle)
<1>1. Idle \in Request
  BY DEF Idle, Request, Kinds
<1>2. Idle.pc = "idle" /\ Idle.key = None /\ Idle.perms = {} /\ Idle.user = None
  BY DEF Idle
<1> QED BY <1>1, <1>2 DEF Knows, WellFormed

\* Request r is q from now on and nothing else changes.
LEMMA MoveKeeps ==
    ASSUME AccessInv, NEW r \in Requests, NEW q \in Request,
           WellFormed(q), Knows(q), Continue(r, q),
           UNCHANGED <<Tables, cache, workload>>,
           req[r].pc \notin {"commit", "emit", "invalidate"},
           q.pc \notin {"commit", "emit", "invalidate"}
    PROVE  AccessInv'
<1>1. /\ req \in [Requests -> Request]
      /\ req' = [req EXCEPT ![r] = q] /\ req' \in [Requests -> Request]
      /\ req'[r] = q /\ \A p \in Requests : p # r => req'[p] = req[p]
      /\ UNCHANGED <<deleted, role, grants, key, cache, workload>>
  BY DEF Continue, Tables, AccessInv, TypeOK
<1>2. TypeOK'
  <2>1. \A p \in Requests : WellFormed(req'[p])
    BY <1>1 DEF AccessInv, TypeOK
  <2> QED BY <1>1, <2>1 DEF AccessInv, TypeOK, WellFormed
<1>3. \A p \in Requests : Knows(req[p])'
  BY <1>1 DEF AccessInv, Knows, MayUse
<1>4. StaleForCause'
  BY <1>1 DEF AccessInv, StaleForCause
<1>5. DroppedBeforeCommit'
  BY <1>1 DEF AccessInv, DroppedBeforeCommit
<1>6. KeysDieWithAccount'
  BY <1>1 DEF AccessInv, KeysDieWithAccount
<1> QED BY <1>2, <1>3, <1>4, <1>5, <1>6 DEF AccessInv

LEMMA EndKeeps ==
    ASSUME AccessInv, NEW r \in Requests, End(r),
           UNCHANGED <<Tables, cache, workload>>,
           req[r].pc \notin {"commit", "emit", "invalidate"}
    PROVE  AccessInv'
BY IdleKnows, MoveKeeps DEF End

LEMMA EnterKeeps ==
    ASSUME AccessInv, NEW r \in Requests, NEW q \in Request,
           WellFormed(q), Knows(q), Enter(r, q), q.pc # "idle",
           UNCHANGED <<Tables, cache, workload>>,
           req[r].pc \notin {"commit", "emit", "invalidate"}
    PROVE  AccessInv'
<1> DEFINE s == [q EXCEPT !.pc = "handle"]
<1>1. CASE Continue(r, s)
  <2>1. /\ s \in Request /\ s.pc = "handle" /\ s.kind = q.kind /\ s.at = q.at
        /\ s.user = q.user /\ s.key = q.key /\ s.role = q.role
        /\ s.perms = q.perms /\ s.held = q.held /\ s.since = q.since
    BY DEF Request
  <2> HIDE DEF s
  <2>2. WellFormed(s) /\ Knows(s)
    BY <2>1 DEF WellFormed, Knows, MayUse
  <2> QED BY <1>1, <2>1, <2>2, MoveKeeps
<1>2. CASE End(r)
  BY <1>2, EndKeeps
<1> QED BY <1>1, <1>2 DEF Enter

LEMMA InFlight ==
    ASSUME AccessInv, NEW r \in Requests
    PROVE  req[r] \in Request /\ WellFormed(req[r]) /\ Knows(req[r])
BY DEF AccessInv, TypeOK

-----------------------------------------------------------------------------
(* The guard *)

LEMMA ArriveKeeps ==
    ASSUME AccessInv, NEW r \in Requests, NEW i \in Processes, NEW u \in Users,
           NEW k \in Keys \cup {None}, NEW kind \in Kinds,
           NEW asks \in SUBSET Permissions, Arrive(r, i, u, k, kind, asks)
    PROVE  AccessInv'
<1> DEFINE q == [Idle EXCEPT
                   !.pc = IF k = None THEN "role" ELSE "find",
                   !.kind = kind, !.at = i, !.user = u, !.key = k, !.asks = asks,
                   !.held = {role[u]} \ {None}, !.since = grants]
<1>1. /\ q.pc \in {"role", "find"} /\ q.kind = kind /\ q.at = i /\ q.user = u
      /\ q.key = k /\ q.held = {role[u]} \ {None} /\ q.since = grants
      /\ q.role = None /\ q.perms = {}
  BY DEF Idle
<1>2. q \in Request
  <2>1. role[u] \in Roles \cup {None} /\ grants \in [Roles -> SUBSET Permissions]
    BY DEF AccessInv, TypeOK
  <2> QED BY <2>1 DEF Idle, Request
<1>3. Continue(r, q) /\ (k # None => key[k].state # "none")
  BY DEF Arrive
<1>4. req[r].pc = "idle" /\ UNCHANGED <<Tables, cache, workload>>
  BY DEF Arrive
<1> HIDE DEF q
<1>5. WellFormed(q) /\ Knows(q)
  BY <1>1, <1>3 DEF WellFormed, Knows, MayUse
<1> QED BY <1>1, <1>2, <1>3, <1>4, <1>5, MoveKeeps

\* only pc and role of the request change
LEMMA GuardStepKeeps ==
    ASSUME AccessInv, NEW r \in Requests, NEW q \in Request,
           q.kind = req[r].kind, q.at = req[r].at, q.user = req[r].user,
           q.key = req[r].key, q.held = req[r].held, q.since = req[r].since,
           q.perms = req[r].perms, q.role \in q.held \cup {None},
           req[r].pc \notin {"idle", "commit", "emit", "invalidate"},
           q.pc \in {"role", "grants"},
           Continue(r, q), UNCHANGED <<Tables, cache, workload>>
    PROVE  AccessInv'
<1>1. WellFormed(q)
  BY InFlight DEF WellFormed
<1>2. Knows(q)
  BY InFlight DEF Knows, MayUse
<1> QED BY <1>1, <1>2, MoveKeeps

LEMMA FindKeyKeeps ==
    ASSUME AccessInv, NEW r \in Requests, FindKey(r)
    PROVE  AccessInv'
<1> DEFINE q == [req[r] EXCEPT !.pc = "role"]
<1>1. req[r].pc = "find" /\ UNCHANGED <<Tables, cache, workload>>
  BY DEF FindKey
<1>2. CASE End(r)
  BY <1>1, <1>2, EndKeeps
<1>3. CASE Continue(r, q)
  <2>1. req[r] \in Request /\ req[r].role \in req[r].held \cup {None}
    BY <1>1, InFlight DEF Knows
  <2>2. /\ q \in Request /\ q.pc = "role" /\ q.kind = req[r].kind
        /\ q.at = req[r].at /\ q.user = req[r].user /\ q.key = req[r].key
        /\ q.held = req[r].held /\ q.since = req[r].since
        /\ q.perms = req[r].perms /\ q.role = req[r].role
    BY <2>1 DEF Request
  <2> HIDE DEF q
  <2> QED BY <1>1, <1>3, <2>1, <2>2, GuardStepKeeps
<1> QED BY <1>2, <1>3 DEF FindKey, GoTo

LEMMA ReadRoleKeeps ==
    ASSUME AccessInv, NEW r \in Requests, ReadRole(r)
    PROVE  AccessInv'
<1> DEFINE q == [req[r] EXCEPT !.pc = "grants", !.role = role[req[r].user]]
<1>1. /\ req[r].pc = "role" /\ UNCHANGED <<Tables, cache, workload>>
      /\ Continue(r, q)
  BY DEF ReadRole
<1>2. /\ req[r] \in Request /\ role[req[r].user] \in req[r].held \cup {None}
      /\ role[req[r].user] \in Roles \cup {None}
  <2>1. req[r] \in Request /\ role[req[r].user] \in req[r].held \cup {None}
    BY <1>1, InFlight DEF Knows
  <2>2. req[r].held \subseteq Roles
    BY <2>1 DEF Request
  <2> QED BY <2>1, <2>2
<1>3. /\ q \in Request /\ q.pc = "grants" /\ q.kind = req[r].kind
      /\ q.at = req[r].at /\ q.user = req[r].user /\ q.key = req[r].key
      /\ q.held = req[r].held /\ q.since = req[r].since
      /\ q.perms = req[r].perms /\ q.role = role[req[r].user]
  BY <1>2 DEF Request
<1> HIDE DEF q
<1> QED BY <1>1, <1>2, <1>3, GuardStepKeeps

LEMMA ReadGrantsKeeps ==
    ASSUME AccessInv, NEW r \in Requests, ReadGrants(r)
    PROVE  AccessInv'
<1> DEFINE granted == Granted(req[r].role)
           session == [req[r] EXCEPT !.pc = "status", !.role = None,
                                     !.perms = granted]
           withKey == [req[r] EXCEPT !.role = None,
                         !.perms = granted \cap key[req[r].key].scopes]
<1>1. req[r].pc = "grants" /\ UNCHANGED <<Tables, cache, workload>>
  BY DEF ReadGrants
<1>2. /\ req[r] \in Request /\ WellFormed(req[r]) /\ Knows(req[r])
      /\ granted \subseteq Permissions /\ granted \subseteq MayUse(req[r])
  <2>1. req[r] \in Request /\ WellFormed(req[r]) /\ Knows(req[r])
    BY InFlight
  <2>2. req[r].role \in Roles \cup {None} /\ req[r].held \subseteq Roles
    BY <2>1 DEF Request
  <2>3. grants \in [Roles -> SUBSET Permissions]
    BY DEF AccessInv, TypeOK
  <2>4. /\ req[r].role \in req[r].held \cup {None}
        /\ \A x \in Roles : grants[x] \subseteq req[r].since[x]
    BY <1>1, <2>1 DEF Knows
  <2> QED BY <2>1, <2>2, <2>3, <2>4 DEF Granted, MayUse
<1>3. CASE req[r].key = None
  <2>1. /\ session \in Request /\ session.pc = "status" /\ session.role = None
        /\ session.user = req[r].user /\ session.at = req[r].at
        /\ session.key = None /\ session.perms = granted
        /\ session.held = req[r].held /\ session.since = req[r].since
    <3> HIDE DEF granted
    <3> QED BY <1>2, <1>3, ZenonT(40) DEF Request
  <2>2. Continue(r, session)
    BY <1>3 DEF ReadGrants
  <2> HIDE DEF session, granted
  <2>3. WellFormed(session)
    BY <1>1, <1>2, <2>1 DEF WellFormed
  <2>4. Knows(session)
    BY <1>1, <1>2, <2>1 DEF Knows, MayUse
  <2> QED BY <1>1, <2>1, <2>2, <2>3, <2>4, MoveKeeps
<1>4. CASE req[r].key # None
  <2>1. /\ withKey \in Request /\ withKey.pc = "grants" /\ withKey.role = None
        /\ withKey.user = req[r].user /\ withKey.at = req[r].at
        /\ withKey.key = req[r].key
        /\ withKey.perms = granted \cap key[req[r].key].scopes
        /\ withKey.held = req[r].held /\ withKey.since = req[r].since
    <3> HIDE DEF granted
    <3> QED BY <1>1, <1>2 DEF Request
  <2>2. Enter(r, withKey)
    BY <1>4 DEF ReadGrants
  <2> HIDE DEF withKey, granted
  <2>3. WellFormed(withKey)
    BY <1>1, <1>2, <2>1 DEF WellFormed
  <2>4. Knows(withKey)
    BY <1>1, <1>2, <2>1 DEF Knows, MayUse
  <2> QED BY <1>1, <2>1, <2>2, <2>3, <2>4, EnterKeeps
<1> QED BY <1>3, <1>4

LEMMA DecidedIs ==
    ASSUME AccessInv, NEW r \in Requests, req[r].pc \in {"status", "store"}
    PROVE  LET q == [req[r] EXCEPT !.read = FALSE, !.crossed = FALSE]
           IN  /\ q \in Request /\ q.pc = req[r].pc
               /\ WellFormed(q)
               /\ q.pc = "status" => Knows(q)
               /\ Knows([q EXCEPT !.pc = "handle"])
               /\ WellFormed([q EXCEPT !.pc = "handle"])
               /\ [q EXCEPT !.pc = "handle"] \in Request
               /\ [q EXCEPT !.pc = "handle"].pc = "handle"
<1> DEFINE q == [req[r] EXCEPT !.read = FALSE, !.crossed = FALSE]
           s == [q EXCEPT !.pc = "handle"]
<1>1. req[r] \in Request /\ WellFormed(req[r]) /\ Knows(req[r])
  BY InFlight
<1>2. /\ q \in Request /\ q.pc = req[r].pc /\ q.kind = req[r].kind
      /\ q.at = req[r].at /\ q.user = req[r].user /\ q.key = req[r].key
      /\ q.role = req[r].role /\ q.perms = req[r].perms
      /\ q.held = req[r].held /\ q.since = req[r].since
  BY <1>1 DEF Request
<1>3. /\ s \in Request /\ s.pc = "handle" /\ s.kind = req[r].kind
      /\ s.at = req[r].at /\ s.user = req[r].user /\ s.key = req[r].key
      /\ s.role = req[r].role /\ s.perms = req[r].perms
      /\ s.held = req[r].held /\ s.since = req[r].since
  <2> HIDE DEF q
  <2> QED BY <1>2 DEF Request
<1> HIDE DEF q, s
<1>4. WellFormed(q) /\ WellFormed(s)
  BY <1>1, <1>2, <1>3 DEF WellFormed
<1>5. Knows(s) /\ (q.pc = "status" => Knows(q))
  BY <1>1, <1>2, <1>3 DEF Knows, MayUse
<1> QED BY <1>2, <1>3, <1>4, <1>5 DEF q, s

LEMMA CacheHitKeeps ==
    ASSUME AccessInv, NEW r \in Requests, CacheHit(r)
    PROVE  AccessInv'
<1> DEFINE q == [req[r] EXCEPT !.read = FALSE, !.crossed = FALSE]
<1>1. req[r].pc = "status" /\ UNCHANGED <<Tables, cache, workload>>
  BY DEF CacheHit
<1>2. CASE End(r)
  BY <1>1, <1>2, EndKeeps
<1>3. CASE Enter(r, q)
  <2>1. q \in Request /\ q.pc = "status" /\ WellFormed(q) /\ Knows(q)
    BY <1>1, DecidedIs
  <2> HIDE DEF q
  <2> QED BY <1>1, <1>3, <2>1, EnterKeeps
<1> QED BY <1>2, <1>3 DEF CacheHit, Decide

LEMMA CacheMissKeeps ==
    ASSUME AccessInv, NEW r \in Requests, CacheMiss(r)
    PROVE  AccessInv'
<1> DEFINE q == [req[r] EXCEPT !.pc = "store", !.read = deleted[req[r].user]]
<1>1. /\ req[r].pc = "status" /\ UNCHANGED <<Tables, cache, workload>>
      /\ Continue(r, q)
  BY DEF CacheMiss
<1>2. /\ req[r] \in Request /\ WellFormed(req[r]) /\ Knows(req[r])
      /\ deleted[req[r].user] \in BOOLEAN
  BY <1>1, InFlight DEF AccessInv, TypeOK, WellFormed
<1>3. /\ q \in Request /\ q.pc = "store" /\ q.kind = req[r].kind
      /\ q.at = req[r].at /\ q.user = req[r].user /\ q.key = req[r].key
      /\ q.role = req[r].role /\ q.perms = req[r].perms
      /\ q.held = req[r].held /\ q.since = req[r].since
      /\ q.read = deleted[req[r].user]
  BY <1>2 DEF Request
<1> HIDE DEF q
<1>4. WellFormed(q)
  BY <1>1, <1>2, <1>3 DEF WellFormed
<1>5. Knows(q)
  BY <1>1, <1>2, <1>3 DEF Knows, MayUse
<1> QED BY <1>1, <1>3, <1>4, <1>5, MoveKeeps

\* The entry is what the lookup read, or excused where a write crossed it.
LEMMA CacheStoreKeeps ==
    ASSUME AccessInv, NEW r \in Requests, CacheStore(r)
    PROVE  AccessInv'
<1> DEFINE i == req[r].at
           u == req[r].user
           q == [req[r] EXCEPT !.read = FALSE, !.crossed = FALSE]
           entry == [value |-> IF req[r].read THEN "deleted" ELSE "active",
                     excused |-> req[r].crossed \/ Invalidated(i, u)]
<1>1. /\ req[r].pc = "store" /\ UNCHANGED <<deleted, role, grants, key, workload>>
      /\ cache' = [cache EXCEPT ![i][u] = entry] /\ Decide(r, req[r].read)
  BY DEF CacheStore, Tables
<1>2. /\ req[r] \in Request /\ WellFormed(req[r]) /\ Knows(req[r])
      /\ i \in Processes /\ u \in Users
      /\ cache \in [Processes -> [Users -> Entry]]
      /\ deleted \in [Users -> BOOLEAN]
  BY <1>1, InFlight DEF AccessInv, TypeOK, WellFormed
<1>3. PICK s \in Request : /\ Continue(r, s) /\ WellFormed(s) /\ Knows(s)
                           /\ s.pc \in {"idle", "handle"}
  <2>1. CASE End(r)
    BY <2>1, IdleKnows DEF End
  <2>2. CASE Continue(r, [q EXCEPT !.pc = "handle"])
    BY <1>1, <2>2, DecidedIs
  <2> QED BY <1>1, <2>1, <2>2 DEF Decide, Enter
<1>4. /\ req'[r] = s /\ \A p \in Requests : p # r => req'[p] = req[p]
      /\ req' \in [Requests -> Request]
  BY <1>3 DEF Continue, AccessInv, TypeOK
<1>5. /\ entry \in Entry /\ entry.value # "none"
      /\ entry.excused <=> (req[r].crossed \/ Invalidated(i, u))
      /\ ~req[r].crossed => (deleted[u] <=> entry.value = "deleted")
  <2>1. req[r].crossed \in BOOLEAN /\ req[r].read \in BOOLEAN
    BY <1>2 DEF Request
  <2>2. Invalidated(i, u) \in BOOLEAN
    BY DEF Invalidated
  <2> QED BY <1>1, <1>2, <2>1, <2>2 DEF Entry, Knows
<1> HIDE DEF entry, q
<1>6. /\ cache' \in [Processes -> [Users -> Entry]]
      /\ cache'[i][u] = entry
      /\ \A j \in Processes, v \in Users :
            ~(j = i /\ v = u) => cache'[j][v] = cache[j][v]
  BY <1>1, <1>2, <1>5
<1>7. TypeOK'
  <2>1. \A p \in Requests : WellFormed(req'[p])
    BY <1>3, <1>4 DEF AccessInv, TypeOK
  <2> QED BY <1>1, <1>4, <1>6, <2>1 DEF AccessInv, TypeOK, WellFormed
<1>8. \A p \in Requests : Knows(req[p])'
  BY <1>1, <1>3, <1>4 DEF AccessInv, Knows, MayUse
<1>9. StaleForCause'
  <2> SUFFICES ASSUME NEW j \in Processes, NEW v \in Users
               PROVE  \/ cache'[j][v].value = "none"
                      \/ deleted'[v] <=> cache'[j][v].value = "deleted"
                      \/ cache'[j][v].excused
                      \/ \E p \in Requests : /\ req'[p].pc = "invalidate"
                                             /\ req'[p].at = j /\ req'[p].user = v
    BY DEF StaleForCause
  <2>1. CASE j = i /\ v = u
    BY <1>1, <1>5, <1>6, <2>1
  <2>2. CASE ~(j = i /\ v = u)
    <3>1. cache'[j][v] = cache[j][v] /\ deleted' = deleted
      BY <1>1, <1>6, <2>2
    <3>2. \A p \in Requests : req[p].pc = "invalidate" => req'[p] = req[p]
      BY <1>1, <1>4
    <3> QED BY <3>1, <3>2 DEF AccessInv, StaleForCause
  <2> QED BY <2>1, <2>2
<1>10. DroppedBeforeCommit'
  <2> SUFFICES ASSUME NEW p \in Requests, req'[p].pc = "commit"
               PROVE  LET e == cache'[req'[p].at][req'[p].user] IN
                      e.value = "none" \/ e.excused
    BY DEF DroppedBeforeCommit
  <2>1. req'[p] = req[p] /\ req[p].pc = "commit"
    BY <1>3, <1>4
  <2>2. req[p].at \in Processes /\ req[p].user \in Users
    BY <2>1, InFlight DEF WellFormed
  <2>3. CASE req[p].at = i /\ req[p].user = u
    BY <1>5, <1>6, <2>1, <2>3 DEF Invalidated
  <2>4. CASE ~(req[p].at = i /\ req[p].user = u)
    BY <1>6, <2>1, <2>2, <2>4 DEF AccessInv, DroppedBeforeCommit
  <2> QED BY <2>3, <2>4
<1>11. KeysDieWithAccount'
  BY <1>1, <1>4 DEF AccessInv, KeysDieWithAccount
<1> QED BY <1>7, <1>8, <1>9, <1>10, <1>11 DEF AccessInv

LEMMA ActKeeps ==
    ASSUME AccessInv, NEW r \in Requests, Act(r)
    PROVE  AccessInv'
BY EndKeeps DEF Act

-----------------------------------------------------------------------------
(* What the handlers do to requests, caches and keys *)

LEMMA EndEffect ==
    ASSUME AccessInv, NEW r \in Requests, End(r)
    PROVE  /\ req' \in [Requests -> Request] /\ req'[r] = Idle
           /\ \A p \in Requests : p # r => req'[p] = req[p]
           /\ \A p \in Requests : WellFormed(req'[p])
<1>1. Idle \in Request /\ WellFormed(Idle)
  BY IdleKnows
<1> QED BY <1>1 DEF End, Continue, AccessInv, TypeOK

LEMMA ForgetEffect ==
    ASSUME AccessInv, NEW i \in Processes, NEW u \in Users, Forget(i, u)
    PROVE  /\ cache' \in [Processes -> [Users -> Entry]]
           /\ cache'[i][u].value = "none"
           /\ \A j \in Processes, v \in Users :
                 ~(j = i /\ v = u) => cache'[j][v] = cache[j][v]
<1>1. NoEntry \in Entry /\ NoEntry.value = "none"
  BY DEF NoEntry, Entry
<1>2. cache \in [Processes -> [Users -> Entry]]
  BY DEF AccessInv, TypeOK
<1>3. cache' = [cache EXCEPT ![i][u] = NoEntry]
  BY DEF Forget
<1> QED BY <1>1, <1>2, <1>3

\* Keys may come, and die, but keep what they were created with.
LEMMA KeysKnown ==
    ASSUME AccessInv, UNCHANGED <<deleted, role, grants>>,
           \A k \in Keys : key[k].state # "none" =>
              key'[k].state # "none" /\ key'[k].scopes = key[k].scopes,
           \A p \in Requests : req'[p] = req[p] \/ req'[p] = Idle
    PROVE  \A p \in Requests : Knows(req[p])'
<1> SUFFICES ASSUME NEW p \in Requests
             PROVE  Knows(req[p])'
  OBVIOUS
<1>1. CASE req'[p] = Idle
  BY <1>1, IdleKnows DEF Knows
<1>2. CASE req'[p] = req[p]
  <2>1. req[p] \in Request /\ Knows(req[p])
    BY InFlight
  <2>2. req[p].key # None => req[p].key \in Keys
    BY <2>1 DEF Request
  <2> QED BY <1>2, <2>1, <2>2 DEF Knows, MayUse
<1> QED BY <1>1, <1>2

LEMMA WriteEffect ==
    ASSUME AccessInv, NEW u \in Users, NEW value \in BOOLEAN, NEW told,
           NEW next \in [Requests -> Request], Write(u, value, told, next)
    PROVE  /\ deleted' \in [Users -> BOOLEAN]
           /\ \A v \in Users : v # u => deleted'[v] = deleted[v]
           /\ req' \in [Requests -> Request]
           /\ \A p \in Requests :
                /\ req'[p].pc = next[p].pc /\ req'[p].kind = next[p].kind
                /\ req'[p].at = next[p].at /\ req'[p].user = next[p].user
                /\ req'[p].key = next[p].key /\ req'[p].role = next[p].role
                /\ req'[p].perms = next[p].perms /\ req'[p].read = next[p].read
                /\ req'[p].held = next[p].held /\ req'[p].since = next[p].since
                /\ next[p].user # u => req'[p] = next[p]
                /\ next[p].pc = "store" /\ next[p].user = u => req'[p].crossed
           /\ cache' \in [Processes -> [Users -> Entry]]
           /\ \A i \in Processes, v \in Users :
                /\ cache'[i][v].value = cache[i][v].value
                /\ cache[i][v].excused => cache'[i][v].excused
                /\ v # u => cache'[i][v] = cache[i][v]
                /\ i \notin told =>
                     cache'[i][u].value = "none" \/ cache'[i][u].excused
<1>1. /\ deleted \in [Users -> BOOLEAN]
      /\ cache \in [Processes -> [Users -> Entry]]
  BY DEF AccessInv, TypeOK
<1>2. deleted' = [deleted EXCEPT ![u] = value]
  BY DEF Write
<1>3. ASSUME NEW p \in Requests
      PROVE  /\ req'[p] \in Request
             /\ req'[p].pc = next[p].pc /\ req'[p].kind = next[p].kind
             /\ req'[p].at = next[p].at /\ req'[p].user = next[p].user
             /\ req'[p].key = next[p].key /\ req'[p].role = next[p].role
             /\ req'[p].perms = next[p].perms /\ req'[p].read = next[p].read
             /\ req'[p].held = next[p].held /\ req'[p].since = next[p].since
             /\ next[p].user # u => req'[p] = next[p]
             /\ next[p].pc = "store" /\ next[p].user = u => req'[p].crossed
  <2>1. req'[p] = IF next[p].pc = "store" /\ next[p].user = u
                  THEN [next[p] EXCEPT !.crossed = TRUE] ELSE next[p]
    BY DEF Write
  <2> DEFINE n == next[p]
             w == [n EXCEPT !.crossed = TRUE]
  <2>2. n \in Request
    OBVIOUS
  <2> HIDE DEF n
  <2>3. /\ w \in Request /\ w.crossed /\ w.pc = n.pc /\ w.kind = n.kind
        /\ w.at = n.at /\ w.user = n.user /\ w.key = n.key /\ w.role = n.role
        /\ w.perms = n.perms /\ w.read = n.read /\ w.held = n.held
        /\ w.since = n.since
    BY <2>2 DEF Request
  <2>4. req'[p] = IF n.pc = "store" /\ n.user = u THEN w ELSE n
    BY <2>1 DEF n
  <2> HIDE DEF w
  <2>5. /\ req'[p] \in Request
        /\ req'[p].pc = n.pc /\ req'[p].kind = n.kind
        /\ req'[p].at = n.at /\ req'[p].user = n.user
        /\ req'[p].key = n.key /\ req'[p].role = n.role
        /\ req'[p].perms = n.perms /\ req'[p].read = n.read
        /\ req'[p].held = n.held /\ req'[p].since = n.since
        /\ n.user # u => req'[p] = n
        /\ n.pc = "store" /\ n.user = u => req'[p].crossed
    BY <2>2, <2>3, <2>4
  <2> QED BY <2>5 DEF n
<1>4. req' \in [Requests -> Request]
  <2>1. req' = [p \in Requests |->
                  IF next[p].pc = "store" /\ next[p].user = u
                  THEN [next[p] EXCEPT !.crossed = TRUE] ELSE next[p]]
    BY DEF Write
  <2> QED BY <1>3, <2>1
<1>5. cache' = [i \in Processes |->
                  IF i \in told \/ cache[i][u] = NoEntry THEN cache[i]
                  ELSE [cache[i] EXCEPT ![u].excused = TRUE]]
  BY DEF Write
<1>6. ASSUME NEW i \in Processes
      PROVE  /\ cache'[i] \in [Users -> Entry]
             /\ \A v \in Users :
                  /\ cache'[i][v].value = cache[i][v].value
                  /\ cache[i][v].excused => cache'[i][v].excused
                  /\ v # u => cache'[i][v] = cache[i][v]
             /\ i \notin told =>
                  cache'[i][u].value = "none" \/ cache'[i][u].excused
  <2>1. cache[i] \in [Users -> Entry]
    BY <1>1
  <2>2. CASE i \in told \/ cache[i][u] = NoEntry
    BY <1>5, <2>1, <2>2 DEF NoEntry
  <2>3. CASE ~(i \in told \/ cache[i][u] = NoEntry)
    <3> DEFINE e == [cache[i][u] EXCEPT !.excused = TRUE]
    <3>1. cache'[i] = [cache[i] EXCEPT ![u] = e]
      BY <1>5, <2>1, <2>3
    <3>2. e \in Entry /\ e.value = cache[i][u].value /\ e.excused
      BY <2>1 DEF Entry
    <3> HIDE DEF e
    <3> QED BY <2>1, <3>1, <3>2
  <2> QED BY <2>2, <2>3
<1>7. cache' \in [Processes -> [Users -> Entry]]
  BY <1>5, <1>6
<1> QED BY <1>1, <1>2, <1>3, <1>4, <1>6, <1>7

\* A write leaves every request knowing what it knew: a lookup of the account
\* that is under way is crossed.
LEMMA WriteKnows ==
    ASSUME AccessInv, NEW u \in Users, NEW value \in BOOLEAN, NEW told,
           NEW next \in [Requests -> Request], Write(u, value, told, next),
           UNCHANGED <<role, grants>>,
           \A k \in Keys : /\ key'[k].scopes = key[k].scopes
                           /\ key'[k].state = key[k].state,
           \A p \in Requests :
             \/ next[p] = req[p]
             \/ /\ req[p].pc \notin {"idle", "store"}
                /\ next[p].pc # "store" /\ next[p].key = req[p].key
                /\ next[p].user = req[p].user /\ next[p].role = req[p].role
                /\ next[p].perms = req[p].perms /\ next[p].held = req[p].held
                /\ next[p].since = req[p].since
    PROVE  \A p \in Requests : Knows(req[p])'
<1> SUFFICES ASSUME NEW p \in Requests
             PROVE  Knows(req[p])'
  OBVIOUS
<1> DEFINE q == req[p]
<1>1. q \in Request /\ WellFormed(q) /\ Knows(q)
  BY InFlight
<1>2. /\ q'.pc = next[p].pc /\ q'.key = next[p].key /\ q'.user = next[p].user
      /\ q'.role = next[p].role /\ q'.perms = next[p].perms
      /\ q'.held = next[p].held /\ q'.since = next[p].since
      /\ q'.read = next[p].read
      /\ next[p].user # u => q' = next[p]
      /\ next[p].pc = "store" /\ next[p].user = u => q'.crossed
  BY WriteEffect
<1>3. /\ q'.key = q.key /\ q'.user = q.user /\ q'.role = q.role
      /\ q'.perms = q.perms /\ q'.held = q.held /\ q'.since = q.since
      /\ q'.pc # "idle" => q.pc # "idle"
  BY <1>2
<1>4. q.key # None => q.key \in Keys
  BY <1>1 DEF Request
<1>5. q'.pc = "store" /\ ~q'.crossed => q'.read = deleted'[q'.user]
  <2> SUFFICES ASSUME q'.pc = "store", ~q'.crossed
               PROVE  q'.read = deleted'[q'.user]
    OBVIOUS
  <2>1. next[p].user # u /\ q' = next[p] /\ next[p] = q
    BY <1>2
  <2>2. q.user \in Users /\ q.read = deleted[q.user]
    BY <1>1, <2>1 DEF WellFormed, Knows
  <2> QED BY <2>1, <2>2, WriteEffect
<1> HIDE DEF q
<1>6. Knows(q)'
  <2>1. /\ role' = role /\ grants' = grants
        /\ q.key # None => key'[q.key].state = key[q.key].state
                           /\ key'[q.key].scopes = key[q.key].scopes
    BY <1>4
  <2>2. MayUse(q)' = MayUse(q)
    BY <1>3 DEF MayUse
  <2> QED BY <1>1, <1>3, <1>5, <2>1, <2>2 DEF Knows
<1> QED BY <1>6 DEF q

-----------------------------------------------------------------------------
(* The handlers *)

LEMMA CreateKeyKeeps ==
    ASSUME AccessInv, NEW r \in Requests, CreateKey(r)
    PROVE  AccessInv'
<1> DEFINE row == [state |-> "live", owner |-> req[r].user,
                   scopes |-> req[r].asks, doomed |-> FALSE]
<1>1. /\ req[r].pc = "handle" /\ End(r) /\ UNCHANGED <<deleted, role, grants, cache>>
      /\ req[r] \in Request /\ WellFormed(req[r])
  BY InFlight DEF CreateKey
<1>2. /\ req' \in [Requests -> Request] /\ req'[r] = Idle
      /\ \A p \in Requests : p # r => req'[p] = req[p]
      /\ \A p \in Requests : WellFormed(req'[p])
  BY <1>1, EndEffect
<1>3. row \in KeyRow /\ row.owner \in Users /\ row.state = "live" /\ ~row.doomed
  BY <1>1 DEF KeyRow, Request, WellFormed
<1>4. \/ UNCHANGED <<key, workload>>
      \/ /\ workload.keys > 0 /\ workload' = [workload EXCEPT !.keys = @ - 1]
         /\ \E k \in Keys : /\ key[k].state = "none"
                            /\ key' = [key EXCEPT ![k] = row]
  BY DEF CreateKey, Insert
<1> HIDE DEF row
<1>5. workload' \in Workload
  <2>1. workload \in Workload
    BY DEF AccessInv, TypeOK
  <2> QED BY <1>4, <2>1 DEF Workload
<1>6. /\ key' \in [Keys -> KeyRow]
      /\ \A k \in Keys : \/ key'[k] = key[k]
                         \/ key[k].state = "none" /\ key'[k] = row
  <2>1. key \in [Keys -> KeyRow]
    BY DEF AccessInv, TypeOK
  <2> QED BY <1>3, <1>4, <2>1
<1>7. TypeOK'
  <2>1. \A k \in Keys : key'[k].state # "none" => key'[k].owner \in Users
    BY <1>3, <1>6 DEF AccessInv, TypeOK
  <2> QED BY <1>1, <1>2, <1>5, <1>6, <2>1 DEF AccessInv, TypeOK, WellFormed
<1>8. \A p \in Requests : Knows(req[p])'
  BY <1>1, <1>2, <1>6, KeysKnown
<1>9. StaleForCause'
  BY <1>1, <1>2 DEF AccessInv, StaleForCause
<1>10. DroppedBeforeCommit'
  BY <1>1, <1>2, IdleKnows DEF AccessInv, DroppedBeforeCommit
<1>11. KeysDieWithAccount'
  BY <1>1, <1>2, <1>3, <1>6 DEF AccessInv, KeysDieWithAccount
<1> QED BY <1>7, <1>8, <1>9, <1>10, <1>11 DEF AccessInv

LEMMA RevokeKeyKeeps ==
    ASSUME AccessInv, NEW r \in Requests, RevokeKey(r)
    PROVE  AccessInv'
<1>1. /\ req[r].pc = "handle" /\ End(r)
      /\ UNCHANGED <<deleted, role, grants, cache, workload>>
  BY DEF RevokeKey
<1>2. /\ req' \in [Requests -> Request] /\ req'[r] = Idle
      /\ \A p \in Requests : p # r => req'[p] = req[p]
      /\ \A p \in Requests : WellFormed(req'[p])
  BY <1>1, EndEffect
<1>3. PICK k \in Keys : key' = IF key[k].state = "none" THEN key
                               ELSE [key EXCEPT ![k].state = "dead"]
  BY DEF RevokeKey
<1>4. /\ key' \in [Keys -> KeyRow]
      /\ \A j \in Keys : /\ key'[j].scopes = key[j].scopes
                         /\ key'[j].owner = key[j].owner
                         /\ key'[j].doomed = key[j].doomed
                         /\ key'[j].state = "none" <=> key[j].state = "none"
                         /\ key'[j].state = "live" => key[j].state = "live"
  <2>1. key \in [Keys -> KeyRow]
    BY DEF AccessInv, TypeOK
  <2> DEFINE dead == [key[k] EXCEPT !.state = "dead"]
  <2>2. /\ dead \in KeyRow /\ dead.scopes = key[k].scopes
        /\ dead.owner = key[k].owner /\ dead.doomed = key[k].doomed
        /\ dead.state = "dead"
    BY <2>1 DEF KeyRow
  <2>3. key' = IF key[k].state = "none" THEN key ELSE [key EXCEPT ![k] = dead]
    BY <1>3, <2>1
  <2> HIDE DEF dead
  <2> QED BY <2>1, <2>2, <2>3
<1>5. TypeOK'
  <2>1. \A j \in Keys : key'[j].state # "none" => key'[j].owner \in Users
    BY <1>4 DEF AccessInv, TypeOK
  <2> QED BY <1>1, <1>2, <1>4, <2>1 DEF AccessInv, TypeOK, WellFormed
<1>6. \A p \in Requests : Knows(req[p])'
  BY <1>1, <1>2, <1>4, KeysKnown
<1>7. StaleForCause'
  BY <1>1, <1>2 DEF AccessInv, StaleForCause
<1>8. DroppedBeforeCommit'
  BY <1>1, <1>2, IdleKnows DEF AccessInv, DroppedBeforeCommit
<1>9. KeysDieWithAccount'
  BY <1>1, <1>2, <1>4 DEF AccessInv, KeysDieWithAccount
<1> QED BY <1>5, <1>6, <1>7, <1>8, <1>9 DEF AccessInv

LEMMA DeleteValidateKeeps ==
    ASSUME AccessInv, NEW r \in Requests, DeleteValidate(r)
    PROVE  AccessInv'
<1> DEFINE q == [req[r] EXCEPT !.pc = "resolve"]
<1>1. /\ req[r].pc = "handle" /\ req[r].kind = "delete"
      /\ UNCHANGED <<Tables, cache, workload>>
  BY DEF DeleteValidate
<1>2. CASE End(r)
  BY <1>1, <1>2, EndKeeps
<1>3. CASE Continue(r, q)
  <2>1. req[r] \in Request /\ WellFormed(req[r]) /\ Knows(req[r])
    BY InFlight
  <2>2. /\ q \in Request /\ q.pc = "resolve" /\ q.kind = req[r].kind
        /\ q.at = req[r].at /\ q.user = req[r].user /\ q.key = req[r].key
        /\ q.role = req[r].role /\ q.perms = req[r].perms
        /\ q.held = req[r].held /\ q.since = req[r].since
    BY <1>1, <2>1 DEF Request
  <2> HIDE DEF q
  <2>3. WellFormed(q)
    BY <1>1, <2>1, <2>2 DEF WellFormed
  <2>4. Knows(q)
    BY <1>1, <2>1, <2>2 DEF Knows, MayUse
  <2> QED BY <1>1, <1>3, <2>2, <2>3, <2>4, MoveKeeps
<1> QED BY <1>2, <1>3 DEF DeleteValidate, GoTo

LEMMA DeleteInvalidateKeeps ==
    ASSUME AccessInv, NEW r \in Requests, DeleteInvalidate(r)
    PROVE  AccessInv'
<1> DEFINE i == req[r].at
           u == req[r].user
           q == [req[r] EXCEPT !.pc = "commit"]
<1>1. /\ req[r].pc = "resolve" /\ Forget(i, u)
      /\ Continue(r, q) /\ UNCHANGED <<deleted, role, grants, key>>
      /\ workload.writes > 0 /\ workload' = [workload EXCEPT !.writes = @ - 1]
  BY DEF DeleteInvalidate, GoTo, CountWrite, Tables
<1>2. /\ req[r] \in Request /\ WellFormed(req[r]) /\ Knows(req[r])
      /\ i \in Processes /\ u \in Users
  BY <1>1, InFlight DEF WellFormed
<1>3. /\ q \in Request /\ q.pc = "commit" /\ q.kind = req[r].kind /\ q.at = i
      /\ q.user = u /\ q.key = req[r].key /\ q.role = req[r].role
      /\ q.perms = req[r].perms /\ q.held = req[r].held /\ q.since = req[r].since
  BY <1>1, <1>2 DEF Request
<1> HIDE DEF q
<1>4. /\ req' \in [Requests -> Request] /\ req'[r] = q
      /\ \A p \in Requests : p # r => req'[p] = req[p]
  BY <1>1, <1>3 DEF Continue, AccessInv, TypeOK
<1>5. /\ cache' \in [Processes -> [Users -> Entry]] /\ cache'[i][u].value = "none"
      /\ \A j \in Processes, v \in Users :
            ~(j = i /\ v = u) => cache'[j][v] = cache[j][v]
  BY <1>1, <1>2, ForgetEffect
<1>6. WellFormed(q) /\ Knows(q)
  <2>1. WellFormed(q)
    BY <1>1, <1>2, <1>3 DEF WellFormed
  <2>2. Knows(q)
    BY <1>1, <1>2, <1>3 DEF Knows, MayUse
  <2> QED BY <2>1, <2>2
<1>7. TypeOK'
  <2>1. \A p \in Requests : WellFormed(req'[p])
    BY <1>4, <1>6 DEF AccessInv, TypeOK
  <2>2. workload' \in Workload
    <3>1. workload \in Workload
      BY DEF AccessInv, TypeOK
    <3> QED BY <1>1, <3>1 DEF Workload
  <2> QED BY <1>1, <1>4, <1>5, <2>1, <2>2 DEF AccessInv, TypeOK, WellFormed
<1>8. \A p \in Requests : Knows(req[p])'
  BY <1>1, <1>4, <1>6 DEF AccessInv, Knows, MayUse
<1>9. StaleForCause'
  <2>1. \A p \in Requests : req[p].pc = "invalidate" => req'[p] = req[p]
    BY <1>1, <1>4
  <2> SUFFICES ASSUME NEW j \in Processes, NEW v \in Users, ~(j = i /\ v = u)
               PROVE  \/ cache'[j][v].value = "none"
                      \/ deleted'[v] <=> cache'[j][v].value = "deleted"
                      \/ cache'[j][v].excused
                      \/ \E p \in Requests : /\ req'[p].pc = "invalidate"
                                             /\ req'[p].at = j /\ req'[p].user = v
    BY <1>5 DEF StaleForCause
  <2>2. cache'[j][v] = cache[j][v] /\ deleted' = deleted
    BY <1>1, <1>5
  <2> QED BY <2>1, <2>2 DEF AccessInv, StaleForCause
<1>10. DroppedBeforeCommit'
  <2> SUFFICES ASSUME NEW p \in Requests, req'[p].pc = "commit"
               PROVE  LET e == cache'[req'[p].at][req'[p].user] IN
                      e.value = "none" \/ e.excused
    BY DEF DroppedBeforeCommit
  <2>1. CASE req'[p].at = i /\ req'[p].user = u
    BY <1>5, <2>1
  <2>2. CASE ~(req'[p].at = i /\ req'[p].user = u)
    <3>1. req'[p] = req[p] /\ req[p].pc = "commit"
      BY <1>3, <1>4, <2>2
    <3>2. req[p].at \in Processes /\ req[p].user \in Users
      BY <3>1, InFlight DEF WellFormed
    <3> QED BY <1>5, <2>2, <3>1, <3>2 DEF AccessInv, DroppedBeforeCommit
  <2> QED BY <2>1, <2>2
<1>11. KeysDieWithAccount'
  BY <1>1, <1>4 DEF AccessInv, KeysDieWithAccount
<1> QED BY <1>7, <1>8, <1>9, <1>10, <1>11 DEF AccessInv

\* In next, the requests are where they were, or done with a write.
Advances(next) ==
    \A p \in Requests :
      \/ next[p] = req[p]
      \/ /\ req[p].pc \notin {"idle", "store", "invalidate"}
         /\ next[p].pc \notin {"store", "commit"}
         /\ next[p].key = req[p].key
         /\ next[p].user = req[p].user /\ next[p].role = req[p].role
         /\ next[p].perms = req[p].perms /\ next[p].held = req[p].held
         /\ next[p].since = req[p].since

\* The processes that are told have no entry that matters, or will drop it.
Excuses(u, told, next) ==
    \A i \in Processes :
      i \in told =>
        \/ cache[i][u].value = "none" \/ cache[i][u].excused
        \/ \E p \in Requests : /\ next[p].pc = "invalidate"
                               /\ next[p].at = i /\ next[p].user = u

KeysStay ==
    \A k \in Keys : /\ key'[k].scopes = key[k].scopes
                    /\ key'[k].state = key[k].state
                    /\ key'[k].owner = key[k].owner

\* What the writes of deleted_at have in common.
LEMMA WriteKeeps ==
    ASSUME AccessInv, NEW u \in Users, NEW value \in BOOLEAN, NEW told,
           NEW next \in [Requests -> Request], Write(u, value, told, next),
           UNCHANGED <<role, grants>>, workload' \in Workload,
           key' \in [Keys -> KeyRow],
           KeysStay, \A p \in Requests : WellFormed(next[p]),
           Advances(next), Excuses(u, told, next)
    PROVE  /\ TypeOK' /\ (\A p \in Requests : Knows(req[p])')
           /\ StaleForCause' /\ DroppedBeforeCommit'
           /\ \A p \in Requests :
                req'[p].pc = next[p].pc /\ req'[p].user = next[p].user
<1>1. /\ deleted' \in [Users -> BOOLEAN]
      /\ \A v \in Users : v # u => deleted'[v] = deleted[v]
      /\ req' \in [Requests -> Request]
      /\ cache' \in [Processes -> [Users -> Entry]]
  BY WriteEffect
<1>2. \A p \in Requests :
         /\ req'[p].pc = next[p].pc /\ req'[p].kind = next[p].kind
         /\ req'[p].at = next[p].at /\ req'[p].user = next[p].user
         /\ req'[p].key = next[p].key
  BY WriteEffect
<1>3. \A i \in Processes, v \in Users :
         /\ cache'[i][v].value = cache[i][v].value
         /\ cache[i][v].excused => cache'[i][v].excused
         /\ v # u => cache'[i][v] = cache[i][v]
         /\ i \notin told => cache'[i][u].value = "none" \/ cache'[i][u].excused
  BY WriteEffect
<1>4. TypeOK'
  <2>1. \A p \in Requests : WellFormed(req[p])'
    BY <1>2 DEF WellFormed
  <2>2. \A k \in Keys : key'[k].state # "none" => key'[k].owner \in Users
    BY DEF AccessInv, TypeOK, KeysStay
  <2> QED BY <1>1, <2>1, <2>2 DEF AccessInv, TypeOK
<1>5. \A p \in Requests : Knows(req[p])'
  BY WriteKnows DEF Advances, KeysStay
<1>6. StaleForCause'
  <2> SUFFICES ASSUME NEW i \in Processes, NEW v \in Users
               PROVE  \/ cache'[i][v].value = "none"
                      \/ deleted'[v] <=> cache'[i][v].value = "deleted"
                      \/ cache'[i][v].excused
                      \/ \E p \in Requests : /\ req'[p].pc = "invalidate"
                                             /\ req'[p].at = i /\ req'[p].user = v
    BY DEF StaleForCause
  <2>1. CASE v # u
    <3>1. cache'[i][v] = cache[i][v] /\ deleted'[v] = deleted[v]
      BY <1>1, <1>3, <2>1
    <3>2. \A p \in Requests : req[p].pc = "invalidate" =>
             /\ req'[p].pc = "invalidate" /\ req'[p].at = req[p].at
             /\ req'[p].user = req[p].user
      BY <1>2 DEF Advances
    <3> QED BY <3>1, <3>2 DEF AccessInv, StaleForCause
  <2>2. CASE v = u /\ i \notin told
    BY <1>3, <2>2
  <2>3. CASE v = u /\ i \in told
    BY <1>2, <1>3, <2>3 DEF Excuses
  <2> QED BY <2>1, <2>2, <2>3
<1>7. DroppedBeforeCommit'
  <2> SUFFICES ASSUME NEW p \in Requests, req'[p].pc = "commit"
               PROVE  LET e == cache'[req'[p].at][req'[p].user] IN
                      e.value = "none" \/ e.excused
    BY DEF DroppedBeforeCommit
  <2>1. /\ req[p].pc = "commit" /\ req'[p].at = req[p].at
        /\ req'[p].user = req[p].user
    BY <1>2 DEF Advances
  <2>2. req[p].at \in Processes /\ req[p].user \in Users
    BY <2>1, InFlight DEF WellFormed
  <2> QED BY <1>3, <2>1, <2>2 DEF AccessInv, DroppedBeforeCommit
<1> QED BY <1>2, <1>4, <1>5, <1>6, <1>7

LEMMA CountKeeps ==
    ASSUME AccessInv, CountWrite \/ CountEdit
    PROVE  workload' \in Workload
<1>1. workload \in Workload
  BY DEF AccessInv, TypeOK
<1> QED BY <1>1 DEF CountWrite, CountEdit, Workload

LEMMA DeleteCommitKeeps ==
    ASSUME AccessInv, NEW r \in Requests, DeleteCommit(r)
    PROVE  AccessInv'
<1> DEFINE u == req[r].user
           q == [req[r] EXCEPT !.pc = "emit"]
           next == [req EXCEPT ![r].pc = "emit"]
           Doomed(k) == [key[k] EXCEPT !.doomed = TRUE]
<1>1. /\ req[r].pc = "commit" /\ Write(u, TRUE, {req[r].at}, next)
      /\ UNCHANGED <<role, grants, workload>>
      /\ key' = [k \in Keys |-> IF key[k].owner = u /\ key[k].state = "live"
                                THEN Doomed(k) ELSE key[k]]
  BY DEF DeleteCommit
<1>2. /\ req[r] \in Request /\ WellFormed(req[r])
      /\ req[r].at \in Processes /\ u \in Users /\ req[r].kind = "delete"
  BY <1>1, InFlight DEF WellFormed
<1>3. /\ q \in Request /\ q.pc = "emit" /\ q.kind = "delete" /\ q.at = req[r].at
      /\ q.user = u /\ q.key = req[r].key /\ q.role = req[r].role
      /\ q.perms = req[r].perms /\ q.held = req[r].held /\ q.since = req[r].since
  BY <1>1, <1>2 DEF Request
<1>4. next = [req EXCEPT ![r] = q] /\ req \in [Requests -> Request]
  BY DEF AccessInv, TypeOK
<1> HIDE DEF q, next
<1>5. /\ next \in [Requests -> Request] /\ next[r] = q
      /\ \A p \in Requests : p # r => next[p] = req[p]
  BY <1>3, <1>4
<1>6. ASSUME NEW k \in Keys
      PROVE  /\ key'[k] \in KeyRow /\ key'[k].scopes = key[k].scopes
             /\ key'[k].state = key[k].state /\ key'[k].owner = key[k].owner
             /\ key'[k].doomed => key[k].doomed \/ key[k].owner = u
  <2>1. key[k] \in KeyRow
    BY DEF AccessInv, TypeOK
  <2>2. /\ Doomed(k) \in KeyRow /\ Doomed(k).scopes = key[k].scopes
        /\ Doomed(k).state = key[k].state /\ Doomed(k).owner = key[k].owner
    BY <2>1 DEF KeyRow
  <2>3. key'[k] = IF key[k].owner = u /\ key[k].state = "live"
                  THEN Doomed(k) ELSE key[k]
    BY <1>1
  <2> HIDE DEF Doomed
  <2> QED BY <2>1, <2>2, <2>3
<1>7. key' \in [Keys -> KeyRow]
  <2> HIDE DEF Doomed
  <2> QED BY <1>1, <1>6
<1>8. \A p \in Requests : WellFormed(next[p])
  <2>1. WellFormed(q)
    BY <1>2, <1>3 DEF WellFormed
  <2> QED BY <1>5, <2>1 DEF AccessInv, TypeOK
<1>9. /\ TypeOK' /\ (\A p \in Requests : Knows(req[p])')
      /\ StaleForCause' /\ DroppedBeforeCommit'
      /\ \A p \in Requests :
           req'[p].pc = next[p].pc /\ req'[p].user = next[p].user
  <2>1. workload' \in Workload
    BY <1>1 DEF AccessInv, TypeOK
  <2>2. Advances(next)
    BY <1>1, <1>3, <1>5 DEF Advances
  <2>3. Excuses(u, {req[r].at}, next)
    BY <1>1 DEF AccessInv, DroppedBeforeCommit, Excuses
  <2>4. KeysStay
    BY <1>6 DEF KeysStay
  <2>5. Write(u, TRUE, {req[r].at}, next) /\ UNCHANGED <<role, grants>>
    BY <1>1
  <2> QED BY <1>2, <1>5, <1>7, <1>8, <2>1, <2>2, <2>3, <2>4, <2>5, WriteKeeps
<1>10. KeysDieWithAccount'
  <2>1. \A p \in Requests : req'[p].pc = next[p].pc /\ req'[p].user = next[p].user
    BY <1>9
  <2>2. req'[r].pc = "emit" /\ req'[r].user = u
    BY <1>3, <1>5, <2>1
  <2>3. \A p \in Requests : req[p].pc = "emit" =>
           req'[p].pc = "emit" /\ req'[p].user = req[p].user
    BY <1>1, <1>5, <2>1
  <2> QED BY <1>6, <2>2, <2>3 DEF AccessInv, KeysDieWithAccount
<1> QED BY <1>9, <1>10 DEF AccessInv

LEMMA RevokeAllKeeps ==
    ASSUME AccessInv, NEW r \in Requests, RevokeAllForUser(r)
    PROVE  AccessInv'
<1> DEFINE u == req[r].user
           Dead(k) == [key[k] EXCEPT !.state = "dead"]
<1>1. /\ req[r].pc = "emit" /\ End(r)
      /\ UNCHANGED <<deleted, role, grants, cache, workload>>
      /\ key' = [k \in Keys |-> IF key[k].owner = u /\ key[k].state = "live"
                                THEN Dead(k) ELSE key[k]]
  BY DEF RevokeAllForUser
<1>2. /\ req' \in [Requests -> Request] /\ req'[r] = Idle
      /\ \A p \in Requests : p # r => req'[p] = req[p]
      /\ \A p \in Requests : WellFormed(req'[p])
  BY <1>1, EndEffect
<1>3. ASSUME NEW k \in Keys
      PROVE  /\ key'[k] \in KeyRow /\ key'[k].scopes = key[k].scopes
             /\ key'[k].owner = key[k].owner /\ key'[k].doomed = key[k].doomed
             /\ key'[k].state = "none" <=> key[k].state = "none"
             /\ key'[k].state = "live" =>
                  key[k].state = "live" /\ key[k].owner # u
  <2>1. key[k] \in KeyRow
    BY DEF AccessInv, TypeOK
  <2>2. /\ Dead(k) \in KeyRow /\ Dead(k).scopes = key[k].scopes
        /\ Dead(k).owner = key[k].owner /\ Dead(k).doomed = key[k].doomed
        /\ Dead(k).state = "dead"
    BY <2>1 DEF KeyRow
  <2>3. key'[k] = IF key[k].owner = u /\ key[k].state = "live"
                  THEN Dead(k) ELSE key[k]
    BY <1>1
  <2> HIDE DEF Dead
  <2> QED BY <2>1, <2>2, <2>3
<1>4. key' \in [Keys -> KeyRow]
  <2> HIDE DEF Dead
  <2> QED BY <1>1, <1>3
<1>5. TypeOK'
  <2>1. \A k \in Keys : key'[k].state # "none" => key'[k].owner \in Users
    BY <1>3 DEF AccessInv, TypeOK
  <2> QED BY <1>1, <1>2, <1>4, <2>1 DEF AccessInv, TypeOK, WellFormed
<1>6. \A p \in Requests : Knows(req[p])'
  BY <1>1, <1>2, <1>3, KeysKnown
<1>7. StaleForCause'
  BY <1>1, <1>2 DEF AccessInv, StaleForCause
<1>8. DroppedBeforeCommit'
  BY <1>1, <1>2, IdleKnows DEF AccessInv, DroppedBeforeCommit
<1>9. KeysDieWithAccount'
  BY <1>1, <1>2, <1>3 DEF AccessInv, KeysDieWithAccount
<1> QED BY <1>5, <1>6, <1>7, <1>8, <1>9 DEF AccessInv

LEMMA RevokeFailsKeeps ==
    ASSUME AccessInv, NEW r \in Requests, RevokeFails(r)
    PROVE  AccessInv'
<1> DEFINE u == req[r].user
           Freed(k) == [key[k] EXCEPT !.doomed = FALSE]
<1>1. /\ req[r].pc = "emit" /\ End(r)
      /\ UNCHANGED <<deleted, role, grants, cache, workload>>
      /\ key' = [k \in Keys |-> IF key[k].owner = u
                                THEN Freed(k) ELSE key[k]]
  BY DEF RevokeFails
<1>2. /\ req' \in [Requests -> Request] /\ req'[r] = Idle
      /\ \A p \in Requests : p # r => req'[p] = req[p]
      /\ \A p \in Requests : WellFormed(req'[p])
  BY <1>1, EndEffect
<1>3. ASSUME NEW k \in Keys
      PROVE  /\ key'[k] \in KeyRow /\ key'[k].scopes = key[k].scopes
             /\ key'[k].owner = key[k].owner /\ key'[k].state = key[k].state
             /\ key'[k].doomed => key[k].doomed /\ key[k].owner # u
  <2>1. key[k] \in KeyRow
    BY DEF AccessInv, TypeOK
  <2>2. /\ Freed(k) \in KeyRow /\ Freed(k).scopes = key[k].scopes
        /\ Freed(k).owner = key[k].owner /\ Freed(k).doomed = FALSE
        /\ Freed(k).state = key[k].state
    BY <2>1 DEF KeyRow
  <2>3. key'[k] = IF key[k].owner = u
                  THEN Freed(k) ELSE key[k]
    BY <1>1
  <2> HIDE DEF Freed
  <2> QED BY <2>1, <2>2, <2>3
<1>4. key' \in [Keys -> KeyRow]
  <2> HIDE DEF Freed
  <2> QED BY <1>1, <1>3
<1>5. TypeOK'
  <2>1. \A k \in Keys : key'[k].state # "none" => key'[k].owner \in Users
    BY <1>3 DEF AccessInv, TypeOK
  <2> QED BY <1>1, <1>2, <1>4, <2>1 DEF AccessInv, TypeOK, WellFormed
<1>6. \A p \in Requests : Knows(req[p])'
  BY <1>1, <1>2, <1>3, KeysKnown
<1>7. StaleForCause'
  BY <1>1, <1>2 DEF AccessInv, StaleForCause
<1>8. DroppedBeforeCommit'
  BY <1>1, <1>2, IdleKnows DEF AccessInv, DroppedBeforeCommit
<1>9. KeysDieWithAccount'
  BY <1>1, <1>2, <1>3 DEF AccessInv, KeysDieWithAccount
<1> QED BY <1>5, <1>6, <1>7, <1>8, <1>9 DEF AccessInv

LEMMA ReactivateWriteKeeps ==
    ASSUME AccessInv, NEW r \in Requests, ReactivateWrite(r)
    PROVE  AccessInv'
<1> DEFINE u == req[r].user
           q == [req[r] EXCEPT !.pc = "invalidate"]
           next == [req EXCEPT ![r].pc = "invalidate"]
<1>1. /\ req[r].pc = "handle" /\ req[r].kind = "reactivate"
      /\ Write(u, FALSE, {req[r].at}, next)
      /\ CountWrite /\ UNCHANGED <<role, grants, key>>
  BY DEF ReactivateWrite
<1>2. /\ req[r] \in Request /\ WellFormed(req[r])
      /\ req[r].at \in Processes /\ u \in Users
  BY <1>1, InFlight DEF WellFormed
<1>3. /\ q \in Request /\ q.pc = "invalidate" /\ q.kind = "reactivate"
      /\ q.at = req[r].at /\ q.user = u /\ q.key = req[r].key
      /\ q.role = req[r].role /\ q.perms = req[r].perms
      /\ q.held = req[r].held /\ q.since = req[r].since
  BY <1>1, <1>2 DEF Request
<1>4. next = [req EXCEPT ![r] = q] /\ req \in [Requests -> Request]
  BY DEF AccessInv, TypeOK
<1> HIDE DEF q, next
<1>5. /\ next \in [Requests -> Request] /\ next[r] = q
      /\ \A p \in Requests : p # r => next[p] = req[p]
  BY <1>3, <1>4
<1>6. /\ TypeOK' /\ (\A p \in Requests : Knows(req[p])')
      /\ StaleForCause' /\ DroppedBeforeCommit'
      /\ \A p \in Requests :
           req'[p].pc = next[p].pc /\ req'[p].user = next[p].user
  <2>1. workload' \in Workload
    BY <1>1, CountKeeps
  <2>2. Advances(next)
    BY <1>1, <1>3, <1>5 DEF Advances
  <2>3. Excuses(u, {req[r].at}, next)
    BY <1>3, <1>5 DEF Excuses
  <2>4. \A p \in Requests : WellFormed(next[p])
    <3>1. WellFormed(q)
      BY <1>2, <1>3 DEF WellFormed
    <3> QED BY <1>5, <3>1 DEF AccessInv, TypeOK
  <2>5. key' \in [Keys -> KeyRow] /\ KeysStay
    BY <1>1 DEF AccessInv, TypeOK, KeysStay
  <2>6. Write(u, FALSE, {req[r].at}, next) /\ UNCHANGED <<role, grants>>
    BY <1>1
  <2> QED BY <1>2, <1>5, <2>1, <2>2, <2>3, <2>4, <2>5, <2>6, WriteKeeps
<1>7. KeysDieWithAccount'
  <2>1. \A p \in Requests : req'[p].pc = next[p].pc /\ req'[p].user = next[p].user
    BY <1>6
  <2>2. \A p \in Requests : req[p].pc = "emit" =>
           req'[p].pc = "emit" /\ req'[p].user = req[p].user
    BY <1>1, <1>5, <2>1
  <2> QED BY <1>1, <2>2 DEF AccessInv, KeysDieWithAccount
<1> QED BY <1>6, <1>7 DEF AccessInv

LEMMA ReactivateInvalidateKeeps ==
    ASSUME AccessInv, NEW r \in Requests, ReactivateInvalidate(r)
    PROVE  AccessInv'
<1> DEFINE i == req[r].at
           u == req[r].user
<1>1. /\ req[r].pc = "invalidate" /\ Forget(i, u) /\ End(r)
      /\ UNCHANGED <<deleted, role, grants, key, workload>>
      /\ i \in Processes /\ u \in Users
  <2>1. req[r].pc = "invalidate"
    BY DEF ReactivateInvalidate
  <2>2. i \in Processes /\ u \in Users
    BY <2>1, InFlight DEF WellFormed
  <2> QED BY <2>1, <2>2 DEF ReactivateInvalidate, Tables
<1>2. /\ req' \in [Requests -> Request] /\ req'[r] = Idle
      /\ \A p \in Requests : p # r => req'[p] = req[p]
      /\ \A p \in Requests : WellFormed(req'[p])
  BY <1>1, EndEffect
<1>3. /\ cache' \in [Processes -> [Users -> Entry]] /\ cache'[i][u].value = "none"
      /\ \A j \in Processes, v \in Users :
            ~(j = i /\ v = u) => cache'[j][v] = cache[j][v]
  BY <1>1, ForgetEffect
<1>4. TypeOK'
  BY <1>1, <1>2, <1>3 DEF AccessInv, TypeOK, WellFormed
<1>5. \A p \in Requests : Knows(req[p])'
  BY <1>1, <1>2, KeysKnown
<1>6. StaleForCause'
  <2> SUFFICES ASSUME NEW j \in Processes, NEW v \in Users, ~(j = i /\ v = u)
               PROVE  \/ cache'[j][v].value = "none"
                      \/ deleted'[v] <=> cache'[j][v].value = "deleted"
                      \/ cache'[j][v].excused
                      \/ \E p \in Requests : /\ req'[p].pc = "invalidate"
                                             /\ req'[p].at = j /\ req'[p].user = v
    BY <1>3 DEF StaleForCause
  <2>1. \A p \in Requests : req[p].at = j /\ req[p].user = v => req'[p] = req[p]
    BY <1>2
  <2>2. cache'[j][v] = cache[j][v] /\ deleted' = deleted
    BY <1>1, <1>3
  <2> QED BY <2>1, <2>2 DEF AccessInv, StaleForCause
<1>7. DroppedBeforeCommit'
  <2> SUFFICES ASSUME NEW p \in Requests, req'[p].pc = "commit"
               PROVE  LET e == cache'[req'[p].at][req'[p].user] IN
                      e.value = "none" \/ e.excused
    BY DEF DroppedBeforeCommit
  <2>1. req'[p] = req[p] /\ req[p].pc = "commit"
    BY <1>2, IdleKnows
  <2>2. req[p].at \in Processes /\ req[p].user \in Users
    BY <2>1, InFlight DEF WellFormed
  <2> QED BY <1>3, <2>1, <2>2 DEF AccessInv, DroppedBeforeCommit
<1>8. KeysDieWithAccount'
  BY <1>1, <1>2 DEF AccessInv, KeysDieWithAccount
<1> QED BY <1>4, <1>5, <1>6, <1>7, <1>8 DEF AccessInv

-----------------------------------------------------------------------------
(* What changes next to the requests *)

LEMMA CacheExpiresKeeps ==
    ASSUME AccessInv, NEW i \in Processes, NEW u \in Users, CacheExpires(i, u)
    PROVE  AccessInv'
<1>1. /\ Forget(i, u) /\ UNCHANGED <<deleted, role, grants, key, req, workload>>
  BY DEF CacheExpires, Tables
<1>2. /\ cache' \in [Processes -> [Users -> Entry]] /\ cache'[i][u].value = "none"
      /\ \A j \in Processes, v \in Users :
            ~(j = i /\ v = u) => cache'[j][v] = cache[j][v]
  BY <1>1, ForgetEffect
<1>3. TypeOK'
  BY <1>1, <1>2 DEF AccessInv, TypeOK, WellFormed
<1>4. \A p \in Requests : Knows(req[p])'
  BY <1>1 DEF AccessInv, Knows, MayUse
<1>5. StaleForCause'
  BY <1>1, <1>2 DEF AccessInv, StaleForCause
<1>6. DroppedBeforeCommit'
  <2> SUFFICES ASSUME NEW p \in Requests, req[p].pc = "commit"
               PROVE  LET e == cache'[req[p].at][req[p].user] IN
                      e.value = "none" \/ e.excused
    BY <1>1 DEF DroppedBeforeCommit
  <2>1. req[p].at \in Processes /\ req[p].user \in Users
    BY InFlight DEF WellFormed
  <2> QED BY <1>2, <2>1 DEF AccessInv, DroppedBeforeCommit
<1>7. KeysDieWithAccount'
  BY <1>1 DEF AccessInv, KeysDieWithAccount
<1> QED BY <1>3, <1>4, <1>5, <1>6, <1>7 DEF AccessInv

LEMMA KeyExpiresKeeps ==
    ASSUME AccessInv, NEW k \in Keys, KeyExpires(k)
    PROVE  AccessInv'
<1>1. /\ key[k].state = "live" /\ key' = [key EXCEPT ![k].state = "dead"]
      /\ UNCHANGED <<deleted, role, grants, cache, req, workload>>
  BY DEF KeyExpires
<1>2. /\ key' \in [Keys -> KeyRow]
      /\ \A j \in Keys : /\ key'[j].scopes = key[j].scopes
                         /\ key'[j].owner = key[j].owner
                         /\ key'[j].doomed = key[j].doomed
                         /\ key'[j].state = "none" <=> key[j].state = "none"
                         /\ key'[j].state = "live" => key[j].state = "live"
  <2>1. key \in [Keys -> KeyRow]
    BY DEF AccessInv, TypeOK
  <2> DEFINE dead == [key[k] EXCEPT !.state = "dead"]
  <2>2. /\ dead \in KeyRow /\ dead.scopes = key[k].scopes
        /\ dead.owner = key[k].owner /\ dead.doomed = key[k].doomed
        /\ dead.state = "dead"
    BY <2>1 DEF KeyRow
  <2>3. key' = [key EXCEPT ![k] = dead]
    BY <1>1, <2>1
  <2> HIDE DEF dead
  <2> QED BY <1>1, <2>1, <2>2, <2>3
<1>3. TypeOK'
  <2>1. \A j \in Keys : key'[j].state # "none" => key'[j].owner \in Users
    BY <1>2 DEF AccessInv, TypeOK
  <2> QED BY <1>1, <1>2, <2>1 DEF AccessInv, TypeOK, WellFormed
<1>4. \A p \in Requests : Knows(req[p])'
  BY <1>1, <1>2, KeysKnown
<1>5. StaleForCause' /\ DroppedBeforeCommit'
  BY <1>1 DEF AccessInv, StaleForCause, DroppedBeforeCommit
<1>6. KeysDieWithAccount'
  BY <1>1, <1>2 DEF AccessInv, KeysDieWithAccount
<1> QED BY <1>3, <1>4, <1>5, <1>6 DEF AccessInv

LEMMA AdminWriteKeeps ==
    ASSUME AccessInv, NEW u \in Users, NEW value \in BOOLEAN, AdminWrite(u, value)
    PROVE  AccessInv'
<1>1. /\ Write(u, value, {}, req) /\ CountWrite /\ UNCHANGED <<role, grants, key>>
  BY DEF AdminWrite
<1>2. /\ TypeOK' /\ (\A p \in Requests : Knows(req[p])')
      /\ StaleForCause' /\ DroppedBeforeCommit'
      /\ \A p \in Requests :
           req'[p].pc = req[p].pc /\ req'[p].user = req[p].user
  <2>1. workload' \in Workload
    BY <1>1, CountKeeps
  <2>2. Advances(req) /\ Excuses(u, {}, req)
    BY DEF Advances, Excuses
  <2>3. /\ key' \in [Keys -> KeyRow] /\ KeysStay /\ req \in [Requests -> Request]
        /\ \A p \in Requests : WellFormed(req[p])
    BY <1>1 DEF AccessInv, TypeOK, KeysStay
  <2>4. Write(u, value, {}, req) /\ UNCHANGED <<role, grants>>
    BY <1>1
  <2> QED BY <2>1, <2>2, <2>3, <2>4, WriteKeeps
<1>3. KeysDieWithAccount'
  BY <1>1, <1>2 DEF AccessInv, KeysDieWithAccount
<1> QED BY <1>2, <1>3 DEF AccessInv

\* Changes of roles and of their permissions only add to what the requests
\* in flight may use.
LEMMA RoleChangesKeeps ==
    ASSUME AccessInv, NEW u \in Users, NEW x \in Roles \cup {None},
           RoleChanges(u, x)
    PROVE  AccessInv'
<1> DEFINE More(p) == [req[p] EXCEPT !.held = @ \cup ({x} \ {None})]
<1>1. /\ role' = [role EXCEPT ![u] = x] /\ CountEdit
      /\ UNCHANGED <<deleted, grants, key, cache>>
      /\ req' = [p \in Requests |-> IF req[p].user = u THEN More(p) ELSE req[p]]
  BY DEF RoleChanges
<1>2. ASSUME NEW p \in Requests
      PROVE  /\ req'[p] \in Request /\ req'[p].pc = req[p].pc
             /\ req'[p].kind = req[p].kind /\ req'[p].at = req[p].at
             /\ req'[p].user = req[p].user /\ req'[p].key = req[p].key
             /\ req'[p].role = req[p].role /\ req'[p].perms = req[p].perms
             /\ req'[p].read = req[p].read /\ req'[p].crossed = req[p].crossed
             /\ req'[p].since = req[p].since
             /\ req[p].held \subseteq req'[p].held
             /\ req[p].user = u => {x} \ {None} \subseteq req'[p].held
  <2>1. req[p] \in Request
    BY InFlight
  <2>2. /\ More(p) \in Request /\ More(p).pc = req[p].pc
        /\ More(p).kind = req[p].kind /\ More(p).at = req[p].at
        /\ More(p).user = req[p].user /\ More(p).key = req[p].key
        /\ More(p).role = req[p].role /\ More(p).perms = req[p].perms
        /\ More(p).read = req[p].read /\ More(p).crossed = req[p].crossed
        /\ More(p).since = req[p].since
        /\ More(p).held = req[p].held \cup ({x} \ {None})
    BY <2>1 DEF Request
  <2>3. req'[p] = IF req[p].user = u THEN More(p) ELSE req[p]
    BY <1>1
  <2> HIDE DEF More
  <2> QED BY <2>1, <2>2, <2>3
<1>3. /\ role' \in [Users -> Roles \cup {None}] /\ role'[u] = x
      /\ \A v \in Users : v # u => role'[v] = role[v]
  BY <1>1 DEF AccessInv, TypeOK
<1>4. TypeOK'
  <2>1. req' \in [Requests -> Request]
    <3> HIDE DEF More
    <3> QED BY <1>1, <1>2
  <2>2. \A p \in Requests : WellFormed(req[p])'
    BY <1>2 DEF AccessInv, TypeOK, WellFormed
  <2>3. workload' \in Workload
    BY <1>1, CountKeeps
  <2> QED BY <1>1, <1>3, <2>1, <2>2, <2>3 DEF AccessInv, TypeOK
<1>5. \A p \in Requests : Knows(req[p])'
  <2> SUFFICES ASSUME NEW p \in Requests
               PROVE  Knows(req[p])'
    OBVIOUS
  <2>1. Knows(req[p]) /\ WellFormed(req[p])
    BY InFlight
  <2>2. req[p].pc # "idle" =>
           /\ role'[req'[p].user] \in req'[p].held \cup {None}
           /\ \A y \in Roles : grants'[y] \subseteq req'[p].since[y]
           /\ req'[p].role \in req'[p].held \cup {None}
    BY <1>1, <1>2, <1>3, <2>1 DEF Knows, WellFormed
  <2>3. (req[p].perms \subseteq MayUse(req[p]))'
    BY <1>2, <2>1 DEF Knows, MayUse
  <2> QED BY <1>1, <1>2, <2>1, <2>2, <2>3, ZenonT(40) DEF Knows
<1>6. StaleForCause' /\ DroppedBeforeCommit'
  BY <1>1, <1>2 DEF AccessInv, StaleForCause, DroppedBeforeCommit
<1>7. KeysDieWithAccount'
  BY <1>1, <1>2 DEF AccessInv, KeysDieWithAccount
<1> QED BY <1>4, <1>5, <1>6, <1>7 DEF AccessInv

LEMMA RoleEditedKeeps ==
    ASSUME AccessInv, NEW x \in Roles, NEW permissions \in SUBSET Permissions,
           RoleEdited(x, permissions)
    PROVE  AccessInv'
<1> DEFINE More(p) == [req[p] EXCEPT !.since[x] = @ \cup permissions]
<1>1. /\ grants' = [grants EXCEPT ![x] = permissions] /\ CountEdit
      /\ UNCHANGED <<deleted, role, key, cache>>
      /\ req' = [p \in Requests |->
                   IF req[p].pc = "idle" THEN req[p] ELSE More(p)]
  BY DEF RoleEdited
<1>2. ASSUME NEW p \in Requests
      PROVE  /\ req'[p] \in Request /\ req'[p].pc = req[p].pc
             /\ req'[p].kind = req[p].kind /\ req'[p].at = req[p].at
             /\ req'[p].user = req[p].user /\ req'[p].key = req[p].key
             /\ req'[p].role = req[p].role /\ req'[p].perms = req[p].perms
             /\ req'[p].read = req[p].read /\ req'[p].crossed = req[p].crossed
             /\ req'[p].held = req[p].held
             /\ \A y \in Roles : req[p].since[y] \subseteq req'[p].since[y]
             /\ req[p].pc # "idle" => permissions \subseteq req'[p].since[x]
  <2>1. req[p] \in Request /\ req[p].since \in [Roles -> SUBSET Permissions]
    BY InFlight DEF Request
  <2>2. /\ More(p).pc = req[p].pc
        /\ More(p).kind = req[p].kind /\ More(p).at = req[p].at
        /\ More(p).user = req[p].user /\ More(p).key = req[p].key
        /\ More(p).role = req[p].role /\ More(p).perms = req[p].perms
        /\ More(p).read = req[p].read /\ More(p).crossed = req[p].crossed
        /\ More(p).held = req[p].held
        /\ More(p).since = [req[p].since EXCEPT ![x] = @ \cup permissions]
    BY <2>1 DEF Request
  <2>3. More(p).since \in [Roles -> SUBSET Permissions]
    <3> HIDE DEF More
    <3> QED BY <2>1, <2>2
  <2>4. More(p) \in Request
    BY <2>1, <2>3 DEF Request
  <2>5. req'[p] = IF req[p].pc = "idle" THEN req[p] ELSE More(p)
    BY <1>1
  <2> HIDE DEF More
  <2> QED BY <2>1, <2>2, <2>4, <2>5
<1>3. /\ grants' \in [Roles -> SUBSET Permissions] /\ grants'[x] = permissions
      /\ \A y \in Roles : y # x => grants'[y] = grants[y]
  BY <1>1 DEF AccessInv, TypeOK
<1>4. TypeOK'
  <2>1. req' \in [Requests -> Request]
    <3> HIDE DEF More
    <3> QED BY <1>1, <1>2
  <2>2. \A p \in Requests : WellFormed(req[p])'
    BY <1>2 DEF AccessInv, TypeOK, WellFormed
  <2>3. workload' \in Workload
    BY <1>1, CountKeeps
  <2> QED BY <1>1, <1>3, <2>1, <2>2, <2>3 DEF AccessInv, TypeOK
<1>5. \A p \in Requests : Knows(req[p])'
  <2> SUFFICES ASSUME NEW p \in Requests
               PROVE  Knows(req[p])'
    OBVIOUS
  <2>1. Knows(req[p]) /\ WellFormed(req[p]) /\ req[p].held \subseteq Roles
    BY InFlight DEF Request
  <2>2. req[p].pc # "idle" =>
           /\ role'[req'[p].user] \in req'[p].held \cup {None}
           /\ \A y \in Roles : grants'[y] \subseteq req'[p].since[y]
           /\ req'[p].role \in req'[p].held \cup {None}
    BY <1>1, <1>2, <1>3, <2>1 DEF Knows
  <2>3. (req[p].perms \subseteq MayUse(req[p]))'
    BY <1>2, <2>1 DEF Knows, MayUse
  <2> QED BY <1>1, <1>2, <2>1, <2>2, <2>3, ZenonT(40) DEF Knows
<1>6. StaleForCause' /\ DroppedBeforeCommit'
  BY <1>1, <1>2 DEF AccessInv, StaleForCause, DroppedBeforeCommit
<1>7. KeysDieWithAccount'
  BY <1>1, <1>2 DEF AccessInv, KeysDieWithAccount
<1> QED BY <1>4, <1>5, <1>6, <1>7 DEF AccessInv

\* With the process go its entries, its requests and what they owed.
LEMMA ProcessEndsKeeps ==
    ASSUME AccessInv, NEW i \in Processes, ProcessEnds(i)
    PROVE  AccessInv'
<1> DEFINE Owed(k) == \E q \in Requests : /\ req[q].at = i /\ req[q].pc = "emit"
                                          /\ req[q].user = key[k].owner
           Spared(k) == [key[k] EXCEPT !.doomed = FALSE]
<1>1. /\ cache' = [cache EXCEPT ![i] = [u \in Users |-> NoEntry]]
      /\ req' = [q \in Requests |-> IF req[q].at = i THEN Idle ELSE req[q]]
      /\ key' = [k \in Keys |-> IF Owed(k) THEN Spared(k) ELSE key[k]]
      /\ UNCHANGED <<deleted, role, grants, workload>>
  BY DEF ProcessEnds
<1>2. /\ req' \in [Requests -> Request]
      /\ \A p \in Requests : /\ WellFormed(req'[p])
                             /\ req'[p] = IF req[p].at = i THEN Idle ELSE req[p]
  BY <1>1, IdleKnows, InFlight
<1>3. /\ cache' \in [Processes -> [Users -> Entry]]
      /\ \A u \in Users : cache'[i][u].value = "none"
      /\ \A j \in Processes : j # i => cache'[j] = cache[j]
  <2>1. NoEntry \in Entry /\ NoEntry.value = "none"
    BY DEF NoEntry, Entry
  <2>2. cache \in [Processes -> [Users -> Entry]]
    BY DEF AccessInv, TypeOK
  <2> QED BY <1>1, <2>1, <2>2
<1>4. ASSUME NEW k \in Keys
      PROVE  /\ key'[k] \in KeyRow /\ key'[k].scopes = key[k].scopes
             /\ key'[k].state = key[k].state /\ key'[k].owner = key[k].owner
             /\ key'[k].doomed => key[k].doomed /\ ~Owed(k)
  <2>1. key[k] \in KeyRow
    BY DEF AccessInv, TypeOK
  <2>2. /\ Spared(k) \in KeyRow /\ Spared(k).scopes = key[k].scopes
        /\ Spared(k).state = key[k].state /\ Spared(k).owner = key[k].owner
        /\ ~Spared(k).doomed
    BY <2>1 DEF KeyRow
  <2>3. key'[k] = IF Owed(k) THEN Spared(k) ELSE key[k]
    BY <1>1
  <2> HIDE DEF Owed, Spared
  <2> QED BY <2>1, <2>2, <2>3
<1>5. key' \in [Keys -> KeyRow]
  <2> HIDE DEF Owed, Spared
  <2> QED BY <1>1, <1>4
<1>6. TypeOK'
  <2>1. \A k \in Keys : key'[k].state # "none" => key'[k].owner \in Users
    BY <1>4 DEF AccessInv, TypeOK
  <2> QED BY <1>1, <1>2, <1>3, <1>5, <2>1 DEF AccessInv, TypeOK, WellFormed
<1>7. \A p \in Requests : Knows(req[p])'
  BY <1>1, <1>2, <1>4, KeysKnown
<1>8. StaleForCause'
  <2> SUFFICES ASSUME NEW j \in Processes, NEW u \in Users, j # i
               PROVE  \/ cache'[j][u].value = "none"
                      \/ deleted'[u] <=> cache'[j][u].value = "deleted"
                      \/ cache'[j][u].excused
                      \/ \E p \in Requests : /\ req'[p].pc = "invalidate"
                                             /\ req'[p].at = j /\ req'[p].user = u
    BY <1>3 DEF StaleForCause
  <2>1. \A p \in Requests : req[p].at = j => req'[p] = req[p]
    BY <1>2
  <2> QED BY <1>1, <1>3, <2>1 DEF AccessInv, StaleForCause
<1>9. DroppedBeforeCommit'
  <2> SUFFICES ASSUME NEW p \in Requests, req'[p].pc = "commit"
               PROVE  LET e == cache'[req'[p].at][req'[p].user] IN
                      e.value = "none" \/ e.excused
    BY DEF DroppedBeforeCommit
  <2>1. req'[p] = req[p] /\ req[p].pc = "commit" /\ req[p].at # i
    BY <1>2, IdleKnows
  <2>2. req[p].at \in Processes
    BY <2>1, InFlight DEF WellFormed
  <2> QED BY <1>3, <2>1, <2>2 DEF AccessInv, DroppedBeforeCommit
<1>10. KeysDieWithAccount'
  <2> SUFFICES ASSUME NEW k \in Keys, key'[k].doomed, key'[k].state = "live"
               PROVE  \E p \in Requests : /\ req'[p].pc = "emit"
                                          /\ req'[p].user = key'[k].owner
    BY DEF KeysDieWithAccount
  <2>1. key[k].doomed /\ key[k].state = "live" /\ ~Owed(k)
        /\ key'[k].owner = key[k].owner
    BY <1>4
  <2>2. PICK p \in Requests : req[p].pc = "emit" /\ req[p].user = key[k].owner
    BY <2>1 DEF AccessInv, KeysDieWithAccount
  <2> QED BY <1>2, <2>1, <2>2
<1> QED BY <1>6, <1>7, <1>8, <1>9, <1>10 DEF AccessInv

-----------------------------------------------------------------------------
(* The invariant and what follows from it *)

LEMMA AccessInvInit == Init => AccessInv
<1> SUFFICES ASSUME Init
             PROVE  AccessInv
  OBVIOUS
<1>1. /\ req \in [Requests -> Request]
      /\ \A r \in Requests : req[r] = Idle
  BY IdleKnows DEF Init
<1>2. /\ key \in [Keys -> KeyRow]
      /\ \A k \in Keys : key[k].state = "none" /\ ~key[k].doomed
  BY DEF Init, KeyRow
<1>3. /\ cache \in [Processes -> [Users -> Entry]]
      /\ \A i \in Processes, u \in Users : cache[i][u].value = "none"
  <2>1. NoEntry \in Entry /\ NoEntry.value = "none"
    BY DEF NoEntry, Entry
  <2> QED BY <2>1 DEF Init
<1>4. /\ deleted \in [Users -> BOOLEAN] /\ role \in [Users -> Roles \cup {None}]
      /\ grants \in [Roles -> SUBSET Permissions]
  BY DEF Init
<1>5. workload \in Workload
  BY AccessAssumption DEF Init
<1>6. TypeOK
  BY <1>1, <1>2, <1>3, <1>4, <1>5, IdleKnows DEF TypeOK
<1>7. \A r \in Requests : Knows(req[r])
  BY <1>1, IdleKnows
<1>8. StaleForCause /\ DroppedBeforeCommit /\ KeysDieWithAccount
  BY <1>1, <1>2, <1>3, IdleKnows
  DEF StaleForCause, DroppedBeforeCommit, KeysDieWithAccount
<1> QED BY <1>6, <1>7, <1>8 DEF AccessInv

LEMMA AccessInvNext == AccessInv /\ [Next]_vars => AccessInv'
<1> SUFFICES ASSUME AccessInv, [Next]_vars
             PROVE  AccessInv'
  OBVIOUS
<1>1. ASSUME NEW r \in Requests, NEW i \in Processes, NEW u \in Users,
             NEW k \in Keys \cup {None}, NEW kind \in Kinds,
             NEW asks \in SUBSET Permissions, Arrive(r, i, u, k, kind, asks)
      PROVE  AccessInv'
  BY <1>1, ArriveKeeps
<1>2. ASSUME NEW r \in Requests, Guard(r)
      PROVE  AccessInv'
  BY <1>2, FindKeyKeeps, ReadRoleKeeps, ReadGrantsKeeps, CacheHitKeeps,
     CacheMissKeeps, CacheStoreKeeps DEF Guard
<1>3. ASSUME NEW r \in Requests, Handle(r)
      PROVE  AccessInv'
  BY <1>3, ActKeeps, CreateKeyKeeps, RevokeKeyKeeps, DeleteValidateKeeps,
     DeleteInvalidateKeeps, DeleteCommitKeeps, RevokeAllKeeps, RevokeFailsKeeps,
     ReactivateWriteKeeps,
     ReactivateInvalidateKeeps DEF Handle
<1>4. ASSUME NEW u \in Users, NEW i \in Processes, CacheExpires(i, u)
      PROVE  AccessInv'
  BY <1>4, CacheExpiresKeeps
<1>5. ASSUME NEW u \in Users, NEW value \in BOOLEAN, AdminWrite(u, value)
      PROVE  AccessInv'
  BY <1>5, AdminWriteKeeps
<1>6. ASSUME NEW u \in Users, NEW x \in Roles \cup {None}, RoleChanges(u, x)
      PROVE  AccessInv'
  BY <1>6, RoleChangesKeeps
<1>7. ASSUME NEW k \in Keys, KeyExpires(k)
      PROVE  AccessInv'
  BY <1>7, KeyExpiresKeeps
<1>8. ASSUME NEW x \in Roles, NEW permissions \in SUBSET Permissions,
             RoleEdited(x, permissions)
      PROVE  AccessInv'
  BY <1>8, RoleEditedKeeps
<1>9. ASSUME NEW i \in Processes, ProcessEnds(i)
      PROVE  AccessInv'
  BY <1>9, ProcessEndsKeeps
<1>10. CASE UNCHANGED vars
  BY <1>10 DEF vars, AccessInv, TypeOK, WellFormed, Knows, MayUse, StaleForCause,
     DroppedBeforeCommit, KeysDieWithAccount
<1> QED BY <1>1, <1>2, <1>3, <1>4, <1>5, <1>6, <1>7, <1>8, <1>9, <1>10 DEF Next

\* The guard's knowledge is never older than the request, and the caches and
\* keys are as the handlers leave them: the inductive invariant.
THEOREM AccessInvariant == Spec => []AccessInv
BY AccessInvInit, AccessInvNext, PTL DEF Spec

\* No request goes on with a permission that was lost before it arrived.
THEOREM StaleElevationNever == Spec => []NoStaleElevation
<1>1. AccessInv => NoStaleElevation
  BY InFlight DEF NoStaleElevation, Knows
<1> QED BY <1>1, AccessInvariant, PTL

\* A cached deletion status is wrong only where the process could not know.
THEOREM StatusStaleForCause == Spec => []StaleForCause
<1>1. AccessInv => StaleForCause
  BY DEF AccessInv
<1> QED BY <1>1, AccessInvariant, PTL

\* The keys that were live when a deletion committed are revoked by the listener,
\* unless its process ended before or its UPDATE failed: nobody tries again.
THEOREM KeysRevokedWithAccount == Spec => []KeysDieWithAccount
<1>1. AccessInv => KeysDieWithAccount
  BY DEF AccessInv
<1> QED BY <1>1, AccessInvariant, PTL

\* Only CreateKey makes a row of api_keys.
LEMMA OnlyCreateMakesKeys ==
    ASSUME AccessInv, [Next]_vars, NEW k \in Keys,
           key[k].state = "none", key'[k].state = "live"
    PROVE  \E r \in Requests : CreateKey(r)
<1>1. key \in [Keys -> KeyRow]
  BY DEF AccessInv, TypeOK
<1>2. key' # key
  OBVIOUS
<1>3. ASSUME NEW r \in Requests, RevokeKey(r)
      PROVE  FALSE
  BY <1>1, <1>3 DEF RevokeKey
<1>4. ASSUME NEW r \in Requests, DeleteCommit(r)
      PROVE  FALSE
  BY <1>1, <1>4 DEF DeleteCommit
<1>5. ASSUME NEW r \in Requests, RevokeAllForUser(r)
      PROVE  FALSE
  BY <1>1, <1>5 DEF RevokeAllForUser
<1>6. ASSUME NEW j \in Keys, KeyExpires(j)
      PROVE  FALSE
  BY <1>1, <1>6 DEF KeyExpires
<1>7. ASSUME NEW i \in Processes, ProcessEnds(i)
      PROVE  FALSE
  <2>1. key'[k] = key[k] \/ key'[k] = [key[k] EXCEPT !.doomed = FALSE]
    BY <1>7 DEF ProcessEnds
  <2> QED BY <1>1, <2>1 DEF KeyRow
<1>8. ASSUME NEW r \in Requests, Guard(r)
      PROVE  FALSE
  BY <1>2, <1>8 DEF Guard, FindKey, ReadRole, ReadGrants, CacheHit, CacheMiss,
     CacheStore, Tables
<1>9. ASSUME NEW r \in Requests, Handle(r)
      PROVE  CreateKey(r)
  <2>1. ASSUME RevokeFails(r) PROVE FALSE
    <3>1. key'[k] = key[k] \/ key'[k] = [key[k] EXCEPT !.doomed = FALSE]
      BY <1>1, <2>1 DEF RevokeFails
    <3> QED BY <1>1, <3>1 DEF KeyRow
  <2> QED BY <1>2, <1>3, <1>4, <1>5, <1>9, <2>1
      DEF Handle, Act, DeleteValidate, DeleteInvalidate, ReactivateWrite,
          ReactivateInvalidate, Tables
<1>10. ASSUME NEW r \in Requests, NEW i \in Processes, NEW u \in Users,
              NEW j \in Keys \cup {None}, NEW kind \in Kinds,
              NEW asks \in SUBSET Permissions, Arrive(r, i, u, j, kind, asks)
       PROVE  FALSE
  BY <1>2, <1>10 DEF Arrive, Tables
<1>11. ASSUME NEW u \in Users,
              \/ \E i \in Processes : CacheExpires(i, u)
              \/ \E value \in BOOLEAN : AdminWrite(u, value)
              \/ \E x \in Roles \cup {None} : RoleChanges(u, x)
       PROVE  FALSE
  BY <1>2, <1>11 DEF CacheExpires, AdminWrite, RoleChanges, Tables
<1>12. ASSUME NEW x \in Roles, NEW permissions \in SUBSET Permissions,
              RoleEdited(x, permissions)
       PROVE  FALSE
  BY <1>2, <1>12 DEF RoleEdited
<1>13. CASE UNCHANGED vars
  BY <1>2, <1>13 DEF vars
<1> QED BY <1>6, <1>7, <1>8, <1>9, <1>10, <1>11, <1>12, <1>13 DEF Next

\* A new key carries permissions its creator held, and no more than the key
\* it was created with.
THEOREM KeysNeverEscalate == Spec => NoEscalation
<1>1. ASSUME AccessInv, [Next]_vars, NEW k \in Keys,
             key[k].state = "none", key'[k].state = "live"
      PROVE  \E r \in Requests :
               /\ req[r].kind = "create" /\ req[r].user = key'[k].owner
               /\ key'[k].scopes \subseteq MayUse(req[r])
               /\ req[r].key # None =>
                    key'[k].scopes \subseteq key[req[r].key].scopes
  <2>1. PICK r \in Requests : CreateKey(r)
    BY <1>1, OnlyCreateMakesKeys
  <2>2. key \in [Keys -> KeyRow] /\ Knows(req[r])
    BY <1>1, InFlight DEF AccessInv, TypeOK
  <2>3. key' # key
    BY <1>1
  <2>4. req[r].asks \subseteq req[r].perms /\ Insert(req[r]) /\ req[r].kind = "create"
    BY <2>1, <2>3 DEF CreateKey
  <2>5. key'[k].owner = req[r].user /\ key'[k].scopes = req[r].asks
    BY <1>1, <2>2, <2>3, <2>4 DEF Insert
  <2> QED BY <2>2, <2>4, <2>5 DEF Knows
<1>2. AccessInv /\ [Next]_vars =>
        [\A k \in Keys :
           key[k].state = "none" /\ key'[k].state = "live" =>
             \E r \in Requests :
               /\ req[r].kind = "create" /\ req[r].user = key'[k].owner
               /\ key'[k].scopes \subseteq MayUse(req[r])
               /\ req[r].key # None =>
                    key'[k].scopes \subseteq key[req[r].key].scopes]_vars
  BY <1>1
<1> QED BY <1>2, AccessInvariant, PTL DEF Spec, NoEscalation

=============================================================================
