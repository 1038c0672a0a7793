------------------------------- MODULE Access -------------------------------
(***************************************************************************)
(* How a request gets in: AuthGuard with a session or an API key, what it  *)
(* looks up on the way (the permissions of the user's role, with two       *)
(* SELECTs; whether the account is deleted, through a cache that every     *)
(* process has for itself), and the requests that write what it looks up.  *)
(*                                                                         *)
(* One organization; nobody is a platform administrator, whom sessions let *)
(* pass without permissions.  Sessions are not followed: a deleted user    *)
(* may have one again by signing in.  Roles are edited from outside (see   *)
(* OrgRoles), accounts also by administrators and the cron, none of whom   *)
(* tells the caches.                                                       *)
(***************************************************************************)
EXTENDS Naturals, FiniteSets

CONSTANTS
    Users, Keys, Roles, Permissions, Processes,
    Requests,       \* requests that may be in flight at the same time
    None,           \* no key but a session, no role, nobody
    WriteKeys,      \* the permission api_keys:write
    Workloads       \* bound: what one behaviour has of requests and writes

Kinds == {"act", "create", "revoke", "delete", "reactivate"}

Workload ==
    [kinds : SUBSET Kinds,                  \* of requests
     overlap : Nat,                         \* in flight at the same time
     processes : SUBSET Processes,          \* that serve them
     asks : SUBSET SUBSET Permissions,      \* what they ask for
     keys : Nat,                            \* that are still created
     edits : Nat,                           \* of roles, that are left
     writes : Nat]                          \* of users.deleted_at, that are left

ASSUME AccessAssumption ==
    /\ None \notin Users \cup Keys \cup Roles \cup Processes
    /\ WriteKeys \in Permissions
    /\ Workloads \subseteq Workload

VARIABLES
    deleted,        \* users.deleted_at is set
    role,           \* members.role_id of each user
    grants,         \* role_permissions
    key,            \* rows of api_keys
    cache,          \* softDeleteCache of each process
    req,            \* requests in flight
    workload        \* what is left of the workload

vars == <<deleted, role, grants, key, cache, req, workload>>

KeyRow ==
    [state : {"none", "live", "dead"},  \* dead: revoked_at set, or expired
     owner : Users \cup {None},
     scopes : SUBSET Permissions,
     doomed : BOOLEAN]      \* history: live when DELETE /users/me committed,
                            \* and its event not yet lost

Entry ==
    [value : {"none", "active", "deleted"},
     excused : BOOLEAN]     \* history: nobody could keep it from being stale

Request ==
    [pc : {"idle", "find", "role", "grants", "status", "store", "handle",
           "resolve", "commit", "emit", "invalidate"},
     kind : Kinds,
     at : Processes \cup {None},
     user : Users \cup {None},
     key : Keys \cup {None},
     asks : SUBSET Permissions,     \* permission of the route, or key scopes
     role : Roles \cup {None},      \* members.role_id as read
     perms : SUBSET Permissions,    \* session.permissions
     read : BOOLEAN,                \* deleted_at as read
     crossed : BOOLEAN,             \* history: deleted_at written since
     held : SUBSET Roles,           \* history: roles of the user since arrival
     since : [Roles -> SUBSET Permissions]] \* history: what they granted

Idle == [pc |-> "idle", kind |-> "act", at |-> None, user |-> None, key |-> None,
         asks |-> {}, role |-> None, perms |-> {}, read |-> FALSE,
         crossed |-> FALSE, held |-> {}, since |-> [x \in Roles |-> {}]]

\* Only sessions ask the cache; some steps only some kinds of requests have.
WellFormed(q) ==
    /\ q.pc # "idle" => q.user \in Users /\ q.at \in Processes
    /\ q.pc \in {"status", "store"} => q.key = None
    /\ q.pc \in {"resolve", "commit", "emit"} => q.kind = "delete"
    /\ q.pc = "invalidate" => q.kind = "reactivate"

NoEntry == [value |-> "none", excused |-> FALSE]

TypeOK ==
    /\ deleted \in [Users -> BOOLEAN]
    /\ role \in [Users -> Roles \cup {None}]
    /\ grants \in [Roles -> SUBSET Permissions]
    /\ key \in [Keys -> KeyRow]
    /\ cache \in [Processes -> [Users -> Entry]]
    /\ req \in [Requests -> Request]
    /\ workload \in Workload
    /\ \A k \in Keys : key[k].state # "none" => key[k].owner \in Users
    /\ \A r \in Requests : WellFormed(req[r])

Init ==
    /\ deleted = [u \in Users |-> FALSE]
    /\ role \in [Users -> Roles]
    /\ \E x \in Roles :
         grants = [y \in Roles |-> IF y = x THEN Permissions ELSE {}]
    /\ key = [k \in Keys |-> [state |-> "none", owner |-> None,
                              scopes |-> {}, doomed |-> FALSE]]
    /\ cache = [i \in Processes |-> [u \in Users |-> NoEntry]]
    /\ req = [r \in Requests |-> Idle]
    /\ workload \in Workloads

-----------------------------------------------------------------------------
Continue(r, q) == req' = [req EXCEPT ![r] = q]
GoTo(r, pc) == Continue(r, [req[r] EXCEPT !.pc = pc])
End(r) == Continue(r, Idle)

Tables == <<deleted, role, grants, key>>

\* A client sends a request of some kind with a session or with a key.
Arrive(r, i, u, k, kind, asks) ==
    /\ req[r].pc = "idle"
    /\ Cardinality({q \in Requests : req[q].pc # "idle"}) < workload.overlap
    /\ kind \in workload.kinds /\ i \in workload.processes
    /\ k # None => key[k].state # "none" /\ key[k].owner = u
    /\ IF kind \in {"act", "create"} THEN asks \in workload.asks ELSE asks = {}
    /\ kind = "act" => Cardinality(asks) = 1
    /\ Continue(r, [Idle EXCEPT
            !.pc = IF k = None THEN "role" ELSE "find",
            !.kind = kind, !.at = i, !.user = u, !.key = k, !.asks = asks,
            !.held = {role[u]} \ {None}, !.since = grants])
    /\ UNCHANGED <<Tables, cache, workload>>

\* validateBearerToken
FindKey(r) ==
    LET k == req[r].key IN
    /\ req[r].pc = "find"
    /\ IF key[k].state = "live" /\ ~deleted[key[k].owner]
       THEN GoTo(r, "role")
       ELSE End(r)
    /\ UNCHANGED <<Tables, cache, workload>>

\* getPermissions: the role of the member ...
ReadRole(r) ==
    /\ req[r].pc = "role"
    /\ Continue(r, [req[r] EXCEPT !.pc = "grants", !.role = role[req[r].user]])
    /\ UNCHANGED <<Tables, cache, workload>>

Required(q) ==
    CASE q.kind = "act" -> q.asks
      [] q.kind \in {"create", "revoke"} -> {WriteKeys}
      [] OTHER -> {}

\* checkPermissions
Enter(r, q) ==
    IF Required(q) \subseteq q.perms
    THEN Continue(r, [q EXCEPT !.pc = "handle"])
    ELSE End(r)

Granted(x) == IF x = None THEN {} ELSE grants[x]

\* mutant: buildApiKeySession takes the scopes as they were granted
ReadGrantsScopesOnly(r) ==
    LET q == req[r] IN
    /\ q.pc = "grants"
    /\ IF q.key = None
       THEN Continue(r, [q EXCEPT !.pc = "status", !.role = None,
                            !.perms = Granted(q.role)])
       ELSE Enter(r, [q EXCEPT !.role = None, !.perms = key[q.key].scopes])
    /\ UNCHANGED <<Tables, cache, workload>>

\* ... and what it grants; a key has its scopes of that, and its account was
\* looked at already
ReadGrants(r) ==
    LET q == req[r] IN
    /\ q.pc = "grants"
    /\ IF q.key = None
       THEN Continue(r, [q EXCEPT !.pc = "status", !.role = None,
                            !.perms = Granted(q.role)])
       ELSE Enter(r, [q EXCEPT !.role = None,
                         !.perms = Granted(q.role) \cap key[q.key].scopes])
    /\ UNCHANGED <<Tables, cache, workload>>

\* checkSoftDeleted: what a deleted user may still do
Decide(r, isDeleted) ==
    IF isDeleted /\ req[r].kind # "reactivate"
    THEN End(r)
    ELSE Enter(r, [req[r] EXCEPT !.read = FALSE, !.crossed = FALSE])

\* getSoftDeleteStatus finds an entry that has not expired
CacheHit(r) ==
    LET entry == cache[req[r].at][req[r].user] IN
    /\ req[r].pc = "status"
    /\ entry.value # "none"
    /\ Decide(r, entry.value = "deleted")
    /\ UNCHANGED <<Tables, cache, workload>>

CacheMiss(r) ==
    LET q == req[r] IN
    /\ q.pc = "status"
    /\ cache[q.at][q.user].value = "none"
    /\ Continue(r, [q EXCEPT !.pc = "store", !.read = deleted[q.user]])
    /\ UNCHANGED <<Tables, cache, workload>>

\* a deletion of the user in the same process has invalidated the entry and
\* not yet committed
Invalidated(i, u) ==
    \E q \in Requests : req[q].pc = "commit" /\ req[q].at = i /\ req[q].user = u

CacheStore(r) ==
    LET q == req[r] IN
    /\ q.pc = "store"
    /\ cache' = [cache EXCEPT ![q.at][q.user] =
                   [value |-> IF q.read THEN "deleted" ELSE "active",
                    excused |-> q.crossed \/ Invalidated(q.at, q.user)]]
    /\ Decide(r, q.read)
    /\ UNCHANGED <<Tables, workload>>

-----------------------------------------------------------------------------
(* The handlers that write what the guard reads; "act" is any other. *)

Act(r) ==
    /\ req[r].pc = "handle" /\ req[r].kind = "act"
    /\ End(r)
    /\ UNCHANGED <<Tables, cache, workload>>

\* the row that CreateKey inserts, if the statement succeeds
Insert(q) ==
    \/ UNCHANGED <<key, workload>>
    \/ /\ workload.keys > 0
       /\ workload' = [workload EXCEPT !.keys = @ - 1]
       /\ \E k \in Keys :
            /\ key[k].state = "none"
            /\ key' = [key EXCEPT ![k] = [state |-> "live", owner |-> q.user,
                                          scopes |-> q.asks, doomed |-> FALSE]]

\* mutant: validateScopes accepts whatever is asked
CreateKeyAnyScopes(r) ==
    /\ req[r].pc = "handle" /\ req[r].kind = "create"
    /\ Insert(req[r])
    /\ End(r)
    /\ UNCHANGED <<deleted, role, grants, cache>>

\* validateScopes and the insert
CreateKey(r) ==
    /\ req[r].pc = "handle" /\ req[r].kind = "create"
    /\ IF req[r].asks \subseteq req[r].perms
       THEN Insert(req[r])
       ELSE UNCHANGED <<key, workload>>
    /\ End(r)
    /\ UNCHANGED <<deleted, role, grants, cache>>

\* not found, or revoked now, or before
RevokeKey(r) ==
    /\ req[r].pc = "handle" /\ req[r].kind = "revoke"
    /\ \E k \in Keys :
         key' = IF key[k].state = "none" THEN key
                ELSE [key EXCEPT ![k].state = "dead"]
    /\ End(r)
    /\ UNCHANGED <<deleted, role, grants, cache, workload>>

Forget(i, u) == cache' = [cache EXCEPT ![i][u] = NoEntry]

\* a transaction that has written the row of u is not yet over
RowLocked(u) == \E q \in Requests : req[q].pc = "commit" /\ req[q].user = u

\* What a write of deleted_at makes stale: every lookup of u under way, and
\* the entries of all processes but those that are told.
Write(u, value, told, next) ==
    /\ deleted' = [deleted EXCEPT ![u] = value]
    /\ req' = [q \in Requests |->
                 IF next[q].pc = "store" /\ next[q].user = u
                 THEN [next[q] EXCEPT !.crossed = TRUE] ELSE next[q]]
    /\ cache' = [i \in Processes |->
                   IF i \in told \/ cache[i][u] = NoEntry THEN cache[i]
                   ELSE [cache[i] EXCEPT ![u].excused = TRUE]]

CountWrite ==
    workload.writes > 0 /\ workload' = [workload EXCEPT !.writes = @ - 1]

\* validateSoftDeleteRequest; a deletion that its resolutions refuse writes
\* nothing either
DeleteValidate(r) ==
    /\ req[r].pc = "handle" /\ req[r].kind = "delete"
    /\ \/ End(r)
       \/ ~deleted[req[r].user] /\ GoTo(r, "resolve")
    /\ UNCHANGED <<Tables, cache, workload>>

\* softDelete: the row is written and locked, and the entry dropped, before
\* the transaction ends
DeleteInvalidate(r) ==
    LET q == req[r] IN
    /\ q.pc = "resolve" /\ ~RowLocked(q.user)
    /\ Forget(q.at, q.user)
    /\ GoTo(r, "commit")
    /\ CountWrite
    /\ UNCHANGED Tables

DeleteCommit(r) ==
    LET q == req[r] IN
    /\ q.pc = "commit"
    /\ Write(q.user, TRUE, {q.at}, [req EXCEPT ![r].pc = "emit"])
    /\ key' = [k \in Keys |->
                 IF key[k].owner = q.user /\ key[k].state = "live"
                 THEN [key[k] EXCEPT !.doomed = TRUE] ELSE key[k]]
    /\ UNCHANGED <<role, grants, workload>>

\* mutant: nobody listens to the event
RevokeNoKey(r) ==
    /\ req[r].pc = "emit"
    /\ End(r)
    /\ UNCHANGED <<Tables, cache, workload>>

\* the event USER_SOFT_DELETED, awaited: revokeAllForUser
RevokeAllForUser(r) ==
    LET q == req[r] IN
    /\ q.pc = "emit"
    /\ key' = [k \in Keys |->
                 IF key[k].owner = q.user /\ key[k].state = "live"
                 THEN [key[k] EXCEPT !.state = "dead"] ELSE key[k]]
    /\ End(r)
    /\ UNCHANGED <<deleted, role, grants, cache, workload>>

\* The UPDATE of revokeAllForUser fails: emitAsync swallows the error of its
\* listener, the request succeeds and nobody tries again.
RevokeFails(r) ==
    LET u == req[r].user IN
    /\ req[r].pc = "emit"
    /\ key' = [k \in Keys |-> IF key[k].owner = u
                              THEN [key[k] EXCEPT !.doomed = FALSE] ELSE key[k]]
    /\ End(r)
    /\ UNCHANGED <<deleted, role, grants, cache, workload>>

ReactivateWrite(r) ==
    LET q == req[r] IN
    /\ q.pc = "handle" /\ q.kind = "reactivate" /\ ~RowLocked(q.user)
    /\ Write(q.user, FALSE, {q.at}, [req EXCEPT ![r].pc = "invalidate"])
    /\ CountWrite
    /\ UNCHANGED <<role, grants, key>>

\* mutant: the entry is left to expire
ReactivateInvalidateNothing(r) ==
    /\ req[r].pc = "invalidate"
    /\ End(r)
    /\ UNCHANGED <<Tables, cache, workload>>

ReactivateInvalidate(r) ==
    /\ req[r].pc = "invalidate"
    /\ Forget(req[r].at, req[r].user)
    /\ End(r)
    /\ UNCHANGED <<Tables, workload>>

-----------------------------------------------------------------------------
(* What changes next to the requests. *)

\* the entry is older than SOFT_DELETE_CACHE_TTL_MS
CacheExpires(i, u) ==
    /\ cache[i][u] # NoEntry
    /\ Forget(i, u)
    /\ UNCHANGED <<Tables, req, workload>>

KeyExpires(k) ==
    /\ key[k].state = "live"
    /\ key' = [key EXCEPT ![k].state = "dead"]
    /\ UNCHANGED <<deleted, role, grants, cache, req, workload>>

\* deleteUser and restoreUser of an administrator; where their own check is
\* out of date they write what is there
AdminWrite(u, value) ==
    /\ deleted[u] # value /\ ~RowLocked(u)
    /\ Write(u, value, {}, req)
    /\ CountWrite
    /\ UNCHANGED <<role, grants, key>>

CountEdit ==
    workload.edits > 0 /\ workload' = [workload EXCEPT !.edits = @ - 1]

\* role change, removal or transfer of a membership
RoleChanges(u, x) ==
    /\ role[u] # x
    /\ role' = [role EXCEPT ![u] = x]
    /\ req' = [q \in Requests |->
                 IF req[q].user = u
                 THEN [req[q] EXCEPT !.held = @ \cup ({x} \ {None})] ELSE req[q]]
    /\ CountEdit
    /\ UNCHANGED <<deleted, grants, key, cache>>

\* permission re-sync of a role
RoleEdited(x, permissions) ==
    /\ grants[x] # permissions
    /\ grants' = [grants EXCEPT ![x] = permissions]
    /\ req' = [q \in Requests |->
                 IF req[q].pc = "idle" THEN req[q]
                 ELSE [req[q] EXCEPT !.since[x] = @ \cup permissions]]
    /\ CountEdit
    /\ UNCHANGED <<deleted, role, key, cache>>

\* A process ends with its cache and its requests: transactions roll back,
\* events that were not delivered are lost.
ProcessEnds(i) ==
    /\ cache' = [cache EXCEPT ![i] = [u \in Users |-> NoEntry]]
    /\ req' = [q \in Requests |-> IF req[q].at = i THEN Idle ELSE req[q]]
    /\ key' = [k \in Keys |->
                 IF \E q \in Requests : /\ req[q].at = i /\ req[q].pc = "emit"
                                        /\ req[q].user = key[k].owner
                 THEN [key[k] EXCEPT !.doomed = FALSE] ELSE key[k]]
    /\ UNCHANGED <<deleted, role, grants, workload>>

-----------------------------------------------------------------------------
Guard(r) ==
    \/ FindKey(r) \/ ReadRole(r) \/ ReadGrants(r)
    \/ CacheHit(r) \/ CacheMiss(r) \/ CacheStore(r)

Handle(r) ==
    \/ Act(r) \/ CreateKey(r) \/ RevokeKey(r)
    \/ DeleteValidate(r) \/ DeleteInvalidate(r) \/ DeleteCommit(r)
    \/ RevokeAllForUser(r) \/ RevokeFails(r)
    \/ ReactivateWrite(r) \/ ReactivateInvalidate(r)

Next ==
    \/ \E r \in Requests :
         \/ \E i \in Processes, u \in Users, k \in Keys \cup {None},
               kind \in Kinds, asks \in SUBSET Permissions :
              Arrive(r, i, u, k, kind, asks)
         \/ Guard(r)
         \/ Handle(r)
    \/ \E u \in Users :
         \/ \E i \in Processes : CacheExpires(i, u)
         \/ \E value \in BOOLEAN : AdminWrite(u, value)
         \/ \E x \in Roles \cup {None} : RoleChanges(u, x)
    \/ \E k \in Keys : KeyExpires(k)
    \/ \E x \in Roles, permissions \in SUBSET Permissions :
         RoleEdited(x, permissions)
    \/ \E i \in Processes : ProcessEnds(i)

Spec == Init /\ [][Next]_vars

-----------------------------------------------------------------------------
(* Properties *)

\* what the roles the user had since the request arrived have granted since
MayUse(q) == UNION {q.since[x] : x \in q.held}

\* "Intersect key scopes with org's current permissions to prevent stale
\* elevated access": no request goes on with a permission that was lost before
\* it arrived, whatever its key was created with, nor a key beyond its scopes.
NoStaleElevation ==
    \A r \in Requests :
       /\ req[r].perms \subseteq MayUse(req[r])
       /\ req[r].key # None => req[r].perms \subseteq key[req[r].key].scopes

\* A key is created with permissions its creator held during the request, and
\* a key that creates another passes on no more than it has.
NoEscalation ==
    [][\A k \in Keys :
         key[k].state = "none" /\ key'[k].state = "live" =>
           \E r \in Requests :
             /\ req[r].kind = "create" /\ req[r].user = key'[k].owner
             /\ key'[k].scopes \subseteq MayUse(req[r])
             /\ req[r].key # None => key'[k].scopes \subseteq key[req[r].key].scopes]_vars

\* A cached status is that of the table, except where nothing the process did
\* could keep it so: the account was written elsewhere, a lookup overlapped
\* the write, or a deletion dropped the entry before it committed.
StaleForCause ==
    \A i \in Processes, u \in Users :
       LET entry == cache[i][u] IN
       \/ entry.value = "none"
       \/ deleted[u] <=> entry.value = "deleted"
       \/ entry.excused
       \/ \E r \in Requests :
            req[r].pc = "invalidate" /\ req[r].at = i /\ req[r].user = u

\* The keys that were live when a user deleted the account are revoked, unless
\* the listener is still at it, or the event was lost: the process ended, or the
\* UPDATE of the listener failed.  Then they would work again for an account
\* that is reactivated.
KeysDieWithAccount ==
    \A k \in Keys :
       key[k].doomed /\ key[k].state = "live" =>
         \E r \in Requests : req[r].pc = "emit" /\ req[r].user = key[k].owner

\* What a request knows is not older than the request.
Knows(q) ==
    /\ q.pc # "idle" =>
         /\ role[q.user] \in q.held \cup {None}
         /\ \A x \in Roles : grants[x] \subseteq q.since[x]
         /\ q.role \in q.held \cup {None}
    /\ q.perms \subseteq MayUse(q)
    /\ q.key # None =>
         key[q.key].state # "none" /\ q.perms \subseteq key[q.key].scopes
    /\ q.pc = "store" /\ ~q.crossed => q.read = deleted[q.user]

\* When a deletion commits, its process has no entry that is not excused.
DroppedBeforeCommit ==
    \A r \in Requests :
       req[r].pc = "commit" =>
         LET entry == cache[req[r].at][req[r].user] IN
         entry.value = "none" \/ entry.excused

\* The inductive invariant behind the three before.
AccessInv ==
    /\ TypeOK
    /\ \A r \in Requests : Knows(req[r])
    /\ StaleForCause
    /\ DroppedBeforeCommit
    /\ KeysDieWithAccount

=============================================================================
