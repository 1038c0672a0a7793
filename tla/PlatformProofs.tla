--------------------------- MODULE PlatformProofs ---------------------------
(* Proofs about the modules that MCServices puts side by side: tenants,     *)
(* settings, consent, themes, navigation, forms and dialogs, branches and   *)
(* renames.  Each has an inductive invariant of its own; at the end they    *)
(* are put together for the specification of MCServices.                    *)
EXTENDS MCServices, FiniteSetTheorems, TLAPS

(* ----------------------------- TenantContext ---------------------------- *)

HttpRequest ==
    [state : {"none", "resolving", "handling", "begun", "roleSet", "callback"},
     org : Tenants \cup {NoTenant}, tenant : Tenants \cup {NoTenant},
     allowed : BOOLEAN, excused : BOOLEAN, uses : Connections \cup {NoConnection}]

PooledConnection == [session : Identity, local : Identity]

\* What a request that is past the interceptor knows, and as whom the
\* connection it uses works.
TenantKept(x, connections, orgs) ==
    /\ x.uses # NoConnection <=> x.state \in {"begun", "roleSet", "callback"}
    /\ x.state \in {"handling", "begun", "roleSet", "callback"} => x.tenant = x.org
    /\ x.state = "begun" => connections[x.uses].local = Owner
    /\ x.state = "roleSet" =>
         connections[x.uses].local = [role |-> "app_user", tenant |-> NoTenant]
    /\ x.state = "callback" =>
         connections[x.uses].local = [role |-> "app_user", tenant |-> x.org]
    /\ x.org \in orgs /\ x.state # "resolving" => x.allowed \/ x.excused

\* A connection is used by one request; what its transaction set is undone
\* with it because the session of the connection is never touched.
TenantStrong ==
    /\ archived \subseteq Tenants
    /\ request \in [HttpRequests -> HttpRequest]
    /\ connection \in [Connections -> PooledConnection]
    /\ \A r, s \in HttpRequests :
         request[r].uses = request[s].uses /\ request[r].uses # NoConnection => r = s
    /\ \A c \in Connections :
         /\ connection[c].session = Owner
         /\ (\A r \in HttpRequests : request[r].uses # c) => connection[c].local = Owner
    /\ \A r \in HttpRequests : TenantKept(request[r], connection, archived)

LEMMA TenantStrongSuffices == TenantStrong => TenantInv
<1> SUFFICES ASSUME TenantStrong PROVE TenantInv
  OBVIOUS
<1>1. TenantTypeOK
  BY DEF TenantStrong, TenantTypeOK, HttpRequest, PooledConnection
<1>2. ASSUME NEW c \in Connections, Free(c) PROVE connection[c] = Unused
  <2>1. connection[c] \in PooledConnection
    BY DEF TenantStrong
  <2>2. connection[c].session = Owner /\ connection[c].local = Owner
    BY <1>2 DEF TenantStrong, Free
  <2> QED BY <2>1, <2>2 DEF PooledConnection, Unused
<1> QED BY <1>1, <1>2 DEF TenantStrong, TenantInv, TenantKept

LEMMA TenantBegins == TenantInit => TenantStrong
<1> SUFFICES ASSUME TenantInit PROVE TenantStrong
  OBVIOUS
<1>1. NoRequest \in HttpRequest /\ Owner \in Identity
  BY DEF NoRequest, HttpRequest, Owner, Identity
<1>2. Unused \in PooledConnection /\ Unused.session = Owner /\ Unused.local = Owner
  BY <1>1 DEF Unused, PooledConnection
<1>3. TenantKept(NoRequest, connection, {})
  BY DEF TenantKept, NoRequest
<1> QED BY <1>1, <1>2, <1>3 DEF TenantInit, TenantStrong, NoRequest

\* A step of a request that leaves the connections alone.
LEMMA RequestTurns ==
    ASSUME TenantStrong, NEW r \in HttpRequests, NEW x \in HttpRequest,
           request' = [request EXCEPT ![r] = x],
           x.uses = request[r].uses, TenantKept(x, connection, archived),
           UNCHANGED <<archived, connection>>
    PROVE  TenantStrong'
<1>1. /\ request' \in [HttpRequests -> HttpRequest]
      /\ \A s \in HttpRequests : request'[s] = IF s = r THEN x ELSE request[s]
  BY DEF TenantStrong
<1>2. \A s \in HttpRequests : request'[s].uses = request[s].uses
  BY <1>1
<1>3. \A s \in HttpRequests : TenantKept(request'[s], connection', archived')
  BY <1>1 DEF TenantStrong
<1> QED BY <1>1, <1>2, <1>3 DEF TenantStrong

\* A step of a request on the connection it uses.
LEMMA RequestWorks ==
    ASSUME TenantStrong, NEW r \in HttpRequests, NEW x \in HttpRequest,
           NEW c \in Connections, NEW y \in Identity,
           request[r].uses = c,
           request' = [request EXCEPT ![r] = x],
           connection' = [connection EXCEPT ![c] = [@ EXCEPT !.local = y]],
           archived' = archived,
           \/ x.uses = c
           \/ x.uses = NoConnection /\ y = Owner,
           TenantKept(x, connection', archived)
    PROVE  TenantStrong'
<1>1. /\ request' \in [HttpRequests -> HttpRequest]
      /\ \A s \in HttpRequests : request'[s] = IF s = r THEN x ELSE request[s]
  BY DEF TenantStrong
<1>2. connection[c] \in PooledConnection
  BY DEF TenantStrong
<1>3. [connection[c] EXCEPT !.local = y] \in PooledConnection
  BY <1>2 DEF PooledConnection
<1>4. /\ connection' \in [Connections -> PooledConnection]
      /\ connection'[c].local = y /\ connection'[c].session = connection[c].session
      /\ \A d \in Connections \ {c} : connection'[d] = connection[d]
  BY <1>2, <1>3 DEF TenantStrong, PooledConnection
<1>5. \A s \in HttpRequests \ {r} : request[s].uses # c
  BY TenantAssumption DEF TenantStrong
<1>6. ASSUME NEW s \in HttpRequests, s # r
      PROVE  TenantKept(request'[s], connection', archived')
  <2>1. request'[s] = request[s] /\ request[s].uses # c
    BY <1>1, <1>5, <1>6
  <2>2. request[s].uses \in Connections \cup {NoConnection}
    BY DEF TenantStrong, HttpRequest
  <2>3. request[s].uses # NoConnection => connection'[request[s].uses] = connection[request[s].uses]
    BY <1>4, <2>1, <2>2
  <2>4. TenantKept(request[s], connection, archived)
    BY DEF TenantStrong
  <2>5. TenantKept(request[s], connection', archived')
    <3> DEFINE x0 == request[s]
    <3>1. /\ x0.uses # NoConnection => connection'[x0.uses] = connection[x0.uses]
          /\ TenantKept(x0, connection, archived)
      BY <2>3, <2>4
    <3> HIDE DEF x0
    <3>2. TenantKept(x0, connection', archived')
      BY <3>1 DEF TenantKept
    <3> QED BY <3>2 DEF x0
  <2> QED BY <2>1, <2>5
<1>7. ASSUME NEW d \in Connections
      PROVE  /\ connection'[d].session = Owner
             /\ (\A s \in HttpRequests : request'[s].uses # d) => connection'[d].local = Owner
  <2>1. CASE d = c
    BY <2>1, <1>1, <1>4 DEF TenantStrong
  <2>2. CASE d # c
    <3>1. (\A s \in HttpRequests : request'[s].uses # d) =>
            \A s \in HttpRequests : request[s].uses # d
      BY <2>2, <1>1
    <3> QED BY <2>2, <3>1, <1>4 DEF TenantStrong
  <2> QED BY <2>1, <2>2
<1>8. \A s, t \in HttpRequests :
        request'[s].uses = request'[t].uses /\ request'[s].uses # NoConnection => s = t
  BY <1>1, <1>5 DEF TenantStrong
<1>9. \A s \in HttpRequests : TenantKept(request'[s], connection', archived')
  BY <1>1, <1>6
<1> QED BY <1>1, <1>4, <1>7, <1>8, <1>9 DEF TenantStrong

LEMMA RequestFields ==
    ASSUME TenantStrong, NEW r \in HttpRequests
    PROVE  /\ request[r] \in HttpRequest
           /\ request[r].org \in Tenants \cup {NoTenant}
           /\ request[r].tenant \in Tenants \cup {NoTenant}
           /\ request[r].uses \in Connections \cup {NoConnection}
           /\ TenantKept(request[r], connection, archived)
           /\ archived \subseteq Tenants
BY DEF TenantStrong, HttpRequest

LEMMA InterceptorKeeps ==
    ASSUME TenantStrong, NEW r \in HttpRequests,
           \/ \E org \in Tenants, allowed \in BOOLEAN : Arrive(r, org, allowed)
           \/ ArriveWithoutTenant(r) \/ Resolve(r) \/ RefuseArchived(r)
           \/ LookupFails(r) \/ Answer(r)
    PROVE  TenantStrong'
<1>1. /\ request[r] \in HttpRequest /\ TenantKept(request[r], connection, archived)
      /\ archived \subseteq Tenants /\ request[r].org \in Tenants \cup {NoTenant}
  BY RequestFields
<1>2. NoRequest \in HttpRequest
  BY DEF NoRequest, HttpRequest
<1>3. ASSUME NEW org \in Tenants, NEW allowed \in BOOLEAN, Arrive(r, org, allowed)
      PROVE  TenantStrong'
  <2> DEFINE x == [NoRequest EXCEPT !.state = "resolving", !.org = org, !.allowed = allowed]
  <2>1. x \in HttpRequest /\ x.state = "resolving" /\ x.uses = NoConnection
    BY DEF NoRequest, HttpRequest
  <2>2. request' = [request EXCEPT ![r] = x] /\ request[r] = NoRequest
        /\ UNCHANGED <<archived, connection>>
    BY <1>3 DEF Arrive
  <2>3. TenantKept(x, connection, archived)
    <3> HIDE DEF x
    <3> QED BY <2>1 DEF TenantKept
  <2>4. request[r].uses = NoConnection
    BY <2>2 DEF NoRequest
  <2> HIDE DEF x
  <2> QED BY <2>1, <2>2, <2>3, <2>4, RequestTurns
<1>4. ASSUME ArriveWithoutTenant(r) PROVE TenantStrong'
  <2> DEFINE x == [request[r] EXCEPT !.state = "handling"]
  <2>1. request[r] = NoRequest /\ UNCHANGED <<archived, connection>>
        /\ request' = [request EXCEPT ![r] = x]
    BY <1>4 DEF ArriveWithoutTenant, In
  <2>2. /\ x \in HttpRequest /\ x.state = "handling" /\ x.uses = NoConnection
        /\ x.org = NoTenant /\ x.tenant = NoTenant /\ request[r].uses = NoConnection
    <3>1. x = [NoRequest EXCEPT !.state = "handling"]
      BY <2>1
    <3> HIDE DEF x
    <3>2. x \in HttpRequest
      BY <3>1, <1>2 DEF NoRequest, HttpRequest
    <3> QED BY <3>1, <3>2, <2>1 DEF NoRequest
  <2> HIDE DEF x
  <2>3. TenantKept(x, connection, archived)
    BY <2>2, <1>1, TenantAssumption DEF TenantKept
  <2> QED BY <2>1, <2>2, <2>3, RequestTurns
<1>5. ASSUME Resolve(r) \/ LookupFails(r) PROVE TenantStrong'
  <2> DEFINE x == IF Resolve(r)
                  THEN [request[r] EXCEPT !.state = "handling", !.tenant = request[r].org]
                  ELSE [request[r] EXCEPT !.state = "handling", !.tenant = request[r].org,
                                          !.excused = TRUE]
  <2>1. /\ request[r].state = "resolving" /\ UNCHANGED <<archived, connection>>
        /\ request' = [request EXCEPT ![r] = x]
        /\ Resolve(r) => (request[r].org \in archived => request[r].allowed)
    BY <1>5 DEF Resolve, LookupFails
  <2>2. /\ x \in HttpRequest /\ x.state = "handling" /\ x.uses = request[r].uses
        /\ x.org = request[r].org /\ x.tenant = request[r].org
        /\ x.allowed = request[r].allowed /\ (~Resolve(r) => x.excused)
    BY <1>1 DEF HttpRequest
  <2> HIDE DEF x
  <2>3. TenantKept(x, connection, archived)
    BY <2>1, <2>2, <1>1 DEF TenantKept
  <2> QED BY <2>1, <2>2, <2>3, RequestTurns
<1>6. ASSUME RefuseArchived(r) \/ Answer(r) PROVE TenantStrong'
  <2>1. /\ request[r].state \in {"resolving", "handling"} /\ UNCHANGED <<archived, connection>>
        /\ request' = [request EXCEPT ![r] = NoRequest]
    BY <1>6 DEF RefuseArchived, Answer, EndRequest
  <2>2. TenantKept(NoRequest, connection, archived)
    BY <1>1, TenantAssumption DEF TenantKept, NoRequest
  <2>3. request[r].uses = NoConnection /\ NoRequest.uses = NoConnection
    BY <2>1, <1>1 DEF TenantKept, NoRequest
  <2> QED BY <2>1, <2>2, <2>3, <1>2, RequestTurns
<1> QED BY <1>3, <1>4, <1>5, <1>6

LEMMA QueryKeeps ==
    ASSUME TenantStrong, NEW r \in HttpRequests,
           SetRole(r) \/ SetTenant(r) \/ EndQuery(r)
    PROVE  TenantStrong'
<1>1. /\ request[r] \in HttpRequest /\ TenantKept(request[r], connection, archived)
      /\ request[r].tenant \in Tenants \cup {NoTenant}
      /\ request[r].uses \in Connections \cup {NoConnection}
  BY RequestFields
<1> DEFINE c == request[r].uses
<1>2. c \in Connections
  BY <1>1 DEF SetRole, SetTenant, EndQuery, TenantKept
<1>3. connection \in [Connections -> PooledConnection] /\ connection[c].session = Owner
  BY <1>2 DEF TenantStrong
<1>4. connection[c].local \in Identity
  BY <1>2, <1>3 DEF PooledConnection
<1>5. ASSUME SetRole(r) PROVE TenantStrong'
  <2> DEFINE y == [connection[c].local EXCEPT !.role = "app_user"]
             x == [request[r] EXCEPT !.state = "roleSet"]
  <2>1. request[r].state = "begun" /\ request' = [request EXCEPT ![r] = x] /\ archived' = archived
        /\ connection' = [connection EXCEPT ![c] = [@ EXCEPT !.local = y]]
    BY <1>5 DEF SetRole, In
  <2>2. connection[c].local = Owner
    BY <2>1, <1>1 DEF TenantKept
  <2>3. y \in Identity /\ y = [role |-> "app_user", tenant |-> NoTenant]
    BY <2>2 DEF Owner, Identity
  <2>4. /\ x \in HttpRequest /\ x.uses = c /\ x.state = "roleSet" /\ x.org = request[r].org
        /\ x.tenant = request[r].tenant /\ x.allowed = request[r].allowed
        /\ x.excused = request[r].excused
    BY <1>1 DEF HttpRequest
  <2> HIDE DEF x, y
  <2>5. connection'[c].local = y
    BY <2>1, <1>2, <1>3 DEF PooledConnection
  <2>6. TenantKept(x, connection', archived)
    BY <2>1, <2>3, <2>4, <2>5, <1>1 DEF TenantKept
  <2> QED BY <2>1, <2>3, <2>4, <2>6, <1>2, RequestWorks
<1>6. ASSUME SetTenant(r) PROVE TenantStrong'
  <2> DEFINE y == [connection[c].local EXCEPT !.tenant = request[r].tenant]
             x == [request[r] EXCEPT !.state = "callback"]
  <2>1. request[r].state = "roleSet" /\ request' = [request EXCEPT ![r] = x]
        /\ archived' = archived
        /\ connection' = [connection EXCEPT ![c] = [@ EXCEPT !.local = y]]
    BY <1>6 DEF SetTenant, In
  <2>2. connection[c].local = [role |-> "app_user", tenant |-> NoTenant]
        /\ request[r].tenant = request[r].org
    BY <2>1, <1>1 DEF TenantKept
  <2>3. y \in Identity /\ y = [role |-> "app_user", tenant |-> request[r].org]
    BY <2>2, <1>1 DEF Identity
  <2>4. /\ x \in HttpRequest /\ x.uses = c /\ x.state = "callback" /\ x.org = request[r].org
        /\ x.tenant = request[r].tenant /\ x.allowed = request[r].allowed
        /\ x.excused = request[r].excused
    BY <1>1 DEF HttpRequest
  <2> HIDE DEF x, y
  <2>5. connection'[c].local = y
    BY <2>1, <1>2, <1>3 DEF PooledConnection
  <2>6. TenantKept(x, connection', archived)
    BY <2>1, <2>3, <2>4, <2>5, <1>1 DEF TenantKept
  <2> QED BY <2>1, <2>3, <2>4, <2>6, <1>2, RequestWorks
<1>7. ASSUME EndQuery(r) PROVE TenantStrong'
  <2> DEFINE x == [request[r] EXCEPT !.state = "handling", !.uses = NoConnection]
  <2>1. request[r].uses # NoConnection /\ request' = [request EXCEPT ![r] = x]
        /\ archived' = archived
        /\ connection' = [connection EXCEPT ![c] = [@ EXCEPT !.local = connection[c].session]]
    BY <1>7 DEF EndQuery
  <2>2. Owner \in Identity
    BY DEF Owner, Identity
  <2>3. /\ x \in HttpRequest /\ x.uses = NoConnection /\ x.state = "handling"
        /\ x.org = request[r].org /\ x.tenant = request[r].tenant
        /\ x.allowed = request[r].allowed /\ x.excused = request[r].excused
    BY <1>1 DEF HttpRequest
  <2> HIDE DEF x
  <2>4. TenantKept(x, connection', archived)
    BY <2>1, <2>3, <1>1 DEF TenantKept
  <2> QED BY <2>1, <2>2, <2>3, <2>4, <1>2, <1>3, RequestWorks
<1> QED BY <1>5, <1>6, <1>7

LEMMA BeginQueryKeeps ==
    ASSUME TenantStrong, NEW r \in HttpRequests, NEW c \in Connections, BeginQuery(r, c)
    PROVE  TenantStrong'
<1> DEFINE x == [request[r] EXCEPT !.state = "begun", !.uses = c]
<1>1. /\ request[r] \in HttpRequest /\ TenantKept(request[r], connection, archived)
  BY RequestFields
<1>2. /\ request[r].state = "handling" /\ request' = [request EXCEPT ![r] = x]
      /\ UNCHANGED <<archived, connection>>
      /\ \A s \in HttpRequests : request[s].uses # c
  BY DEF BeginQuery, Free
<1>3. /\ x \in HttpRequest /\ x.uses = c /\ x.state = "begun" /\ x.org = request[r].org
      /\ x.tenant = request[r].tenant /\ x.allowed = request[r].allowed
      /\ x.excused = request[r].excused
  BY <1>1 DEF HttpRequest
<1> HIDE DEF x
<1>4. connection[c].local = Owner
  BY <1>2 DEF TenantStrong
<1>5. TenantKept(x, connection, archived)
  BY <1>1, <1>2, <1>3, <1>4, TenantAssumption DEF TenantKept
<1>6. /\ request' \in [HttpRequests -> HttpRequest]
      /\ \A s \in HttpRequests : request'[s] = IF s = r THEN x ELSE request[s]
  BY <1>2, <1>3 DEF TenantStrong
<1>7. request[r].uses = NoConnection
  BY <1>1, <1>2 DEF TenantKept
<1>8. \A s, t \in HttpRequests :
        request'[s].uses = request'[t].uses /\ request'[s].uses # NoConnection => s = t
  BY <1>2, <1>3, <1>6 DEF TenantStrong
<1>9. ASSUME NEW d \in Connections, \A s \in HttpRequests : request'[s].uses # d
      PROVE  connection'[d].local = Owner
  <2>1. \A s \in HttpRequests : request[s].uses # d
    BY <1>6, <1>7, <1>9, TenantAssumption
  <2> QED BY <2>1, <1>2 DEF TenantStrong
<1>10. \A s \in HttpRequests : TenantKept(request'[s], connection', archived')
  BY <1>2, <1>5, <1>6 DEF TenantStrong
<1> QED BY <1>2, <1>6, <1>8, <1>9, <1>10 DEF TenantStrong

\* Organizations are archived and come back under the requests.
LEMMA ArchivalKeeps ==
    ASSUME TenantStrong, NEW o \in Tenants, Archive(o) \/ Reactivate(o)
    PROVE  TenantStrong'
<1>1. ASSUME Archive(o) PROVE TenantStrong'
  <2>1. archived' = archived \cup {o} /\ connection' = connection
    BY <1>1 DEF Archive
  <2>2. ASSUME NEW s \in HttpRequests
        PROVE  /\ request'[s] \in HttpRequest /\ request'[s].uses = request[s].uses
               /\ TenantKept(request'[s], connection, archived')
    <3>1. request[s] \in HttpRequest /\ TenantKept(request[s], connection, archived)
      BY RequestFields
    <3>2. CASE request[s].org = o /\ request[s].state # "resolving"
      <4>1. request'[s] = [request[s] EXCEPT !.excused = TRUE]
        BY <1>1, <3>2 DEF Archive
      <4>2. /\ request'[s] \in HttpRequest /\ request'[s].excused
            /\ request'[s].uses = request[s].uses /\ request'[s].state = request[s].state
            /\ request'[s].org = request[s].org /\ request'[s].tenant = request[s].tenant
        BY <3>1, <4>1 DEF HttpRequest
      <4> QED BY <3>1, <4>2 DEF TenantKept
    <3>3. CASE ~(request[s].org = o /\ request[s].state # "resolving")
      <4>1. request'[s] = request[s]
        BY <1>1, <3>3 DEF Archive
      <4> QED BY <3>1, <3>3, <4>1, <2>1 DEF TenantKept
    <3> QED BY <3>2, <3>3
  <2>3. request' \in [HttpRequests -> HttpRequest]
    BY <1>1, <2>2 DEF Archive
  <2> QED BY <2>1, <2>2, <2>3 DEF TenantStrong
<1>2. ASSUME Reactivate(o) PROVE TenantStrong'
  BY <1>2 DEF Reactivate, TenantStrong, TenantKept
<1> QED BY <1>1, <1>2

LEMMA TenantStep == TenantStrong /\ [TenantNext]_tenantVars => TenantStrong'
<1> SUFFICES ASSUME TenantStrong, [TenantNext]_tenantVars PROVE TenantStrong'
  OBVIOUS
<1>1. CASE UNCHANGED tenantVars
  BY <1>1 DEF tenantVars, TenantStrong
<1>2. CASE TenantNext
  BY <1>2, InterceptorKeeps, QueryKeeps, BeginQueryKeeps, ArchivalKeeps DEF TenantNext
<1> QED BY <1>1, <1>2

(* ----------------------------- SystemSettings --------------------------- *)

PatchShape(p) ==
    {"state", "updates", "asked", "todo", "before", "written", "raced", "misreported",
     "unexplained"} \subseteq DOMAIN p

\* What a request knows of the table: the values read in the first phase are
\* those of the table until its own write of the second, or somebody raced.
PatchKept(p, table) ==
    /\ PatchShape(p)
    /\ p.state \in {"none", "checking", "writing", "done", "rejected", "failed"}
    /\ p.updates \in Partial /\ p.before \in Partial
    /\ p.asked \subseteq Settings /\ p.raced \subseteq Settings
    /\ p.todo \subseteq DOMAIN p.updates
    /\ p.written \subseteq p.asked
    /\ p.misreported = {} /\ p.unexplained = {}
    /\ p.state = "rejected" => p.written = {}
    /\ p.state = "done" => p.written = p.asked
    /\ p.state \in {"checking", "writing"} => DOMAIN p.updates = p.asked
    /\ p.state = "checking" =>
         /\ DOMAIN p.before = p.asked \ p.todo
         /\ p.written = {}
         /\ \A s \in p.asked \ p.todo :
              /\ p.updates[s] \in Valid[s]
              /\ p.before[s] = table[s] \/ s \in p.raced
    /\ p.state = "writing" =>
         /\ DOMAIN p.before = p.asked
         /\ p.written = p.asked \ p.todo
         /\ \A s \in p.asked : p.updates[s] \in Valid[s]
         /\ \A s \in p.todo : p.before[s] = table[s] \/ s \in p.raced

\* A setting that is not explained is the same in the form, in what was fetched
\* and in the table.
SettingsStrong ==
    /\ stored \in [Settings -> SettingValues]
    /\ \A s \in Settings : stored[s] \in Valid[s]
    /\ form \in [fetched : [Settings -> SettingValues],
                 values : [Settings -> SettingValues],
                 explained : SUBSET Settings]
    /\ \A s \in Settings \ form.explained :
         form.values[s] = form.fetched[s] /\ form.fetched[s] = stored[s]
    /\ PatchKept(patch, stored)

LEMMA SettingsStrongSuffices == SettingsStrong => SettingsInv
BY DEF SettingsStrong, SettingsInv, SettingsTypeOK, PatchKept

LEMMA PartialIs ==
    ASSUME NEW f \in Partial
    PROVE  DOMAIN f \subseteq Settings /\ f \in [DOMAIN f -> SettingValues]
BY DEF Partial

LEMMA EmptyIsPartial == <<>> \in Partial /\ DOMAIN <<>> = {}
<1>1. <<>> \in [{} -> SettingValues] /\ DOMAIN <<>> = {}
  OBVIOUS
<1> QED BY <1>1 DEF Partial

LEMMA AnsweredIs ==
    ASSUME NEW p, PatchShape(p), NEW state
    PROVE  LET a == AnsweredPatch(p, state)
           IN  /\ PatchShape(a) /\ a.state = state /\ a.updates = <<>> /\ a.todo = {}
               /\ a.before = <<>> /\ a.raced = {} /\ a.asked = p.asked
               /\ a.written = p.written /\ a.misreported = p.misreported
               /\ a.unexplained = p.unexplained
BY DEF AnsweredPatch, PatchShape

\* A request ends: refused before it wrote, done when it wrote all, or broken.
LEMMA PatchEnds ==
    ASSUME NEW p, NEW table, PatchKept(p, table), NEW state \in {"done", "rejected", "failed"},
           state = "done" => p.written = p.asked,
           state = "rejected" => p.written = {}
    PROVE  PatchKept(AnsweredPatch(p, state), table)
<1> DEFINE a == AnsweredPatch(p, state)
<1>1. /\ PatchShape(a) /\ a.state = state /\ a.updates = <<>> /\ a.todo = {}
      /\ a.before = <<>> /\ a.raced = {} /\ a.asked = p.asked
      /\ a.written = p.written /\ a.misreported = p.misreported
      /\ a.unexplained = p.unexplained
  BY AnsweredIs DEF PatchKept
<1> HIDE DEF a
<1>2. PatchKept(a, table)
  BY <1>1, EmptyIsPartial DEF PatchKept
<1> QED BY <1>2 DEF a

LEMMA SettingsBegin == SettingsInit => SettingsStrong
<1> SUFFICES ASSUME SettingsInit PROVE SettingsStrong
  OBVIOUS
<1>1. /\ form.fetched = stored /\ form.values = stored /\ form.explained = {}
      /\ form \in [fetched : [Settings -> SettingValues],
                   values : [Settings -> SettingValues], explained : SUBSET Settings]
  BY DEF SettingsInit, Opened
<1>2. PatchKept(NoPatch, stored)
  BY EmptyIsPartial DEF NoPatch, PatchKept, PatchShape
<1> QED BY <1>1, <1>2 DEF SettingsInit, SettingsStrong

\* The page: the form changes, the table does not.
LEMMA FormKeeps ==
    ASSUME SettingsStrong,
           Open \/ RefetchSettings \/ \E s \in Settings, v \in SettingValues : Edit(s, v)
    PROVE  SettingsStrong'
<1>1. stored' = stored /\ patch' = patch
  BY DEF Open, RefetchSettings, Edit
<1>2. CASE Open
  BY <1>1, <1>2 DEF Open, Opened, SettingsStrong
<1>3. CASE RefetchSettings
  <2>1. form' = [form EXCEPT !.fetched = stored]
    BY <1>3 DEF RefetchSettings
  <2> QED BY <1>1, <2>1 DEF SettingsStrong
<1>4. ASSUME NEW s \in Settings, NEW v \in SettingValues, Edit(s, v) PROVE SettingsStrong'
  <2>1. form' = [form EXCEPT !.values = [form.values EXCEPT ![s] = v],
                             !.explained = form.explained \cup {s}]
    BY <1>4 DEF Edit
  <2>2. /\ form'.fetched = form.fetched /\ form'.explained = form.explained \cup {s}
        /\ form'.values = [form.values EXCEPT ![s] = v]
        /\ form' \in [fetched : [Settings -> SettingValues],
                      values : [Settings -> SettingValues], explained : SUBSET Settings]
    BY <2>1 DEF SettingsStrong
  <2> QED BY <1>1, <2>2 DEF SettingsStrong
<1> QED BY <1>2, <1>3, <1>4

LEMMA SaveKeeps == ASSUME SettingsStrong, Save PROVE SettingsStrong'
<1> DEFINE sent == [NoPatch EXCEPT !.state = "checking",
                                   !.updates = [s \in ChangedSettings |-> form.values[s]],
                                   !.asked = ChangedSettings, !.todo = ChangedSettings,
                                   !.unexplained = ChangedSettings \ form.explained]
<1>1. patch' = sent /\ stored' = stored /\ form' = form
  BY DEF Save
<1>2. ChangedSettings \subseteq form.explained /\ ChangedSettings \subseteq Settings
  BY DEF ChangedSettings, SettingsStrong
<1>3. [s \in ChangedSettings |-> form.values[s]] \in Partial
  <2>1. [s \in ChangedSettings |-> form.values[s]] \in [ChangedSettings -> SettingValues]
    BY <1>2 DEF SettingsStrong
  <2> QED BY <2>1, <1>2 DEF Partial
<1>4. /\ PatchShape(sent) /\ sent.state = "checking" /\ sent.asked = ChangedSettings
      /\ sent.todo = ChangedSettings /\ sent.before = <<>> /\ sent.written = {}
      /\ sent.raced = {} /\ sent.misreported = {}
      /\ sent.unexplained = ChangedSettings \ form.explained
      /\ sent.updates = [s \in ChangedSettings |-> form.values[s]]
  BY DEF NoPatch, PatchShape
<1> HIDE DEF sent
<1>5. PatchKept(sent, stored)
  BY <1>2, <1>3, <1>4, EmptyIsPartial DEF PatchKept
<1> QED BY <1>1, <1>5 DEF SettingsStrong

\* The first phase: what is read is the value of the table.
LEMMA CheckKeeps == ASSUME SettingsStrong, NEW s \in Settings, Check(s) PROVE SettingsStrong'
<1> DEFINE left == patch.todo \ {s}
           read == [k \in DOMAIN patch.before \cup {s} |->
                      IF k = s THEN stored[s] ELSE patch.before[k]]
<1>1. /\ patch.state = "checking" /\ s \in patch.todo /\ patch.updates[s] \in Valid[s]
      /\ stored' = stored /\ form' = form
      /\ patch' = IF left # {}
                  THEN [patch EXCEPT !.todo = left, !.before = read]
                  ELSE [patch EXCEPT !.state = "writing", !.before = read,
                                     !.todo = DOMAIN patch.updates]
  BY DEF Check
<1>2. PatchKept(patch, stored)
  BY DEF SettingsStrong
<1>3. read \in Partial /\ DOMAIN read = DOMAIN patch.before \cup {s}
  <2>1. DOMAIN patch.before \subseteq Settings
        /\ patch.before \in [DOMAIN patch.before -> SettingValues]
    BY <1>2, PartialIs DEF PatchKept
  <2>2. read \in [DOMAIN patch.before \cup {s} -> SettingValues]
    BY <2>1 DEF SettingsStrong
  <2> QED BY <2>1, <2>2 DEF Partial
<1>4. /\ read[s] = stored[s]
      /\ \A k \in DOMAIN patch.before : k # s => read[k] = patch.before[k]
  OBVIOUS
<1>5. PatchShape(patch)
  BY <1>2 DEF PatchKept
<1>6. CASE left # {}
  <2>1. /\ PatchShape(patch') /\ patch'.state = "checking" /\ patch'.todo = left
        /\ patch'.before = read /\ patch'.updates = patch.updates
        /\ patch'.asked = patch.asked /\ patch'.written = patch.written
        /\ patch'.raced = patch.raced /\ patch'.misreported = patch.misreported
        /\ patch'.unexplained = patch.unexplained
    <3> HIDE DEF left, read
    <3> QED BY <1>1, <1>5, <1>6 DEF PatchShape
  <2>2. PatchKept(patch', stored)
    <3> HIDE DEF read
    <3> QED BY <2>1, <1>1, <1>2, <1>3, <1>4 DEF PatchKept
  <2> QED BY <1>1, <2>2 DEF SettingsStrong
<1>7. CASE left = {}
  <2>1. /\ PatchShape(patch') /\ patch'.state = "writing" /\ patch'.todo = DOMAIN patch.updates
        /\ patch'.before = read /\ patch'.updates = patch.updates
        /\ patch'.asked = patch.asked /\ patch'.written = patch.written
        /\ patch'.raced = patch.raced /\ patch'.misreported = patch.misreported
        /\ patch'.unexplained = patch.unexplained
    <3> HIDE DEF left, read
    <3> QED BY <1>1, <1>5, <1>7 DEF PatchShape
  <2>2. PatchKept(patch', stored)
    <3> HIDE DEF read
    <3> QED BY <2>1, <1>1, <1>2, <1>3, <1>4, <1>7 DEF PatchKept
  <2> QED BY <1>1, <2>2 DEF SettingsStrong
<1> QED BY <1>6, <1>7

\* The second phase: what is replaced is what was read, or somebody raced.
LEMMA WriteKeeps == ASSUME SettingsStrong, NEW s \in Settings, Write(s) PROVE SettingsStrong'
<1> DEFINE left == patch.todo \ {s}
           wrong == IF patch.before[s] # stored[s] /\ s \notin patch.raced
                    THEN patch.misreported \cup {s} ELSE patch.misreported
           done == [patch EXCEPT !.todo = left, !.written = patch.written \cup {s},
                                 !.misreported = wrong]
<1>1. /\ patch.state = "writing" /\ s \in patch.todo
      /\ stored' = [stored EXCEPT ![s] = patch.updates[s]]
      /\ form' = [form EXCEPT !.explained = form.explained \cup {s}]
      /\ patch' = IF left = {} THEN AnsweredPatch(done, "done") ELSE done
  BY DEF Write
<1>2. PatchKept(patch, stored)
  BY DEF SettingsStrong
<1>3. patch.updates[s] \in Valid[s] /\ patch.updates[s] \in SettingValues
      /\ wrong = patch.misreported /\ DOMAIN patch.updates = patch.asked
  BY <1>1, <1>2 DEF PatchKept, Valid
<1>4. /\ stored' \in [Settings -> SettingValues] /\ stored'[s] = patch.updates[s]
      /\ \A k \in Settings : k # s => stored'[k] = stored[k]
  BY <1>1, <1>3 DEF SettingsStrong
<1>5. /\ PatchShape(done) /\ done.state = "writing" /\ done.todo = left
      /\ done.before = patch.before /\ done.updates = patch.updates
      /\ done.asked = patch.asked /\ done.written = patch.written \cup {s}
      /\ done.raced = patch.raced /\ done.misreported = wrong
      /\ done.unexplained = patch.unexplained
  <2>1. PatchShape(patch)
    BY <1>2 DEF PatchKept
  <2> HIDE DEF left, wrong
  <2> QED BY <2>1, <1>1 DEF PatchShape
<1> HIDE DEF done
<1>6. PatchKept(done, stored')
  <2> HIDE DEF wrong
  <2> QED BY <1>1, <1>2, <1>3, <1>4, <1>5 DEF PatchKept
<1>7. PatchKept(patch', stored')
  <2>1. CASE left = {}
    <3>1. done.written = done.asked
      BY <1>1, <1>2, <1>5, <1>3, <2>1 DEF PatchKept
    <3> QED BY <3>1, <2>1, <1>1, <1>6, PatchEnds
  <2>2. CASE left # {}
    BY <2>2, <1>1, <1>6
  <2> QED BY <2>1, <2>2
<1>8. /\ form'.fetched = form.fetched /\ form'.explained = form.explained \cup {s}
      /\ form'.values = form.values
      /\ form' \in [fetched : [Settings -> SettingValues],
                    values : [Settings -> SettingValues], explained : SUBSET Settings]
  BY <1>1 DEF SettingsStrong
<1> QED BY <1>3, <1>4, <1>7, <1>8 DEF SettingsStrong

LEMMA OtherWriteKeeps ==
    ASSUME SettingsStrong, NEW s \in Settings, NEW v \in SettingValues, OtherWrite(s, v)
    PROVE  SettingsStrong'
<1>1. /\ v \in Valid[s] /\ stored' = [stored EXCEPT ![s] = v]
      /\ form' = [form EXCEPT !.explained = form.explained \cup {s}]
      /\ patch' = IF InFlight THEN [patch EXCEPT !.raced = patch.raced \cup {s}] ELSE patch
  BY DEF OtherWrite
<1>2. PatchKept(patch, stored)
  BY DEF SettingsStrong
<1>3. /\ stored' \in [Settings -> SettingValues] /\ stored'[s] = v
      /\ \A k \in Settings : k # s => stored'[k] = stored[k]
  BY <1>1 DEF SettingsStrong
<1>4. PatchKept(patch', stored')
  <2>1. CASE InFlight
    <3>1. /\ PatchShape(patch') /\ patch'.state = patch.state /\ patch'.todo = patch.todo
          /\ patch'.before = patch.before /\ patch'.updates = patch.updates
          /\ patch'.asked = patch.asked /\ patch'.written = patch.written
          /\ patch'.raced = patch.raced \cup {s} /\ patch'.misreported = patch.misreported
          /\ patch'.unexplained = patch.unexplained
      <4>1. PatchShape(patch)
        BY <1>2 DEF PatchKept
      <4> QED BY <4>1, <1>1, <2>1 DEF PatchShape
    <3> QED BY <3>1, <1>2, <1>3 DEF PatchKept
  <2>2. CASE ~InFlight
    BY <2>2, <1>1, <1>2 DEF PatchKept, InFlight
  <2> QED BY <2>1, <2>2
<1>5. /\ form'.fetched = form.fetched /\ form'.explained = form.explained \cup {s}
      /\ form'.values = form.values
      /\ form' \in [fetched : [Settings -> SettingValues],
                    values : [Settings -> SettingValues], explained : SUBSET Settings]
  BY <1>1 DEF SettingsStrong
<1> QED BY <1>1, <1>3, <1>4, <1>5 DEF SettingsStrong

LEMMA SettingsStep == SettingsStrong /\ [SettingsNext]_settingsVars => SettingsStrong'
<1> SUFFICES ASSUME SettingsStrong, [SettingsNext]_settingsVars PROVE SettingsStrong'
  OBVIOUS
<1>1. CASE UNCHANGED settingsVars
  BY <1>1 DEF settingsVars, SettingsStrong
<1>2. ASSUME Break \/ \E s \in Settings : RejectPatch(s) PROVE SettingsStrong'
  <2>1. PICK state \in {"rejected", "failed"} :
          /\ patch' = AnsweredPatch(patch, state) /\ stored' = stored /\ form' = form
          /\ state = "rejected" => patch.state = "checking"
    BY <1>2 DEF Break, RejectPatch
  <2>2. PatchKept(patch, stored) /\ (state = "rejected" => patch.written = {})
    BY <2>1 DEF SettingsStrong, PatchKept
  <2>3. PatchKept(patch', stored)
    BY <2>1, <2>2, PatchEnds
  <2> QED BY <2>1, <2>3 DEF SettingsStrong
<1>3. CASE SettingsNext
  BY <1>2, <1>3, FormKeeps, SaveKeeps, CheckKeeps, WriteKeeps, OtherWriteKeeps DEF SettingsNext
<1> QED BY <1>1, <1>3

(* -------------------------------- Consent ------------------------------- *)

ChoiceMade == [by : Persons \cup {Anonymous}, under : Policies]
Post == [choice : Choices, user : Persons \cup {Anonymous}, handled : BOOLEAN]
Get == [user : Persons, answered : BOOLEAN, record : Consents]
PageConsent == [consent : Consents, banner : BOOLEAN, policy : Policies]

\* Nothing refers to a choice that was not made.
KnownChoice(n) == n = NoConsent \/ n \in MadeSoFar

\* p is the consent that page and cookie have, but for an aged cookie.
AppliedHere(n) == page.consent = n /\ (cookie = n \/ n \in aged)

\* Where page, cookie and record of an undisturbed user are: all agree; the
\* record is being fetched; or a choice is on its way to the record.
Settled ==
    posts = {} /\ gets = {} /\ (records[session] # NoConsent => AppliedHere(records[session]))
Fetching ==
    /\ posts = {}
    /\ \E g \in Get : gets = {g} /\ g.user = session
                      /\ (g.answered => g.record = records[session])
Posting ==
    /\ gets = {}
    /\ \E p \in Post : posts = {p} /\ p.user = session /\ AppliedHere(p.choice)
                       /\ (p.handled => records[session] = p.choice)

ConsentStrong ==
    /\ ConsentTypeOK
    /\ KnownChoice(page.consent) /\ KnownChoice(cookie)
    /\ \A u \in Persons : KnownChoice(records[u])
    /\ \A p \in posts : p.choice \in MadeSoFar /\ made[p.choice].by = p.user
    /\ \A g \in gets : KnownChoice(g.record)
    /\ \A i \in aged : 1..i \subseteq aged
    /\ ~page.banner =>
         page.consent # NoConsent /\ made[page.consent].under = page.policy
    /\ \A u \in Persons : records[u] # NoConsent => made[records[u]].by = u
    /\ ~disturbed /\ session \in Persons => Settled \/ Fetching \/ Posting

LEMMA ConsentStrongSuffices == ConsentStrong => ConsentInv
<1> SUFFICES ASSUME ConsentStrong, Quiet, ~disturbed, session \in Persons,
                    records[session] # NoConsent
             PROVE  /\ page.consent = records[session]
                    /\ cookie = records[session] \/ records[session] \in aged
  BY DEF ConsentStrong, ConsentInv
<1>1. ~Fetching /\ ~Posting
  BY DEF Quiet, Fetching, Posting
<1> QED BY <1>1 DEF ConsentStrong, Settled, AppliedHere

LEMMA ConsentBegins == ConsentInit => ConsentStrong
<1> SUFFICES ASSUME ConsentInit PROVE ConsentStrong
  OBVIOUS
<1>1. made \in Seq(ChoiceMade) /\ Len(made) = 0 /\ MadeSoFar = {}
  <2>1. made = <<>>
    BY DEF ConsentInit
  <2>2. made \in Seq(ChoiceMade) /\ Len(made) = 0
    BY <2>1
  <2>3. MadeSoFar = 1..0
    BY <2>2, Zenon DEF MadeSoFar
  <2>4. 1..0 = {}
    OBVIOUS
  <2> QED BY <2>2, <2>3, <2>4
<1>2. NoConsent \in Consents /\ KnownChoice(NoConsent)
  BY DEF Consents, KnownChoice
<1>3. ConsentTypeOK
  <2>1. made \in Seq(ChoiceMade) /\ Len(made) <= MaxChoices
    BY <1>1, ConsentAssumption
  <2>2. page \in PageConsent /\ records \in [Persons -> Consents] /\ cookie \in Consents
    BY <1>2 DEF ConsentInit, PageConsent
  <2>3. /\ aged = {} /\ policy \in Policies /\ session = Anonymous /\ posts = {} /\ gets = {}
        /\ disturbed = FALSE
    BY DEF ConsentInit
  <2> QED BY <2>1, <2>2, <2>3 DEF ConsentTypeOK, ChoiceMade, PageConsent
<1> QED BY <1>2, <1>3, ConsentAssumption DEF ConsentInit, ConsentStrong

\* What the invariant says of the values, with the names used here.
LEMMA ConsentTypes ==
    ASSUME ConsentStrong
    PROVE  /\ made \in Seq(ChoiceMade) /\ Len(made) \in Nat /\ Len(made) <= MaxChoices
           /\ aged \subseteq MadeSoFar
           /\ policy \in Policies /\ page \in PageConsent
           /\ cookie \in Consents /\ records \in [Persons -> Consents]
           /\ session \in Persons \cup {Anonymous}
           /\ posts \in SUBSET Post /\ gets \in SUBSET Get /\ disturbed \in BOOLEAN
BY DEF ConsentStrong, ConsentTypeOK, ChoiceMade, Post, Get, PageConsent

LEMMA TypesSuffice ==
    ASSUME made' \in Seq(ChoiceMade), Len(made') <= MaxChoices,
           aged' \subseteq MadeSoFar', policy' \in Policies, page' \in PageConsent,
           cookie' \in Consents, records' \in [Persons -> Consents],
           session' \in Persons \cup {Anonymous}, posts' \in SUBSET Post,
           gets' \in SUBSET Get, disturbed' \in BOOLEAN
    PROVE  ConsentTypeOK'
BY DEF ConsentTypeOK, ChoiceMade, Post, Get, PageConsent

LEMMA MadeIs ==
    ASSUME ConsentStrong, NEW n \in MadeSoFar
    PROVE  n \in Choices /\ n \in Consents /\ made[n] \in ChoiceMade /\ n # NoConsent
BY ConsentTypes, ConsentAssumption DEF MadeSoFar, Choices, Consents, NoConsent

LEMMA ShowBannerIs == ASSUME NEW n, NEW v PROVE ShowBanner(n, v) \in BOOLEAN
BY DEF ShowBanner

\* A choice is appended to those made, which stay.
LEMMA ChoiceKeeps ==
    ASSUME ConsentStrong, NEW by \in Persons \cup {Anonymous}, NEW under \in Policies,
           MakeChoice(by, under)
    PROVE  /\ made' \in Seq(ChoiceMade) /\ Len(made') = New /\ New <= MaxChoices
           /\ MadeSoFar' = MadeSoFar \cup {New} /\ New \notin MadeSoFar
           /\ New \in Choices /\ New \in Consents /\ New # NoConsent
           /\ made'[New] = [by |-> by, under |-> under]
           /\ \A n \in MadeSoFar : made'[n] = made[n]
<1> DEFINE choice == [by |-> by, under |-> under]
<1>1. choice \in ChoiceMade
  BY DEF ChoiceMade
<1>2. made' = Append(made, choice) /\ New <= MaxChoices /\ New = Len(made) + 1
  BY DEF MakeChoice, New
<1>3. made \in Seq(ChoiceMade) /\ Len(made) \in Nat
  BY ConsentTypes
<1> HIDE DEF choice
<1>4. /\ made' \in Seq(ChoiceMade) /\ Len(made') = Len(made) + 1
      /\ made'[Len(made) + 1] = choice
      /\ \A n \in 1..Len(made) : made'[n] = made[n]
  BY <1>1, <1>2, <1>3
<1>5. MadeSoFar' = 1..(Len(made) + 1) /\ MadeSoFar = 1..Len(made)
  BY <1>4 DEF MadeSoFar
<1>6. MadeSoFar' = MadeSoFar \cup {New} /\ New \notin MadeSoFar
  BY <1>2, <1>3, <1>5
<1>7. New \in Choices /\ New # NoConsent
  BY <1>2, <1>3, ConsentAssumption DEF Choices, NoConsent
<1>8. New \in Consents
  BY <1>7 DEF Consents
<1> QED BY <1>2, <1>4, <1>5, <1>6, <1>7, <1>8 DEF choice

\* A step that makes no choice: what is known stays known.
LEMMA LoadKeepsConsent == ASSUME ConsentStrong, Load PROVE ConsentStrong'
<1>1. /\ page' = [consent |-> cookie, banner |-> ShowBanner(cookie, policy), policy |-> policy]
      /\ gets' = IF session \in Persons THEN {Ask(session)} ELSE {}
      /\ disturbed' = (posts # {})
      /\ UNCHANGED <<made, aged, policy, cookie, records, session, posts>>
  BY DEF Load
<1>2. MadeSoFar' = MadeSoFar
  BY <1>1 DEF MadeSoFar
<1>3. page' \in PageConsent
  BY <1>1, ConsentTypes, ShowBannerIs DEF PageConsent
<1>4. session \in Persons => Ask(session) \in Get /\ Ask(session).record = NoConsent
                             /\ ~Ask(session).answered /\ Ask(session).user = session
  BY DEF Ask, Get, Consents
<1>5. ConsentTypeOK'
  <2>1. gets' \in SUBSET Get
    BY <1>1, <1>4
  <2> QED BY <2>1, <1>1, <1>2, <1>3, ConsentTypes, TypesSuffice
<1>6. ~disturbed' /\ session' \in Persons => Fetching'
  BY <1>1, <1>4 DEF Fetching
<1>7. ~page'.banner => page'.consent # NoConsent /\ made'[page'.consent].under = page'.policy
  BY <1>1 DEF ShowBanner
<1>8. \A g \in gets' : KnownChoice(g.record)'
  BY <1>1, <1>4 DEF KnownChoice
<1> QED BY <1>1, <1>2, <1>5, <1>6, <1>7, <1>8 DEF ConsentStrong, KnownChoice

LEMMA SignInKeeps == ASSUME ConsentStrong, NEW u \in Persons, SignIn(u) PROVE ConsentStrong'
<1>1. /\ session = Anonymous /\ session' = u /\ gets' = gets \cup {Ask(u)}
      /\ disturbed' = ~Quiet
      /\ UNCHANGED <<made, aged, policy, page, cookie, records, posts>>
  BY DEF SignIn, Reconciling
<1>2. MadeSoFar' = MadeSoFar
  BY <1>1 DEF MadeSoFar
<1>3. Ask(u) \in Get /\ Ask(u).record = NoConsent /\ Ask(u).answered = FALSE /\ Ask(u).user = u
  BY DEF Ask, Get, Consents
<1>4. ConsentTypeOK'
  <2>1. gets' \in SUBSET Get /\ disturbed' \in BOOLEAN
    BY <1>1, <1>3, ConsentTypes
  <2> QED BY <2>1, <1>1, <1>2, ConsentTypes, TypesSuffice
<1>5. ~disturbed' => Fetching'
  <2>1. ~disturbed' => posts' = {} /\ gets' = {Ask(u)}
    BY <1>1 DEF Quiet
  <2> QED BY <2>1, <1>1, <1>3 DEF Fetching
<1>6. \A g \in gets' : KnownChoice(g.record)'
  BY <1>1, <1>2, <1>3 DEF KnownChoice, ConsentStrong
<1> QED BY <1>1, <1>2, <1>4, <1>5, <1>6 DEF ConsentStrong, KnownChoice

LEMMA SignOutKeeps == ASSUME ConsentStrong, SignOut PROVE ConsentStrong'
<1>1. session' = Anonymous /\ Anonymous \notin Persons
      /\ UNCHANGED <<made, aged, policy, page, cookie, records, posts, gets, disturbed>>
  BY ConsentAssumption DEF SignOut
<1>2. MadeSoFar' = MadeSoFar
  BY <1>1 DEF MadeSoFar
<1>3. ConsentTypeOK'
  BY <1>1, <1>2, ConsentTypes, TypesSuffice
<1> QED BY <1>1, <1>2, <1>3 DEF ConsentStrong, KnownChoice

LEMMA SaveConsentKeeps == ASSUME ConsentStrong, SaveConsent PROVE ConsentStrong'
<1> DEFINE p == [choice |-> New, user |-> session, handled |-> FALSE]
<1>1. /\ MakeChoice(session, page.policy) /\ cookie' = New
      /\ page' = [page EXCEPT !.consent = New, !.banner = FALSE]
      /\ posts' = posts \cup {p}
      /\ disturbed' = (disturbed \/ ~Quiet)
      /\ UNCHANGED <<aged, policy, records, session, gets>>
  BY DEF SaveConsent
<1>2. page.policy \in Policies /\ session \in Persons \cup {Anonymous} /\ page \in PageConsent
  BY ConsentTypes DEF PageConsent
<1>3. /\ made' \in Seq(ChoiceMade) /\ Len(made') = New /\ New <= MaxChoices
      /\ MadeSoFar' = MadeSoFar \cup {New} /\ New \notin MadeSoFar
      /\ New \in Choices /\ New \in Consents /\ New # NoConsent
      /\ made'[New] = [by |-> session, under |-> page.policy]
      /\ \A n \in MadeSoFar : made'[n] = made[n]
  BY <1>1, <1>2, ChoiceKeeps
<1>4. /\ p \in Post /\ p.choice = New /\ p.user = session /\ p.handled = FALSE
  BY <1>2, <1>3 DEF Post
<1>5. /\ page' \in PageConsent /\ page'.consent = New /\ page'.policy = page.policy
  BY <1>1, <1>2, <1>3 DEF PageConsent
<1> HIDE DEF p
<1>6. ConsentTypeOK'
  <2>1. posts' \in SUBSET Post /\ aged' \subseteq MadeSoFar' /\ disturbed' \in BOOLEAN
    BY <1>1, <1>3, <1>4, ConsentTypes
  <2> QED BY <2>1, <1>1, <1>3, <1>5, ConsentTypes, TypesSuffice
<1>7. \A q \in posts' : q.choice \in MadeSoFar' /\ made'[q.choice].by = q.user
  BY <1>1, <1>3, <1>4 DEF ConsentStrong
<1>8. ~disturbed' => Posting'
  <2>1. ~disturbed' => posts' = {p} /\ gets' = {}
    BY <1>1 DEF Quiet
  <2> QED BY <2>1, <1>1, <1>4, <1>5 DEF Posting, AppliedHere
<1>9. \A w \in Persons : KnownChoice(records[w])' /\
        (records'[w] # NoConsent => made'[records'[w]].by = w)
  BY <1>1, <1>3 DEF ConsentStrong, KnownChoice
<1>10. \A g \in gets' : KnownChoice(g.record)'
  BY <1>1, <1>3 DEF ConsentStrong, KnownChoice
<1>11. /\ KnownChoice(page.consent)' /\ KnownChoice(cookie)'
       /\ page'.consent # NoConsent /\ made'[page'.consent].under = page'.policy
  BY <1>1, <1>3, <1>5 DEF KnownChoice
<1> QED BY <1>1, <1>6, <1>7, <1>8, <1>9, <1>10, <1>11 DEF ConsentStrong

LEMMA ReconcileKeeps == ASSUME ConsentStrong, NEW g \in gets, Reconcile(g) PROVE ConsentStrong'
<1>1. /\ g.answered /\ gets' = gets \ {g}
      /\ UNCHANGED <<made, aged, policy, records, session, posts, disturbed>>
  BY DEF Reconcile
<1>2. g \in Get /\ g.record \in Consents /\ KnownChoice(g.record) /\ page \in PageConsent
      /\ page.policy \in Policies
  BY ConsentTypes DEF Get, ConsentStrong, PageConsent
<1>3. MadeSoFar' = MadeSoFar /\ gets' \in SUBSET Get
  BY <1>1, ConsentTypes DEF MadeSoFar
<1>4. CASE g.record = NoConsent
  <2>1. UNCHANGED <<page, cookie>>
    BY <1>4 DEF Reconcile
  <2>2. ConsentTypeOK'
    BY <2>1, <1>1, <1>3, ConsentTypes, TypesSuffice
  <2>3. ~disturbed' /\ session' \in Persons => Settled'
    <3> SUFFICES ASSUME ~disturbed', session' \in Persons PROVE Settled'
      OBVIOUS
    <3>1. Fetching
      BY <1>1 DEF ConsentStrong, Settled, Posting
    <3>2. posts = {} /\ gets = {g} /\ records[session] = NoConsent
      BY <3>1, <1>1, <1>4 DEF Fetching
    <3> QED BY <3>2, <1>1 DEF Settled
  <2> QED BY <2>1, <2>2, <2>3, <1>1, <1>3 DEF ConsentStrong, KnownChoice
<1>5. CASE g.record # NoConsent
  <2> DEFINE b == ShowBanner(g.record, page.policy)
  <2>1. cookie' = g.record /\ page' = [page EXCEPT !.consent = g.record, !.banner = b]
    BY <1>5 DEF Reconcile
  <2>2. b \in BOOLEAN /\ (~b => made[g.record].under = page.policy)
    BY DEF ShowBanner
  <2> HIDE DEF b
  <2>3. /\ page' \in PageConsent /\ page'.consent = g.record /\ page'.banner = b
        /\ page'.policy = page.policy
    BY <2>1, <2>2, <1>2 DEF PageConsent
  <2>4. ConsentTypeOK'
    BY <2>1, <2>3, <1>1, <1>2, <1>3, ConsentTypes, TypesSuffice
  <2>5. ~disturbed' /\ session' \in Persons => Settled'
    <3> SUFFICES ASSUME ~disturbed', session' \in Persons PROVE Settled'
      OBVIOUS
    <3>1. Fetching
      BY <1>1 DEF ConsentStrong, Settled, Posting
    <3>2. posts = {} /\ gets = {g} /\ records[session] = g.record
      BY <3>1, <1>1 DEF Fetching
    <3> QED BY <2>1, <2>3, <3>2, <1>1 DEF Settled, AppliedHere
  <2>6. KnownChoice(page.consent)' /\ KnownChoice(cookie)'
    BY <2>1, <2>3, <1>2, <1>3 DEF KnownChoice
  <2>7. ~page'.banner => page'.consent # NoConsent /\ made'[page'.consent].under = page'.policy
    BY <2>2, <2>3, <1>1, <1>5
  <2> QED BY <2>4, <2>5, <2>6, <2>7, <1>1, <1>3 DEF ConsentStrong, KnownChoice
<1> QED BY <1>4, <1>5

LEMMA HandlePostKeeps == ASSUME ConsentStrong, NEW p \in posts, HandlePost(p) PROVE ConsentStrong'
<1> DEFINE q == [p EXCEPT !.handled = TRUE]
<1>1. /\ ~p.handled /\ posts' = (posts \ {p}) \cup {q}
      /\ records' = IF p.user \in Persons THEN [records EXCEPT ![p.user] = p.choice] ELSE records
      /\ UNCHANGED <<made, aged, policy, page, cookie, session, gets, disturbed>>
  BY DEF HandlePost
<1>2. p \in Post /\ p.choice \in MadeSoFar /\ made[p.choice].by = p.user
  BY ConsentTypes DEF ConsentStrong
<1>3. q \in Post /\ q.choice = p.choice /\ q.user = p.user /\ q.handled = TRUE
  BY <1>2 DEF Post
<1>4. p.choice \in Consents
  BY <1>2, MadeIs
<1> HIDE DEF q
<1>5. MadeSoFar' = MadeSoFar
  BY <1>1 DEF MadeSoFar
<1>6. /\ records' \in [Persons -> Consents]
      /\ \A u \in Persons : records'[u] = IF u = p.user THEN p.choice ELSE records[u]
  BY <1>1, <1>4, ConsentTypes
<1>7. ConsentTypeOK'
  <2>1. posts' \in SUBSET Post
    BY <1>1, <1>3, ConsentTypes
  <2> QED BY <2>1, <1>1, <1>5, <1>6, ConsentTypes, TypesSuffice
<1>8. \A u \in Persons : KnownChoice(records[u])' /\ (records'[u] # NoConsent => made'[records'[u]].by = u)
  BY <1>1, <1>2, <1>5, <1>6 DEF ConsentStrong, KnownChoice
<1>9. \A r \in posts' : r.choice \in MadeSoFar' /\ made'[r.choice].by = r.user
  BY <1>1, <1>2, <1>3, <1>5 DEF ConsentStrong
<1>10. ~disturbed' /\ session' \in Persons => Posting'
  <2> SUFFICES ASSUME ~disturbed', session' \in Persons PROVE Posting'
    OBVIOUS
  <2>1. Posting
    BY <1>1 DEF ConsentStrong, Settled, Fetching
  <2>2. gets = {} /\ posts = {p} /\ p.user = session /\ AppliedHere(p.choice)
    BY <2>1 DEF Posting
  <2>3. gets' = {} /\ posts' = {q} /\ q.user = session' /\ AppliedHere(q.choice)'
    BY <2>2, <1>1, <1>3 DEF AppliedHere
  <2>4. records'[session'] = q.choice
    BY <2>2, <1>1, <1>3, <1>6
  <2> QED BY <2>3, <2>4, <1>3 DEF Posting
<1> QED BY <1>1, <1>5, <1>7, <1>8, <1>9, <1>10 DEF ConsentStrong, KnownChoice

LEMMA PostAnsweredKeeps ==
    ASSUME ConsentStrong, NEW p \in posts, PostAnswered(p) PROVE ConsentStrong'
<1>1. /\ p.handled /\ posts' = posts \ {p} /\ cookie' = p.choice
      /\ UNCHANGED <<made, aged, policy, page, records, session, gets, disturbed>>
  BY DEF PostAnswered
<1>2. p \in Post /\ p.choice \in MadeSoFar /\ p.choice \in Consents
  BY ConsentTypes, MadeIs DEF ConsentStrong
<1>3. MadeSoFar' = MadeSoFar
  BY <1>1 DEF MadeSoFar
<1>4. ConsentTypeOK'
  <2>1. posts' \in SUBSET Post
    BY <1>1, ConsentTypes
  <2> QED BY <2>1, <1>1, <1>2, <1>3, ConsentTypes, TypesSuffice
<1>5. ~disturbed' /\ session' \in Persons => Settled'
  <2> SUFFICES ASSUME ~disturbed', session' \in Persons PROVE Settled'
    OBVIOUS
  <2>1. Posting
    BY <1>1 DEF ConsentStrong, Settled, Fetching
  <2>2. gets = {} /\ posts = {p} /\ AppliedHere(p.choice) /\ records[session] = p.choice
    BY <2>1, <1>1 DEF Posting
  <2> QED BY <2>2, <1>1 DEF Settled, AppliedHere
<1>6. KnownChoice(cookie)'
  BY <1>1, <1>2, <1>3 DEF KnownChoice
<1> QED BY <1>1, <1>3, <1>4, <1>5, <1>6 DEF ConsentStrong, KnownChoice

LEMMA HandleGetKeeps == ASSUME ConsentStrong, NEW g \in gets, HandleGet(g) PROVE ConsentStrong'
<1> DEFINE a == [g EXCEPT !.answered = TRUE, !.record = records[g.user]]
<1>1. /\ ~g.answered /\ gets' = (gets \ {g}) \cup {a}
      /\ UNCHANGED <<made, aged, policy, page, cookie, records, session, posts, disturbed>>
  BY DEF HandleGet
<1>2. g \in Get /\ g.user \in Persons
  BY ConsentTypes DEF Get
<1>3. records[g.user] \in Consents /\ KnownChoice(records[g.user])
  BY <1>2, ConsentTypes DEF ConsentStrong
<1>4. a \in Get /\ a.user = g.user /\ a.record = records[g.user]
  BY <1>2, <1>3 DEF Get
<1> HIDE DEF a
<1>5. MadeSoFar' = MadeSoFar
  BY <1>1 DEF MadeSoFar
<1>6. ConsentTypeOK'
  <2>1. gets' \in SUBSET Get
    BY <1>1, <1>4, ConsentTypes
  <2> QED BY <2>1, <1>1, <1>5, ConsentTypes, TypesSuffice
<1>7. ~disturbed' /\ session' \in Persons => Fetching'
  <2> SUFFICES ASSUME ~disturbed', session' \in Persons PROVE Fetching'
    OBVIOUS
  <2>1. Fetching
    BY <1>1 DEF ConsentStrong, Settled, Posting
  <2>2. posts = {} /\ gets = {g} /\ g.user = session
    BY <2>1 DEF Fetching
  <2>3. gets' = {a}
    BY <2>2, <1>1
  <2> QED BY <2>2, <2>3, <1>1, <1>4 DEF Fetching
<1>8. \A h \in gets' : KnownChoice(h.record)'
  BY <1>1, <1>3, <1>4, <1>5 DEF ConsentStrong, KnownChoice
<1> QED BY <1>1, <1>5, <1>6, <1>7, <1>8 DEF ConsentStrong, KnownChoice

LEMMA RequestLostKeeps == ASSUME ConsentStrong, RequestLost PROVE ConsentStrong'
<1>1. /\ posts' \subseteq posts /\ gets' \subseteq gets /\ disturbed' = TRUE
      /\ UNCHANGED <<made, aged, policy, page, cookie, records, session>>
  BY DEF RequestLost
<1>2. MadeSoFar' = MadeSoFar
  BY <1>1 DEF MadeSoFar
<1>3. ConsentTypeOK'
  <2>1. posts' \in SUBSET Post /\ gets' \in SUBSET Get /\ disturbed' \in BOOLEAN
    BY <1>1, ConsentTypes
  <2> QED BY <2>1, <1>1, <1>2, ConsentTypes, TypesSuffice
<1> QED BY <1>1, <1>2, <1>3 DEF ConsentStrong, KnownChoice

LEMMA OtherDeviceKeeps ==
    ASSUME ConsentStrong, NEW u \in Persons, OtherDevice(u) PROVE ConsentStrong'
<1>1. /\ MakeChoice(u, policy) /\ records' = [records EXCEPT ![u] = New]
      /\ disturbed' = (disturbed \/ u = session)
      /\ UNCHANGED <<aged, policy, page, cookie, session, posts, gets>>
  BY DEF OtherDevice
<1>2. /\ made' \in Seq(ChoiceMade) /\ Len(made') = New /\ New <= MaxChoices
      /\ MadeSoFar' = MadeSoFar \cup {New} /\ New \notin MadeSoFar
      /\ New \in Choices /\ New \in Consents /\ New # NoConsent
      /\ made'[New] = [by |-> u, under |-> policy]
      /\ \A n \in MadeSoFar : made'[n] = made[n]
  BY <1>1, ConsentTypes, ChoiceKeeps
<1>3. /\ records' \in [Persons -> Consents]
      /\ \A w \in Persons : records'[w] = IF w = u THEN New ELSE records[w]
  BY <1>1, <1>2, ConsentTypes
<1>4. ConsentTypeOK'
  <2>1. aged' \subseteq MadeSoFar' /\ disturbed' \in BOOLEAN
    BY <1>1, <1>2, ConsentTypes
  <2> QED BY <2>1, <1>1, <1>2, <1>3, ConsentTypes, TypesSuffice
<1>5. \A w \in Persons : KnownChoice(records[w])' /\ (records'[w] # NoConsent => made'[records'[w]].by = w)
  BY <1>2, <1>3 DEF ConsentStrong, KnownChoice
<1>6. \A p \in posts' : p.choice \in MadeSoFar' /\ made'[p.choice].by = p.user
  BY <1>1, <1>2 DEF ConsentStrong
<1>7. /\ \A g \in gets' : KnownChoice(g.record)'
      /\ KnownChoice(page.consent)' /\ KnownChoice(cookie)'
      /\ ~page'.banner => page'.consent # NoConsent /\ made'[page'.consent].under = page'.policy
  BY <1>1, <1>2 DEF ConsentStrong, KnownChoice
<1>8. ~disturbed' /\ session' \in Persons => Settled' \/ Fetching' \/ Posting'
  <2> SUFFICES ASSUME ~disturbed', session' \in Persons PROVE Settled' \/ Fetching' \/ Posting'
    OBVIOUS
  <2>1. Settled \/ Fetching \/ Posting
    BY <1>1 DEF ConsentStrong
  <2>2. records'[session'] = records[session]
    BY <1>1, <1>3
  <2>3. Settled => Settled'
    BY <2>2, <1>1 DEF Settled, AppliedHere
  <2>4. Fetching => Fetching'
    BY <2>2, <1>1 DEF Fetching
  <2>5. Posting => Posting'
    BY <2>2, <1>1 DEF Posting, AppliedHere
  <2> QED BY <2>1, <2>3, <2>4, <2>5
<1> QED BY <1>1, <1>4, <1>5, <1>6, <1>7, <1>8 DEF ConsentStrong

\* The oldest choices age together, and a cookie goes with them.
LEMMA SixMonthsKeeps == ASSUME ConsentStrong, NEW n \in Choices, SixMonths(n) PROVE ConsentStrong'
<1>1. /\ n \in MadeSoFar \ aged /\ aged' = 1..n
      /\ cookie' = IF cookie \in 1..n THEN NoConsent ELSE cookie
      /\ UNCHANGED <<made, policy, page, records, session, posts, gets, disturbed>>
  BY DEF SixMonths
<1>2. MadeSoFar' = MadeSoFar
  BY <1>1 DEF MadeSoFar
<1>3. Len(made) \in Nat /\ aged \subseteq MadeSoFar /\ n \in 1..Len(made)
  BY <1>1, ConsentTypes DEF MadeSoFar
<1>4. 1..n \subseteq MadeSoFar /\ \A i \in 1..n : 1..i \subseteq 1..n
  BY <1>3 DEF MadeSoFar
<1>5. aged \subseteq 1..n
  <2> SUFFICES ASSUME NEW i \in aged, i \notin 1..n PROVE FALSE
    OBVIOUS
  <2>1. i \in 1..Len(made) /\ 1..i \subseteq aged
    BY <1>3 DEF ConsentStrong, MadeSoFar
  <2>2. n \in 1..i
    BY <2>1, <1>3
  <2> QED BY <2>1, <2>2, <1>1
<1>6. cookie' \in Consents /\ KnownChoice(cookie)'
  BY <1>1, <1>2, ConsentTypes DEF Consents, KnownChoice, ConsentStrong
<1>7. ConsentTypeOK'
  BY <1>1, <1>2, <1>4, <1>6, ConsentTypes, TypesSuffice
<1>8. \A c \in MadeSoFar : AppliedHere(c) => AppliedHere(c)'
  <2> SUFFICES ASSUME NEW c \in MadeSoFar, AppliedHere(c) PROVE AppliedHere(c)'
    OBVIOUS
  <2>1. c \in aged \/ cookie = c
    BY DEF AppliedHere
  <2>2. cookie = c => cookie' = c \/ c \in aged'
    BY <1>1
  <2> QED BY <2>1, <2>2, <1>1, <1>5 DEF AppliedHere
<1>9. ~disturbed' /\ session' \in Persons => Settled' \/ Fetching' \/ Posting'
  <2> SUFFICES ASSUME ~disturbed', session' \in Persons PROVE Settled' \/ Fetching' \/ Posting'
    OBVIOUS
  <2>1. Settled \/ Fetching \/ Posting
    BY <1>1 DEF ConsentStrong
  <2>2. Settled => Settled'
    BY <1>1, <1>8 DEF Settled, ConsentStrong, KnownChoice
  <2>3. Fetching => Fetching'
    BY <1>1 DEF Fetching
  <2>4. Posting => Posting'
    <3> SUFFICES ASSUME Posting PROVE Posting'
      OBVIOUS
    <3>1. PICK p \in Post : posts = {p} /\ p.user = session /\ AppliedHere(p.choice)
                            /\ (p.handled => records[session] = p.choice)
      BY DEF Posting
    <3>2. p.choice \in MadeSoFar
      BY <3>1 DEF ConsentStrong
    <3>3. AppliedHere(p.choice)'
      BY <3>1, <3>2, <1>8
    <3> QED BY <3>1, <3>3, <1>1 DEF Posting
  <2> QED BY <2>1, <2>2, <2>3, <2>4
<1>10. \A i \in aged' : 1..i \subseteq aged'
  BY <1>1, <1>4
<1> QED BY <1>1, <1>2, <1>6, <1>7, <1>9, <1>10 DEF ConsentStrong, KnownChoice

LEMMA DeployKeeps ==
    ASSUME ConsentStrong, NEW v \in Policies, Deploy(v) PROVE ConsentStrong'
<1>1. /\ policy' = v
      /\ UNCHANGED <<made, aged, page, cookie, records, session, posts, gets, disturbed>>
  BY DEF Deploy
<1>2. MadeSoFar' = MadeSoFar
  BY <1>1 DEF MadeSoFar
<1>3. ConsentTypeOK'
  BY <1>1, <1>2, ConsentTypes, TypesSuffice
<1>4. ~disturbed' /\ session' \in Persons => Settled' \/ Fetching' \/ Posting'
  BY <1>1 DEF ConsentStrong, Settled, Fetching, Posting, AppliedHere
<1> QED BY <1>1, <1>2, <1>3, <1>4 DEF ConsentStrong, KnownChoice

LEMMA ConsentStep == ConsentStrong /\ [ConsentNext]_consentVars => ConsentStrong'
<1> SUFFICES ASSUME ConsentStrong, [ConsentNext]_consentVars PROVE ConsentStrong'
  OBVIOUS
<1>1. CASE UNCHANGED consentVars
  <2>1. UNCHANGED <<made, aged, policy, page, cookie, records, session, posts, gets, disturbed>>
    BY <1>1 DEF consentVars
  <2>2. MadeSoFar' = MadeSoFar
    BY <2>1 DEF MadeSoFar
  <2>3. ConsentTypeOK'
    BY <2>1, <2>2, ConsentTypes, TypesSuffice
  <2>4. ~disturbed' /\ session' \in Persons => Settled' \/ Fetching' \/ Posting'
    BY <2>1 DEF ConsentStrong, Settled, Fetching, Posting, AppliedHere
  <2> QED BY <2>1, <2>2, <2>3, <2>4 DEF ConsentStrong, KnownChoice
<1>2. CASE ConsentNext
  BY <1>2, LoadKeepsConsent, SignInKeeps, SignOutKeeps, SaveConsentKeeps, ReconcileKeeps,
     HandlePostKeeps, PostAnsweredKeeps, HandleGetKeeps, RequestLostKeeps, OtherDeviceKeeps,
     SixMonthsKeeps, DeployKeeps DEF ConsentNext
<1> QED BY <1>1, <1>2

(* ------------------------------ ThemeEditor ----------------------------- *)

\* Colours that presets may be marked for: their own, or some picked by hand.
Matching(colors, base, color) == colors = <<base, color>> \/ colors \in Picked

KeptMatches(theme) ==
    /\ theme.kind = "preset" => Matching(theme.config.colors, theme.base, theme.color)
    /\ theme.kind = "seeds" => theme.config.colors \in Picked

\* style is what the editor shows when it is in this state
AppliedFor(style, to) ==
    /\ style.shape = to.config.shape /\ style.shadows = to.config.shadows
    /\ style.by # "seeds" => style.palette = <<to.base, to.color>>
    /\ style.by = "seeds" => style.palette = to.config.colors
                             /\ <<to.base, to.color>> = <<Zinc, NoAccent>>
    /\ style.palette # to.config.colors => to.config.colors \in Picked

EditState == [config : Configs, base : Bases, color : Accents \cup {NoAccent}]

Stored(theme) ==
    /\ theme.kind \in {"none", "preset", "seeds"} /\ theme.config \in Configs
    /\ theme.base \in Bases /\ theme.color \in Accents \cup {NoAccent}
    /\ KeptMatches(theme)

ThemeStrong ==
    /\ tab \in {"elsewhere", "opening", "design"}
    /\ document \in Styles
    /\ Stored(kept) \/ (kept = Corrupt /\ tab # "design")
    /\ edits \in EditState
    /\ Matching(edits.config.colors, edits.base, edits.color)
    /\ strayed \in BOOLEAN
    /\ ReloadKeepsTheme
    /\ MarkedIsApplied

LEMMA DefaultsMatch ==
    /\ ZINC_CONFIG \in Configs /\ ZINC_CONFIG.colors = <<Zinc, NoAccent>>
    /\ ZINC_CONFIG.shape = SystemShape /\ ZINC_CONFIG.shadows = Medium
    /\ Fresh \in EditState /\ Matching(Fresh.config.colors, Fresh.base, Fresh.color)
    /\ NoStyle \in Styles /\ AppliedFor(NoStyle, Fresh)
    /\ Stored(Nothing) /\ Nothing.kind = "none"
    /\ Corrupt.kind = "corrupt" /\ Corrupt.config \in Configs
    /\ Corrupt.base \in Bases /\ Corrupt.color \in Accents \cup {NoAccent}
<1>1. <<Zinc, NoAccent>> \in Palettes
  BY ThemeAssumption DEF Palettes, Composed
<1>2. /\ ZINC_CONFIG \in Configs /\ ZINC_CONFIG.colors = <<Zinc, NoAccent>>
      /\ ZINC_CONFIG.shape = SystemShape /\ ZINC_CONFIG.shadows = Medium
  BY <1>1, ThemeAssumption DEF ZINC_CONFIG, ComposedConfig, Configs
<1>3. /\ Fresh \in EditState /\ Fresh.config = ZINC_CONFIG /\ Fresh.base = Zinc
      /\ Fresh.color = NoAccent
  BY <1>2, ThemeAssumption DEF Fresh, Edited, EditState
<1>4. NoStyle \in Styles /\ AppliedFor(NoStyle, Fresh)
  BY <1>2, <1>3 DEF NoStyle, Styles, AppliedFor
<1>5. Stored(Nothing) /\ Nothing.kind = "none"
  BY <1>2, ThemeAssumption DEF Nothing, Stored, KeptMatches
<1>6. /\ Corrupt.kind = "corrupt" /\ Corrupt.config \in Configs
      /\ Corrupt.base \in Bases /\ Corrupt.color \in Accents \cup {NoAccent}
  BY <1>2, ThemeAssumption DEF Corrupt, Nothing
<1>7. Matching(Fresh.config.colors, Fresh.base, Fresh.color)
  BY <1>2, <1>3 DEF Matching
<1> QED BY <1>2, <1>3, <1>4, <1>5, <1>6, <1>7

LEMMA ThemeBegins == ThemeInit => ThemeStrong
<1> SUFFICES ASSUME ThemeInit PROVE ThemeStrong
  OBVIOUS
<1>1. Stored(kept) \/ kept = Corrupt
  BY DefaultsMatch DEF ThemeInit
<1>2. tab = "elsewhere" /\ document = NoStyle /\ edits = Fresh /\ strayed = FALSE
  BY DEF ThemeInit
<1>3. ReloadKeepsTheme /\ MarkedIsApplied
  BY <1>2 DEF ReloadKeepsTheme, MarkedIsApplied
<1> QED BY <1>1, <1>2, <1>3, DefaultsMatch DEF ThemeStrong

\* What a load of the page makes of a stored theme.
LEMMA RestoredIs ==
    ASSUME NEW style
    PROVE  /\ kept.kind = "preset" =>
                Restored(style) = [style |-> ApplyPreset(kept.base, kept.color, kept.config),
                                   edits |-> Edited(kept.config, kept.base, kept.color)]
           /\ kept.kind = "seeds" =>
                Restored(style) = [style |-> ApplySeeds(kept.config),
                                   edits |-> Edited(kept.config, Zinc, NoAccent)]
           /\ kept.kind \notin {"preset", "seeds"} =>
                Restored(style) = [style |-> style, edits |-> Fresh]
BY DEF Restored

LEMMA PresetApplies ==
    ASSUME NEW base \in Bases, NEW color \in Accents \cup {NoAccent}, NEW config \in Configs,
           Matching(config.colors, base, color)
    PROVE  /\ ApplyPreset(base, color, config) \in Styles
           /\ Edited(config, base, color) \in EditState
           /\ Edited(config, base, color).config = config
           /\ Edited(config, base, color).base = base
           /\ Edited(config, base, color).color = color
           /\ AppliedFor(ApplyPreset(base, color, config), Edited(config, base, color))
           /\ Stored(ByPreset(base, color, config))
<1> DEFINE s == ApplyPreset(base, color, config)
           e == Edited(config, base, color)
<1>1. e \in EditState /\ e.config = config /\ e.base = base /\ e.color = color
  BY DEF Edited, EditState
<1>2. <<base, color>> \in Palettes /\ config.shape \in Shapes
      /\ config.shadows \in Shades \cup {Medium}
  BY DEF Palettes, Composed, Configs
<1>3. /\ s \in Styles /\ s.palette = <<base, color>> /\ s.by = "preset"
      /\ s.shape = config.shape /\ s.shadows = config.shadows
  BY <1>2 DEF ApplyPreset, Derived, Styles
<1>4. Stored(ByPreset(base, color, config))
  BY DEF Stored, ByPreset, KeptMatches
<1>5. AppliedFor(s, e)
  <2> HIDE DEF s, e
  <2> QED BY <1>1, <1>3 DEF AppliedFor, Matching
<1> QED BY <1>1, <1>3, <1>4, <1>5

LEMMA SeedsApply ==
    ASSUME NEW config \in Configs, config.colors \in Picked
    PROVE  /\ ApplySeeds(config) \in Styles
           /\ Edited(config, Zinc, NoAccent) \in EditState
           /\ Edited(config, Zinc, NoAccent).config = config
           /\ AppliedFor(ApplySeeds(config), Edited(config, Zinc, NoAccent))
           /\ Stored(BySeeds(config))
<1> DEFINE s == ApplySeeds(config)
           e == Edited(config, Zinc, NoAccent)
<1>1. e \in EditState /\ e.config = config /\ e.base = Zinc /\ e.color = NoAccent
  BY ThemeAssumption DEF Edited, EditState
<1>2. config.colors \in Palettes /\ config.shape \in Shapes
      /\ config.shadows \in Shades \cup {Medium}
  BY DEF Palettes, Configs
<1>3. /\ s \in Styles /\ s.palette = config.colors /\ s.by = "seeds"
      /\ s.shape = config.shape /\ s.shadows = config.shadows
  BY <1>2 DEF ApplySeeds, Derived, Styles
<1>4. Stored(BySeeds(config))
  BY ThemeAssumption DEF Stored, BySeeds, Nothing, KeptMatches
<1>5. AppliedFor(s, e)
  <2> HIDE DEF s, e
  <2> QED BY <1>1, <1>3 DEF AppliedFor
<1> QED BY <1>1, <1>3, <1>4, <1>5

\* A change of the editor that is shown, applied and stored as the same theme.
LEMMA ChangeKeeps ==
    ASSUME ThemeStrong, NEW to \in EditState, NEW style \in Styles, NEW theme, NEW works \in BOOLEAN,
           Change(to, style, theme, works), Stored(theme),
           Matching(to.config.colors, to.base, to.color), AppliedFor(style, to),
           kept' = theme => Restored(NoStyle)' = [style |-> style, edits |-> to]
    PROVE  ThemeStrong'
<1>1. /\ tab = "design" /\ tab' = tab /\ edits' = to /\ document' = style
      /\ kept' \in {theme, kept} /\ strayed' = (kept' # theme)
  BY DEF Change
<1>2. Stored(kept)
  BY <1>1 DEF ThemeStrong
<1>3. Stored(kept')
  BY <1>1, <1>2
<1>4. ReloadKeepsTheme'
  BY <1>1 DEF ReloadKeepsTheme
<1>5. MarkedIsApplied'
  BY <1>1 DEF MarkedIsApplied, AppliedFor
<1>6. strayed' \in BOOLEAN
  BY <1>1
<1> QED BY <1>1, <1>3, <1>4, <1>5, <1>6 DEF ThemeStrong, Stored, KeptMatches

LEMMA PresetChangeKeeps ==
    ASSUME ThemeStrong, NEW base \in Bases, NEW color \in Accents \cup {NoAccent},
           NEW config \in Configs, NEW works \in BOOLEAN, Matching(config.colors, base, color),
           Change(Edited(config, base, color), ApplyPreset(base, color, config),
                  ByPreset(base, color, config), works)
    PROVE  ThemeStrong'
<1> DEFINE theme == ByPreset(base, color, config)
<1>1. theme.kind = "preset" /\ theme.base = base /\ theme.color = color /\ theme.config = config
  BY DEF ByPreset
<1> HIDE DEF theme
<1>2. kept' = theme => Restored(NoStyle)' = [style |-> ApplyPreset(base, color, config),
                                             edits |-> Edited(config, base, color)]
  BY <1>1 DEF Restored, ApplyPreset, Derived
<1> QED BY <1>2, PresetApplies, ChangeKeeps DEF theme

LEMMA EditorKeeps ==
    ASSUME ThemeStrong, NEW works \in BOOLEAN,
           \/ \E base \in Bases : BaseClick(base, works)
           \/ \E color \in Accents : ColorClick(color, works)
           \/ ResetClick(works)
           \/ \E palette \in Picked : PickColor(palette, works)
           \/ \E shape \in Shapes : ChangeShape([edits.config EXCEPT !.shape = shape], works)
           \/ \E shade \in Shades \cup {Medium} :
                ChangeShape([edits.config EXCEPT !.shadows = shade], works)
    PROVE  ThemeStrong'
<1>1. /\ edits \in EditState /\ edits.config \in Configs /\ edits.base \in Bases
      /\ edits.color \in Accents \cup {NoAccent}
      /\ Matching(edits.config.colors, edits.base, edits.color)
  BY DEF ThemeStrong, EditState
<1>2. ASSUME NEW base \in Bases, NEW color \in Accents \cup {NoAccent},
             ApplyComposed(base, color, works)
      PROVE  ThemeStrong'
  <2> DEFINE config == [edits.config EXCEPT !.colors = <<base, color>>]
  <2>1. <<base, color>> \in Palettes
    BY DEF Palettes, Composed
  <2>2. config \in Configs /\ config.colors = <<base, color>>
    BY <2>1, <1>1 DEF Configs
  <2>3. Change(Edited(config, base, color), ApplyPreset(base, color, config),
               ByPreset(base, color, config), works)
    BY <1>2 DEF ApplyComposed
  <2> HIDE DEF config
  <2>4. Matching(config.colors, base, color)
    BY <2>2 DEF Matching
  <2> QED BY <2>2, <2>3, <2>4, PresetChangeKeeps
<1>3. ASSUME ResetClick(works) PROVE ThemeStrong'
  <2>1. Change(Fresh, NoStyle, Nothing, works)
    BY <1>3 DEF ResetClick
  <2>2. kept' = Nothing => Restored(NoStyle)' = [style |-> NoStyle, edits |-> Fresh]
    BY DefaultsMatch DEF Restored
  <2> QED BY <2>1, <2>2, DefaultsMatch, ChangeKeeps
<1>4. ASSUME NEW palette \in Picked, PickColor(palette, works) PROVE ThemeStrong'
  <2> DEFINE config == [edits.config EXCEPT !.colors = palette]
  <2>1. palette \in Palettes
    BY DEF Palettes
  <2>2. config \in Configs /\ config.colors = palette
    BY <2>1, <1>1 DEF Configs
  <2>3. Change(Edited(config, Zinc, NoAccent), ApplySeeds(config), BySeeds(config), works)
    BY <1>4 DEF PickColor
  <2> HIDE DEF config
  <2>4. BySeeds(config).kind = "seeds" /\ BySeeds(config).config = config
    BY DEF BySeeds, Nothing
  <2>5. kept' = BySeeds(config) =>
          Restored(NoStyle)' = [style |-> ApplySeeds(config), edits |-> Edited(config, Zinc, NoAccent)]
    BY <2>4 DEF Restored, ApplySeeds, Derived
  <2>6. Edited(config, Zinc, NoAccent).config.colors \in Picked
    BY <2>2 DEF Edited
  <2> QED BY <2>2, <2>3, <2>5, <2>6, SeedsApply, ChangeKeeps DEF Matching
<1>5. ASSUME NEW config \in Configs, config.colors = edits.config.colors,
             ChangeShape(config, works)
      PROVE  ThemeStrong'
  <2>1. [edits EXCEPT !.config = config] = Edited(config, edits.base, edits.color)
    BY <1>1 DEF EditState, Edited
  <2>2. Change(Edited(config, edits.base, edits.color), ApplyPreset(edits.base, edits.color, config),
               ByPreset(edits.base, edits.color, config), works)
    BY <2>1, <1>5 DEF ChangeShape
  <2>3. Matching(config.colors, edits.base, edits.color)
    BY <1>1, <1>5
  <2> QED BY <2>2, <2>3, <1>1, PresetChangeKeeps
<1>6. ASSUME NEW base \in Bases, BaseClick(base, works) PROVE ThemeStrong'
  BY <1>6, <1>2, <1>1 DEF BaseClick
<1>7. ASSUME NEW color \in Accents, ColorClick(color, works) PROVE ThemeStrong'
  BY <1>7, <1>2, <1>1 DEF ColorClick
<1>8. ASSUME NEW shape \in Shapes, ChangeShape([edits.config EXCEPT !.shape = shape], works)
      PROVE  ThemeStrong'
  <2>1. /\ [edits.config EXCEPT !.shape = shape] \in Configs
        /\ [edits.config EXCEPT !.shape = shape].colors = edits.config.colors
    BY <1>1 DEF Configs
  <2> QED BY <2>1, <1>8, <1>5
<1>9. ASSUME NEW shade \in Shades \cup {Medium},
             ChangeShape([edits.config EXCEPT !.shadows = shade], works)
      PROVE  ThemeStrong'
  <2>1. /\ [edits.config EXCEPT !.shadows = shade] \in Configs
        /\ [edits.config EXCEPT !.shadows = shade].colors = edits.config.colors
    BY <1>1 DEF Configs
  <2> QED BY <2>1, <1>9, <1>5
<1> QED BY <1>3, <1>4, <1>6, <1>7, <1>8, <1>9

\* Loads and routes: what is restored is shown and applied.
LEMMA RoutesKeep ==
    ASSUME ThemeStrong,
           \/ \E where \in {"elsewhere", "opening"} : LoadPage(where)
           \/ LeavePage
           \/ \E theme \in {Nothing, ByPreset(Zinc, NoAccent, ZINC_CONFIG)} : StoreElsewhere(theme)
    PROVE  ThemeStrong'
<1>1. ASSUME NEW where \in {"elsewhere", "opening"}, LoadPage(where) PROVE ThemeStrong'
  <2>1. /\ tab' = where /\ document' = NoStyle /\ edits' = Fresh
        /\ UNCHANGED <<kept, strayed>>
    BY <1>1 DEF LoadPage
  <2>2. ReloadKeepsTheme' /\ MarkedIsApplied'
    BY <2>1 DEF ReloadKeepsTheme, MarkedIsApplied
  <2> QED BY <2>1, <2>2, DefaultsMatch DEF ThemeStrong, Stored, KeptMatches
<1>2. ASSUME LeavePage PROVE ThemeStrong'
  <2>1. tab' = "elsewhere" /\ edits' = Fresh /\ UNCHANGED <<document, kept, strayed>>
    BY <1>2 DEF LeavePage
  <2>2. ReloadKeepsTheme' /\ MarkedIsApplied'
    BY <2>1 DEF ReloadKeepsTheme, MarkedIsApplied
  <2> QED BY <2>1, <2>2, DefaultsMatch DEF ThemeStrong, Stored, KeptMatches
<1>3. ASSUME NEW theme \in {Nothing, ByPreset(Zinc, NoAccent, ZINC_CONFIG)}, StoreElsewhere(theme)
      PROVE  ThemeStrong'
  <2>1. kept' = theme /\ strayed' = TRUE /\ UNCHANGED <<tab, document, edits>>
    BY <1>3 DEF StoreElsewhere
  <2>2. Stored(theme)
    <3>1. Matching(ZINC_CONFIG.colors, Zinc, NoAccent)
      BY DefaultsMatch DEF Matching
    <3> QED BY <3>1, DefaultsMatch, PresetApplies, ThemeAssumption
  <2>3. ReloadKeepsTheme' /\ MarkedIsApplied'
    BY <2>1 DEF ReloadKeepsTheme, MarkedIsApplied
  <2>4. Stored(kept')
    BY <2>1, <2>2
  <2> QED BY <2>1, <2>3, <2>4 DEF ThemeStrong, Stored, KeptMatches
<1> QED BY <1>1, <1>2, <1>3

LEMMA MountKeeps == ASSUME ThemeStrong, Mount PROVE ThemeStrong'
<1>1. /\ tab' = "design" /\ document' = Restored(document).style /\ edits' = Restored(document).edits
      /\ kept' = IF kept.kind = "corrupt" THEN Nothing ELSE kept
      /\ strayed' = (kept'.kind = "none" /\ document # NoStyle)
  BY DEF Mount
<1>2. Stored(kept')
  BY <1>1, DefaultsMatch DEF ThemeStrong, Stored, KeptMatches
<1>3. /\ document' \in Styles /\ edits' \in EditState
      /\ Matching(edits'.config.colors, edits'.base, edits'.color)
      /\ ~strayed' => AppliedFor(document', edits')
                      /\ Restored(NoStyle)' = [style |-> document', edits |-> edits']
  <2>1. CASE kept.kind = "preset"
    <3>1. /\ kept' = kept /\ kept.base \in Bases /\ kept.color \in Accents \cup {NoAccent}
          /\ kept.config \in Configs /\ Matching(kept.config.colors, kept.base, kept.color)
      BY <2>1, <1>1, <1>2 DEF Stored, KeptMatches
    <3>2. /\ document' = ApplyPreset(kept.base, kept.color, kept.config)
          /\ edits' = Edited(kept.config, kept.base, kept.color)
      BY <2>1, <1>1, RestoredIs
    <3>3. Restored(NoStyle)' = [style |-> ApplyPreset(kept.base, kept.color, kept.config),
                                edits |-> Edited(kept.config, kept.base, kept.color)]
      BY <3>1, <2>1 DEF Restored, ApplyPreset, Derived
    <3> QED BY <3>1, <3>2, <3>3, PresetApplies
  <2>2. CASE kept.kind = "seeds"
    <3>1. kept' = kept /\ kept.config \in Configs /\ kept.config.colors \in Picked
      BY <2>2, <1>1, <1>2 DEF Stored, KeptMatches
    <3>2. /\ document' = ApplySeeds(kept.config) /\ edits' = Edited(kept.config, Zinc, NoAccent)
      BY <2>2, <1>1, RestoredIs
    <3>3. Restored(NoStyle)' = [style |-> ApplySeeds(kept.config),
                                edits |-> Edited(kept.config, Zinc, NoAccent)]
      BY <3>1, <2>2 DEF Restored, ApplySeeds, Derived
    <3>4. Matching(edits'.config.colors, edits'.base, edits'.color)
      BY <3>1, <3>2, SeedsApply DEF Matching
    <3> QED BY <3>1, <3>2, <3>3, <3>4, SeedsApply
  <2>3. CASE kept.kind \notin {"preset", "seeds"}
    <3>1. document' = document /\ edits' = Fresh
      BY <2>3, <1>1, RestoredIs
    <3>2. kept'.kind = "none"
      BY <2>3, <1>1, <1>2, DefaultsMatch DEF Stored
    <3>3. Restored(NoStyle)' = [style |-> NoStyle, edits |-> Fresh]
      BY <3>2 DEF Restored
    <3>4. ~strayed' => document' = NoStyle
      BY <3>1, <3>2, <1>1
    <3> QED BY <3>1, <3>3, <3>4, DefaultsMatch DEF ThemeStrong
  <2> QED BY <2>1, <2>2, <2>3
<1>4. ReloadKeepsTheme' /\ MarkedIsApplied'
  BY <1>1, <1>3 DEF ReloadKeepsTheme, MarkedIsApplied, AppliedFor
<1> QED BY <1>1, <1>2, <1>3, <1>4 DEF ThemeStrong, Stored, KeptMatches

LEMMA ThemeStep == ThemeStrong /\ [ThemeNext]_themeVars => ThemeStrong'
<1> SUFFICES ASSUME ThemeStrong, [ThemeNext]_themeVars PROVE ThemeStrong'
  OBVIOUS
<1>1. CASE UNCHANGED themeVars
  <2>1. UNCHANGED <<tab, document, kept, edits, strayed>>
    BY <1>1 DEF themeVars
  <2>2. ReloadKeepsTheme' /\ MarkedIsApplied'
    BY <2>1 DEF ThemeStrong, ReloadKeepsTheme, MarkedIsApplied, Restored, ApplyPreset,
                ApplySeeds, Derived
  <2> QED BY <2>1, <2>2 DEF ThemeStrong, Stored, KeptMatches
<1>2. CASE ThemeNext
  BY <1>2, EditorKeeps, RoutesKeep, MountKeeps DEF ThemeNext
<1> QED BY <1>1, <1>2

Thousandths == 0..1000

\* The lightness of text and of mirrored colours, for every seed.
LEMMA ForegroundContrasts ==
    \A l \in Thousandths : Distance(DeriveForeground(l), l) >= 350
BY DEF Thousandths, Distance, DeriveForeground, Clamp

LEMMA MirrorInRange == \A l \in Thousandths : MirrorForDark(l) \in Thousandths
BY DEF Thousandths, MirrorForDark, Clamp

LEMMA SidebarsSound ==
    \A l \in Thousandths : SidebarLight(l) <= l /\ SidebarDark(MirrorForDark(l)) <= 980
BY DEF Thousandths, MirrorForDark, SidebarLight, SidebarDark, Clamp

LEMMA AroundOnce ==
    ASSUME NEW x \in 0..719
    PROVE  x % 360 \in 0..359 /\ x % 360 \in {x, x - 360}
OBVIOUS

\* Turning a hue by n sixths of the circle.
LEMMA TurnedIs ==
    ASSUME NEW h \in 0..359, NEW n \in 0..4
    PROVE  /\ (h + n * 60) % 360 \in 0..359
           /\ (h + n * 60) % 360 \in {h + n * 60, h + n * 60 - 360}
<1> DEFINE x == h + n * 60
<1>1. x \in 0..719
  <2>1. n \in {0, 1, 2, 3, 4}
    OBVIOUS
  <2> QED BY <2>1
<1> HIDE DEF x
<1>2. x % 360 \in 0..359 /\ x % 360 \in {x, x - 360}
  BY <1>1, AroundOnce
<1> QED BY <1>2 DEF x

LEMMA ShiftedIs ==
    ASSUME NEW t \in 0..359
    PROVE  (t + 30) % 360 \in 0..359 /\ (t + 30) % 360 \in {t + 30, t - 330}
OBVIOUS

\* c is the hue h turned by n sixths, and perhaps shifted.
IsChartHue(c, h, n) ==
    /\ c \in 0..359
    /\ \E turns \in {0, 1}, shift \in {0, 30} : c = h + n * 60 + shift - turns * 360

LEMMA ChartHueIs ==
    ASSUME NEW h \in 0..359, NEW n \in 0..4, NEW seeds
    PROVE  IsChartHue(ChartHue(h, n, seeds), h, n)
<1> DEFINE turned == (h + n * 60) % 360
<1>1. turned \in 0..359 /\ turned \in {h + n * 60, h + n * 60 - 360}
  BY TurnedIs
<1>2. ChartHue(h, n, seeds) \in {turned, (turned + 30) % 360}
  BY DEF ChartHue
<1>3. n * 60 \in Int /\ h \in Int
  OBVIOUS
<1> HIDE DEF turned
<1>4. (turned + 30) % 360 \in 0..359 /\ (turned + 30) % 360 \in {turned + 30, turned - 330}
  BY <1>1, ShiftedIs
<1>5. turned - 330 >= 0 => turned = h + n * 60 \/ turned = h + n * 60 - 360
  BY <1>1
<1>6. h + n * 60 <= 599
  OBVIOUS
<1>7. turned = h + n * 60 - 360 => turned <= 239
  BY <1>6, <1>3
<1>8. PICK c \in {turned, turned + 30, turned - 330} :
        ChartHue(h, n, seeds) = c /\ c \in 0..359
  BY <1>1, <1>2, <1>4
<1>9. \E turns \in {0, 1}, shift \in {0, 30} : c = h + n * 60 + shift - turns * 360
  <2>1. CASE turned = h + n * 60
    <3>1. c = h + n * 60 + 0 - 0 * 360 \/ c = h + n * 60 + 30 - 0 * 360
            \/ c = h + n * 60 + 30 - 1 * 360
      BY <2>1, <1>3, <1>8
    <3> QED BY <3>1
  <2>2. CASE turned = h + n * 60 - 360
    <3>1. c # turned - 330
      BY <2>2, <1>1, <1>7, <1>8, <1>3
    <3>2. c = h + n * 60 + 0 - 1 * 360 \/ c = h + n * 60 + 30 - 1 * 360
      BY <2>2, <3>1, <1>3, <1>8
    <3> QED BY <3>2
  <2> QED BY <2>1, <2>2, <1>1
<1> QED BY <1>8, <1>9 DEF IsChartHue

LEMMA ChartsApart ==
    ASSUME NEW h \in 0..359, NEW n \in 0..4, NEW m \in 0..4 \ {n}, NEW seeds
    PROVE  LET apart == Distance(ChartHue(h, n, seeds), ChartHue(h, m, seeds))
           IN  apart >= 30 /\ apart <= 330
<1> DEFINE a == ChartHue(h, n, seeds)
           b == ChartHue(h, m, seeds)
<1>0. m \in 0..4
  OBVIOUS
<1> HIDE DEF a, b
<1>a. IsChartHue(a, h, n) /\ IsChartHue(b, h, m)
  BY <1>0, ChartHueIs DEF a, b
<1>1. PICK ta \in {0, 1}, sa \in {0, 30} : a = h + n * 60 + sa - ta * 360
  BY <1>a DEF IsChartHue
<1>2. PICK tb \in {0, 1}, sb \in {0, 30} : b = h + m * 60 + sb - tb * 360
  BY <1>a DEF IsChartHue
<1>3. a \in 0..359 /\ b \in 0..359
  BY <1>a DEF IsChartHue
<1>4. n \in {0, 1, 2, 3, 4} /\ m \in {0, 1, 2, 3, 4} /\ n # m
  OBVIOUS
<1>5. a - b = 60 * (n - m) + (sa - sb) - 360 * (ta - tb)
  BY <1>1, <1>2
<1>6. n - m \in {-4, -3, -2, -1, 1, 2, 3, 4} /\ sa - sb \in {-30, 0, 30} /\ ta - tb \in {-1, 0, 1}
  BY <1>4
<1>7. /\ a - b >= 30 \/ b - a >= 30
      /\ a - b <= 330 /\ b - a <= 330
  BY <1>3, <1>5, <1>6
<1>8. Distance(a, b) >= 30 /\ Distance(a, b) <= 330
  BY <1>3, <1>7 DEF Distance
<1> QED BY <1>8 DEF a, b

LEMMA AllDerivationsSound == DerivationSound
<1>1. \A l \in Lightnesses : l \in Thousandths
  BY ThemeAssumption DEF Thousandths
<1>2. ASSUME NEW l \in Lightnesses
      PROVE  /\ Distance(DeriveForeground(l), l) >= 350
             /\ Distance(DeriveForeground(MirrorForDark(l)), MirrorForDark(l)) >= 350
             /\ SidebarLight(l) <= l /\ SidebarDark(MirrorForDark(l)) <= 980
             /\ \A k \in Lightnesses : k <= l => MirrorForDark(k) >= MirrorForDark(l)
  <2>1. l \in Thousandths
    BY <1>1
  <2>2. MirrorForDark(l) \in Thousandths
    BY <2>1, MirrorInRange
  <2>3. /\ Distance(DeriveForeground(l), l) >= 350
        /\ Distance(DeriveForeground(MirrorForDark(l)), MirrorForDark(l)) >= 350
    BY <2>1, <2>2, ForegroundContrasts
  <2>4. SidebarLight(l) <= l /\ SidebarDark(MirrorForDark(l)) <= 980
    BY <2>1, SidebarsSound
  <2>5. \A k \in Lightnesses : k <= l => MirrorForDark(k) >= MirrorForDark(l)
    <3> SUFFICES ASSUME NEW k \in Lightnesses, k <= l
                 PROVE  MirrorForDark(k) >= MirrorForDark(l)
      OBVIOUS
    <3>1. k \in Thousandths
      BY <1>1
    <3> QED BY <3>1, <2>1 DEF MirrorForDark, Clamp, Thousandths
  <2> QED BY <2>3, <2>4, <2>5
<1>3. ASSUME NEW h \in Hues, NEW seeds \in {{h, s} : s \in Hues}, NEW n \in 0..4
      PROVE  /\ \A m \in 0..4 \ {n} :
                  LET apart == Distance(ChartHue(h, n, seeds), ChartHue(h, m, seeds))
                  IN  apart >= 30 /\ apart <= 330
             /\ \A s \in seeds : HuesCollide(ChartHue(h, n, seeds), s) =>
                  ChartHue(h, n, seeds) # (h + n * 60) % 360
  <2>1. h \in 0..359
    BY ThemeAssumption
  <2>2. \A m \in 0..4 \ {n} :
          LET apart == Distance(ChartHue(h, n, seeds), ChartHue(h, m, seeds))
          IN  apart >= 30 /\ apart <= 330
    BY <2>1, ChartsApart
  <2>3. ASSUME NEW s \in seeds, HuesCollide(ChartHue(h, n, seeds), s),
               ChartHue(h, n, seeds) = (h + n * 60) % 360
        PROVE  FALSE
    <3> DEFINE turned == (h + n * 60) % 360
    <3>1. ChartHue(h, n, seeds) = (turned + 30) % 360
      BY <2>3 DEF ChartHue
    <3>2. turned \in 0..359
      BY <2>1, TurnedIs
    <3>3. (turned + 30) % 360 # turned
      <4> HIDE DEF turned
      <4> QED BY <3>2, ShiftedIs
    <3> QED BY <3>1, <3>3, <2>3
  <2> QED BY <2>2, <2>3
<1> QED BY <1>2, <1>3 DEF DerivationSound

LEMMA ThemeStrongSuffices == ThemeStrong => ThemeInv
<1> SUFFICES ASSUME ThemeStrong PROVE ThemeTypeOK
  BY AllDerivationsSound DEF ThemeStrong, ThemeInv
<1> QED BY DefaultsMatch DEF ThemeStrong, ThemeTypeOK, Stored, EditState

(* ------------------------------- DbBranch ------------------------------- *)

Command ==
    [name : {"none", "create", "drop"}, issue : Issues \cup {NoIssue},
     at : Stages, outcome : Outcomes, lost : SUBSET {"policies", "stamped"},
     touched : BOOLEAN, agreed : BOOLEAN]

\* What a command did to its database before it got to the stage.
DoneBefore(stage) ==
    CASE stage = "push" -> {"created"}
      [] stage = "policies" -> {"created", "pushed"}
      [] stage = "stamp" -> {"created", "pushed", "policies"}
      [] stage = "seed" -> {"created", "pushed", "policies", "stamped"}
      [] stage = "env" -> Done
      [] OTHER -> {}

\* What a command nobody else crossed says of the content of its database, and
\* of the issue that .env names.
CommandKept(c, content, named1) ==
    /\ c.at # "idle" \/ c.outcome # "none" => c.issue \in Issues
    /\ c.outcome # "none" => c.at = "idle"
    /\ c.name = "create" /\ c.at = "drop" => c.agreed
    /\ ~c.touched =>
         /\ DoneBefore(c.at) \ c.lost \subseteq content
         /\ c.outcome = "ready" => named1 = c.issue /\ Done \ c.lost \subseteq content
         /\ c.outcome \in {"cleaned", "dropped"} => content = Absent
         /\ c.outcome = "skipped" => content # Absent /\ ~c.agreed

\* The content of the database of an issue.
Content(db, i) == IF i \in Issues THEN db[i] ELSE Absent

BranchStrong ==
    /\ database \in [Issues -> SUBSET Done]
    /\ env \in [Worktrees -> Issues \cup {NoIssue}]
    /\ command \in [Worktrees -> Command]
    /\ \A w \in Worktrees : CommandKept(command[w], Content(database, command[w].issue), env[w])

LEMMA BranchStrongSuffices == BranchStrong => BranchInv
<1> SUFFICES ASSUME BranchStrong PROVE BranchInv
  OBVIOUS
<1>1. BranchTypeOK
  BY DEF BranchStrong, BranchTypeOK, Command
<1>2. ASSUME NEW w \in Worktrees, ~command[w].touched
      PROVE  CASE command[w].outcome = "ready" ->
                    env[w] = The(w) /\ Done \ command[w].lost \subseteq database[The(w)]
               [] command[w].outcome \in {"cleaned", "dropped"} -> ~Exists(w)
               [] command[w].outcome = "skipped" -> Exists(w) /\ ~command[w].agreed
               [] OTHER -> TRUE
  BY <1>2 DEF BranchStrong, CommandKept, Content, The, Exists
<1>3. \A w \in Worktrees : command[w].name = "create" /\ Reached(w, "drop") => command[w].agreed
  BY DEF BranchStrong, CommandKept, Reached
<1> QED BY <1>1, <1>2, <1>3 DEF BranchInv

LEMMA NoCommandKept ==
    /\ NoCommand \in Command /\ NoCommand.issue = NoIssue
    /\ \A content, named1 : CommandKept(NoCommand, content, named1)
BY DEF NoCommand, Command, Stages, Outcomes, CommandKept, DoneBefore

LEMMA BranchBegins == BranchInit => BranchStrong
<1> SUFFICES ASSUME BranchInit PROVE BranchStrong
  OBVIOUS
<1>1. Absent \in SUBSET Done /\ Done \in SUBSET Done
  BY DEF Absent, Done
<1> QED BY <1>1, NoCommandKept DEF BranchInit, BranchStrong

LEMMA CommandFields ==
    ASSUME BranchStrong, NEW w \in Worktrees
    PROVE  /\ command[w] \in Command
           /\ CommandKept(command[w], Content(database, command[w].issue), env[w])
           /\ command[w].at # "idle" => command[w].issue \in Issues
                                        /\ database[command[w].issue] \in SUBSET Done
BY DEF BranchStrong, CommandKept, Content

\* A step that writes no database.
LEMMA CommandTurns ==
    ASSUME BranchStrong, NEW w \in Worktrees, NEW c \in Command,
           command' = [command EXCEPT ![w] = c], database' = database,
           env' \in [Worktrees -> Issues \cup {NoIssue}],
           \A v \in Worktrees \ {w} : env'[v] = env[v],
           CommandKept(c, Content(database, c.issue), env'[w])
    PROVE  BranchStrong'
<1>1. /\ command' \in [Worktrees -> Command]
      /\ \A v \in Worktrees : command'[v] = IF v = w THEN c ELSE command[v]
  BY DEF BranchStrong
<1>2. ASSUME NEW v \in Worktrees
      PROVE  CommandKept(command'[v], Content(database', command'[v].issue), env'[v])
  <2>1. CASE v = w
    BY <2>1, <1>1
  <2>2. CASE v # w
    BY <2>2, <1>1, CommandFields
  <2> QED BY <2>1, <2>2
<1> QED BY <1>1, <1>2 DEF BranchStrong

\* A command writes its database: the others of that issue learn nothing, and
\* those of other issues have their databases still.
LEMMA DbWritten ==
    ASSUME BranchStrong, NEW w \in Worktrees, NEW c \in Command, NEW content \in SUBSET Done,
           command[w].issue \in Issues, c.issue = command[w].issue,
           WriteDb(w, content, c), env' = env, CommandKept(c, content, env[w])
    PROVE  BranchStrong'
<1> DEFINE i == command[w].issue
<1>1. /\ database' \in [Issues -> SUBSET Done] /\ database'[i] = content
      /\ \A j \in Issues \ {i} : database'[j] = database[j]
  BY DEF WriteDb, The, BranchStrong
<1>2. ASSUME NEW v \in Worktrees
      PROVE  /\ command'[v] \in Command
             /\ CommandKept(command'[v], Content(database', command'[v].issue), env'[v])
  <2>1. command[v] \in Command /\ CommandKept(command[v], Content(database, command[v].issue), env[v])
    BY CommandFields
  <2>2. CASE v = w
    <3>1. command'[v] = c
      BY <2>2 DEF WriteDb
    <3>2. Content(database', c.issue) = content
      BY <1>1 DEF Content
    <3> QED BY <3>1, <3>2, <2>2
  <2>3. CASE v # w /\ command[v].issue # i
    <3>1. command'[v] = command[v]
      BY <2>3 DEF WriteDb, The
    <3>2. Content(database', command[v].issue) = Content(database, command[v].issue)
      BY <2>3, <1>1 DEF Content
    <3> QED BY <3>1, <3>2, <2>1
  <2>4. CASE v # w /\ command[v].issue = i /\ command[v].at = "idle"
    <3>1. command'[v] = NoCommand
      BY <2>4 DEF WriteDb, The, Reached
    <3> QED BY <3>1, NoCommandKept
  <2>5. CASE v # w /\ command[v].issue = i /\ command[v].at # "idle"
    <3>1. command'[v] = [command[v] EXCEPT !.touched = TRUE]
      BY <2>5 DEF WriteDb, The, Reached
    <3> DEFINE d == command[v]
    <3>2. CommandKept(d, Content(database, d.issue), env[v]) /\ d \in Command
      BY <2>1
    <3> HIDE DEF d
    <3>3. [d EXCEPT !.touched = TRUE] \in Command
      BY <3>2 DEF Command
    <3>4. \A any : CommandKept([d EXCEPT !.touched = TRUE], any, env[v])
      BY <3>2 DEF CommandKept, Command
    <3> QED BY <3>1, <3>3, <3>4 DEF d
  <2> QED BY <2>2, <2>3, <2>4, <2>5
<1>3. command' \in [Worktrees -> Command]
  BY <1>2 DEF WriteDb
<1> QED BY <1>1, <1>2, <1>3 DEF BranchStrong

\* A step of a command that has a database to write: what is true of it then.
LEMMA CommandAtWork ==
    ASSUME BranchStrong, NEW w \in Worktrees, command[w].at # "idle"
    PROVE  /\ command[w].issue \in Issues /\ The(w) = command[w].issue
           /\ Content(database, command[w].issue) = database[The(w)]
           /\ database[The(w)] \in SUBSET Done
           /\ command[w].outcome = "none"
BY CommandFields DEF CommandKept, Content, The, BranchStrong

LEMMA CommandLooks ==
    ASSUME BranchStrong, NEW w \in Worktrees, NEW c \in Command,
           command' = [command EXCEPT ![w] = c], UNCHANGED <<database, env>>,
           CommandKept(c, Content(database, c.issue), env[w])
    PROVE  BranchStrong'
<1>1. env' \in [Worktrees -> Issues \cup {NoIssue}]
  BY DEF BranchStrong
<1> QED BY <1>1, CommandTurns

LEMMA StartKeeps ==
    ASSUME BranchStrong, NEW w \in Worktrees, NEW name \in {"create", "drop"},
           NEW i \in Issues, NEW force \in BOOLEAN, StartCommand(w, name, i, force)
    PROVE  BranchStrong'
<1> DEFINE stage == IF name = "drop" THEN "drop" ELSE "look"
           c == [NoCommand EXCEPT !.name = name, !.issue = i, !.agreed = force, !.at = stage]
<1>1. stage \in {"drop", "look"} /\ (stage = "drop" <=> name = "drop")
  OBVIOUS
<1>2. command' = [command EXCEPT ![w] = c] /\ UNCHANGED <<database, env>>
  BY DEF StartCommand
<1> HIDE DEF stage
<1>3. NoCommand \in Command /\ NoCommand.outcome = "none"
  BY NoCommandKept DEF NoCommand
<1>4. /\ c \in Command /\ c.at = stage /\ c.name = name /\ c.issue = i
      /\ c.outcome = "none"
  BY <1>1, <1>3 DEF Command, Stages
<1> HIDE DEF c
<1>5. \A content : CommandKept(c, content, env[w])
  BY <1>1, <1>4 DEF CommandKept, DoneBefore
<1> QED BY <1>2, <1>4, <1>5, CommandLooks

LEMMA GivesUpKeeps ==
    ASSUME BranchStrong, NEW w \in Worktrees, GiveUp(w), UNCHANGED <<database, env>>
    PROVE  BranchStrong'
BY NoCommandKept, CommandLooks DEF GiveUp

\* A command goes on to a stage before which nothing was done to the database,
\* or ends without a claim about it.
LEMMA StageKeeps ==
    ASSUME BranchStrong, NEW w \in Worktrees, command[w].at # "idle",
           NEW stage \in {"createdb", "cleanup"}, NextStage(w, stage),
           UNCHANGED <<database, env>>
    PROVE  BranchStrong'
<1> DEFINE c == [command[w] EXCEPT !.at = stage]
<1>1. /\ c \in Command /\ c.at = stage /\ c.issue = command[w].issue
      /\ c.outcome = "none"
  BY CommandFields, CommandAtWork DEF Command, Stages
<1>2. command' = [command EXCEPT ![w] = c]
  BY DEF NextStage
<1> HIDE DEF c
<1>3. CommandKept(c, Content(database, c.issue), env[w])
  BY <1>1, CommandAtWork DEF CommandKept, DoneBefore
<1> QED BY <1>1, <1>2, <1>3, CommandLooks

LEMMA LookExistsKeeps ==
    ASSUME BranchStrong, NEW w \in Worktrees, LookExists(w)
    PROVE  BranchStrong'
<1> DEFINE k == command[w]
<1>1. /\ k \in Command /\ k.at = "look" /\ k.issue \in Issues /\ k.outcome = "none"
      /\ Content(database, k.issue) # Absent
  BY CommandFields, CommandAtWork DEF LookExists, Reached, Exists
<1>2. UNCHANGED <<database, env>>
  BY DEF LookExists
<1>3. CASE k.agreed /\ NextStage(w, "drop")
  <2> DEFINE c == [k EXCEPT !.at = "drop"]
  <2>1. c \in Command /\ CommandKept(c, Content(database, c.issue), env[w])
    BY <1>1, <1>3 DEF Command, Stages, CommandKept, DoneBefore
  <2>2. command' = [command EXCEPT ![w] = c]
    BY <1>3 DEF NextStage
  <2> HIDE DEF c
  <2> QED BY <2>1, <2>2, <1>2, CommandLooks
<1>4. CASE command' = [command EXCEPT ![w] = [@ EXCEPT !.at = "drop", !.agreed = TRUE]]
  <2> DEFINE c == [k EXCEPT !.at = "drop", !.agreed = TRUE]
  <2>1. c \in Command /\ CommandKept(c, Content(database, c.issue), env[w])
    BY <1>1 DEF Command, Stages, CommandKept, DoneBefore
  <2>2. command' = [command EXCEPT ![w] = c]
    BY <1>4
  <2> HIDE DEF c
  <2> QED BY <2>1, <2>2, <1>2, CommandLooks
<1>5. CASE ~k.agreed /\ EndCommand(w, "skipped")
  <2> DEFINE c == [k EXCEPT !.at = "idle", !.outcome = "skipped"]
  <2>1. c \in Command /\ CommandKept(c, Content(database, c.issue), env[w])
    BY <1>1, <1>5 DEF Command, Stages, Outcomes, CommandKept, DoneBefore
  <2>2. command' = [command EXCEPT ![w] = c]
    BY <1>5 DEF EndCommand
  <2> HIDE DEF c
  <2> QED BY <2>1, <2>2, <1>2, CommandLooks
<1>6. CASE GiveUp(w)
  BY <1>6, <1>2, GivesUpKeeps
<1> QED BY <1>3, <1>4, <1>5, <1>6 DEF LookExists

LEMMA DropKeeps ==
    ASSUME BranchStrong, NEW w \in Worktrees, DropDatabase(w)
    PROVE  BranchStrong'
<1> DEFINE c == IF command[w].name = "drop" THEN Ended(w, "dropped")
                ELSE AtStage(w, "createdb")
<1>1. /\ command[w] \in Command /\ command[w].issue \in Issues
      /\ command[w].at = "drop" /\ command[w].outcome = "none"
  BY CommandFields, CommandAtWork DEF DropDatabase, Reached
<1>2. c \in Command /\ c.issue = command[w].issue
  BY <1>1 DEF Command, Stages, Outcomes, Ended, AtStage
<1>3. CommandKept(c, Absent, env[w])
  BY <1>1 DEF Command, CommandKept, DoneBefore, Ended, AtStage, Absent
<1>4. Absent \in SUBSET Done /\ WriteDb(w, Absent, c) /\ env' = env
  BY DEF DropDatabase, Absent
<1> HIDE DEF c
<1> QED BY <1>1, <1>2, <1>3, <1>4, DbWritten

LEMMA CleanupKeeps ==
    ASSUME BranchStrong, NEW w \in Worktrees, Cleanup(w)
    PROVE  BranchStrong'
<1> DEFINE c == Ended(w, "cleaned")
<1>1. /\ command[w] \in Command /\ command[w].issue \in Issues
      /\ command[w].at = "cleanup" /\ command[w].outcome = "none"
  BY CommandFields, CommandAtWork DEF Cleanup, Reached
<1>2. c \in Command /\ c.issue = command[w].issue
  BY <1>1 DEF Command, Stages, Outcomes, Ended
<1>3. CommandKept(c, Absent, env[w])
  BY <1>1 DEF Command, CommandKept, DoneBefore, Ended, Absent
<1>4. Absent \in SUBSET Done /\ WriteDb(w, Absent, c) /\ env' = env
  BY DEF Cleanup, Absent
<1> HIDE DEF c
<1> QED BY <1>1, <1>2, <1>3, <1>4, DbWritten

\* A step of the set-up: what was done before it stays done, and it adds its own
\* or notes that it failed.
LEMMA SetUpKeeps ==
    ASSUME BranchStrong, NEW w \in Worktrees, NEW content \in SUBSET Done, NEW c \in Command,
           command[w].at # "idle", c.issue = command[w].issue, c.outcome = "none",
           c.at \in {"push", "policies", "stamp", "seed", "env"},
           ~c.touched => DoneBefore(c.at) \ c.lost \subseteq content,
           WriteDb(w, content, c), env' = env
    PROVE  BranchStrong'
<1>1. command[w].issue \in Issues
  BY CommandFields
<1>2. CommandKept(c, content, env[w])
  BY <1>1 DEF CommandKept
<1> QED BY <1>1, <1>2, DbWritten

LEMMA SetUpSoFar ==
    ASSUME BranchStrong, NEW w \in Worktrees, command[w].at # "idle"
    PROVE  /\ command[w] \in Command /\ command[w].outcome = "none"
           /\ command[w].lost \in SUBSET {"policies", "stamped"}
           /\ database[The(w)] \in SUBSET Done
           /\ ~command[w].touched =>
                DoneBefore(command[w].at) \ command[w].lost \subseteq database[The(w)]
<1>1. /\ command[w] \in Command /\ command[w].outcome = "none"
      /\ command[w].lost \in SUBSET {"policies", "stamped"}
  BY CommandFields, CommandAtWork DEF Command
<1>2. ~command[w].touched =>
        DoneBefore(command[w].at) \ command[w].lost \subseteq database[The(w)]
  BY CommandFields, CommandAtWork DEF CommandKept
<1> QED BY <1>1, <1>2, CommandAtWork

LEMMA AtStageFields ==
    ASSUME NEW w \in Worktrees, command[w] \in Command, NEW stage \in Stages
    PROVE  /\ AtStage(w, stage) \in Command /\ AtStage(w, stage).at = stage
           /\ AtStage(w, stage).issue = command[w].issue
           /\ AtStage(w, stage).outcome = command[w].outcome
           /\ AtStage(w, stage).touched = command[w].touched
           /\ AtStage(w, stage).lost = command[w].lost
BY DEF AtStage, Command

LEMMA NotedFields ==
    ASSUME NEW w \in Worktrees, command[w] \in Command, NEW stage \in Stages,
           NEW step \in {"policies", "stamped"}, NEW fails \in BOOLEAN
    PROVE  /\ Noted(w, stage, step, fails) \in Command
           /\ Noted(w, stage, step, fails).at = stage
           /\ Noted(w, stage, step, fails).issue = command[w].issue
           /\ Noted(w, stage, step, fails).outcome = command[w].outcome
           /\ Noted(w, stage, step, fails).touched = command[w].touched
           /\ command[w].lost \subseteq Noted(w, stage, step, fails).lost
           /\ fails => step \in Noted(w, stage, step, fails).lost
<1> DEFINE lost == IF fails THEN command[w].lost \cup {step} ELSE command[w].lost
<1>1. lost \in SUBSET {"policies", "stamped"}
      /\ Noted(w, stage, step, fails) = [command[w] EXCEPT !.at = stage, !.lost = lost]
  BY DEF Noted, Command
<1> HIDE DEF lost
<1> DEFINE c == [command[w] EXCEPT !.at = stage, !.lost = lost]
<1>2. /\ c \in Command /\ c.at = stage /\ c.issue = command[w].issue
      /\ c.outcome = command[w].outcome /\ c.touched = command[w].touched /\ c.lost = lost
  BY <1>1 DEF Command
<1> HIDE DEF c
<1> QED BY <1>1, <1>2 DEF lost, c

LEMMA CreateKeeps ==
    ASSUME BranchStrong, NEW w \in Worktrees, CreateDatabase(w)
    PROVE  BranchStrong'
<1> DEFINE c == AtStage(w, "push")
<1>1. /\ command[w].at = "createdb" /\ Empty \in SUBSET Done /\ env' = env
      /\ WriteDb(w, Empty, c) /\ "push" \in Stages
  BY DEF CreateDatabase, Reached, Empty, Done, Stages
<1>2. /\ c \in Command /\ c.at = "push" /\ c.issue = command[w].issue /\ c.outcome = "none"
  BY <1>1, SetUpSoFar, AtStageFields
<1> HIDE DEF c
<1>3. DoneBefore(c.at) \ c.lost \subseteq Empty
  BY <1>2 DEF DoneBefore, Empty
<1> QED BY <1>1, <1>2, <1>3, SetUpKeeps

LEMMA AddsKeep ==
    ASSUME BranchStrong, NEW w \in Worktrees, PushSchema(w) \/ RunSeed(w)
    PROVE  BranchStrong'
<1> PICK stage \in {"policies", "env"}, step \in Done :
      /\ command[w].at = (IF stage = "policies" THEN "push" ELSE "seed")
      /\ step = (IF stage = "policies" THEN "pushed" ELSE "seeded")
      /\ WriteDb(w, database[The(w)] \cup {step}, AtStage(w, stage)) /\ env' = env
  BY DEF PushSchema, RunSeed, Reached, Done
<1> DEFINE c == AtStage(w, stage)
           content == database[The(w)] \cup {step}
<1>1. stage \in Stages /\ command[w].at # "idle" /\ WriteDb(w, content, c)
  BY DEF Stages
<1>2. /\ c \in Command /\ c.at = stage /\ c.issue = command[w].issue /\ c.outcome = "none"
      /\ c.lost = command[w].lost /\ content \in SUBSET Done
      /\ ~c.touched => DoneBefore(command[w].at) \ c.lost \subseteq database[The(w)]
  BY <1>1, SetUpSoFar, AtStageFields
<1> HIDE DEF c
<1>3. ~c.touched => DoneBefore(c.at) \ c.lost \subseteq content
  BY <1>2 DEF DoneBefore, Done
<1> HIDE DEF content
<1> QED BY <1>1, <1>2, <1>3, SetUpKeeps

LEMMA TriesKeep ==
    ASSUME BranchStrong, NEW w \in Worktrees, NEW fails \in BOOLEAN,
           ApplyPolicies(w, fails) \/ StampMigrations(w, fails)
    PROVE  BranchStrong'
<1> PICK stage \in {"stamp", "seed"}, step \in {"policies", "stamped"} :
      /\ command[w].at = (IF stage = "stamp" THEN "policies" ELSE "stamp")
      /\ step = (IF stage = "stamp" THEN "policies" ELSE "stamped")
      /\ WriteDb(w, WithStep(w, step, fails), Noted(w, stage, step, fails)) /\ env' = env
      /\ stage = "seed" => Exists(w)
  BY DEF ApplyPolicies, StampMigrations, Reached
<1> DEFINE c == Noted(w, stage, step, fails)
           content == WithStep(w, step, fails)
<1>1. stage \in Stages /\ command[w].at # "idle" /\ WriteDb(w, content, c)
  BY DEF Stages
<1>2. /\ c \in Command /\ c.at = stage /\ c.issue = command[w].issue /\ c.outcome = "none"
      /\ command[w].lost \subseteq c.lost /\ (fails => step \in c.lost)
      /\ database[The(w)] \in SUBSET Done
      /\ command[w].lost \in SUBSET {"policies", "stamped"}
      /\ ~c.touched =>
           DoneBefore(command[w].at) \ command[w].lost \subseteq database[The(w)]
  <2>1. /\ command[w] \in Command /\ command[w].outcome = "none"
        /\ command[w].lost \in SUBSET {"policies", "stamped"}
        /\ database[The(w)] \in SUBSET Done
        /\ ~command[w].touched =>
             DoneBefore(command[w].at) \ command[w].lost \subseteq database[The(w)]
    BY <1>1, SetUpSoFar
  <2>2. /\ c \in Command /\ c.at = stage /\ c.issue = command[w].issue
        /\ c.outcome = command[w].outcome /\ c.touched = command[w].touched
        /\ command[w].lost \subseteq c.lost /\ (fails => step \in c.lost)
    BY <1>1, <2>1, NotedFields
  <2> HIDE DEF c
  <2> QED BY <2>1, <2>2
<1>3. /\ content \in SUBSET Done /\ database[The(w)] \subseteq content
      /\ ~fails /\ Exists(w) => step \in content
  BY <1>2 DEF WithStep, Done
<1> HIDE DEF c, content
<1>4. ~c.touched /\ ~fails => Exists(w)
  BY <1>2 DEF DoneBefore, Exists, Absent
<1>5. ~c.touched => DoneBefore(c.at) \ c.lost \subseteq content
  <2>1. DoneBefore(stage) \subseteq DoneBefore(command[w].at) \cup {step}
    BY DEF DoneBefore
  <2> QED BY <2>1, <1>2, <1>3, <1>4
<1> QED BY <1>1, <1>2, <1>3, <1>5, SetUpKeeps

LEMMA UpdateEnvKeeps ==
    ASSUME BranchStrong, NEW w \in Worktrees, UpdateEnvFile(w)
    PROVE  BranchStrong'
<1> DEFINE c == [command[w] EXCEPT !.at = "idle", !.outcome = "ready"]
<1>1. /\ command[w] \in Command /\ command[w].issue \in Issues
      /\ command[w].at = "env" /\ The(w) = command[w].issue
      /\ ~command[w].touched =>
           Done \ command[w].lost \subseteq Content(database, command[w].issue)
  BY CommandFields, CommandAtWork DEF UpdateEnvFile, Reached, CommandKept, DoneBefore
<1>2. c \in Command /\ c.issue = command[w].issue
  BY <1>1 DEF Command, Stages, Outcomes
<1>3. CommandKept(c, Content(database, c.issue), The(w))
  BY <1>1 DEF Command, CommandKept, DoneBefore
<1>4. /\ command' = [command EXCEPT ![w] = c] /\ database' = database
      /\ env' = [env EXCEPT ![w] = The(w)]
  BY DEF UpdateEnvFile, EndCommand
<1>5. /\ env' \in [Worktrees -> Issues \cup {NoIssue}] /\ env'[w] = The(w)
      /\ \A v \in Worktrees \ {w} : env'[v] = env[v]
  BY <1>1, <1>4 DEF BranchStrong
<1> HIDE DEF c
<1> QED BY <1>2, <1>3, <1>4, <1>5, CommandTurns

LEMMA BranchStep == BranchStrong /\ [BranchNext]_branchVars => BranchStrong'
<1> SUFFICES ASSUME BranchStrong, [BranchNext]_branchVars PROVE BranchStrong'
  OBVIOUS
<1>1. ASSUME UNCHANGED branchVars PROVE BranchStrong'
  BY <1>1 DEF branchVars, BranchStrong, Content
<1>2. ASSUME NEW w \in Worktrees, NEW i \in Issues,
             \/ StartCommand(w, "drop", i, FALSE)
             \/ \E force \in BOOLEAN : StartCommand(w, "create", i, force)
      PROVE  BranchStrong'
  BY <1>2, StartKeeps
<1>3. ASSUME NEW w \in Worktrees, LookAbsent(w) PROVE BranchStrong'
  BY <1>3, StageKeeps DEF LookAbsent, Reached
<1>4. ASSUME NEW w \in Worktrees, SetupFails(w) PROVE BranchStrong'
  BY <1>4, StageKeeps DEF SetupFails
<1>5. ASSUME NEW w \in Worktrees, BreakOff(w) PROVE BranchStrong'
  BY <1>5, GivesUpKeeps DEF BreakOff
<1> QED BY <1>1, <1>2, <1>3, <1>4, <1>5, LookExistsKeeps, DropKeeps, CleanupKeeps,
           CreateKeeps, AddsKeep, TriesKeep, UpdateEnvKeeps DEF BranchNext

-----------------------------------------------------------------------------
(* RenameFiles: what a script knows of the files it works on, and what the  *)
(* imports say at each of its stages                                        *)

RenameStages == {"none", "moving", "updating", "verifying", "fixing"}

RenameTyped ==
    /\ named \in [Sources -> {"kebab", "camel", "pascal"}]
    /\ head \in [Sources -> {"kebab", "camel", "pascal"}]
    /\ written \in [Imports -> {"kebab", "camel", "pascal"}]
    /\ \A f \in Sources : named[f] \in {"kebab", Convention[f]} /\ head[f] \in {"kebab", named[f]}
    /\ {"at", "dry", "entries", "todo", "places", "first"} \subseteq DOMAIN script
    /\ script.at \in RenameStages /\ script.dry \in BOOLEAN
    /\ script.entries \subseteq Sources /\ script.todo \subseteq script.entries
    /\ script.places \subseteq Places
    /\ renamePast \in [broken : BOOLEAN, restored : BOOLEAN]

\* All files have the names they are to have.
AllNamed == \A f \in Sources : named[f] = Convention[f]

\* The entries of a script, at its stages.
EntriesKept ==
    /\ script.at # "none" => script.entries # {}
    /\ script.at # "none" => \A f \in script.entries :
         /\ script.first[StemOf[f]] \in script.entries
         /\ StemOf[script.first[StemOf[f]]] = StemOf[f]
         /\ Convention[f] # "kebab"
    /\ script.at = "moving" /\ ~script.dry =>
         \A f \in Sources \ script.todo : named[f] = Convention[f]
    /\ script.at \in {"updating", "verifying"} /\ ~script.dry => AllNamed
    /\ script.at = "fixing" => script.entries = {f \in Sources : head[f] # named[f]}
    /\ script.at = "verifying" => script.places = {}

\* An import is written as its file is to be named, or as it was; and it was
\* rewritten only when a file of the stem was moved.
WrittenKept ==
    \A i \in Imports :
      /\ written[i] \in {"kebab", Convention[i.to]} \/ Ambiguous(i.to)
      /\ written[i] # "kebab" =>
           \E g \in Sources : StemOf[g] = StemOf[i.to] /\ named[g] # "kebab"

HasEntry(i) == \E f \in script.entries : StemOf[f] = StemOf[i.to]

\* What renameFiles went through has no old name.
ReplacedKept ==
    /\ outcome = "stale" => renamePast.restored
    /\ script.at \in {"updating", "verifying"} /\ ~script.dry /\ ~renamePast.restored =>
         \A i \in Imports :
           i.in \in Collected /\ i.in \notin script.places /\ HasEntry(i) => written[i] # "kebab"

\* What fixJsImports went through resolves.
FixedKept ==
    /\ JsFixed
    /\ script.at = "fixing" /\ ~script.dry /\ ~renamePast.restored =>
         \A i \in Imports :
           /\ i.ext = "js" /\ i.in \in Collected /\ i.in \notin script.places
           /\ i.to \in script.entries
           => Resolves(i) \/ Ambiguous(i.to)

Untouched ==
    /\ \A f \in Sources : named[f] = "kebab"
    /\ \A i \in Imports : written[i] = "kebab"

\* Imports of places that are collected, but for some, resolve.
ResolvedBut(places) ==
    \A i \in Imports :
      i.in \in Collected /\ i.in \notin places => Resolves(i) \/ Ambiguous(i.to)

\* All files with an old name are entries.
AllEntries == \A f \in Sources : Convention[f] # "kebab" => f \in script.entries

\* Without a run that broke off halfway or an editor, nothing was done or all.
CleanKept ==
    ~renamePast.broken /\ ~renamePast.restored =>
      /\ script.at \in {"none", "fixing"} \/ script.dry =>
           Untouched \/ (AllNamed /\ ResolvedBut({}))
      /\ script.at = "moving" /\ ~script.dry =>
           AllEntries /\ \A i \in Imports : written[i] = "kebab"
      /\ script.at = "updating" /\ ~script.dry =>
           /\ AllEntries /\ ResolvedBut(script.places)
           /\ \A i \in Imports : i.in \in script.places => written[i] = "kebab"
      /\ script.at = "verifying" /\ ~script.dry => ResolvedBut({})

RenameStrong ==
    /\ RenameTyped /\ EntriesKept /\ WrittenKept
    /\ ReplacedKept /\ FixedKept /\ CleanKept

LEMMA RenameStrongSuffices == RenameStrong => RenameInv
<1> SUFFICES ASSUME RenameStrong PROVE RenameInv
  OBVIOUS
<1>1. RenameTypeOK
  BY DEF RenameStrong, RenameTyped, RenameTypeOK, RenameStages
<1>2. DoneResolves
  <2> SUFFICES ASSUME ScriptAt("none"), ~renamePast.broken, ~renamePast.restored,
                      NEW i \in Imports, i.in \in Collected
               PROVE  Resolves(i) \/ Ambiguous(i.to)
    BY DEF DoneResolves
  <2>1. Untouched \/ ResolvedBut({})
    BY DEF RenameStrong, CleanKept, ScriptAt
  <2>2. i.to \in Sources
    BY RenameAssumption
  <2> QED BY <2>1, <2>2 DEF Untouched, ResolvedBut, Resolves
<1>3. ASSUME NEW i \in Imports, written[i] # "kebab", ~Ambiguous(i.to), ~Resolves(i)
      PROVE  NamedApart(i.to)
  <2>1. i.to \in Sources /\ named[i.to] \in {"kebab", Convention[i.to]}
    BY RenameAssumption DEF RenameStrong, RenameTyped
  <2>2. written[i] = Convention[i.to] /\ named[i.to] = "kebab"
    BY <1>3, <2>1 DEF RenameStrong, WrittenKept, Resolves
  <2>3. PICK g \in Sources : StemOf[g] = StemOf[i.to] /\ named[g] # "kebab"
    BY <1>3 DEF RenameStrong, WrittenKept
  <2> QED BY <2>2, <2>3 DEF NamedApart
<1>4. BrokenByStem
  BY <1>3 DEF BrokenByStem
<1> QED BY <1>1, <1>2, <1>4 DEF RenameInv, RenameStrong, ReplacedKept, StaleForCause, FixedKept

\* Of every stem an entry has, the chosen one is an entry.
LEMMA FirstsOf ==
    ASSUME NEW entries \in SUBSET Sources, NEW first \in Firsts(entries), NEW f \in entries
    PROVE  first[StemOf[f]] \in entries /\ StemOf[first[StemOf[f]]] = StemOf[f]
<1> DEFINE s == StemOf[f]
          those == {g \in entries : StemOf[g] = s}
<1>1. s \in Stems /\ f \in those
  BY DEF Stems
<1>2. first[s] \in those
  BY <1>1 DEF Firsts
<1> QED BY <1>2

LEMMA NoScriptIs ==
    /\ {"at", "dry", "entries", "todo", "places", "first"} \subseteq DOMAIN NoScript
    /\ NoScript.at = "none" /\ NoScript.dry = FALSE /\ NoScript.entries = {}
    /\ NoScript.todo = {} /\ NoScript.places = {}
BY DEF NoScript

LEMMA RenameBegins == RenameInit => RenameStrong
<1> SUFFICES ASSUME RenameInit PROVE RenameStrong
  OBVIOUS
<1>1. RenameTyped
  BY NoScriptIs DEF RenameInit, RenameTyped, RenameStages
<1>2. EntriesKept
  BY NoScriptIs DEF RenameInit, EntriesKept
<1>3. WrittenKept
  BY DEF RenameInit, WrittenKept
<1>4. ReplacedKept
  BY NoScriptIs DEF RenameInit, ReplacedKept
<1>5. FixedKept
  BY NoScriptIs DEF RenameInit, FixedKept, JsFixed
<1>6. CleanKept
  BY NoScriptIs DEF RenameInit, CleanKept, Untouched
<1> QED BY <1>1, <1>2, <1>3, <1>4, <1>5, <1>6 DEF RenameStrong

\* A script ends: names and imports stay, and what it ends with is true.
LEMMA ScriptEndKeeps ==
    ASSUME RenameStrong, NEW with, EndScript(with), UNCHANGED <<named, head, written>>,
           renamePast' \in [broken : BOOLEAN, restored : BOOLEAN],
           renamePast'.restored = renamePast.restored,
           with = "stale" => renamePast.restored,
           with = "fixed" /\ ~renamePast.restored =>
             \A i \in Imports :
               i.ext = "js" /\ i.in \in Collected /\ head[i.to] # named[i.to] =>
                   Resolves(i) \/ Ambiguous(i.to),
           ~renamePast'.broken /\ ~renamePast.restored =>
               Untouched \/ (AllNamed /\ ResolvedBut({}))
    PROVE  RenameStrong'
<1>1. /\ script' = NoScript /\ outcome' = with
      /\ named' = named /\ head' = head /\ written' = written
  BY DEF EndScript
<1>2. RenameTyped'
  BY <1>1, NoScriptIs DEF RenameStrong, RenameTyped, RenameStages
<1>3. EntriesKept'
  BY <1>1, NoScriptIs DEF EntriesKept
<1>4. WrittenKept'
  BY <1>1 DEF RenameStrong, WrittenKept
<1>5. ReplacedKept'
  BY <1>1, NoScriptIs DEF ReplacedKept
<1>6. FixedKept'
  BY <1>1, NoScriptIs DEF FixedKept, JsFixed, Resolves
<1>7. CleanKept'
  BY <1>1, NoScriptIs DEF CleanKept, Untouched, AllNamed, ResolvedBut, Resolves
<1> QED BY <1>2, <1>3, <1>4, <1>5, <1>6, <1>7 DEF RenameStrong

\* A script begins with entries that have each a first of the stem.
LEMMA ScriptBeginKeeps ==
    ASSUME RenameStrong, ScriptAt("none"), UNCHANGED <<named, head, written, outcome, renamePast>>,
           NEW entries \in SUBSET Sources, entries # {}, script'.entries = entries,
           script'.first \in Firsts(entries),
           {"at", "dry", "entries", "todo", "places", "first"} \subseteq DOMAIN script',
           script'.dry \in BOOLEAN, script'.todo \subseteq entries,
           \/ /\ script'.at = "moving" /\ script'.places = {} /\ script'.todo = entries
              /\ entries = ToRename
           \/ /\ script'.at = "fixing" /\ script'.places = Places \cap Collected
              /\ entries = {f \in Sources : head[f] # named[f]}
    PROVE  RenameStrong'
<1>1. RenameTyped'
  BY DEF RenameStrong, RenameTyped, RenameStages
<1>2. \A f \in entries : Convention[f] # "kebab"
  BY DEF RenameStrong, RenameTyped, ToRename
<1>3. \A f \in entries : script'.first[StemOf[f]] \in entries
                         /\ StemOf[script'.first[StemOf[f]]] = StemOf[f]
  BY FirstsOf
<1>4. script'.at = "moving" => \A f \in Sources \ script'.todo : named[f] = Convention[f]
  BY DEF ToRename, RenameStrong, RenameTyped
<1>5. EntriesKept'
  BY <1>2, <1>3, <1>4 DEF EntriesKept
<1>6. WrittenKept'
  BY DEF RenameStrong, WrittenKept
<1>7. ReplacedKept'
  BY DEF RenameStrong, ReplacedKept
<1>8. FixedKept'
  <2>1. JsFixed'
    BY DEF JsFixed, ScriptAt
  <2>2. \A i \in Imports : i.in \in Collected => i.in \in Places \cap Collected
    BY DEF Places
  <2> QED BY <2>1, <2>2 DEF FixedKept
<1>9. CleanKept'
  <2> SUFFICES ASSUME ~renamePast.broken, ~renamePast.restored PROVE CleanKept'
    BY DEF CleanKept
  <2>1. Untouched \/ (AllNamed /\ ResolvedBut({}))
    BY DEF RenameStrong, CleanKept, ScriptAt
  <2>2. script'.at = "moving" => /\ \A f \in Sources : Convention[f] # "kebab" => f \in entries
                                 /\ \A i \in Imports : written[i] = "kebab"
    <3>1. script'.at = "moving" => ~AllNamed
      BY DEF ToRename, AllNamed
    <3> QED BY <2>1, <3>1 DEF ToRename, Untouched
  <2>3. (Untouched \/ (AllNamed /\ ResolvedBut({})))'
    BY <2>1 DEF Untouched, AllNamed, ResolvedBut, Resolves
  <2> QED BY <2>2, <2>3 DEF CleanKept, AllEntries
<1> QED BY <1>1, <1>5, <1>6, <1>7, <1>8, <1>9 DEF RenameStrong

LEMMA DiscoverKeeps ==
    ASSUME RenameStrong, NEW dry \in BOOLEAN, DiscoverFiles(dry)
    PROVE  RenameStrong'
<1>1. ScriptAt("none") /\ UNCHANGED <<named, head, written, renamePast>>
  BY DEF DiscoverFiles
<1>2. CASE ToRename = {}
  <2>1. EndScript("done")
    BY <1>2 DEF DiscoverFiles
  <2>2. ~renamePast.broken /\ ~renamePast.restored => Untouched \/ (AllNamed /\ ResolvedBut({}))
    BY <1>1 DEF RenameStrong, CleanKept, ScriptAt
  <2>3. renamePast' = renamePast /\ renamePast \in [broken : BOOLEAN, restored : BOOLEAN]
    BY <1>1 DEF RenameStrong, RenameTyped
  <2> QED BY <1>1, <2>1, <2>2, <2>3, ScriptEndKeeps
<1>3. CASE ToRename # {}
  <2>1. PICK first \in Firsts(ToRename) :
          /\ script' = [at |-> "moving", dry |-> dry, entries |-> ToRename,
                        todo |-> ToRename, places |-> {}, first |-> first]
          /\ outcome' = outcome
    BY <1>3 DEF DiscoverFiles
  <2>2. /\ script'.at = "moving" /\ script'.dry = dry /\ script'.entries = ToRename
        /\ script'.todo = ToRename /\ script'.places = {} /\ script'.first = first
        /\ {"at", "dry", "entries", "todo", "places", "first"} \subseteq DOMAIN script'
        /\ ToRename \in SUBSET Sources
    BY <2>1 DEF ToRename
  <2> QED BY <1>1, <1>3, <2>1, <2>2, ScriptBeginKeeps
<1> QED BY <1>2, <1>3

LEMMA ParseKeeps ==
    ASSUME RenameStrong, NEW dry \in BOOLEAN, ParseRenameMap(dry)
    PROVE  RenameStrong'
<1>1. ScriptAt("none") /\ UNCHANGED <<named, head, written, renamePast>>
  BY DEF ParseRenameMap
<1>2. CASE MovedSinceHead = {}
  <2>1. EndScript("nothing")
    BY <1>2 DEF ParseRenameMap
  <2>2. ~renamePast.broken /\ ~renamePast.restored => Untouched \/ (AllNamed /\ ResolvedBut({}))
    BY <1>1 DEF RenameStrong, CleanKept, ScriptAt
  <2>3. renamePast' = renamePast /\ renamePast \in [broken : BOOLEAN, restored : BOOLEAN]
    BY <1>1 DEF RenameStrong, RenameTyped
  <2> QED BY <1>1, <2>1, <2>2, <2>3, ScriptEndKeeps
<1>3. CASE MovedSinceHead # {}
  <2>1. PICK first \in Firsts(MovedSinceHead) :
          /\ script' = [at |-> "fixing", dry |-> dry, entries |-> MovedSinceHead,
                        todo |-> {}, places |-> Places \cap Collected, first |-> first]
          /\ outcome' = outcome
    BY <1>3 DEF ParseRenameMap
  <2>2. /\ script'.at = "fixing" /\ script'.dry = dry /\ script'.entries = MovedSinceHead
        /\ script'.todo = {} /\ script'.places = Places \cap Collected /\ script'.first = first
        /\ {"at", "dry", "entries", "todo", "places", "first"} \subseteq DOMAIN script'
        /\ MovedSinceHead \in SUBSET Sources
    BY <2>1 DEF MovedSinceHead
  <2> QED BY <1>1, <1>3, <2>1, <2>2, ScriptBeginKeeps DEF MovedSinceHead
<1> QED BY <1>2, <1>3

LEMMA GitMvKeeps ==
    ASSUME RenameStrong, NEW f \in Sources, GitMv(f)
    PROVE  RenameStrong'
<1>1. /\ script.at = "moving" /\ ~script.dry /\ f \in script.todo /\ f \in script.entries
      /\ script' = [script EXCEPT !.todo = @ \ {f}]
      /\ head' = head /\ written' = written /\ outcome' = outcome /\ renamePast' = renamePast
  BY DEF GitMv, ScriptAt, RenameStrong, RenameTyped
<1>2. /\ {"at", "dry", "entries", "todo", "places", "first"} \subseteq DOMAIN script'
      /\ script'.at = "moving" /\ script'.dry = script.dry /\ script'.entries = script.entries
      /\ script'.places = script.places /\ script'.first = script.first
      /\ script'.todo = script.todo \ {f}
  BY <1>1 DEF RenameStrong, RenameTyped
<1>3. /\ named' \in [Sources -> {"kebab", "camel", "pascal"}] /\ named'[f] = Convention[f]
      /\ \A g \in Sources \ {f} : named'[g] = named[g]
      /\ Convention[f] # "kebab"
  <2>1. Convention[f] # "kebab" /\ Convention[f] \in {"kebab", "camel", "pascal"}
    BY <1>1, RenameAssumption DEF RenameStrong, EntriesKept
  <2>2. named' = [named EXCEPT ![f] = Convention[f]]
    BY DEF GitMv
  <2> QED BY <2>1, <2>2 DEF RenameStrong, RenameTyped
<1>4. head[f] = "kebab" \/ head[f] = Convention[f]
  BY DEF RenameStrong, RenameTyped
<1>5. RenameTyped'
  BY <1>1, <1>2, <1>3, <1>4 DEF RenameStrong, RenameTyped
<1>6. EntriesKept'
  BY <1>1, <1>2, <1>3 DEF RenameStrong, EntriesKept
<1>7. WrittenKept'
  <2>1. \A g \in Sources : named[g] # "kebab" => named'[g] # "kebab"
    BY <1>3
  <2> QED BY <1>1, <2>1 DEF RenameStrong, WrittenKept
<1>8. ReplacedKept'
  BY <1>1, <1>2 DEF RenameStrong, ReplacedKept
<1>9. FixedKept'
  BY <1>1, <1>2 DEF FixedKept, JsFixed, ScriptAt
<1>10. CleanKept'
  BY <1>1, <1>2 DEF RenameStrong, CleanKept, AllEntries
<1> QED BY <1>5, <1>6, <1>7, <1>8, <1>9, <1>10 DEF RenameStrong

LEMMA CollectKeeps ==
    ASSUME RenameStrong, CollectSources
    PROVE  RenameStrong'
<1>1. /\ script.at = "moving" /\ (script.dry \/ script.todo = {})
      /\ named' = named
      /\ head' = head /\ written' = written /\ outcome' = outcome /\ renamePast' = renamePast
  BY DEF CollectSources, ScriptAt
<1>2. /\ {"at", "dry", "entries", "todo", "places", "first"} \subseteq DOMAIN script'
      /\ script'.at = "updating" /\ script'.dry = script.dry /\ script'.entries = script.entries
      /\ script'.places = Places \cap Collected /\ script'.first = script.first
      /\ script'.todo = {}
  BY DEF CollectSources, RenameStrong, RenameTyped
<1>3. ~script.dry => AllNamed
  BY <1>1 DEF RenameStrong, EntriesKept, AllNamed
<1>4. \A i \in Imports : i.in \in Collected => i.in \in Places \cap Collected
  BY DEF Places
<1>5. RenameTyped'
  BY <1>1, <1>2 DEF RenameStrong, RenameTyped, RenameStages
<1>6. EntriesKept'
  BY <1>1, <1>2, <1>3 DEF RenameStrong, EntriesKept, AllNamed
<1>7. WrittenKept'
  BY <1>1 DEF RenameStrong, WrittenKept
<1>8. ReplacedKept'
  BY <1>1, <1>2, <1>4 DEF RenameStrong, ReplacedKept
<1>9. FixedKept'
  BY <1>1, <1>2 DEF FixedKept, JsFixed, ScriptAt
<1>10. CleanKept'
  <2> SUFFICES ASSUME ~renamePast.broken, ~renamePast.restored PROVE CleanKept'
    BY <1>1 DEF CleanKept
  <2>1. CASE script.dry
    BY <2>1, <1>1, <1>2 DEF RenameStrong, CleanKept, Untouched, AllNamed, ResolvedBut, Resolves
  <2>2. CASE ~script.dry
    <3>1. AllEntries /\ \A i \in Imports : written[i] = "kebab"
      BY <1>1, <2>2 DEF RenameStrong, CleanKept
    <3> QED BY <1>1, <1>2, <1>4, <2>2, <3>1 DEF CleanKept, AllEntries, ResolvedBut
  <2> QED BY <2>1, <2>2
<1> QED BY <1>5, <1>6, <1>7, <1>8, <1>9, <1>10 DEF RenameStrong

\* What a script puts for an import: the name of a moved file of the stem, and
\* of its own file if no other of the stem is named apart.
LEMMA RewrittenIs ==
    ASSUME RenameStrong, script.at # "none", NEW place, NEW exts, NEW i \in Imports
    PROVE  /\ ~Matches(i, place, exts) => Rewritten(place, exts)[i] = written[i]
           /\ Matches(i, place, exts) =>
                /\ i.in = place /\ i.ext \in exts /\ written[i] = "kebab" /\ HasEntry(i)
                /\ Rewritten(place, exts)[i] # "kebab"
                /\ Rewritten(place, exts)[i] \in {"camel", "pascal"}
                /\ Rewritten(place, exts)[i] = Convention[i.to] \/ Ambiguous(i.to)
                /\ \E g \in script.entries : StemOf[g] = StemOf[i.to]
<1>1. i.to \in Sources
  BY RenameAssumption
<1>2. ~Matches(i, place, exts) => Rewritten(place, exts)[i] = written[i]
  BY DEF Rewritten
<1>3. ASSUME Matches(i, place, exts)
      PROVE  /\ i.in = place /\ i.ext \in exts /\ written[i] = "kebab" /\ HasEntry(i)
             /\ Rewritten(place, exts)[i] # "kebab"
             /\ Rewritten(place, exts)[i] \in {"camel", "pascal"}
             /\ Rewritten(place, exts)[i] = Convention[i.to] \/ Ambiguous(i.to)
             /\ \E g \in script.entries : StemOf[g] = StemOf[i.to]
  <2>1. i.in = place /\ i.ext \in exts /\ written[i] = "kebab" /\ HasEntry(i)
    BY <1>3 DEF Matches, HasEntry
  <2> DEFINE g == script.first[StemOf[i.to]]
  <2>2. g \in script.entries /\ StemOf[g] = StemOf[i.to] /\ g \in Sources
    BY <2>1 DEF HasEntry, RenameStrong, EntriesKept, RenameTyped
  <2>3. Convention[g] # "kebab" /\ Convention[g] \in {"camel", "pascal", "kebab"}
    BY <2>2, RenameAssumption DEF RenameStrong, EntriesKept
  <2>4. Rewritten(place, exts)[i] = Convention[g]
    BY <1>3 DEF Rewritten
  <2> HIDE DEF g
  <2>5. Convention[g] = Convention[i.to] \/ Ambiguous(i.to)
    BY <2>2 DEF Ambiguous
  <2> QED BY <2>1, <2>2, <2>3, <2>4, <2>5
<1> QED BY <1>2, <1>3

\* A script rewrites the imports of a place, or in a dry run none.
LEMMA PlaceFacts ==
    ASSUME RenameStrong, script.at # "none", NEW place \in script.places, NEW exts,
           written' = IF script.dry THEN written ELSE Rewritten(place, exts),
           script' = [script EXCEPT !.places = @ \ {place}],
           named' = named, head' = head, outcome' = outcome, renamePast' = renamePast,
           script.at # "fixing" => script.dry \/ AllNamed
    PROVE  /\ {"at", "dry", "entries", "todo", "places", "first"} \subseteq DOMAIN script'
           /\ script'.at = script.at /\ script'.dry = script.dry
           /\ script'.entries = script.entries /\ script'.places = script.places \ {place}
           /\ script'.first = script.first /\ script'.todo = script.todo
           /\ RenameTyped' /\ WrittenKept'
<1>1. /\ {"at", "dry", "entries", "todo", "places", "first"} \subseteq DOMAIN script'
      /\ script'.at = script.at /\ script'.dry = script.dry
      /\ script'.entries = script.entries /\ script'.places = script.places \ {place}
      /\ script'.first = script.first /\ script'.todo = script.todo
  BY DEF RenameStrong, RenameTyped
<1>2. ASSUME ~script.dry, NEW i \in Imports
      PROVE  /\ written'[i] \in {"kebab", "camel", "pascal"}
             /\ written'[i] \in {"kebab", Convention[i.to]} \/ Ambiguous(i.to)
             /\ written'[i] # "kebab" =>
                  \E g \in Sources : StemOf[g] = StemOf[i.to] /\ named[g] # "kebab"
  <2>1. written' = Rewritten(place, exts)
    BY <1>2
  <2>2. CASE ~Matches(i, place, exts)
    BY <2>1, <2>2, RewrittenIs DEF RenameStrong, RenameTyped, WrittenKept
  <2>3. CASE Matches(i, place, exts)
    <3>1. PICK g \in script.entries : StemOf[g] = StemOf[i.to]
      BY <2>3, RewrittenIs
    <3>2. g \in Sources /\ named[g] # "kebab"
      <4>1. g \in Sources /\ Convention[g] # "kebab"
        BY DEF RenameStrong, RenameTyped, EntriesKept
      <4>2. CASE script.at = "fixing"
        <5>1. head[g] # named[g]
          BY <4>2 DEF RenameStrong, EntriesKept
        <5> QED BY <4>1, <5>1 DEF RenameStrong, RenameTyped
      <4>3. CASE script.at # "fixing"
        BY <1>2, <4>1, <4>3 DEF AllNamed
      <4> QED BY <4>1, <4>2, <4>3
    <3> QED BY <2>1, <2>3, <3>1, <3>2, RewrittenIs
  <2> QED BY <2>2, <2>3
<1>3. ~script.dry => written' \in [Imports -> {"kebab", "camel", "pascal"}]
  BY <1>2 DEF Rewritten
<1>4. RenameTyped'
  BY <1>1, <1>3 DEF RenameStrong, RenameTyped
<1>5. WrittenKept'
  BY <1>2 DEF RenameStrong, WrittenKept
<1> QED BY <1>1, <1>4, <1>5

LEMMA UpdateKeeps ==
    ASSUME RenameStrong, NEW place \in Places, UpdateImports(place)
    PROVE  RenameStrong'
<1> DEFINE exts == {"none", "js"}
<1>1. /\ script.at = "updating" /\ place \in script.places
      /\ written' = (IF script.dry THEN written ELSE Rewritten(place, exts))
      /\ script' = [script EXCEPT !.places = @ \ {place}]
      /\ named' = named /\ head' = head /\ outcome' = outcome /\ renamePast' = renamePast
      /\ script.dry \/ AllNamed
  BY DEF UpdateImports, ScriptAt, RenameStrong, EntriesKept
<1> HIDE DEF exts
<1>2. /\ {"at", "dry", "entries", "todo", "places", "first"} \subseteq DOMAIN script'
      /\ script'.at = script.at /\ script'.dry = script.dry
      /\ script'.entries = script.entries /\ script'.places = script.places \ {place}
      /\ script'.first = script.first /\ script'.todo = script.todo
      /\ RenameTyped' /\ WrittenKept'
  BY <1>1, PlaceFacts
<1>3. EntriesKept'
  BY <1>1, <1>2 DEF RenameStrong, EntriesKept, AllNamed
<1>4. ASSUME ~script.dry, NEW i \in Imports
      PROVE  /\ i.in # place => written'[i] = written[i]
             /\ i.in = place /\ HasEntry(i) => written'[i] # "kebab"
             /\ written[i] # "kebab" => written'[i] = written[i]
             /\ i.in = place /\ written[i] = "kebab" /\ HasEntry(i) =>
                  written'[i] = Convention[i.to] \/ Ambiguous(i.to)
             /\ ~HasEntry(i) => written'[i] = written[i]
  <2>1. written' = Rewritten(place, exts) /\ i.ext \in exts
    BY <1>1, <1>4, RenameAssumption DEF exts
  <2>2. Matches(i, place, exts) <=> i.in = place /\ written[i] = "kebab" /\ HasEntry(i)
    BY <2>1 DEF Matches, HasEntry
  <2>3. CASE Matches(i, place, exts)
    <3>1. /\ i.in = place /\ i.ext \in exts /\ written[i] = "kebab" /\ HasEntry(i)
          /\ Rewritten(place, exts)[i] # "kebab"
          /\ Rewritten(place, exts)[i] = Convention[i.to] \/ Ambiguous(i.to)
      BY <1>1, <2>3, RewrittenIs
    <3> QED BY <2>1, <3>1
  <2>4. CASE ~Matches(i, place, exts)
    <3>1. written'[i] = written[i]
      BY <1>1, <2>1, <2>4, RewrittenIs
    <3> QED BY <2>2, <2>4, <3>1
  <2> QED BY <2>3, <2>4
<1>5. ReplacedKept'
  <2> SUFFICES ASSUME ~script.dry, ~renamePast.restored, NEW i \in Imports,
                      i.in \in Collected, i.in \notin script'.places, HasEntry(i)
               PROVE  written'[i] # "kebab"
    BY <1>1, <1>2 DEF RenameStrong, ReplacedKept, HasEntry
  <2>1. CASE i.in = place
    BY <1>4, <2>1
  <2>2. CASE i.in # place
    BY <1>1, <1>2, <1>4, <2>2 DEF RenameStrong, ReplacedKept
  <2> QED BY <2>1, <2>2
<1>6. FixedKept'
  BY <1>1, <1>2 DEF FixedKept, JsFixed, ScriptAt
<1>7. CleanKept'
  <2> SUFFICES ASSUME ~renamePast.broken, ~renamePast.restored PROVE CleanKept'
    BY <1>1 DEF CleanKept
  <2>1. CASE script.dry
    BY <2>1, <1>1, <1>2 DEF RenameStrong, CleanKept, Untouched, AllNamed, ResolvedBut, Resolves
  <2>2. CASE ~script.dry
    <3>1. /\ AllEntries /\ ResolvedBut(script.places)
          /\ \A i \in Imports : i.in \in script.places => written[i] = "kebab"
      BY <1>1, <2>2 DEF RenameStrong, CleanKept
    <3>2. ASSUME NEW i \in Imports, i.in \in Collected, i.in \notin script'.places
          PROVE  written'[i] = named[i.to] \/ Ambiguous(i.to)
      <4>0. i.to \in Sources /\ named[i.to] = Convention[i.to]
        BY <1>1, <2>2, RenameAssumption DEF AllNamed
      <4>1. CASE i.in # place
        BY <1>2, <1>4, <2>2, <3>1, <3>2, <4>1 DEF ResolvedBut, Resolves
      <4>2. CASE i.in = place /\ HasEntry(i)
        BY <1>1, <1>4, <2>2, <3>1, <4>0, <4>2
      <4>3. CASE i.in = place /\ ~HasEntry(i)
        <5>1. Convention[i.to] = "kebab"
          BY <3>1, <4>0, <4>3 DEF AllEntries, HasEntry
        <5> QED BY <1>1, <1>4, <2>2, <3>1, <4>0, <4>3, <5>1
      <4> QED BY <4>1, <4>2, <4>3
    <3>3. \A i \in Imports : i.in \in script'.places => written'[i] = "kebab"
      BY <1>2, <1>4, <2>2, <3>1
    <3> QED BY <1>1, <1>2, <2>2, <3>1, <3>2, <3>3 DEF CleanKept, AllEntries, ResolvedBut, Resolves
  <2> QED BY <2>1, <2>2
<1> QED BY <1>2, <1>3, <1>5, <1>6, <1>7 DEF RenameStrong

LEMMA FixKeeps ==
    ASSUME RenameStrong, NEW place \in Places, FixImports(place)
    PROVE  RenameStrong'
<1> DEFINE exts == {"js"}
<1>1. /\ script.at = "fixing" /\ place \in script.places
      /\ written' = (IF script.dry THEN written ELSE Rewritten(place, exts))
      /\ script' = [script EXCEPT !.places = @ \ {place}]
      /\ named' = named /\ head' = head /\ outcome' = outcome /\ renamePast' = renamePast
      /\ script.entries = {f \in Sources : head[f] # named[f]}
  BY DEF FixImports, ScriptAt, RenameStrong, EntriesKept
<1> HIDE DEF exts
<1>2. /\ {"at", "dry", "entries", "todo", "places", "first"} \subseteq DOMAIN script'
      /\ script'.at = script.at /\ script'.dry = script.dry
      /\ script'.entries = script.entries /\ script'.places = script.places \ {place}
      /\ script'.first = script.first /\ script'.todo = script.todo
      /\ RenameTyped' /\ WrittenKept'
  BY <1>1, PlaceFacts
<1>3. EntriesKept'
  BY <1>1, <1>2 DEF RenameStrong, EntriesKept, AllNamed
<1>4. ASSUME ~script.dry, NEW i \in Imports
      PROVE  /\ i.in # place => written'[i] = written[i]
             /\ written[i] # "kebab" => written'[i] = written[i]
             /\ \/ written'[i] = written[i]
                \/ written'[i] = Convention[i.to] \/ Ambiguous(i.to)
             /\ i.in = place /\ i.ext = "js" /\ written[i] = "kebab" /\ HasEntry(i) =>
                  written'[i] = Convention[i.to] \/ Ambiguous(i.to)
  <2>1. written' = Rewritten(place, exts)
    BY <1>1, <1>4
  <2>2. Matches(i, place, exts) <=>
          i.in = place /\ i.ext = "js" /\ written[i] = "kebab" /\ HasEntry(i)
    BY <2>1 DEF Matches, HasEntry, exts
  <2>3. CASE Matches(i, place, exts)
    <3>1. /\ i.in = place /\ i.ext \in exts /\ written[i] = "kebab" /\ HasEntry(i)
          /\ Rewritten(place, exts)[i] # "kebab"
          /\ Rewritten(place, exts)[i] = Convention[i.to] \/ Ambiguous(i.to)
      BY <1>1, <2>3, RewrittenIs
    <3> QED BY <2>1, <3>1
  <2>4. CASE ~Matches(i, place, exts)
    <3>1. written'[i] = written[i]
      BY <1>1, <2>1, <2>4, RewrittenIs
    <3> QED BY <2>2, <2>4, <3>1
  <2> QED BY <2>3, <2>4
<1>5. ReplacedKept'
  BY <1>1, <1>2 DEF RenameStrong, ReplacedKept
<1>6. FixedKept'
  <2>1. JsFixed'
    BY <1>1, <1>2 DEF JsFixed, ScriptAt
  <2>2. ASSUME ~script.dry, ~renamePast.restored, NEW i \in Imports, i.ext = "js",
               i.in \in Collected, i.in \notin script'.places, i.to \in script.entries
        PROVE  written'[i] = named[i.to] \/ Ambiguous(i.to)
    <3>1. i.to \in Sources /\ named[i.to] = Convention[i.to]
      BY <1>1, <2>2 DEF RenameStrong, RenameTyped
    <3>2. HasEntry(i)
      BY <2>2 DEF HasEntry
    <3>3. CASE i.in # place
      BY <1>1, <1>2, <1>4, <2>2, <3>3 DEF RenameStrong, FixedKept, Resolves
    <3>4. CASE i.in = place /\ written[i] = "kebab"
      BY <1>4, <2>2, <3>1, <3>2, <3>4
    <3>5. CASE i.in = place /\ written[i] # "kebab"
      BY <1>4, <2>2, <3>1, <3>5 DEF RenameStrong, WrittenKept
    <3> QED BY <3>3, <3>4, <3>5
  <2> QED BY <1>1, <1>2, <2>1, <2>2 DEF FixedKept, Resolves
<1>7. CleanKept'
  <2> SUFFICES ASSUME ~renamePast.broken, ~renamePast.restored PROVE CleanKept'
    BY <1>1 DEF CleanKept
  <2>1. AllNamed /\ ResolvedBut({})
    <3>1. ~Untouched
      <4>1. PICK f \in Sources : head[f] # named[f]
        BY <1>1 DEF RenameStrong, EntriesKept
      <4> QED BY <4>1 DEF Untouched, RenameStrong, RenameTyped
    <3> QED BY <1>1, <3>1 DEF RenameStrong, CleanKept
  <2>2. ASSUME NEW i \in Imports, i.in \in Collected
        PROVE  written'[i] = named[i.to] \/ Ambiguous(i.to)
    <3>1. i.to \in Sources /\ named[i.to] = Convention[i.to]
      BY <2>1, RenameAssumption DEF AllNamed
    <3>2. written[i] = named[i.to] \/ Ambiguous(i.to)
      BY <2>1, <2>2 DEF ResolvedBut, Resolves
    <3> QED BY <1>1, <1>4, <3>1, <3>2
  <2> QED BY <1>1, <1>2, <2>1, <2>2 DEF CleanKept, ResolvedBut, Resolves, AllNamed
<1> QED BY <1>2, <1>3, <1>5, <1>6, <1>7 DEF RenameStrong

\* A script that stops before it ends leaves all or nothing done, unless it was
\* halfway.
LEMMA BreakOffKeeps ==
    ASSUME RenameStrong, BreakOffScript
    PROVE  RenameStrong'
<1>1. /\ EndScript("failed") /\ named' = named /\ head' = head /\ written' = written
      /\ renamePast' = [renamePast EXCEPT !.broken = @ \/ Halfway]
      /\ script.at # "none"
  BY DEF BreakOffScript, ScriptAt
<1>2. /\ renamePast' \in [broken : BOOLEAN, restored : BOOLEAN]
      /\ renamePast'.restored = renamePast.restored
      /\ renamePast'.broken <=> (renamePast.broken \/ Halfway)
  BY <1>1 DEF RenameStrong, RenameTyped, Halfway
<1>3. ASSUME ~renamePast.broken, ~Halfway, ~renamePast.restored
      PROVE  Untouched \/ (AllNamed /\ ResolvedBut({}))
  <2>1. CASE script.at = "fixing" \/ script.dry
    BY <1>3, <2>1 DEF RenameStrong, CleanKept
  <2>2. CASE script.at = "moving" /\ ~script.dry
    <3>1. AllEntries /\ \A i \in Imports : written[i] = "kebab"
      BY <1>3, <2>2 DEF RenameStrong, CleanKept
    <3>2. \A f \in Sources : named[f] = "kebab"
      BY <1>3, <2>2, <3>1 DEF Halfway, AllEntries, RenameStrong, RenameTyped
    <3> QED BY <3>1, <3>2 DEF Untouched
  <2>3. CASE script.at = "updating" /\ ~script.dry
    <3>1. PICK f \in script.entries : f \in Sources
      BY <1>1 DEF RenameStrong, EntriesKept, RenameTyped
    <3>2. named[f] # "kebab"
      BY <1>1, <2>3, <3>1 DEF RenameStrong, EntriesKept, AllNamed
    <3> QED BY <1>3, <2>3, <3>2 DEF Halfway
  <2>4. CASE script.at = "verifying" /\ ~script.dry
    BY <1>3, <2>4 DEF RenameStrong, CleanKept, EntriesKept
  <2> QED BY <1>1, <2>1, <2>2, <2>3, <2>4 DEF RenameStrong, RenameTyped, RenameStages
<1>4. ~renamePast'.broken /\ ~renamePast.restored => Untouched \/ (AllNamed /\ ResolvedBut({}))
  BY <1>2, <1>3
<1> HIDE DEF Halfway
<1> QED BY <1>1, <1>2, <1>4, ScriptEndKeeps

LEMMA VerifyKeeps ==
    ASSUME RenameStrong, Verify
    PROVE  RenameStrong'
<1>1. named' = named /\ head' = head /\ written' = written /\ renamePast' = renamePast
  BY DEF Verify
<1>2. CASE /\ script.at = "updating" /\ script.places = {}
           /\ script' = [script EXCEPT !.at = "verifying"] /\ outcome' = outcome
  <2>1. /\ {"at", "dry", "entries", "todo", "places", "first"} \subseteq DOMAIN script'
        /\ script'.at = "verifying" /\ script'.dry = script.dry
        /\ script'.entries = script.entries /\ script'.places = {}
        /\ script'.first = script.first /\ script'.todo = script.todo
    BY <1>2 DEF RenameStrong, RenameTyped
  <2>2. RenameTyped'
    BY <1>1, <2>1 DEF RenameStrong, RenameTyped, RenameStages
  <2>3. EntriesKept'
    BY <1>1, <1>2, <2>1 DEF RenameStrong, EntriesKept, AllNamed
  <2>4. WrittenKept'
    BY <1>1 DEF RenameStrong, WrittenKept
  <2>5. ReplacedKept'
    BY <1>1, <1>2, <2>1 DEF RenameStrong, ReplacedKept, HasEntry
  <2>6. FixedKept'
    BY <1>1, <2>1 DEF FixedKept, JsFixed, ScriptAt
  <2>7. CleanKept'
    BY <1>1, <1>2, <2>1
       DEF RenameStrong, CleanKept, Untouched, AllNamed, ResolvedBut, Resolves
  <2> QED BY <2>2, <2>3, <2>4, <2>5, <2>6, <2>7 DEF RenameStrong
<1>3. CASE script.at = "verifying" /\ EndScript(CASE script.dry -> "dry"
                                                  [] ~script.dry /\ Stale # {} -> "stale"
                                                  [] OTHER -> "done")
  <2> DEFINE with == CASE script.dry -> "dry" [] ~script.dry /\ Stale # {} -> "stale"
                       [] OTHER -> "done"
  <2>1. with = "stale" => renamePast.restored
    <3> SUFFICES ASSUME ~script.dry, ~renamePast.restored, NEW i \in Stale PROVE FALSE
      OBVIOUS
    <3>1. i \in Imports /\ i.in \in Collected /\ HasEntry(i) /\ written[i] = "kebab"
      BY DEF Stale, Matches, HasEntry
    <3> QED BY <1>3, <3>1 DEF RenameStrong, ReplacedKept, EntriesKept
  <2>2. with # "fixed" /\ EndScript(with)
    BY <1>3
  <2>3. ~renamePast.broken /\ ~renamePast.restored => Untouched \/ (AllNamed /\ ResolvedBut({}))
    BY <1>3 DEF RenameStrong, RenameTyped, CleanKept, EntriesKept
  <2>4. renamePast \in [broken : BOOLEAN, restored : BOOLEAN]
    BY DEF RenameStrong, RenameTyped
  <2> HIDE DEF with
  <2> QED BY <1>1, <2>1, <2>2, <2>3, <2>4, ScriptEndKeeps
<1> QED BY <1>2, <1>3 DEF Verify, ScriptAt

LEMMA FixedEndKeeps ==
    ASSUME RenameStrong, Fixed
    PROVE  RenameStrong'
<1> DEFINE with == IF script.dry THEN "dry" ELSE "fixed"
<1>1. /\ named' = named /\ head' = head /\ written' = written /\ renamePast' = renamePast
      /\ script.at = "fixing" /\ script.places = {} /\ EndScript(with)
      /\ renamePast \in [broken : BOOLEAN, restored : BOOLEAN]
  BY DEF Fixed, ScriptAt, RenameStrong, RenameTyped
<1>2. with # "stale" /\ (with = "fixed" => ~script.dry)
  OBVIOUS
<1>3. with = "fixed" /\ ~renamePast.restored =>
        \A i \in Imports :
          i.ext = "js" /\ i.in \in Collected /\ head[i.to] # named[i.to] =>
              Resolves(i) \/ Ambiguous(i.to)
  BY <1>1, <1>2, RenameAssumption DEF RenameStrong, FixedKept, EntriesKept
<1>4. ~renamePast.broken /\ ~renamePast.restored => Untouched \/ (AllNamed /\ ResolvedBut({}))
  BY <1>1 DEF RenameStrong, CleanKept
<1> HIDE DEF with
<1> QED BY <1>1, <1>2, <1>3, <1>4, ScriptEndKeeps

LEMMA CommitKeeps ==
    ASSUME RenameStrong, GitCommit
    PROVE  RenameStrong'
<1>1. /\ script.at = "none" /\ head' = named /\ named' = named /\ written' = written
      /\ script' = script /\ outcome' = outcome /\ renamePast' = renamePast
  BY DEF GitCommit, ScriptAt
<1>2. RenameTyped'
  BY <1>1 DEF RenameStrong, RenameTyped
<1>3. EntriesKept'
  BY <1>1 DEF EntriesKept
<1>4. WrittenKept'
  BY <1>1 DEF RenameStrong, WrittenKept
<1>5. ReplacedKept'
  BY <1>1 DEF RenameStrong, ReplacedKept, HasEntry
<1>6. FixedKept'
  BY <1>1 DEF FixedKept, JsFixed
<1>7. CleanKept'
  BY <1>1 DEF RenameStrong, CleanKept, Untouched, AllNamed, ResolvedBut, Resolves
<1> QED BY <1>2, <1>3, <1>4, <1>5, <1>6, <1>7 DEF RenameStrong

LEMMA SaveOldKeeps ==
    ASSUME RenameStrong, NEW place \in Places, SaveOldImports(place)
    PROVE  RenameStrong'
<1>1. /\ written' = [i \in Imports |-> IF i.in = place THEN "kebab" ELSE written[i]]
      /\ renamePast' = [renamePast EXCEPT !.restored = TRUE]
      /\ head' = head /\ named' = named /\ script' = script /\ outcome' = outcome
  BY DEF SaveOldImports
<1>2. renamePast' \in [broken : BOOLEAN, restored : BOOLEAN] /\ renamePast'.restored
  BY <1>1 DEF RenameStrong, RenameTyped
<1>3. RenameTyped'
  BY <1>1, <1>2 DEF RenameStrong, RenameTyped
<1>4. EntriesKept'
  BY <1>1 DEF RenameStrong, EntriesKept, AllNamed
<1>5. WrittenKept'
  BY <1>1 DEF RenameStrong, WrittenKept
<1>6. ReplacedKept' /\ FixedKept' /\ CleanKept'
  BY <1>2 DEF ReplacedKept, FixedKept, JsFixed, CleanKept
<1> QED BY <1>3, <1>4, <1>5, <1>6 DEF RenameStrong

LEMMA RenameStep == RenameStrong /\ [RenameNext]_renameVars => RenameStrong'
<1> SUFFICES ASSUME RenameStrong, [RenameNext]_renameVars PROVE RenameStrong'
  OBVIOUS
<1>1. ASSUME UNCHANGED renameVars PROVE RenameStrong'
  BY <1>1 DEF renameVars, RenameStrong, RenameTyped, EntriesKept, AllNamed, WrittenKept,
     ReplacedKept, HasEntry, FixedKept, JsFixed, ScriptAt, Resolves, CleanKept, Untouched,
     ResolvedBut, AllEntries
<1> QED BY <1>1, DiscoverKeeps, ParseKeeps, GitMvKeeps, CollectKeeps, UpdateKeeps, FixKeeps,
           BreakOffKeeps, VerifyKeeps, FixedEndKeeps, CommitKeeps, SaveOldKeeps
           DEF RenameNext

-----------------------------------------------------------------------------
(* Navigation: how far a session still is from a page its guards let it in  *)

\* Redirections that are left, for a session that stays.
FarFrom(here, who) ==
    IF Redirection(here, who).to = here THEN 0
    ELSE IF Redirection(Redirection(here, who).to, who).to = Redirection(here, who).to THEN 1
    ELSE 2

\* The session could enter the page it asked for, and has not lost it.
MayEnterWanted ==
    /\ window.steady /\ ~window.social /\ window.wanted # Nowhere
    /\ signedIn # Guest /\ ~closing
    /\ Redirection(window.wanted, signedIn).to = window.wanted

NavStrong ==
    /\ NavTypeOK
    /\ window.steady => window.hops <= 2
    /\ window.state = "moving" /\ window.steady =>
         window.hops + FarFrom(window.page, signedIn) <= 2
    /\ window.state = "shown" /\ window.steady =>
         Redirection(window.page, signedIn).to = window.page
    /\ window.state \in {"signing", "provider"} => window.page = "/login"
    /\ window.state = "provider" => window.social
    /\ window.back \in AccountPages \cup {Nowhere}
    /\ window.wanted # Nowhere =>
         /\ window.wanted \in AccountPages
         /\ window.page \in AccountPages \cup {"/login", "/account-reactivation"}
         /\ window.page = "/login" => window.back = window.wanted
         /\ window.page = "/account-reactivation" => closing
    /\ window.state \in {"moving", "shown"} /\ MayEnterWanted => window.page = window.wanted

LEMMA NavStrongSuffices == NavStrong => NavInv
<1> SUFFICES ASSUME NavStrong PROVE NavInv
  OBVIOUS
<1>1. ~window.social /\ window.wanted # Nowhere /\ Arrived(window.wanted) =>
        window.page = window.wanted
  BY DEF NavStrong, Arrived, MayEnterWanted
<1> QED BY <1>1 DEF NavInv, NavStrong

LEMMA RequiredIs ==
    /\ Required("/settings/api-keys") = {"api_keys:read"}
    /\ Required("/admin") = {"members:write"} /\ Required("/admin/members") = {"members:write"}
    /\ Required("/admin/users") = {"members:write", "role:superadmin"}
    /\ \A here \in {"/", "/org", "/account-reactivation", "/dashboard", "/settings"} :
         Required(here) = {}
BY DEF Required

Sessions == Visitors \cup {Guest}

\* What the guards do, page by page.
LEMMA RedirectionIs ==
    ASSUME NEW here \in Pages, NEW who \in Sessions
    PROVE  /\ here \in GuestPages =>
                Redirection(here, who) = IF who = Guest THEN Stays(here) ELSE SendTo("/dashboard")
           /\ here \in {"/", "/account-reactivation"} => Redirection(here, who) = Stays(here)
           /\ here = "/org" => Redirection(here, who) = SendTo("/admin")
           /\ here \in AccountPages /\ who = Guest =>
                Redirection(here, who) = [to |-> "/login", back |-> here]
           /\ here \in {"/dashboard", "/settings"} /\ who # Guest =>
                Redirection(here, who) = Stays(here)
           /\ here = "/settings/api-keys" /\ who # Guest =>
                Redirection(here, who) = IF Has(who, "api_keys:read") THEN Stays(here)
                                         ELSE SendTo("/dashboard")
           /\ here \in AdminPages /\ who = Guest => Redirection(here, who) = SendTo("/login")
           /\ here \in AdminPages /\ who # Guest /\ ~Has(who, "members:write") =>
                Redirection(here, who) = SendTo("/dashboard")
           /\ here = "/admin" /\ who # Guest /\ Has(who, "members:write") =>
                Redirection(here, who) = SendTo("/admin/members")
           /\ here = "/admin/members" /\ who # Guest /\ Has(who, "members:write") =>
                Redirection(here, who) = Stays(here)
           /\ here = "/admin/users" /\ who # Guest /\ Has(who, "members:write") =>
                Redirection(here, who) = IF who = "superadmin" THEN Stays(here)
                                         ELSE SendTo("/admin")
<1> DEFINE Barred == \E p \in Required(here) \ {"role:superadmin"} : ~Has(who, p)
          Below == "role:superadmin" \in Required(here) /\ who # "superadmin"
<1>1. /\ here \in {"/", "/org", "/account-reactivation", "/dashboard", "/settings"} =>
           ~Barred /\ ~Below
      /\ here = "/settings/api-keys" => (Barred <=> ~Has(who, "api_keys:read")) /\ ~Below
      /\ here \in AdminPages => (Barred <=> ~Has(who, "members:write"))
      /\ here \in {"/admin", "/admin/members"} => ~Below
      /\ here = "/admin/users" => (Below <=> who # "superadmin")
  BY RequiredIs DEF AdminPages
<1>2. Redirection(here, who) =
        IF here \in GuestPages THEN IF who = Guest THEN Stays(here) ELSE SendTo("/dashboard")
        ELSE IF here = "/org" THEN SendTo("/admin")
        ELSE IF here \in AccountPages /\ who = Guest THEN [to |-> "/login", back |-> here]
        ELSE IF here \in AdminPages /\ who = Guest THEN SendTo("/login")
        ELSE IF Barred THEN SendTo("/dashboard")
        ELSE IF Below THEN SendTo("/admin")
        ELSE IF here = "/admin" THEN SendTo("/admin/members")
        ELSE Stays(here)
  BY DEF Redirection
<1> HIDE DEF Barred, Below
<1>3. CASE here \in GuestPages
  <2>1. Redirection(here, who) = IF who = Guest THEN Stays(here) ELSE SendTo("/dashboard")
    BY <1>2, <1>3
  <2>2. /\ here \notin AccountPages /\ here \notin AdminPages
        /\ here \notin {"/", "/org", "/account-reactivation"}
    BY <1>3 DEF GuestPages, AccountPages, AdminPages
  <2> QED BY <2>1, <2>2 DEF AccountPages, AdminPages
<1>4. CASE here \in {"/", "/account-reactivation", "/org"}
  BY <1>1, <1>2, <1>4 DEF GuestPages, AccountPages, AdminPages
<1>5. CASE here \in AccountPages
  <2>1. here \notin GuestPages /\ here \notin AdminPages
        /\ here \notin {"/", "/org", "/account-reactivation"}
    BY <1>5 DEF GuestPages, AccountPages, AdminPages
  <2>2. who = Guest => Redirection(here, who) = [to |-> "/login", back |-> here]
    BY <1>2, <1>5, <2>1
  <2>3. who # Guest => Redirection(here, who) =
          IF Barred THEN SendTo("/dashboard") ELSE IF Below THEN SendTo("/admin") ELSE Stays(here)
    BY <1>2, <2>1 DEF AdminPages
  <2> QED BY <1>1, <2>1, <2>2, <2>3 DEF AdminPages
<1>6. CASE here \in AdminPages
  <2>1. here \notin GuestPages /\ here \notin AccountPages
        /\ here \notin {"/", "/org", "/account-reactivation"}
    BY <1>6 DEF GuestPages, AccountPages, AdminPages
  <2>2. who = Guest => Redirection(here, who) = SendTo("/login")
    BY <1>2, <1>6, <2>1
  <2>3. who # Guest => Redirection(here, who) =
          IF Barred THEN SendTo("/dashboard") ELSE IF Below THEN SendTo("/admin")
          ELSE IF here = "/admin" THEN SendTo("/admin/members") ELSE Stays(here)
    BY <1>2, <2>1
  <2> QED BY <1>1, <1>6, <2>1, <2>2, <2>3 DEF AccountPages
<1> QED BY <1>3, <1>4, <1>5, <1>6 DEF Pages

\* Two redirections at most: the guards send to pages from which nobody, or one
\* other guard, sends on.
LEMMA GuardsEnd ==
    ASSUME NEW here \in Pages, NEW who \in Sessions
    PROVE  LET r == Redirection(here, who) IN
           /\ r.to \in Pages /\ r.back \in {Nowhere, here}
           /\ r.back # Nowhere => here \in AccountPages /\ r.to = "/login"
           /\ r.to = "/login" /\ here # "/login" => who = Guest
           /\ r.to = "/login" /\ here \in AccountPages => r.back = here
           /\ here = "/account-reactivation" => r.to = here
           /\ here \in AccountPages \cup {"/login"} => r.to \in {here, "/login", "/dashboard"}
           /\ FarFrom(here, who) \in 0..2
           /\ r.to # here => FarFrom(r.to, who) + 1 <= FarFrom(here, who)
<1> DEFINE r == Redirection(here, who)
<1>1. /\ r.to \in Pages /\ r.back \in {Nowhere, here}
      /\ r.back # Nowhere => here \in AccountPages /\ r.to = "/login"
      /\ r.to = "/login" /\ here # "/login" => who = Guest
      /\ r.to = "/login" /\ here \in AccountPages => r.back = here
      /\ here = "/account-reactivation" => r.to = here
      /\ here \in AccountPages \cup {"/login"} => r.to \in {here, "/login", "/dashboard"}
  BY RedirectionIs
     DEF Stays, SendTo, Pages, GuestPages, AccountPages, AdminPages, Nowhere, Guest
<1>2. FarFrom(here, who) \in 0..2
  BY DEF FarFrom
<1>3. ASSUME r.to # here PROVE FarFrom(r.to, who) + 1 <= FarFrom(here, who)
  <2>1. CASE who = Guest
    <3>1. r.to \in {"/login", "/admin"} /\ (r.to = "/admin" => here = "/org")
      BY <1>3, <2>1, RedirectionIs
         DEF Stays, SendTo, Pages, GuestPages, AccountPages, AdminPages
    <3>2. /\ Redirection("/login", who).to = "/login" /\ Redirection("/admin", who).to = "/login"
      BY <2>1, RedirectionIs DEF Stays, SendTo, Pages, GuestPages, AdminPages
    <3> QED BY <1>3, <3>1, <3>2 DEF FarFrom
  <2>2. CASE who # Guest
    <3>1. /\ r.to \in {"/dashboard", "/admin", "/admin/members"}
          /\ r.to = "/admin/members" => Has(who, "members:write")
      BY <1>3, <2>2, RedirectionIs
         DEF Stays, SendTo, Pages, GuestPages, AccountPages, AdminPages
    <3>2. /\ Redirection("/dashboard", who).to = "/dashboard"
          /\ Has(who, "members:write") =>
               /\ Redirection("/admin/members", who).to = "/admin/members"
               /\ Redirection("/admin", who).to = "/admin/members"
          /\ ~Has(who, "members:write") => Redirection("/admin", who).to = "/dashboard"
      BY <2>2, RedirectionIs DEF Stays, SendTo, Pages, AccountPages, AdminPages
    <3> QED BY <1>3, <3>1, <3>2 DEF FarFrom
  <2> QED BY <2>1, <2>2
<1> HIDE DEF r
<1> QED BY <1>1, <1>2, <1>3 DEF r

Windows ==
    [state : {"shown", "moving", "signing", "provider"}, page : Pages, hops : 0..MaxHops,
     back : Pages \cup {Nowhere}, wanted : Pages \cup {Nowhere}, social : BOOLEAN,
     steady : BOOLEAN]

\* What a browser window is.
LEMMA TypeOf ==
    ASSUME NavStrong
    PROVE  /\ signedIn \in Sessions /\ closing \in BOOLEAN
           /\ window \in Windows
           /\ storedRedirect \in Pages \cup {Nowhere}
BY DEF NavStrong, NavTypeOK, Sessions, Windows

LEMMA MovingIs ==
    ASSUME NavStrong, NEW to \in Pages
    PROVE  /\ Moving(to) \in Windows
           /\ Moving(to).state = "moving" /\ Moving(to).page = to /\ Moving(to).hops = 0
           /\ Moving(to).back = Nowhere /\ Moving(to).steady = TRUE
           /\ Moving(to).wanted = window.wanted /\ Moving(to).social = window.social
<1>1. window \in Windows /\ 0 \in 0..MaxHops
  BY TypeOf, NavAssumption
<1> QED BY <1>1 DEF Moving, Windows

LEMMA ElsewhereIs ==
    ASSUME NavStrong, NEW to \in Pages
    PROVE  /\ Elsewhere(to) \in Windows
           /\ Elsewhere(to).state = "moving" /\ Elsewhere(to).page = to
           /\ Elsewhere(to).hops = 0 /\ Elsewhere(to).back = Nowhere
           /\ Elsewhere(to).steady = TRUE /\ Elsewhere(to).wanted = Nowhere
<1> DEFINE m == Moving(to)
<1>1. m \in Windows /\ m.state = "moving" /\ m.page = to /\ m.hops = 0
      /\ m.back = Nowhere /\ m.steady = TRUE
  BY MovingIs
<1>2. Elsewhere(to) = [m EXCEPT !.wanted = Nowhere, !.social = FALSE]
  BY DEF Elsewhere
<1> HIDE DEF m
<1> QED BY <1>1, <1>2 DEF Windows

LEMMA NavBegins == NavInit => NavStrong
<1> SUFFICES ASSUME NavInit PROVE NavStrong
  OBVIOUS
<1>1. NavTypeOK
  <2>1. "/" \in Pages /\ Nowhere \notin {} /\ 0 \in 0..MaxHops
    BY NavAssumption DEF Pages
  <2> QED BY <2>1 DEF NavInit, NavTypeOK
<1>2. Redirection("/", signedIn).to = "/"
  BY RedirectionIs DEF NavInit, Sessions, Pages, Stays
<1> QED BY <1>1, <1>2 DEF NavInit, NavStrong, MayEnterWanted

\* A new navigation begins, to a page nobody was asked to sign in for.
LEMMA ElsewhereKeeps ==
    ASSUME NavStrong, NEW to \in Pages, window' = Elsewhere(to),
           signedIn' \in Sessions, closing' \in BOOLEAN, storedRedirect' \in Pages \cup {Nowhere}
    PROVE  NavStrong'
<1> DEFINE w == Elsewhere(to)
<1>2. /\ w \in Windows /\ w.state = "moving" /\ w.page = to /\ w.hops = 0
      /\ w.back = Nowhere /\ w.wanted = Nowhere /\ w.steady = TRUE
  BY ElsewhereIs
<1>3. NavTypeOK'
  BY <1>2 DEF NavTypeOK, Sessions, Windows
<1>4. FarFrom(to, signedIn') \in 0..2
  BY GuardsEnd
<1> HIDE DEF w
<1>5. window' = w
  BY DEF w
<1>6. ~MayEnterWanted'
  BY <1>2, <1>5 DEF MayEnterWanted
<1> QED BY <1>2, <1>3, <1>4, <1>5, <1>6 DEF NavStrong

LEMMA BeforeLoadKeeps ==
    ASSUME NavStrong, NEW who \in Sessions, BeforeLoad(who)
    PROVE  NavStrong'
<1> DEFINE r == Redirection(window.page, who)
           still == window.steady /\ who = signedIn
<1>1. /\ window.state = "moving" /\ who \in {signedIn, Guest}
      /\ signedIn' = signedIn /\ closing' = closing /\ storedRedirect' = storedRedirect
      /\ window.page \in Pages /\ window.hops \in 0..MaxHops
      /\ still \in BOOLEAN
  BY TypeOf DEF BeforeLoad, Windows
<1>2. /\ r.to \in Pages /\ r.back \in {Nowhere, window.page}
      /\ r.back # Nowhere => window.page \in AccountPages /\ r.to = "/login"
      /\ r.to = "/login" /\ window.page # "/login" => who = Guest
      /\ r.to = "/login" /\ window.page \in AccountPages => r.back = window.page
      /\ window.page = "/account-reactivation" => r.to = window.page
      /\ window.page \in AccountPages \cup {"/login"} =>
           r.to \in {window.page, "/login", "/dashboard"}
      /\ FarFrom(window.page, who) \in 0..2
      /\ r.to # window.page => FarFrom(r.to, who) + 1 <= FarFrom(window.page, who)
      /\ FarFrom(r.to, who) \in 0..2
  BY <1>1, GuardsEnd
<1>3. CASE r.to = window.page /\ window' = [window EXCEPT !.state = "shown", !.steady = still]
  <2>1. /\ window' \in Windows
        /\ window'.state = "shown" /\ window'.steady = still
        /\ window'.page = window.page /\ window'.hops = window.hops
        /\ window'.back = window.back /\ window'.wanted = window.wanted
        /\ window'.social = window.social
    BY <1>1, <1>3, TypeOf DEF Windows
  <2>2. window'.steady => Redirection(window'.page, signedIn').to = window'.page
    BY <1>1, <1>3, <2>1
  <2>3. MayEnterWanted' => window'.page = window'.wanted
    BY <1>1, <2>1 DEF NavStrong, MayEnterWanted
  <2>4. NavTypeOK'
    BY <1>1, <2>1 DEF NavStrong, NavTypeOK, Windows
  <2> QED BY <1>1, <2>1, <2>2, <2>3, <2>4 DEF NavStrong
<1>4. CASE /\ r.to # window.page /\ window.hops < MaxHops
           /\ window' = [window EXCEPT
                !.page = r.to, !.back = r.back, !.hops = @ + 1, !.steady = still,
                !.wanted = IF r.back # Nowhere THEN r.back ELSE @]
  <2> DEFINE wish == IF r.back # Nowhere THEN r.back ELSE window.wanted
  <2>0. wish \in Pages \cup {Nowhere} /\ window.hops + 1 \in 0..MaxHops
        /\ r.back \in Pages \cup {Nowhere}
    BY <1>1, <1>2, <1>4, NavAssumption, TypeOf DEF Windows
  <2>1. window' = [window EXCEPT !.page = r.to, !.back = r.back, !.hops = window.hops + 1,
                                 !.steady = still, !.wanted = wish]
    BY <1>4
  <2> HIDE DEF wish, r, still
  <2>2. /\ window' \in Windows
        /\ window'.state = "moving" /\ window'.steady = still
        /\ window'.page = r.to /\ window'.hops = window.hops + 1
        /\ window'.back = r.back /\ window'.wanted = wish
        /\ window'.social = window.social
    BY <1>1, <1>2, <2>0, <2>1, TypeOf DEF Windows
  <2>3. NavTypeOK'
    BY <1>1, <2>2 DEF NavStrong, NavTypeOK, Windows
  <2>4. still => window'.hops + FarFrom(window'.page, signedIn') <= 2 /\ window'.hops <= 2
    BY <1>1, <1>2, <1>4, <2>2, TypeOf DEF NavStrong, still, Windows
  <2>5. window'.wanted # Nowhere =>
          /\ window'.wanted \in AccountPages
          /\ window'.page \in AccountPages \cup {"/login", "/account-reactivation"}
          /\ window'.page = "/login" => window'.back = window'.wanted
          /\ window'.page = "/account-reactivation" => closing'
    <3>1. CASE r.back # Nowhere
      BY <1>1, <1>2, <2>2, <3>1 DEF wish
    <3>2. CASE r.back = Nowhere
      BY <1>1, <1>2, <1>4, <2>2, <3>2 DEF wish, NavStrong, AccountPages, Nowhere
    <3> QED BY <3>1, <3>2
  <2>6. MayEnterWanted' => window'.page = window'.wanted
    <3> SUFFICES ASSUME MayEnterWanted' PROVE window'.page = window'.wanted
      OBVIOUS
    <3>1. window.steady /\ who = signedIn /\ who # Guest
      BY <1>1, <2>2 DEF MayEnterWanted, still
    <3>2. r.back = Nowhere
      BY <1>2, <3>1 DEF AccountPages
    <3>3. MayEnterWanted
      BY <1>1, <2>2, <3>1, <3>2 DEF MayEnterWanted, wish
    <3>4. window.page = window.wanted
      BY <1>1, <3>3 DEF NavStrong
    <3> QED BY <1>4, <3>1, <3>3, <3>4 DEF MayEnterWanted, r
  <2>7. window'.back \in AccountPages \cup {Nowhere}
    BY <1>2, <2>2
  <2> QED BY <2>2, <2>3, <2>4, <2>5, <2>6, <2>7 DEF NavStrong
<1> QED BY <1>3, <1>4 DEF BeforeLoad

LEMMA SignInBegins ==
    ASSUME NavStrong, AtLogin, window' \in Windows, window'.state \in {"signing", "provider"},
           window'.state = "provider" => window'.social,
           window'.page = window.page, window'.hops = window.hops, window'.back = window.back,
           window'.wanted = window.wanted, window'.steady = window.steady,
           signedIn' \in Sessions, closing' \in BOOLEAN, storedRedirect' \in Pages \cup {Nowhere}
    PROVE  NavStrong'
<1>1. window.state = "shown" /\ window.page = "/login"
  BY DEF AtLogin
<1>2. NavTypeOK'
  BY DEF NavTypeOK, Sessions, Windows
<1> QED BY <1>1, <1>2 DEF NavStrong

\* The navigation after signing in: to the page that asked for it, if one did.
LEMMA SignInEnds ==
    ASSUME NavStrong, NEW to \in Pages, window.page = "/login",
           window' = Moving(to), signedIn' \in Sessions, closing' \in BOOLEAN,
           storedRedirect' = storedRedirect,
           to = "/account-reactivation" => closing',
           to # "/account-reactivation" => to = window.back \/ window.back = Nowhere
    PROVE  NavStrong'
<1>1. /\ window' \in Windows /\ window'.state = "moving" /\ window'.page = to
      /\ window'.hops = 0 /\ window'.back = Nowhere /\ window'.steady = TRUE
      /\ window'.wanted = window.wanted
  BY MovingIs
<1>2. NavTypeOK'
  BY <1>1, TypeOf DEF NavTypeOK, Sessions, Windows
<1>3. FarFrom(to, signedIn') \in 0..2
  BY GuardsEnd
<1>4. window.wanted # Nowhere => window.back = window.wanted
  BY DEF NavStrong
<1>5. window.wanted # Nowhere =>
        /\ to \in AccountPages \cup {"/account-reactivation"}
        /\ to = "/account-reactivation" \/ to = window.wanted
  BY <1>4 DEF NavStrong
<1> QED BY <1>1, <1>2, <1>3, <1>4, <1>5 DEF NavStrong, MayEnterWanted, AccountPages

LEMMA ProviderReturnsKeeps ==
    ASSUME NavStrong, NEW who \in Visitors, ProviderReturns(who)
    PROVE  NavStrong'
<1>1. /\ window.page = "/login" /\ signedIn' \in Sessions /\ closing' \in BOOLEAN
      /\ storedRedirect' = storedRedirect /\ "/login" \in Pages /\ "/" \in Pages
  BY DEF ProviderReturns, NavStrong, Sessions, Pages, GuestPages
<1>2. CASE window.back = Nowhere
  <2>1. window' = Moving("/") /\ window.wanted = Nowhere
    BY <1>1, <1>2 DEF ProviderReturns, NavStrong
  <2>2. /\ window' \in Windows /\ window'.state = "moving" /\ window'.page = "/"
        /\ window'.hops = 0 /\ window'.back = Nowhere /\ window'.steady = TRUE
        /\ window'.wanted = Nowhere
    BY <1>1, <2>1, MovingIs
  <2>3. NavTypeOK'
    BY <1>1, <2>2, TypeOf DEF NavTypeOK, Sessions, Windows
  <2>4. FarFrom("/", signedIn') \in 0..2
    BY <1>1, GuardsEnd
  <2> QED BY <2>2, <2>3, <2>4 DEF NavStrong, MayEnterWanted
<1>3. CASE window.back # Nowhere
  <2> DEFINE m == Moving("/login")
  <2>1. /\ m \in Windows /\ m.state = "moving" /\ m.page = "/login" /\ m.hops = 0
        /\ m.steady = TRUE /\ m.wanted = window.wanted /\ m.social = window.social
        /\ window' = [m EXCEPT !.back = window.back]
    BY <1>1, <1>3, MovingIs DEF ProviderReturns
  <2> HIDE DEF m
  <2>2. /\ window' \in Windows /\ window'.state = "moving" /\ window'.page = "/login"
        /\ window'.hops = 0 /\ window'.back = window.back /\ window'.steady = TRUE
        /\ window'.wanted = window.wanted /\ window'.social = window.social
    BY <2>1, TypeOf DEF Windows
  <2>3. NavTypeOK'
    BY <1>1, <2>2, TypeOf DEF NavTypeOK, Sessions, Windows
  <2>4. FarFrom("/login", signedIn') \in 0..2
    BY <1>1, GuardsEnd
  <2>5. ~MayEnterWanted'
    <3>1. window.social
      BY DEF ProviderReturns, NavStrong
    <3> QED BY <2>2, <3>1 DEF MayEnterWanted
  <2> QED BY <1>1, <2>2, <2>3, <2>4, <2>5 DEF NavStrong
<1> QED BY <1>2, <1>3

LEMMA SessionChangesKeeps ==
    ASSUME NavStrong, NEW who \in Sessions, SessionChanges(who)
    PROVE  NavStrong'
<1>1. /\ window' \in Windows /\ window'.state = window.state /\ window'.page = window.page
      /\ window'.back = window.back /\ window'.wanted = window.wanted /\ ~window'.steady
      /\ window'.social = window.social
      /\ signedIn' = who /\ closing' = closing /\ storedRedirect' = storedRedirect
  BY TypeOf DEF SessionChanges, Windows
<1>2. NavTypeOK'
  BY <1>1, TypeOf DEF NavTypeOK, Sessions, Windows
<1> QED BY <1>1, <1>2 DEF NavStrong, MayEnterWanted

LEMMA NavStep == NavStrong /\ [NavNext]_navVars => NavStrong'
<1> SUFFICES ASSUME NavStrong, [NavNext]_navVars PROVE NavStrong'
  OBVIOUS
<1>0. /\ signedIn \in Sessions /\ closing \in BOOLEAN /\ window \in Windows
      /\ storedRedirect \in Pages \cup {Nowhere}
      /\ Guest \in Sessions /\ Visitors \subseteq Sessions /\ Nowhere \in Pages \cup {Nowhere}
      /\ {"/", "/login", "/dashboard", "/account-reactivation"} \subseteq Pages
  BY TypeOf DEF Sessions, Pages, GuestPages, AccountPages
<1>1. ASSUME UNCHANGED navVars PROVE NavStrong'
  BY <1>1 DEF navVars, NavStrong, NavTypeOK, MayEnterWanted
<1>2. ASSUME TakeStored PROVE NavStrong'
  <2>1. CASE storedRedirect = "/dashboard"
    <3>1. window' = window /\ signedIn' = signedIn /\ closing' = closing
          /\ storedRedirect' = Nowhere
      BY <1>2, <2>1 DEF TakeStored
    <3> QED BY <3>1 DEF NavStrong, NavTypeOK, MayEnterWanted
  <2>2. CASE storedRedirect # "/dashboard"
    <3>1. window' = Elsewhere(storedRedirect) /\ storedRedirect \in Pages
          /\ signedIn' = signedIn /\ closing' = closing /\ storedRedirect' = Nowhere
      BY <1>0, <1>2, <2>2 DEF TakeStored
    <3> QED BY <1>0, <3>1, ElsewhereKeeps
  <2> QED BY <2>1, <2>2
<1>3. ASSUME SignInWithProvider PROVE NavStrong'
  <2>1. storedRedirect' \in Pages \cup {Nowhere}
    BY <1>0, <1>3 DEF SignInWithProvider, Windows
  <2>2. /\ window' \in Windows /\ window'.state = "provider" /\ window'.social
        /\ window'.page = window.page /\ window'.hops = window.hops
        /\ window'.back = window.back /\ window'.wanted = window.wanted
        /\ window'.steady = window.steady
    BY <1>0, <1>3 DEF SignInWithProvider, Windows
  <2> QED BY <1>0, <1>3, <2>1, <2>2, SignInBegins DEF SignInWithProvider
<1>4. ASSUME NEW who \in Visitors, SignInByPassword(who) PROVE NavStrong'
  <2>1. /\ window' \in Windows /\ window'.state = "signing"
        /\ window'.page = window.page /\ window'.hops = window.hops
        /\ window'.back = window.back /\ window'.wanted = window.wanted
        /\ window'.steady = window.steady
    BY <1>0, <1>4 DEF SignInByPassword, Windows
  <2> QED BY <1>0, <1>4, <2>1, SignInBegins DEF SignInByPassword
<1>5. ASSUME DeletionCheck PROVE NavStrong'
  BY <1>0, <1>5, ElsewhereKeeps DEF DeletionCheck
<1>6. ASSUME Reactivated PROVE NavStrong'
  BY <1>0, <1>6, ElsewhereKeeps DEF Reactivated
<1>7. ASSUME DeleteAccount PROVE NavStrong'
  BY <1>0, <1>7, ElsewhereKeeps DEF DeleteAccount
<1>8. ASSUME NEW to \in Pages, Visit(to) PROVE NavStrong'
  BY <1>0, <1>8, ElsewhereKeeps DEF Visit
<1>9. ASSUME NEW to \in Pages, SignOutFrom(to) PROVE NavStrong'
  BY <1>0, <1>9, ElsewhereKeeps DEF SignOutFrom
<1>10. ASSUME NEW known \in BOOLEAN, SignInSuccess(known) PROVE NavStrong'
  <2>1. /\ window.page = "/login" /\ signedIn' = signedIn /\ closing' = closing
        /\ storedRedirect' = storedRedirect
    BY <1>10 DEF SignInSuccess, NavStrong
  <2>2. CASE known /\ closing
    <3>1. window' = Moving("/account-reactivation")
      BY <1>10, <2>2 DEF SignInSuccess
    <3> QED BY <1>0, <2>1, <2>2, <3>1, SignInEnds
  <2>3. CASE ~(known /\ closing) /\ window.back = Nowhere
    <3>1. window' = Moving("/dashboard") /\ "/dashboard" # "/account-reactivation"
      BY <1>10, <2>3 DEF SignInSuccess
    <3> QED BY <1>0, <2>1, <2>3, <3>1, SignInEnds
  <2>4. CASE ~(known /\ closing) /\ window.back # Nowhere
    <3>1. window' = Moving(window.back) /\ window.back \in Pages
      BY <1>0, <1>10, <2>4 DEF SignInSuccess, Windows
    <3>2. window.back # "/account-reactivation"
      BY <2>4 DEF NavStrong, AccountPages
    <3> QED BY <1>0, <2>1, <3>1, <3>2, SignInEnds
  <2> QED BY <2>2, <2>3, <2>4
<1> QED BY <1>0, <1>1, <1>2, <1>3, <1>4, <1>5, <1>6, <1>7, <1>8, <1>9, <1>10, BeforeLoadKeeps,
           ProviderReturnsKeeps, SessionChangesKeeps DEF NavNext, Sessions

-----------------------------------------------------------------------------
(* AdminForms: what a form and a request know of the row they are about      *)

FormStates == {"closed", "open", "confirming"}
Forms == [state : FormStates, values : RowsOf(editing.kind),
          edited : SUBSET EditFields, stale : SUBSET EditFields]
Requests == [state : {"sent"}, values : RowsOf(editing.kind),
             edited : SUBSET EditFields, stale : SUBSET EditFields, confirmed : BOOLEAN]

\* The administrator edits himself on the page of users.
OwnRow == editing.self /\ editing.kind = "user"

\* A field is as it is in the row r, or was edited, or others wrote it.
Tells(x, r) == \A f \in EditFields : f \in x.edited \cup x.stale \/ x.values[f] = r[f]

FormKept(e, r) == e # Unmounted => e \in Forms /\ Tells(e, r)

\* A request that was not confirmed demotes nobody.
RequestKept(u, r) ==
    /\ u.state \in {"none", "sent", "done", "refused"}
    /\ u.state = "sent" =>
         /\ u \in Requests /\ Tells(u, r)
         /\ OwnRow /\ ~u.confirmed => Superadmin(u.values)

FormsStrong ==
    /\ editing \in [kind : Kinds, self : BOOLEAN]
    /\ row \in RowsOf(editing.kind)
    /\ others \in BOOLEAN /\ online \in BOOLEAN
    /\ fetched \in [row : RowsOf(editing.kind), last : BOOLEAN]
    /\ FormKept(editor, row) /\ RequestKept(update, row)
    /\ editing.kind = "member" => editor # Unmounted
    /\ OwnRow => Superadmin(fetched.row) /\ (online => Superadmin(row))

LEMMA RowWritten ==
    ASSUME NEW kind \in Kinds, NEW r \in RowsOf(kind), NEW f \in FieldsOf(kind),
           NEW v \in FieldValues(f)
    PROVE  /\ [r EXCEPT ![f] = v] \in RowsOf(kind)
           /\ [r EXCEPT ![f] = v][f] = v
           /\ \A g \in FieldsOf(kind) \ {f} : [r EXCEPT ![f] = v][g] = r[g]
<1>1. v \in Texts \cup {"user", "superadmin"}
  BY DEF FieldValues
<1> QED BY <1>1 DEF RowsOf

LEMMA CapturedIs ==
    ASSUME FormsStrong, NEW state \in FormStates
    PROVE  /\ Captured(state) \in Forms /\ Tells(Captured(state), row)
           /\ Captured(state) # Unmounted /\ Captured(state).state = state
<1>1. fetched.row \in RowsOf(editing.kind)
  BY DEF FormsStrong
<1>2. Captured(state) \in Forms
  BY <1>1 DEF Captured, Forms
<1>3. Tells(Captured(state), row)
  BY DEF Tells, Captured
<1>4. Captured(state) # Unmounted
  <2>1. DOMAIN Captured(state) # DOMAIN Unmounted
    BY DEF Captured, Unmounted
  <2> QED BY <2>1
<1> QED BY <1>2, <1>3, <1>4 DEF Captured

LEMMA FormsBegin == FormsInit => FormsStrong
<1> SUFFICES ASSUME FormsInit PROVE FormsStrong
  OBVIOUS
<1>1. fetched.row = row /\ fetched \in [row : RowsOf(editing.kind), last : BOOLEAN]
  BY DEF FormsInit
<1>2. FormKept(editor, row) /\ (editing.kind = "member" => editor # Unmounted)
  <2>1. CASE editing.kind # "member"
    BY <2>1 DEF FormsInit, WhenClosed, FormKept
  <2>2. CASE editing.kind = "member"
    <3> DEFINE c == Captured("closed")
    <3>1. editor = c
      BY <2>2 DEF FormsInit, WhenClosed
    <3>2. c \in Forms /\ Tells(c, row) /\ DOMAIN c # DOMAIN Unmounted
      BY <1>1 DEF FormsInit, Captured, Forms, FormStates, Tells, Unmounted
    <3> HIDE DEF c
    <3>3. c # Unmounted
      BY <3>2
    <3> QED BY <3>1, <3>2, <3>3 DEF FormKept
  <2> QED BY <2>1, <2>2
<1>3. RequestKept(update, row)
  BY DEF FormsInit, NoUpdate, RequestKept
<1> QED BY <1>1, <1>2, <1>3 DEF FormsInit, FormsStrong, OwnRow

\* A step of the page: it writes no row, and what form and request say is true
\* of the row.
LEMMA PageKeeps ==
    ASSUME FormsStrong, editing' = editing, row' = row, others' = others, online' = online,
           fetched' = fetched, FormKept(editor', row), RequestKept(update', row),
           editing.kind = "member" => editor' # Unmounted
    PROVE  FormsStrong'
BY DEF FormsStrong, FormKept, RequestKept, Forms, Requests, Tells, EditFields, OwnRow,
       Superadmin

LEMMA RefetchRowKeeps ==
    ASSUME FormsStrong, RefetchRow
    PROVE  FormsStrong'
<1>1. /\ editing' = editing /\ row' = row /\ others' = others /\ online' = online /\ online
      /\ editor' = editor /\ update' = update
      /\ fetched' = [row |-> row, last |-> Last]
  BY DEF RefetchRow
<1>2. Last \in BOOLEAN
  BY DEF Last
<1>3. fetched'.row = row /\ fetched' \in [row : RowsOf(editing.kind), last : BOOLEAN]
  BY <1>1, <1>2 DEF FormsStrong
<1> QED BY <1>1, <1>3 DEF FormsStrong, FormKept, RequestKept, Forms, Requests, Tells,
           EditFields, OwnRow, Superadmin

\* An editor that is open, or asks, is one with values.
LEMMA EditorIs ==
    ASSUME FormsStrong, editor.state # "closed" \/ editing.kind = "member"
    PROVE  editor # Unmounted /\ editor \in Forms /\ Tells(editor, row)
BY DEF FormsStrong, FormKept, Unmounted

\* The editor has another state, and the same values.
LEMMA StateTurns ==
    ASSUME FormsStrong, editor \in Forms, Tells(editor, row), NEW state \in FormStates
    PROVE  /\ [editor EXCEPT !.state = state] \in Forms
           /\ Tells([editor EXCEPT !.state = state], row)
           /\ [editor EXCEPT !.state = state] # Unmounted
<1> DEFINE e == [editor EXCEPT !.state = state]
<1>1. /\ e \in Forms /\ e.values = editor.values /\ e.edited = editor.edited
      /\ e.stale = editor.stale /\ DOMAIN e # DOMAIN Unmounted
  BY DEF Forms, Unmounted
<1> HIDE DEF e
<1>2. Tells(e, row)
  BY <1>1 DEF Tells
<1>3. e # Unmounted
  BY <1>1
<1> QED BY <1>1, <1>2, <1>3 DEF e

LEMMA OpenKeeps ==
    ASSUME FormsStrong, OpenEditor
    PROVE  FormsStrong'
<1>1. /\ editing' = editing /\ row' = row /\ others' = others /\ online' = online
      /\ fetched' = fetched /\ update' = update /\ RequestKept(update', row)
      /\ "open" \in FormStates
  BY DEF OpenEditor, FormsStrong, FormStates
<1>2. CASE editor' = Captured("open")
  BY <1>1, <1>2, CapturedIs, PageKeeps DEF FormKept
<1>3. CASE editing.kind = "member" /\ editor' = [editor EXCEPT !.state = "open"]
  BY <1>1, <1>3, EditorIs, StateTurns, PageKeeps DEF FormKept
<1> QED BY <1>2, <1>3 DEF OpenEditor

LEMMA TypeInKeeps ==
    ASSUME FormsStrong, NEW f \in EditFields, NEW v \in FieldValues(f), TypeIn(f, v)
    PROVE  FormsStrong'
<1> DEFINE vals == [editor.values EXCEPT ![f] = v]
          typed == editor.edited \cup {f}
          e == [editor EXCEPT !.values = vals, !.edited = typed]
<1>1. /\ editing' = editing /\ row' = row /\ others' = others /\ online' = online
      /\ fetched' = fetched /\ update' = update /\ RequestKept(update', row)
      /\ editor.state = "open" /\ editor' = e
  BY DEF TypeIn, FormsStrong
<1>2. editor \in Forms /\ Tells(editor, row)
  BY <1>1, EditorIs
<1>3. /\ vals \in RowsOf(editing.kind)
      /\ \A g \in EditFields \ {f} : vals[g] = editor.values[g]
  <2>1. editing.kind \in Kinds /\ editor.values \in RowsOf(editing.kind)
    BY <1>2 DEF FormsStrong, Forms
  <2> QED BY <2>1, RowWritten DEF EditFields
<1>0. typed \in SUBSET EditFields
  BY <1>2 DEF Forms
<1> HIDE DEF vals, typed
<1>4. /\ e \in Forms /\ e.values = vals /\ e.edited = typed
      /\ e.stale = editor.stale
  BY <1>0, <1>2, <1>3 DEF Forms
<1> HIDE DEF e
<1>5. Tells(e, row)
  BY <1>2, <1>3, <1>4 DEF Tells, typed
<1>6. e # Unmounted
  BY <1>4 DEF Forms, Unmounted
<1> QED BY <1>1, <1>4, <1>5, <1>6, PageKeeps DEF FormKept

LEMMA CancelKeeps ==
    ASSUME FormsStrong, CancelEdit
    PROVE  FormsStrong'
<1>1. /\ editing' = editing /\ row' = row /\ others' = others /\ online' = online
      /\ fetched' = fetched /\ update' = update /\ RequestKept(update', row)
      /\ editor' = WhenClosed(Captured("closed")) /\ "closed" \in FormStates
  BY DEF CancelEdit, FormsStrong, FormStates
<1>2. FormKept(editor', row) /\ (editing.kind = "member" => editor' # Unmounted)
  BY <1>1, CapturedIs DEF WhenClosed, FormKept
<1> QED BY <1>1, <1>2, PageKeeps

\* A request that is sent says of the row what the form says.
LEMMA SendKeeps ==
    ASSUME FormsStrong, editor \in Forms, Tells(editor, row), NEW confirmed \in BOOLEAN,
           Send(confirmed), OwnRow /\ ~confirmed => Superadmin(editor.values)
    PROVE  RequestKept(update', row)
<1> DEFINE u == [state |-> "sent", values |-> editor.values, edited |-> editor.edited,
                stale |-> editor.stale, confirmed |-> confirmed]
<1>1. /\ u.state = "sent" /\ u.values = editor.values /\ u.edited = editor.edited
      /\ u.stale = editor.stale /\ (u.confirmed <=> confirmed) /\ u \in Requests
  BY DEF Forms, Requests
<1>2. update' = u
  BY DEF Send
<1> HIDE DEF u
<1>3. Tells(u, row)
  BY <1>1 DEF Tells
<1> QED BY <1>1, <1>2, <1>3 DEF RequestKept

LEMMA SubmitKeeps ==
    ASSUME FormsStrong, SubmitEdit
    PROVE  FormsStrong'
<1>1. /\ editing' = editing /\ row' = row /\ others' = others /\ online' = online
      /\ fetched' = fetched /\ RequestKept(update, row) /\ FormKept(editor, row)
      /\ editor.state = "open" /\ "confirming" \in FormStates
  BY DEF SubmitEdit, FormsStrong, FormStates
<1>2. editor \in Forms /\ Tells(editor, row) /\ editor # Unmounted
  BY <1>1, EditorIs
<1>3. CASE SelfDemotion
  <2>1. editor' = [editor EXCEPT !.state = "confirming"] /\ update' = update
    BY <1>3 DEF SubmitEdit
  <2> QED BY <1>1, <1>2, <2>1, StateTurns, PageKeeps DEF FormKept
<1>4. CASE ~SelfDemotion
  <2>1. Send(FALSE) /\ editor' = editor
    BY <1>4 DEF SubmitEdit
  <2>2. OwnRow => Superadmin(editor.values)
    BY <1>4 DEF SelfDemotion, FormsStrong, OwnRow
  <2>3. RequestKept(update', row)
    BY <1>2, <2>1, <2>2, SendKeeps
  <2> QED BY <1>1, <1>2, <2>1, <2>3, PageKeeps DEF FormKept
<1> QED BY <1>3, <1>4

LEMMA ConfirmKeeps ==
    ASSUME FormsStrong, ConfirmEdit
    PROVE  FormsStrong'
<1>1. /\ editing' = editing /\ row' = row /\ others' = others /\ online' = online
      /\ fetched' = fetched /\ RequestKept(update, row)
      /\ editor.state = "confirming" /\ "open" \in FormStates
      /\ editor' = [editor EXCEPT !.state = "open"]
  BY DEF ConfirmEdit, FormsStrong, FormStates
<1>2. editor \in Forms /\ Tells(editor, row) /\ editor # Unmounted
  BY <1>1, EditorIs
<1>3. RequestKept(update', row)
  <2>1. CASE Send(TRUE)
    BY <1>2, <2>1, SendKeeps
  <2>2. CASE update' = update
    BY <1>1, <2>2
  <2> QED BY <2>1, <2>2 DEF ConfirmEdit
<1> QED BY <1>1, <1>2, <1>3, StateTurns, PageKeeps DEF FormKept

LEMMA AnsweredKeeps ==
    ASSUME FormsStrong, EditAnswered
    PROVE  FormsStrong'
<1>1. /\ editing' = editing /\ row' = row /\ others' = others /\ online' = online
      /\ fetched' = fetched /\ update' = NoUpdate /\ "closed" \in FormStates
      /\ editor' = IF update.state = "done"
                   THEN WhenClosed([editor EXCEPT !.state = "closed"]) ELSE editor
  BY DEF EditAnswered, FormStates
<1>2. RequestKept(NoUpdate, row)
  BY DEF RequestKept, NoUpdate
<1>3. FormKept(editor', row) /\ (editing.kind = "member" => editor' # Unmounted)
  <2>1. CASE update.state # "done"
    BY <1>1, <2>1 DEF FormsStrong
  <2>2. CASE update.state = "done" /\ editing.kind # "member"
    BY <1>1, <2>2 DEF WhenClosed, FormKept
  <2>3. CASE update.state = "done" /\ editing.kind = "member"
    <3>1. editor' = [editor EXCEPT !.state = "closed"]
      BY <1>1, <2>3 DEF WhenClosed
    <3> QED BY <1>1, <2>3, <3>1, EditorIs, StateTurns DEF FormKept
  <2> QED BY <2>1, <2>2, <2>3
<1> QED BY <1>1, <1>2, <1>3, PageKeeps

\* What the server writes: fields that nobody edited are as they were, unless
\* others wrote them, and only who confirmed it loses the role of superadmin.
LEMMA ApplyWritesForCause ==
    ASSUME FormsStrong, ApplyUpdate
    PROVE  /\ \A f \in EditFields : row'[f] # row[f] => f \in update.edited \cup update.stale
           /\ Superadmin(row) /\ ~Superadmin(row') =>
                editing.self /\ update.confirmed /\ others
<1>1. /\ update \in Requests /\ Tells(update, row) /\ row' = update.values
      /\ OwnRow /\ ~update.confirmed => Superadmin(update.values)
  BY DEF ApplyUpdate, FormsStrong, RequestKept
<1>2. \A f \in EditFields : row'[f] # row[f] => f \in update.edited \cup update.stale
  BY <1>1 DEF Tells
<1>3. ASSUME Superadmin(row), ~Superadmin(row')
      PROVE  editing.self /\ update.confirmed /\ others
  <2>1. ~Superadmin(update.values)
    BY <1>1, <1>3 DEF Superadmin, ApplyUpdate
  <2>2. SelfRoleChange /\ ~Last
    BY <1>3, <2>1 DEF ApplyUpdate, Accepted
  <2>3. OwnRow /\ others
    BY <1>3, <2>2 DEF SelfRoleChange, OwnRow, Last
  <2>4. update.confirmed
    BY <1>1, <2>1, <2>3
  <2> QED BY <2>3, <2>4 DEF OwnRow
<1> QED BY <1>2, <1>3

LEMMA ApplyKeeps ==
    ASSUME FormsStrong, ApplyUpdate
    PROVE  FormsStrong'
<1> DEFINE F == {f \in EditFields : editor.values[f] # update.values[f] /\ f \notin editor.edited}
<1>1. /\ update \in Requests /\ row' = update.values /\ update' = [state |-> "done"]
      /\ online' = ~SelfRoleChange /\ editor' = Outdated(F)
      /\ editing' = editing /\ others' = others /\ fetched' = fetched
  BY DEF ApplyUpdate, FormsStrong, RequestKept
<1>2. row' \in RowsOf(editing.kind)
  BY <1>1 DEF Requests
<1>3. F \in SUBSET EditFields
  OBVIOUS
<1>4. FormKept(editor', row') /\ (editing.kind = "member" => editor' # Unmounted)
  <2>1. CASE editor = Unmounted
    BY <1>1, <2>1 DEF Outdated, FormKept, FormsStrong
  <2>2. CASE editor # Unmounted
    <3>1. editor' = [editor EXCEPT !.stale = F] /\ editor \in Forms
      BY <1>1, <2>2 DEF Outdated, FormsStrong, FormKept
    <3>2. \A f \in EditFields \ F : f \in editor.edited \/ editor.values[f] = update.values[f]
      OBVIOUS
    <3> HIDE DEF F
    <3>3. /\ editor' \in Forms /\ editor'.values = editor.values
          /\ editor'.edited = editor.edited /\ editor'.stale = F
      BY <1>3, <3>1 DEF Forms
    <3>4. Tells(editor', row')
      BY <1>1, <3>2, <3>3 DEF Tells
    <3>5. editor' # Unmounted
      BY <3>3 DEF Forms, Unmounted
    <3> QED BY <3>3, <3>4, <3>5 DEF FormKept
  <2> QED BY <2>1, <2>2
<1>5. update'.state = "done"
  BY <1>1
<1>6. OwnRow => ~online'
  BY <1>1 DEF OwnRow, SelfRoleChange
<1>7. online' \in BOOLEAN
  BY <1>1 DEF SelfRoleChange
<1> HIDE DEF F
<1> QED BY <1>1, <1>2, <1>4, <1>5, <1>6, <1>7
       DEF FormsStrong, FormKept, RequestKept, Forms, Requests, Tells, EditFields, OwnRow,
           Superadmin

LEMMA RefuseKeeps ==
    ASSUME FormsStrong, RefuseUpdate
    PROVE  FormsStrong'
<1>1. /\ editing' = editing /\ row' = row /\ others' = others /\ online' = online
      /\ fetched' = fetched /\ editor' = editor /\ update' = [state |-> "refused"]
  BY DEF RefuseUpdate
<1>2. RequestKept(update', row)
  BY <1>1 DEF RequestKept
<1> QED BY <1>1, <1>2, PageKeeps DEF FormsStrong

\* Others write a field: forms and requests that tell something of the row know
\* that this one is out of date.
LEMMA OthersWriteKeeps ==
    ASSUME FormsStrong, NEW f \in EditFields, NEW v \in FieldValues(f), OthersWrite(f, v)
    PROVE  FormsStrong'
<1>1. /\ row' = [row EXCEPT ![f] = v] /\ editing' = editing /\ others' = others
      /\ fetched' = fetched /\ editor' = Outdated(editor.stale \cup {f})
      /\ online' = (online /\ ~(f = "role" /\ v = "user" /\ editing.self))
      /\ update' = IF update.state = "sent"
                   THEN [update EXCEPT !.stale = @ \cup {f}] ELSE update
  BY DEF OthersWrite
<1>2. /\ row' \in RowsOf(editing.kind) /\ row'[f] = v
      /\ \A g \in EditFields \ {f} : row'[g] = row[g]
  <2>1. editing.kind \in Kinds /\ row \in RowsOf(editing.kind) /\ f \in FieldsOf(editing.kind)
    BY DEF FormsStrong, EditFields
  <2>2. /\ [row EXCEPT ![f] = v] \in RowsOf(editing.kind) /\ [row EXCEPT ![f] = v][f] = v
        /\ \A g \in FieldsOf(editing.kind) \ {f} : [row EXCEPT ![f] = v][g] = row[g]
    BY <2>1, RowWritten
  <2>3. EditFields = FieldsOf(editing.kind)
    BY DEF EditFields
  <2> QED BY <1>1, <2>2, <2>3
<1>3. FormKept(editor', row') /\ (editing.kind = "member" => editor' # Unmounted)
  <2>1. CASE editor = Unmounted
    BY <1>1, <2>1 DEF Outdated, FormKept, FormsStrong
  <2>2. CASE editor # Unmounted
    <3> DEFINE F == editor.stale \cup {f}
    <3>1. /\ editor' = [editor EXCEPT !.stale = F] /\ editor \in Forms /\ Tells(editor, row)
          /\ F \in SUBSET EditFields
      BY <1>1, <2>2 DEF Outdated, FormsStrong, FormKept, Forms
    <3>2. f \in F /\ editor.stale \subseteq F
      OBVIOUS
    <3> HIDE DEF F
    <3>3. /\ editor' \in Forms /\ editor'.values = editor.values
          /\ editor'.edited = editor.edited /\ editor'.stale = F
      BY <3>1 DEF Forms
    <3>4. Tells(editor', row')
      BY <1>2, <3>1, <3>2, <3>3 DEF Tells
    <3>5. editor' # Unmounted
      BY <3>3 DEF Forms, Unmounted
    <3> QED BY <3>3, <3>4, <3>5 DEF FormKept
  <2> QED BY <2>1, <2>2
<1>4. RequestKept(update', row')
  <2>1. CASE update.state # "sent"
    BY <1>1, <2>1 DEF FormsStrong, RequestKept
  <2>2. CASE update.state = "sent"
    <3> DEFINE F == update.stale \cup {f}
    <3>1. /\ update' = [update EXCEPT !.stale = F] /\ update \in Requests /\ Tells(update, row)
          /\ F \in SUBSET EditFields /\ (OwnRow /\ ~update.confirmed => Superadmin(update.values))
      BY <1>1, <2>2 DEF FormsStrong, RequestKept, Requests
    <3>2. f \in F /\ update.stale \subseteq F
      OBVIOUS
    <3> HIDE DEF F
    <3>3. /\ update' \in Requests /\ update'.state = "sent" /\ update'.values = update.values
          /\ update'.edited = update.edited /\ update'.stale = F
          /\ update'.confirmed = update.confirmed
      BY <2>2, <3>1 DEF Requests
    <3>4. Tells(update', row')
      BY <1>2, <3>1, <3>2, <3>3 DEF Tells
    <3> QED BY <3>1, <3>3, <3>4 DEF RequestKept
  <2> QED BY <2>1, <2>2
<1>5. OwnRow /\ online' => Superadmin(row')
  <2> SUFFICES ASSUME OwnRow, online' PROVE Superadmin(row')
    OBVIOUS
  <2>1. online /\ row["role"] = "superadmin" /\ editing.kind = "user" /\ editing.self
    BY <1>1 DEF FormsStrong, OwnRow, Superadmin
  <2>2. CASE f = "role"
    <3>1. v = "superadmin"
      BY <1>1, <2>1, <2>2 DEF FieldValues
    <3> QED BY <1>1, <1>2, <2>1, <2>2, <3>1 DEF Superadmin
  <2>3. CASE f # "role"
    <3>1. "role" \in EditFields
      BY <2>1 DEF EditFields, FieldsOf
    <3> QED BY <1>1, <1>2, <2>1, <2>3, <3>1 DEF Superadmin
  <2> QED BY <2>2, <2>3
<1>6. online' \in BOOLEAN
  BY <1>1 DEF FormsStrong
<1>7. (OwnRow => Superadmin(fetched.row) /\ (online => Superadmin(row)))'
  BY <1>1, <1>5 DEF FormsStrong, OwnRow, Superadmin
<1> QED BY <1>1, <1>2, <1>3, <1>4, <1>6, <1>7
       DEF FormsStrong, FormKept, RequestKept, Forms, Requests, Tells, EditFields, OwnRow,
           Superadmin

LEMMA FormsStep == FormsStrong /\ [FormsNext]_formVars => FormsStrong'
<1> SUFFICES ASSUME FormsStrong, [FormsNext]_formVars PROVE FormsStrong'
  OBVIOUS
<1>1. ASSUME UNCHANGED formVars PROVE FormsStrong'
  BY <1>1, PageKeeps DEF formVars, FormsStrong
<1>2. ASSUME OthersChange PROVE FormsStrong'
  BY <1>2 DEF OthersChange, FormsStrong, FormKept, RequestKept, Forms, Requests, Tells,
     EditFields, OwnRow, Superadmin
<1> QED BY <1>1, <1>2, RefetchRowKeeps, OpenKeeps, CancelKeeps, SubmitKeeps, ConfirmKeeps,
           AnsweredKeeps, ApplyKeeps, RefuseKeeps, TypeInKeeps, OthersWriteKeeps DEF FormsNext

\* Only the server's write ends a request as done.
LEMMA FormsForCause ==
    ASSUME FormsStrong, [FormsNext]_formVars, Applied
    PROVE  /\ \A f \in EditFields : row'[f] # row[f] => f \in update.edited \cup update.stale
           /\ Superadmin(row) /\ ~Superadmin(row') =>
                editing.self /\ update.confirmed /\ others
<1>1. update.state = "sent" /\ update'.state = "done" /\ update' # update
  BY DEF Applied
<1>2. ~UNCHANGED formVars
  BY <1>1 DEF formVars
<1>3. ~(RefetchRow \/ OpenEditor \/ CancelEdit \/ OthersChange)
  BY <1>1 DEF RefetchRow, OpenEditor, CancelEdit, OthersChange
<1>4. ~SubmitEdit /\ ~ConfirmEdit /\ ~EditAnswered /\ ~RefuseUpdate
  <2>1. update # NoUpdate
    BY <1>1 DEF NoUpdate
  <2>2. ~SubmitEdit /\ ~ConfirmEdit
    BY <2>1 DEF SubmitEdit, ConfirmEdit
  <2>3. ~EditAnswered
    BY <1>1 DEF EditAnswered
  <2>4. ~RefuseUpdate
    BY <1>1 DEF RefuseUpdate
  <2> QED BY <2>2, <2>3, <2>4
<1>5. \A f \in EditFields : \A v \in FieldValues(f) : ~TypeIn(f, v)
  BY <1>1 DEF TypeIn
<1>6. ASSUME NEW f \in EditFields, NEW v \in FieldValues(f), OthersWrite(f, v) PROVE FALSE
  <2>1. update' = [update EXCEPT !.stale = @ \cup {f}] /\ update \in Requests
    BY <1>1, <1>6 DEF OthersWrite, FormsStrong, RequestKept
  <2>2. update'.state = update.state
    BY <2>1 DEF Requests
  <2> QED BY <1>1, <2>2
<1>7. ApplyUpdate
  BY <1>2, <1>3, <1>4, <1>5, <1>6 DEF FormsNext
<1> QED BY <1>7, ApplyWritesForCause

-----------------------------------------------------------------------------
(* AdminDialogs: a dialog and a request that are not out of date were        *)
(* offered for the row as it is                                              *)

\* What the request under way knows of the row: it was offered for it, and the
\* server found it so, except for what was written since.
ActionKept(a, marks) ==
    /\ a \in Actions
    /\ a.state \in {"sent", "found"} /\ ~a.stale => a.op \in Offered(marks)
    /\ a.state = "found" =>
         /\ \A mark \in Marks \ a.raced : mark \in a.found <=> mark \in marks
         /\ Allowed(a.op, a.found)

DialogsStrong ==
    /\ status \in SUBSET Marks
    /\ shown \in [marks : SUBSET Marks, stale : BOOLEAN]
    /\ ~shown.stale => shown.marks = status
    /\ dialog \in [op : Operations \cup {"none"}, stale : BOOLEAN]
    /\ dialog # Closed => dialog.op \in Operations
    /\ dialog # Closed /\ ~dialog.stale => dialog.op \in Offered(status)
    /\ action # NoAction => ActionKept(action, status)

LEMMA DialogsBegin == DialogsInit => DialogsStrong
BY DEF DialogsInit, DialogsStrong, Closed, NoAction, Marks, Operations

\* A request is none or one with an operation.
LEMMA ActionIs ==
    ASSUME DialogsStrong
    PROVE  /\ action.op # "none" <=> action # NoAction
           /\ action.op # "none" => ActionKept(action, status)
<1>1. NoAction.op = "none"
  BY DEF NoAction
<1>2. action # NoAction => action.op \in Operations
  BY DEF DialogsStrong, ActionKept, Actions
<1> QED BY <1>1, <1>2 DEF DialogsStrong, Operations

LEMMA OfferedIs == \A marks : Offered(marks) \in SUBSET Operations
BY DEF Offered, Operations

\* The page and the dialogs alone.
LEMMA DialogStepKeeps ==
    ASSUME DialogsStrong, RefetchStatus \/ CloseDialog \/ \E op \in Operations : OpenDialog(op)
    PROVE  DialogsStrong'
<1>1. CASE RefetchStatus
  <2>1. /\ shown'.marks = status /\ shown' \in [marks : SUBSET Marks, stale : BOOLEAN]
        /\ subject' = subject /\ status' = status /\ dialog' = dialog /\ action' = action
    BY <1>1 DEF RefetchStatus, DialogsStrong
  <2> QED BY <2>1 DEF DialogsStrong, Offered, ActionKept
<1>2. CASE CloseDialog
  <2>1. /\ dialog' = Closed /\ Closed \in [op : Operations \cup {"none"}, stale : BOOLEAN]
        /\ subject' = subject /\ status' = status /\ shown' = shown /\ action' = action
    BY <1>2 DEF CloseDialog, Closed
  <2> QED BY <2>1 DEF DialogsStrong, Offered, ActionKept
<1>3. ASSUME NEW op \in Operations, OpenDialog(op) PROVE DialogsStrong'
  <2>1. /\ dialog' = [op |-> op, stale |-> shown.stale] /\ op \in Offered(shown.marks)
        /\ subject' = subject /\ status' = status /\ shown' = shown /\ action' = action
    BY <1>3 DEF OpenDialog
  <2>2. /\ dialog' \in [op : Operations \cup {"none"}, stale : BOOLEAN]
        /\ dialog'.op = op /\ dialog'.stale = shown.stale
    BY <2>1 DEF DialogsStrong
  <2>3. ~shown.stale => op \in Offered(status)
    BY <2>1 DEF DialogsStrong
  <2> QED BY <2>1, <2>2, <2>3 DEF DialogsStrong, Offered, ActionKept
<1> QED BY <1>1, <1>2, <1>3

LEMMA ConfirmDialogKeeps ==
    ASSUME DialogsStrong, Confirm
    PROVE  DialogsStrong'
<1> DEFINE a == [op |-> dialog.op, state |-> "sent", found |-> {}, stale |-> dialog.stale,
                raced |-> {}]
<1>1. /\ action' = a /\ dialog # Closed
      /\ subject' = subject /\ status' = status /\ shown' = shown /\ dialog' = dialog
  BY DEF Confirm
<1>2. /\ a \in Actions /\ a.op = dialog.op /\ a.state = "sent" /\ (a.stale <=> dialog.stale)
  BY <1>1 DEF DialogsStrong, Actions
<1> HIDE DEF a
<1>3. ActionKept(a, status)
  BY <1>1, <1>2 DEF ActionKept, DialogsStrong
<1> QED BY <1>1, <1>3 DEF DialogsStrong, Offered, ActionKept

LEMMA ActionAnsweredKeeps ==
    ASSUME DialogsStrong, ActionAnswered
    PROVE  DialogsStrong'
<1>1. /\ action' = NoAction /\ (dialog' = Closed \/ dialog' = dialog)
      /\ subject' = subject /\ status' = status /\ shown' = shown
      /\ Closed \in [op : Operations \cup {"none"}, stale : BOOLEAN]
  BY DEF ActionAnswered, Closed
<1> QED BY <1>1 DEF DialogsStrong, Offered

\* A statement of the server that writes nothing.
LEMMA LooksKeeps ==
    ASSUME DialogsStrong, Find \/ ActionFails
    PROVE  DialogsStrong'
<1>1. /\ subject' = subject /\ status' = status /\ shown' = shown /\ dialog' = dialog
      /\ ActionKept(action, status) /\ action \in Actions
  BY ActionIs DEF Find, ActionFails, ActionKept
<1>2. CASE ActionFails
  <2>1. action' \in Actions /\ action'.state = "refused"
    BY <1>1, <1>2 DEF ActionFails, Actions
  <2> QED BY <1>1, <2>1 DEF DialogsStrong, Offered, ActionKept
<1>3. CASE Find
  <2> DEFINE next == IF Allowed(action.op, status) THEN "found" ELSE "refused"
  <2>1. action' = [action EXCEPT !.state = next, !.found = status] /\ action.state = "sent"
    BY <1>3 DEF Find
  <2>2. next \in {"found", "refused"} /\ (next = "found" => Allowed(action.op, status))
    OBVIOUS
  <2> HIDE DEF next
  <2>3. /\ action' \in Actions /\ action'.state = next /\ action'.found = status
        /\ action'.op = action.op /\ action'.stale = action.stale
    BY <1>1, <2>1, <2>2 DEF Actions, DialogsStrong
  <2>4. ActionKept(action', status)
    BY <1>1, <2>1, <2>2, <2>3 DEF ActionKept
  <2> QED BY <1>1, <2>4 DEF DialogsStrong, Offered, ActionKept
<1> QED BY <1>2, <1>3

\* A statement that writes the row: the page, the dialog and the other requests
\* are older than it.
LEMMA StatusWritten ==
    ASSUME DialogsStrong, Outdate, subject' = subject, status' \in SUBSET Marks,
           action' # NoAction => ActionKept(action', status')
    PROVE  DialogsStrong'
<1>1. shown' \in [marks : SUBSET Marks, stale : BOOLEAN] /\ shown'.stale
  BY DEF Outdate, DialogsStrong
<1>2. /\ dialog' \in [op : Operations \cup {"none"}, stale : BOOLEAN]
      /\ dialog' # Closed => dialog'.op \in Operations /\ dialog'.stale
  <2>1. CASE dialog = Closed
    BY <2>1 DEF Outdate, Closed
  <2>2. CASE dialog # Closed
    BY <2>2 DEF Outdate, DialogsStrong
  <2> QED BY <2>1, <2>2
<1> QED BY <1>1, <1>2 DEF DialogsStrong, ActionKept, Offered

LEMMA PerformKeeps ==
    ASSUME DialogsStrong, Perform
    PROVE  DialogsStrong'
<1>1. /\ action \in Actions /\ Outdate /\ subject' = subject
      /\ action' = [action EXCEPT !.state = "done"]
      /\ status' = Performed(action.op, status)
  BY ActionIs DEF Perform, ActionKept
<1>2. status' \in SUBSET Marks
  BY <1>1 DEF Performed, Target, Marks, DialogsStrong
<1>3. action' \in Actions /\ action'.state = "done"
  BY <1>1 DEF Actions
<1> QED BY <1>1, <1>2, <1>3, StatusWritten DEF ActionKept

LEMMA OthersMarkKeeps ==
    ASSUME DialogsStrong, NEW mark \in Marks, OthersMark(mark)
    PROVE  DialogsStrong'
<1>1. /\ Outdate /\ subject' = subject
      /\ status' = IF mark \in status THEN status \ {mark} ELSE status \cup {mark}
  BY DEF OthersMark
<1>2. /\ status' \in SUBSET Marks
      /\ \A m \in Marks \ {mark} : m \in status' <=> m \in status
  BY <1>1 DEF DialogsStrong
<1>3. CASE action.op = "none"
  BY <1>1, <1>2, <1>3, ActionIs, StatusWritten DEF OthersMark
<1>4. CASE action.op # "none"
  <2> DEFINE now1 == IF action.state = "found" THEN action.raced \cup {mark} ELSE action.raced
  <2>1. ActionKept(action, status) /\ action \in Actions
    BY <1>4, ActionIs DEF ActionKept
  <2>2. /\ action' = [action EXCEPT !.stale = TRUE, !.raced = now1]
        /\ now1 \in SUBSET Marks
        /\ action.state = "found" => mark \in now1 /\ action.raced \subseteq now1
    BY <1>4, <2>1 DEF OthersMark, Actions
  <2> HIDE DEF now1
  <2>3. /\ action' \in Actions /\ action'.state = action.state /\ action'.found = action.found
        /\ action'.op = action.op /\ action'.stale /\ action'.raced = now1
    BY <2>1, <2>2 DEF Actions
  <2>4. ActionKept(action', status')
    BY <1>2, <2>1, <2>2, <2>3 DEF ActionKept
  <2> QED BY <1>1, <1>2, <2>4, StatusWritten
<1> QED BY <1>3, <1>4

LEMMA DialogsStep == DialogsStrong /\ [DialogsNext]_dialogVars => DialogsStrong'
<1> SUFFICES ASSUME DialogsStrong, [DialogsNext]_dialogVars PROVE DialogsStrong'
  OBVIOUS
<1>1. ASSUME UNCHANGED dialogVars PROVE DialogsStrong'
  BY <1>1 DEF dialogVars, DialogsStrong, ActionKept, Offered
<1> QED BY <1>1, DialogStepKeeps, ConfirmDialogKeeps, ActionAnsweredKeeps, LooksKeeps,
           PerformKeeps, OthersMarkKeeps DEF DialogsNext

\* What was offered for the marks changes them.
LEMMA OfferedChanges ==
    ASSUME NEW marks \in SUBSET Marks, NEW op \in Offered(marks)
    PROVE  Performed(op, marks) # marks
<1>1. CASE op = "restore"
  BY <1>1 DEF Offered, Performed, Target
<1>2. CASE op = "delete"
  BY <1>2 DEF Offered, Performed, Target
<1>3. CASE op = "unban"
  BY <1>3 DEF Offered, Performed, Target
<1>4. CASE op = "ban"
  BY <1>4 DEF Offered, Performed, Target
<1> QED BY <1>1, <1>2, <1>3, <1>4, OfferedIs DEF Operations

LEMMA DialogsForCause ==
    ASSUME DialogsStrong, [DialogsNext]_dialogVars, PerformedNow
    PROVE  /\ \A mark \in Marks \ action.raced : mark \in action.found <=> mark \in status
           /\ action.op = "ban" => "superadmin" \notin status
           /\ action.op = "delete" /\ status \cap {"superadmin", "archived"} # {} =>
                status \cap {"superadmin", "archived"} \cap action.raced # {}
           /\ status' = status => action.stale
<1>1. /\ action.op # "none" /\ action.state = "found" /\ action'.state = "done"
      /\ action' # action
  BY DEF PerformedNow
<1>2. ActionKept(action, status) /\ action \in Actions
  BY <1>1, ActionIs DEF ActionKept
<1>3. Perform
  <2>1. ~UNCHANGED dialogVars
    BY <1>1 DEF dialogVars
  <2>2. ~RefetchStatus /\ ~CloseDialog /\ \A op \in Operations : ~OpenDialog(op)
    BY <1>1 DEF RefetchStatus, CloseDialog, OpenDialog
  <2>3. ~Confirm
    BY <1>1 DEF Confirm, NoAction
  <2>4. ~ActionAnswered /\ ~Find
    BY <1>1 DEF ActionAnswered, Find
  <2>5. ~ActionFails
    BY <1>1, <1>2 DEF ActionFails, Actions
  <2>6. ASSUME NEW mark \in Marks, OthersMark(mark) PROVE FALSE
    <3> DEFINE now1 == IF action.state = "found" THEN action.raced \cup {mark} ELSE action.raced
    <3>1. action' = [action EXCEPT !.stale = TRUE, !.raced = now1]
      BY <1>1, <2>6 DEF OthersMark
    <3> HIDE DEF now1
    <3>2. action'.state = action.state
      BY <1>2, <3>1 DEF Actions
    <3> QED BY <1>1, <3>2
  <2> QED BY <2>1, <2>2, <2>3, <2>4, <2>5, <2>6 DEF DialogsNext
<1>4. /\ \A mark \in Marks \ action.raced : mark \in action.found <=> mark \in status
      /\ Allowed(action.op, action.found)
      /\ {"superadmin", "archived"} \subseteq Marks
  BY <1>1, <1>2 DEF ActionKept, Marks
<1>5. action.op = "ban" => "superadmin" \notin status
  BY <1>3, <1>4 DEF Perform, Allowed
<1>6. action.op = "delete" /\ status \cap {"superadmin", "archived"} # {} =>
        status \cap {"superadmin", "archived"} \cap action.raced # {}
  <2> SUFFICES ASSUME action.op = "delete",
                      NEW mark \in status \cap {"superadmin", "archived"}
               PROVE  mark \in action.raced
    OBVIOUS
  <2>1. action.found \cap {"superadmin", "archived"} = {}
    BY <1>4 DEF Allowed
  <2> QED BY <1>4, <2>1
<1>7. status' = status => action.stale
  BY <1>1, <1>2, <1>3, OfferedChanges DEF ActionKept, Perform, DialogsStrong
<1> QED BY <1>4, <1>5, <1>6, <1>7

-----------------------------------------------------------------------------
(* MCServices: a behaviour works with one module, the others stay as they are *)

\* What all the modules of this proof know, the unchosen ones of their start.
PlatformStrong ==
    /\ TenantStrong /\ SettingsStrong
    /\ ConsentStrong /\ ThemeStrong
    /\ BranchStrong /\ RenameStrong
    /\ NavStrong /\ FormsStrong /\ DialogsStrong

LEMMA PlatformBegins == Init => PlatformStrong
BY TenantBegins, SettingsBegin, ConsentBegins, ThemeBegins, BranchBegins, RenameBegins,
   NavBegins, FormsBegin, DialogsBegin DEF Init, PlatformStrong

\* Seen from any of these modules, a step is one of its own or changes nothing.
LEMMA ServerStepsAlone ==
    ASSUME [Next]_allVars
    PROVE  [TenantNext]_tenantVars /\ [SettingsNext]_settingsVars
<1>1. CASE UNCHANGED allVars
  BY <1>1 DEF allVars
<1>2. CASE WithTenants
  BY <1>2 DEF WithTenants
<1>3. CASE WithSettings
  BY <1>3 DEF WithSettings
<1>4. ASSUME ~UNCHANGED allVars, ~WithTenants, ~WithSettings
      PROVE  UNCHANGED <<tenantVars, settingsVars>>
  BY <1>4 DEF Next, WithLimiter, WithInvitations, WithFlags, WithLists, WithConsent, WithForms,
     WithDialogs, WithNavigation, WithBranches, WithTree, WithThemes, WithRenames, WithListPage
<1> QED BY <1>1, <1>2, <1>3, <1>4

LEMMA BrowserStepsAlone ==
    ASSUME [Next]_allVars
    PROVE  [ConsentNext]_consentVars /\ [ThemeNext]_themeVars /\ [NavNext]_navVars
<1>1. CASE UNCHANGED allVars
  BY <1>1 DEF allVars
<1>2. CASE WithConsent
  BY <1>2 DEF WithConsent
<1>3. CASE WithThemes
  BY <1>3 DEF WithThemes
<1>4. CASE WithNavigation
  BY <1>4 DEF WithNavigation
<1>5. ASSUME ~UNCHANGED allVars, ~WithConsent, ~WithThemes, ~WithNavigation
      PROVE  UNCHANGED <<consentVars, themeVars, navVars>>
  BY <1>5 DEF Next, WithLimiter, WithInvitations, WithFlags, WithLists, WithTenants,
     WithSettings, WithForms, WithDialogs, WithBranches, WithTree, WithRenames, WithListPage
<1> QED BY <1>1, <1>2, <1>3, <1>4, <1>5

LEMMA ConsoleStepsAlone ==
    ASSUME [Next]_allVars
    PROVE  [FormsNext]_formVars /\ [DialogsNext]_dialogVars
<1>1. CASE UNCHANGED allVars
  BY <1>1 DEF allVars
<1>2. CASE WithForms
  BY <1>2 DEF WithForms
<1>3. CASE WithDialogs
  BY <1>3 DEF WithDialogs
<1>4. ASSUME ~UNCHANGED allVars, ~WithForms, ~WithDialogs
      PROVE  UNCHANGED <<formVars, dialogVars>>
  BY <1>4 DEF Next, WithLimiter, WithInvitations, WithFlags, WithLists, WithTenants,
     WithSettings, WithConsent, WithNavigation, WithBranches, WithTree, WithThemes, WithRenames,
     WithListPage
<1> QED BY <1>1, <1>2, <1>3, <1>4

LEMMA ScriptStepsAlone ==
    ASSUME [Next]_allVars
    PROVE  [BranchNext]_branchVars /\ [RenameNext]_renameVars
<1>1. CASE UNCHANGED allVars
  BY <1>1 DEF allVars
<1>2. CASE WithBranches
  BY <1>2 DEF WithBranches
<1>3. CASE WithRenames
  BY <1>3 DEF WithRenames
<1>4. ASSUME ~UNCHANGED allVars, ~WithBranches, ~WithRenames
      PROVE  UNCHANGED <<branchVars, renameVars>>
  BY <1>4 DEF Next, WithLimiter, WithInvitations, WithFlags, WithLists, WithTenants,
     WithSettings, WithConsent, WithForms, WithDialogs, WithNavigation, WithTree, WithThemes,
     WithListPage
<1> QED BY <1>1, <1>2, <1>3, <1>4

LEMMA PlatformStep == PlatformStrong /\ [Next]_allVars => PlatformStrong'
<1> SUFFICES ASSUME PlatformStrong, [Next]_allVars PROVE PlatformStrong'
  OBVIOUS
<1>1. TenantStrong' /\ SettingsStrong'
  BY ServerStepsAlone, TenantStep, SettingsStep DEF PlatformStrong
<1>2. ConsentStrong' /\ ThemeStrong' /\ NavStrong'
  BY BrowserStepsAlone, ConsentStep, ThemeStep, NavStep DEF PlatformStrong
<1>3. FormsStrong' /\ DialogsStrong'
  BY ConsoleStepsAlone, FormsStep, DialogsStep DEF PlatformStrong
<1>4. BranchStrong' /\ RenameStrong'
  BY ScriptStepsAlone, BranchStep, RenameStep DEF PlatformStrong
<1> QED BY <1>1, <1>2, <1>3, <1>4 DEF PlatformStrong

\* Every module of the platform stays in its inductive invariant, for any number
\* of tenants, settings, persons, colours, worktrees, files and texts.
THEOREM PlatformInvariant == Spec => []PlatformStrong
BY PlatformBegins, PlatformStep, PTL DEF Spec

\* The callback of a request runs as app_user of the request's own organization
\* on a connection nobody else uses, and a patch of settings that was answered
\* wrote all of it or nothing and reports the values it replaced: whatever other
\* requests do between the statements, for any pool, tenants and settings.
THEOREM RequestsKeepApart == Spec => []RequestsInv
<1>1. PlatformStrong => RequestsInv
  BY TenantStrongSuffices, SettingsStrongSuffices DEF PlatformStrong, RequestsInv
<1> QED BY <1>1, PlatformInvariant, PTL

\* The banner is hidden only for a choice under the page's policy, records belong
\* to who chose, page, cookie and record agree once it is quiet; and a reload of
\* the design system shows the theme that is kept: for any persons, policies,
\* choices and seeds, and answers in any order.
THEOREM PreferencesApplied == Spec => []PreferencesInv
<1>1. PlatformStrong => PreferencesInv
  BY ConsentStrongSuffices, ThemeStrongSuffices DEF PlatformStrong, PreferencesInv
<1> QED BY <1>1, PlatformInvariant, PTL

\* "Is ready" is said of a branch database that is, whichever step failed; and the
\* renaming scripts break no import but those of files of one stem named apart: for
\* any worktrees, issues, files and imports.
THEOREM ScriptsKeepTheirWord == Spec => []ScriptsInv
<1>1. PlatformStrong => ScriptsInv
  BY BranchStrongSuffices, RenameStrongSuffices DEF PlatformStrong, ScriptsInv
<1> QED BY <1>1, PlatformInvariant, PTL

\* The guards of the routes redirect at most twice in a row and end at a page that
\* lets its visitor in, and a sign-in by password returns to the page that asked.
THEOREM GuardsAgree == Spec => []NavInv
<1>1. PlatformStrong => NavInv
  BY NavStrongSuffices DEF PlatformStrong
<1> QED BY <1>1, PlatformInvariant, PTL

\* What an administrator's form or dialog writes is what the administrator
\* edited or confirmed, unless the row was written since it was fetched, whatever
\* others write between any two steps.
THEOREM ConsoleActsForCause == Spec => ConsoleForCause
<1>1. PlatformStrong /\ [Next]_allVars =>
        [Applied =>
           /\ \A f \in EditFields : row'[f] # row[f] => f \in update.edited \cup update.stale
           /\ Superadmin(row) /\ ~Superadmin(row') =>
                editing.self /\ update.confirmed /\ others]_formVars
  BY ConsoleStepsAlone, FormsForCause DEF PlatformStrong
<1>2. PlatformStrong /\ [Next]_allVars =>
        [PerformedNow =>
           /\ \A mark \in Marks \ action.raced : mark \in action.found <=> mark \in status
           /\ action.op = "ban" => "superadmin" \notin status
           /\ action.op = "delete" /\ status \cap {"superadmin", "archived"} # {} =>
                status \cap {"superadmin", "archived"} \cap action.raced # {}
           /\ status' = status => action.stale]_dialogVars
  BY ConsoleStepsAlone, DialogsForCause DEF PlatformStrong
<1>3. Spec => EditedForCause
  BY <1>1, PlatformInvariant, PTL DEF Spec, EditedForCause
<1>4. Spec => ActsForCause
  BY <1>2, PlatformInvariant, PTL DEF Spec, ActsForCause
<1> QED BY <1>3, <1>4 DEF ConsoleForCause
=============================================================================
