----------------------------- MODULE TenantContext -----------------------------
(***************************************************************************)
(* TenantInterceptor takes the tenant of a request from the active         *)
(* organization of its session and turns requests away from an archived    *)
(* organization; TenantService runs a callback in a transaction that has   *)
(* the role app_user and the setting app.tenant_id, which the row-level    *)
(* security policies read.  The connections come from a pool (external):   *)
(* what a transaction sets LOCAL ends with it, what is set for the session *)
(* stays for the next user of the connection.                              *)
(***************************************************************************)
EXTENDS FiniteSets

CONSTANTS
    Tenants,        \* organizations
    NoTenant,
    HttpRequests,
    Connections,
    NoConnection

ASSUME TenantAssumption ==
    /\ NoTenant \notin Tenants
    /\ NoConnection \notin Connections

VARIABLES
    archived,       \* organizations with deleted_at
    request,
    connection

tenantVars == <<archived, request, connection>>

\* what a connection runs its statements as
Owner == [role |-> "owner", tenant |-> NoTenant]
Identity == [role : {"owner", "app_user"}, tenant : Tenants \cup {NoTenant}]

Unused == [session |-> Owner, local |-> Owner]

\* allowed: a route of ORG_DELETED_ALLOWED_PATTERNS
\* excused: the lookup failed, or the organization was archived after it
NoRequest == [state |-> "none", org |-> NoTenant, tenant |-> NoTenant,
              allowed |-> FALSE, excused |-> FALSE, uses |-> NoConnection]

TenantTypeOK ==
    /\ archived \subseteq Tenants
    /\ request \in [HttpRequests ->
         [state : {"none", "resolving", "handling", "begun", "roleSet", "callback"},
          org : Tenants \cup {NoTenant}, tenant : Tenants \cup {NoTenant},
          allowed : BOOLEAN, excused : BOOLEAN,
          uses : Connections \cup {NoConnection}]]
    /\ connection \in [Connections -> [session : Identity, local : Identity]]

TenantInit ==
    /\ archived = {}
    /\ request = [r \in HttpRequests |-> NoRequest]
    /\ connection = [c \in Connections |-> Unused]

Free(c) == \A r \in HttpRequests : request[r].uses # c

\* one field of the request
In(r, state) == request' = [request EXCEPT ![r] = [@ EXCEPT !.state = state]]

EndRequest(r) == request' = [request EXCEPT ![r] = NoRequest]

-----------------------------------------------------------------------------
(* TenantInterceptor                                                       *)

\* the session names an organization; one that does not has no tenant
Arrive(r, org, allowed) ==
    /\ request[r] = NoRequest
    /\ request' = [request EXCEPT ![r] =
                     [NoRequest EXCEPT !.state = "resolving", !.org = org,
                                       !.allowed = allowed]]
    /\ UNCHANGED <<archived, connection>>

ArriveWithoutTenant(r) ==
    /\ request[r] = NoRequest
    /\ In(r, "handling")
    /\ UNCHANGED <<archived, connection>>

\* mutant: no route is refused
ResolveAny(r) ==
    /\ request[r].state = "resolving"
    /\ request' = [request EXCEPT ![r] =
                     [@ EXCEPT !.state = "handling", !.tenant = request[r].org]]
    /\ UNCHANGED <<archived, connection>>

\* lookupOrganization, and enforceDeletedOrgRestriction on what it found
Resolve(r) ==
    /\ request[r].state = "resolving"
    /\ request[r].org \in archived => request[r].allowed
    /\ request' = [request EXCEPT ![r] =
                     [@ EXCEPT !.state = "handling", !.tenant = request[r].org]]
    /\ UNCHANGED <<archived, connection>>

RefuseArchived(r) ==
    /\ request[r].state = "resolving"
    /\ request[r].org \in archived /\ ~request[r].allowed
    /\ EndRequest(r)
    /\ UNCHANGED <<archived, connection>>

\* the error of the lookup is logged, and the request goes on
LookupFails(r) ==
    /\ request[r].state = "resolving"
    /\ request' = [request EXCEPT ![r] =
                     [@ EXCEPT !.state = "handling", !.tenant = request[r].org,
                               !.excused = TRUE]]
    /\ UNCHANGED <<archived, connection>>

-----------------------------------------------------------------------------
(* TenantService                                                           *)

\* query without a tenant throws TenantContextMissingException
BeginQuery(r, c) ==
    /\ request[r].state = "handling" /\ request[r].tenant # NoTenant
    /\ Free(c)
    /\ request' = [request EXCEPT ![r] = [@ EXCEPT !.state = "begun", !.uses = c]]
    /\ UNCHANGED <<archived, connection>>

\* SET LOCAL ROLE app_user
SetRole(r) ==
    /\ request[r].state = "begun"
    /\ LET c == request[r].uses
       IN  connection' = [connection EXCEPT ![c] =
             [@ EXCEPT !.local = [connection[c].local EXCEPT !.role = "app_user"]]]
    /\ In(r, "roleSet")
    /\ UNCHANGED archived

\* set_config('app.tenant_id', tenantId, true)
SetTenant(r) ==
    /\ request[r].state = "roleSet"
    /\ LET c == request[r].uses
           t == request[r].tenant
       IN  connection' = [connection EXCEPT ![c] =
             [@ EXCEPT !.local = [connection[c].local EXCEPT !.tenant = t]]]
    /\ In(r, "callback")
    /\ UNCHANGED archived

\* commit, or a roll-back after a failure of any statement of the transaction
EndQuery(r) ==
    /\ request[r].uses # NoConnection
    /\ LET c == request[r].uses
       IN  connection' = [connection EXCEPT ![c] =
             [@ EXCEPT !.local = connection[c].session]]
    /\ request' = [request EXCEPT ![r] =
                     [@ EXCEPT !.state = "handling", !.uses = NoConnection]]
    /\ UNCHANGED archived

Answer(r) ==
    /\ request[r].state = "handling"
    /\ EndRequest(r)
    /\ UNCHANGED <<archived, connection>>

\* soft deletion and reactivation (module AccountDeletion)
Archive(o) ==
    /\ archived' = archived \cup {o}
    /\ request' = [r \in HttpRequests |->
         IF request[r].org = o /\ request[r].state # "resolving"
         THEN [request[r] EXCEPT !.excused = TRUE] ELSE request[r]]
    /\ UNCHANGED connection

Reactivate(o) ==
    /\ archived' = archived \ {o}
    /\ UNCHANGED <<request, connection>>

TenantNext ==
    \/ \E r \in HttpRequests :
         \/ \E org \in Tenants, allowed \in BOOLEAN : Arrive(r, org, allowed)
         \/ ArriveWithoutTenant(r)
         \/ Resolve(r) \/ RefuseArchived(r) \/ LookupFails(r)
         \/ \E c \in Connections : BeginQuery(r, c)
         \/ SetRole(r) \/ SetTenant(r) \/ EndQuery(r) \/ Answer(r)
    \/ \E o \in Tenants : Archive(o) \/ Reactivate(o)

TenantSpec == TenantInit /\ [][TenantNext]_tenantVars

-----------------------------------------------------------------------------
(* Properties                                                              *)

\* However requests share the connections and wherever a transaction breaks
\* off: a callback sees the rows of its own tenant, a connection that goes
\* back to the pool carries nothing of the last tenant, and a request works on
\* an archived organization only by an allowed route, after a failed lookup
\* (the interceptor lets it pass), or when the archival came after the lookup.
TenantInv ==
    /\ TenantTypeOK
    /\ \A r, s \in HttpRequests :
         request[r].uses = request[s].uses /\ request[r].uses # NoConnection => r = s
    /\ \A c \in Connections :
         /\ connection[c].session = Owner
         /\ Free(c) => connection[c] = Unused
    /\ \A r \in HttpRequests :
         /\ request[r].uses # NoConnection <=>
              request[r].state \in {"begun", "roleSet", "callback"}
         /\ request[r].state = "callback" =>
              connection[request[r].uses].local =
                [role |-> "app_user", tenant |-> request[r].org]
         /\ request[r].org \in archived /\ request[r].state # "resolving" =>
              request[r].allowed \/ request[r].excused
=============================================================================
