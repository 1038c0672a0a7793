------------------------------ MODULE MCAccess ------------------------------
(* Instances for TLC of Access, and of the pages of an organization,         *)
(* ActiveOrganization and ApiKeysPage.  They share no state: a behaviour     *)
(* works with one of them, chosen at the start, so that one set of values    *)
(* serves two of them: Keys are the organizations of the page as well, and   *)
(* Requests their names, and may be permuted.                                *)
EXTENDS Access, ActiveOrganization, ApiKeysPage, TLC

CONSTANTS i1, write

\* What permissions let in, and what the cache lets in, one at a time.
PermissionWork ==
    [kinds |-> {"act", "create", "revoke"}, overlap |-> 1, processes |-> {i1},
     asks |-> SUBSET Permissions \ {{}}, keys |-> 2, edits |-> 2, writes |-> 0]
StatusWork ==
    [kinds |-> {"delete", "reactivate", "create"}, overlap |-> 2, processes |-> Processes,
     asks |-> {{write}}, keys |-> 1, edits |-> 0, writes |-> 2]
Both == {PermissionWork, StatusWork}

Symmetry ==
    Permutations(Keys) \cup Permutations(Roles) \cup Permutations(Requests)

VARIABLE side

PagesInit ==
    /\ side \in {"access", "organization", "keys"}
    /\ Init /\ ActiveInit /\ KeysInit
    /\ IF side = "organization" THEN Cardinality(DOMAIN name) = 1 ELSE DOMAIN name = {}
    /\ side # "access" => workload = StatusWork /\ \A u \in Users : grants[role[u]] # {}
    /\ office = CHOOSE o \in Offices : TRUE

WithAccess ==
    /\ side = "access" /\ Next
    /\ UNCHANGED <<side, orgVars, keysVars>>

WithOrganization ==
    /\ side = "organization" /\ ActiveNext
    /\ UNCHANGED <<side, vars, keysVars>>

WithKeys ==
    /\ side = "keys" /\ KeysNext
    /\ UNCHANGED <<side, vars, orgVars>>

PagesNext == WithAccess \/ WithOrganization \/ WithKeys

PagesSpec == PagesInit /\ [][PagesNext]_<<side, vars, orgVars, keysVars>>

\* What the pages of an organization show and send.
OrgPagesInv ==
    /\ side = "organization" => ActiveOrgInv
    /\ side = "keys" => KeysPageInv
=============================================================================
