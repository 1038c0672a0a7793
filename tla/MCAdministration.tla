-------------------------- MODULE MCAdministration --------------------------
(* Instances of Superadmins and OrgTree, which share no state: a behaviour  *)
(* works with one of them, chosen at the start.  Four organizations are     *)
(* enough for a fourth level and for a cycle next to one that is moved.     *)
EXTENDS Superadmins, OrgTree, TLC

VARIABLE area

\* Organizations, and the requests about them, are only compared.
TreeSymmetry == Permutations(Orgs) \cup Permutations(Requests)

AdministrationInit ==
    /\ area \in {"users", "organizations"}
    /\ AdminInit /\ Init
    /\ area = "organizations" => superadmins = Users

WithUsers ==
    /\ area = "users" /\ AdminNext
    /\ UNCHANGED <<area, vars>>

WithOrganizations ==
    /\ area = "organizations" /\ Next
    /\ UNCHANGED <<area, adminVars>>

AdministrationNext == WithUsers \/ WithOrganizations

AdministrationSpec ==
    AdministrationInit /\ [][AdministrationNext]_<<area, adminVars, vars>>
=============================================================================
