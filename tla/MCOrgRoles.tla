----------------------------- MODULE MCOrgRoles -----------------------------
(* Instances of OrgRoles: three default roles (Member decides nothing that  *)
(* Viewer does not), one or two custom ones, two or three members.          *)
EXTENDS OrgRoles, TLC

CONSTANTS Owner, Admin, Viewer   \* model values of the default role ids

MCDefaultRoles == {Owner, Admin, Viewer}

MCSeedSlug ==
    (Owner :> "owner") @@ (Admin :> "admin") @@ (Viewer :> "viewer")

MCSeedPerms == [x \in MCDefaultRoles |->
                  IF x = Viewer THEN {} ELSE Permissions]

\* Every subset of the permissions may be asked for.
MCGrants == SUBSET Permissions

\* Enough to tell a merged grant from each of the two that were asked for.
MCSingleGrants == {{p} : p \in Permissions}

RequestSymmetry == Permutations(Requests)
=============================================================================
