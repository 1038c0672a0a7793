---------------------------- MODULE MCOrgOverlap ----------------------------
(* Overlapping requests of OrgRoles.  A behaviour is about two members whose  *)
(* roles are changed, by the endpoint of administrators or the deprecated     *)
(* one, next to removals and transfers; about one such request and renames of *)
(* Owner; about roles given to a member while they come and go and Viewer may *)
(* be renamed; or about the roles alone.                                      *)
EXTENDS MCOrgRoles

VARIABLE about

AdminKinds == {"adminChange", "adminRemove", "transfer"}
DeprecatedKinds == {"rbacChange", "adminRemove", "transfer"}
RoleKinds == {"createRole", "updateRole", "deleteRole"}

KindsAbout(topic) ==
    CASE topic = "members"    -> AdminKinds
      [] topic = "deprecated" -> DeprecatedKinds
      [] topic = "renamed"    -> AdminKinds \cup {"updateRole"}
      [] topic = "renamed, deprecated" -> DeprecatedKinds \cup {"updateRole"}
      [] topic = "given"      -> RoleKinds \cup {"rbacChange"}
      [] topic = "roles"      -> RoleKinds

MemberTopics == {"members", "deprecated", "renamed", "renamed, deprecated"}
RoleTopics == {"given", "roles"}

\* one change of members next to one rename
OneOfEach ==
    \A r, q \in Requests :
        (req'[r].kind = "updateRole") = (req'[q].kind = "updateRole")
            => r = q \/ Idle \in {req'[r], req'[q]}

SetUpFirst == req' # req => setup \in {"done", "lost"}

\* an update of a role: which one, and what it sends
UpdateAbout(topic, q) ==
    CASE topic \in MemberTopics -> q.role = OwnerRole /\ q.newSlug # "viewer" /\ q.grant = NoGrant
      [] topic = "given"        -> q.role = ViewerRole /\ q.grant = NoGrant
      [] topic = "roles"        -> q.role \in CustomRoles \cup {ViewerRole} /\ q.newSlug # "owner"

Within(topic) ==
    /\ UNCHANGED about
    /\ topic \in MemberTopics \ {"members"} => SetUpFirst
    /\ topic \in {"renamed", "renamed, deprecated"} => OneOfEach
    /\ \A r \in Requests :
        /\ req'[r].kind \in KindsAbout(topic) \cup {"none"}
        /\ req'[r].kind = "updateRole" => UpdateAbout(topic, req'[r])
        /\ req'[r].kind = "createRole" /\ topic = "given" =>
              req'[r].grant = CHOOSE g \in Grants : TRUE

OverlapInit ==
    /\ about \in MemberTopics \cup RoleTopics
    /\ Init /\ overtaken = [r \in Requests |-> {}]

AboutMembers ==
    /\ about \in MemberTopics /\ Next /\ Within(about)

AboutRoles ==
    /\ about \in RoleTopics /\ Next /\ Within(about)
    /\ \A m \in Members \ {Creator} : presence'[m] = presence[m]

OverlapNext == AboutMembers \/ AboutRoles

OverlapSpec == OverlapInit /\ [][OverlapNext]_<<allVars, about>>
=============================================================================
