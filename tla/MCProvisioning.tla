--------------------------- MODULE MCProvisioning ---------------------------
(***************************************************************************)
(* Instances of Provisioning for TLC.                                      *)
(***************************************************************************)
EXTENDS Provisioning, TLC

CONSTANTS p1, p2, admin, user, org, super, orgadm, custom, nothing

TwoHandlers == {p1, p2}
TwoUsers == {admin, user}
OneOrg == {org}
ThreeRoles == {super, orgadm, custom}
SystemRoles == {super, orgadm}
TwoPerms == {"user:manage", "organization:manage"}
ThreeNames == {"super_admin", "org_admin", "editor"}
SomeRefs == {custom, "editor"}
SystemNames == (super :> "super_admin") @@ (orgadm :> "org_admin")
SystemPerms == [r \in SystemRoles |-> TwoPerms]

\* Handlers are alike.
Symmetry == Permutations(TwoHandlers)
=============================================================================
