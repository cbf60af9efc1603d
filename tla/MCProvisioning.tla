--------------------------- MODULE MCProvisioning ---------------------------
(***************************************************************************)
(* A small tenant for Provisioning: one role at a subscription and at a    *)
(* resource group of it, one group, one enterprise application.            *)
(***************************************************************************)
EXTENDS Provisioning, TLC

CONSTANTS w1, w2, u1, sp1, n1, n2, n3, reader, group1, app1, sub, rg

Here == "tenant"   \* the one scope of everything that is not in ARM

RoleEntitlement ==
  [type |-> "role", slug |-> "assigned", object |-> reader, scope |-> sub]
RoleOwners ==
  [type |-> "role", slug |-> "owners", object |-> reader, scope |-> sub]
GroupRoleEntitlement ==
  [type |-> "resource_group_role_assignment", slug |-> "assigned",
   object |-> reader, scope |-> rg]
Membership ==
  [type |-> "group", slug |-> "members", object |-> group1, scope |-> Here]
AppAssignment ==
  [type |-> "enterprise_application", slug |-> "assignment", object |-> app1, scope |-> Here]
AppOwners ==
  [type |-> "enterprise_application", slug |-> "owners", object |-> app1, scope |-> Here]

\* Subscription and resource group lie on one path of scopes.
VisibleScopes == (sub :> {sub, rg}) @@ (rg :> {sub, rg})

AllEntitlements ==
  {RoleEntitlement, GroupRoleEntitlement, Membership, AppAssignment, AppOwners}
RolesOnly == {RoleEntitlement, RoleOwners, GroupRoleEntitlement}

OneOfEach ==
  {Edge(u1, GroupRoleEntitlement, n1), Edge(u1, Membership, Ref), Edge(sp1, AppAssignment, n2)}
NoAccess == {}

\* The workers differ in nothing.
Interchangeable == Permutations(Workers)
=============================================================================
