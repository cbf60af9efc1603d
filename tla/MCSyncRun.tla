----------------------------- MODULE MCSyncRun -----------------------------
(***************************************************************************)
(* Small tenants for SyncRun.  Directory: two groups, the first one's      *)
(* members on two pages; an application of the tenant and one of another   *)
(* tenant.  Tenancy: objects of every type; two subscriptions that share   *)
(* the name of a built-in role, one of them with two resource groups.      *)
(***************************************************************************)
EXTENDS SyncRunInvariant

CONSTANTS g1, g2, a1, a2, u1, u2, sp1, s1, s2, rg1, rg2, reader, home

ASSUME FullPagesAssumption == PagesAreFull

DirectoryTypes == <<"group", "enterprise_application">>
TenancyTypes == <<"subscription", "resource_group", "role">>
AllTypes == <<"user", "group", "enterprise_application", "role", "managed_identity",
              "subscription", "tenant", "resource_group">>

Tenant == {a1}
ThreePrincipals == {u1, u2, sp1}
KindOfThree == (u1 :> "user") @@ (u2 :> "user") @@ (sp1 :> "Application")

Page(who, size) == [who |-> who, size |-> size]

Listing ==
  ("group" :> <<<<g1>>, <<g2>>>>) @@ ("enterprise_application" :> <<<<a1, a2>>>>) @@
  ("user" :> <<<<u1>>, <<u2>>>>) @@ ("managed_identity" :> <<<<sp1>>>>) @@
  ("tenant" :> <<<<home>>>>) @@ ("subscription" :> <<<<s1>>, <<s2>>>>)

BelowTwo ==
  ("resource_group" :> ((s1 :> <<<<rg1>>, <<rg2>>>>) @@ (s2 :> <<<<rg1>>>>))) @@
  ("role" :> ((s1 :> <<<<reader>>>>) @@ (s2 :> <<<<reader>>>>)))

\* u1 and the service principal come on a full page, u2 on the next one.
FullPages ==
  ("owners" :> ((g1 :> <<Page({u1, sp1}, 2)>>) @@ (g2 :> <<Page({}, 0)>>))) @@
  ("members" :> ((g1 :> <<Page({u1, sp1}, 999), Page({u2}, 1)>>) @@
                 (g2 :> <<Page({u2}, 1)>>)))

\* Users may hold the role "writer"; "daemon" is for applications only.
RolesTwo == (a1 :> {"writer"}) @@ (a2 :> {})
AssignedTwo ==
  (a1 :> {<<u1, "writer">>, <<u2, DefaultRole>>, <<sp1, "daemon">>}) @@
  (a2 :> {<<u2, DefaultRole>>})
OwnersTwo == (a1 :> <<Page({u2}, 1)>>) @@ (a2 :> <<Page({u1}, 1)>>)
=============================================================================
