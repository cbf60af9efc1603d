-------------------------- MODULE MCGrantExpansion --------------------------
(***************************************************************************)
(* Small directories for GrantExpansion: memberships of groups a, b and c  *)
(* in one another, and an application role r.                              *)
(***************************************************************************)
EXTENDS GrantExpansion, TLC

CONSTANTS a, b, c, d, r, u1, u2, groupA, groupB, groupC

AllEntitlements == {a, b, c, d, r}
AllPrincipals == {u1, u2, groupA, groupB, groupC}
KindOfAll ==
  (u1 :> "user") @@ (u2 :> "user") @@
  [g \in {groupA, groupB, groupC} |-> "group"]
TwoPages == [p \in AllPrincipals |-> IF p = u2 THEN 2 ELSE 1]
MemberOf == (groupA :> a) @@ (groupB :> b) @@ (groupC :> c)

Plain(on, who, n) ==
  [on |-> on, who |-> who, source |-> {}, shallow |-> FALSE, kinds |-> {}, page |-> n]
Nested(on, group, n) ==
  [on |-> on, who |-> group, source |-> {MemberOf[group]}, shallow |-> FALSE,
   kinds |-> {}, page |-> n]
AppRole(on, group, n) ==
  [Nested(on, group, n) EXCEPT !.shallow = TRUE, !.kinds = {"user"}]

Directory(grants) == [stored |-> AllEntitlements, pages |-> 2, grants |-> grants]

\* b holds a, c holds a and b; u1 is a member twice.
Diamond ==
  Directory({Plain(a, u1, 1), Plain(b, u2, 1), Plain(c, u1, 1),
             Nested(b, groupA, 1), Nested(c, groupA, 2), Nested(c, groupB, 2)})

\* a and b hold each other; c is held by a, and d by b.
Cycle ==
  Directory({Plain(a, u1, 1), Plain(b, u2, 1), Nested(a, groupB, 1), Nested(b, groupA, 2),
             Plain(c, u2, 1), Nested(a, groupC, 1), Nested(d, groupB, 2)})

\* The role is given to b, which holds a; the role's members are direct ones.
RoleOnNested ==
  Directory({Plain(a, u1, 1), Plain(b, u2, 1), Nested(b, groupA, 1), AppRole(r, groupB, 2)})

\* The same where the group a was not synced.
RoleOnUnknown == [RoleOnNested EXCEPT !.stored = @ \ {a}, !.grants = {g \in @ : g.on # a}]

\* A way of three edges, and one of two beside it.
Deep ==
  Directory({Plain(a, u1, 1), Nested(b, groupA, 1), Nested(c, groupB, 1),
             Nested(d, groupC, 2), Nested(d, groupA, 2)})

\* A ring of three, which pairs do not show.
Ring ==
  Directory({Plain(a, u1, 1), Nested(b, groupA, 1), Nested(c, groupB, 2), Nested(a, groupC, 2),
             Plain(b, u2, 2)})

ManyDirectories == {Diamond, Cycle, RoleOnNested, RoleOnUnknown, Deep, Ring}
OneDirectory == {Diamond}
=============================================================================
