SPECIFICATION Spec
CONSTANTS
  w1 = w1
  w2 = w2
  u1 = u1
  sp1 = sp1
  n1 = n1
  n2 = n2
  n3 = n3
  reader = reader
  group1 = group1
  app1 = app1
  sub = sub
  rg = rg
  Workers = {w1, w2}
  Users = {u1}
  NonUsers = {}
  Names = {n1, n2}
  Visible <- VisibleScopes
  Entitlements <- RolesOnly
  Initial <- NoAccess
  Faults = {"deny", "admin"}
INVARIANT
  GrantHonest
