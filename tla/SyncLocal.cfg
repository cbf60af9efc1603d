SPECIFICATION Spec
CONSTANTS
  g1 = g1
  g2 = g2
  a1 = a1
  a2 = a2
  u1 = u1
  u2 = u2
  sp1 = sp1
  s1 = s1
  s2 = s2
  rg1 = rg1
  rg2 = rg2
  reader = reader
  home = home
  NoId = NoId
  Types <- DirectoryTypes
  OwnedApps <- Tenant
  Principals <- ThreePrincipals
  KindOf <- KindOfThree
  ListPages <- Listing
  Below <- BelowTwo
  LinkPages <- FullPages
  UserRoles <- RolesTwo
  Assigned <- AssignedTwo
  OwnerPages <- OwnersTwo
  Local = TRUE
  WarningLimit = 1
  Faults = {"unavailable", "fatal", "deletion", "crash"}
  MaxFaults = 2
INVARIANTS
  TypeOK
  FinishedComplete
  EntitlementsFirst
  OnlyResumedPanic
PROPERTIES
  ImplementsTenantSync
