SPECIFICATION Spec
CONSTANTS
  a = a
  b = b
  c = c
  d = d
  r = r
  u1 = u1
  u2 = u2
  groupA = groupA
  groupB = groupB
  groupC = groupC
  Entitlements <- AllEntitlements
  Principals <- AllPrincipals
  KindOf <- KindOfAll
  PageOf <- TwoPages
  Directories <- ManyDirectories
  MaxDepth = 2
  MaxInterrupts = 2
INVARIANTS
  TypeOK
  SourcesTrue
  ExpandedExactly
  AncestorsFirst
  DepthLimit
PROPERTY
  RunsEnd
