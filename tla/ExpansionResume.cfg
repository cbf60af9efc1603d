SPECIFICATION Spec
CONSTANTS
  a = a
  b = b
  c = c
  d = d
  r = r
  u1 = u1
  u2 = u2
  groupA = groupA
  groupB = groupB
  groupC = groupC
  Entitlements <- AllEntitlements
  Principals <- AllPrincipals
  KindOf <- KindOfAll
  PageOf <- TwoPages
  Directories <- OneDirectory
  MaxDepth = 2
  MaxInterrupts = 1
INVARIANT
  ResumedExactly
