SPECIFICATION Spec
CONSTANTS
  w1 = w1
  w2 = w2
  sub1 = sub1
  sub2 = sub2
  reader = reader
  owner = owner
  a1 = a1
  a2 = a2
  a3 = a3
  a4 = a4
  NoCall = NoCall
  Workers = {w1}
  Subscriptions <- TwoSubscriptions
  Roles <- TwoRoles
  Assignments <- FourAssignments
  SubOf <- SubOfFour
  RoleOf <- RoleOfFour
  PageOf <- PageOfFour
  KindOf <- KindOfFour
  LastPage = 2
  Failures = {}
INVARIANTS
  TypeOK
  CacheSound
  FilledEntryComplete
PROPERTIES
  AnswersComplete
  EntryFrozen
  ImplementsListing
