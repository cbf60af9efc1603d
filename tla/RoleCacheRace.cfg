SPECIFICATION Spec
CONSTANTS
  w1 = w1
  w2 = w2
  sub1 = sub1
  sub2 = sub2
  reader = reader
  owner = owner
  a1 = a1
  a2 = a2
  a3 = a3
  a4 = a4
  NoCall = NoCall
  Workers = {w1, w2}
  Subscriptions <- OneSubscription
  Roles <- OneRole
  Assignments <- TwoAssignments
  SubOf <- SubOfTwo
  RoleOf <- RoleOfTwo
  PageOf <- PageOfTwo
  KindOf <- KindOfTwo
  LastPage = 2
  Failures = {}
PROPERTY
  AnswersComplete
