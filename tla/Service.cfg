SPECIFICATION FairSpec
CONSTANTS
  s1 = s1
  s2 = s2
  grant = grant
  hello = hello
  u1 = u1
  sub = sub
  Tasks <- AllTasks
  Hello = hello
  Slots = 2
  Clients = {s1, s2}
  Urls = {u1}
  MaxChanges = 1
  Syncs = {s1, s2}
  Writers = {grant}
  Subs = {sub}
  Order <- TwoReads
  MaxFaults = 2
INVARIANTS
  TypeOK
  SlotsAccounted
  CleanAtRest
  FreshWhenClean
  RolesOfThisProcess
PROPERTIES
  PollsOn
  SyncsCatchUp
  RolesCatchUp
