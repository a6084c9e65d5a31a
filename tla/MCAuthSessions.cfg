SPECIFICATION FairSpec
CONSTANTS
  w1 = w1
  w2 = w2
  u1 = u1
  u2 = u2
  t1 = t1
  NoUser = none
  NoTeam = noTeam
  Team = {}
  Worker <- TwoWorkers
  User <- OneUser
  RoleRequests <- LeadOrAdmin
  AccessTtl = 1
  RefreshTtl = 1
  MaxSessions = 4
  MaxGrants = 1
  MaxTeamGrants = 0
  MaxTime = 1
CHECK_DEADLOCK FALSE
INVARIANT
  RotationBounded
PROPERTIES
  RevokedStaysUnused
  EveryRequestEnds
