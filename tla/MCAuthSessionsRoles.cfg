SPECIFICATION Spec
CONSTANTS
  w1 = w1
  w2 = w2
  u1 = u1
  u2 = u2
  t1 = t1
  NoUser = none
  NoTeam = noTeam
  Team = {t1}
  Worker <- TwoWorkers
  User <- TwoUsers
  RoleRequests <- LeadAdminOrNone
  AccessTtl = 1
  RefreshTtl = 2
  MaxSessions = 2
  MaxGrants = 4
  MaxTeamGrants = 3
  MaxTime = 1
SYMMETRY Symmetry
CHECK_DEADLOCK FALSE
INVARIANTS
  TypeOK
  RolesOfLatestRequests
  EndedMembershipsRecorded
PROPERTY
  AdminsComeFromAdmins
