SPECIFICATION FairSpec
CONSTANTS
  request1 = request1
  Hole = Hole
  ByRequest = {request1}
  MaxEvents = 2
  MaxLogins = 1
  MaxRequests = 1
  MaxFaults = 1
INVARIANTS
  TypeOK
  SoloReportCurrent
PROPERTY
  AgainAndAgainCurrent
