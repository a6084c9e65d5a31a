SPECIFICATION FairSpec
CONSTANTS
  r1 = r1
  r2 = r2
  r3 = r3
  t0 = t0
  owner = owner
  assignee = assignee
  lead = lead
  admin = admin
  team = team
  other = other
  k1 = k1
  NoKey = NoKey
  NoRow = NoRow
  Requests = {r1, r2, r3}
  Users = {owner, assignee, lead, admin}
  Teams = {team, other}
  Keys = {k1}
  Admins = {admin}
  LeadOf <- OneLead
  InitialTasks = {t0}
  InitialRow <- ExistingTask
  Calls <- AllCalls
  MaxExpired = 1
CHECK_DEADLOCK FALSE
INVARIANTS
  TypeOK
  OneEffectPerKey
  StatusIsLastHistory
  EventsFollowLifecycle
  
PROPERTY
  EveryRequestAnswered
