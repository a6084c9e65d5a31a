SPECIFICATION FairSpec
CONSTANTS
  r1 = r1
  r2 = r2
  k1 = k1
  u1 = u1
  u2 = u2
  a1 = a1
  a2 = a2
  None = None
  Request = {r1, r2}
  Key = {k1}
  KeyOf <- OneClient
  Limit = 1
  Window = 1
  Context = {u1, u2}
  Assignee = {a1, a2}
  First = a1
  Sees <- Assignees
  CacheTtl = 1
INVARIANTS
  TypeOK
  AtMostLimit
  StaleEntriesExplained
  AnswersVisible
PROPERTIES
  WindowEnds
  EventuallyCurrent
