SPECIFICATION Spec
CONSTANTS
  p1 = p1
  p2 = p2
  e1 = e1
  e2 = e2
  n1 = n1
  a1 = a1
  Publishers = {p1, p2}
  Workers <- ScaledWorkers
  ConsumerOf <- ScaledConsumerOf
  InitiallyBound <- OnlyEnrichment
  BatchSize = 1
  MaxRetry = 1
  DispatchLimit = 1
  ErrorStoreFails = TRUE
  SourceTypes <- CreatedOrDeleted
  MaxSource = 2
  MaxFaults = 2
SYMMETRY ScaledSymmetry
INVARIANTS
  HandledOnce
  ClaimExclusive
  OneDerivedEvent
  PublishedNotLost
