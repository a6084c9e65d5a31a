SPECIFICATION FairSpec
CONSTANTS
  p1 = p1
  p2 = p2
  e1 = e1
  e2 = e2
  n1 = n1
  a1 = a1
  Publishers = {p1}
  Workers <- RetryWorkers
  ConsumerOf <- RetryConsumerOf
  InitiallyBound <- RetryConsumers
  BatchSize = 2
  MaxRetry = 1
  DispatchLimit = 1
  ErrorStoreFails = FALSE
  SourceTypes <- OnlyCreated
  MaxSource = 1
  MaxFaults = 3
INVARIANT
  DeadLetterAfterAllRetries
PROPERTY
  EventuallySettled
