SPECIFICATION Spec
CONSTANTS
  p1 = p1
  p2 = p2
  e1 = e1
  e2 = e2
  n1 = n1
  a1 = a1
  Publishers = {p1}
  Workers <- ComposeWorkers
  ConsumerOf <- ComposeConsumerOf
  InitiallyBound <- Consumer
  BatchSize = 2
  MaxRetry = 1
  DispatchLimit = 1
  ErrorStoreFails = FALSE
  SourceTypes <- OnlyCreated
  MaxSource = 1
  MaxFaults = 2
INVARIANTS
  TypeOK
  HandledOnce
  OneDerivedEvent
  PublishedNotLost
PROPERTY
  ImplementsChain
