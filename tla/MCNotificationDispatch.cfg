SPECIFICATION FairSpec
CONSTANTS
  service = service
  byHand = byHand
  Dispatchers <- ServiceAndManualRun
  Deliveries <- ThreeDeliveries
  BatchSize = 2
  MaxFaults = 2
CHECK_DEADLOCK FALSE
INVARIANTS
  TypeOK
  OneSentEvent
  MailsAccounted
PROPERTY
  EventuallySent
