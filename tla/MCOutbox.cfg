SPECIFICATION FairSpec
CONSTANTS
  Workers = {"w1", "w2"}
  Messages <- MCMessages
  Handlers <- MCHandlers
  FailsAt <- MCFailsAt
  BatchSize = 3
  MaxFaults = 2
CHECK_DEADLOCK FALSE
INVARIANTS
  TypeOK
  ProcessedAfterAllHandlers
  HandlersInOrder
PROPERTIES
  DeliversAtLeastOnce
  EverythingIsDelivered
