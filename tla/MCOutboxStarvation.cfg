SPECIFICATION FairSpec
CONSTANTS
  Workers = {"w1"}
  Messages <- MCMessages
  Handlers <- MCHandlers
  FailsAt <- MCFailsAt
  BatchSize = 2
  MaxFaults = 0
CHECK_DEADLOCK FALSE
PROPERTIES
  EverythingIsDelivered
