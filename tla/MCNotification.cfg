SPECIFICATION FairSpec
CONSTANTS
  Notifications <- MCNotifications
  Channels = {"email", "push"}
  Workers = {"w1", "w2"}
  BatchSize = 2
  MaxAttempts = 3
  MaxFaults = 2
CHECK_DEADLOCK FALSE
INVARIANTS
  TypeOK
  RepeatsAreFaults
PROPERTIES
  OutcomesStay
  SendsAtLeastOnce
  EveryDeliveryEnds
