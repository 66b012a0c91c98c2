SPECIFICATION Spec
CONSTANTS
  i1 = i1 i2 = i2
  NoItem = NoItem
  Items = {i1, i2}
  Openings = {1}
  MaxInt4 = 3
  Sessions = {"s"}
  Calls <- MCCalls
  Disputed = {1}
  Cart <- MCCart
  Worker = "worker"
  BatchSize = 1
  MaxFaults = 1
CHECK_DEADLOCK FALSE
INVARIANTS
  ComponentInvariants
  CheckoutInOrder
  ReservedBeforeNotified
  OnceWithoutFaults
