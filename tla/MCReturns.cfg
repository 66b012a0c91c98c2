SPECIFICATION Spec
CONSTANTS
  q1 = q1 q2 = q2 q3 = q3 q4 = q4
  d1 = d1 d2 = d2
  o1 = o1
  Orders = {o1}
  Payments <- MCPayments
  PaidFor <- MCPaidFor
  Direct = {d1, d2}
  Calls = {q1, q2, q3, q4}
SYMMETRY Symmetry
CHECK_DEADLOCK FALSE
INVARIANTS
  TypeOK
  StatusHasReasons
  HistoryExplainsPayment
  AnnouncedRefundHappened
  ReturnHasReasons
  DecidedOnce
