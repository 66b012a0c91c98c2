SPECIFICATION Spec
CONSTANTS
  c1 = c1
  c2 = c2
  c3 = c3
  c4 = c4
  c5 = c5
  c6 = c6
  Calls <- MCCalls
  e1 = e1
  e2 = e2
  Earlier = {e1, e2}
  None = None
  Orders = {"o1", "o2", "o3"}
  MaxRedemptions = 2
  Prices = {1, 2}
  Categories = {"k"}
  Names = {"admin", "n"}
  System = {"admin"}
  Keys = {"key"}
  Products = {"p1", "p2"}
  Quantities = {1, 2}
  Cells = {"x", "y"}
  DeskCalls <- MCDeskCalls
SYMMETRY Symmetry
CHECK_DEADLOCK FALSE
INVARIANTS
  TypeOK
  OneDefaultAddress
  RedemptionsWithinLimit
  AnswersStand
  CopiesFollow
