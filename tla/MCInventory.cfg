SPECIFICATION Spec
CONSTANTS
  i1 = i1 i2 = i2
  o1 = o1 o2 = o2
  r1 = r1 r2 = r2 r3 = r3
  NoItem = NoItem
  Items = {i1, i2}
  Orders = {o1, o2}
  Requests = {r1, r2, r3}
  MaxInt4 = 3
  Openings = {2}
  Commands <- MCCommands
SYMMETRY Symmetry
CHECK_DEADLOCK FALSE
INVARIANTS
  TypeOK
  ReservedWithinOnHand
  ReservationsAnnounced
  NothingLost
