SPECIFICATION Spec
CONSTANTS
  Calls = {"c1", "c2", "c3"}
  Products = {"plain", "variant"}
  WithVariant = {"variant"}
  MaxQuantity = 3
  Commands <- MCCommands
CHECK_DEADLOCK FALSE
INVARIANTS
  TypeOK
  OneLinePerProduct
  LoadedWasStored
  LinesAnnounced
  CacheIsCurrent
  ReadsOwnWrites
