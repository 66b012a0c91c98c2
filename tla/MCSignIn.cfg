SPECIFICATION Spec
CONSTANTS
  Calls = {"c1", "c2", "c3"}
  First = "first"
  None = "none"
  Passwords = {"p1"}
  Roles = {"r"}
  Tabs = {"t1", "t2"}
  Scenes <- MCScenes
CHECK_DEADLOCK FALSE
INVARIANTS
  TypeOK
  RotationClosesTheOld
  SessionsInOrder
  CookieFollowsSession
PROPERTIES
  Settles
