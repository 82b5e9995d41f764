SPECIFICATION FairSpec

CONSTANTS
  s1 = s1
  s2 = s2
  Shells = {s1, s2}
  Faults = {"hide", "loseEnd", "kill", "nest", "background"}
  MaxRows = 4
  None = None

INVARIANTS
  ExitCodeIsOwn

PROPERTIES
  ClosedOnce
  FinishedIsClosed

CHECK_DEADLOCK FALSE
