SPECIFICATION Spec
CONSTANTS
  Elems = {e1, e2, e3}
  None = None
  MaxLen = 3
  MaxArcs = 3
INVARIANTS TypeOK OneOwner InitializedWhenShared NothingLost
PROPERTY HonestNeverBlamed
CHECK_DEADLOCK FALSE
