SPECIFICATION Spec
CONSTANTS
  Threads = {t1, t2}
  Refs = {h1, h2, h3}
  Objs = {32, 64}
  None = None
  DataOffset <- WordAndDouble
INVARIANTS TypeOK PointsHome HandlesCounted MutIsSole
PROPERTY HandlesOwn
CHECK_DEADLOCK FALSE
