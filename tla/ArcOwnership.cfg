SPECIFICATION Spec
CONSTANTS
  Threads = {t1, t2}
  Refs = {r1, r2, r3}
  Iters = {i1}
  Objs = {o1, o2}
  Vals = {v1}
  None = None
  MAX_REFCOUNT = 2
  UsizeMax = 5
  MaxMany = 2
PROPERTY OwnershipHolds
CHECK_DEADLOCK FALSE
