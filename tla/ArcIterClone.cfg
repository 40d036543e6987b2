SPECIFICATION SpecWithIterClone
CONSTANTS
  Threads = {t1}
  Refs = {r1, r2, r3, r4}
  Iters = {i1, i2}
  Objs = {o1}
  Vals = {v1}
  None = None
  MAX_REFCOUNT = 4
  UsizeMax = 7
  MaxMany = 2
INVARIANT LeftoverKeepsOne
CHECK_DEADLOCK FALSE
