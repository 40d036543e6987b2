SPECIFICATION SafeSpec
CONSTANTS
  Threads = {t1, t2}
  Refs = {r1, r2, r3, r4, r5, r6}
  Iters = {i1}
  Objs = {o1}
  Vals = {v1}
  None = None
  MAX_REFCOUNT = 2
  UsizeMax = 5
  MaxMany = 3
SYMMETRY Symmetry
INVARIANT NoWrap
CHECK_DEADLOCK FALSE
