SPECIFICATION SafeSpec
CONSTANTS
  Threads = {t1, t2}
  Refs = {r1, r2, r3, r4}
  Iters = {i1}
  Objs = {o1, o2}
  Vals = {v1, v2}
  None = None
  MAX_REFCOUNT = 3
  UsizeMax = 7
  MaxMany = 2
SYMMETRY Symmetry
INVARIANTS TypeOK CountExact NoDangling SoleDisposer NoLeak ExclusiveMut UniqueIsSole IterBacked LeftoverKeepsOne
PROPERTY ValueStable
CHECK_DEADLOCK FALSE
