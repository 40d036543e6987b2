SPECIFICATION Spec
CONSTANTS
  Threads = {t1, t2, t3}
  Refs = {r1, r2}
  None = None
  MaxWrites = 3
SYMMETRY Symmetry
INVARIANTS DataRaceFree DisposalOrdered
CHECK_DEADLOCK FALSE
