SPECIFICATION Spec
CONSTANTS
  Threads = {t1, t2}
  Refs = {r1, r2, r3}
  None = None
  MaxWrites = 4
SYMMETRY Symmetry
INVARIANTS TypeOK DataRaceFree DisposalOrdered UniqueIsCurrent
CHECK_DEADLOCK FALSE
