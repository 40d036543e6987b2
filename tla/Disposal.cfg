SPECIFICATION Spec
CONSTANTS
  Threads = {t1, t2}
  Workers = {w1}
  Objs = {o1, o2, o3}
  Cells = {o3}
  None = None
  MaxArcs = 4
INVARIANTS TypeOK ArcsPointToLive CyclesNeedCells DisposedOnce
PROPERTY EventuallyFreed
\* Cycles that nothing frees may use up the Arcs there can be.
CHECK_DEADLOCK FALSE
