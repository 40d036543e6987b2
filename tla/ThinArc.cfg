SPECIFICATION Spec
CONSTANTS
  Threads = {t1, t2}
  Objs = {o1}
  None = None
  MaxLen = 2
  MaxRefs = 4
INVARIANTS LengthsAgree ReferencesCounted
CHECK_DEADLOCK FALSE
