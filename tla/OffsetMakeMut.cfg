SPECIFICATION SpecWithPanic
CONSTANTS
  Threads = {t1}
  Refs = {h1, h2}
  Objs = {32}
  None = None
  DataOffset <- WordAndDouble
INVARIANT PanicKeepsReference
CHECK_DEADLOCK FALSE
