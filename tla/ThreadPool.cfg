SPECIFICATION FairSpec
CONSTANTS
  Workers = {w1, w2}
  Callers = {c1, c2, c3}
  Jobs = {1, 2, 3, 4}
  Endless = {2}
  None = None
  MaxSpurious = 1
INVARIANTS Exclusive OnceEach
PROPERTIES NobodyHangs
CHECK_DEADLOCK FALSE
