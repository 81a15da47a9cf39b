CONSTANTS
  p1 = p1
  p2 = p2
  p3 = p3
  r1 = r1
  w1 = w1
  n1 = n1
  clock = clock
  nil = nil
SPECIFICATION Spec
INVARIANTS NoneLost NoneAstray WaitExact NoSharedWrite RefsExact
  MemoryExact FilesSafe
PROPERTIES NsExact AfterKeeps
CHECK_DEADLOCK FALSE
