CONSTANTS
  p1 = p1
  p2 = p2
  p3 = p3
  a = a
  b = b
  r1 = r1
  w1 = w1
  n1 = n1
  clock = clock
  t1 = t1
  t2 = t2
  hz = hz
  nil = nil
SPECIFICATION FairSpec
INVARIANTS ListsExact NoForgottenWaiter
PROPERTY GoesOn
CHECK_DEADLOCK FALSE
