SPECIFICATION FairSpec
CONSTANTS
  r1 = r1
  r2 = r2
  w1 = w1
  w2 = w2
  a1 = a1
  a2 = a2
  Reader = {r1, r2}
  Writer = {w1, w2}
  Agent = {a1, a2}
  nil = nil
  inilim = 2
  Limits = {2, 3}
  PrintLimit = 3
  Uses <- MCUses
CHECK_DEADLOCK FALSE
INVARIANTS Accounting NoLostReader NoStall WholeMessages
PROPERTIES Stream Delivered
