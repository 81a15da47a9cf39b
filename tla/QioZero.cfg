SPECIFICATION Spec
CONSTANTS
  r1 = r1
  r2 = r2
  w1 = w1
  w2 = w2
  a1 = a1
  a2 = a2
  Reader = {r1, r2}
  Writer = {w1, w2}
  Agent = {a1, a2}
  nil = nil
  inilim = 2
  Limits = {}
  PrintLimit = 0
  Uses <- MCZeroUses
CHECK_DEADLOCK FALSE
INVARIANTS NoStall
