CONSTANTS
  Proc = {p1, p2}
  Deep = {p2}
  Machs = {0, 1}
  nil = nil
  Ndelaysched = 2
SPECIFICATION FairSpec
INVARIANT LocksHold
PROPERTY Unstuck
