CONSTANTS
  Proc = {p1, p2, p3}
  NMach = 3
  Schedsz = 2
  Npriq = 1
  nil = nil
  WireTo = {2, nil}
  MayExit = {}
  ExitYields = TRUE
  MaxDrift = 1
SPECIFICATION NoExits
SYMMETRY Symmetry
INVARIANTS TypeOK StackSafe QueuedOnce
