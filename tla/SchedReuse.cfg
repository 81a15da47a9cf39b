CONSTANTS
  Proc = {p1, p2}
  NMach = 2
  Schedsz = 2
  Npriq = 1
  nil = nil
  WireTo = {nil}
  MayExit = {p1}
  ExitYields = FALSE
  MaxDrift = 0
SPECIFICATION Spec
INVARIANT StackSafe
