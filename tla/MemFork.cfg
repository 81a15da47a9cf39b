CONSTANTS
  Proc = {p1, p2, p3}
  First = p1
  Text = {}
  Data = {"d"}
  Bss = {}
  NSeg = 2
  NPage = 5
  May = {"copy", "share"}
  nil = nil
SPECIFICATION Spec
INVARIANT NoSharedWrite
CHECK_DEADLOCK FALSE
