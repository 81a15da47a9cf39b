CONSTANTS
  Proc = {p1}
  Rendezs = {r1, r2}
  Waker = {w1}
  Poster = {}
  Clock = clock
  nil = nil
  MayRendezvous = {}
SPECIFICATION Spec
INVARIANT OwnTimeout
