CONSTANTS
  p1 = p1
  p2 = p2
  p3 = p3
  nil = nil
SPECIFICATION Spec
INVARIANTS RepliesMatch InSync DriveSafe RingsExact NetExact EndsExact
PROPERTIES AlertLast
CHECK_DEADLOCK FALSE
