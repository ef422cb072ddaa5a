CONSTANTS
  s1 = s1
  s2 = s2
  a1 = a1
  a2 = a2
  u1 = u1
  Session = {s1, s2}
  UC = {u1}
  AC = {a1, a2}
  NoUC = NoUC
  NoAC = NoAC
  Targets = {"in_progress", "done", "archived"}
  Concurrent = FALSE
  MaxNow = 4
CHECK_DEADLOCK FALSE
SPECIFICATION Spec
SYMMETRY Symm
INVARIANTS AcceptanceHolds NotifiedUnlessTrimmed
PROPERTIES EventsAreTrue
