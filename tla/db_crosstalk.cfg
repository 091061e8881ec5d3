SPECIFICATION Spec
CONSTANTS
  Workers = {w1, w2}
  Users = {u1, u2}
  Pwds = {p1, p2}
  None = None
SYMMETRY Symmetry
INVARIANT WrongPasswordRefused
CHECK_DEADLOCK FALSE
