SPECIFICATION Spec
CONSTANTS
  Subjects = {"orders"}
  Nothing = Nothing
  a1 = a1
  a2 = a2
  a3 = a3
  v1 = v1
  v2 = v2
  m1 = m1
  m2 = m2
SYMMETRY Symmetry
CHECK_DEADLOCK FALSE
INVARIANTS BookedOnce
