SPECIFICATION Spec
CONSTANTS
  Requests = {r1, r2, r3}
  Keep = 1
  Forgetful = TRUE
  MaxFailures = 1
  Absent = Absent
  None = None
SYMMETRY RequestSymmetry
INVARIANTS NoTurnLost RemembersSession OnePlaceholder
CHECK_DEADLOCK FALSE
