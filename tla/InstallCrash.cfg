SPECIFICATION Spec
CONSTANTS
  Workers = {w1, w2, w3}
  Old = old
  Absent = absent
  Partial = partial
  Crashes = TRUE
  MaxFailures = 0
INVARIANTS
  AtomicThroughCrashes
CHECK_DEADLOCK FALSE
