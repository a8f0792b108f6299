SPECIFICATION PullSpec
CONSTANTS
  w2 = w2
  w3 = w3
  first = first
  second = second
  image = image
  config1 = config1
  config2 = config2
  shared = shared
  Workers = {w1, w2, w3}
  Pullers = {w1}
  Roots = {first, second, image}
  Foreign = {image}
  PartsOf <- MCPartsOf
  NoRoot = noRoot
  Wrong = wrong
  Old = old
  Absent = absent
  Partial = partial
  Crashes = TRUE
  MaxFailures = 2
  MaxChanges = 1
INVARIANTS
  TypeOK
  NothingLost
  RestoredAtRest
  ArchiveResultTrue
  PulledWhole
PROPERTIES
  KeepsExisting
SYMMETRY Others
CHECK_DEADLOCK FALSE
