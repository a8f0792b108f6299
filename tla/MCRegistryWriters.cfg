SPECIFICATION Spec
CONSTANTS
  w1 = w1
  w2 = w2
  a = a
  b = b
  c = c
  p = p
  x = x
  y = y
  NoManifest = NoManifest
  NoCall = NoCall
  Workers = {w1, w2}
  Attached = {a, b}
  Standalone = {p}
  Slots = {x, y}
  SlotOf <- MCSlotOf
  Menu <- MenuWriters
  MaxFaults = 1
INVARIANTS
  TypeOK
  AttachedIsListed
  PruneLeavesOne
PROPERTIES
  ReplaceGuard
  PruneSparesPrimary
