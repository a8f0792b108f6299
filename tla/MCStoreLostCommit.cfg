SPECIFICATION Spec
CONSTANTS
  w1 = w1
  w2 = w2
  w3 = w3
  h1 = h1
  h2 = h2
  d1 = d1
  d2 = d2
  cfg = cfg
  la = la
  lb = lb
  ra = ra
  rb = rb
  NoWorker = NoWorker
  NoHandle = NoHandle
  NoCall = NoCall
  Workers = {w1, w2, w3}
  Docs = {d1, d2}
  Leaves = {cfg, la, lb}
  Origins = {ra, rb}
  Handles <- MCHandles
  HandleOf <- MCHandleOf
  ConfigOf <- MCConfigOf
  LayersOf <- MCLayersOf
  Menu <- MenuMutators
  FaultKinds = {"crash"}
  MaxFaults = 1
INVARIANT CommittedIsListed
