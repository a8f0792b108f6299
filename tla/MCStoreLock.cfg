SPECIFICATION FairLockSpec
CONSTANTS
  w1 = w1
  w2 = w2
  w3 = w3
  w4 = w4
  h1 = h1
  h2 = h2
  NoWorker = NoWorker
  NoHandle = NoHandle
  Workers <- MCWorkers
  Handles <- MCHandles
  HandleOf <- MCHandleOf
INVARIANTS
  NoLeakedLock
PROPERTIES
  ImplementsMutex
  PollingIsNotStuck
  DeadlineSuffices
