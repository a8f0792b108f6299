SPECIFICATION Spec
CONSTANTS
  a = a
  A = A
  d = d
  doc = doc
  log = log
  gone = gone
  u = u
  v = v
  w = w
  All = All
  Names = {a, A, d}
  Types = {doc, log}
  Documents = {a, A}
  Data = {u, v, w}
  Lower <- MCLower
  Places <- MCPlaces
  Jobs <- MCJobs
  Contents <- MCContents
  Default <- MCDefault
  MaxAlters = 1
INVARIANTS
  TypeOK
  GivesWhatIsNamed
  DestinationSound
  RefusesBeforeWriting
  SucceedsWhenItCan
  VerifyIsRight
  DiffIsExact
