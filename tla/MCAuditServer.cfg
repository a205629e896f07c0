CONSTANTS
  Requests = {r1, r2, r3}
  Keys = {k1, k2}
  MaxAudits = 2
  NoOne = NoOne
  Pending = Pending
  CancelPoints <- SafeCancelPoints
  QueueBound = 1
SPECIFICATION Spec
SYMMETRY Symmetry
INVARIANTS
  TypeOK
  SlotsAccounted
  SingleFlight
  NobodyStranded
  ToldWhatHappened
  CacheHoldsAudits
  LogTellsOutcome
PROPERTY
  ImplementsService
