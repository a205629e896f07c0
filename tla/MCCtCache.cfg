SPECIFICATION Spec
CONSTANTS
  Calls = {c1, c2, c3}
  Domains = {d1, d2}
  FreshFor = 2
  SilentFor = 1
  MaxEntries = 1
  EvictCount = 1
  NoCall = NoCall
  MaxTime = 3
SYMMETRY Symmetry
INVARIANTS TypeOK OnlyAnswersStored RealResultWins OldOnlyAfterFailure
CHECK_DEADLOCK FALSE
