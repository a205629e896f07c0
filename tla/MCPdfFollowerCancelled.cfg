CONSTANTS
  Requests = {r1, r2, r3}
  Keys = {k1}
  MaxAudits = 3
  NoOne = NoOne
  Pending = Pending
  CancelPoints <- FollowerCancelled
  QueueBound = 1
SPECIFICATION Spec
SYMMETRY Symmetry
INVARIANT
  ToldWhatHappened
