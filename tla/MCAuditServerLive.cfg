CONSTANTS
  Requests = {1, 2, 3}
  Keys = {k1}
  MaxAudits = 2
  NoOne = NoOne
  Pending = Pending
  CancelPoints <- LeadersCancelled
  QueueBound = 0
SPECIFICATION LiveSpec
PROPERTY
  EveryRequestEnds
