SPECIFICATION Spec
CONSTANTS
  Background <- MCBackground
  Zones <- MCZones
  MaxLost = 1
  WalkQueryBudget = 8
  SpfLookupLimit = 4
  MxHostLimit = 2
  MaxDepth = 4
  DkimDropThreshold = 2
  CertCap = 2
  ExpiringDays = 10
  SpotterPages = 2
  AprfSelectorCap = 1
INVARIANT LossNeverFails
CHECK_DEADLOCK FALSE
