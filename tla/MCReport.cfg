SPECIFICATION LossSpec
CONSTANTS
  Background <- MCBackground
  Zones <- MCZones
  MaxLost = 2
  WalkQueryBudget = 8
  SpfLookupLimit = 4
  MxHostLimit = 2
  MaxDepth = 4
  DkimDropThreshold = 2
  CertCap = 2
  ExpiringDays = 10
  SpotterPages = 2
  AprfSelectorCap = 1
INVARIANTS
  LossIsNoFinding
  RestIsNoFinding
  CountIsExact
  PlanIsCarriedOut
  AdviceSettles
  HeadlineHonest
CHECK_DEADLOCK FALSE
