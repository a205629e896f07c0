CONSTANTS
  Requests = {1, 2, 3, 4, 5, 6}
  IPs = {i1, i2, i3, i4}
  Max = 2
  Window = 2
  MaxIPs = 2
  MaxTime = 4
SPECIFICATION OrderedSpec
SYMMETRY Symmetry
CHECK_DEADLOCK FALSE
INVARIANTS
  WindowBound
  TableBounded
PROPERTY
  RefusedOnlyWhenSpent
