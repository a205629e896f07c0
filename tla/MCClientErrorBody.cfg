SPECIFICATION Spec
CONSTANTS
  DefaultScope = s1
  MaxRuns = 2
  Scopes = {s1}
  AbortPoints <- AllAborts
INVARIANT NewestOwnsPage
CHECK_DEADLOCK FALSE
