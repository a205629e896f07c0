SPECIFICATION FairSpec
CONSTANTS
  DefaultScope = s1
  MaxRuns = 3
  Scopes = {s1, s2}
  AbortPoints <- QuietAborts
INVARIANTS TypeOK NewestOwnsState NewestOwnsPage OutcomeShown PillsTellQuestion TryAgainIsDue
PROPERTY LoadingEnds
CHECK_DEADLOCK FALSE
