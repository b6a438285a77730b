SPECIFICATION ManuscriptSpec
CONSTANTS
  g1 = g1
  g2 = g2
  p1 = p1
  p2 = p2
  None = None
  Gen <- BothGen
  Polish <- BothPolish
  AutoApply <- AutoMain
  MaxTasks = 3
  MaxTries = 2
  MaxNumber = 3
  MaxSources = 1
INVARIANTS AppliedOnce UnfinishedIsNewest
PROPERTIES VersionIsOfTheTextSeen RecoveryKeepsLaterText ToldIsTrue
CHECK_DEADLOCK FALSE
