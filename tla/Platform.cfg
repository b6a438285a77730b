SPECIFICATION PlatformSpec
CONSTANTS
  r1 = r1
  r2 = r2
  w1 = w1
  w2 = w2
  b1 = b1
  t1 = t1
  t2 = t2
  t3 = t3
  app = app
  proj = proj
  e1 = e1
  e2 = e2
  k1 = k1
  k2 = k2
  u1 = u1
  u2 = u2
  s1 = s1
  s2 = s2
  m1 = m1
  m2 = m2
  \* DatabaseFiles
  Request = {r1, r2}
  Missing = Missing
  MaxEdits = 2
  MaxFaults = 2
  MaxAsks = 2
  \* Backups
  MaxBackups = 4
  MaxDays = 3
  MaxStops = 1
  Policies <- ShortPolicy
  DefaultPolicy <- LongPolicy
  \* ComputeWorkers
  Window = {w1, w2}
  Background = {b1}
  MaxWorkers = 2
  MaxRuns = 4
  \* ImportStaging
  Token = {t1, t2, t3}
  FileSizes = {1, 2}
  MaxActiveTokens = 2
  MaxStagedBytes = 3
  MaxTombstones = 1
  \* Credentials
  Config = {app, proj}
  App = app
  Endpoint = {e1, e2}
  Key = {k1, k2}
  NoKey = NoKey
  KeyUser = {u1, u2}
  \* Assistant
  Chat = {s1, s2}
  Prompt = {m1, m2}
  Unmapped = Unmapped
  \* FileReplace
  MaxWrites = 3
  MaxBreaks = 3
INVARIANTS
  PlatformIsSound
  DataIsKept
  PoolIsBounded
  StagingIsAccounted
  KeyIsUsedAsTold
  LastGoodContentIsKept
PROPERTIES
  ImplementsDatabase
  NewerOnesStay
  RestoresAndStopsEnd
CHECK_DEADLOCK FALSE
