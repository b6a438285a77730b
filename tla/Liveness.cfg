SPECIFICATION FairSpec
CONSTANTS
  chapter = chapter
  outline = outline
  other = other
  k1 = k1
  k2 = k2
  k3 = k2
  Task = {outline, other}
  TypeOf <- MCTypeOf
  KeyOf <- MCKeyOf
  Token = {tok1}
  NoToken = NoToken
  StartupConcurrency = 1
  MaxSession = 2
  MaxAttempts = 1
  Faults = {"timeout"}
INVARIANTS
  WaitsAreOnExecutions
PROPERTIES
  ExecutionsAndDrainsEnd
  QueueServed
CHECK_DEADLOCK FALSE
