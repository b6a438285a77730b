SPECIFICATION Spec
CONSTANTS
  chapter = chapter
  outline = outline
  other = other
  k1 = k1
  k2 = k2
  k3 = k3
  Task = {chapter}
  TypeOf <- MCTypeOf
  KeyOf <- MCKeyOf
  Token = {tok1, tok2}
  NoToken = NoToken
  StartupConcurrency = 2
  MaxSession = 2
  MaxAttempts = 1
  Faults = {"suspend", "timeout"}
SYMMETRY Symmetry
PROPERTIES
  LostLeaseEndsAttempt
CHECK_DEADLOCK FALSE
