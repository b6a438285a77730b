SPECIFICATION Spec
CONSTANTS
  chapter = chapter
  outline = outline
  other = other
  k1 = k1
  k2 = k2
  k3 = k3
  Task = {chapter, outline}
  TypeOf <- MCTypeOf
  KeyOf <- MCKeyOf
  Token = {tok1, tok2}
  NoToken = NoToken
  StartupConcurrency = 1
  MaxSession = 3
  MaxAttempts = 2
  Faults = {"suspend"}
SYMMETRY Symmetry
PROPERTIES
  NoUnconfirmedReplay
CHECK_DEADLOCK FALSE
