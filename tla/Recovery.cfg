SPECIFICATION Spec
CONSTANTS
  chapter = chapter
  outline = outline
  other = other
  k1 = k1
  k2 = k2
  k3 = k3
  Task = {chapter}
  TypeOf <- MCTypeOf
  KeyOf <- MCKeyOf
  Token = {tok1, tok2}
  NoToken = NoToken
  StartupConcurrency = 2
  MaxSession = 3
  MaxAttempts = 2
  Faults = {"suspend", "error", "boundary", "credential", "closeFails", "drainTimeout"}
SYMMETRY Symmetry
INVARIANTS
  TypeOK
  LeaseFollowsExecution
  AttemptsAccounted
  GracefulEndIsClean
PROPERTIES
  StopIsRespected
  NonRecoverableIsFinal
  StoredVersionIsResumed
  ImplementsContract
CHECK_DEADLOCK FALSE
