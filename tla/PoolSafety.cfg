SPECIFICATION Spec
CONSTANTS
  None = None
  Threads = {t1, t2, t3}
  Databases = {d1, d2}
  Sessions = {s1, s2, s3, s4, s5}
  Locks = {l1, l2}
  HealthyErrors = {"connection", "query"}
  BrokenErrors = {"connection", "query"}
  ClosedErrors = {"connection", "query"}
  Hung = {}
SYMMETRY Symmetry
INVARIANTS
  TypeOK
  ExclusiveSession
  SessionsAccounted
PROPERTIES
  OnlyCloseInterrupts
  RetryOnNewSession
  AccessSpec
