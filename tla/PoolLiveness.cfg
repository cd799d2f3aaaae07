SPECIFICATION FairSpec
CONSTANTS
  None = None
  Threads = {t1, t2}
  Databases = {d1, d2}
  Sessions = {s1, s2, s3, s4}
  Locks = {l1, l2}
  HealthyErrors = {"connection"}
  BrokenErrors = {"connection"}
  ClosedErrors = {"query"}
  Hung = {d2}
PROPERTIES
  CallsReturn
