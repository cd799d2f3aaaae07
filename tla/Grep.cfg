SPECIFICATION Spec
CONSTANTS
  app = app
  src = src
  vendor = vendor
  log = log
  env = env
  py = py
  dep = dep
  None = None
  Dirs <- MCDirs
  Files <- MCFiles
  Parent <- MCParent
  Hidden <- MCHidden
  Ignored <- MCIgnored
  Globbed <- MCGlobbed
  Roots <- Nested
  Requests <- MCRequests
  MaxMatches = 3
  BinaryCheckBytes = 8
  InitialTexts <- MCTexts
  Written <- MCWritten
  Lockable <- MCLockable
  MaxChanges = 1
INVARIANTS
  TypeOK
  GrepIsComplete
  HitsAreRight
  OneResultPerRoot
