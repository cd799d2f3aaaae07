SPECIFICATION Spec
CONSTANTS
  Names <- MCNames
  Hidden <- MCHidden
  Ignored <- MCIgnored
  Links <- MCLinks
  PageSize = 1
  MaxTime = 1
  MaxChanges = 3
INVARIANTS
  TypeOK
  PagesAreTheListing
  FailureHasCause
