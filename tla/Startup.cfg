SPECIFICATION Spec
CONSTANTS
  Files <- MCFiles
  Rewritten <- MCRewritten
  MaxEdits = 1
INVARIANTS
  TypeOK
  PassedCheckStarts
  FailsBeforeRegistering
  RunningIsConfigured
  DisabledIsIgnored
  ReportIsRight
  
