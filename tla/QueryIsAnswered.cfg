SPECIFICATION Spec
CONSTANTS
  Clients <- OnlyMySql
  Tables = {t1}
INVARIANT QueryIsAnswered
