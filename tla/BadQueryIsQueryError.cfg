SPECIFICATION Spec
CONSTANTS
  Clients <- OnlySqlServer
  Tables = {t1}
INVARIANT BadQueryIsQueryError
