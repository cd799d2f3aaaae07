SPECIFICATION Spec
CONSTANTS
  Clients <- AllClients
  Tables = {t1, t2}
INVARIANTS
  TypeOK
  AnswerNamesTheFault
  InternalErrorIsReal
  SecondRunHasCause
