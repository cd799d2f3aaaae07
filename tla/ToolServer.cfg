SPECIFICATION FairSpec
CONSTANTS
  Calls = {c1, c2}
  Nobody = Nobody
  Levels = {"info", "error"}
INVARIANTS
  TypeOK
  AnswerIsTheTools
  LostToTears
  StoryIsTrue
  SyncCallsAreWhole
  DeliveryIsKnown
PROPERTIES
  CallsEnd
