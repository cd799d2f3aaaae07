SPECIFICATION Spec
CONSTANTS
  MaxReadLines = 2
  DefaultReadLines = 2
  MaxMatches = 2
  ContextLines = 1
  MaxFileSize = 7
  BinaryCheckBytes = 2
  InitialTexts <- MCTexts
  RotatedTexts <- MCRotated
  Calls <- MCCalls
  WrittenChars = {"o", "nl"}
  MaxWrites = 2
  MaxFiles = 2
  MaxChmods = 1
INVARIANTS
  TypeOK
  PagesAreTheFile
  AnswerWasTrue
  SearchIsRight
