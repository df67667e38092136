SPECIFICATION FairSpec
CONSTANTS
  w1 = w1
  w2 = w2
  Worker = {w1, w2}
  Settings <- AllSettings
  MaxRequests = 3
INVARIANTS
  TypeOK
  AnswersTrueAlone
  InStepAlone
  BooksAnsweredOnce
PROPERTIES
  HandlersReturn
CHECK_DEADLOCK FALSE
