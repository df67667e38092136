SPECIFICATION Spec
CONSTANTS
  NGX_MAX_ERROR_STR = 12
  Word = 256
  Long = 65536
  PointerWidth = 4
  LogLevel = 1
  Thread <- MCThread
  Calls <- MCCalls
  Behind <- SomeText
  MaxCalls = 2
CHECK_DEADLOCK FALSE
INVARIANTS
  TypeOK
  AsMeant
