SPECIFICATION FairSpec
CONSTANTS
  Thread = {t1, t2, t3}
  Msg = {m1, m2, m3}
  NoThread = NoThread
  NoMsg = NoMsg
INVARIANTS
  TypeOK
  OneOwner
  NoSleepingOverWork
  PopsAMessage
PROPERTIES
  MainComesBack
  ServesInOrder
  ServesAll
