SPECIFICATION FairSpec
CONSTANTS
  Socket = {s1, s2}
  NoSocket = NoSocket
  Closers = {"reactor", "timer", "pool"}
  m_worker_connections = 2
  m_ListenPortCount = 1
  PoolFactor = 1
INVARIANTS
  TypeOK
  OnePlace
  CountersAgree
  LimitsKept
PROPERTIES
  EveryConnectionRecycled
