SPECIFICATION Spec
CONSTANTS
  Socket = {s1, s2}
  NoSocket = NoSocket
  Closers = {"reactor", "timer"}
  m_worker_connections = 1
  m_ListenPortCount = 0
  PoolFactor = 2
PROPERTIES
  ClosesItsOwnSocket
