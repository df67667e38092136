SPECIFICATION Spec
CONSTANTS
  Conn = {c1, c2}
  NoConn = NoConn
  Others = {"other"}
  m_iWaitTime = 1
  Grace = 1
  TimeOutKicks = {TRUE, FALSE}
  MaxTime = 8
  MaxUses = 2
SYMMETRY Symmetry
INVARIANTS
  TypeOK
  QueueKept
  NoEarlyKick
  ClosedInTime
