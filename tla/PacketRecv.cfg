SPECIFICATION FairSpec
CONSTANTS
  m_iLenPkgHeader = 3
  MaxPkgLen = 5
  _DATA_BUFSIZE_ = 4
  Presets = {0, 6}
  PkgLens = {2, 3, 5, 6}
  FloodTests = {TRUE, FALSE}
  m_floodKickCount = 2
  MaxPackets = 4
  MaxUses = 2
CHECK_DEADLOCK FALSE
INVARIANTS
  TypeOK
  BuffersKept
  FloodKicks
PROPERTIES
  ImplementsChannel
