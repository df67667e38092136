SPECIFICATION FairSpec
CONSTANTS
  c1 = c1
  c2 = c2
  m1 = m1
  m2 = m2
  m3 = m3
  Conn = {c1, c2}
  Msg = {m1, m2, m3}
  Size <- MCSize
  Settings <- Quietly
  NoMsg = NoMsg
CHECK_DEADLOCK FALSE
PROPERTIES
  QueueDrains
