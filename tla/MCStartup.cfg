SPECIFICATION StartFairSpec
CONSTANTS
  MaxWorkers = 3
  Names <- MCNames
  Shout <- MCShout
  LineMax = 6
  NameMax = 3
  Files <- MCFiles
  PortNames <- MCPortNames
  DefaultPort = 3
  PortSpace = 8
CHECK_DEADLOCK FALSE
INVARIANTS
  StartTypeOK
  NoZombieForgotten
  RunsAsConfigured
PROPERTIES
  LoadsWhatIsWritten
  ZombiesReaped
  StartEnds
