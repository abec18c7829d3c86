CONSTANTS
  LockMax = 3
  Retries = 3
  RetrySecs = 2
  Target0 = 60000
  On0 = 1
  Off0 = 1
  Shutdelay = 1
  UDPcommands <- Commands
  Boards <- WildBoard
  Measurements <- Weather
  MaxCommands = 1
  MaxQueue = 1
  MaxFaults = 1
SPECIFICATION FairSpec
INVARIANTS TypeOK LowTimeWithinPeriod ShutdownInTime OffMeansOff
PROPERTY SearchEnds
