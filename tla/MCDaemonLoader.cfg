CONSTANTS
  StableSecs = 1
  DaySecs = 3
  HourSecs = 1
  MAXMIN = 3
  MaxTime = 2
  Currents = {400}
  HoursArgs <- Orders
  MAX_RETRIES = 1
  MaxSamples = 4
  CountCap = 1
  DoRead = TRUE
  DoWrite = FALSE
  Address = 128
  Value = 0
  Boards <- AllBoards
  BreaksOff = TRUE
  Measurements <- Outage
  MaxQueue = 1
  MaxFaults = 2
SPECIFICATION Spec
INVARIANT EepromReadBackIfReady
PROPERTY ImplementsLoader
