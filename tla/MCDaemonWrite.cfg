CONSTANTS
  StableSecs = 1
  DaySecs = 3
  HourSecs = 1
  MAXMIN = 3
  MaxTime = 1
  Currents <- None
  HoursArgs <- None
  MAX_RETRIES = 2
  MaxSamples <- Endless
  CountCap = 1
  DoRead = FALSE
  DoWrite = TRUE
  Address = 128
  Value = 85
  Boards <- IdleBoard
  BreaksOff = TRUE
  Measurements <- None
  MaxQueue = 2
  MaxFaults = 6
SPECIFICATION FairSpec
INVARIANTS TypeOK EepromWrittenIfHeard RequestsKeepComing
PROPERTY EepromDone
