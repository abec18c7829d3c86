CONSTANTS
  StableSecs = 1
  DaySecs = 3
  HourSecs = 1
  MAXMIN = 3
  MaxTime = 1
  Currents <- None
  HoursArgs <- None
  MAX_RETRIES = 2
  MaxSamples <- Endless
  CountCap = 1
  DoRead = FALSE
  DoWrite = TRUE
  Address = 128
  Value = 85
  Boards <- IdleBoard
  BreaksOff = FALSE
  Measurements <- None
  MaxQueue = 2
  MaxFaults = 7
SPECIFICATION Spec
INVARIANT EepromWritten
