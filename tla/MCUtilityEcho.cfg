CONSTANTS
  Retries = 3
  MaxQueue = 1
  MaxFaults = 0
  Addresses = {0, 1}
  Values = {0, 1}
  Boards <- SomeBoards
  Memories <- Clear
  Stack <- Garbage
  OptionSet <- SwitchAndWrite
  MaxOptions = 1
  MaxPrograms = 2
SPECIFICATION Spec
INVARIANT EepromOnlyAsOrdered
