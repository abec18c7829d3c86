CONSTANTS
  Retries = 3
  MaxQueue = 1
  MaxFaults = 1
  Addresses = {0, 1}
  Values = {0, 1}
  Boards <- SomeBoards
  Memories <- Clear
  Stack <- Garbage
  OptionSet <- AllOptions
  MaxOptions = 2
  MaxPrograms = 2
SPECIFICATION FairSpec
INVARIANTS TypeOK EepromAsOrderedIfClean SwitchesAsOrdered
PROPERTIES ReadIsTrue BlinkProvesReceipt EveryProgramEnds
