CONSTANTS
  DataLen = 2
  Payloads <- TwoBytes
  Writers = {"serialFrame", "board"}
  MaxFrames = 3
  MaxLoss = 1
  MaxBreaks = 1
SPECIFICATION Spec
INVARIANTS TypeOK HarmIsLocal StaysInRoom
PROPERTIES ImplementsChannel
