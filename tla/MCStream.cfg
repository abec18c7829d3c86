CONSTANTS
  DataLen = 2
  BufLen = 5
  Payloads <- TwoBytes
  Writers = {"writeStream", "board"}
  Below <- Quiet
  MaxFrames = 3
  MaxLoss = 1
  MaxPauses = 1
SPECIFICATION Spec
INVARIANTS TypeOK OnlyWhatWasSent HarmIsLocal
CHECK_DEADLOCK FALSE
