CONSTANTS
  Savers = {s1, s2}
  NoOne = NoOne
  Values <- Signed
  MaxSamples = 3
  Patience = 2
  MaxQueue = 2
  MaxFaults = 2
SPECIFICATION FairSpec
INVARIANTS TypeOK InfoOfOneSecond SmoothWithin AtMostOneHertz
PROPERTY EverySaverIsServed
