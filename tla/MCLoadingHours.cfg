CONSTANTS
  StableSecs = 1
  DaySecs = 3
  HourSecs = 2
  MAXMIN = 3
  MaxTime = 8
  Samples <- TimingSamples
  Currents <- TimingCurrents
  HoursArgs <- TimingHours
SPECIFICATION Spec
INVARIANT HoursOnlyWhenOrdered
