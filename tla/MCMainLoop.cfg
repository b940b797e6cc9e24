CONSTANTS
  NumSensors = 3
  NumDevices = 2
  DeviceOf <- MCDeviceOf
  Lowest = 1
  Highest = 2
  Average = 2
  ClearAfter = 4
  WdtTimeout = 3
  MaxMissed = 1

SPECIFICATION FairSpec

INVARIANTS
  AverageInRange
  WindowBound
  PublishedIsCurrent

PROPERTIES
  FeedIffClean
  RecoversOrResets
  TriggerIsCleared
