CONSTANTS
  Devices <- MCDevices
  Settings <- MCSettings
  Values <- MCValues
  BusCanFail = FALSE
  NONE = NONE

SPECIFICATION Spec

INVARIANT BusOnlyWhenBooted
