CONSTANTS
  Devices <- MCDevicesAliased
  Settings <- MCSettings
  Values <- MCValues
  BusCanFail = FALSE
  NONE = NONE

SPECIFICATION Spec

INVARIANT LaserReadYourWrites
