CONSTANTS
  Devices <- MCDevices
  Settings <- MCSettings
  Values <- MCValues
  BusCanFail = TRUE
  NONE = NONE

SPECIFICATION Spec

INVARIANT TypeOK
INVARIANT BusOnlyForNamedLaser
