CONSTANTS
  Devices <- MCDevices
  Settings <- MCSettings
  Bodies <- MCBodies
  DacCanFail = FALSE
  NONE = NONE
  NaN = NaN

SPECIFICATION Spec

INVARIANT TypeOK
