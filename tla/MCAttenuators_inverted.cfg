CONSTANTS
  Devices <- MCDevices
  Settings <- MCSettings
  Bodies <- MCBodies
  DacCanFail = TRUE
  NONE = NONE
  NaN = NaN

SPECIFICATION Spec

INVARIANT AttenSetHonoured
