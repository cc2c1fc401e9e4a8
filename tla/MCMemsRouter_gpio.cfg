CONSTANTS
  Sides <- MCSides
  BadState <- MCBadState
  UnknownName <- MCUnknownName
  UnknownPort <- MCUnknownPort
  GpioCanFail = TRUE
  NONE = NONE

SPECIFICATION Spec

INVARIANT ReportedRoutesEstablished
