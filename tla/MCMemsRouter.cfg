CONSTANTS
  Sides <- MCSides
  BadState <- MCBadState
  UnknownName <- MCUnknownName
  UnknownPort <- MCUnknownPort
  GpioCanFail = FALSE
  NONE = NONE

SPECIFICATION Spec

INVARIANT TypeOK
INVARIANT ReportedRoutesEstablished
INVARIANT AppliedRouteReported
INVARIANT ActiveInputsUnique
INVARIANT RouteTableWellFormed
