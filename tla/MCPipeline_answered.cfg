\* Whether every message taken from the broker is eventually answered on
\* the wire, under the scheduling fairness, with or without a watchdog.
CONSTANTS
  Messages <- MCMessages
  Ids <- MCIds
  InboundCap = 1
  OutboundCap = 2
  SampleCap = 2
  SampleMod = 2
  MSG_ID_BITS = 1
  WdtCanFail = TRUE
  NONE = NONE

SPECIFICATION FairSpec

PROPERTY RequestAnswered
