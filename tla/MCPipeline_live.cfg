\* Progress of accepted commands under the scheduling fairness.
CONSTANTS
  Messages <- MCMessages
  Ids <- MCIds
  InboundCap = 1
  OutboundCap = 2
  SampleCap = 2
  SampleMod = 2
  MSG_ID_BITS = 1
  WdtCanFail = FALSE
  NONE = NONE

SPECIFICATION FairSpec

PROPERTY CommandServiceLive
