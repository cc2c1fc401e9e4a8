CONSTANTS
  Messages <- MCMessagesRouted
  Ids <- MCIds
  InboundCap = 1
  OutboundCap = 2
  SampleCap = 1
  SampleMod = 2
  MSG_ID_BITS = 1
  WdtCanFail = TRUE
  NONE = NONE

SPECIFICATION Spec

INVARIANT CommandReachesHandler
