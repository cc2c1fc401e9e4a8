\* Safety of the command path at the code's inbound depth of 2.
CONSTANTS
  Messages <- MCMessages
  Ids <- MCIds3
  InboundCap = 2
  OutboundCap = 3
  SampleCap = 2
  SampleMod = 2
  MSG_ID_BITS = 1
  WdtCanFail = TRUE
  NONE = NONE

SPECIFICATION Spec

INVARIANT TypeOK
PROPERTY CommandServiceSpec
INVARIANT FreshestSampleKept
