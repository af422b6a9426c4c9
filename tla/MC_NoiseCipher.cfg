SPECIFICATION Spec
CONSTANTS
  Initiator = initiator
  Responder = responder
  short = short
  long = long
  Message <- MCMessage
  Size <- MCSize
  KEY_ROTATION_THRESHOLD = 2
  MaxSends <- MCMaxSends
  MaxFaults = 2
INVARIANTS
  TypeOK
  NoNonceReuse
  KeyUseBounded
  NoFalseReject
  DeliveredIsPrefix
PROPERTIES
  BodyLossIsFinal
  ChannelSpec
CHECK_DEADLOCK FALSE
