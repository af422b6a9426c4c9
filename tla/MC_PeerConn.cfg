SPECIFICATION Spec
CONSTANTS
  Ping = ping
  Query = query
  Short = short
  Type1 = type1
  Type2 = type2
  Stray = stray
  Message <- MCMessage
  Chunks <- MCChunks
  Announced <- MCAnnounced
  HeaderChunks = 2
  FrameChunks = 2
  Command = {c1}
  MaxIn = 2
  MaxTicks = 2
  OutCap = 2
INVARIANTS
  TypeOK
  OutboundIntact
  AnsweredInOrder
PROPERTIES
  EventuallyHandled
  CommandsFinish
  ImplementsChannel
CHECK_DEADLOCK FALSE
