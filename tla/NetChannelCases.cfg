SPECIFICATION CasesSpec
CONSTANTS
  a = a
  b = b
  Peer <- MCPeer
  Token = tok
  Unknown = unknown
  Unsupported = unsupported
  Magic = magic
  NoAddr = noaddr
  Quitters = {}
  Protecting = {}
  Kinds = {TRUE}
  Expiring = {"resend", "flush", "keepalive"}
  MaxSend <- OneWay
  MaxInFlight = 2
  MaxSequence = 4
  BufferChunks = 2
  PacketChunks = 2
  MaxAge = 2
INVARIANTS
  TypeOK
  IInv
  DeliveredInOrder
  NothingForgotten
  BufferIsWindow
PROPERTIES
  ImplementsLink
CHECK_DEADLOCK FALSE
