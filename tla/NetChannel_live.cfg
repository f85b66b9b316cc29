SPECIFICATION LiveSpec
CONSTANTS
  a = a
  b = b
  Peer <- MCPeer
  Token = tok
  Unknown = unknown
  Unsupported = unsupported
  Magic = magic
  NoAddr = noaddr
  Quitters = {}
  Protecting = {}
  Kinds = {TRUE}
  Expiring = {"answer", "resend", "keepalive", "flush"}
  MaxSend <- Two
  MaxInFlight = 2
  MaxSequence = 4
  BufferChunks = 2
  PacketChunks = 2
  MaxAge = 2
PROPERTIES
  EventuallyDelivered
  EventuallyAcknowledged
CHECK_DEADLOCK FALSE
