SPECIFICATION FairSpec
CONSTANTS
  c1 = c1
  c2 = c2
  ip = ip
  otherIp = otherIp
  Client = {c1}
  Server = server
  Unknown = unknown
  Unsupported = unsupported
  Magic = magic
  NoAddr = noaddr
  MaxSequence = 4
  BufferChunks = 1
  PacketChunks = 1
  MaxClients = 1
  MaxClientsPerIp = 1
  SvSixup = TRUE
  TokenOf <- SameIp
  Protocols = {TRUE, FALSE}
  ClientToken = {t}
  Expiring = {"timeout", "protection", "flush"}
  Limiting = {FALSE}
  Leavers = {c1}
  Dropping = {0}
  Protecting = {0}
  MaxInFlight = 2
PROPERTIES
  EventuallyAnswered
  SlotsAreFreed
CHECK_DEADLOCK FALSE
