SPECIFICATION Spec
CONSTANTS
  c1 = c1
  c2 = c2
  ip = ip
  otherIp = otherIp
  Client = {c1}
  Server = server
  Unknown = unknown
  Unsupported = unsupported
  Magic = magic
  NoAddr = noaddr
  MaxSequence = 4
  BufferChunks = 1
  PacketChunks = 1
  MaxClients = 1
  MaxClientsPerIp = 1
  SvSixup = TRUE
  TokenOf <- OwnIps
  Protocols = {TRUE}
  ClientToken = {t}
  Expiring = {"flush"}
  Limiting = {FALSE}
  Leavers = {}
  Dropping = {}
  Protecting = {}
  MaxInFlight = 3
INVARIANTS
  SealedForClient
CHECK_DEADLOCK FALSE
