SPECIFICATION CasesSpec
CONSTANTS
  c1 = c1
  c2 = c2
  ip = ip
  otherIp = otherIp
  Client = {c1, c2}
  Server = server
  Unknown = unknown
  Unsupported = unsupported
  Magic = magic
  NoAddr = noaddr
  MaxSequence = 4
  BufferChunks = 1
  PacketChunks = 1
  MaxClients = 2
  MaxClientsPerIp = 1
  SvSixup = TRUE
  TokenOf <- SameIp
  Protocols = {TRUE, FALSE}
  ClientToken = {t}
  Expiring = {"timeout", "protection", "flush"}
  Limiting = {FALSE}
  Leavers = {c1}
  Dropping = {}
  Protecting = {0}
  MaxInFlight = 3
INVARIANTS
  TypeOK
  OneSlotPerAddress
  LimitPerIp
PROPERTIES
  SlotKeepsItsClient
CHECK_DEADLOCK FALSE
