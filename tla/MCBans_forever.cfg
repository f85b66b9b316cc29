SPECIFICATION Spec
CONSTANTS
    MAX_BANS = 2
    HashSize = 2
    Length = 2
    ByteSize = 2
    NoData = NoData
    NoAddr = NoAddr
    Addrs <- TwoAddrs
    Ranges <- OneWide
    PeerAddrs <- TwoAddrs
    Local <- Home
    Slots = {}
    Levels = {}
    Minutes = {0, 1}
    MinuteLength = 2
    MaxNow = 3
    MaxSaves = 1
INVARIANTS
    TemporaryStaysTemporary
CHECK_DEADLOCK FALSE
