SPECIFICATION Spec
CONSTANTS
    Parts = {"encoder", "stream", "path", "users", "timers", "ethtx", "recorder", "tunnel", "change", "address"}
    N = 3
    Groups = {1, 3}
    MaxTurns = 2
    Packets = 1
    MaxFrames = 5
    None = None
    Size = 4
    IspTime = 1
    MaxCount = 2
    Word = 8
    Capacity = 2
    JobCapacity = 3
    MaxTunnels = 5
    Addrs = {1, 2}
    AddressTasks = {1}
    AddressCapacity = 2
    AddressSpaced = TRUE
    MaxPlugs = 2
    Order <- PortSizeLogin
    Boot = {"login"}
    Values = {554, 555}
    Default = 554
    NoValue = NoValue
    ChangeCapacity = 3
    PortMayFail = TRUE
    ChangeSpaced = FALSE
    ChangeRequests = 2
    JoinThreshold = 2
    JoinShort = 1
    JoinMax = 7
    JoinPeriods = {2, 6}
    JoinGops = 2
    JoinRing = 2
    JoinPackets = 1
    JoinFrames = 5
    JoinRequests = 2
    RecSlots = 3
    MaxPauses = 2
    SysTime = 3
    EthTime = 2
    RecGop = 2
    RecSpaced = TRUE
    Threshold = 30
    Short = 3
    MaxPeriod = 240
    Gops = 16
    Periods = {0, 40}
    Spaced = TRUE
    MaxRequests = 2
    Conns = {c1, c2, c3}
    MaxUsers = 2
    PollLimit = 2
    NoConn = NoConn
INVARIANTS TypeOK BorrowedIsOwed JoinIsQuick ArgsMatch UsersCounted PauseNeverWraps NoFileLost InStep MarksHaveTask AddressesAgree
PROPERTIES PathIsStream NumbersFollow NeverBackwards OnlyWholeGroups NoFalseAlarm RunsOnTime SyncIsAlone FilesDecodable
\* A change of settings ends when all requests are carried out, one of the
\* address where dhcp_release is called without a client.
CHECK_DEADLOCK FALSE
