SPECIFICATION LiveSpec
CONSTANTS
    Parts = {"encoder", "stream", "users", "timers", "ethtx", "recorder"}
    N = 3
    Groups = {2}
    MaxTurns = 0
    Packets = 2
    MaxFrames = 5
    None = None
    Size = 4
    IspTime = 1
    MaxCount = 2
    Word = 8
    Capacity = 2
    JobCapacity = 3
    MaxTunnels = 5
    Addrs = {1, 2}
    AddressTasks = {1}
    AddressCapacity = 2
    AddressSpaced = TRUE
    MaxPlugs = 2
    Order <- PortSizeLogin
    Boot = {"login"}
    Values = {554, 555}
    Default = 554
    NoValue = NoValue
    ChangeCapacity = 3
    PortMayFail = TRUE
    ChangeSpaced = FALSE
    ChangeRequests = 2
    JoinThreshold = 2
    JoinShort = 2
    JoinMax = 7
    JoinPeriods = {2, 6}
    JoinGops = 2
    JoinRing = 2
    JoinPackets = 1
    JoinFrames = 7
    JoinRequests = 2
    RecSlots = 2
    MaxPauses = 1
    SysTime = 2
    EthTime = 1
    RecGop = 1
    RecSpaced = TRUE
    Threshold = 6
    Short = 3
    MaxPeriod = 240
    Gops = 4
    Periods = {6, 40}
    Spaced = TRUE
    MaxRequests = 2
    Conns = {c1, c2, c3}
    MaxUsers = 2
    PollLimit = 2
    NoConn = NoConn
PROPERTIES PeriodComesBack BacklogIsTaken SilentIsDropped TimersRun FrameIsSent OffCloses OnRecords
