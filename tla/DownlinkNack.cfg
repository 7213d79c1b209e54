CONSTANTS
    Focus = {"down"}
    h1 = h1
    h2 = h2
    k1 = k1
    k2 = k2
    Hubs = {h1, h2}
    Users = {"u1", "u2"}
    Conns <- MCConns
    MaxCmd = 2
    Lanes = 2
    Window = 1
    QueueMax = 2
    AckTime = 1
    MaxNotice = 2
    MaxOut = 1
    Rooms = {"r1", "r2"}
    Threads = {k1, k2}
    Sids <- MCSids
    Capacity = 1
    Start <- MCStart
    MaxRoomOp = 2
    TrackInfo <- MCTrackInfo
    RoomCodec <- MCRoomCodec
    FullCap <- MCFullCap
    SlotBudget = 4
    RowLimit = 5
    Home <- MCHome
    Early <- MCEarly
    MaxTrackOp = 2
    Info <- MCInfo
    Simulcast = {"s1"}
    Slot = {TRUE, FALSE}
    M = 6
    Cache = 2
    RingLimit = 1
    MaxPkt = 5
    MaxCtl = 2
    Trs = {1, 2}
    Addrs = {1}
    CmdLimit = 2
    MaxUfrag = 4
    Froms = 2
    RingCap = 2
    Limit = 3
    Weights = {1, 2}
    MaxPush = 4
    UpM = 12
    UpFirst = 10
    Span = 4
    NackMax = 2
    Resend = 2
    GiveUp = 2
    Throttle = 2
    MaxUp = 5
    MaxUpNow = 5
    FbM = 16
    FbFirst = 13
    MinSequential = 2
    Dropout = 3
    Misorder = 3
    DeltaUnit = 2
    Reference = 2
    DeltaMax = 1
    Keep = 1
    MaxFb = 4
    MaxNet = 2
    MaxLoss = 2
    MaxFbNow = 3
SPECIFICATION Spec
CHECK_DEADLOCK FALSE
INVARIANTS NackAnswered
