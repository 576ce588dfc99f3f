SPECIFICATION ThreadsSpec
CONSTANTS
    MaxConnections = 2
    MaxServerFrame = 2
    MaxUnread = 2
    MaxSent = 3
    MaxStarts = 2
    RunIn = 1
    MaxTick = 3
    Delays = {0, 2}
    Topics = {"a", "b"}
    MaxReconfigurations = 3
    LatencyNames = {"n", "p", "x"}
    LatencyLists <- MCLatencyLists
    LogPreamble = 2
    MaxLogged = 6
    MaxPings = 2
    MaxPingID = 4
    MaxPingTime = 4
    MaxFrameNumber = 3
    Word = 8
INVARIANTS
    ServerModeAgrees
    PreFetchIsAhead
    OneOutputThread
    OrderIsKept
    LogIsFaithful
    AccountsAddUp
PROPERTIES
    NeverBackwards
    GetFrameKeepsSucceeding
    FramesAddedOnce
    RetimingCallsReturn
    ReconfigurationIsSafe
    CloseReturns
    RoundTripsAreMeasured
    NodeProgresses
CHECK_DEADLOCK FALSE
