SPECIFICATION LibrarySpec
CONSTANTS
    Frames <- MCFrames
    ReceivedFrames <- MCReceivedFrames
    MaxClock = 3
    MaxClockSteps = 1
    Predictions = {0, 1}
    Deliveries <- MCDeliveries
    Filters <- MCFilters
    MaxDatagram = 700
    MaxPackets = 2
    SensorWidth = 4
    SensorHeight = 4
INVARIANTS
    AxesKeepTheWorld
    RotationsAreNamed
    NamesLeadToData
    LightweightPosesCompose
    SamplesOfTheFrame
    PlatesTellTheSame
    EyeGoesWithSegment
    CamerasAreToldApart
    PredictionJoinsSamples
    RetimedAnswersAgree
    ItemsArrive
    UnchangedIsKept
    SceneKeepsColour
PROPERTIES
    RetimedIsRecent
CHECK_DEADLOCK FALSE
