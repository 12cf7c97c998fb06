SPECIFICATION HostSpec
CONSTANTS
    PayloadLen <- Lengths
    MaxPayload = 2
    MaxBoard = 3
    BadCmd = {2}
    MaxFaults = 2
    VT100_BUFFER_BYTES = 2
    Output = 3
    ReadMax = 3
    ReqCap = 1
    AckCap = 1
    tiny = tiny  small = small  large = large
    Windows = {tiny, small, large}
    Tiny = tiny
    MaxWindows = 1
    t1 = t1  t2 = t2  top = top  left = left  right = right
    Transcripts <- TwoFiles
    KindsOf <- TwoKinds
    CwdOf <- Sides
    Cwds <- Directories
    Processes <- Found
    Titles <- Windows2
    LabelLen <- Labels
    Prefix <- Tree
    LinesOf <- AllLines
    MaxLines = 3
    MaxSpoils = 1
    v1 = v1  v2 = v2  stable = stable  preview = preview  NoExe = NoExe
    Versions = {v1, v2}
    SettingsPaths <- OneSettings
    OptionSets <- Flags
    MaxOps = 2
    MaxTroubles = 1
INVARIANTS HandledInOrder FallbackIsClean AbortIsLast ReplayIsTail CountIsExact
INVARIANTS NothingSkipped ToldAtMostTwice StatusAgrees OwnProcess
INVARIANTS NoDanglingCommand CommandlineKept 
PROPERTIES FramesInOrder OutboxDrains CalmMessageHandled LaunchEnds PtyFollowsWindow
CHECK_DEADLOCK FALSE
