SPECIFICATION Spec
CONSTANTS
    MaxRecordingRequests = 3
    MaxLostAnswers = 1
    Paths = {p1}
    MaxJobs = 2
    MaxMessages = 2
    Commits = {c1, c2, c3, c4}
    Supported = {c1, c2}
    OwnedFiles = {f1, f2}
    TrackedIn <- MCTrackedIn
    Carrying = {c4}
    NoCommit = NoCommit
    RUNS = 2
    ManifestTasks = 2
    MaxSignals = 2
CHECK_DEADLOCK FALSE
INVARIANTS
    RunningRecorderIsKnown
    HandedVideoIsTheLastAndOver
    OnlyADeafRecorderIsKilled
    TransfersAreToldAsTheyAre
    WhatRunsOnIsTold
    ClosingLosesNothing
    DoneMeansPrepared
    OnlyACutLeavesHalfAPatch
    RefusedForACause
    ZeroMeansAllPassed
    OneRelayAtATime
PROPERTIES
    RecordingCallsEnd
    SessionsEndTogether
