SPECIFICATION Spec
CONSTANTS
    MaxRecordingRequests = 1
    MaxLostAnswers = 1
    Paths = {p1}
    MaxJobs = 1
    MaxMessages = 1
    Commits = {c1, c2, c3, c4}
    Supported = {c1, c2}
    OwnedFiles = {f1, f2}
    TrackedIn <- MCTrackedIn
    Carrying = {c4}
    NoCommit = NoCommit
    RUNS = 1
    ManifestTasks = 1
    MaxSignals = 1
CHECK_DEADLOCK FALSE
INVARIANT ReRunningIsSafe
