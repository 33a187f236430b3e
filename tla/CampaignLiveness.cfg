SPECIFICATION FairSpec
CONSTANTS
    Tasks = {t1, t2}
    MAX_ATTEMPTS = 1
    NUM_ENVS = 1
    MAX_SESSIONS = 1
    Results = {"finite"}
    Faults = {"spawn_error", "disk_error", "torn_line", "interrupt", "crash"}
CHECK_DEADLOCK FALSE
INVARIANTS
    RunnersWithinCap
PROPERTIES
    SessionsEnd
