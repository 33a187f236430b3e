SPECIFICATION Spec
CONSTANTS
    Tasks = {t1, t2}
    MAX_ATTEMPTS = 2
    NUM_ENVS = 2
    MAX_SESSIONS = 2
    Results = {"finite"}
    Faults = {"spawn_error"}
CHECK_DEADLOCK FALSE
INVARIANT OfferedIsAccepted
