SPECIFICATION Spec
CONSTANTS
    Tasks = {t1, t2}
    MAX_ATTEMPTS = 2
    NUM_ENVS = 1
    MAX_SESSIONS = 2
    Results = {"finite"}
    Faults = {"interrupt"}
CHECK_DEADLOCK FALSE
INVARIANT NoSurvivors
