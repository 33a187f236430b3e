SPECIFICATION Spec
CONSTANTS
    Tasks = {t1}
    MAX_ATTEMPTS = 3
    NUM_ENVS = 1
    MAX_SESSIONS = 4
    Results = {"none", "finite", "malformed", "several"}
    Faults = {"spawn_error", "torn_line", "interrupt", "crash"}
CHECK_DEADLOCK FALSE
INVARIANTS
    TypeOK
PROPERTIES
    ImplementsLifecycle
