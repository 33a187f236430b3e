SPECIFICATION Spec
CONSTANTS
    Sandboxes = {s1, s2, s3}
    Requests = {r1, r2}
    Names = {n1}
    KILL_ATTEMPTS = 2
    Faults = {"log_error"}
    Main = Main
    NoTask = NoTask
    NoSandbox = NoSandbox
    Template = Template
CHECK_DEADLOCK FALSE
INVARIANT ShutdownCleansUp
