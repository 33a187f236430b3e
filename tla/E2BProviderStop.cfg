SPECIFICATION Spec
CONSTANTS
    Sandboxes = {s1, s2, s3}
    NoSandbox = NoSandbox
    MAX_RELAYS = 1
CHECK_DEADLOCK FALSE
INVARIANT StopCleansUp
