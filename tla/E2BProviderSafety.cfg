SPECIFICATION Spec
CONSTANTS
    Sandboxes = {s1, s2, s3, s4}
    NoSandbox = NoSandbox
    MAX_RELAYS = 2
SYMMETRY Symmetry
CHECK_DEADLOCK FALSE
INVARIANTS
    TypeOK
    NoRelayIsLeft
    SuccessMeansNothingLost
PROPERTIES
    AnsweredLosesNothing
