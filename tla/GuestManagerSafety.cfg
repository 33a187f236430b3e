SPECIFICATION Spec
CONSTANTS
    Sandboxes = {s1, s2, s3}
    Requests = {r1, r2, r3}
    Names = {n1}
    KILL_ATTEMPTS = 2
    Faults = {"create_error", "no_token", "not_ready", "kill_error", "kill_lost", "bind_error", "expire", "sigterm", "sigkill"}
    Main = Main
    NoTask = NoTask
    NoSandbox = NoSandbox
    Template = Template
SYMMETRY Symmetry
CHECK_DEADLOCK FALSE
INVARIANTS
    TypeOK
    EverySandboxIsOwned
    IInv
    GuestsInv
    GuestIsNotCleanedUp
    AtMostTwoSandboxes
    ServedGuestsAreReady
    CleanedIsGone
    SuccessMeansNoSandbox
    StopAccounts
PROPERTIES
    GuestChangesInOrder
    ImplementsLease
