CONSTANTS
    Runs = {r1}
    Ids = {w1}
    Threads = {t1}
    None = None
    Reissues = TRUE
    Environment <- HostileWork
    Requests <- TheRequests
    Policies <- ThePolicies
    Policy <- ThePolicy
    Registered <- TheRegistry
    Replaces <- BothFiles
SPECIFICATION ExecutorSpec
INVARIANTS
    FailuresAreTyped
