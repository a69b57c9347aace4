CONSTANTS
    Runs = {r1, r2}
    Ids = {w1}
    Threads = {t1, t2}
    None = None
    Reissues = TRUE
    Environment <- HostileWork
    Requests <- TheRequests
    Policies <- ThePolicies
    Policy <- ThePolicy
    Registered <- TheRegistry
    Replaces <- BothFiles
SPECIFICATION ExecutorSpec
SYMMETRY Symmetric
INVARIANTS
    ExecutorTypeOK
    RunsInItsWorkspace
    CommandsRunAlone
    
