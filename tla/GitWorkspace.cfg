CONSTANTS
    Runs = {r1, r2}
    Ids = {w1, w2}
    Threads = {t1, t2}
    None = None
    Reissues = FALSE
    Environment <- CandidateAndCrashes
SPECIFICATION Spec
SYMMETRY Symmetric
INVARIANTS
    TypeOK
    IndexInverse
    SnapshotSound
    ReleaseNeverBlocked
PROPERTIES
    LeaseProtects
    ImplementsPort
