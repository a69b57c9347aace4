CONSTANTS
    Runs = {r1, r2}
    Ids = {w1}
    Threads = {t1}
    None = None
    Reissues = TRUE
    Environment <- OthersOnTheRoot
SPECIFICATION FairSpec
PROPERTIES
    ForgottenIsGone
    PreparationSparesPublished
    ReleaseReclaims
