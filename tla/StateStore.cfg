CONSTANTS
    None = None
    r1 = r1
    c1 = c1
    c2 = c2
    builder = builder
    RunIds = {r1}
    Clients = {c1, c2}
    Actors = {builder}
    FinalStates = {"passed"}
    Instants <- OneInstant
    Identities <- OneIdentity
    Trusted <- SameTrusted
    Entries = {"load", "history"}
    Assembles = FALSE
    MaxRevision = 2
SPECIFICATION Spec
INVARIANTS
    TypeOK
    StoreConsistent
    AckedDurable
    OneWinner
PROPERTIES
    RunNeverRewritten
    ReadReturnsCurrent
    ConflictMeansOvertaken
    CorruptOnlyWhenTorn
    ImplementsRegister
