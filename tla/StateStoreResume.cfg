CONSTANTS
    None = None
    r1 = r1
    c1 = c1
    c2 = c2
    builder = builder
    RunIds = {r1}
    Clients = {c1, c2}
    Actors = {builder}
    FinalStates = {"passed"}
    Instants <- OneInstant
    Identities <- MCIdentities
    Trusted <- MCTrusted
    Entries = {"resume"}
    Assembles = FALSE
    MaxRevision = 2
SPECIFICATION FairSpec
INVARIANTS
    OnlyOwnBindingExtended
PROPERTIES
    CallsReturn
