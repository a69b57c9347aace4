CONSTANTS
    None = None
    RunIds = {r1}
    Actors = {"runner", "human"}
    FinalStates = {"passed"}
    Instants <- TheInstants
    ShortYears <- YearZero
    Identities <- TheIdentities
    ContractIds = {"contract", "broken"}
    ContractVersions = {"v1"}
    Unencodable = {"broken"}
    Digests <- TheDigests
    BaselineShas = {"b1"}
    Policies = {"p1"}
    Sources <- TheSources
    ContractOf <- TheContractOf
    Sha256 <- TheSha256
    Bindings <- TheBindings
    Clients = {c1, c2}
    Found <- TheSchemas
    Spoilt <- TheSpoilt
    MaxRevision = 2
    MaxDamage = 1
SPECIFICATION FairSpec
INVARIANTS
    SchemaAllOrNothing
    AcceptedBytesAreCanonical
    IntactIsReadable
    OneDamageForgesNothing
    ResumedFromSameBytes
PROPERTIES
    OpeningReturns
