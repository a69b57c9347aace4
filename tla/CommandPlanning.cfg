CONSTANTS
    Requests <- SomeRequests
    Policies <- SomePolicies
SPECIFICATION Spec
INVARIANTS
    VerdictIsDeserved
PROPERTIES
    LessIsAllowed
