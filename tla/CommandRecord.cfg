CONSTANTS
    Ceiling = 3
    Chunk = 2
    PipeSize = 2
    MaxBytes = 4
    None = None
    Commands <- TheCommands
    Specifications <- TheSpecifications
    ExitCodes <- TheExitCodes
    Readings <- TheReadings
    Contexts <- TheContexts
SPECIFICATION RecordSpec
CHECK_DEADLOCK FALSE
INVARIANTS
    TypeOK
    ExitedIsComplete
    LimitIsDeserved
    NothingRunsAfter
    RecordTellsWhatHappened
    WhatHappenedCanBeRecorded
    BytesIdentifyEvidence
PROPERTIES
    EveryExecutionReturns
