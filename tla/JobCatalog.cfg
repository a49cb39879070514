SPECIFICATION CatSpec
CONSTANTS
    NULL = NULL
    Text = Text
    Name = {1, 2, 3}
    Docs <- MCDocs
    MaxSteps = 3
    DefaultTimeout = 14
    MaxJobTimeout = 100
    DefaultInitial = 3
    DefaultMaxDelay = 20
    Unit <- MCUnit
    UnitOrder <- MCUnitOrder
    MaxFraction = 2
    Width = 11
    NanosPerMilli = 2
    Call = {1, 2, 3}
    Job = {1, 2}
    File = {1, 2}
    Written <- MCWritten
    Initial <- MCInitial
    MaxEdits = 1
    MaxFaults = 1
    MaxWriteAttempts = 2
INVARIANTS
    CatalogIsConsistent
    TriggersAreWhole
    ApplyIsOneFact
    SpecSurvivesTheHash
    DurationsAreExact
PROPERTIES
    CommittedStays
