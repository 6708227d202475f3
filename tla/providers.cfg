CONSTANTS
    Block <- MCBlock
    Conductor <- MCConductor
    NoBlock = "nobody"
    Kind <- MCKind
    In <- MCIn
    Destination <- MCDestination
    AllowApply <- MCAllowApply
    Scenarios <- MCScenarios
SPECIFICATION FairSpec
INVARIANTS
    TypeOK
    ApplyIsAllowed
    DoneIsOwn
PROPERTIES
    EndsUnlessAsked
