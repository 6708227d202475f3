CONSTANTS
    Block <- ServiceBlock
    Layers <- ServiceLayers
    Stage <- ServiceBlock
    Daemon <- ServiceDaemon
    Retries <- ServiceRetries
    StopWhenComplete <- ServiceStops
    Unresolvable = {}
    Identifier <- ServiceIdentifier
    Verdicts <- ServiceVerdicts
    Outcomes <- EndlessOutcomes
    OutputsResult = {"ok"}
    DryRun = FALSE
    DisableConcurrency = {TRUE, FALSE}
    Unattended = TRUE
    Interruptible = TRUE
SPECIFICATION FairSpec
INVARIANTS
    NoOrphans
    OneAtATime
PROPERTIES
    UnattendedFailureEnds
    EveryBlockSettles
    EveryBlockVisited
    KeepsPromise
CHECK_DEADLOCK FALSE
