CONSTANTS
    Block <- BuildBlock
    Layers <- BuildLayers
    Stage <- BuildStage
    Daemon <- BuildDaemon
    Retries <- BuildRetries
    StopWhenComplete <- BuildStops
    Unresolvable = {}
    Identifier <- BuildIdentifier
    Verdicts <- BuildVerdicts
    Outcomes <- BuildOutcomes
    OutputsResult = {"ok", "err"}
    DryRun = FALSE
    DisableConcurrency = {FALSE}
    Unattended = FALSE
    Interruptible = FALSE
SPECIFICATION FairSpec
INVARIANTS
    TypeOK
    LayerBarrier
    SuccessIsComplete
PROPERTIES
    RetriesAreEarned
    RunEnds
