SPECIFICATION Spec
CONSTANTS
    Stage <- SharedStage
    Module <- SharedModule
    Root = "root"
    Up <- SharedUp
    ForEach = {}
    Layer <- SharedLayer
    Phase <- SharedPhase
    Unset = Unset
    Phases <- SharedPhases
    Under <- SharedUnder
    DryRun = {TRUE}
    DisableConcurrency = {FALSE}
INVARIANTS
    DryRunHolds
