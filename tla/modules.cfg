SPECIFICATION Spec
CONSTANTS
    Stage <- NestedStage
    Module <- NestedModule
    Root = "root"
    Up <- NestedUp
    ForEach <- NestedForEach
    Layer <- NestedLayer
    Phase <- NestedPhase
    Unset = Unset
    Phases <- NestedPhases
    Under <- NestedUnder
    DryRun = {TRUE, FALSE}
    DisableConcurrency = {TRUE, FALSE}
INVARIANTS
    TypeOK
    ModulesWait
    FailuresComeBack
    PhasesInherited
