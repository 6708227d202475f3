CONSTANTS
    Run <- HookedRun
    Root = "build"
    Items <- HookedItems
    PreHooks <- HookedPre
    PostHooks <- HookedPost
    Uses <- HookedUses
    HasScript <- HookedScript
    HasContainer <- HookedContainer
    Outcomes <- HookedOutcomes
SPECIFICATION FairSpec
INVARIANTS
    TypeOK
    ReturnsLast
    CommandIsGuarded
    HooksSeeFailure
    ErrorsReachResult
    ContainersRemoved
PROPERTIES
    StageReturns
