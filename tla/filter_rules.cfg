CONSTANTS
    Blocks <- MCBlocks
    Kind <- MCKind
    Dependency <- MCDependency
    Phases <- MCPhases
    Phased = {"stage.build"}
    Inherited <- MCInherited
    Rules <- MCRules
    MaxRules = 2
    Queries = 1
SPECIFICATION Spec
INVARIANTS
    TypeOK
    OnlyAddedIgnoresCondition
    DependenciesComeAlong
    AndRulesAddUp
