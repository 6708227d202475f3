CONSTANTS
    Blocks <- MCBlocks
    Undefined = {"stage.gone"}
    Kind <- MCKind
    MayRefer <- MCMayRefer
SPECIFICATION Spec
INVARIANTS
    TypeOK
    Layered
    RunsInOrder
    NothingLeftOut
