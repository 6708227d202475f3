CONSTANTS
    Block <- SharedBlock
    Context <- SharedContext
    Root = "root"
    NoThread = "none"
    Kind <- SharedKind
    In <- SharedIn
    Layer <- SharedLayer
    Daemon <- SharedDaemon
    Child <- SharedChild
    PortCounts <- AnyPorts
SPECIFICATION FairSpec
INVARIANTS
    TypeOK
    WritesAreExclusive
    SeesEarlierLayers
PROPERTIES
    LocksComeBack
    ActsAsDefinitions
CHECK_DEADLOCK FALSE
