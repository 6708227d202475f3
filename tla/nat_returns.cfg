CONSTANTS
    Block <- SharedBlock
    Context <- SharedContext
    Root = "root"
    NoThread = "none"
    Kind <- SharedKind
    In <- SharedIn
    Layer <- SharedLayer
    Daemon <- SharedDaemon
    Child <- SharedChild
    PortCounts <- SomePorts
SPECIFICATION FairSpec
PROPERTIES
    NatReturns
CHECK_DEADLOCK FALSE
