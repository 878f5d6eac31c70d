SPECIFICATION Spec
CONSTANTS
    LastIndex = 2
    Cpus <- MCCpus
    NodeCpus <- MCNodeCpus
    Rank = 2
    Configured = 2
    Arguments <- MCArguments
INVARIANTS
    TypeOK
    NoFrameTwice
    LockReleased
    PinnedSeesTable
PROPERTIES
    SwitchIsAtomic
