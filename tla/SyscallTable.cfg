SPECIFICATION SearchSpec
CONSTANTS
    LastEntry = 8
    NiEntries <- MCNiEntries
    First = 2
    Markers <- MCMarkers
    MaxFree = 4
    AppNumber = 3
    UsesSwitch = TRUE
    Cpus <- MCCpus
    Fan = 2
    PageWords = 8
    Start = 5
    MaxAddr = 12
    Image <- MCImage
    ModuleArea <- MCModuleArea
    Places <- MCPlaces
    Fillings <- MCFillings
INVARIANTS
    SearchTypeOK
    ReadsMapped
    FindsTable
    RealCallsKept
    HandlersLoaded
    TableRestored
    NumberIsStable
PROPERTY ImplementsSyscallTable
