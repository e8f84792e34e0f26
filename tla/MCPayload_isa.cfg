SPECIFICATION Spec
CONSTANTS
    Depth = 4
    LoopMod = 4
    Programs <- Overwrites
    Resident <- AllPrograms
    RefreshMod = 1
    AtRefreshes = {0}
    CycleMod = 16
INVARIANTS TypeOK FetchCoherent BusOwned ExecutionTime
PROPERTY ImplementsISA
