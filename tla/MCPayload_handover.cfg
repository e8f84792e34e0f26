SPECIFICATION FairSpec
CONSTANTS
    Depth = 4
    LoopMod = 4
    Programs <- HandoverPrograms
    Resident <- HandoverPrograms
    RefreshMod = 4
    AtRefreshes = {0, 1, 3}
    CycleMod = 1
INVARIANTS GrantFresh
PROPERTIES GrantAtRefresh Completes
