SPECIFICATION ShapedSpec
CONSTANTS
    x = x  y = y  z = z
    c = c  d = d  e = e
    Module = {x, y, z}
    Cap = {c, d, e}
    Mods <- Registered
    NoModule = NoModule
INVARIANTS
    DependenciesOutlive
    CapsAreBacked
    NothingLeftBehind
    SweepsOnLiveModules
    SortIsCorrect
PROPERTIES
    LifeCycleSettles
CHECK_DEADLOCK FALSE
