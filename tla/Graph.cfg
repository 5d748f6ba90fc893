SPECIFICATION GraphSpec
CONSTANTS
    Nodes = {n1, n2, n3}
    None = None
    MaxFacts = 2
    Values = {v1}
    MaxOpen = 2
    MaxOpened = 3
    Origins = {o1, o2}
    NodeIds = {d1, d2, d3}
    Keys = {a, b}
    Unassigned = a
    Null = Null
    MaxTurns = 3
    Things = {t1, t2}
    Notes = {k1, k2}
    Ages = {0, 3}
    MinIdle = 1
    Horizon = 3
    Threshold = 60
    NoThing = NoThing
    MaxWrites = 1
VIEW View
INVARIANTS
    GraphTypeOK
    CitationsFollow
    FactsSurvive
    PartitionsHold
    SplitsLeadHome
PROPERTIES
    OnlyDisposableIsPruned
CHECK_DEADLOCK FALSE
