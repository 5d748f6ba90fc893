SPECIFICATION ReadFairSpec
CONSTANTS
    Entries = {1, 2}
    EntryDays = {0, 1, 2}
    WeekDays = 2
    MonthDays = 3
    YearMonths = 2
    FirstToday = 2
    LastToday = 6
    Floor = 1
    Budget = 2
    Poison <- PoisonDays
    MaxAttempts = 2
    MaxFailures = 1
    Inputs = {i, j}
    Nothing = Nothing
    Workers = {w1, w2}
    TheWorker = w1
    Readers = {r}
    MaxChanges = 2
    MaxFaults = 1
    TheSource = s
    TheClaim = c
    Items <- FedItems
    SourceOf <- FedFrom
    NoSource = NoSource
    Partitions = {a, b}
    Mine = a
    Limit = 2
    MaxOpen = 2
    MaxBegun = 4
    MaxLost = 1
INVARIANTS
    ReadTypeOK
    StaleIsRemembered
    NothingMissed
    CaughtUpIsCurrent
    RetractedBodiesAreDropped
PROPERTIES
    EveryPeriodCatchesUp
    ConsumerCatchesUp
    AtlasCatchesUp
    BundleCatchesUp
CHECK_DEADLOCK FALSE
