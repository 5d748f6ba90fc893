SPECIFICATION EvidenceSpec
CONSTANTS
    N = 2
    PartitionA = a
    PartitionB = b
    Partitions = {a, b}
    Ingested <- IngestedNames
    Commands = {c1}
    Procs = {p, q}
    MaxVersion = 3
    MaxBegun = 3
    Subjects = {s1}
    Nothing = Nothing
    Told <- EverTold
    Mails = 2
    Callers = {p1, p2}
    Times = {1, 2}
    MaxClaims = 3
    Crashes = TRUE
VIEW View
INVARIANTS
    EvidenceTypeOK
    NoLiveUnderErased
    NoGateCycle
    CalmIsSettled
    UserNeverOverwritten
PROPERTIES
    SerialSpec
    RetiredStaysClosed
    RetryReplaysWhileTheSourceIsThere
    OnlyStalePassesRevive
CHECK_DEADLOCK FALSE
