SPECIFICATION ClaimSpec
CONSTANTS
    Subjects = {s1}
    Told <- Statements
    Mails = 0
    Callers = {p1, p2}
    Times = {1, 2}
    MaxClaims = 2
    Crashes = FALSE
    Nothing = Nothing
INVARIANT OneActivePerSubject
CHECK_DEADLOCK FALSE
